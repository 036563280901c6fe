---------------------------- MODULE ContextStore ----------------------------
(***************************************************************************)
(* The context store of one tenant (apps/server/src/context): blobs by     *)
(* content, documents by slug, the one distill pass that a language model  *)
(* answers, hybrid search in three reads, and introductions in three more. *)
(* A call gives way at every await; a transaction is one step.             *)
(***************************************************************************)
EXTENDS Retrieval, FiniteSets

CONSTANTS
  Calls,      \* requests in progress
  Contents,   \* the bytes of a blob
  Docs,       \* document slugs
  Keys,       \* entities, each its unique type and slug
  Contacts,   \* those of type person or company
  AnswersLlm, \* what the model may answer, see Normalize
  Strength,   \* relationship scores, in tenths
  Audiences, ArmLimit, SearchLimit, MaxPaths,
  MaxOps,     \* bound on the operations begun
  Nil, Free

DocRows == [body: Contents, summary: BOOLEAN]

(* What the schema of the answer lets pass. *)
Parsed ==
  [entities: Seq([key: Keys, degree: {1, 2, Nil}]),
   links: SUBSET [from: Keys \cup {"doc"}, to: Keys \cup {"doc"}, weight: 0..10]]

ContextAssumption ==
  /\ IsFiniteSet(Docs) /\ IsFiniteSet(Keys) /\ Contacts \subseteq Keys
  /\ \A d \in Docs : <<"doc", d>> \notin Keys
  /\ Nil \notin Calls \cup DocRows \cup {1, 2} /\ AnswersLlm \subseteq Parsed
  /\ Strength \in [Keys -> 0..10] /\ Audiences \subseteq {"network", "prospecting", "all"}
  /\ ArmLimit \in Nat /\ SearchLimit \in Nat \ {0} /\ MaxPaths \in Nat /\ MaxOps \in Nat

VARIABLES
  blob,      \* context.blobs: the call that inserted the content, or Nil
  doc,       \* context.docs: [body, summary], or Nil
  degree,    \* context.entities: key -> 1, 2 or Nil
  links,     \* context.links: [from, to, weight]; a document is <<"doc", slug>>
  events,    \* context.* events, counted by topic and subject
  req,       \* calls in progress
  answered,  \* history: what calls returned
  ops

store == <<blob, doc, degree, links, events>>
vars == <<store, req, answered, ops>>

Init ==
  /\ blob = [b \in Contents |-> Nil]
  /\ doc = [d \in Docs |-> Nil]
  /\ degree = [k \in {} |-> Nil]
  /\ links = {}
  /\ events = [e \in {} |-> 0]
  /\ req = [c \in Calls |-> Free]
  /\ answered = {}
  /\ ops = 0

Begin(c, r) ==
  /\ req[c] = Free /\ ops < MaxOps
  /\ req' = [req EXCEPT ![c] = r]
  /\ ops' = ops + 1

In(c, op, at) == req[c] # Free /\ req[c].op = op /\ req[c].at = at
Goto(c, r) == req' = [req EXCEPT ![c] = r] /\ UNCHANGED ops

Return(c, result) ==
  /\ req' = [req EXCEPT ![c] = Free]
  /\ answered' = answered \cup result
  /\ UNCHANGED ops

Emit(es) ==
  LET old(e) == IF e \in DOMAIN events THEN events[e] ELSE 0
  IN events' = [e \in DOMAIN events \cup es |-> old(e) + IF e \in es THEN 1 ELSE 0]

-----------------------------------------------------------------------------
(* putBlob: look the hash up, store the bytes, insert the row. *)

PutBlob(c, b) ==
  /\ Begin(c, [op |-> "put", at |-> "insert", body |-> b])
  /\ blob[b] = Nil
  /\ UNCHANGED <<store, answered>>

PutKnownBlob(b) ==
  /\ blob[b] # Nil
  /\ answered' = answered \cup {<<"blob", b, blob[b]>>}
  /\ UNCHANGED <<store, req, ops>>

(* Mutant: the loser of the race returns the id it made up. *)
InsertBlobOwn(c) ==
  /\ In(c, "put", "insert")
  /\ LET b == req[c].body IN
       /\ Return(c, {<<"blob", b, c>>})
       /\ IF blob[b] = Nil
            THEN blob' = [blob EXCEPT ![b] = c] /\ Emit({<<"blob.created", b>>})
            ELSE UNCHANGED <<blob, events>>
  /\ UNCHANGED <<doc, degree, links>>

(* The row and its event; another call's row wins by the unique key and is *)
(* returned instead.                                                       *)
InsertBlob(c) ==
  /\ In(c, "put", "insert")
  /\ LET b == req[c].body IN
       IF blob[b] = Nil
         THEN /\ blob' = [blob EXCEPT ![b] = c]
              /\ Emit({<<"blob.created", b>>})
              /\ Return(c, {<<"blob", b, c>>})
         ELSE /\ Return(c, {<<"blob", b, blob[b]>>})
              /\ UNCHANGED <<blob, events>>
  /\ UNCHANGED <<doc, degree, links>>

-----------------------------------------------------------------------------
(* ingestDoc: read the body, cut and embed it, then one transaction; a     *)
(* slug that is taken throws.                                              *)

ReadBody(c, d, b) ==
  /\ blob[b] # Nil
  /\ Begin(c, [op |-> "ingest", at |-> "insert", doc |-> d, body |-> b])
  /\ UNCHANGED <<store, answered>>

(* The document may bring its summary.                                     *)
InsertDoc(c, summary) ==
  /\ In(c, "ingest", "insert")
  /\ LET d == req[c].doc IN
       IF doc[d] = Nil
         THEN /\ doc' = [doc EXCEPT ![d] = [body |-> req[c].body, summary |-> summary]]
              /\ Emit({<<"doc.created", d>>})
         ELSE UNCHANGED <<doc, events>>
  /\ Return(c, {})
  /\ UNCHANGED <<blob, degree, links>>

-----------------------------------------------------------------------------
(* distill *)

(* normalizeDistillOutput: a person or company without a degree is taken   *)
(* for a prospect.                                                         *)
Normalize(answer) ==
  LET graded(e) ==
        IF e.key \in Contacts /\ e.degree = Nil THEN [e EXCEPT !.degree = 2] ELSE e
  IN [answer EXCEPT !.entities =
        [i \in DOMAIN answer.entities |-> graded(answer.entities[i])]]

(* Once per key of an answer, and the first entry is the one that counts.  *)
Extracted(answer) == {answer.entities[i].key : i \in DOMAIN answer.entities}

DegreeIn(answer, k) ==
  answer.entities[CHOOSE i \in DOMAIN answer.entities :
    /\ answer.entities[i].key = k
    /\ \A j \in 1..(i - 1) : answer.entities[j].key # k].degree

LoadDoc(c, d) ==
  /\ doc[d] # Nil /\ ~doc[d].summary
  /\ Begin(c, [op |-> "distill", at |-> "model", doc |-> d])
  /\ UNCHANGED <<store, answered>>

(* The model answers, and the answer parses. *)
Answer(c, a) ==
  /\ In(c, "distill", "model")
  /\ Goto(c, [op |-> "distill", at |-> "write", doc |-> req[c].doc, answer |-> Normalize(a)])
  /\ UNCHANGED <<store, answered>>

(* The links whose ends were extracted, and a mention of every entity. *)
NewLinks(d, answer) ==
  LET known == Extracted(answer) \cup {"doc"}
      end(x) == IF x = "doc" THEN <<"doc", d>> ELSE x
  IN {[from |-> end(l.from), to |-> end(l.to), weight |-> l.weight] :
        l \in {x \in answer.links : x.from \in known /\ x.to \in known}}
     \cup {[from |-> <<"doc", d>>, to |-> k, weight |-> 10] : k \in Extracted(answer)}

(* One transaction, unless the document was distilled meanwhile: entities  *)
(* that exist are left as they are.                                        *)
WriteDistill(c) ==
  /\ In(c, "distill", "write")
  /\ LET d == req[c].doc answer == req[c].answer
         fresh == Extracted(answer) \ DOMAIN degree
     IN IF doc[d].summary
          THEN UNCHANGED <<doc, degree, links, events>>
          ELSE /\ doc' = [doc EXCEPT ![d].summary = TRUE]
               /\ degree' = [k \in DOMAIN degree \cup fresh |->
                    IF k \in fresh THEN DegreeIn(answer, k) ELSE degree[k]]
               /\ links' = links \cup NewLinks(d, answer)
               /\ Emit({<<"doc.distilled", d>>} \cup {<<"entity.created", k>> : k \in fresh})
  /\ Return(c, {})
  /\ UNCHANGED blob

-----------------------------------------------------------------------------
(* search *)

Ingested == {d \in Docs : doc[d] # Nil}

(* A link in either direction ties it to an entity of degree 2. *)
ProspectDocs ==
  {d \in Ingested : \E l \in links :
     /\ <<"doc", d>> \in {l.from, l.to}
     /\ \E k \in {l.from, l.to} \cap DOMAIN degree : degree[k] = 2}

ForAudience(audience) ==
  CASE audience = "all" -> Ingested
    [] audience = "network" -> Ingested \ ProspectDocs
    [] audience = "prospecting" -> ProspectDocs

EntitiesFor(audience) ==
  {k \in DOMAIN degree :
     \/ audience = "all"
     \/ audience = "network" /\ degree[k] \in {1, Nil}
     \/ audience = "prospecting" /\ degree[k] = 2}

(* An arm's hits in the order of its own ranking. *)
Arm(hits) == {Best(s, ArmLimit) : s \in SetToSeqs(hits)}

FtsArm(c, audience) ==
  /\ \E s \in Arm(ForAudience(audience)) :
       Begin(c, [op |-> "search", at |-> "vector", audience |-> audience, fts |-> s,
                 out |-> ProspectDocs])
  /\ UNCHANGED <<store, answered>>

(* Mutant: the vector arm has no audience filter. *)
VectorArmUnfiltered(c) ==
  /\ In(c, "search", "vector")
  /\ \E s \in Arm(Ingested) :
       Goto(c, [op |-> "search", at |-> "entities", audience |-> req[c].audience,
                fts |-> req[c].fts, vector |-> s, out |-> req[c].out])
  /\ UNCHANGED <<store, answered>>

(* After the query was embedded; without a provider the arm is empty. *)
VectorArm(c) ==
  /\ In(c, "search", "vector")
  /\ \E s \in Arm(ForAudience(req[c].audience)) \cup {<<>>} :
       Goto(c, [op |-> "search", at |-> "entities", audience |-> req[c].audience,
                fts |-> req[c].fts, vector |-> s, out |-> req[c].out])
  /\ UNCHANGED <<store, answered>>

(* The names, the fusion and the cut. *)
EntityArm(c) ==
  /\ In(c, "search", "entities")
  /\ \E s \in Arm(EntitiesFor(req[c].audience)) :
       LET tag(t) == [i \in DOMAIN t |-> <<"doc", t[i]>>]
           lists == <<[weight |-> 2, keys |-> tag(req[c].fts)],
                      [weight |-> 2, keys |-> tag(req[c].vector)],
                      [weight |-> 1, keys |-> s]>>
       IN \E fused \in FuseRanked(lists, ArmLimit) :
            Return(c, {<<"search", req[c].audience, req[c].out, Best(fused, SearchLimit)>>})
  /\ UNCHANGED store

-----------------------------------------------------------------------------
(* paths: entities, then links, then scores. *)

ReadNodes(c, target) ==
  /\ target \in DOMAIN degree
  /\ Begin(c, [op |-> "paths", at |-> "links", target |-> target, nodes |-> degree])
  /\ UNCHANGED <<store, answered>>

ReadLinks(c) ==
  /\ In(c, "paths", "links")
  /\ LET known == {l \in links : {l.from, l.to} \subseteq Keys}
     IN \E found \in RankedPaths(req[c].nodes, known, Strength, req[c].target, MaxPaths) :
          Return(c, {<<"paths", req[c].target, found>>})
  /\ UNCHANGED store

-----------------------------------------------------------------------------
(* A statement or the provider throws, or the server dies. *)
CallFails(c) ==
  /\ req[c] # Free
  /\ Return(c, {})
  /\ UNCHANGED store

Next ==
  \/ \E c \in Calls :
       \/ \E b \in Contents : PutBlob(c, b) \/ \E d \in Docs : ReadBody(c, d, b)
       \/ InsertBlob(c) \/ WriteDistill(c)
       \/ \E summary \in BOOLEAN : InsertDoc(c, summary)
       \/ \E d \in Docs : LoadDoc(c, d)
       \/ \E a \in AnswersLlm : Answer(c, a)
       \/ \E audience \in Audiences : FtsArm(c, audience)
       \/ VectorArm(c) \/ EntityArm(c) \/ ReadLinks(c) \/ CallFails(c)
       \/ \E k \in Keys : ReadNodes(c, k)
  \/ \E b \in Contents : PutKnownBlob(b)

Spec == Init /\ [][Next]_vars

-----------------------------------------------------------------------------
TypeOK ==
  /\ blob \in [Contents -> Calls \cup {Nil}]
  /\ doc \in [Docs -> DocRows \cup {Nil}]
  /\ DOMAIN degree \subseteq Keys /\ \A k \in DOMAIN degree : degree[k] \in {1, 2, Nil}
  /\ \A l \in links : l.weight \in 0..10
  /\ \A e \in DOMAIN events : events[e] \in Nat
  /\ ops \in 0..MaxOps

(* Racing puts, ingests and distills write once: one row and one event for *)
(* a content, a slug, an entity and a document's distill pass, and every   *)
(* caller that put a content has the id of the row.                        *)
WrittenOnce ==
  /\ \A e \in DOMAIN events : events[e] = 1
  /\ \A r \in answered : r[1] = "blob" => blob[r[2]] = r[3]

(* What was prospect material when a network search began is not in its    *)
(* answer, whatever is distilled between its three reads, and no contact   *)
(* the model left ungraded either.  (A document that becomes prospect      *)
(* material while the search runs may be.)                                 *)
ProspectsStayOut ==
  \A r \in answered : r[1] = "search" /\ r[2] = "network" =>
    \A i \in DOMAIN r[4] :
      IF r[4][i] \in Keys
        THEN degree[r[4][i]] # 2 /\ (r[4][i] \in Contacts => degree[r[4][i]] = 1)
        ELSE r[4][i][2] \notin r[3]

(* An introduction starts at someone of the network, passes nobody who is  *)
(* a prospect, and every hop is a link of the store, although entities and *)
(* links are read apart.                                                   *)
IntroductionsAreKnown ==
  \A r \in answered : r[1] = "paths" =>
    \A i \in DOMAIN r[3] :
      LET p == r[3][i] IN
        /\ degree[p[1]] = 1 /\ p[Len(p)] = r[2]
        /\ \A n \in 2..(Len(p) - 1) : degree[p[n]] # 2
        /\ \A n \in 1..(Len(p) - 1) : \E l \in links : {l.from, l.to} = {p[n], p[n + 1]}
=============================================================================
