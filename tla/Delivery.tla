------------------------------ MODULE Delivery ------------------------------
(***************************************************************************)
(* Delivery over Slack (apps/server/src/delivery).  Two spine consumers    *)
(* and an ingress share one ledger:                                        *)
(*   delivery.cards    posts a card for a human request, and nudges into   *)
(*                     its thread, and records each attempt;               *)
(*   ingestSlackEvent  stores an inbound message as a document and then    *)
(*                     announces it;                                       *)
(*   delivery.replies  maps an announced thread reply to the card's request*)
(*                     and resolves it.                                    *)
(* Every await is a step boundary.  Slack repeats an envelope whose        *)
(* acknowledgement it has not seen; the spine writes a consumer's cursor   *)
(* once per batch and repeats what did not reach it.  Answers also come    *)
(* from the portal.                                                        *)
(***************************************************************************)
EXTENDS Integers, Sequences, FiniteSets, HumanRequest

CONSTANTS
  Requests,      \* human requests whose channelPrefs include slack
  KindOf,        \* request -> "approval" | "question" | "notification"
  Messages,      \* messages that people may write in the channel
  Words,         \* what they may say
  Elsewhere,     \* how requests are settled outside Slack
  Dispatchers,   \* orchestrator processes
  BatchSizes,    \* how many of its events SCAN_BATCH rows of the log may hold
  Slots,         \* inbound envelopes handled at a time
  MaxActs,       \* bound on requests, follow-ups and messages together
  MaxPosts,      \* bound on the posts in the channel
  MaxFaults,     \* bound on deaths, failing statements and lost answers
  NoOne          \* nobody has resolved the request

ASSUME KindAssumption ==
  /\ KindOf \in [Requests -> {"approval", "question", "notification"}]
  /\ Elsewhere \subseteq RequestStates \ {"pending"}

ASSUME SenderAssumption == NoOne \notin Messages /\ "portal" \notin Messages

Portal == "portal"
NoThread == 0
Consumers == {"cards", "replies"}

VARIABLES
  state,     \* humangate.human_requests.state, "none" before it is requested
  by,        \* who resolved the request: a message or the portal
  asked,     \* the humangate.requested and follow_up events, in order
  heard,     \* the conversation.message events, in order
  cursor,    \* events each consumer has handled
  handler,   \* the batch in progress in each dispatcher, and its handler
  posts,     \* what the bot posted in the channel; the index is the ts
  ledger,    \* delivery.deliveries, in the order of created_at
  said,      \* the messages written: thread and words
  unacked,   \* envelopes that Slack will send (again)
  ingest,    \* the inbound handlers in progress
  docs,      \* messages stored as documents (the slug is unique)
  repeated,  \* messages answered "already ingested"
  faults     \* faults so far

gate     == <<state, by>>
events   == <<asked, heard>>
outbound == <<cursor, handler, posts, ledger>>
inbound  == <<said, unacked, ingest, docs, repeated>>
vars     == <<gate, events, outbound, inbound, faults>>

Idle == [job |-> "idle"]

Init ==
  /\ state = [r \in Requests |-> "none"] /\ by = [r \in Requests |-> NoOne]
  /\ asked = <<>> /\ heard = <<>>
  /\ cursor = [c \in Consumers |-> 0]
  /\ handler = [d \in Dispatchers |-> Idle]
  /\ posts = <<>> /\ ledger = <<>>
  /\ said = <<>> /\ unacked = {}
  /\ ingest = [s \in Slots |-> Idle]
  /\ docs = {} /\ repeated = {} /\ faults = 0

Fault == faults < MaxFaults /\ faults' = faults + 1

-----------------------------------------------------------------------------
(* The human gate and the people at the portal. *)

Acts == Len(asked) + Cardinality(DOMAIN said)

Request(r) ==
  /\ state[r] = "none" /\ Acts < MaxActs
  /\ state' = [state EXCEPT ![r] = "pending"]
  /\ asked' = Append(asked, [topic |-> "requested", request |-> r])
  /\ UNCHANGED <<by, heard, outbound, inbound, faults>>

FollowUp(r) ==
  /\ state[r] = "pending" /\ Acts < MaxActs
  /\ asked' = Append(asked, [topic |-> "follow_up", request |-> r])
  /\ UNCHANGED <<gate, heard, outbound, inbound, faults>>

(* A verdict from the portal, an expiry, or an invalidated subject. *)
SettleElsewhere(r, s) ==
  /\ state[r] # "none"
  /\ s \in RequestTransitions(state[r])
  /\ state' = [state EXCEPT ![r] = s]
  /\ by' = IF s \in Verdicts THEN [by EXCEPT ![r] = Portal] ELSE by
  /\ UNCHANGED <<events, outbound, inbound, faults>>

-----------------------------------------------------------------------------
(* delivery.cards *)

Rows == {ledger[i] : i \in DOMAIN ledger}

Announced == {heard[i] : i \in DOMAIN heard}

IsCard(row) == row.kind = "human_request" /\ row.sent

Idling(d) == handler[d].job = "idle"

Handles(d, h) == handler' = [handler EXCEPT ![d] = h]

Log(c) == IF c = "cards" THEN asked ELSE heard

(* The batches in which d may give the consumer c an event: those that it  *)
(* may read from the log now, or the rest of the one it is at.             *)
Batches(d, c) ==
  IF Idling(d)
  THEN [consumer: {c}, from: {cursor[c]}, at: {cursor[c]},
        to: {n \in (cursor[c] + 1)..Len(Log(c)) :
               n = Len(Log(c)) \/ n - cursor[c] \in BatchSizes}]
  ELSE {b \in {handler[d].batch} :
          handler[d].job = "batch" /\ b.consumer = c /\ b.at < b.to}

(* The event in hand is handled, and the batch goes on. *)
Done(d, b) ==
  Handles(d, [job |-> "batch",
              batch |-> [consumer |-> b.consumer, from |-> b.from, at |-> b.at + 1,
                         to |-> b.to]])

Newest(S) == {i \in S : \A j \in S : j <= i}

CardsOf(r) == {i \in DOMAIN ledger : IsCard(ledger[i]) /\ ledger[i].request = r}

(* findSentCard: the newest sent card of the request, if there is one.      *)
(* A follow-up is a nudge in its thread, or else a card.                    *)
Render(e) ==
  IF e.topic = "follow_up" /\ CardsOf(e.request) # {}
    THEN {[kind |-> "nudge", thread |-> ledger[i].anchor] : i \in Newest(CardsOf(e.request))}
    ELSE {[kind |-> "human_request", thread |-> NoThread]}

(* The request is read first; one that was settled meanwhile gets nothing. *)
TakeCard(d) ==
  \E b \in Batches(d, "cards") :
    LET e == asked[b.at + 1]
    IN /\ IF state[e.request] = "pending"
          THEN \E post \in Render(e) :
                 Handles(d, [job |-> "post", batch |-> b, request |-> e.request,
                             kind |-> post.kind, thread |-> post.thread])
          ELSE Done(d, b)
       /\ UNCHANGED <<gate, events, cursor, posts, ledger, inbound, faults>>

Posted(d) ==
  LET h == handler[d]
  IN posts' = Append(posts, [request |-> h.request, kind |-> h.kind, thread |-> h.thread])

Attempted(d, sent, anchor) ==
  LET h == handler[d]
  IN Handles(d, [job |-> "record", batch |-> h.batch, request |-> h.request,
                 kind |-> h.kind, sent |-> sent, anchor |-> anchor])

(* chat.write under brokered auth. *)
Post(d) ==
  /\ handler[d].job = "post" /\ Len(posts) < MaxPosts
  /\ Posted(d)
  /\ Attempted(d, TRUE, Len(posts) + 1)
  /\ UNCHANGED <<gate, events, cursor, ledger, inbound, faults>>

(* No connection, no connector, no channel, no auth, or Slack says no. *)
PostFails(d) ==
  /\ handler[d].job = "post"
  /\ Attempted(d, FALSE, NoThread)
  /\ UNCHANGED <<gate, events, cursor, posts, ledger, inbound, faults>>

(* The card is posted and Slack's answer is lost. *)
PostUnheard(d) ==
  /\ handler[d].job = "post" /\ Len(posts) < MaxPosts
  /\ Fault
  /\ Posted(d)
  /\ Attempted(d, FALSE, NoThread)
  /\ UNCHANGED <<gate, events, cursor, ledger, inbound>>

(* Mutant: only what was sent is recorded, the failures are logged. *)
RecordSent(d) ==
  LET h == handler[d]
  IN /\ h.job = "record"
     /\ ledger' = IF h.sent
                  THEN Append(ledger, [request |-> h.request, kind |-> h.kind,
                                       sent |-> TRUE, anchor |-> h.anchor])
                  ELSE ledger
     /\ Done(d, h.batch)
     /\ UNCHANGED <<gate, events, cursor, posts, inbound, faults>>

(* recordOutcome: the row, and delivery.sent or delivery.failed with it. *)
RecordOutcome(d) ==
  LET h == handler[d]
  IN /\ h.job = "record"
     /\ ledger' = Append(ledger, [request |-> h.request, kind |-> h.kind,
                                  sent |-> h.sent, anchor |-> h.anchor])
     /\ Done(d, h.batch)
     /\ UNCHANGED <<gate, events, cursor, posts, inbound, faults>>

-----------------------------------------------------------------------------
(* delivery.replies *)

(* Mutant: a reply is about whatever was asked last. *)
FindLatest(thread) ==
  {ledger[i] : i \in Newest({j \in DOMAIN ledger : IsCard(ledger[j])})}

(* findByAnchor: the newest sent row with the thread's anchor, kept by the  *)
(* caller only if it is a card.                                             *)
FindByAnchor(thread) ==
  LET rows == {i \in DOMAIN ledger : ledger[i].sent /\ ledger[i].anchor = thread}
  IN {row \in {ledger[i] : i \in Newest(rows)} : row.kind = "human_request"}

(* parseReplyVerdict: the verdicts that a kind's vocabulary has words for. *)
ParseReply(kind, word) ==
  CASE kind = "approval" /\ word = "approve"             -> {"approved"}
    [] kind = "approval" /\ word = "deny"                -> {"denied"}
    [] kind = "question" /\ word \in {"answer", "option"} -> {"answered"}
    [] kind = "notification" /\ word = "ack"             -> {"acknowledged"}
    [] OTHER                                             -> {}

(* The resolutions that message m asks for: at most one. *)
Verdict(m) ==
  LET found == FindByAnchor(said[m].thread)
  IN {v \in [request: Requests, verdict: Verdicts] :
        \E row \in found :
          /\ v.request = row.request /\ state[row.request] = "pending"
          /\ v.verdict \in ParseReply(KindOf[row.request], said[m].word)}

(* A message outside a card's thread, chatter, or a settled request: none. *)
TakeReply(d) ==
  \E b \in Batches(d, "replies") :
    LET m == heard[b.at + 1]
    IN /\ \/ \E v \in Verdict(m) :
               Handles(d, [job |-> "resolve", batch |-> b, message |-> m,
                           request |-> v.request, verdict |-> v.verdict])
          \/ Verdict(m) = {} /\ Done(d, b)
       /\ UNCHANGED <<gate, events, cursor, posts, ledger, inbound, faults>>

(* Mutant: the request that was read as pending is resolved as it is. *)
ResolveUnguarded(d) ==
  LET h == handler[d]
  IN /\ h.job = "resolve"
     /\ state' = [state EXCEPT ![h.request] = h.verdict]
     /\ by' = [by EXCEPT ![h.request] = h.message]
     /\ Done(d, h.batch)
     /\ UNCHANGED <<events, cursor, posts, ledger, inbound, faults>>

(* resolve checks the transition under the row lock; being late is no error.*)
Resolve(d) ==
  LET h == handler[d]
  IN /\ h.job = "resolve"
     /\ IF h.verdict \in RequestTransitions(state[h.request])
        THEN /\ state' = [state EXCEPT ![h.request] = h.verdict]
             /\ by' = [by EXCEPT ![h.request] = h.message]
        ELSE UNCHANGED gate
     /\ Done(d, h.batch)
     /\ UNCHANGED <<events, cursor, posts, ledger, inbound, faults>>

-----------------------------------------------------------------------------
(* The dispatcher around both. *)

(* The whole batch is handled, and the cursor is written. *)
Finish(d) ==
  LET h == handler[d]
  IN /\ h.job = "batch" /\ h.batch.at = h.batch.to
     /\ cursor' = [cursor EXCEPT ![h.batch.consumer] = h.batch.at]
     /\ Handles(d, Idle)
     /\ UNCHANGED <<gate, events, posts, ledger, inbound, faults>>

(* Mutant: any failure of a reply's handler is taken for a lost race. *)
HandlerDiesQuietly(d) ==
  LET h == handler[d]
  IN /\ ~Idling(d) /\ Fault
     /\ cursor' = IF h.job = "resolve"
                  THEN [cursor EXCEPT !["replies"] = h.batch.at + 1] ELSE cursor
     /\ Handles(d, Idle)
     /\ UNCHANGED <<gate, events, posts, ledger, inbound>>

(* The process dies, or the cursor's statement fails, and the whole batch  *)
(* comes again; or the handler throws, which ends the batch before its     *)
(* event.                                                                  *)
HandlerDies(d) ==
  LET h == handler[d]
  IN /\ ~Idling(d) /\ Fault
     /\ \/ UNCHANGED cursor
        \/ /\ h.batch.from < h.batch.at /\ h.batch.at < h.batch.to
           /\ cursor' = [cursor EXCEPT ![h.batch.consumer] = h.batch.at]
     /\ Handles(d, Idle)
     /\ UNCHANGED <<gate, events, posts, ledger, inbound>>

-----------------------------------------------------------------------------
(* Inbound messages. *)

(* Messages are interchangeable: they come in one order. *)
NextMessage == CHOOSE m \in Messages : m \notin DOMAIN said

(* A person writes in the channel, perhaps in the thread of a post. *)
Say(m, thread, word) ==
  /\ m \notin DOMAIN said /\ m = NextMessage /\ Acts < MaxActs
  /\ thread \in {NoThread} \cup {p \in DOMAIN posts : posts[p].thread = NoThread}
  /\ said' = [k \in DOMAIN said \cup {m} |->
                IF k = m THEN [thread |-> thread, word |-> word] ELSE said[k]]
  /\ unacked' = unacked \cup {m}
  /\ UNCHANGED <<gate, events, outbound, ingest, docs, repeated, faults>>

ShouldIngest(m) == said[m].word # "noise"

(* handleFrame: the envelope is acknowledged first and then handled; Slack  *)
(* may miss the acknowledgement and will send the envelope again.           *)
Receive(s, m) ==
  /\ m \in unacked /\ ingest[s] = Idle
  /\ \/ unacked' = unacked \ {m} /\ UNCHANGED faults
     \/ Fault /\ UNCHANGED unacked
  /\ ingest' = IF ShouldIngest(m)
               THEN [ingest EXCEPT ![s] = [job |-> "doc", message |-> m]] ELSE ingest
  /\ UNCHANGED <<gate, events, outbound, said, docs, repeated>>

(* Mutant: the slug of a document need not be unique. *)
StoreDocAgain(s) ==
  LET m == ingest[s].message
  IN /\ ingest[s].job = "doc"
     /\ docs' = docs \cup {m}
     /\ ingest' = [ingest EXCEPT ![s].job = "announce"]
     /\ UNCHANGED <<gate, events, outbound, said, unacked, repeated, faults>>

(* ingestDoc, in a transaction of its own; a duplicate ends the handling. *)
StoreDoc(s) ==
  LET m == ingest[s].message
  IN /\ ingest[s].job = "doc"
     /\ docs' = docs \cup {m}
     /\ IF m \in docs
        THEN ingest' = [ingest EXCEPT ![s] = Idle] /\ repeated' = repeated \cup {m}
        ELSE ingest' = [ingest EXCEPT ![s].job = "announce"] /\ UNCHANGED repeated
     /\ UNCHANGED <<gate, events, outbound, said, unacked, faults>>

(* A second transaction appends conversation.message. *)
Announce(s) ==
  LET m == ingest[s].message
  IN /\ ingest[s].job = "announce"
     /\ heard' = Append(heard, m)
     /\ ingest' = [ingest EXCEPT ![s] = Idle]
     /\ UNCHANGED <<gate, asked, outbound, said, unacked, docs, repeated, faults>>

(* A failure of the handler is logged: the envelope is acknowledged. *)
IngestDies(s) ==
  /\ ingest[s] # Idle
  /\ Fault
  /\ ingest' = [ingest EXCEPT ![s] = Idle]
  /\ UNCHANGED <<gate, events, outbound, said, unacked, docs, repeated>>

-----------------------------------------------------------------------------
Handler(d) ==
  \/ TakeCard(d) \/ Post(d) \/ PostFails(d) \/ RecordOutcome(d)
  \/ TakeReply(d) \/ Resolve(d) \/ Finish(d)

Ingress(s) == (\E m \in Messages : Receive(s, m)) \/ StoreDoc(s) \/ Announce(s)

People ==
  \/ \E r \in Requests : Request(r) \/ FollowUp(r)
  \/ \E r \in Requests, v \in Elsewhere : SettleElsewhere(r, v)
  \/ \E m \in Messages, t \in 0..MaxPosts, w \in Words : Say(m, t, w)

Faults ==
  \/ \E d \in Dispatchers : PostUnheard(d) \/ HandlerDies(d)
  \/ \E s \in Slots : IngestDies(s)

Next ==
  \/ People \/ Faults
  \/ \E d \in Dispatchers : Handler(d)
  \/ \E s \in Slots : Ingress(s)

Spec == Init /\ [][Next]_vars

(* The poll timer re-arms and every statement and call ends; both consumers *)
(* have their turn in each cycle; Slack sends what is not acknowledged.     *)
FairSpec ==
  /\ Spec
  /\ \A d \in Dispatchers :
       /\ WF_vars(Handler(d))
       /\ SF_vars(TakeCard(d)) /\ SF_vars(TakeReply(d))
  /\ \A s \in Slots : WF_vars(Ingress(s))

-----------------------------------------------------------------------------
Kinds == {"human_request", "nudge"}

Batch(consumers) == [consumer: consumers, from: Nat, at: Nat, to: Nat]

Jobs ==
  {Idle}
    \cup [job: {"batch"}, batch: Batch(Consumers)]
    \cup [job: {"post"}, batch: Batch({"cards"}), request: Requests, kind: Kinds,
          thread: Nat]
    \cup [job: {"record"}, batch: Batch({"cards"}), request: Requests, kind: Kinds,
          sent: BOOLEAN, anchor: Nat]
    \cup [job: {"resolve"}, batch: Batch({"replies"}), message: DOMAIN said,
          request: Requests, verdict: Verdicts]

(* A batch is part of the log, and the event in hand is one of its. *)
InLog(h) ==
  h # Idle =>
    /\ h.batch.at <= h.batch.to /\ h.batch.to <= Len(Log(h.batch.consumer))
    /\ h.job # "batch" => h.batch.at < h.batch.to

(* Rows, posts and events name what exists, and a handler has the shape of  *)
(* the job it is at.                                                        *)
TypeOK ==
  /\ state \in [Requests -> RequestStates \cup {"none"}]
  /\ by \in [Requests -> DOMAIN said \cup {Portal, NoOne}]
  /\ asked \in Seq([topic: {"requested", "follow_up"}, request: Requests])
  /\ heard \in Seq(DOMAIN said)
  /\ cursor \in [Consumers -> Nat]
  /\ handler \in [Dispatchers -> Jobs] /\ \A d \in Dispatchers : InLog(handler[d])
  /\ posts \in Seq([request: Requests, kind: Kinds, thread: Nat])
  /\ ledger \in Seq([request: Requests, kind: Kinds, sent: BOOLEAN, anchor: Nat])
  /\ DOMAIN said \subseteq Messages
  /\ said \in [DOMAIN said -> [thread: Nat, word: Words]]
  /\ unacked \subseteq DOMAIN said
  /\ ingest \in [Slots -> {Idle} \cup [job: {"doc", "announce"}, message: DOMAIN said]]
  /\ docs \subseteq DOMAIN said /\ repeated \subseteq docs
  /\ faults \in Nat

(* A message resolves only the request on whose card it was a reply, and    *)
(* only with the verdict that its words say.                                *)
RepliesReachTheirRequest ==
  \A r \in Requests : by[r] \in Messages =>
    LET t == said[by[r]].thread
    IN /\ t \in DOMAIN posts /\ posts[t].request = r /\ posts[t].kind = "human_request"
       /\ state[r] \in ParseReply(KindOf[r], said[by[r]].word) \cup {"superseded"}

(* Redelivered and concurrent envelopes announce a message once. *)
AnnouncedOnce ==
  \A i, j \in DOMAIN heard : heard[i] = heard[j] => i = j

(* Whoever answers first, in Slack or in the portal, is the one who did: a  *)
(* settled request keeps its verdict, or is superseded.                     *)
FirstVerdictStands ==
  [][\A r \in Requests :
       state[r] \notin {"none", "pending"} =>
         state'[r] \in {state[r], "superseded"} /\ by'[r] = by[r]]_vars

(* Every handled event has left a row, a failure included, unless its       *)
(* request was settled first; and follow-ups nudge in the thread of the card*)
(* instead of posting another: only a fault makes a second one.             *)
About(r, log) == {i \in DOMAIN log : log[i].request = r}

CardsMatchEvents ==
  \A r \in Requests :
    /\ state[r] = "pending" =>
         Cardinality(About(r, ledger)) >= Cardinality(About(r, asked) \cap 1..cursor["cards"])
    /\ Cardinality({p \in About(r, posts) : posts[p].kind = "human_request"}) <= 1 + faults

(* What people write is announced, if nothing fails; and an announced reply *)
(* on a recorded card settles its request, whatever failed, unless the words*)
(* mean nothing.                                                            *)
RepliesAreHeard ==
  \A m \in Messages :
    /\ (m \in DOMAIN said /\ said[m].word # "noise") ~> (m \in Announced \/ faults > 0)
    /\ \A r \in Requests :
         (/\ m \in Announced /\ state[r] = "pending"
          /\ \E row \in Rows : IsCard(row) /\ row.request = r /\ row.anchor = said[m].thread
          /\ ParseReply(KindOf[r], said[m].word) # {})
           ~> state[r] # "pending"

(* "A duplicate-key violation means this exact message already landed (and  *)
(* already emitted its conversation.message)", or is about to.              *)
RepeatedIsAnnounced ==
  \A m \in repeated :
    m \in Announced \/ \E s \in Slots : ingest[s] # Idle /\ ingest[s].message = m
=============================================================================
