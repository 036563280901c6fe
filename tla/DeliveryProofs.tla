--------------------------- MODULE DeliveryProofs ---------------------------
(***************************************************************************)
(* Proofs about delivery over Slack, for any requests, messages and        *)
(* dispatchers, with any number of faults.                                 *)
(***************************************************************************)
EXTENDS Delivery, SequenceTheorems, FiniteSetTheorems, TLAPS

Row == [request: Requests, kind: Kinds, sent: BOOLEAN, anchor: Nat]
PostRow == [request: Requests, kind: Kinds, thread: Nat]
Ask == [topic: {"requested", "follow_up"}, request: Requests]

(* What appending to a log does. *)
LEMMA Appended ==
  ASSUME NEW S, NEW log \in Seq(S), NEW e \in S
  PROVE  /\ Append(log, e) \in Seq(S)
         /\ DOMAIN log = 1..Len(log) /\ Len(log) \in Nat
         /\ DOMAIN Append(log, e) = DOMAIN log \cup {Len(log) + 1}
         /\ Len(log) + 1 \notin DOMAIN log
         /\ Append(log, e)[Len(log) + 1] = e
         /\ \A i \in DOMAIN log : Append(log, e)[i] = log[i]
OBVIOUS

(* Reading the logs. *)
LEMMA LogsTyped ==
  ASSUME TypeOK
  PROVE  /\ asked \in Seq(Ask) /\ Len(asked) \in Nat /\ DOMAIN asked = 1..Len(asked)
         /\ \A i \in DOMAIN asked : asked[i] \in Ask
         /\ heard \in Seq(DOMAIN said) /\ Len(heard) \in Nat /\ DOMAIN heard = 1..Len(heard)
         /\ \A i \in DOMAIN heard : heard[i] \in DOMAIN said
         /\ posts \in Seq(PostRow) /\ Len(posts) \in Nat /\ DOMAIN posts = 1..Len(posts)
         /\ \A i \in DOMAIN posts : posts[i] \in PostRow
         /\ ledger \in Seq(Row) /\ Len(ledger) \in Nat /\ DOMAIN ledger = 1..Len(ledger)
         /\ \A i \in DOMAIN ledger : ledger[i] \in Row
<1>1. /\ asked \in Seq(Ask) /\ heard \in Seq(DOMAIN said)
      /\ posts \in Seq(PostRow) /\ ledger \in Seq(Row)
  BY DEF TypeOK, Ask, PostRow, Row
<1> QED BY <1>1, LenProperties, ElementOfSeq

(* A handler's record tells its job. *)
LEMMA JobShape ==
  ASSUME TypeOK, NEW d \in Dispatchers
  PROVE  LET h == handler[d] IN
         /\ h.job = "post" => h \in [job: {"post"}, batch: Batch({"cards"}),
                                     request: Requests, kind: Kinds, thread: Nat]
         /\ h.job = "record" => h \in [job: {"record"}, batch: Batch({"cards"}),
                                       request: Requests, kind: Kinds, sent: BOOLEAN,
                                       anchor: Nat]
         /\ h.job = "resolve" => h \in [job: {"resolve"}, batch: Batch({"replies"}),
                                        message: DOMAIN said, request: Requests,
                                        verdict: Verdicts]
         /\ h.job = "batch" => h \in [job: {"batch"}, batch: Batch(Consumers)]
         /\ h # Idle => h.batch \in Batch(Consumers) /\ InLog(h)
         /\ h.job = "idle" => h = Idle
         /\ h # Idle => h.job # "idle"
<1>1. handler[d] \in Jobs /\ InLog(handler[d])
  BY DEF TypeOK
<1>2. Batch({"cards"}) \subseteq Batch(Consumers) /\ Batch({"replies"}) \subseteq Batch(Consumers)
  BY DEF Batch, Consumers
<1> HIDE DEF Batch
<1> QED BY <1>1, <1>2 DEF Jobs, Idle

(* The batch that a dispatcher takes an event from: a part of the log, not *)
(* yet at its end.                                                         *)
LEMMA BatchShape ==
  ASSUME TypeOK, NEW d \in Dispatchers, NEW c \in Consumers, NEW b \in Batches(d, c)
  PROVE  /\ b \in Batch({c}) /\ b.at < b.to /\ b.to <= Len(Log(c))
         /\ b.at + 1 \in DOMAIN Log(c)
         /\ \/ handler[d] = Idle /\ b.at = cursor[c]
            \/ handler[d].job = "batch" /\ handler[d].batch = b
<1>1. Len(Log(c)) \in Nat /\ DOMAIN Log(c) = 1..Len(Log(c)) /\ cursor[c] \in Nat
  BY LogsTyped DEF Log, TypeOK
<1>2. CASE Idling(d)
  <2>1. b \in [consumer: {c}, from: {cursor[c]}, at: {cursor[c]},
               to: (cursor[c] + 1)..Len(Log(c))]
    BY <1>2 DEF Batches
  <2>2. handler[d] = Idle
    BY <1>2, JobShape DEF Idling
  <2> QED BY <1>1, <2>1, <2>2 DEF Batch
<1>3. CASE ~Idling(d)
  <2>1. b = handler[d].batch /\ handler[d].job = "batch" /\ b.consumer = c /\ b.at < b.to
    BY <1>3 DEF Batches
  <2>2. b \in Batch(Consumers) /\ InLog(handler[d]) /\ handler[d] # Idle
    BY <2>1, JobShape DEF Idle
  <2>3. b.to <= Len(Log(c)) /\ b \in Batch({c})
    BY <2>1, <2>2 DEF InLog, Batch
  <2> QED BY <1>1, <2>1, <2>3 DEF Batch
<1> QED BY <1>2, <1>3

(* Where a batch stands when the event in hand is handled. *)
Between(b) ==
  [job |-> "batch", batch |-> [consumer |-> b.consumer, from |-> b.from, at |-> b.at + 1,
                               to |-> b.to]]

LEMMA BetweenShape ==
  ASSUME NEW b \in Batch(Consumers)
  PROVE  /\ Between(b) \in Jobs /\ Between(b).job = "batch" /\ Between(b) # Idle
         /\ Between(b).batch.consumer = b.consumer /\ Between(b).batch.at = b.at + 1
         /\ b.at < b.to /\ b.to <= Len(Log(b.consumer)) => InLog(Between(b))
<1>1. Between(b) \in [job: {"batch"}, batch: Batch(Consumers)] /\ Between(b).job = "batch"
  BY DEF Between, Batch
<1>2. /\ Between(b).batch.consumer = b.consumer /\ Between(b).batch.at = b.at + 1
      /\ Between(b).batch.to = b.to /\ b.at \in Nat /\ b.to \in Nat
  BY DEF Between, Batch
<1>3. Between(b) # Idle
  BY <1>1 DEF Idle
<1>4. Between(b) \in Jobs
  BY <1>1 DEF Jobs
<1>5. b.at < b.to /\ b.to <= Len(Log(b.consumer)) => InLog(Between(b))
  BY <1>1, <1>2 DEF InLog
<1> QED BY <1>1, <1>2, <1>3, <1>4, <1>5

LEMMA IngestShape ==
  ASSUME TypeOK, NEW s \in Slots, ingest[s].job \in {"doc", "announce"}
  PROVE  ingest[s] \in [job: {"doc", "announce"}, message: DOMAIN said]
BY DEF TypeOK, Idle

LEMMA FoundByAnchor ==
  ASSUME TypeOK, NEW thread, NEW row \in FindByAnchor(thread)
  PROVE  \E i \in DOMAIN ledger : row = ledger[i] /\ IsCard(row) /\ row.anchor = thread
BY DEF FindByAnchor, IsCard, Newest

(* A dispatcher's step changes its own job only. *)
LEMMA HandlesOne ==
  ASSUME TypeOK, NEW d \in Dispatchers, NEW h, Handles(d, h)
  PROVE  \A b \in Dispatchers : handler'[b] = IF b = d THEN h ELSE handler[b]
BY DEF Handles, TypeOK

HandlersTyped ==
  handler \in [Dispatchers -> Jobs] /\ \A d \in Dispatchers : InLog(handler[d])

(* The logs only grow: a batch of one stays a batch of it. *)
LEMMA InLogStays ==
  ASSUME TypeOK, NEW h \in Jobs, InLog(h), Len(asked') \in Nat, Len(heard') \in Nat,
         Len(asked) <= Len(asked'), Len(heard) <= Len(heard')
  PROVE  InLog(h)'
<1>1. CASE h = Idle
  BY <1>1 DEF InLog, Idle
<1>2. CASE h # Idle
  <2>1. h.batch \in Batch(Consumers)
    BY <1>2 DEF Jobs, Batch, Consumers
  <2>2. h.batch.to \in Nat /\ h.batch.at <= h.batch.to
        /\ h.batch.to <= Len(Log(h.batch.consumer))
        /\ (h.job # "batch" => h.batch.at < h.batch.to)
    BY <1>2, <2>1 DEF InLog, Batch
  <2>3. h.batch.to <= Len(Log(h.batch.consumer)')
    BY <2>2, LogsTyped DEF Log
  <2> QED BY <2>2, <2>3 DEF InLog, Log
<1> QED BY <1>1, <1>2

LEMMA HandlesType ==
  ASSUME TypeOK, NEW d \in Dispatchers, NEW h \in Jobs, InLog(h), Handles(d, h),
         UNCHANGED <<said, asked, heard>>
  PROVE  HandlersTyped'
<1>1. handler' \in [Dispatchers -> Jobs]
  BY DEF Handles, TypeOK
<1>2. Jobs' = Jobs
  BY DEF Jobs
<1>3. \A b \in Dispatchers : InLog(handler[b])'
  BY HandlesOne DEF InLog, Log, TypeOK
<1> QED BY <1>1, <1>2, <1>3 DEF HandlersTyped

LEMMA DoneType ==
  ASSUME TypeOK, NEW d \in Dispatchers, NEW b \in Batch(Consumers), Done(d, b),
         b.at < b.to, b.to <= Len(Log(b.consumer)), UNCHANGED <<said, asked, heard>>
  PROVE  HandlersTyped'
<1>1. Handles(d, Between(b))
  BY DEF Done, Between
<1> QED BY <1>1, BetweenShape, HandlesType

(* Handlers that wait while the logs and the messages grow. *)
LEMMA HandlersWait ==
  ASSUME TypeOK, UNCHANGED handler, DOMAIN said \subseteq DOMAIN said',
         Len(asked') \in Nat, Len(heard') \in Nat,
         Len(asked) <= Len(asked'), Len(heard) <= Len(heard')
  PROVE  HandlersTyped'
<1>1. Jobs \subseteq Jobs'
  BY DEF Jobs
<1>2. \A d \in Dispatchers : handler[d] \in Jobs /\ InLog(handler[d])
  BY DEF TypeOK
<1>3. \A d \in Dispatchers : InLog(handler[d])'
  <2> SUFFICES ASSUME NEW d \in Dispatchers PROVE InLog(handler[d])'
    OBVIOUS
  <2>1. \A h : h = handler[d] => InLog(h)'
    BY <1>2, InLogStays
  <2> QED BY <2>1 DEF InLog, Log
<1> QED BY <1>1, <1>3 DEF HandlersTyped, TypeOK

LEMMA TypeStep == TypeOK /\ [Next]_vars => TypeOK'
<1> SUFFICES ASSUME TypeOK, [Next]_vars PROVE TypeOK'
  OBVIOUS
<1> USE KindAssumption DEF gate, events, outbound, inbound
<1>j. UNCHANGED <<said, asked, heard, handler>> => HandlersTyped'
  BY HandlersWait, LogsTyped
<1>k. HandlersTyped' => handler' \in [Dispatchers -> Jobs']
                          /\ \A d \in Dispatchers : InLog(handler[d])'
  BY DEF HandlersTyped
<1>1. ASSUME NEW r \in Requests, Request(r) \/ FollowUp(r) PROVE TypeOK'
  <2>1. PICK e \in Ask : asked' = Append(asked, e)
    BY <1>1 DEF Request, FollowUp, Ask
  <2>2. asked' \in Seq(Ask) /\ Len(asked') = Len(asked) + 1
    BY <2>1, LogsTyped, Appended
  <2>3. HandlersTyped'
    BY <1>1, <2>2, HandlersWait, LogsTyped DEF Request, FollowUp
  <2> QED BY <1>1, <1>k, <2>2, <2>3 DEF Request, FollowUp, TypeOK, RequestStates, Ask
<1>2. ASSUME NEW r \in Requests, NEW v \in Elsewhere, SettleElsewhere(r, v) PROVE TypeOK'
  BY <1>2, <1>j, <1>k DEF SettleElsewhere, TypeOK
<1>3. ASSUME NEW m \in Messages, NEW t \in 0..MaxPosts, NEW w \in Words, Say(m, t, w)
      PROVE TypeOK'
  <2>1. /\ m \notin DOMAIN said /\ DOMAIN said' = DOMAIN said \cup {m}
        /\ \A k \in DOMAIN said : said'[k] = said[k]
        /\ said'[m] = [thread |-> t, word |-> w]
        /\ unacked' = unacked \cup {m}
        /\ UNCHANGED <<gate, events, outbound, ingest, docs, repeated, faults>>
    BY <1>3 DEF Say
  <2>2. HandlersTyped'
    BY <2>1, HandlersWait, LogsTyped
  <2>3. handler' \in [Dispatchers -> Jobs'] /\ \A d \in Dispatchers : InLog(handler[d])'
    BY <1>k, <2>2
  <2>4. t \in Nat
    BY <1>3, <2>1 DEF Say
  <2>5. said' \in [DOMAIN said' -> [thread: Nat, word: Words]]
    BY <1>3, <2>1, <2>4 DEF TypeOK, Say
  <2>6. heard' \in Seq(DOMAIN said')
    BY <2>1, SeqMonotonic DEF TypeOK
  <2> QED BY <2>1, <2>3, <2>5, <2>6 DEF TypeOK
<1>4. ASSUME NEW d \in Dispatchers, TakeCard(d) PROVE TypeOK'
  <2>1. PICK b \in Batches(d, "cards") :
          IF state[asked[b.at + 1].request] = "pending"
          THEN \E post \in Render(asked[b.at + 1]) :
                 Handles(d, [job |-> "post", batch |-> b, request |-> asked[b.at + 1].request,
                             kind |-> post.kind, thread |-> post.thread])
          ELSE Done(d, b)
    BY <1>4 DEF TakeCard
  <2> DEFINE e == asked[b.at + 1]
  <2>2. b \in Batch({"cards"}) /\ b.at < b.to /\ b.to <= Len(asked) /\ e \in Ask
    <3>1. "cards" \in Consumers /\ Log("cards") = asked
      BY DEF Consumers, Log
    <3> QED BY <3>1, BatchShape, LogsTyped
  <2>3. UNCHANGED <<gate, events, cursor, posts, ledger, inbound, faults>>
    BY <1>4 DEF TakeCard
  <2>4. b \in Batch(Consumers) /\ b.consumer = "cards" /\ Log(b.consumer) = asked
    BY <2>2 DEF Batch, Consumers, Log
  <2> HIDE DEF e
  <2>5. CASE state[e.request] = "pending"
    <3>1. PICK post \in Render(e) :
            Handles(d, [job |-> "post", batch |-> b, request |-> e.request,
                        kind |-> post.kind, thread |-> post.thread])
      BY <2>1, <2>5 DEF e
    <3>2. post.kind \in Kinds /\ post.thread \in Nat
      <4>1. \A k \in DOMAIN ledger : ledger[k].anchor \in Nat
        BY LogsTyped DEF Row
      <4>2. Newest(CardsOf(e.request)) \subseteq DOMAIN ledger
        BY DEF Newest, CardsOf
      <4> QED BY <4>1, <4>2 DEF Render, Kinds, NoThread
    <3> DEFINE h == [job |-> "post", batch |-> b, request |-> e.request,
                     kind |-> post.kind, thread |-> post.thread]
    <3>3. h \in Jobs
      BY <2>2, <3>2 DEF Jobs, Ask
    <3>4. InLog(h)
      BY <2>2, <2>4 DEF InLog, Batch
    <3> HIDE DEF h
    <3>5. HandlersTyped'
      BY <2>3, <3>1, <3>3, <3>4, HandlesType DEF h
    <3> QED BY <1>k, <2>3, <3>5 DEF TypeOK
  <2>6. CASE state[e.request] # "pending"
    <3>1. Done(d, b)
      BY <2>1, <2>6 DEF e
    <3>2. HandlersTyped'
      BY <2>2, <2>3, <2>4, <3>1, DoneType
    <3> QED BY <1>k, <2>3, <3>2 DEF TypeOK
  <2> QED BY <2>5, <2>6
<1>5. ASSUME NEW d \in Dispatchers, Post(d) \/ PostUnheard(d) \/ PostFails(d) PROVE TypeOK'
  <2> DEFINE h == handler[d]
  <2>1. PICK sent \in BOOLEAN, anchor \in Nat : Attempted(d, sent, anchor)
    <3>1. Len(posts) + 1 \in Nat /\ NoThread \in Nat
      BY DEF TypeOK, NoThread
    <3> QED BY <1>5, <3>1 DEF Post, PostUnheard, PostFails
  <2>2. /\ h.job = "post" /\ h # Idle /\ h.batch \in Batch({"cards"}) /\ InLog(h)
        /\ h.request \in Requests /\ h.kind \in Kinds /\ h.thread \in Nat
    <3>1. h.job = "post"
      BY <1>5 DEF Post, PostUnheard, PostFails
    <3>2. h # Idle
      BY <3>1 DEF Idle
    <3> QED BY <3>1, <3>2, JobShape
  <2>3. posts' = posts \/ Posted(d)
    BY <1>5 DEF Post, PostUnheard, PostFails
  <2>4. posts' \in Seq(PostRow)
    <3> DEFINE p == [request |-> h.request, kind |-> h.kind, thread |-> h.thread]
    <3>1. posts \in Seq(PostRow) /\ p \in PostRow
      BY <2>2 DEF TypeOK, PostRow
    <3>2. posts' = posts \/ posts' = Append(posts, p)
      BY <2>3 DEF Posted
    <3> HIDE DEF p
    <3> QED BY <3>1, <3>2, Appended
  <2>5. handler' \in [Dispatchers -> Jobs'] /\ \A b \in Dispatchers : InLog(handler[b])'
    <3> DEFINE k == [job |-> "record", batch |-> h.batch, request |-> h.request,
                     kind |-> h.kind, sent |-> sent, anchor |-> anchor]
    <3>1. k \in Jobs /\ k.batch = h.batch /\ k.job = "record"
      BY <2>2 DEF Jobs
    <3>2. Handles(d, k)
      BY <2>1 DEF Attempted
    <3>3. InLog(k)
      BY <2>2, <3>1 DEF InLog
    <3> HIDE DEF k
    <3>4. UNCHANGED <<said, asked, heard>>
      BY <1>5 DEF Post, PostUnheard, PostFails
    <3> QED BY <1>k, <3>1, <3>2, <3>3, <3>4, HandlesType
  <2>6. faults' \in Nat
    <3>1. faults' = faults \/ faults' = faults + 1
      BY <1>5 DEF Post, PostUnheard, PostFails, Fault
    <3> QED BY <3>1 DEF TypeOK
  <2>7. UNCHANGED <<gate, events, cursor, ledger, inbound>>
    BY <1>5 DEF Post, PostUnheard, PostFails
  <2> QED BY <2>4, <2>5, <2>6, <2>7 DEF TypeOK, PostRow
<1>6. ASSUME NEW d \in Dispatchers, RecordOutcome(d) PROVE TypeOK'
  <2>1. /\ handler[d].job = "record" /\ handler[d] # Idle /\ InLog(handler[d])
        /\ handler[d].batch \in Batch(Consumers)
        /\ [request |-> handler[d].request, kind |-> handler[d].kind,
            sent |-> handler[d].sent, anchor |-> handler[d].anchor] \in Row
    BY <1>6, JobShape DEF RecordOutcome, Row, Idle
  <2>2. ledger' \in Seq(Row)
    BY <1>6, <2>1, Appended DEF RecordOutcome, TypeOK, Row
  <2>3. HandlersTyped'
    BY <1>6, <2>1, DoneType DEF RecordOutcome, InLog
  <2> QED BY <1>6, <1>k, <2>2, <2>3 DEF RecordOutcome, TypeOK, Row
<1>7. ASSUME NEW d \in Dispatchers, TakeReply(d) PROVE TypeOK'
  <2>1. PICK b \in Batches(d, "replies") :
          \/ \E v \in Verdict(heard[b.at + 1]) :
               Handles(d, [job |-> "resolve", batch |-> b, message |-> heard[b.at + 1],
                           request |-> v.request, verdict |-> v.verdict])
          \/ Done(d, b)
    BY <1>7 DEF TakeReply
  <2> DEFINE m == heard[b.at + 1]
  <2>2. b \in Batch({"replies"}) /\ b.at < b.to /\ b.to <= Len(heard) /\ m \in DOMAIN said
    <3>1. "replies" \in Consumers /\ Log("replies") = heard
      BY DEF Consumers, Log
    <3> QED BY <3>1, BatchShape, LogsTyped
  <2>3. UNCHANGED <<gate, events, cursor, posts, ledger, inbound, faults>>
    BY <1>7 DEF TakeReply
  <2>4. b \in Batch(Consumers) /\ b.consumer = "replies" /\ Log(b.consumer) = heard
    BY <2>2 DEF Batch, Consumers, Log
  <2>5. HandlersTyped'
    <3>1. CASE Done(d, b)
      BY <2>2, <2>3, <2>4, <3>1, DoneType
    <3>2. ASSUME NEW v \in Verdict(m),
                 Handles(d, [job |-> "resolve", batch |-> b, message |-> m,
                             request |-> v.request, verdict |-> v.verdict])
          PROVE  HandlersTyped'
      <4> DEFINE h == [job |-> "resolve", batch |-> b, message |-> m,
                       request |-> v.request, verdict |-> v.verdict]
      <4>1. v.request \in Requests /\ v.verdict \in Verdicts
        BY <3>2 DEF Verdict
      <4> HIDE DEF m
      <4>2. h \in Jobs
        BY <2>2, <4>1 DEF Jobs
      <4>3. InLog(h)
        BY <2>2, <2>4 DEF InLog, Batch
      <4> HIDE DEF h
      <4> QED BY <2>3, <3>2, <4>2, <4>3, HandlesType DEF h
    <3> QED BY <2>1, <3>1, <3>2
  <2> QED BY <1>k, <2>3, <2>5 DEF TypeOK
<1>8. ASSUME NEW d \in Dispatchers, Resolve(d) PROVE TypeOK'
  <2>1. /\ handler[d].job = "resolve" /\ handler[d] # Idle /\ InLog(handler[d])
        /\ handler[d].batch \in Batch(Consumers)
        /\ handler[d].message \in DOMAIN said /\ handler[d].request \in Requests
        /\ handler[d].verdict \in Verdicts
    BY <1>8, JobShape DEF Resolve, Idle
  <2>2. HandlersTyped'
    BY <1>8, <2>1, DoneType DEF Resolve, InLog
  <2>3. Verdicts \subseteq RequestStates
    BY DEF Verdicts, RequestStates
  <2> QED BY <1>8, <1>k, <2>1, <2>2, <2>3 DEF Resolve, TypeOK
<1>9. ASSUME NEW d \in Dispatchers, Finish(d) \/ HandlerDies(d) PROVE TypeOK'
  <2>1. /\ Handles(d, Idle) /\ Idle \in Jobs /\ InLog(Idle)
        /\ UNCHANGED <<gate, events, posts, ledger, inbound>>
    BY <1>9 DEF Finish, HandlerDies, Jobs, InLog
  <2>2. HandlersTyped'
    BY <2>1, HandlesType
  <2>3. cursor' \in [Consumers -> Nat] /\ faults' \in Nat
    <3>1. handler[d] # Idle
      BY <1>9 DEF Finish, HandlerDies, Idling, Idle
    <3>2. handler[d].batch.consumer \in Consumers /\ handler[d].batch.at \in Nat
      BY <3>1, JobShape DEF Batch
    <3>3. faults' = faults \/ faults' = faults + 1
      BY <1>9 DEF Finish, HandlerDies, Fault
    <3>4. \/ cursor' = cursor
          \/ cursor' = [cursor EXCEPT ![handler[d].batch.consumer] = handler[d].batch.at]
      BY <1>9 DEF Finish, HandlerDies
    <3>5. cursor \in [Consumers -> Nat] /\ faults \in Nat
      BY DEF TypeOK
    <3>6. cursor' \in [Consumers -> Nat]
      BY <3>2, <3>4, <3>5
    <3> QED BY <3>3, <3>5, <3>6
  <2> QED BY <1>k, <2>1, <2>2, <2>3 DEF TypeOK
<1>10. ASSUME NEW s \in Slots, NEW m \in Messages, Receive(s, m) PROVE TypeOK'
  BY <1>10, <1>j, <1>k DEF Receive, Fault, TypeOK
<1>11. ASSUME NEW s \in Slots, StoreDoc(s) PROVE TypeOK'
  <2>1. ingest[s] \in [job: {"doc", "announce"}, message: DOMAIN said]
    BY <1>11, IngestShape DEF StoreDoc
  <2>2. [ingest[s] EXCEPT !.job = "announce"] \in [job: {"doc", "announce"}, message: DOMAIN said]
    BY <2>1
  <2>3. ingest' = [ingest EXCEPT ![s] = Idle]
        \/ ingest' = [ingest EXCEPT ![s] = [ingest[s] EXCEPT !.job = "announce"]]
    BY <1>11 DEF StoreDoc, TypeOK
  <2>4. ingest' \in [Slots -> {Idle} \cup [job: {"doc", "announce"}, message: DOMAIN said]]
    BY <2>2, <2>3 DEF TypeOK
  <2> QED BY <1>11, <1>j, <1>k, <2>1, <2>4 DEF StoreDoc, TypeOK
<1>12. ASSUME NEW s \in Slots, Announce(s) PROVE TypeOK'
  <2>1. ingest[s] \in [job: {"doc", "announce"}, message: DOMAIN said]
    BY <1>12, IngestShape DEF Announce
  <2>2. heard' \in Seq(DOMAIN said) /\ Len(heard') = Len(heard) + 1
    BY <1>12, <2>1, LogsTyped, Appended DEF Announce
  <2>3. HandlersTyped'
    BY <1>12, <2>2, HandlersWait, LogsTyped DEF Announce
  <2> QED BY <1>12, <1>k, <2>2, <2>3 DEF Announce, TypeOK
<1>13. ASSUME NEW s \in Slots, IngestDies(s) PROVE TypeOK'
  BY <1>13, <1>j, <1>k DEF IngestDies, Fault, TypeOK
<1>14. CASE UNCHANGED vars
  BY <1>14, <1>j, <1>k DEF vars, TypeOK
<1> QED
  BY <1>1, <1>2, <1>3, <1>4, <1>5, <1>6, <1>7, <1>8, <1>9, <1>10, <1>11, <1>12, <1>13, <1>14
  DEF Next, People, Faults, Handler, Ingress

(* Type correctness of the gate's requests, the ledger, the channel, the   *)
(* documents and every handler in progress.                                *)
THEOREM TypeCorrect == Spec => []TypeOK
<1>1. Init => TypeOK
  BY DEF Init, TypeOK, Jobs, Consumers, InLog
<1> QED BY <1>1, TypeStep, PTL DEF Spec
-----------------------------------------------------------------------------
(* The gate's rows: only a request and the two ways to settle write them.  *)
LEMMA GateSteps ==
  ASSUME TypeOK, [Next]_vars
  PROVE  \/ UNCHANGED gate
         \/ \E r \in Requests : Request(r)
         \/ \E r \in Requests, v \in Elsewhere : SettleElsewhere(r, v)
         \/ \E d \in Dispatchers : Resolve(d)
BY DEF Next, People, Faults, Handler, Ingress, vars, FollowUp, Say, TakeCard, Post,
       PostFails, PostUnheard, RecordOutcome, TakeReply, Finish, HandlerDies, Receive,
       StoreDoc, Announce, IngestDies

(* What settles a settled request is no verdict. *)
LEMMA SettledOnly ==
  ASSUME NEW from, NEW to \in RequestTransitions(from), from # "pending"
  PROVE  to = "superseded" /\ to \notin Verdicts
BY DEF RequestTransitions, Verdicts

LEMMA VerdictStep ==
  ASSUME TypeOK, [Next]_vars, NEW r \in Requests, state[r] \notin {"none", "pending"}
  PROVE  state'[r] \in {state[r], "superseded"} /\ by'[r] = by[r]
<1>1. CASE UNCHANGED gate
  BY <1>1 DEF gate
<1>2. ASSUME NEW q \in Requests, Request(q)
      PROVE state'[r] \in {state[r], "superseded"} /\ by'[r] = by[r]
  BY <1>2 DEF Request, TypeOK
<1>3. ASSUME NEW q \in Requests, NEW v \in Elsewhere, SettleElsewhere(q, v)
      PROVE state'[r] \in {state[r], "superseded"} /\ by'[r] = by[r]
  <2>1. q = r => v = "superseded" /\ v \notin Verdicts
    BY <1>3, SettledOnly DEF SettleElsewhere
  <2> QED BY <1>3, <2>1 DEF SettleElsewhere, TypeOK
<1>4. ASSUME NEW d \in Dispatchers, Resolve(d)
      PROVE state'[r] \in {state[r], "superseded"} /\ by'[r] = by[r]
  <2>1. handler[d].verdict \in Verdicts
    BY <1>4, JobShape DEF Resolve
  <2>2. handler[d].request = r => handler[d].verdict \notin RequestTransitions(state[r])
    BY <2>1, SettledOnly
  <2> QED BY <1>4, <2>2 DEF Resolve, TypeOK, gate
<1> QED BY <1>1, <1>2, <1>3, <1>4, GateSteps

(* The first verdict stands, from Slack or the portal, however the two     *)
(* race: resolve checks the transition table again under the row lock.     *)
THEOREM TheFirstVerdictStands == Spec => FirstVerdictStands
<1>1. TypeOK /\ [Next]_vars =>
        [\A r \in Requests :
           state[r] \notin {"none", "pending"} =>
             state'[r] \in {state[r], "superseded"} /\ by'[r] = by[r]]_vars
  BY VerdictStep
<1> QED BY <1>1, TypeCorrect, PTL DEF Spec, FirstVerdictStands
-----------------------------------------------------------------------------
(* Inbound: a document is stored by one handler, which alone will announce *)
(* it, and what is announced is stored.                                    *)
Announcing(s) == ingest[s].job = "announce"

AnnounceInv ==
  /\ \A i \in DOMAIN heard : heard[i] \in docs
  /\ \A s \in Slots : Announcing(s) =>
       /\ ingest[s].message \in docs
       /\ \A i \in DOMAIN heard : heard[i] # ingest[s].message
       /\ \A u \in Slots :
            Announcing(u) /\ ingest[u].message = ingest[s].message => u = s
  /\ AnnouncedOnce

LEMMA AnnounceStep == TypeOK /\ AnnounceInv /\ [Next]_vars => AnnounceInv'
<1> SUFFICES ASSUME TypeOK, AnnounceInv, [Next]_vars PROVE AnnounceInv'
  OBVIOUS
<1> USE DEF Announcing, events
<1>1. CASE UNCHANGED <<heard, ingest, docs>>
  BY <1>1 DEF AnnounceInv, AnnouncedOnce
<1>2. ASSUME NEW s \in Slots,
             IngestDies(s) \/ \E m \in Messages : Receive(s, m)
      PROVE  AnnounceInv'
  <2>1. UNCHANGED <<heard, docs>>
    BY <1>2 DEF IngestDies, Receive
  <2>2. \A u \in Slots : ingest'[u] = ingest[u] \/ ingest'[u].job \in {"idle", "doc"}
    BY <1>2 DEF IngestDies, Receive, TypeOK, Idle
  <2> QED BY <2>1, <2>2 DEF AnnounceInv, AnnouncedOnce
<1>3. ASSUME NEW s \in Slots, StoreDoc(s) PROVE AnnounceInv'
  <2> DEFINE m == ingest[s].message
  <2>1. ingest[s] \in [job: {"doc", "announce"}, message: DOMAIN said] /\ ingest[s].job = "doc"
    BY <1>3, IngestShape DEF StoreDoc
  <2>2. docs' = docs \cup {m} /\ UNCHANGED heard
    BY <1>3 DEF StoreDoc
  <2>3. \A u \in Slots : u # s => ingest'[u] = ingest[u]
    BY <1>3 DEF StoreDoc, TypeOK
  <2>4. CASE m \in docs
    <3>1. ingest'[s] = Idle
      BY <1>3, <2>4 DEF StoreDoc, TypeOK
    <3> QED BY <2>2, <2>3, <3>1 DEF AnnounceInv, AnnouncedOnce, Idle
  <2>5. CASE m \notin docs
    <3>1. ingest'[s].job = "announce" /\ ingest'[s].message = m
      BY <1>3, <2>1, <2>5 DEF StoreDoc, TypeOK
    <3> HIDE DEF m
    <3> QED BY <2>2, <2>3, <2>5, <3>1 DEF AnnounceInv, AnnouncedOnce
  <2> QED BY <2>4, <2>5
<1>4. ASSUME NEW s \in Slots, Announce(s) PROVE AnnounceInv'
  <2> DEFINE m == ingest[s].message
             n == Len(heard) + 1
  <2>1. ingest[s] \in [job: {"doc", "announce"}, message: DOMAIN said] /\ Announcing(s)
    BY <1>4, IngestShape DEF Announce
  <2>2. /\ heard' = Append(heard, m) /\ UNCHANGED docs
        /\ ingest'[s] = Idle /\ \A u \in Slots : u # s => ingest'[u] = ingest[u]
    BY <1>4 DEF Announce, TypeOK
  <2>3. /\ DOMAIN heard' = DOMAIN heard \cup {n} /\ n \notin DOMAIN heard
        /\ heard'[n] = m /\ \A i \in DOMAIN heard : heard'[i] = heard[i]
    BY <2>1, <2>2, LogsTyped, Appended
  <2>4. m \in docs /\ \A i \in DOMAIN heard : heard[i] # m
    BY <2>1 DEF AnnounceInv
  <2>5. \A u \in Slots : u # s /\ Announcing(u) => ingest[u].message # m
    BY <2>1 DEF AnnounceInv
  <2> HIDE DEF m, n
  <2>6. AnnouncedOnce'
    BY <2>3, <2>4 DEF AnnounceInv, AnnouncedOnce
  <2>7. \A i \in DOMAIN heard' : heard'[i] \in docs'
    BY <2>2, <2>3, <2>4 DEF AnnounceInv
  <2>8. \A u \in Slots : Announcing(u)' => u # s /\ ingest'[u] = ingest[u] /\ Announcing(u)
    BY <2>2 DEF Idle
  <2> QED BY <2>2, <2>3, <2>5, <2>6, <2>7, <2>8 DEF AnnounceInv
<1> QED
  BY <1>1, <1>2, <1>3, <1>4
  DEF Next, People, Faults, Handler, Ingress, vars, inbound, outbound, Request, FollowUp,
      SettleElsewhere, Say, TakeCard, Post, PostFails, PostUnheard, RecordOutcome,
      TakeReply, Resolve, Finish, HandlerDies

(* However often and however concurrently Slack repeats an envelope, its   *)
(* message is announced at most once: the slug of its document is unique.  *)
THEOREM MessagesAreAnnouncedOnce == Spec => []AnnouncedOnce
<1>1. Init => AnnounceInv
  BY DEF Init, AnnounceInv, AnnouncedOnce, Announcing, Idle
<1>2. AnnounceInv => AnnouncedOnce
  BY DEF AnnounceInv
<1> QED BY <1>1, <1>2, AnnounceStep, TypeCorrect, PTL DEF Spec
-----------------------------------------------------------------------------
(* Replies: an anchor in the ledger is a card of its request, and what a   *)
(* reply's handler is about to resolve was read off such an anchor.        *)
CardAnchored(channel, t, r) ==
  t \in DOMAIN channel /\ channel[t].request = r /\ channel[t].kind = "human_request"

Says(channel, message, r, verdict) ==
  /\ CardAnchored(channel, message.thread, r)
  /\ verdict \in ParseReply(KindOf[r], message.word)

LedgerAnchored ==
  \A i \in DOMAIN ledger :
    IsCard(ledger[i]) => CardAnchored(posts, ledger[i].anchor, ledger[i].request)

HandlersAnchored ==
  \A d \in Dispatchers :
    LET h == handler[d]
    IN /\ h.job = "record" /\ h.sent /\ h.kind = "human_request"
            => CardAnchored(posts, h.anchor, h.request)
       /\ h.job = "resolve" => Says(posts, said[h.message], h.request, h.verdict)

AnsweredBy ==
  \A r \in Requests : by[r] \in DOMAIN said =>
    /\ CardAnchored(posts, said[by[r]].thread, r)
    /\ state[r] \in ParseReply(KindOf[r], said[by[r]].word) \cup {"superseded"}

ReplyInv == LedgerAnchored /\ HandlersAnchored /\ AnsweredBy

(* Posts and messages stay as they are: what was anchored stays anchored. *)
LogsGrow ==
  /\ DOMAIN posts \subseteq DOMAIN posts' /\ \A p \in DOMAIN posts : posts'[p] = posts[p]
  /\ DOMAIN said \subseteq DOMAIN said' /\ \A m \in DOMAIN said : said'[m] = said[m]

LEMMA LogsGrowing == TypeOK /\ [Next]_vars => LogsGrow
<1> SUFFICES ASSUME TypeOK, [Next]_vars PROVE LogsGrow
  OBVIOUS
<1> USE DEF gate, events, outbound, inbound
<1>1. CASE UNCHANGED <<posts, said>>
  BY <1>1 DEF LogsGrow
<1>2. ASSUME NEW d \in Dispatchers, Post(d) \/ PostUnheard(d) PROVE LogsGrow
  <2> DEFINE h == handler[d]
             p == [request |-> h.request, kind |-> h.kind, thread |-> h.thread]
  <2>1. posts' = Append(posts, p) /\ UNCHANGED said
    BY <1>2 DEF Post, PostUnheard, Posted
  <2>2. p \in PostRow
    BY <1>2, JobShape DEF Post, PostUnheard, PostRow
  <2> HIDE DEF p
  <2> QED BY <2>1, <2>2, LogsTyped, Appended DEF LogsGrow
<1>3. ASSUME NEW m \in Messages, NEW t \in 0..MaxPosts, NEW w \in Words, Say(m, t, w)
      PROVE LogsGrow
  BY <1>3 DEF Say, LogsGrow
<1> QED
  BY <1>1, <1>2, <1>3
  DEF Next, People, Faults, Handler, Ingress, vars, Request, FollowUp,
      SettleElsewhere, TakeCard, PostFails, RecordOutcome, TakeReply, Resolve, Finish,
      HandlerDies, Receive, StoreDoc, Announce, IngestDies

LEMMA AnchorsStay ==
  ASSUME TypeOK, [Next]_vars
  PROVE  /\ \A t, r : CardAnchored(posts, t, r) => CardAnchored(posts', t, r)
         /\ \A m \in DOMAIN said : \A r, v :
              Says(posts, said[m], r, v) => Says(posts', said'[m], r, v)
BY LogsGrowing DEF LogsGrow, CardAnchored, Says

LEMMA LedgerStep ==
  ASSUME TypeOK, ReplyInv, [Next]_vars PROVE LedgerAnchored'
<1> USE DEF outbound
<1>1. CASE UNCHANGED ledger
  BY <1>1, AnchorsStay DEF ReplyInv, LedgerAnchored
<1>2. ASSUME NEW d \in Dispatchers, RecordOutcome(d) PROVE LedgerAnchored'
  <2> DEFINE h == handler[d]
             row == [request |-> h.request, kind |-> h.kind, sent |-> h.sent,
                     anchor |-> h.anchor]
             n == Len(ledger) + 1
  <2>1. row \in Row /\ h.job = "record"
    BY <1>2, JobShape DEF RecordOutcome, Row
  <2>2. IsCard(row) => CardAnchored(posts, row.anchor, row.request)
    BY <2>1 DEF ReplyInv, HandlersAnchored, IsCard
  <2>3. ledger' = Append(ledger, row)
    BY <1>2 DEF RecordOutcome
  <2> HIDE DEF row, n
  <2>4. /\ DOMAIN ledger' = DOMAIN ledger \cup {n} /\ ledger'[n] = row
        /\ \A i \in DOMAIN ledger : ledger'[i] = ledger[i]
    BY <2>1, <2>3, LogsTyped, Appended DEF n
  <2> QED BY <2>2, <2>4, AnchorsStay DEF ReplyInv, LedgerAnchored
<1> QED
  BY <1>1, <1>2
  DEF Next, People, Faults, Handler, Ingress, vars, Request, FollowUp,
      SettleElsewhere, Say, TakeCard, Post, PostUnheard, PostFails, TakeReply, Resolve,
      Finish, HandlerDies, Receive, StoreDoc, Announce, IngestDies

LEMMA HandlersStep ==
  ASSUME TypeOK, ReplyInv, [Next]_vars PROVE HandlersAnchored'
<1> USE DEF outbound
<1> DEFINE Fine(h) ==
             /\ h.job = "record" /\ h.sent /\ h.kind = "human_request"
                  => CardAnchored(posts', h.anchor, h.request)
             /\ h.job = "resolve" => Says(posts', said'[h.message], h.request, h.verdict)
<1>0. \A d \in Dispatchers : Fine(handler[d])
  <2> SUFFICES ASSUME NEW d \in Dispatchers PROVE Fine(handler[d])
    OBVIOUS
  <2>1. handler[d].job = "resolve" => handler[d].message \in DOMAIN said
    BY JobShape
  <2> QED BY <2>1, AnchorsStay DEF ReplyInv, HandlersAnchored
<1>1. ASSUME NEW d \in Dispatchers, NEW h, Handles(d, h), Fine(h) PROVE HandlersAnchored'
  <2>1. \A b \in Dispatchers : handler'[b] = IF b = d THEN h ELSE handler[b]
    BY <1>1, HandlesOne
  <2>2. \A b \in Dispatchers : Fine(handler'[b])
    BY <1>0, <1>1, <2>1
  <2> QED BY <2>2 DEF HandlersAnchored
<1>2. CASE UNCHANGED handler
  BY <1>0, <1>2 DEF HandlersAnchored
<1>0d. ASSUME NEW d \in Dispatchers, NEW b, Done(d, b) PROVE HandlersAnchored'
  <2>1. \E h : Handles(d, h) /\ h.job = "batch"
    BY <1>0d DEF Done
  <2> QED BY <1>1, <2>1
<1>3. ASSUME NEW d \in Dispatchers, TakeCard(d) PROVE HandlersAnchored'
  <2> DEFINE g(b, post) ==
               [job |-> "post", batch |-> b, request |-> asked[b.at + 1].request,
                kind |-> post.kind, thread |-> post.thread]
  <2>1. PICK b : Done(d, b) \/ \E post : Handles(d, g(b, post))
    BY <1>3 DEF TakeCard
  <2>2. \A post : g(b, post).job = "post"
    OBVIOUS
  <2>3. ASSUME NEW h, Handles(d, h), h.job = "post" PROVE HandlersAnchored'
    BY <1>1, <2>3
  <2> HIDE DEF g
  <2> QED BY <1>0d, <2>1, <2>2, <2>3
<1>4. ASSUME NEW d \in Dispatchers, Post(d) \/ PostUnheard(d) PROVE HandlersAnchored'
  <2> DEFINE h == handler[d]
             p == [request |-> h.request, kind |-> h.kind, thread |-> h.thread]
             n == Len(posts) + 1
             g(sent, anchor) ==
               [job |-> "record", batch |-> h.batch, request |-> h.request,
                kind |-> h.kind, sent |-> sent, anchor |-> anchor]
  <2>1. posts' = Append(posts, p) /\ p \in PostRow
    BY <1>4, JobShape DEF Post, PostUnheard, Posted, PostRow
  <2>2. n \in DOMAIN posts' /\ posts'[n].request = h.request /\ posts'[n].kind = h.kind
    <3> HIDE DEF p, n
    <3>1. n \in DOMAIN posts' /\ posts'[n] = p
      BY <2>1, LogsTyped, Appended DEF n
    <3> QED BY <3>1 DEF p
  <2>3. Handles(d, g(TRUE, n)) \/ Handles(d, g(FALSE, NoThread))
    BY <1>4 DEF Post, PostUnheard, Attempted
  <2>4. Fine(g(TRUE, n)) /\ Fine(g(FALSE, NoThread))
    BY <2>2 DEF CardAnchored
  <2>5. \A k : Handles(d, k) /\ Fine(k) => HandlersAnchored'
    BY <1>1
  <2> HIDE DEF g, Fine
  <2> QED BY <2>3, <2>4, <2>5
<1>5. ASSUME NEW d \in Dispatchers, PostFails(d) PROVE HandlersAnchored'
  <2>1. \E h : Handles(d, h) /\ h.job = "record" /\ ~h.sent
    BY <1>5 DEF PostFails, Attempted
  <2> QED BY <1>1, <2>1
<1>6. ASSUME NEW d \in Dispatchers,
             RecordOutcome(d) \/ Resolve(d) \/ Finish(d) \/ HandlerDies(d)
      PROVE  HandlersAnchored'
  <2>1. (\E b : Done(d, b)) \/ Handles(d, Idle)
    BY <1>6 DEF RecordOutcome, Resolve, Finish, HandlerDies
  <2>2. Idle.job = "idle"
    BY DEF Idle
  <2> QED BY <1>0d, <1>1, <2>1, <2>2
<1>7. ASSUME NEW d \in Dispatchers, TakeReply(d) PROVE HandlersAnchored'
  <2>0. PICK b \in Batches(d, "replies") :
          \/ \E v \in Verdict(heard[b.at + 1]) :
               Handles(d, [job |-> "resolve", batch |-> b, message |-> heard[b.at + 1],
                           request |-> v.request, verdict |-> v.verdict])
          \/ Done(d, b)
    BY <1>7 DEF TakeReply
  <2> DEFINE m == heard[b.at + 1]
             g(v) == [job |-> "resolve", batch |-> b, message |-> m,
                      request |-> v.request, verdict |-> v.verdict]
  <2>1. m \in DOMAIN said
    <3>1. "replies" \in Consumers /\ Log("replies") = heard
      BY DEF Consumers, Log
    <3> QED BY <3>1, BatchShape, LogsTyped
  <2>2. ASSUME NEW v \in Verdict(m) PROVE Fine(g(v))
    <3>1. PICK row \in FindByAnchor(said[m].thread) :
            v.request = row.request /\ v.verdict \in ParseReply(KindOf[row.request], said[m].word)
      BY <2>2 DEF Verdict
    <3>2. PICK k \in DOMAIN ledger :
            row = ledger[k] /\ IsCard(row) /\ row.anchor = said[m].thread
      BY FoundByAnchor
    <3>3. Says(posts, said[m], v.request, v.verdict)
      BY <3>1, <3>2 DEF ReplyInv, LedgerAnchored, Says
    <3>4. Says(posts', said'[m], v.request, v.verdict)
      BY <2>1, <3>3, AnchorsStay
    <3> QED BY <3>4
  <2>3. Done(d, b) \/ \E v \in Verdict(m) : Handles(d, g(v))
    BY <2>0
  <2> HIDE DEF m, g, Fine
  <2> QED BY <1>0d, <1>1, <2>2, <2>3
<1> QED
  BY <1>2, <1>3, <1>4, <1>5, <1>6, <1>7
  DEF Next, People, Faults, Handler, Ingress, vars, Request, FollowUp,
      SettleElsewhere, Say, Receive, StoreDoc, Announce, IngestDies

LEMMA AnsweredStep ==
  ASSUME TypeOK, ReplyInv, [Next]_vars PROVE AnsweredBy'
<1>0. /\ \A m \in DOMAIN said : m \in Messages /\ m # Portal /\ m # NoOne
      /\ DOMAIN said \subseteq DOMAIN said'
      /\ \A m \in DOMAIN said : said'[m] = said[m]
  BY SenderAssumption, LogsGrowing DEF LogsGrow, TypeOK, Portal
<1>1. \A r \in Requests :
        by[r] \in DOMAIN said \/ by[r] \in {Portal, NoOne}
  BY DEF TypeOK
<1>2. {Portal, NoOne} \cap DOMAIN said' = {}
  BY SenderAssumption, TypeStep DEF TypeOK, Portal
<1>3. ASSUME NEW r \in Requests, UNCHANGED <<state[r], by[r]>>, by'[r] \in DOMAIN said'
      PROVE  /\ CardAnchored(posts', said'[by'[r]].thread, r)
             /\ state'[r] \in ParseReply(KindOf[r], said'[by'[r]].word) \cup {"superseded"}
  <2>1. by[r] \in DOMAIN said
    BY <1>1, <1>2, <1>3
  <2> QED BY <1>0, <1>3, <2>1, AnchorsStay DEF ReplyInv, AnsweredBy
<1>4. CASE UNCHANGED gate
  BY <1>3, <1>4 DEF gate, AnsweredBy
<1>5. ASSUME NEW q \in Requests, Request(q) PROVE AnsweredBy'
  <2>1. UNCHANGED by /\ \A r \in Requests : r # q => state'[r] = state[r]
    BY <1>5 DEF Request, TypeOK
  <2>2. by[q] \notin DOMAIN said
    BY <1>5 DEF Request, ReplyInv, AnsweredBy, ParseReply
  <2> QED BY <1>1, <1>2, <1>3, <2>1, <2>2 DEF AnsweredBy
<1>6. ASSUME NEW q \in Requests, NEW v \in Elsewhere, SettleElsewhere(q, v) PROVE AnsweredBy'
  <2>1. \A r \in Requests : r # q => state'[r] = state[r] /\ by'[r] = by[r]
    BY <1>6 DEF SettleElsewhere, TypeOK
  <2>2. state'[q] = v /\ v \in RequestTransitions(state[q])
    BY <1>6 DEF SettleElsewhere, TypeOK
  <2>3. CASE v \in Verdicts
    <3>1. by'[q] = Portal
      BY <1>6, <2>3 DEF SettleElsewhere, TypeOK
    <3> QED BY <1>2, <1>3, <2>1, <3>1 DEF AnsweredBy
  <2>4. CASE v \notin Verdicts
    <3>1. by'[q] = by[q]
      BY <1>6, <2>4 DEF SettleElsewhere, TypeOK
    <3>2. CASE by[q] \in DOMAIN said
      <4>1. /\ CardAnchored(posts, said[by[q]].thread, q)
            /\ state[q] \in ParseReply(KindOf[q], said[by[q]].word) \cup {"superseded"}
        BY <3>2 DEF ReplyInv, AnsweredBy
      <4>2. state[q] # "pending"
        BY <4>1 DEF ParseReply
      <4>3. state'[q] = "superseded"
        BY <2>2, <4>2, SettledOnly
      <4> QED BY <1>0, <1>3, <2>1, <3>1, <3>2, <4>1, <4>3, AnchorsStay DEF AnsweredBy
    <3>3. CASE by[q] \notin DOMAIN said
      BY <1>1, <1>2, <1>3, <2>1, <3>1, <3>3 DEF AnsweredBy
    <3> QED BY <3>2, <3>3
  <2> QED BY <2>3, <2>4
<1>7. ASSUME NEW d \in Dispatchers, Resolve(d) PROVE AnsweredBy'
  <2> DEFINE h == handler[d]
  <2>1. /\ h.request \in Requests /\ h.message \in DOMAIN said
        /\ Says(posts, said[h.message], h.request, h.verdict)
    BY <1>7, JobShape DEF Resolve, ReplyInv, HandlersAnchored
  <2>2. CASE h.verdict \in RequestTransitions(state[h.request])
    <3>1. /\ state'[h.request] = h.verdict /\ by'[h.request] = h.message
          /\ \A r \in Requests : r # h.request => state'[r] = state[r] /\ by'[r] = by[r]
      BY <1>7, <2>1, <2>2 DEF Resolve, TypeOK
    <3>2. Says(posts', said'[h.message], h.request, h.verdict)
      BY <2>1, AnchorsStay
    <3> QED BY <1>3, <2>1, <3>1, <3>2 DEF AnsweredBy, Says
  <2>3. CASE h.verdict \notin RequestTransitions(state[h.request])
    BY <1>4, <1>7, <2>3 DEF Resolve
  <2> QED BY <2>2, <2>3
<1> QED BY <1>4, <1>5, <1>6, <1>7, GateSteps

LEMMA ReplyInvariant == Spec => []ReplyInv
<1>1. Init => ReplyInv
  BY SenderAssumption
  DEF Init, ReplyInv, LedgerAnchored, HandlersAnchored, AnsweredBy, Idle
<1>2. TypeOK /\ ReplyInv /\ [Next]_vars => ReplyInv'
  BY LedgerStep, HandlersStep, AnsweredStep DEF ReplyInv
<1> QED BY <1>1, <1>2, TypeCorrect, PTL DEF Spec

(* A reply resolves only the request on whose card it was written, and     *)
(* only as its words say, however posts, rows and verdicts interleave.     *)
THEOREM RepliesResolveTheirCard == Spec => []RepliesReachTheirRequest
<1>1. TypeOK /\ ReplyInv => RepliesReachTheirRequest
  <2> SUFFICES ASSUME TypeOK, ReplyInv, NEW r \in Requests, by[r] \in Messages
               PROVE  /\ CardAnchored(posts, said[by[r]].thread, r)
                      /\ state[r] \in ParseReply(KindOf[r], said[by[r]].word) \cup {"superseded"}
    BY DEF RepliesReachTheirRequest, CardAnchored
  <2>1. by[r] \in DOMAIN said
    BY SenderAssumption DEF TypeOK, Portal
  <2> QED BY <2>1 DEF ReplyInv, AnsweredBy
<1> QED BY <1>1, ReplyInvariant, TypeCorrect, PTL
-----------------------------------------------------------------------------
(* Cards: with one dispatcher, what the cards consumer has done is told by *)
(* its cursor, or by how far it is in the batch in progress.               *)
OneDispatcher == \A p, q \in Dispatchers : p = q

Opens(i, r) == asked[i] = [topic |-> "requested", request |-> r]

AskedInv ==
  /\ cursor["cards"] <= Len(asked)
  /\ \A r \in Requests : state[r] = "none" <=> About(r, asked) = {}
  /\ \A i \in DOMAIN asked : \E j \in DOMAIN asked : j <= i /\ Opens(j, asked[i].request)
  /\ \A i, j \in DOMAIN asked : \A r \in Requests : Opens(i, r) /\ Opens(j, r) => i = j

OnCards(d) == handler[d] # Idle /\ handler[d].batch.consumer = "cards"

AtNext ==
  \A d \in Dispatchers :
    LET h == handler[d]
    IN OnCards(d) =>
         /\ cursor["cards"] <= h.batch.at
         /\ h.job \in {"post", "record"} => h.request = asked[h.batch.at + 1].request

(* The handler is about to post a card of r, or has just posted one. *)
Posting(r) ==
  \E d \in Dispatchers :
    /\ handler[d].job = "post" /\ handler[d].request = r
    /\ handler[d].kind = "human_request"

JustPosted(r) ==
  \E d \in Dispatchers :
    /\ handler[d].job = "record" /\ handler[d].request = r
    /\ handler[d].sent /\ handler[d].kind = "human_request"

(* The events that are handled, whether the cursor has come to them or not.*)
Passed ==
  {i \in Nat : 1 <= i /\ (\/ i <= cursor["cards"]
                         \/ \E d \in Dispatchers : OnCards(d) /\ i <= handler[d].batch.at)}

Answered(r) == About(r, asked) \cap Passed

CardPosts(r) == {p \in About(r, posts) : posts[p].kind = "human_request"}

LedgerKeepsUp ==
  \A r \in Requests : state[r] = "pending" =>
    Cardinality(About(r, ledger)) >= Cardinality(Answered(r))

(* Only a request nobody has a card of yet may be posted again for free.   *)
Uncarded(r) ==
  \/ Posting(r)
  \/ CardsOf(r) = {} /\ ~JustPosted(r)
  \/ Answered(r) = {} /\ ~JustPosted(r)

CardsBounded ==
  \A r \in Requests :
    Cardinality(CardPosts(r)) <= faults + (IF Uncarded(r) THEN 0 ELSE 1)

CardInv == AskedInv /\ AtNext /\ LedgerKeepsUp /\ CardsBounded

(* Counting what a log says about a request. *)
LEMMA AboutFinite ==
  ASSUME NEW S, NEW log \in Seq(S), NEW r, NEW T, T \subseteq About(r, log)
  PROVE  IsFiniteSet(T) /\ Cardinality(T) \in Nat
<1>1. DOMAIN log = 1..Len(log) /\ Len(log) \in Nat
  BY LenProperties
<1>2. T \subseteq 1..Len(log)
  BY <1>1 DEF About
<1>3. IsFiniteSet(1..Len(log))
  BY <1>1, FS_Interval
<1> QED BY <1>2, <1>3, FS_Subset, FS_CardinalityType

LEMMA AboutAppended ==
  ASSUME NEW S, NEW log \in Seq(S), NEW e \in S, NEW r
  PROVE  About(r, Append(log, e)) =
           IF e.request = r THEN About(r, log) \cup {Len(log) + 1} ELSE About(r, log)
BY Appended DEF About

LEMMA Counts ==
  ASSUME TypeOK, NEW r
  PROVE  /\ IsFiniteSet(About(r, ledger)) /\ Cardinality(About(r, ledger)) \in Nat
         /\ IsFiniteSet(Answered(r)) /\ Cardinality(Answered(r)) \in Nat
         /\ IsFiniteSet(CardPosts(r)) /\ Cardinality(CardPosts(r)) \in Nat
<1>1. Answered(r) \subseteq About(r, asked) /\ CardPosts(r) \subseteq About(r, posts)
  BY DEF Answered, CardPosts
<1> QED BY <1>1, LogsTyped, AboutFinite

(* The batch of the cards consumer, and the event in hand. *)
LEMMA CardsShape ==
  ASSUME TypeOK, NEW d \in Dispatchers, OnCards(d)
  PROVE  /\ handler[d].batch \in Batch(Consumers) /\ handler[d].batch.at \in Nat
         /\ handler[d].batch.at <= Len(asked)
         /\ handler[d].job \in {"post", "record"} => handler[d].batch.at + 1 \in DOMAIN asked
<1>1. handler[d].batch \in Batch(Consumers) /\ InLog(handler[d]) /\ handler[d] # Idle
  BY JobShape DEF OnCards
<1>2. Log(handler[d].batch.consumer) = asked
  BY DEF OnCards, Log
<1> QED BY <1>1, <1>2, LogsTyped DEF InLog, Batch

(* What the dispatchers do not touch. *)
LEMMA SameJobs ==
  ASSUME UNCHANGED handler, NEW r
  PROVE  Posting(r)' = Posting(r) /\ JustPosted(r)' = JustPosted(r)
BY DEF Posting, JustPosted

LEMMA SameLedgers ==
  ASSUME TypeOK, CardInv, UNCHANGED <<asked, outbound>>, faults' >= faults, faults' \in Nat,
         \A r \in Requests : (state'[r] = "none" <=> state[r] = "none")
                             /\ (state'[r] = "pending" => state[r] = "pending")
  PROVE  CardInv'
<1> USE DEF outbound
<1>1. \A r : About(r, asked)' = About(r, asked) /\ About(r, ledger)' = About(r, ledger)
             /\ Answered(r)' = Answered(r) /\ CardPosts(r)' = CardPosts(r)
             /\ CardsOf(r)' = CardsOf(r)
  BY DEF About, Answered, Passed, OnCards, CardPosts, CardsOf
<1>2. AskedInv' /\ AtNext'
  BY <1>1 DEF CardInv, AskedInv, AtNext, OnCards, Opens
<1>3. LedgerKeepsUp'
  BY <1>1 DEF CardInv, LedgerKeepsUp
<1>4. \A r : Uncarded(r)' = Uncarded(r)
  BY <1>1, SameJobs DEF Uncarded
<1>5. CardsBounded'
  <2> SUFFICES ASSUME NEW r \in Requests
               PROVE  Cardinality(CardPosts(r)') <= faults' + (IF Uncarded(r)' THEN 0 ELSE 1)
    BY DEF CardsBounded
  <2>1. Cardinality(CardPosts(r)) <= faults + (IF Uncarded(r) THEN 0 ELSE 1)
    BY DEF CardInv, CardsBounded
  <2>2. Cardinality(CardPosts(r)) \in Nat /\ faults \in Nat
    BY Counts DEF TypeOK
  <2> QED BY <1>1, <1>4, <2>1, <2>2
<1> QED BY <1>2, <1>3, <1>5 DEF CardInv

(* The gate announces a request, or follows it up. *)
LEMMA Asking ==
  ASSUME TypeOK, CardInv, NEW r \in Requests, Request(r) \/ FollowUp(r)
  PROVE  CardInv'
<1> USE DEF outbound
<1>1. PICK topic \in {"requested", "follow_up"} :
        /\ asked' = Append(asked, [topic |-> topic, request |-> r])
        /\ topic = "requested" => state[r] = "none" /\ state' = [state EXCEPT ![r] = "pending"]
        /\ topic = "follow_up" => state[r] = "pending" /\ UNCHANGED state
  BY DEF Request, FollowUp, gate
<1> DEFINE e == [topic |-> topic, request |-> r]
           n == Len(asked) + 1
<1>2. UNCHANGED <<cursor, handler, posts, ledger, faults>>
  BY DEF Request, FollowUp
<1>3. e \in Ask /\ e.request = r /\ e.topic = topic
  BY DEF Ask
<1> HIDE DEF e
<1>4. /\ DOMAIN asked' = DOMAIN asked \cup {n} /\ n \notin DOMAIN asked /\ n \in Nat
      /\ asked'[n] = e /\ \A i \in DOMAIN asked : asked'[i] = asked[i]
      /\ DOMAIN asked = 1..Len(asked) /\ Len(asked) \in Nat
  BY <1>1, <1>3, LogsTyped, Appended DEF e
<1>5. Len(asked') = n
  BY <1>1, LogsTyped DEF e
<1>6. \A q : About(q, asked') = IF q = r THEN About(q, asked) \cup {n} ELSE About(q, asked)
  BY <1>3, <1>4 DEF About
<1>7. cursor["cards"] \in Nat /\ cursor["cards"] <= Len(asked)
  BY DEF CardInv, AskedInv, TypeOK, Consumers
<1>14. \A d \in Dispatchers : OnCards(d) =>
         /\ handler[d].batch.at \in Nat /\ handler[d].batch.at <= Len(asked)
         /\ handler[d].job \in {"post", "record"} => handler[d].batch.at + 1 \in DOMAIN asked
  BY CardsShape
<1>8. \A q : Answered(q)' = Answered(q)
  <2>1. Passed' = Passed
    BY <1>2 DEF Passed, OnCards
  <2>2. n \notin Passed
    BY <1>4, <1>7, <1>14 DEF Passed
  <2> QED BY <1>6, <2>1, <2>2 DEF Answered
<1>9. state[r] = "none" => About(r, asked) = {}
  BY DEF CardInv, AskedInv
<1>10. \A q \in Requests : state'[q] = "none" <=> About(q, asked') = {}
  <2>1. \A q \in Requests : q # r => state'[q] = state[q]
    BY <1>1 DEF TypeOK
  <2>2. state'[r] # "none"
    BY <1>1 DEF TypeOK
  <2> QED BY <1>6, <2>1, <2>2 DEF CardInv, AskedInv
<1>11. \A i \in DOMAIN asked' : \E j \in DOMAIN asked' : j <= i /\ Opens(j, asked[i].request)'
  <2> SUFFICES ASSUME NEW i \in DOMAIN asked'
               PROVE  \E j \in DOMAIN asked' : j <= i /\ asked'[j] =
                        [topic |-> "requested", request |-> asked'[i].request]
    BY DEF Opens
  <2>1. CASE i \in DOMAIN asked
    BY <1>4, <2>1 DEF CardInv, AskedInv, Opens
  <2>2. CASE i = n /\ topic = "requested"
    BY <1>3, <1>4, <2>2 DEF e
  <2>3. CASE i = n /\ topic = "follow_up"
    <3>1. PICK k \in DOMAIN asked : asked[k].request = r
      BY <1>1, <2>3 DEF CardInv, AskedInv, About
    <3>2. PICK j \in DOMAIN asked : j <= k /\ Opens(j, r)
      BY <3>1 DEF CardInv, AskedInv
    <3> QED BY <1>3, <1>4, <2>3, <3>2 DEF Opens
  <2> QED BY <1>1, <1>4, <2>1, <2>2, <2>3
<1>12. \A i, j \in DOMAIN asked' : \A q \in Requests :
         asked'[i] = [topic |-> "requested", request |-> q]
           /\ asked'[j] = [topic |-> "requested", request |-> q] => i = j
  <2>1. \A i \in DOMAIN asked : \A q \in Requests :
          asked[i] = [topic |-> "requested", request |-> q] => asked[i].request = q
    OBVIOUS
  <2>2. \A q \in Requests : e = [topic |-> "requested", request |-> q] =>
          q = r /\ topic = "requested"
    BY <1>3
  <2>3. topic = "requested" => \A i \in DOMAIN asked : asked[i].request # r
    BY <1>1, <1>9 DEF About
  <2>4. \A i, j \in DOMAIN asked : \A q \in Requests :
          asked[i] = [topic |-> "requested", request |-> q]
            /\ asked[j] = [topic |-> "requested", request |-> q] => i = j
    BY DEF CardInv, AskedInv, Opens
  <2> QED BY <1>4, <2>1, <2>2, <2>3, <2>4
<1>13. AskedInv'
  BY <1>2, <1>5, <1>7, <1>10, <1>11, <1>12 DEF AskedInv, Opens
<1>15. AtNext'
  BY <1>2, <1>4, <1>14 DEF CardInv, AtNext, OnCards
<1>16. \A q : Posting(q)' = Posting(q) /\ JustPosted(q)' = JustPosted(q)
  BY <1>2, SameJobs
<1>18. \A q : About(q, ledger)' = About(q, ledger) /\ CardPosts(q)' = CardPosts(q)
              /\ CardsOf(q)' = CardsOf(q)
  BY <1>2 DEF About, CardPosts, CardsOf
<1>19. LedgerKeepsUp'
  <2> SUFFICES ASSUME NEW q \in Requests, state'[q] = "pending"
               PROVE  Cardinality(About(q, ledger)) >= Cardinality(Answered(q))
    BY <1>8, <1>18 DEF LedgerKeepsUp
  <2>1. CASE state[q] = "pending"
    BY <2>1 DEF CardInv, LedgerKeepsUp
  <2>2. CASE state[q] # "pending"
    <3>1. About(q, asked) = {}
      BY <1>1, <1>9, <2>2 DEF TypeOK
    <3>2. Answered(q) = {}
      BY <3>1 DEF Answered
    <3> QED BY <3>2, Counts, FS_EmptySet
  <2> QED BY <2>1, <2>2
<1>20. CardsBounded'
  BY <1>2, <1>8, <1>16, <1>18 DEF CardInv, CardsBounded, Uncarded
<1> QED BY <1>13, <1>15, <1>19, <1>20 DEF CardInv

(* The only dispatcher's step, seen from its handler's record h. *)
LEMMA OnlyHandler ==
  ASSUME OneDispatcher, TypeOK, NEW d \in Dispatchers, NEW h, Handles(d, h)
  PROVE  /\ \A b \in Dispatchers : handler'[b] = h
         /\ \A b \in Dispatchers : handler[b] = handler[d]
BY HandlesOne DEF OneDispatcher

LEMMA JobsOf ==
  ASSUME OneDispatcher, NEW d \in Dispatchers, NEW r
  PROVE  /\ Posting(r) <=> /\ handler[d].job = "post" /\ handler[d].request = r
                           /\ handler[d].kind = "human_request"
         /\ JustPosted(r) <=> /\ handler[d].job = "record" /\ handler[d].request = r
                              /\ handler[d].sent /\ handler[d].kind = "human_request"
BY DEF OneDispatcher, Posting, JustPosted

LEMMA JobsNext ==
  ASSUME OneDispatcher, TypeOK, NEW d \in Dispatchers, NEW h, Handles(d, h), NEW r
  PROVE  /\ Posting(r)' <=> h.job = "post" /\ h.request = r /\ h.kind = "human_request"
         /\ JustPosted(r)' <=> /\ h.job = "record" /\ h.request = r
                               /\ h.sent /\ h.kind = "human_request"
BY OnlyHandler DEF Posting, JustPosted

(* How far the consumer is, before a step of the dispatcher and after it. *)
LEMMA PassedNow ==
  ASSUME OneDispatcher, TypeOK, AtNext, NEW d \in Dispatchers
  PROVE  /\ OnCards(d) => Passed = 1..handler[d].batch.at
         /\ ~OnCards(d) => Passed = 1..cursor["cards"]
<1>1. cursor["cards"] \in Nat
  BY DEF TypeOK, Consumers
<1>2. \A b \in Dispatchers : b = d
  BY DEF OneDispatcher
<1>3. OnCards(d) => handler[d].batch.at \in Nat /\ cursor["cards"] <= handler[d].batch.at
  BY CardsShape DEF AtNext
<1> QED BY <1>1, <1>2, <1>3 DEF Passed

LEMMA PassedNext ==
  ASSUME OneDispatcher, TypeOK, NEW d \in Dispatchers, NEW h, Handles(d, h),
         cursor'["cards"] \in Nat,
         h # Idle /\ h.batch.consumer = "cards" =>
           h.batch.at \in Nat /\ cursor'["cards"] <= h.batch.at
  PROVE  /\ h # Idle /\ h.batch.consumer = "cards" => Passed' = 1..h.batch.at
         /\ h = Idle \/ h.batch.consumer # "cards" => Passed' = 1..cursor'["cards"]
<1>1. \A b \in Dispatchers : handler'[b] = h
  BY OnlyHandler
<1>2. CASE h # Idle /\ h.batch.consumer = "cards"
  <2>1. Passed' = {i \in Nat : 1 <= i /\ (i <= cursor'["cards"] \/ i <= h.batch.at)}
    BY <1>1, <1>2 DEF Passed, OnCards
  <2> QED BY <1>2, <2>1
<1>3. CASE ~(h # Idle /\ h.batch.consumer = "cards")
  <2>1. Passed' = {i \in Nat : 1 <= i /\ i <= cursor'["cards"]}
    BY <1>1, <1>3 DEF Passed, OnCards
  <2> QED BY <1>3, <2>1
<1> QED BY <1>2, <1>3

(* A step of the dispatcher keeps the counts if no post and no row is new, *)
(* no more is handled than the ledger accounts for, and nothing becomes    *)
(* free to be posted that was not.                                         *)
LEMMA KeepsCards ==
  ASSUME TypeOK, CardsBounded, UNCHANGED posts, faults' = faults,
         \A r \in Requests : Uncarded(r)' => Uncarded(r)
  PROVE  CardsBounded'
<1> SUFFICES ASSUME NEW r \in Requests
             PROVE  Cardinality(CardPosts(r)') <= faults' + (IF Uncarded(r)' THEN 0 ELSE 1)
  BY DEF CardsBounded
<1>1. CardPosts(r)' = CardPosts(r)
  BY DEF CardPosts, About
<1>2. Cardinality(CardPosts(r)) <= faults + (IF Uncarded(r) THEN 0 ELSE 1)
  BY DEF CardsBounded
<1>3. Cardinality(CardPosts(r)) \in Nat /\ faults \in Nat
  BY Counts DEF TypeOK
<1>4. Uncarded(r)' => Uncarded(r)
  OBVIOUS
<1> HIDE DEF Uncarded
<1> QED BY <1>1, <1>2, <1>3, <1>4

LEMMA KeepsLedger ==
  ASSUME TypeOK, LedgerKeepsUp, UNCHANGED ledger,
         \A r \in Requests : /\ state'[r] = "pending" => state[r] = "pending"
                             /\ Answered(r)' \subseteq Answered(r)
  PROVE  LedgerKeepsUp'
<1> SUFFICES ASSUME NEW r \in Requests, state'[r] = "pending"
             PROVE  Cardinality(About(r, ledger)) >= Cardinality(Answered(r)')
  BY DEF LedgerKeepsUp, About
<1>1. Cardinality(About(r, ledger)) >= Cardinality(Answered(r))
  BY DEF LedgerKeepsUp
<1>2. /\ Cardinality(About(r, ledger)) \in Nat
      /\ IsFiniteSet(Answered(r)) /\ Cardinality(Answered(r)) \in Nat
  BY Counts
<1>3. Answered(r)' \subseteq Answered(r)
  OBVIOUS
<1> HIDE DEF Answered
<1>4. /\ IsFiniteSet(Answered(r)') /\ Cardinality(Answered(r)') <= Cardinality(Answered(r))
      /\ Cardinality(Answered(r)') \in Nat
  BY <1>2, <1>3, FS_Subset, FS_CardinalityType
<1> QED BY <1>1, <1>2, <1>4

LEMMA KeepsAsked ==
  ASSUME AskedInv, UNCHANGED asked, cursor'["cards"] <= Len(asked),
         \A r \in Requests : state'[r] = "none" <=> state[r] = "none"
  PROVE  AskedInv'
BY DEF AskedInv, Opens, About

(* The dispatcher at one of its batches of cards. *)
LEMMA CardsBatch ==
  ASSUME OneDispatcher, TypeOK, CardInv, NEW d \in Dispatchers,
         NEW b \in Batches(d, "cards")
  PROVE  /\ b \in Batch(Consumers) /\ b.consumer = "cards" /\ b.at \in Nat
         /\ b.at + 1 \in DOMAIN asked /\ asked[b.at + 1] \in Ask
         /\ Passed = 1..b.at /\ cursor["cards"] \in Nat /\ cursor["cards"] <= b.at
         /\ \A r : ~Posting(r) /\ ~JustPosted(r)
<1>1. "cards" \in Consumers /\ Log("cards") = asked /\ cursor["cards"] \in Nat
  BY DEF Consumers, Log, TypeOK
<1>2. /\ b \in Batch({"cards"}) /\ b.at + 1 \in DOMAIN asked
      /\ \/ handler[d] = Idle /\ b.at = cursor["cards"]
         \/ handler[d].job = "batch" /\ handler[d].batch = b
  BY <1>1, BatchShape
<1>3. b \in Batch(Consumers) /\ b.consumer = "cards" /\ b.at \in Nat
  BY <1>1, <1>2 DEF Batch
<1>4. \A r : ~Posting(r) /\ ~JustPosted(r)
  BY <1>2, JobsOf DEF Idle
<1>5. CASE handler[d] = Idle /\ b.at = cursor["cards"]
  BY <1>1, <1>2, <1>3, <1>4, <1>5, PassedNow, LogsTyped DEF CardInv, OnCards
<1>6. CASE handler[d].job = "batch" /\ handler[d].batch = b
  <2>1. OnCards(d)
    BY <1>3, <1>6 DEF OnCards, Idle
  <2>2. Passed = 1..b.at /\ cursor["cards"] <= b.at
    BY <1>6, <2>1, PassedNow DEF CardInv, AtNext
  <2> QED BY <1>1, <1>2, <1>3, <1>4, <2>2, LogsTyped
<1> QED BY <1>2, <1>5, <1>6

LEMMA TakingCard ==
  ASSUME OneDispatcher, TypeOK, CardInv, NEW d \in Dispatchers, TakeCard(d)
  PROVE  CardInv'
<1>1. PICK b \in Batches(d, "cards") :
        IF state[asked[b.at + 1].request] = "pending"
        THEN \E post \in Render(asked[b.at + 1]) :
               Handles(d, [job |-> "post", batch |-> b, request |-> asked[b.at + 1].request,
                           kind |-> post.kind, thread |-> post.thread])
        ELSE Done(d, b)
  BY DEF TakeCard
<1> DEFINE i == b.at + 1
           e == asked[i]
<1>2. UNCHANGED <<state, asked, cursor, posts, ledger, faults>>
  BY DEF TakeCard, gate, events
<1>3. /\ b \in Batch(Consumers) /\ b.consumer = "cards" /\ b.at \in Nat
      /\ i \in DOMAIN asked /\ e \in Ask
      /\ Passed = 1..b.at /\ cursor["cards"] \in Nat /\ cursor["cards"] <= b.at
      /\ \A r : ~Posting(r) /\ ~JustPosted(r)
  BY CardsBatch
<1>4. AskedInv'
  BY <1>2, KeepsAsked DEF CardInv, AskedInv
<1> HIDE DEF e
<1>5. CASE state[e.request] = "pending"
  <2>1. PICK post \in Render(e) :
          Handles(d, [job |-> "post", batch |-> b, request |-> e.request,
                      kind |-> post.kind, thread |-> post.thread])
    BY <1>1, <1>5 DEF e
  <2> DEFINE h == [job |-> "post", batch |-> b, request |-> e.request,
                   kind |-> post.kind, thread |-> post.thread]
  <2>2. /\ Handles(d, h) /\ h # Idle /\ h.batch = b /\ h.job = "post" /\ h.request = e.request
        /\ h.kind = post.kind
    BY <2>1 DEF Idle
  <2> HIDE DEF h
  <2>3. AtNext'
    BY <1>2, <1>3, <2>2, OnlyHandler DEF AtNext, e
  <2>4. \A r : Answered(r)' = Answered(r)
    <3>1. Passed' = Passed
      BY <1>2, <1>3, <2>2, PassedNext
    <3> QED BY <1>2, <3>1 DEF Answered, About
  <2>5. LedgerKeepsUp'
    BY <1>2, <2>4, KeepsLedger DEF CardInv
  <2>6. \A r \in Requests : Uncarded(r)' => Uncarded(r)
    <3> SUFFICES ASSUME NEW r \in Requests, ~Uncarded(r) PROVE ~Uncarded(r)'
      OBVIOUS
    <3>1. CardsOf(r) # {} /\ Answered(r) # {}
      BY <1>3 DEF Uncarded
    <3>2. CardsOf(r)' = CardsOf(r)
      BY <1>2 DEF CardsOf
    <3>3. ~Posting(r)'
      <4> SUFFICES ASSUME e.request = r, post.kind = "human_request" PROVE FALSE
        BY <2>2, JobsNext
      <4>1. e.topic = "requested"
        BY <3>1, <1>3 DEF Render, Ask
      <4>2. Opens(i, r)
        BY <1>3, <4>1 DEF Opens, Ask, e
      <4>3. PICK k \in DOMAIN asked : k <= b.at /\ asked[k].request = r
        BY <3>1, <1>3 DEF Answered, About
      <4>4. PICK j \in DOMAIN asked : j <= k /\ Opens(j, r)
        BY <4>3 DEF CardInv, AskedInv
      <4>5. j = i
        BY <1>3, <4>2, <4>4 DEF CardInv, AskedInv
      <4> QED BY <1>3, <4>3, <4>4, <4>5, LogsTyped
    <3> QED BY <2>4, <3>1, <3>2, <3>3 DEF Uncarded
  <2>7. CardsBounded'
    BY <1>2, <2>6, KeepsCards DEF CardInv
  <2> QED BY <1>4, <2>3, <2>5, <2>7 DEF CardInv
<1>6. CASE state[e.request] # "pending"
  <2> DEFINE h == Between(b)
  <2>1. Handles(d, h)
    BY <1>1, <1>6 DEF Done, Between, e
  <2>2. h # Idle /\ h.job = "batch" /\ h.batch.consumer = "cards" /\ h.batch.at = i
    BY <1>3, BetweenShape
  <2> HIDE DEF h
  <2>3. Passed' = 1..i
    BY <1>2, <1>3, <2>1, <2>2, PassedNext
  <2>4. \A r : Answered(r)' = IF r = e.request THEN Answered(r) \cup {i} ELSE Answered(r)
    <3>1. 1..i = 1..b.at \cup {i}
      BY <1>3
    <3> QED BY <1>2, <1>3, <2>3, <3>1 DEF Answered, About, e
  <2>5. \A r : About(r, ledger)' = About(r, ledger) /\ CardsOf(r)' = CardsOf(r)
    BY <1>2 DEF About, CardsOf
  <2>6. AtNext'
    BY <1>2, <1>3, <2>1, <2>2, OnlyHandler DEF AtNext
  <2>7. LedgerKeepsUp'
    BY <1>2, <1>6, <2>4, <2>5 DEF CardInv, LedgerKeepsUp
  <2>8. \A r \in Requests : Uncarded(r)' => Uncarded(r)
    <3>1. \A r : ~Posting(r)'
      BY <2>1, <2>2, JobsNext
    <3> QED BY <1>3, <2>4, <2>5, <3>1 DEF Uncarded
  <2>9. CardsBounded'
    BY <1>2, <2>8, KeepsCards DEF CardInv
  <2> QED BY <1>4, <2>6, <2>7, <2>9 DEF CardInv
<1> QED BY <1>5, <1>6

(* The dispatcher with the card of an event in hand. *)
LEMMA CardInHand ==
  ASSUME OneDispatcher, TypeOK, CardInv, NEW d \in Dispatchers,
         handler[d].job \in {"post", "record"}
  PROVE  LET h == handler[d] IN
         /\ h # Idle /\ h.batch \in Batch(Consumers) /\ h.batch.consumer = "cards"
         /\ h.batch.at \in Nat /\ h.batch.at + 1 \in DOMAIN asked
         /\ h.request = asked[h.batch.at + 1].request
         /\ Passed = 1..h.batch.at
         /\ cursor["cards"] \in Nat /\ cursor["cards"] <= h.batch.at
<1> DEFINE h == handler[d]
<1>1. h # Idle /\ h.batch \in Batch({"cards"})
  BY JobShape DEF Idle
<1>2. OnCards(d)
  BY <1>1 DEF OnCards, Batch
<1>3. cursor["cards"] \in Nat
  BY DEF TypeOK, Consumers
<1> QED BY <1>1, <1>2, <1>3, CardsShape, PassedNow DEF CardInv, AtNext, OnCards

LEMMA PostingCard ==
  ASSUME OneDispatcher, TypeOK, CardInv, NEW d \in Dispatchers,
         Post(d) \/ PostUnheard(d) \/ PostFails(d)
  PROVE  CardInv'
<1> DEFINE h == handler[d]
           p == [request |-> h.request, kind |-> h.kind, thread |-> h.thread]
           g(sent, anchor) ==
             [job |-> "record", batch |-> h.batch, request |-> h.request,
              kind |-> h.kind, sent |-> sent, anchor |-> anchor]
<1>1. /\ h.job = "post" /\ h.request \in Requests /\ h.kind \in Kinds /\ p \in PostRow
      /\ UNCHANGED <<state, asked, cursor, ledger>>
  BY JobShape DEF Post, PostUnheard, PostFails, gate, events, PostRow
<1>2. /\ h.batch.consumer = "cards" /\ h.batch.at \in Nat
      /\ h.request = asked[h.batch.at + 1].request /\ Passed = 1..h.batch.at
      /\ cursor["cards"] \in Nat /\ cursor["cards"] <= h.batch.at
  BY <1>1, CardInHand
<1>3. PICK sent, anchor : Handles(d, g(sent, anchor))
        /\ \/ sent /\ posts' = Append(posts, p) /\ faults' = faults
           \/ ~sent /\ posts' = Append(posts, p) /\ faults' = faults + 1
           \/ ~sent /\ posts' = posts /\ faults' = faults
  BY DEF Post, PostUnheard, PostFails, Attempted, Posted, Fault
<1> DEFINE k == g(sent, anchor)
<1>4. /\ k.job = "record" /\ k.batch = h.batch /\ k # Idle
      /\ k.request = h.request /\ k.kind = h.kind /\ k.sent = sent
  BY DEF Idle
<1> HIDE DEF k, g, p
<1>5. Handles(d, k)
  BY <1>3 DEF k
<1>6. AtNext'
  BY <1>1, <1>2, <1>4, <1>5, OnlyHandler DEF AtNext
<1>7. \A r : Answered(r)' = Answered(r)
  <2>1. Passed' = Passed
    BY <1>1, <1>2, <1>4, <1>5, PassedNext
  <2> QED BY <1>1, <2>1 DEF Answered, About
<1>9. AskedInv' /\ LedgerKeepsUp'
  BY <1>1, <1>7, KeepsAsked, KeepsLedger DEF CardInv, AskedInv
<1>8. CardsBounded'
  <2> SUFFICES ASSUME NEW r \in Requests
               PROVE  Cardinality(CardPosts(r)') <= faults' + (IF Uncarded(r)' THEN 0 ELSE 1)
    BY DEF CardsBounded
  <2> DEFINE n == Cardinality(CardPosts(r))
             isCard == h.kind = "human_request" /\ h.request = r
  <2>1. /\ n <= faults + (IF Uncarded(r) THEN 0 ELSE 1) /\ n \in Nat /\ faults \in Nat
        /\ IsFiniteSet(CardPosts(r))
    BY Counts DEF CardInv, CardsBounded, TypeOK
  <2>2. /\ Posting(r) <=> isCard
        /\ ~JustPosted(r) /\ ~Posting(r)'
        /\ JustPosted(r)' <=> isCard /\ sent
    BY <1>1, <1>4, <1>5, JobsOf, JobsNext
  <2>3. CardsOf(r)' = CardsOf(r) /\ Answered(r)' = Answered(r)
    BY <1>1, <1>7 DEF CardsOf
  <2>4. Uncarded(r)' => ~(isCard /\ sent) /\ Uncarded(r)
    BY <2>2, <2>3 DEF Uncarded
  <2>5. isCard => Uncarded(r)
    BY <2>2 DEF Uncarded
  <2>6. CASE posts' = posts
    <3>1. CardPosts(r)' = CardPosts(r)
      BY <2>6 DEF CardPosts, About
    <3>2. faults' \in {faults, faults + 1}
      BY <1>3
    <3> HIDE DEF Uncarded, isCard
    <3> QED BY <2>1, <2>4, <3>1, <3>2
  <2>7. CASE posts' = Append(posts, p)
    <3> DEFINE m == Len(posts) + 1
    <3>1. /\ DOMAIN posts' = DOMAIN posts \cup {m} /\ m \notin DOMAIN posts
          /\ posts'[m] = p /\ \A q \in DOMAIN posts : posts'[q] = posts[q]
      BY <1>1, <2>7, LogsTyped, Appended
    <3>2. p.request = h.request /\ p.kind = h.kind
      BY DEF p
    <3> HIDE DEF m
    <3>3. CardPosts(r)' = IF isCard THEN CardPosts(r) \cup {m} ELSE CardPosts(r)
      BY <3>1, <3>2 DEF CardPosts, About
    <3>4. m \notin CardPosts(r)
      BY <3>1 DEF CardPosts, About
    <3>5. Cardinality(CardPosts(r)') = IF isCard THEN n + 1 ELSE n
      BY <2>1, <3>3, <3>4, FS_AddElement
    <3>6. \/ sent /\ faults' = faults
          \/ ~sent /\ faults' = faults + 1
          \/ faults' = faults /\ posts' = posts
      BY <1>3
    <3>7. posts' # posts
      BY <3>1
    <3> HIDE DEF isCard, n
    <3>8. CASE isCard
      <4>1. n <= faults
        BY <2>1, <2>5, <3>8
      <4> QED BY <2>1, <2>4, <3>5, <3>6, <3>7, <3>8, <4>1
    <3>9. CASE ~isCard
      BY <2>1, <2>4, <3>5, <3>6, <3>9
    <3> QED BY <3>8, <3>9
  <2> QED BY <1>3, <2>6, <2>7
<1> QED BY <1>6, <1>8, <1>9 DEF CardInv

LEMMA RecordingCard ==
  ASSUME OneDispatcher, TypeOK, CardInv, NEW d \in Dispatchers, RecordOutcome(d)
  PROVE  CardInv'
<1> DEFINE h == handler[d]
           row == [request |-> h.request, kind |-> h.kind, sent |-> h.sent,
                   anchor |-> h.anchor]
           k == Between(h.batch)
           i == h.batch.at + 1
           n == Len(ledger) + 1
<1>1. /\ h.job = "record" /\ row \in Row
      /\ UNCHANGED <<state, asked, cursor, posts, faults>>
      /\ ledger' = Append(ledger, row) /\ Handles(d, k)
  BY JobShape DEF RecordOutcome, Done, Between, gate, events, Row
<1>2. /\ h.batch \in Batch(Consumers) /\ h.batch.consumer = "cards" /\ h.batch.at \in Nat
      /\ i \in DOMAIN asked /\ h.request = asked[i].request /\ Passed = 1..h.batch.at
      /\ cursor["cards"] \in Nat /\ cursor["cards"] <= h.batch.at
  BY <1>1, CardInHand
<1>3. /\ row.request = h.request /\ row.kind = h.kind /\ row.sent = h.sent
      /\ k.job = "batch" /\ k # Idle /\ k.batch.consumer = "cards" /\ k.batch.at = i
  BY <1>2, BetweenShape
<1> HIDE DEF row, n, k
<1>4. /\ DOMAIN ledger' = DOMAIN ledger \cup {n} /\ n \notin DOMAIN ledger
      /\ ledger'[n] = row /\ \A j \in DOMAIN ledger : ledger'[j] = ledger[j]
  BY <1>1, LogsTyped, Appended DEF n
<1>5. \A r : /\ About(r, ledger)' = IF h.request = r THEN About(r, ledger) \cup {n}
                                                      ELSE About(r, ledger)
             /\ n \notin About(r, ledger)
  BY <1>3, <1>4 DEF About
<1>6. \A r : CardsOf(r) \subseteq CardsOf(r)' /\ (JustPosted(r) => n \in CardsOf(r)')
  <2>1. \A r : JustPosted(r) => h.request = r /\ h.sent /\ h.kind = "human_request"
    BY JobsOf
  <2> QED BY <1>3, <1>4, <2>1 DEF CardsOf, IsCard
<1>7. \A r : /\ ~Posting(r) /\ ~Posting(r)' /\ ~JustPosted(r)'
             /\ JustPosted(r) => h.request = r
  BY <1>1, <1>3, JobsOf, JobsNext
<1>8. \A r : /\ Answered(r)' = IF h.request = r THEN Answered(r) \cup {i} ELSE Answered(r)
             /\ i \notin Answered(r)
  <2>1. Passed' = 1..i
    BY <1>1, <1>2, <1>3, PassedNext
  <2>2. 1..i = 1..h.batch.at \cup {i} /\ i \notin 1..h.batch.at
    BY <1>2
  <2> QED BY <1>1, <1>2, <2>1, <2>2 DEF Answered, About
<1>9. AtNext'
  BY <1>1, <1>2, <1>3, OnlyHandler DEF AtNext
<1>10. AskedInv'
  BY <1>1, KeepsAsked DEF CardInv, AskedInv
<1>11. LedgerKeepsUp'
  <2> SUFFICES ASSUME NEW r \in Requests, state[r] = "pending"
               PROVE  Cardinality(About(r, ledger)') >= Cardinality(Answered(r)')
    BY <1>1 DEF LedgerKeepsUp
  <2>1. Cardinality(About(r, ledger)) >= Cardinality(Answered(r))
    BY DEF CardInv, LedgerKeepsUp
  <2>2. /\ IsFiniteSet(About(r, ledger)) /\ Cardinality(About(r, ledger)) \in Nat
        /\ IsFiniteSet(Answered(r)) /\ Cardinality(Answered(r)) \in Nat
    BY Counts
  <2>3. CASE h.request = r
    <3>1. Cardinality(About(r, ledger)') = Cardinality(About(r, ledger)) + 1
      BY <1>5, <2>2, <2>3, FS_AddElement
    <3>2. Cardinality(Answered(r)') = Cardinality(Answered(r)) + 1
      BY <1>8, <2>2, <2>3, FS_AddElement
    <3> QED BY <2>1, <2>2, <3>1, <3>2
  <2>4. CASE h.request # r
    BY <1>5, <1>8, <2>1, <2>4
  <2> QED BY <2>3, <2>4
<1>12. \A r \in Requests : Uncarded(r)' => Uncarded(r)
  BY <1>6, <1>7, <1>8 DEF Uncarded
<1>13. CardsBounded'
  BY <1>1, <1>12, KeepsCards DEF CardInv
<1> QED BY <1>9, <1>10, <1>11, <1>13 DEF CardInv

(* A step of the dispatcher that has nothing to do with cards. *)
LEMMA NoCardInHand ==
  ASSUME OneDispatcher, TypeOK, CardInv,
         UNCHANGED <<asked, posts, ledger, faults>>, cursor'["cards"] = cursor["cards"],
         \A r \in Requests : (state'[r] = "none" <=> state[r] = "none")
                             /\ (state'[r] = "pending" => state[r] = "pending"),
         \A b \in Dispatchers :
           \A h \in {handler[b], handler'[b]} :
             h = Idle \/ (h.batch.consumer = "replies" /\ h.job \in {"resolve", "batch"})
  PROVE  CardInv'
<1>1. \A r : ~Posting(r) /\ ~JustPosted(r) /\ ~Posting(r)' /\ ~JustPosted(r)'
  BY DEF Posting, JustPosted, Idle
<1>2. \A b \in Dispatchers : ~OnCards(b) /\ ~OnCards(b)'
  BY DEF OnCards
<1>0. \A r : /\ About(r, ledger)' = About(r, ledger) /\ About(r, asked)' = About(r, asked)
             /\ Answered(r)' = Answered(r) /\ CardsOf(r)' = CardsOf(r)
  <2>1. Passed' = Passed
    BY <1>2 DEF Passed
  <2> QED BY <2>1 DEF About, Answered, CardsOf
<1>3. AskedInv' /\ AtNext'
  BY <1>2, KeepsAsked DEF CardInv, AskedInv, AtNext
<1>4. LedgerKeepsUp'
  BY <1>0 DEF CardInv, LedgerKeepsUp
<1>5. \A r \in Requests : Uncarded(r)' => Uncarded(r)
  BY <1>0, <1>1 DEF Uncarded
<1>6. CardsBounded'
  BY <1>5, KeepsCards DEF CardInv
<1> QED BY <1>3, <1>4, <1>6 DEF CardInv

LEMMA TakingReply ==
  ASSUME OneDispatcher, TypeOK, CardInv, NEW d \in Dispatchers, TakeReply(d) \/ Resolve(d)
  PROVE  CardInv'
<1>1. UNCHANGED <<asked, posts, ledger, faults>> /\ cursor'["cards"] = cursor["cards"]
  BY DEF TakeReply, Resolve, gate, events, TypeOK, Consumers
<1>2. \A r \in Requests : (state'[r] = "none" <=> state[r] = "none")
                          /\ (state'[r] = "pending" => state[r] = "pending")
  <2>1. CASE TakeReply(d)
    BY <2>1 DEF TakeReply, gate
  <2>2. CASE Resolve(d)
    <3>1. handler[d].request \in Requests /\ handler[d].verdict \in Verdicts
      BY <2>2, JobShape DEF Resolve
    <3>2. handler[d].verdict \notin {"none", "pending"}
      BY <3>1 DEF Verdicts
    <3>3. RequestTransitions("none") = {}
      BY DEF RequestTransitions
    <3> QED BY <2>2, <3>1, <3>2, <3>3 DEF Resolve, TypeOK, gate
  <2> QED BY <2>1, <2>2
<1> DEFINE Replying(h) ==
             h = Idle \/ (h.batch.consumer = "replies" /\ h.job \in {"resolve", "batch"})
<1>3. Replying(handler[d]) /\ \E h : Handles(d, h) /\ Replying(h)
  <2>1. ASSUME NEW b \in Batch(Consumers), b.consumer = "replies", Done(d, b)
        PROVE  \E h : Handles(d, h) /\ Replying(h)
    <3>1. Handles(d, Between(b)) /\ Replying(Between(b))
      BY <2>1, BetweenShape DEF Done, Between
    <3> QED BY <3>1
  <2>2. CASE TakeReply(d)
    <3>1. PICK b \in Batches(d, "replies") :
            \/ \E v \in Verdict(heard[b.at + 1]) :
                 Handles(d, [job |-> "resolve", batch |-> b, message |-> heard[b.at + 1],
                             request |-> v.request, verdict |-> v.verdict])
            \/ Done(d, b)
      BY <2>2 DEF TakeReply
    <3>2. /\ b \in Batch({"replies"})
          /\ handler[d] = Idle \/ (handler[d].job = "batch" /\ handler[d].batch = b)
      <4>1. "replies" \in Consumers
        BY DEF Consumers
      <4> QED BY <4>1, BatchShape
    <3>3. b \in Batch(Consumers) /\ b.consumer = "replies"
      BY <3>2 DEF Batch, Consumers
    <3>4. ASSUME NEW v,
                 Handles(d, [job |-> "resolve", batch |-> b, message |-> heard[b.at + 1],
                             request |-> v.request, verdict |-> v.verdict])
          PROVE  \E h : Handles(d, h) /\ Replying(h)
      BY <3>3, <3>4
    <3> HIDE DEF Replying
    <3>5. Replying(handler[d])
      BY <3>2, <3>3 DEF Replying
    <3> QED BY <2>1, <3>1, <3>3, <3>4, <3>5
  <2>3. CASE Resolve(d)
    <3>1. /\ handler[d].job = "resolve" /\ handler[d].batch \in Batch({"replies"})
          /\ Done(d, handler[d].batch)
      BY <2>3, JobShape DEF Resolve
    <3>2. handler[d].batch \in Batch(Consumers) /\ handler[d].batch.consumer = "replies"
      BY <3>1 DEF Batch, Consumers
    <3> QED BY <2>1, <3>1, <3>2
  <2> QED BY <2>2, <2>3
<1>5. PICK h : Handles(d, h) /\ Replying(h)
  BY <1>3
<1>6. \A b \in Dispatchers : handler[b] = handler[d] /\ handler'[b] = h
  BY <1>5, OnlyHandler
<1> QED BY <1>1, <1>2, <1>3, <1>5, <1>6, NoCardInHand

(* A batch ends, with the cursor where the batch is or where it was. *)
LEMMA BatchEnds ==
  ASSUME OneDispatcher, TypeOK, CardInv, NEW d \in Dispatchers, Finish(d) \/ HandlerDies(d)
  PROVE  /\ Handles(d, Idle) /\ UNCHANGED <<state, asked, posts, ledger>>
         /\ AskedInv' /\ AtNext' /\ LedgerKeepsUp'
         /\ Passed' \subseteq Passed /\ (Finish(d) => Passed' = Passed)
<1> DEFINE h == handler[d]
<1>1. /\ Handles(d, Idle) /\ UNCHANGED <<state, asked, posts, ledger>> /\ h # Idle
      /\ \/ cursor' = [cursor EXCEPT ![h.batch.consumer] = h.batch.at]
         \/ HandlerDies(d) /\ cursor' = cursor
      /\ Finish(d) => cursor' = [cursor EXCEPT ![h.batch.consumer] = h.batch.at]
  BY DEF Finish, HandlerDies, gate, events, Idling, Idle
<1>2. h.batch \in Batch(Consumers) /\ h.batch.consumer \in Consumers
  BY <1>1, JobShape DEF Batch
<1>3. cursor["cards"] \in Nat /\ cursor["cards"] <= Len(asked)
  BY DEF CardInv, AskedInv, TypeOK, Consumers
<1>4. CASE h.batch.consumer = "cards"
  <2>1. OnCards(d) /\ Passed = 1..h.batch.at
    BY <1>1, <1>4, PassedNow DEF OnCards, CardInv
  <2>2. h.batch.at \in Nat /\ h.batch.at <= Len(asked) /\ cursor["cards"] <= h.batch.at
    BY <2>1, CardsShape DEF CardInv, AtNext
  <2>3. cursor'["cards"] = h.batch.at \/ (HandlerDies(d) /\ cursor'["cards"] = cursor["cards"])
    BY <1>1, <1>4 DEF TypeOK, Consumers
  <2>4. Finish(d) => cursor'["cards"] = h.batch.at
    BY <1>1, <1>4 DEF TypeOK, Consumers
  <2> HIDE DEF h
  <2>5. cursor'["cards"] \in Nat /\ cursor'["cards"] <= h.batch.at
        /\ cursor'["cards"] <= Len(asked)
    BY <1>3, <2>2, <2>3
  <2>6. Passed' = 1..cursor'["cards"]
    BY <1>1, <2>5, PassedNext
  <2>7. Passed' \subseteq Passed /\ (Finish(d) => Passed' = Passed)
    BY <2>1, <2>2, <2>4, <2>5, <2>6
  <2>8. AskedInv' /\ AtNext'
    BY <1>1, <2>5, KeepsAsked, OnlyHandler DEF CardInv, AtNext, OnCards
  <2>9. LedgerKeepsUp'
    BY <1>1, <2>7, KeepsLedger DEF CardInv, Answered, About
  <2> QED BY <1>1, <2>7, <2>8, <2>9
<1>5. CASE h.batch.consumer = "replies"
  <2>1. cursor'["cards"] = cursor["cards"]
    BY <1>1, <1>5 DEF TypeOK, Consumers
  <2>2. Passed = 1..cursor["cards"] /\ Passed' = 1..cursor["cards"]
    BY <1>1, <1>3, <1>5, <2>1, PassedNow, PassedNext DEF OnCards, CardInv
  <2>3. AskedInv' /\ AtNext'
    BY <1>1, <1>3, <2>1, KeepsAsked, OnlyHandler DEF CardInv, AtNext, OnCards
  <2>4. LedgerKeepsUp'
    BY <1>1, <2>2, KeepsLedger DEF CardInv, Answered, About
  <2> QED BY <1>1, <2>2, <2>3, <2>4
<1> QED BY <1>2, <1>4, <1>5 DEF Consumers

LEMMA FinishingCard ==
  ASSUME OneDispatcher, TypeOK, CardInv, NEW d \in Dispatchers, Finish(d)
  PROVE  CardInv'
<1>1. /\ Handles(d, Idle) /\ UNCHANGED <<state, asked, posts, ledger, faults>>
      /\ AskedInv' /\ AtNext' /\ LedgerKeepsUp' /\ Passed' = Passed
      /\ handler[d].job = "batch"
  BY BatchEnds DEF Finish
<1>2. \A r : /\ Answered(r)' = Answered(r) /\ CardsOf(r)' = CardsOf(r)
             /\ ~Posting(r) /\ ~JustPosted(r)
             /\ ~Posting(r)' /\ ~JustPosted(r)'
  <2>1. Idle.job = "idle"
    BY DEF Idle
  <2> QED BY <1>1, <2>1, JobsOf, JobsNext DEF Answered, About, CardsOf
<1>3. \A r \in Requests : Uncarded(r)' => Uncarded(r)
  BY <1>2 DEF Uncarded
<1>4. CardsBounded'
  BY <1>1, <1>3, KeepsCards DEF CardInv
<1> QED BY <1>1, <1>4 DEF CardInv

LEMMA HandlerDying ==
  ASSUME OneDispatcher, TypeOK, CardInv, NEW d \in Dispatchers, HandlerDies(d)
  PROVE  CardInv'
<1>1. /\ faults' = faults + 1 /\ UNCHANGED posts
      /\ AskedInv' /\ AtNext' /\ LedgerKeepsUp'
  BY BatchEnds DEF HandlerDies, Fault
<1>2. CardsBounded'
  <2> SUFFICES ASSUME NEW r \in Requests
               PROVE  Cardinality(CardPosts(r)') <= faults' + (IF Uncarded(r)' THEN 0 ELSE 1)
    BY DEF CardsBounded
  <2>1. CardPosts(r)' = CardPosts(r)
    BY <1>1 DEF CardPosts, About
  <2>2. Cardinality(CardPosts(r)) <= faults + (IF Uncarded(r) THEN 0 ELSE 1)
    BY DEF CardInv, CardsBounded
  <2>3. Cardinality(CardPosts(r)) \in Nat /\ faults \in Nat
    BY Counts DEF TypeOK
  <2> HIDE DEF Uncarded
  <2> QED BY <1>1, <2>1, <2>2, <2>3
<1> QED BY <1>1, <1>2 DEF CardInv

LEMMA CardStep ==
  ASSUME OneDispatcher, TypeOK, CardInv, [Next]_vars
  PROVE  CardInv'
<1>1. ASSUME NEW r \in Requests, NEW v \in Elsewhere, SettleElsewhere(r, v) PROVE CardInv'
  <2>1. v \notin {"none", "pending"} /\ state[r] # "none"
    BY <1>1, KindAssumption DEF SettleElsewhere, RequestStates
  <2>2. UNCHANGED <<asked, outbound, faults>> /\ faults' \in Nat /\ faults' >= faults
    BY <1>1 DEF SettleElsewhere, events, TypeOK
  <2>3. \A q \in Requests : (state'[q] = "none" <=> state[q] = "none")
                            /\ (state'[q] = "pending" => state[q] = "pending")
    BY <1>1, <2>1 DEF SettleElsewhere, TypeOK
  <2> QED BY <2>2, <2>3, SameLedgers
<1>2. CASE UNCHANGED <<state, asked, outbound>> /\ faults' \in {faults, faults + 1}
  <2>1. faults' \in Nat /\ faults' >= faults
    BY <1>2 DEF TypeOK
  <2> QED BY <1>2, <2>1, SameLedgers
<1> QED
  BY <1>1, <1>2, Asking, TakingCard, PostingCard, RecordingCard, TakingReply, FinishingCard,
     HandlerDying
  DEF Next, People, Faults, Handler, Ingress, vars, gate, events, Say, Receive, StoreDoc,
      Announce, IngestDies, Fault

(* With one dispatcher, as it is deployed, every handled event of a request *)
(* that is still pending has left its row, and only a fault posts a second  *)
(* card of a request.                                                       *)
THEOREM LedgerTellsTheCards == OneDispatcher => (Spec => []CardsMatchEvents)
<1> SUFFICES ASSUME OneDispatcher PROVE Spec => []CardsMatchEvents
  OBVIOUS
<1>1. Init => CardInv
  <2> SUFFICES ASSUME Init PROVE CardInv
    OBVIOUS
  <2>1. \A r, log : log = <<>> => About(r, log) = {}
    BY DEF About
  <2>2. \A r : Answered(r) = {} /\ CardPosts(r) = {}
    BY <2>1 DEF Init, Answered, CardPosts
  <2>3. AskedInv
    BY <2>1 DEF Init, AskedInv, Consumers
  <2>4. AtNext
    BY DEF Init, AtNext, OnCards
  <2>5. Cardinality({}) = 0
    BY FS_EmptySet
  <2>6. LedgerKeepsUp
    BY <2>2, <2>5 DEF Init, LedgerKeepsUp
  <2>7. CardsBounded
    <3>1. faults = 0
      BY DEF Init
    <3> QED BY <2>2, <2>5, <3>1 DEF CardsBounded
  <2> QED BY <2>3, <2>4, <2>6, <2>7 DEF CardInv
<1>2. TypeOK /\ CardInv /\ [Next]_vars => CardInv'
  BY CardStep
<1>3. TypeOK /\ CardInv => CardsMatchEvents
  <2> SUFFICES ASSUME TypeOK, CardInv, NEW r \in Requests
               PROVE  /\ state[r] = "pending" =>
                           Cardinality(About(r, ledger)) >=
                             Cardinality(About(r, asked) \cap 1..cursor["cards"])
                      /\ Cardinality(CardPosts(r)) <= 1 + faults
    BY DEF CardsMatchEvents, CardPosts
  <2>1. /\ Cardinality(CardPosts(r)) <= faults + (IF Uncarded(r) THEN 0 ELSE 1)
        /\ state[r] = "pending" => Cardinality(About(r, ledger)) >= Cardinality(Answered(r))
    BY DEF CardInv, CardsBounded, LedgerKeepsUp
  <2>2. /\ Cardinality(About(r, ledger)) \in Nat
        /\ IsFiniteSet(Answered(r)) /\ Cardinality(Answered(r)) \in Nat
        /\ Cardinality(CardPosts(r)) \in Nat /\ faults \in Nat
    BY Counts DEF TypeOK
  <2> DEFINE Told == About(r, asked) \cap 1..cursor["cards"]
  <2>3. Told \subseteq Answered(r)
    BY DEF Answered, Passed, TypeOK, Consumers
  <2> HIDE DEF Uncarded, Told, Answered
  <2>4. Cardinality(Told) \in Nat /\ Cardinality(Told) <= Cardinality(Answered(r))
    BY <2>2, <2>3, FS_Subset, FS_CardinalityType
  <2>5. state[r] = "pending" => Cardinality(About(r, ledger)) >= Cardinality(Told)
    BY <2>1, <2>2, <2>4
  <2>6. Cardinality(CardPosts(r)) <= 1 + faults
    BY <2>1, <2>2
  <2> QED BY <2>5, <2>6 DEF Told
<1> QED BY <1>1, <1>2, <1>3, TypeCorrect, PTL DEF Spec
=============================================================================
