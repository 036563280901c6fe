----------------------------- MODULE MCServices -----------------------------
(* Instances for TLC, of two actors each. *)
EXTENDS Services, TLC

CONSTANTS p1, p2, ann, bob, acme, digest

Two == {p1, p2}

Symmetry == Permutations(Two)

-----------------------------------------------------------------------------
(* Human gate: two requests, one with an SLA and an escalation path, one   *)
(* with neither.                                                           *)
TheRequests == {"r1", "r2"}
OneSubject  == {"s1"}
Slas        == [r \in TheRequests |-> IF r = "r1" THEN 1 ELSE None]
People      == {ann, bob}
Paths       == [r \in TheRequests |-> IF r = "r1" THEN <<bob>> ELSE <<>>]
Owners      == [r \in TheRequests |-> ann]

-----------------------------------------------------------------------------
(* Boot: two modules with three migration files, which another build has   *)
(* one more of and has edited the last of; two seeded skills.              *)
OneTenant   == {"t1"}
TwoWatchers == {"w1", "w2"}
File(n, text) == [name |-> n, sum |-> text]
TwoBuilds   == {<<<<File(1, 1)>>, <<File(2, 1), File(3, 1)>>>>,
                <<<<File(1, 1), File(4, 1)>>, <<File(2, 1), File(3, 2)>>>>}
TwoSeeds    == <<"weekly-report", "follow-up-cadence">>

-----------------------------------------------------------------------------
(* Skills: one with two versions of two manifests; the build of the server *)
(* registers one of them, and another build has dropped the skill.         *)
OneSlug      == {digest}
TwoSemvers   == {1, 2}
TwoManifests == {"m1", "m2"}
OneServer    == {"s1"}
TwoVerdicts  == {"approved", "denied"}
FirstMinute  == [m \in TwoManifests |-> {1}]
TheBuilds    == {[g \in OneSlug |-> m] : m \in {"m1", None}}

-----------------------------------------------------------------------------
(* Follow-ups: two items, one escalates after a day, the other has a       *)
(* cadence that never fires.                                               *)
Cadences == <<1, None>>
Days     == <<1, None>>
Dues     == <<1, 1>>

-----------------------------------------------------------------------------
(* Connections: two feeds, of two channels and of one; every second        *)
(* message is noise.                                                       *)
OneProbe  == {"health"}
TheFeeds  == <<<<"a", "b">>, <<"c">>>>
TheNoise  == {2}
Posts     == [c \in {"a", "b", "c"} |-> IF c = "a" THEN 2 ELSE 0]

(* One expectation, due every minute and excused for one. *)
OneFeed     == {"e1"}
EveryMinute == [e \in OneFeed |-> 1..3]
OneMinute   == [e \in OneFeed |-> 1]

-----------------------------------------------------------------------------
(* Context store: two documents with the same bytes; the model answers     *)
(* with a person of the network, with a prospect who is two links away, or *)
(* with a link to someone it does not name.                                *)
OneContent  == {"b1"}
TwoDocs     == {"d1", "d2"}
TheEntities == {ann, bob, acme}

TheAnswers == {
  [entities |-> <<[key |-> ann, degree |-> 1], [key |-> acme, degree |-> None]>>,
   links |-> {[from |-> ann, to |-> acme, weight |-> 8]}],
  [entities |-> <<[key |-> bob, degree |-> 2], [key |-> acme, degree |-> 1],
                  [key |-> acme, degree |-> 2]>>,
   links |-> {[from |-> acme, to |-> bob, weight |-> 5],
              [from |-> ann, to |-> bob, weight |-> 9]}],
  [entities |-> <<>>, links |-> {[from |-> "doc", to |-> ann, weight |-> 5]}]}

Strengths    == [k \in TheEntities |-> 5]
TheAudiences == {"network", "prospecting"}

(* Retrieval's pure functions against their definitions, on small inputs:  *)
(* the chunks of every body fit and lose none of it, and fusing ranked     *)
(* lists agrees with the sum of reciprocal ranks.                          *)
Bodies == UNION {[1..n -> {1, 3, 5, 6, 9, 20}] : n \in 0..3}

Ranked == UNION {{s \in [1..n -> {"a", "b", "c"}] : \A i, j \in 1..n : i # j => s[i] # s[j]} :
                   n \in 0..3}

ASSUME ChunkerFits == \A b \in Bodies, cut \in 4..6 : Context!ChunksFit(b, 6, cut)

ASSUME FusionIsReciprocalRank ==
  \A x, y, z \in Ranked :
    Context!FusionAgrees(<<[weight |-> 2, keys |-> x], [weight |-> 2, keys |-> y],
                           [weight |-> 1, keys |-> z]>>, 3)

-----------------------------------------------------------------------------
(* Process graphs: templates of two nodes, one of them with edges that go  *)
(* round; changes that replace a node, add two, and skip a protected one.  *)
TheKeys == {"a", "b", "x"}

Template(edges) ==
  [nodes |-> {"a", "b"}, edges |-> edges, watched |-> {"b"}, mode |-> "adaptive",
   allowAdd |-> TRUE, allowSkip |-> TRUE, protected |-> {"a"}]

TheTemplates == {Template({<<"b", "a">>}), Template({<<"a", "b">>, <<"b", "a">>})}

DynamicRun ==
  [nodes |-> {"a"}, edges |-> {}, watched |-> {}, mode |-> "dynamic",
   allowAdd |-> TRUE, allowSkip |-> TRUE, protected |-> {}]

TheDeltas == {
  [add |-> {"x"}, edges |-> {<<"x", "b">>}, watched |-> {"x"}, skip |-> {"b"}],
  [add |-> {"x", "b"}, edges |-> {<<"x", "b">>}, watched |-> {"x"}, skip |-> {}],
  [add |-> {}, edges |-> {}, watched |-> {}, skip |-> {"a"}]}
=============================================================================
