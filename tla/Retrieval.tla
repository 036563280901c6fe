------------------------------ MODULE Retrieval ------------------------------
(***************************************************************************)
(* The pure algorithms of the context store (apps/server/src/context):     *)
(* how a body is cut into chunks, how the arms of a hybrid search are      *)
(* fused, and which introductions lead to an entity.  A text is the        *)
(* lengths of its paragraphs; a score is scaled to a whole number.         *)
(***************************************************************************)
EXTENDS Naturals, Sequences, SequencesExt, FiniteSetsExt

Best(s, n) == SubSeq(s, 1, Min({n, Len(s)}))

(* The orders of the scored, best first.  (The code breaks ties by a fixed *)
(* order; here either may be first.)                                       *)
Ranked(score) ==
  {s \in SetToSeqs(DOMAIN score) :
     \A i, j \in DOMAIN s : i < j => score[s[i]] >= score[s[j]]}

-----------------------------------------------------------------------------
(* chunkText *)

(* An over-long paragraph is cut at the latest boundary before the target, *)
(* and past its half; `cut' is where that boundary is.                     *)
SplitLongParagraph(n, target, cut) ==
  LET k == IF n <= target THEN 0 ELSE (n - target + cut - 1) \div cut
  IN [i \in 1..k |-> <<cut>>] \o <<<<n - k * cut>>>>

(* Paragraphs are joined by a blank line of two characters. *)
Length(chunk) == FoldSeq(LAMBDA n, sum : n + sum, 0, chunk) + 2 * (Len(chunk) - 1)

ChunkText(paragraphs, target, cut) ==
  LET Flush(acc) == IF acc.current = <<>> THEN acc.chunks ELSE Append(acc.chunks, acc.current)
      Add(acc, n) ==
        IF n > target
          THEN [chunks |-> Flush(acc) \o SplitLongParagraph(n, target, cut), current |-> <<>>]
          ELSE LET joined == Append(acc.current, n)
               IN IF Length(joined) <= target
                    THEN [acc EXCEPT !.current = joined]
                    ELSE [chunks |-> Flush(acc), current |-> <<n>>]
  IN Flush(FoldLeft(Add, [chunks |-> <<>>, current |-> <<>>], paragraphs))

(* No text is lost and no chunk is longer than the target. *)
ChunksFit(paragraphs, target, cut) ==
  LET chunks == ChunkText(paragraphs, target, cut)
      Sum(s) == FoldSeq(LAMBDA n, sum : n + sum, 0, s)
  IN /\ \A i \in DOMAIN chunks : chunks[i] # <<>> /\ Length(chunks[i]) <= target
     /\ Sum(FlattenSeq(chunks)) = Sum(paragraphs)

-----------------------------------------------------------------------------
(* reciprocalRankFusion and fuseRanked over lists without repetitions, of  *)
(* at most `depth' keys; weights are doubled.                              *)

RrfK == 60

Scale(depth) == FoldSet(LAMBDA i, prod : (RrfK + i) * prod, 1, 1..depth)

RankScore(list, key, depth) ==
  IF \E i \in DOMAIN list.keys : list.keys[i] = key
    THEN LET i == CHOOSE j \in DOMAIN list.keys : list.keys[j] = key
         IN list.weight * (Scale(depth) \div (RrfK + i))
    ELSE 0

FusedScore(lists, key, depth) ==
  FoldSeq(LAMBDA list, sum : RankScore(list, key, depth) + sum, 0, lists)

FuseRanked(lists, depth) ==
  LET keys == UNION {{lists[i].keys[j] : j \in DOMAIN lists[i].keys} : i \in DOMAIN lists}
  IN Ranked([k \in keys |-> FusedScore(lists, k, depth)])

(* A key that no arm ranks behind another one is not fused behind it. *)
FusionAgrees(lists, depth) ==
  LET At(list, key) == IF \E i \in DOMAIN list.keys : list.keys[i] = key
                         THEN CHOOSE i \in DOMAIN list.keys : list.keys[i] = key ELSE depth + 1
  IN \A fused \in FuseRanked(lists, depth) : \A i, j \in DOMAIN fused :
       i < j => \/ \E l \in DOMAIN lists : At(lists[l], fused[i]) < At(lists[l], fused[j])
                \/ \A l \in DOMAIN lists : At(lists[l], fused[i]) = At(lists[l], fused[j])

-----------------------------------------------------------------------------
(* paths: introductions to `target', direct or through one other entity.   *)
(* `degree' maps the entities read to 1, 2 or neither, `links' are the     *)
(* entity links read, each [from, to, weight], walked either way.          *)

Edges(links) ==
  {[from |-> l.from, to |-> l.to, weight |-> l.weight] : l \in links}
    \cup {[from |-> l.to, to |-> l.from, weight |-> l.weight] : l \in links}

(* One hop from a contact of the network, or two over an entity that is    *)
(* not a prospect.                                                         *)
Hops(degree, links, target) ==
  LET starts == {n \in DOMAIN degree : degree[n] = 1 /\ n # target}
      step(a, b) == \E e \in Edges(links) : e.from = a /\ e.to = b
      mids == {n \in DOMAIN degree \ {target} : degree[n] # 2}
  IN {<<s, target>> : s \in {n \in starts : step(n, target)}}
       \cup {<<p[1], p[2], target>> : p \in
               {q \in starts \X mids : step(q[1], q[2]) /\ step(q[2], target)}}

Heaviest(links, a, b) ==
  Max({e.weight : e \in {x \in Edges(links) : x.from = a /\ x.to = b}})

(* Strength and weights are in tenths; a second hop halves. *)
PathScore(hops, links, strength) ==
  LET first == strength[hops[1]] * Heaviest(links, hops[1], hops[2])
  IN IF Len(hops) = 2 THEN 20 * first
     ELSE first * Heaviest(links, hops[2], hops[3])

(* The best MAX_PATHS, best first. *)
RankedPaths(degree, links, strength, target, max) ==
  {Best(s, max) : s \in Ranked([p \in Hops(degree, links, target) |->
                                 PathScore(p, links, strength)])}
=============================================================================
