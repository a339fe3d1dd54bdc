-------------------------------- MODULE Pareto --------------------------------
(***************************************************************************)
(* benchmark/pareto.py: the frontier of the measured models, found by      *)
(* comparing every point with every other, and then sorted.                *)
(***************************************************************************)
EXTENDS Integers, Sequences, Functions

CONSTANT Inputs  \* lists of points: a subset of Seq(Point)

Point == [speed : Int, score : Int]

VARIABLES
  points,     \* the list
  i, j,       \* the point that is judged, and the one it is compared with
  dominated,  \* the verdict so far
  kept,       \* the numbers of the points that stay
  frontier,   \* the points that stay, sorted
  pc

vars == <<points, i, j, dominated, kept, frontier, pc>>

Numbers == 1..Len(points)

(* As good on both axes, and better on one. *)
Better(p, q) ==
  /\ p.speed >= q.speed /\ p.score >= q.score
  /\ p.speed > q.speed \/ p.score > q.score

Init ==
  /\ points \in Inputs
  /\ i = 1 /\ j = 1 /\ dominated = FALSE
  /\ kept = <<>> /\ frontier = <<>>
  /\ pc = "judge"

(* Fault: a point that is as good as another one goes. *)
CompareEqual ==
  /\ pc = "judge" /\ i <= Len(points) /\ j <= Len(points) /\ ~dominated
  /\ dominated' = (j # i /\ points[j].speed >= points[i].speed /\ points[j].score >= points[i].score)
  /\ j' = IF dominated' THEN j ELSE j + 1
  /\ UNCHANGED <<points, i, kept, frontier, pc>>

(* One turn of the inner loop. *)
Compare ==
  /\ pc = "judge" /\ i <= Len(points) /\ j <= Len(points) /\ ~dominated
  /\ dominated' = (j # i /\ Better(points[j], points[i]))
  /\ j' = IF dominated' THEN j ELSE j + 1
  /\ UNCHANGED <<points, i, kept, frontier, pc>>

(* The rest of a turn of the outer loop. *)
Judge ==
  /\ pc = "judge" /\ i <= Len(points) /\ (dominated \/ j > Len(points))
  /\ kept' = IF dominated THEN kept ELSE Append(kept, i)
  /\ i' = i + 1 /\ j' = 1 /\ dominated' = FALSE
  /\ UNCHANGED <<points, frontier, pc>>

Before(p, q) == p.speed < q.speed \/ (p.speed = q.speed /\ p.score < q.score)

(* Every point keeps its place or changes it with others, until no one     *)
(* comes before the point ahead of it; equal points look alike.            *)
Sort ==
  /\ pc = "judge" /\ i > Len(points)
  /\ \E order \in Bijection(1..Len(kept), 1..Len(kept)) :
       frontier' = [n \in 1..Len(kept) |-> points[kept[order[n]]]]
  /\ \A n \in 1..Len(kept) - 1 : ~Before(frontier'[n + 1], frontier'[n])
  /\ pc' = "done"
  /\ UNCHANGED <<points, i, j, dominated, kept>>

Next == Compare \/ Judge \/ Sort

Spec == Init /\ [][Next]_vars

-----------------------------------------------------------------------------
Dominated(n) == \E m \in Numbers : Better(points[m], points[n])

(* The points that were judged stay when, and only when, no point of the   *)
(* whole list is better; equal points stay all (the two loops).            *)
KeptExact ==
  \A n \in Numbers : (\E k \in 1..Len(kept) : kept[k] = n) <=> (n < i /\ ~Dominated(n))

(* The sorted frontier has each of them, and falls: what is faster has a   *)
(* lower score, so that the line through it is one that trades one for the *)
(* other; only equal points stand side by side (kept.sort).                *)
FrontierFalls ==
  pc = "done" =>
    /\ Len(frontier) = Len(kept)
    /\ {frontier[k] : k \in 1..Len(frontier)} = {points[kept[k]] : k \in 1..Len(kept)}
    /\ \A k \in 1..Len(frontier) - 1 :
         \/ frontier[k] = frontier[k + 1]
         \/ /\ frontier[k].speed < frontier[k + 1].speed
            /\ frontier[k].score > frontier[k + 1].score

(* Whatever is left out is worse than something on the frontier, not only  *)
(* than a point that was left out itself (pareto_frontier).                *)
FrontierCovers ==
  pc = "done" =>
    \A n \in Numbers : \E k \in 1..Len(frontier) :
      frontier[k] = points[n] \/ Better(frontier[k], points[n])

(* The three together: the points that stay, their order, and what they    *)
(* make up for (pareto_frontier).                                          *)
FrontierExact == KeptExact /\ FrontierFalls /\ FrontierCovers
=============================================================================
