----------------------------- MODULE MCBenchmark -----------------------------
EXTENDS Benchmark

(* Texts of up to seven characters; a character adds up to two tokens, or  *)
(* merges with what stands before it and takes one or two away.            *)
AnyCounts ==
  {c \in [0..MaxText -> 0..4] :
     c[0] = 0 /\ \A n \in 0..MaxText - 1 : c[n + 1] - c[n] \in -2..2 /\ c[n + 1] > 0}

(* Lists of up to four points on a grid of three by three. *)
At(s, q) == [speed |-> s, score |-> q]
Grid == {At(s, q) : s \in 0..2, q \in 0..2}
Lists == UNION {[1..n -> Grid] : n \in 0..4}
=============================================================================
