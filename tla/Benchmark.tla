------------------------------ MODULE Benchmark ------------------------------
(***************************************************************************)
(* The parts of the benchmark: the search for a prompt, the repeats of a   *)
(* workload, and the frontier.  They share no state: one of them runs, for *)
(* any of its inputs, while the others are at their start.                 *)
(***************************************************************************)
EXTENDS PromptFit, Sequences, FiniteSets

CONSTANTS
  Inputs,                                            \* of Pareto
  Repeats, MaxTime, MaxTexts, Tokens, Scale, None    \* of Runner

VARIABLES
  points, i, j, dominated, kept, frontier, state,
  gate, clock, chunks, truth, samples, happened, row,
  part  \* the one that runs

P == INSTANCE Pareto WITH pc <- state
R == INSTANCE Runner

ASSUME ParetoAssumption == Inputs \subseteq Seq(P!Point)

(* A chunk with text has a token at least; None is not a time or a speed.  *)
ASSUME RunnerAssumption ==
  /\ Repeats \in Nat /\ MaxTime \in Nat /\ MaxTexts \in Nat
  /\ Tokens \subseteq Nat \ {0} /\ Scale \in Nat /\ None \notin Int

pareto == <<points, i, j, dominated, kept, frontier, state>>
runner == <<gate, clock, chunks, truth, samples, happened, row>>
all == <<vars, pareto, runner, part>>

(* Inputs of the parts that do not run. *)
FirstCount == CHOOSE c \in Counts : TRUE
FirstTarget == CHOOSE n \in Targets : TRUE
FirstList == CHOOSE s \in Inputs : TRUE

NoPrompt == count = FirstCount /\ target = FirstTarget /\ Init
NoPoints == points = FirstList /\ P!Init

AllInit ==
  \/ part = "prompts" /\ Init /\ NoPoints /\ R!Init
  \/ part = "repeats" /\ R!Init /\ NoPrompt /\ NoPoints
  \/ part = "frontier" /\ P!Init /\ NoPrompt /\ R!Init

AllNext ==
  \/ part = "prompts" /\ Next /\ UNCHANGED <<pareto, runner, part>>
  \/ part = "repeats" /\ R!Next /\ UNCHANGED <<vars, pareto, part>>
  \/ part = "frontier" /\ P!Next /\ UNCHANGED <<vars, runner, part>>

BenchmarkSpec == AllInit /\ [][AllNext]_all

(* What the frontier has, in which order, and what it makes up for.        *)
FrontierExact == P!FrontierExact

(* What is measured of a stream, and what is made of all repeats.          *)
MeasuresRight == R!MeasuresRight
=============================================================================
