------------------------------ MODULE PromptFit ------------------------------
(***************************************************************************)
(* benchmark/workloads.py: a text grown until it has enough tokens, and    *)
(* cut to the length that has as many as asked for.  Only the number of    *)
(* tokens of each prefix matters; a longer prefix may have fewer.          *)
(***************************************************************************)
EXTENDS Integers

CONSTANTS
  Counts,   \* the tokenizers: functions that give each length its tokens
  MaxText,  \* bound on the length of a text
  Prefix,   \* the length of the task with the number of the repeat
  Filler,   \* the length that one turn adds
  Targets   \* the numbers of tokens asked for

ASSUME FitAssumption ==
  /\ MaxText \in Nat /\ Prefix \in 0..MaxText /\ Filler \in Nat \ {0} /\ Targets \subseteq Nat
  /\ Counts \subseteq [0..MaxText -> Nat] /\ \A c \in Counts : c[0] = 0

VARIABLES
  count, target,
  len,         \* the length of the text
  lo, hi,      \* the search: the best is shorter than lo, hi is not too short
  best, bestN, \* the longest prefix that was found, and its tokens
  closest, cut,  \* the steps forward: the closest so far, the next cut
  pc

vars == <<count, target, len, lo, hi, best, bestN, closest, cut, pc>>
input == <<count, target>>

Init ==
  /\ count \in Counts /\ target \in Targets
  /\ len = Prefix /\ lo = 0 /\ hi = 0 /\ best = 0 /\ bestN = 0 /\ closest = 0 /\ cut = 0
  /\ pc = "grow"

Grow ==
  /\ pc = "grow" /\ count[len] < target
  /\ len + Filler <= MaxText
  /\ len' = len + Filler
  /\ UNCHANGED <<input, lo, hi, best, bestN, closest, cut, pc>>

Grown ==
  /\ pc = "grow" /\ count[len] >= target
  /\ lo' = 0 /\ hi' = len /\ pc' = "search"
  /\ UNCHANGED <<input, len, best, bestN, closest, cut>>

Mid == (lo + hi) \div 2

(* Fault: after a prefix that is too long one more is passed over. *)
SearchSkips ==
  /\ pc = "search" /\ lo <= hi
  /\ IF count[Mid] <= target
     THEN best' = Mid /\ bestN' = count[Mid] /\ lo' = Mid + 1 /\ hi' = hi
     ELSE hi' = Mid - 2 /\ UNCHANGED <<best, bestN, lo>>
  /\ UNCHANGED <<input, len, closest, cut, pc>>

Search ==
  /\ pc = "search" /\ lo <= hi
  /\ IF count[Mid] <= target
     THEN best' = Mid /\ bestN' = count[Mid] /\ lo' = Mid + 1 /\ hi' = hi
     ELSE hi' = Mid - 1 /\ UNCHANGED <<best, bestN, lo>>
  /\ UNCHANGED <<input, len, closest, cut, pc>>

Searched ==
  /\ pc = "search" /\ lo > hi
  /\ closest' = best /\ cut' = best + 1
  /\ pc' = IF bestN = target \/ bestN = 0 THEN "fitted" ELSE "forward"
  /\ UNCHANGED <<input, len, lo, hi, best, bestN>>

(* One turn of the loop that steps forward from the best, or its end. *)
Forward ==
  /\ pc = "forward"
  /\ IF cut > len \/ count[cut] > target
     THEN pc' = "fitted" /\ UNCHANGED <<closest, cut>>
     ELSE /\ closest' = IF count[cut] > count[closest] THEN cut ELSE closest
          /\ cut' = cut + 1
          /\ pc' = IF count[cut] = target THEN "fitted" ELSE pc
  /\ UNCHANGED <<input, len, lo, hi, best, bestN>>

(* build_prompt: without the whole prefix there is an exception. *)
Return ==
  /\ pc = "fitted"
  /\ pc' = IF closest < Prefix THEN "raised" ELSE "done"
  /\ UNCHANGED <<input, len, lo, hi, best, bestN, closest, cut>>

Next ==
  Grow \/ Grown \/ Search \/ Searched \/ Forward \/ Return

Spec == Init /\ [][Next]_vars

-----------------------------------------------------------------------------
Returned == pc \in {"done", "raised"}

Monotone == \A m, n \in 0..MaxText : m <= n => count[m] <= count[n]

TypeOK ==
  /\ count \in Counts /\ target \in Targets
  /\ len \in 0..MaxText /\ lo \in 0..len + 1 /\ hi \in -1..len
  /\ best \in 0..len /\ bestN = count[best]
  /\ closest \in 0..len /\ cut \in 0..len + 1
  /\ pc \in {"grow", "search", "forward", "fitted", "done", "raised"}

(* Whatever the tokenizer does, the prompt has no more tokens than asked   *)
(* for: the context of the model is enough (_fit_token_length).            *)
NeverOver == Returned => count[closest] <= target

(* With a tokenizer that never has fewer tokens for a longer text, the     *)
(* prompt is the longest prefix that fits.                                 *)
MonotoneLongest ==
  Returned /\ Monotone => \A n \in 0..len : count[n] <= target => n <= closest

(* Both together: the prompt that is returned, or the cut for which there  *)
(* is an exception, is right for any tokenizer, and best for a monotone one *)
(* (_fit_token_length).                                                    *)
CutIsRight == NeverOver /\ MonotoneLongest

(* The search has tried the next cut already: the loop that steps forward  *)
(* ends before its first step, and the best it started from is returned    *)
(* (the loop behind the search).                                           *)
NoStepForward == pc \in {"fitted", "done", "raised"} => closest = best
=============================================================================
