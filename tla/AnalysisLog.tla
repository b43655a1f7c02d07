---------------------------- MODULE AnalysisLog ----------------------------
(***************************************************************************)
(* What the analysis promises its driver about the process-wide state it   *)
(* leaves behind (spec sections 3, 4.3 and 8): the reported flags and the  *)
(* branch flags only ever gain bits; the jump record and the cost record   *)
(* are append-only; a step adds at most one taken jump (a source and a     *)
(* destination) and at most one comparison (two cost entries keyed by the *)
(* same pc).                                                               *)
(***************************************************************************)
EXTENDS Naturals, Sequences

VARIABLES
  reported,   \* the findings bitset, read after the run
  branches,   \* the branch bitset
  jumps,      \* the taken conditional jumps, as <<source, destination>>
  costs       \* the tainted comparisons, as pairs of [pc, d] entries

vars == <<reported, branches, jumps, costs>>

(* t is s with n more elements at its end.                                 *)
Grows(s, t, n) ==
  /\ Len(t) = Len(s) + n
  /\ \A i \in 1..Len(s) : t[i] = s[i]

Init ==
  /\ reported = {}
  /\ branches = {}
  /\ jumps = <<>>
  /\ costs = <<>>

(* One step of the analysed program.                                       *)
Record ==
  /\ reported \subseteq reported'
  /\ branches \subseteq branches'
  /\ jumps' = jumps \/ Grows(jumps, jumps', 1)
  /\ \/ costs' = costs
     \/ /\ Grows(costs, costs', 1)
        /\ costs'[Len(costs')][1].pc = costs'[Len(costs')][2].pc

Spec == Init /\ [][Record]_vars
=============================================================================
