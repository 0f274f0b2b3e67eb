------------------------------ MODULE Barrier -------------------------------
(***************************************************************************)
(* What every global barrier of the runtime promises, whatever its         *)
(* algorithm: a participant that returns from its n-th call does so after  *)
(* every participant has made its n-th call, and every call returns.       *)
(***************************************************************************)
EXTENDS Naturals

CONSTANTS
  Participants,
  Rounds          \* how many times the program calls the barrier

VARIABLES
  entered,        \* participant -> number of calls made
  left            \* participant -> number of calls returned

vars == <<entered, left>>

Init ==
  /\ entered = [p \in Participants |-> 0]
  /\ left = [p \in Participants |-> 0]

Enter(p) ==
  /\ left[p] = entered[p]
  /\ entered[p] < Rounds
  /\ entered' = [entered EXCEPT ![p] = @ + 1]
  /\ UNCHANGED left

\* Participants may be released together: the cores of a cluster are.
Leave(P) ==
  /\ \A p \in P : /\ left[p] < entered[p]
                  /\ \A q \in Participants : entered[p] <= entered[q]
  /\ left' = [p \in Participants |-> IF p \in P THEN entered[p] ELSE left[p]]
  /\ UNCHANGED entered

Next == \/ \E p \in Participants : Enter(p)
        \/ \E P \in SUBSET Participants : Leave(P)

SafeSpec == Init /\ [][Next]_vars

\* Somebody moves as long as somebody can: with finitely many rounds, every
\* call of every participant returns.
Spec == SafeSpec /\ WF_vars(Next)
=============================================================================
