---------------------------- MODULE GroupBarrier ----------------------------
(***************************************************************************)
(* What the barriers of groups promise: a participant that returns from    *)
(* its n-th call does so after all its peers in that call have made it,    *)
(* and every call returns.  The peers of a call may be a group of the mesh *)
(* or everybody.                                                           *)
(***************************************************************************)
EXTENDS Naturals

CONSTANTS
  Participants,
  Rounds,         \* how many calls the program makes
  Peers           \* call -> participant -> the participants that must join it

VARIABLES
  entered,        \* participant -> number of calls made
  left            \* participant -> number of calls returned

vars == <<entered, left>>

Init ==
  /\ entered = [p \in Participants |-> 0]
  /\ left = [p \in Participants |-> 0]

Enter(p) ==
  /\ left[p] = entered[p]
  /\ entered[p] < Rounds
  /\ entered' = [entered EXCEPT ![p] = @ + 1]
  /\ UNCHANGED left

\* Participants may be released together: the cores of a cluster are.
Leave(P) ==
  /\ \A p \in P : /\ left[p] < entered[p]
                  /\ \A q \in Peers[entered[p]][p] : entered[p] <= entered[q]
  /\ left' = [p \in Participants |-> IF p \in P THEN entered[p] ELSE left[p]]
  /\ UNCHANGED entered

Next == \/ \E p \in Participants : Enter(p)
        \/ \E P \in SUBSET Participants : Leave(P)

SafeSpec == Init /\ [][Next]_vars

Spec == SafeSpec /\ WF_vars(Next)
=============================================================================
