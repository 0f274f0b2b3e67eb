----------------------------- MODULE Multicast -----------------------------
(***************************************************************************)
(* What the NoC promises: a request reaches each of its targets once and   *)
(* nothing else, and is answered when every target has answered, and then  *)
(* once.                                                                   *)
(***************************************************************************)
EXTENDS Naturals, FiniteSets

CONSTANTS
  Requests,       \* the names of requests
  Places          \* where a request may be served

VARIABLES
  open,           \* the requests that are not answered
  targets,        \* open request -> where it must be served
  reached,        \* open request -> where it was served
  times,          \* open request -> how often it was served
  completed       \* open request -> where it was served and the answer is here

vars == <<open, targets, reached, times, completed>>

Init ==
  /\ open = {}
  /\ targets = <<>> /\ reached = <<>> /\ times = <<>> /\ completed = <<>>

Start(r) ==
  /\ r \notin open
  /\ open' = open \cup {r}
  /\ DOMAIN targets' = open'
  /\ targets'[r] # {} /\ targets'[r] \subseteq Places
  /\ \A q \in open : targets'[q] = targets[q]
  /\ reached'   = [q \in open' |-> IF q = r THEN {} ELSE reached[q]]
  /\ times'     = [q \in open' |-> IF q = r THEN 0 ELSE times[q]]
  /\ completed' = [q \in open' |-> IF q = r THEN {} ELSE completed[q]]

\* A router may serve several requests at once.
Serve ==
  /\ UNCHANGED <<open, targets, completed>>
  /\ DOMAIN reached' = open /\ DOMAIN times' = open
  /\ \A r \in open :
       /\ reached[r] \subseteq reached'[r] /\ reached'[r] \subseteq targets[r]
       /\ times'[r] = times[r] + Cardinality(reached'[r] \ reached[r])

Complete(r, t) ==
  /\ t \in reached[r] \ completed[r]
  /\ completed' = [completed EXCEPT ![r] = @ \cup {t}]
  /\ UNCHANGED <<open, targets, reached, times>>

\* The last answer is passed on at once.
Answer(r, t) ==
  /\ reached[r] = targets[r]
  /\ completed[r] = targets[r] \ {t} /\ t \in targets[r]
  /\ open' = open \ {r}
  /\ targets'   = [q \in open' |-> targets[q]]
  /\ reached'   = [q \in open' |-> reached[q]]
  /\ times'     = [q \in open' |-> times[q]]
  /\ completed' = [q \in open' |-> completed[q]]

Next ==
  \/ \E r \in Requests : Start(r)
  \/ Serve
  \/ \E r \in open, t \in Places : Complete(r, t) \/ Answer(r, t)

Spec == Init /\ [][Next]_vars
=============================================================================
