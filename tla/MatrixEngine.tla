---------------------------- MODULE MatrixEngine ----------------------------
(***************************************************************************)
(* What a matrix engine promises the one core that drives it: between the  *)
(* trigger and the answer of the wait it writes each row of each tile of   *)
(* the result exactly once, with its final value, and nothing else; and    *)
(* every wait is answered.                                                 *)
(***************************************************************************)
EXTENDS Naturals, FiniteSets

CONSTANTS
  Shapes,         \* the sizes the core configures: [m, n, k]
  Formats,        \* the formats it triggers
  TileWidth       \* elements of a row of a tile of the result

VARIABLES
  driver,         \* what the core does: "free", "configured", "running", "waiting"
  shape, format,  \* of the last operation
  written,        \* the rows of the result that are final: <<row, tile>>
  stores          \* how many rows this operation has written

vars == <<driver, shape, format, written, stores>>

\* An operation without a format computes nothing: it only takes time.
Product ==
  IF format = 0 THEN {}
  ELSE (0 .. shape.m - 1) \X {j \in 0 .. shape.k - 1 : j * TileWidth < shape.k}

Init ==
  /\ driver = "free" /\ shape \in Shapes /\ format = 0
  /\ written = {} /\ stores = 0

Configure ==
  /\ driver = "free" /\ driver' = "configured"
  /\ shape' \in Shapes
  /\ UNCHANGED <<format, written, stores>>

\* A synchronous trigger waits as well.
Trigger ==
  /\ driver = "configured" /\ driver' \in {"running", "waiting"}
  /\ format' \in Formats \cup {0}
  /\ UNCHANGED <<shape, written, stores>>

Write ==
  /\ driver \in {"running", "waiting"}
  /\ \E row \in Product \ written : written' = written \cup {row}
  /\ stores' = stores + 1
  /\ UNCHANGED <<driver, shape, format>>

Wait ==
  /\ driver = "running" /\ driver' = "waiting"
  /\ UNCHANGED <<shape, format, written, stores>>

Answer ==
  /\ driver = "waiting" /\ driver' = "free"
  /\ written = Product /\ stores = Cardinality(Product)
  /\ written' = {} /\ stores' = 0
  /\ UNCHANGED <<shape, format>>

Next == Configure \/ Trigger \/ Write \/ Wait \/ Answer

SafeSpec == Init /\ [][Next]_vars

\* The engine computes and answers.
Spec == SafeSpec /\ WF_vars(Write) /\ WF_vars(Answer)
=============================================================================
