-------------------------------- MODULE Heap --------------------------------
(***************************************************************************)
(* What a memory allocator promises its one caller: a block it hands out   *)
(* lies in the heap and overlaps no other; it is the lowest place with     *)
(* enough room; the answer is NULL only when there is no such place or the *)
(* request is too large for any; and every call returns.                   *)
(***************************************************************************)
EXTENDS Naturals

CONSTANTS
  Low, High,      \* the heap: addresses Low .. High - 1
  Granule,        \* blocks start at multiples of Granule
  Header,         \* bytes between a block and the data the caller is given
  MaxBlock,       \* blocks are smaller than this
  Block,          \* request -> size of the block it takes
  NULL

VARIABLES
  call,           \* the call in progress
  allocated,      \* the blocks the caller has: [at, request]
  damaged,        \* those of them whose header the caller has overwritten
  result          \* what the last call of malloc returned

vars == <<call, allocated, damaged, result>>

None == [op |-> "none"]
End(b) == b.at + Block[b.request]

Init == call = None /\ allocated = {} /\ damaged = {} /\ result = NULL

\* A block of the given size fits at address a.
Fits(a, size) ==
  /\ a % Granule = 0 /\ a + size <= High
  /\ \A b \in allocated : a + size <= b.at \/ End(b) <= a

Places(size) == {a \in Low .. High - 1 : Fits(a, size)}

Malloc(request) ==
  /\ call = None
  /\ call' = [op |-> "malloc", request |-> request]
  /\ UNCHANGED <<allocated, damaged, result>>

Answer ==
  /\ call.op = "malloc"
  /\ LET size == Block[call.request]
     IN  \/ /\ size >= MaxBlock \/ Places(size) = {}
            /\ result' = NULL
            /\ UNCHANGED allocated
         \/ /\ size < MaxBlock
            /\ \E a \in Places(size) :
                 /\ \A other \in Places(size) : a <= other
                 /\ result' = a + Header
                 /\ allocated' = allocated \cup {[at |-> a, request |-> call.request]}
  /\ call' = None
  /\ UNCHANGED damaged

Free(b) ==
  /\ call = None
  /\ call' = [op |-> "free", block |-> b]
  /\ UNCHANGED <<allocated, damaged, result>>

\* A damaged block stays the caller's for ever: the free is refused.
Release ==
  /\ call.op = "free"
  /\ allocated' = IF call.block \in damaged THEN allocated ELSE allocated \ {call.block}
  /\ call' = None
  /\ UNCHANGED <<damaged, result>>

Damage ==
  /\ call = None
  /\ \E b \in allocated : damaged' = damaged \cup {b}
  /\ UNCHANGED <<call, allocated, result>>

Return == Answer \/ Release

Next == \/ \E request \in DOMAIN Block : Malloc(request)
        \/ \E b \in allocated : Free(b)
        \/ Damage
        \/ Return

SafeSpec == Init /\ [][Next]_vars
Spec == SafeSpec /\ WF_vars(Return)
=============================================================================
