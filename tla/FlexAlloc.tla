----------------------------- MODULE FlexAlloc ------------------------------
(***************************************************************************)
(* The allocator of flex_alloc.h on one heap with one caller, as a cluster *)
(* uses the heap in its own memory.                                        *)
(*                                                                         *)
(* Free blocks form a list in the heap itself: the first word of a free    *)
(* block is its size and the second the address of the next one.  A block  *)
(* handed out starts with one word that packs its size and a canary, and   *)
(* the caller overwrites all that follows.                                 *)
(*                                                                         *)
(* Addresses and sizes count bytes; memory is read by words of 4.  Each    *)
(* turn of a loop that walks the list is a step.                           *)
(***************************************************************************)
EXTENDS Naturals

CONSTANTS
  Base, Size,     \* the arguments of flex_cluster_alloc_init
  WordMod,        \* a word is 0 .. WordMod - 1 (2^32)
  CanaryMod,      \* the canary takes the low bits of the header (2^8)
  Requests,       \* the sizes the caller asks for
  Data,           \* what the caller writes in its blocks, and initial garbage
  Overruns        \* what a wrong caller writes past the end of a block

NULL == 0
WordBytes == 4
MIN_BLOCK_SIZE == 8     \* sizeof(alloc_block_t)

AlignDown(n) == n - (n % MIN_BLOCK_SIZE)
ALIGN_UP(n)  == AlignDown((n + MIN_BLOCK_SIZE - 1) % WordMod)

\* The header of a block in use has the rest of the word for its size.
MaxBlock == WordMod \div CanaryMod

\* The heap flex_cluster_alloc_init makes of its arguments.
Low  == ALIGN_UP(Base)
High == Low + AlignDown(Size - (Low - Base))

ASSUME HeapAssumption ==
  /\ Base \in Nat \ {0} /\ Size \in Nat
  /\ CanaryMod \in Nat \ {0} /\ WordMod \in Nat /\ WordMod % CanaryMod = 0
  /\ Base + Size <= WordMod - MIN_BLOCK_SIZE /\ Low < High
  /\ Requests \subseteq 0 .. WordMod - 1
  /\ Data \subseteq 0 .. WordMod - 1 /\ Overruns \subseteq 0 .. WordMod - 1

VARIABLES
  mem,            \* word address -> its value
  first_block,    \* alloc->first_block
  curr, prev,     \* the walk of the list: where it is and where it was
  call,           \* history: the call in progress
  allocated,      \* history: the blocks the caller has
  result          \* what the last call of domain_malloc returned

list == <<mem, first_block>>
vars == <<mem, first_block, curr, prev, call, allocated, result>>

Words == {a \in Low .. High - 1 : a % WordBytes = 0}
NextField(a) == a + WordBytes    \* &block->next; &block->size is a itself

canary(ptr) == ptr % CanaryMod
canary_encode(ptr, size) == (size * CanaryMod + canary(ptr)) % WordMod

\* Mutant: no room for the header.
BlockSizeNoHeader(request) == ALIGN_UP(request)

\* domain_malloc: the size of the block for a request, in 32 bits.
BlockSize(request) == ALIGN_UP((request + WordBytes) % WordMod)

None == [op |-> "none"]

\* The call returns.
Return == call' = None /\ curr' = NULL /\ prev' = NULL

TypeOK ==
  /\ mem \in [Words -> 0 .. WordMod - 1]
  /\ first_block \in Words \cup {NULL}
  /\ curr \in Words \cup {NULL} /\ prev \in Words \cup {NULL}
  /\ \/ call = None
     \/ call \in [op : {"malloc"}, request : Requests]
     \/ call \in [op : {"free"}, block : allocated]
  /\ allocated \subseteq [at : Words, request : Requests]
  /\ result \in Nat

\* flex_cluster_alloc_init on memory that holds garbage.
Init ==
  /\ \E g \in Data : mem = [w \in Words |-> IF w = Low THEN High - Low
                                            ELSE IF w = NextField(Low) THEN NULL ELSE g]
  /\ first_block = Low
  /\ curr = NULL /\ prev = NULL
  /\ call = None /\ allocated = {} /\ result = NULL

-----------------------------------------------------------------------------
(* domain_malloc and allocate_memory. *)

Requested == BlockSize(call.request)
TooLarge  == Requested >= MaxBlock

Malloc(request) ==
  /\ call = None
  /\ call' = [op |-> "malloc", request |-> request]
  /\ curr' = first_block /\ prev' = NULL
  /\ UNCHANGED <<list, allocated, result>>

ReturnNull ==
  /\ call.op = "malloc"
  /\ TooLarge \/ curr = NULL
  /\ result' = NULL
  /\ Return
  /\ UNCHANGED <<list, allocated>>

Search ==
  /\ call.op = "malloc" /\ ~TooLarge
  /\ curr # NULL /\ mem[curr] < Requested
  /\ prev' = curr /\ curr' = mem[NextField(curr)]
  /\ UNCHANGED <<list, call, allocated, result>>

Found == /\ call.op = "malloc" /\ ~TooLarge
         /\ curr # NULL /\ mem[curr] >= Requested

\* The block goes to the caller with its header, and the list closes over it.
Handed(memory) ==
  /\ mem' = [memory EXCEPT ![curr] = canary_encode(curr, Requested)]
  /\ result' = curr + WordBytes
  /\ allocated' = allocated \cup {[at |-> curr, request |-> call.request]}
  /\ Return

\* What comes before curr in the list now points to target.
Relinked(memory, target) ==
  IF prev = NULL THEN memory ELSE [memory EXCEPT ![NextField(prev)] = target]

\* Mutant: the list goes on behind the block, as if it had been split.
TakeWholeMovesOn ==
  /\ Found /\ mem[curr] = Requested
  /\ Handed(Relinked(mem, mem[NextField(curr)]))
  /\ first_block' = IF prev = NULL THEN curr + Requested ELSE first_block

TakeWhole ==
  /\ Found /\ mem[curr] = Requested
  /\ Handed(Relinked(mem, mem[NextField(curr)]))
  /\ first_block' = IF prev = NULL THEN mem[NextField(curr)] ELSE first_block

Split ==
  /\ Found /\ mem[curr] # Requested
  /\ LET new_block == curr + Requested
     IN  /\ Handed(Relinked([mem EXCEPT ![new_block] = mem[curr] - Requested,
                                        ![NextField(new_block)] = mem[NextField(curr)]],
                            new_block))
         /\ first_block' = IF prev = NULL THEN new_block ELSE first_block

-----------------------------------------------------------------------------
(* domain_free and free_memory.  The walk's curr is the variable next. *)

Free(b) ==
  /\ call = None
  /\ call' = [op |-> "free", block |-> b]
  /\ curr' = first_block /\ prev' = NULL
  /\ UNCHANGED <<list, allocated, result>>

block_ptr == call.block.at

\* Mutant: the canary is not checked.
CanaryIgnored == TRUE

CanaryMatches == mem[block_ptr] % CanaryMod = canary(block_ptr)

\* "Memory Overflow": the block is not freed.
ReportOverflow ==
  /\ call.op = "free" /\ ~CanaryMatches
  /\ Return
  /\ UNCHANGED <<list, allocated, result>>

SeekPosition ==
  /\ call.op = "free" /\ CanaryMatches
  /\ curr # NULL /\ curr < block_ptr
  /\ prev' = curr /\ curr' = mem[NextField(curr)]
  /\ UNCHANGED <<list, call, allocated, result>>

\* The block with the list after it, merged with a neighbour that touches it.
WithNext(size) ==
  IF block_ptr + size = curr
  THEN [mem EXCEPT ![block_ptr] = size + mem[curr],
                   ![NextField(block_ptr)] = mem[NextField(curr)]]
  ELSE [mem EXCEPT ![block_ptr] = size, ![NextField(block_ptr)] = curr]

\* Mutant: the block before is linked, never merged.
WithPreviousApart(memory) ==
  IF prev = NULL THEN memory ELSE [memory EXCEPT ![NextField(prev)] = block_ptr]

WithPrevious(memory) ==
  IF prev = NULL THEN memory
  ELSE IF prev + memory[prev] = block_ptr
  THEN [memory EXCEPT ![prev] = @ + memory[block_ptr],
                      ![NextField(prev)] = memory[NextField(block_ptr)]]
  ELSE [memory EXCEPT ![NextField(prev)] = block_ptr]

Insert ==
  /\ call.op = "free" /\ CanaryMatches
  /\ curr = NULL \/ curr >= block_ptr
  /\ mem' = WithPrevious(WithNext(mem[block_ptr] \div CanaryMod))
  /\ first_block' = IF prev = NULL THEN block_ptr ELSE first_block
  /\ allocated' = allocated \ {call.block}
  /\ Return
  /\ UNCHANGED result

-----------------------------------------------------------------------------
\* The words of b that are wholly the caller's.
DataWords(b) ==
  {w \in Words : b.at + WordBytes <= w /\ w <= b.at + b.request}

\* The caller writes to a word of its own.
Write ==
  /\ call = None
  /\ \E b \in allocated, v \in Data : \E w \in DataWords(b) :
       mem' = [mem EXCEPT ![w] = v]
  /\ UNCHANGED <<first_block, curr, prev, call, allocated, result>>

\* A wrong caller writes one word too many, over the header of the next block.
Overrun ==
  /\ call = None
  /\ \E b, other \in allocated, v \in Overruns :
       /\ b.at + BlockSize(b.request) = other.at
       /\ mem' = [mem EXCEPT ![other.at] = v]
  /\ UNCHANGED <<first_block, curr, prev, call, allocated, result>>

Step == \/ ReturnNull \/ Search \/ TakeWhole \/ Split
        \/ ReportOverflow \/ SeekPosition \/ Insert

Next == \/ \E request \in Requests : Malloc(request)
        \/ \E b \in allocated : Free(b)
        \/ Write
        \/ Overrun
        \/ Step

Spec == Init /\ [][Next]_vars

\* The core that called keeps executing.
FairSpec == Spec /\ WF_vars(Step)

-----------------------------------------------------------------------------
(* Properties. *)

End(b) == b.at + BlockSize(b.request)
Used(a) == \E b \in allocated : b.at <= a /\ a < End(b)

\* Where the gaps between the allocated blocks start, and where one ends.
Gaps == {a \in Words : /\ a % MIN_BLOCK_SIZE = 0 /\ ~Used(a)
                       /\ a = Low \/ Used(a - MIN_BLOCK_SIZE)}
GapEndsAt(a, end) == /\ end = High \/ Used(end)
                     /\ \A w \in Words : a <= w /\ w < end => ~Used(w)

\* ptr is the first gap from a on, or NULL: how the list goes on from there.
FirstGapFrom(a, ptr) ==
  IF ptr = NULL THEN \A g \in Gaps : g < a
  ELSE ptr \in Gaps /\ a <= ptr /\ \A g \in Gaps : a <= g => ptr <= g

\* The list is exactly the gaps between the allocated blocks, in the order of
\* their addresses, each as large as it can be: free_memory always merges, the
\* list never loses or invents memory, whatever is split, freed and written.
ListIsGaps ==
  /\ FirstGapFrom(Low, first_block)
  /\ \A g \in Gaps : /\ GapEndsAt(g, g + mem[g])
                      /\ FirstGapFrom(g + 1, mem[NextField(g)])

\* What the caller may use of a block holds the whole request, lies in the heap
\* and is part of no other block.
DataDisjoint ==
  \A b, other \in allocated :
    LET first == b.at + WordBytes
        last  == b.at + WordBytes + b.request
    IN  /\ Low < first /\ last <= High
        /\ other # b => last <= other.at \/ End(other) <= b.at

\* No call of the allocator changes what the caller wrote in the blocks it has.
UserDataKept ==
  [][call # None \/ call' # None =>
       \A b \in allocated \cap allocated' : \A w \in DataWords(b) : mem'[w] = mem[w]]_vars

\* No block is handed out for a request that a block cannot have: the header
\* has room for MaxBlock - 1 only (flex_alloc.h:203).
RequestsBounded == \A b \in allocated : b.request < MaxBlock

\* The allocator implements the abstract one, and every call returns.
AbstractHeap == INSTANCE Heap WITH
  Granule <- MIN_BLOCK_SIZE, Header <- WordBytes,
  Block <- [r \in Requests |-> BlockSize(r)],
  damaged <- {b \in allocated : mem[b.at] # canary_encode(b.at, BlockSize(b.request))}
ImplementsHeap == AbstractHeap!Spec
=============================================================================
