---------------------------- MODULE FlexAllocInv ----------------------------
(***************************************************************************)
(* The inductive invariant of FlexAlloc.  The list is the gaps between the  *)
(* allocated blocks, so the walk of a call goes from gap to gap, and the     *)
(* heap is cut into granules that are free or in one block.                  *)
(***************************************************************************)
EXTENDS FlexAlloc

\* No request is so large that the size of its block wraps around the word.
RequestsFit == \A r \in Requests : r + WordBytes + MIN_BLOCK_SIZE <= WordMod

\* The canary is up to its task: what an overrun leaves in a header does not
\* look like the header of that place.
OverrunsCaught ==
  \A v \in Overruns, w \in Words : w % MIN_BLOCK_SIZE = 0 => v % CanaryMod # canary(w)

Granules == {a \in Words : a % MIN_BLOCK_SIZE = 0}

\* Blocks are whole granules, one after the other; a header is as domain_malloc
\* left it or has lost its canary.
HeaderOf(b) == canary_encode(b.at, BlockSize(b.request))

BlockInHeap(b) ==
  /\ b.at \in Granules /\ End(b) <= High
  /\ BlockSize(b.request) < MaxBlock
  /\ mem[b.at] = HeaderOf(b) \/ mem[b.at] % CanaryMod # canary(b.at)

BlocksApart ==
  \A b, other \in allocated : b # other => End(b) <= other.at \/ End(other) <= b.at

\* The walk is at a gap or at the end of the list, and prev is the gap before.
OnList ==
  IF prev = NULL THEN curr = first_block
                 ELSE prev \in Gaps /\ curr = mem[NextField(prev)]

\* domain_malloc has passed only gaps that are too small, and free_memory only
\* gaps that lie before its block.
Walk ==
  /\ call.op # "none" => OnList
  /\ call.op = "malloc" => \A g \in Gaps : curr = NULL \/ g < curr => mem[g] < Requested
  /\ call.op = "free" => prev = NULL \/ prev < block_ptr

HeapInv ==
  /\ TypeOK
  /\ \A b \in allocated : BlockInHeap(b)
  /\ BlocksApart
  /\ ListIsGaps

IInv == HeapInv /\ Walk
=============================================================================
