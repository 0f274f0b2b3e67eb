--------------------------- MODULE CollectiveNoc ---------------------------
(***************************************************************************)
(* The NoC of gvsoc_pulp.patch: network interfaces inject requests, each   *)
(* activation of a router's fsm_handler moves the heads of its queues, and *)
(* a request to many targets is split on its way.  The kids of a split     *)
(* request are put together again as their answers come back.              *)
(*                                                                         *)
(* A request is named by the number of the injected one and its path: the  *)
(* directions of the kids that lead to it.  Its data are, for a reduction, *)
(* the bag of the buffers that were added up, for others of no interest.   *)
(***************************************************************************)
EXTENDS HbmMap, Sequences, FiniteSets, Bags, SequencesExt

CONSTANTS
  Outstanding,    \* ni_outstanding_reqs
  Loads,          \* the requests of the clusters: [from, type, row_mask, col_mask, addr]
  Denying,        \* the targets that accept a request only some time later
  MaxRequests     \* bound: requests injected

ASSUME NocAssumption ==
  /\ Outstanding \in Nat \ {0} /\ MaxRequests \in Nat
  /\ \A l \in Loads :
       /\ l.from \in Routers
       /\ \/ l.type = "single"
          \/ l.type \in {"broadcast", "reduce"} /\ l.addr[1] = "cluster"

VARIABLES
  reqs,           \* the requests in the NoC
  input,          \* input_queues
  generated,      \* collective_generated_queues
  stalled,        \* stalled_queues
  held,           \* the requests at a target: where, and who waits for a grant
  injected,       \* how many requests were injected
  served,         \* history: the positions that served an injected request
  completed       \* history: the positions of them that have answered

noc == [reqs |-> reqs, input |-> input, generated |-> generated, stalled |-> stalled,
        held |-> held, served |-> served, completed |-> completed]
vars == <<reqs, input, generated, stalled, held, injected, served, completed>>

\* As flex_cluster.py sizes the queues of the routers.
router_input_queue_size == Outstanding * NumX * NumY

\* An address is in the memory of a cluster or in the HBM.
get_entry(from, addr) ==
  IF addr[1] = "cluster" THEN addr[2] ELSE NodeFor(from, addr[2])

\* What the initiator's buffer held before a reduction.
Buffer == <<0, 0>>

Positions == Routers \cup WestNodes \cup NorthNodes \cup EastNodes \cup SouthNodes
With(f, key, value) == [k \in DOMAIN f \cup {key} |-> IF k = key THEN value ELSE f[k]]
Without(f, key) == [k \in DOMAIN f \ {key} |-> f[k]]

Root(id) == id[1]
Path(id) == id[2]
Kid(id, direction) == <<Root(id), Append(Path(id), direction)>>
Parent(id) == <<Root(id), Front(Path(id))>>
IsRoot(id) == Path(id) = <<>>

-----------------------------------------------------------------------------
(* handle_request_end: the answer of a request.  A kid's data are added to  *)
(* its parent's, which ends with its last kid.                              *)

\* Mutant: the kids of a broadcast and of a reduction alike are only counted.
AddNothing(parent, kid) == parent.data

process_collective_operations(parent, kid) ==
  IF parent.type = "reduce" THEN parent.data (+) kid.data ELSE parent.data

EndKid(n, id) ==
  [n EXCEPT !.reqs = Without([@ EXCEPT
     ![Parent(id)].pend_kids = @ - 1,
     ![Parent(id)].data = process_collective_operations(n.reqs[Parent(id)], n.reqs[id])], id)]

\* The interface gets the answer.
EndRoot(n, id) ==
  [n EXCEPT !.reqs = Without(@, id),
            !.served = Without(@, Root(id)), !.completed = Without(@, Root(id))]

End(n, id) == IF IsRoot(id) THEN EndRoot(n, id) ELSE EndKid(n, id)

\* A request that ends may be the last kid of its parent, and so up the tree.
handle_request_end(n, id) ==
  LET length == Len(Path(id))
      Ancestor(i) == <<Root(id), SubSeq(Path(id), 1, length - i)>>
      LastKidEnded(m, i) == /\ Ancestor(i - 1) \notin DOMAIN m.reqs
                            /\ m.reqs[Ancestor(i)].pend_kids <= 0
      upwards == FoldLeft(LAMBDA ns, i : {IF LastKidEnded(m, i) THEN End(m, Ancestor(i)) ELSE m :
                                            m \in ns},
                          {End(n, id)}, [i \in 1 .. length |-> i])
  IN  CHOOSE m \in upwards : TRUE

-----------------------------------------------------------------------------
(* What a router does with one request. *)

\* The target answers later, also when it could at once, and a target that
\* denies the request keeps it until it grants it.
send_to_target(n, at, id, to) ==
  LET port == get_req_queue(at, to)
  IN  [n EXCEPT
         !.held = With(@, id, [at |-> to, router |-> at, port |-> port,
                               granted |-> to \notin Denying]),
         !.stalled[at][port] = to \in Denying,
         !.served[Root(id)] = Append(@, to),
         !.reqs[id].data = IF n.reqs[id].type = "reduce" THEN SetToBag({to}) ELSE @]

\* handle_request of the next router: one more than fits stalls the sender.
Enqueue(n, at, id, next) ==
  LET queue == get_req_queue(next, at)
  IN  [n EXCEPT
         !.input[next][queue] = Append(@, id),
         !.stalled[at][get_req_queue(at, next)] =
            Len(n.input[next][queue]) + 1 > router_input_queue_size]

\* A request that is sent on leaves its queue, and a queue that was over-full
\* opens the output that feeds it again.
Pop(n, at, queue) ==
  LET from == Neighbour(at, queue)
      full == Len(n.input[at][queue]) > router_input_queue_size
  IN  [n EXCEPT !.input[at][queue] = Tail(@),
                !.stalled = IF full THEN [@ EXCEPT ![from][get_req_queue(from, at)] = FALSE]
                            ELSE @]

Forward(n, at, id, next) ==
  IF n.reqs[id].dest = at THEN send_to_target(n, at, id, at)
  ELSE IF next \in Routers THEN Enqueue(n, at, id, next)
  ELSE send_to_target(n, at, id, next)

\* Mutant: a kid is counted when it is sent.
GenerateUncounted(n, at, id, directions) ==
  LET kid(d) == [n.reqs[id] EXCEPT !.momentum = d, !.dest = Neighbour(at, d), !.pend_kids = 0]
  IN  [n EXCEPT
         !.reqs = [k \in DOMAIN @ \cup {Kid(id, d) : d \in directions} |->
                     IF k \in DOMAIN @ THEN @[k] ELSE kid(Last(Path(k)))],
         !.reqs[id].pend_kids = 1,
         !.generated[at] = [d \in Directions |->
                              IF d \in directions THEN Append(@[d], Kid(id, d)) ELSE @[d]]]

collective_generate(n, at, id, directions) ==
  LET kid(d) == [n.reqs[id] EXCEPT !.momentum = d, !.dest = Neighbour(at, d), !.pend_kids = 0]
  IN  [n EXCEPT
         !.reqs = [k \in DOMAIN @ \cup {Kid(id, d) : d \in directions} |->
                     IF k \in DOMAIN @
                     THEN IF k = id THEN [@[k] EXCEPT !.pend_kids = @ + Cardinality(directions)]
                                    ELSE @[k]
                     ELSE kid(Last(Path(k)))],
         !.generated[at] = [d \in Directions |->
                              IF d \in directions THEN Append(@[d], Kid(id, d)) ELSE @[d]]]

\* The head of an input queue.  A request that waits for a stalled output keeps
\* the direction it was given.  One that ends or is split here leaves the queue
\* without opening the output that feeds it.
TakeInput(n, at, queue) ==
  LET id == Head(n.input[at][queue])
      r  == n.reqs[id]
      popped == [n EXCEPT !.input[at][queue] = Tail(@)]
      directions == collective_analyze(at, r.src, r.momentum, r.row_mask, r.col_mask)
      Send(m, next) ==
        IF m.stalled[at][get_req_queue(at, next)] THEN m
        ELSE Forward(Pop(m, at, queue), at, id, next)
  IN  IF r.type = "single" THEN Send(n, get_next_router_pos(at, r.dest))
      ELSE IF directions = {} THEN handle_request_end(popped, id)
      ELSE IF Cardinality(directions) > 1 THEN collective_generate(popped, at, id, directions)
      ELSE LET d == CHOOSE d \in directions : TRUE
           IN  Send([n EXCEPT !.reqs[id].momentum = d, !.reqs[id].dest = Neighbour(at, d)],
                    Neighbour(at, d))

TakeGenerated(n, at, queue) ==
  LET id == Head(n.generated[at][queue])
      next == get_next_router_pos(at, n.reqs[id].dest)
  IN  IF n.stalled[at][get_req_queue(at, next)] THEN n
      ELSE Forward([n EXCEPT !.generated[at][queue] = Tail(@)], at, id, next)

-----------------------------------------------------------------------------
(* Actions. *)

Become(n) ==
  /\ reqs' = n.reqs /\ input' = n.input /\ generated' = n.generated
  /\ stalled' = n.stalled /\ held' = n.held
  /\ served' = n.served /\ completed' = n.completed

\* The five queues in turn, from any of them.
InOrder == <<"right", "left", "up", "down", "local">>
RoundRobin(start) == SubSeq(InOrder, start, 5) \o SubSeq(InOrder, 1, start - 1)

\* The same step for every queue that holds anything, one after the other.
InTurn(Step(_, _), n, order, queues) ==
  FoldLeft(LAMBDA ns, q : {Step(m, q) : m \in ns}, {n},
           SelectSeq(order, LAMBDA q : queues[q] # <<>>))

Starts(at) ==
  LET busy == {q \in 1 .. 5 : input[at][InOrder[q]] # <<>>}
  IN  IF busy = {} THEN {1} ELSE busy

fsm_handler(at) ==
  /\ \E q \in Directions : input[at][q] # <<>> \/ generated[at][q] # <<>>
  /\ \E start \in Starts(at) :
       \E taken \in InTurn(LAMBDA n, q : TakeInput(n, at, q), noc, RoundRobin(start), input[at]) :
         \E n \in InTurn(LAMBDA m, q : TakeGenerated(m, at, q), taken, InOrder,
                         taken.generated[at]) : Become(n)
  /\ UNCHANGED injected

\* The network interface of a cluster sends the next request of a burst.
Inject(load) ==
  LET id == <<injected + 1, <<>>>>
  IN  /\ injected < MaxRequests
      /\ Cardinality({q \in DOMAIN reqs : IsRoot(q) /\ reqs[q].src = load.from}) < Outstanding
      /\ injected' = injected + 1
      /\ reqs' = With(reqs, id,
                      [src |-> load.from, dest |-> get_entry(load.from, load.addr),
                       addr |-> load.addr, type |-> load.type,
                       row_mask |-> load.row_mask, col_mask |-> load.col_mask,
                       momentum |-> "local", pend_kids |-> 0,
                       data |-> SetToBag({Buffer})])
      /\ input' = [input EXCEPT ![load.from]["local"] = Append(@, id)]
      /\ served' = With(served, Root(id), <<>>)
      /\ completed' = With(completed, Root(id), {})
      /\ UNCHANGED <<generated, stalled, held>>

\* Mutant: the output is not opened again.
GrantStillStalled(id) ==
  /\ ~held[id].granted
  /\ held' = [held EXCEPT ![id].granted = TRUE]
  /\ UNCHANGED <<reqs, input, generated, stalled, injected, served, completed>>

\* A target grants the request it denied.
Grant(id) ==
  /\ ~held[id].granted
  /\ held' = [held EXCEPT ![id].granted = TRUE]
  /\ stalled' = [stalled EXCEPT ![held[id].router][held[id].port] = FALSE]
  /\ UNCHANGED <<reqs, input, generated, injected, served, completed>>

\* A target answers.
Respond(id) ==
  /\ held[id].granted
  /\ Become(handle_request_end([noc EXCEPT !.held = Without(@, id),
                                           !.completed[Root(id)] = @ \cup {held[id].at}], id))
  /\ UNCHANGED injected

Init ==
  /\ reqs = <<>> /\ held = <<>> /\ served = <<>> /\ completed = <<>>
  /\ input = [at \in Routers |-> [q \in Directions |-> <<>>]]
  /\ generated = [at \in Routers |-> [q \in Directions |-> <<>>]]
  /\ stalled = [at \in Routers |-> [q \in Directions |-> FALSE]]
  /\ injected = 0

\* Everything that was sent is answered.
Terminating == injected = MaxRequests /\ DOMAIN reqs = {} /\ UNCHANGED vars

Next ==
  \/ \E load \in Loads : Inject(load)
  \/ \E at \in Routers : fsm_handler(at)
  \/ \E id \in DOMAIN held : Grant(id) \/ Respond(id)
  \/ Terminating

\* As long as anything can move, something does.
Spec == Init /\ [][Next]_vars /\ WF_vars(Next)

-----------------------------------------------------------------------------
(* Properties. *)

TypeOK ==
  /\ \A id \in DOMAIN reqs :
       /\ Root(id) \in 1 .. injected
       /\ reqs[id].src \in Routers /\ reqs[id].dest \in Positions
       /\ reqs[id].momentum \in Directions /\ reqs[id].pend_kids \in 0 .. 5
       /\ IsABag(reqs[id].data) /\ BagToSet(reqs[id].data) \subseteq Routers \cup {Buffer}
  /\ DOMAIN held \subseteq DOMAIN reqs
  /\ \A at \in Routers, q \in Directions :
       /\ Range(input[at][q]) \cup Range(generated[at][q]) \subseteq DOMAIN reqs
       /\ stalled[at][q] \in BOOLEAN
  /\ injected \in 0 .. MaxRequests

\* A request to many that is split on its way, and split again, has at most one
\* copy in each queue: so a queue never holds more than what all interfaces may
\* have outstanding, which it is sized for, and outputs stall only for a target
\* that denies.
QueuesHaveRoom ==
  \A at \in Routers, q \in Directions :
    /\ Cardinality({Root(id) : id \in Range(input[at][q])}) = Len(input[at][q])
    /\ Len(input[at][q]) <= router_input_queue_size
    /\ stalled[at][q] => Neighbour(at, q) \in Denying

\* How often a request is in a queue or at a target.
Copies(id) ==
  Cardinality({aqi \in Routers \X Directions \X (1 .. router_input_queue_size) :
                 aqi[3] \in DOMAIN input[aqi[1]][aqi[2]] /\ input[aqi[1]][aqi[2]][aqi[3]] = id})
  + Cardinality({aqi \in Routers \X Directions \X (1 .. router_input_queue_size) :
                 aqi[3] \in DOMAIN generated[aqi[1]][aqi[2]]
                   /\ generated[aqi[1]][aqi[2]][aqi[3]] = id})
  + IF id \in DOMAIN held THEN 1 ELSE 0

\* A request waits for as many answers as it has kids, and has none left exactly
\* when it is itself on its way, in one place.
KidsAccounted ==
  \A id \in DOMAIN reqs :
    /\ reqs[id].pend_kids =
         Cardinality({k \in DOMAIN reqs : ~IsRoot(k) /\ Parent(k) = id})
    /\ Copies(id) = IF reqs[id].pend_kids = 0 THEN 1 ELSE 0

\* A reduction adds up the data of each cluster that it reached once, wherever
\* the kids are on their way back, besides what its buffer held before.
ReducedOnce ==
  \A n \in DOMAIN served, t \in Routers :
    reqs[<<n, <<>>>>].type = "reduce" =>
      MapThenSumSet(LAMBDA id : CopiesIn(t, reqs[id].data),
                    {id \in DOMAIN reqs : Root(id) = n})
        = IF t \in Range(served[n]) THEN 1 ELSE 0

\* An address of the HBM is one place of one channel, whichever cluster asks and
\* whichever node it asks, and no other address is that place.
AtHbm == {id \in DOMAIN held : held[id].at \notin Routers}
Place(id) == req_muxed(held[id].at, NodeOffset(reqs[id].addr[2]))
OnePlacePerAddress ==
  \A i, j \in AtHbm : reqs[i].addr = reqs[j].addr <=> Place(i) = Place(j)

\* A request to the HBM is served by the node that the address belongs to: the
\* tutorial's "Each node is assigned a specific address range for HBM access".
ReachesItsNode == \A id \in AtHbm : held[id].at = reqs[id].dest

\* The NoC implements the abstract one.
TargetsOf(n) ==
  LET r == reqs[<<n, <<>>>>]
  IN  IF r.type = "single" THEN {r.dest} ELSE Targets(r.src, r.row_mask, r.col_mask)

Abstract == INSTANCE Multicast WITH
  Requests  <- 1 .. MaxRequests,
  Places    <- Positions,
  open      <- DOMAIN served,
  targets   <- [n \in DOMAIN served |-> TargetsOf(n)],
  reached   <- [n \in DOMAIN served |-> Range(served[n])],
  times     <- [n \in DOMAIN served |-> Len(served[n])],
  completed <- completed
ImplementsMulticast == Abstract!Spec

\* Again and again, every request that was injected has been answered.
AllAnswered == []<>(DOMAIN reqs = {})
=============================================================================
