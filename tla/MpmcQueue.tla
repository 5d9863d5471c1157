------------------------------ MODULE MpmcQueue ------------------------------
(***************************************************************************)
(* lockfree/mpmc_queue.c: a bounded queue for any number of producers and  *)
(* consumers, over four atomic 64-bit counters.                            *)
(*                                                                         *)
(*     temp_head <= head <= tail <= temp_tail <= temp_head + size          *)
(*                                                                         *)
(* A push claims the index temp_tail with a compare-and-swap, copies its   *)
(* item into the index's cell, waits for the pushes before it, and moves   *)
(* tail over the item; a pop claims the index head, copies the item out,   *)
(* waits for the pops before it, and moves temp_head, which gives the cell *)
(* back.  Every load, store and read-modify-write of a counter is a step;  *)
(* the counters are sequentially consistent (_Atomic without an explicit   *)
(* order).  The copy of an item is one step, which ExclusiveCells below    *)
(* justifies: no other thread touches the cell while it runs.              *)
(***************************************************************************)
EXTENDS Integers, Sequences, FiniteSets

CONSTANTS Producers,  \* threads that call mpmc_queue_(try_)push
          Consumers,  \* threads that call mpmc_queue_(try_)pop
          Items,      \* what is pushed
          None,       \* the content of a cell nobody wrote
          Size,       \* q->size
          IntRange,   \* 2^32, the number of values of an int
          U64Range,   \* 2^64, the number of values of a uint64_t
          MaxIndex    \* bound of the model: pushes over the queue's lifetime

(* q->size is arrlen / cell with arrlen a positive multiple of cell, and a *)
(* uint64_t is as wide as an int or wider.  The counters do not wrap: 2^64 *)
(* calls are not made.                                                     *)
ASSUME SizeAssumption == Size \in Nat \ {0}
ASSUME RangeAssumption ==
    /\ IntRange \in Nat \ {0}
    /\ U64Range \in Nat
    /\ U64Range >= IntRange
    /\ MaxIndex \in Nat
    /\ MaxIndex < U64Range
ASSUME ThreadAssumption == Producers \cap Consumers = {}
ASSUME ItemAssumption == None \notin Items

VARIABLES head, tail, temp_head, temp_tail,  \* the atomic counters
          cells,     \* the array at q->base
          pc,        \* where each thread is in its call
          idx,       \* its local old_temp_tail or old_head, then index
          item       \* *src of a push, *dst of a pop

counters == <<head, tail, temp_head, temp_tail>>
vars == <<head, tail, temp_head, temp_tail, cells, pc, idx, item>>

Threads == Producers \cup Consumers
Cells == 0 .. Size - 1
-----------------------------------------------------------------------------
(* item_addr takes its index as an int: the 64-bit index is truncated to   *)
(* the int it is congruent to, and q->size being unsigned converts that    *)
(* int back to 64 bits before the remainder is taken.                      *)
AsInt(u) ==
    LET low == u % IntRange
    IN  IF low < IntRange \div 2 THEN low ELSE low - IntRange
AsU64(n) == IF n >= 0 THEN n ELSE n + U64Range
(* Mutant of item_addr: the index is scaled by the cell size (2 here)      *)
(* before the remainder is taken.                                          *)
item_addrScaledFirst(index) == (AsU64(AsInt(index)) * 2) % Size

item_addr(index) == AsU64(AsInt(index)) % Size

(* q->size divides 2^32, that is, it is a power of two: item_addr is then  *)
(* index % Size for every index.                                           *)
PowerOfTwoSize == IntRange % Size = 0 /\ U64Range % Size = 0

Init ==
    /\ head = 0 /\ tail = 0 /\ temp_head = 0 /\ temp_tail = 0
    /\ cells = [c \in Cells |-> None]
    /\ pc = [t \in Threads |-> "ok"]
    /\ idx = [t \in Threads |-> 0]
    /\ item = [t \in Threads |-> None]

(* Between calls pc is what the last call returned. *)
Idle == {"ok", "refused"}

Goto(t, l) == pc' = [pc EXCEPT ![t] = l]

(* The call returns: its locals are gone, *dst is the caller's. *)
Return(t, r) ==
    /\ Goto(t, r)
    /\ idx' = [idx EXCEPT ![t] = 0]
    /\ item' = [item EXCEPT ![t] = None]
-----------------------------------------------------------------------------
(* mpmc_queue_push and mpmc_queue_try_push *)

(* The pushes that may still claim an index *)
Claiming ==
    {p \in Producers : pc[p] \in {"load_temp_tail", "load_temp_head", "cas_temp_tail"}}

Push(p, x) ==
    /\ pc[p] \in Idle
    /\ temp_tail + Cardinality(Claiming) < MaxIndex
    /\ Goto(p, "load_temp_tail")
    /\ item' = [item EXCEPT ![p] = x]
    /\ UNCHANGED <<counters, cells, idx>>

LoadTempTail(p) ==
    /\ pc[p] = "load_temp_tail"
    /\ idx' = [idx EXCEPT ![p] = temp_tail]
    /\ Goto(p, "load_temp_head")
    /\ UNCHANGED <<counters, cells, item>>

(* Mutant of LoadTempHead: the test for a full queue is gone. *)
LoadTempHeadUnchecked(p) ==
    /\ pc[p] = "load_temp_head"
    /\ Goto(p, IF temp_head + Size > idx[p] THEN "cas_temp_tail" ELSE "aborted")
    /\ UNCHANGED <<counters, cells, idx, item>>

(* The load of temp_head, and what the loop decides with it: full, the     *)
(* assert of line 71, or on to the compare-and-swap.  A full queue ends    *)
(* mpmc_queue_try_push with false and makes mpmc_queue_push try again.     *)
LoadTempHead(p) ==
    /\ pc[p] = "load_temp_head"
    /\ \/ /\ temp_head + Size = idx[p]
          /\ \/ Return(p, "refused")
             \/ Goto(p, "load_temp_tail") /\ UNCHANGED <<idx, item>>
       \/ /\ temp_head + Size # idx[p]
          /\ Goto(p, IF temp_head + Size > idx[p] THEN "cas_temp_tail" ELSE "aborted")
          /\ UNCHANGED <<idx, item>>
    /\ UNCHANGED <<counters, cells>>

(* The weak compare-and-swap fails when temp_tail moved, and may fail      *)
(* without a reason.                                                       *)
CasTempTail(p) ==
    /\ pc[p] = "cas_temp_tail"
    /\ \/ /\ temp_tail = idx[p]
          /\ temp_tail' = temp_tail + 1
          /\ Goto(p, "copy_in")
       \/ /\ Goto(p, "load_temp_tail")
          /\ UNCHANGED temp_tail
    /\ UNCHANGED <<head, tail, temp_head, cells, idx, item>>

CopyIn(p) ==
    /\ pc[p] = "copy_in"
    /\ cells' = [cells EXCEPT ![item_addr(idx[p])] = item[p]]
    /\ Goto(p, "await_tail")
    /\ UNCHANGED <<counters, idx, item>>

(* Mutant of AwaitTail: the push does not wait for the ones before it. *)
AwaitTailNot(p) ==
    /\ pc[p] = "await_tail"
    /\ Goto(p, "bump_tail")
    /\ UNCHANGED <<counters, cells, idx, item>>

(* release_push_location: the spin ends when tail is this push's index *)
AwaitTail(p) ==
    /\ pc[p] = "await_tail"
    /\ tail = idx[p]
    /\ Goto(p, "bump_tail")
    /\ UNCHANGED <<counters, cells, idx, item>>

BumpTail(p) ==
    /\ pc[p] = "bump_tail"
    /\ tail' = tail + 1
    /\ Return(p, "ok")
    /\ UNCHANGED <<head, temp_head, temp_tail, cells>>
-----------------------------------------------------------------------------
(* mpmc_queue_pop and mpmc_queue_try_pop *)

Pop(c) ==
    /\ pc[c] \in Idle
    /\ Goto(c, "load_head")
    /\ UNCHANGED <<counters, cells, idx, item>>

LoadHead(c) ==
    /\ pc[c] = "load_head"
    /\ idx' = [idx EXCEPT ![c] = head]
    /\ Goto(c, "load_tail")
    /\ UNCHANGED <<counters, cells, item>>

(* The load of tail: empty, the assert of line 135, or on to the swap *)
LoadTail(c) ==
    /\ pc[c] = "load_tail"
    /\ \/ /\ idx[c] = tail
          /\ \/ Return(c, "refused")
             \/ Goto(c, "load_head") /\ UNCHANGED <<idx, item>>
       \/ /\ idx[c] # tail
          /\ Goto(c, IF tail > idx[c] THEN "cas_head" ELSE "aborted")
          /\ UNCHANGED <<idx, item>>
    /\ UNCHANGED <<counters, cells>>

CasHead(c) ==
    /\ pc[c] = "cas_head"
    /\ \/ /\ head = idx[c]
          /\ head' = head + 1
          /\ Goto(c, "copy_out")
       \/ /\ Goto(c, "load_head")
          /\ UNCHANGED head
    /\ UNCHANGED <<tail, temp_head, temp_tail, cells, idx, item>>

CopyOut(c) ==
    /\ pc[c] = "copy_out"
    /\ item' = [item EXCEPT ![c] = cells[item_addr(idx[c])]]
    /\ Goto(c, "await_temp_head")
    /\ UNCHANGED <<counters, cells, idx>>

(* Mutant of AwaitTempHead: the spin compares head, not temp_head. *)
AwaitTempHeadOfHead(c) ==
    /\ pc[c] = "await_temp_head"
    /\ head = idx[c]
    /\ Goto(c, "bump_temp_head")
    /\ UNCHANGED <<counters, cells, idx, item>>

AwaitTempHead(c) ==
    /\ pc[c] = "await_temp_head"
    /\ temp_head = idx[c]
    /\ Goto(c, "bump_temp_head")
    /\ UNCHANGED <<counters, cells, idx, item>>

BumpTempHead(c) ==
    /\ pc[c] = "bump_temp_head"
    /\ temp_head' = temp_head + 1
    /\ Return(c, "ok")
    /\ UNCHANGED <<head, tail, temp_tail, cells>>
-----------------------------------------------------------------------------
PushStep(p) ==
    \/ LoadTempTail(p) \/ LoadTempHead(p) \/ CasTempTail(p)
    \/ CopyIn(p) \/ AwaitTail(p) \/ BumpTail(p)

PopStep(c) ==
    \/ LoadHead(c) \/ LoadTail(c) \/ CasHead(c)
    \/ CopyOut(c) \/ AwaitTempHead(c) \/ BumpTempHead(c)

Next ==
    \/ \E p \in Producers :
          \/ \E x \in Items : Push(p, x)
          \/ PushStep(p)
    \/ \E c \in Consumers :
          \/ Pop(c)
          \/ PopStep(c)

Spec == Init /\ [][Next]_vars

(* Every thread inside a call keeps running; nobody has to start a call.   *)
Fairness ==
    /\ \A p \in Producers : WF_vars(PushStep(p))
    /\ \A c \in Consumers : WF_vars(PopStep(c))

FairSpec == Spec /\ Fairness
-----------------------------------------------------------------------------
PushPC == {"ok", "refused", "load_temp_tail", "load_temp_head", "cas_temp_tail",
           "copy_in", "await_tail", "bump_tail", "aborted"}
PopPC == {"ok", "refused", "load_head", "load_tail", "cas_head",
          "copy_out", "await_temp_head", "bump_temp_head", "aborted"}

(* The counters are naturals, a cell holds an item or was never written,   *)
(* and every thread is at a point of the operation its role calls.         *)
TypeOK ==
    /\ head \in Nat /\ tail \in Nat /\ temp_head \in Nat /\ temp_tail \in Nat
    /\ cells \in [Cells -> Items \cup {None}]
    /\ pc \in [Threads -> PushPC \cup PopPC]
    /\ \A p \in Producers : pc[p] \in PushPC
    /\ \A c \in Consumers : pc[c] \in PopPC
    /\ idx \in [Threads -> Nat]
    /\ item \in [Threads -> Items \cup {None}]
    /\ \A p \in Producers : pc[p] \notin Idle => item[p] \in Items

(* The asserts of acquire_push_location (line 71) and acquire_pop_location *)
(* (line 135) hold although they compare counters read at two instants.    *)
NoAbort == \A t \in Threads : pc[t] # "aborted"

(* A thread owns the index it claimed from its compare-and-swap until it   *)
(* moves tail or temp_head over it.                                        *)
Owning == {"copy_in", "await_tail", "bump_tail",
           "copy_out", "await_temp_head", "bump_temp_head"}
Owns(t) == pc[t] \in Owning

(* No two calls in flight own the same cell of the array, so the memcpy of *)
(* one never races the memcpy of another.                                  *)
ExclusiveCells ==
    \A t, u \in Threads :
        t # u /\ Owns(t) /\ Owns(u) => item_addr(idx[t]) # item_addr(idx[u])

(* The counters keep the order of the picture in mpmc_queue.h, whatever    *)
(* stale values the threads compute with: the queue never holds more than  *)
(* Size items and claims.                                                  *)
CounterOrder ==
    /\ temp_head <= head
    /\ head <= tail
    /\ tail <= temp_tail
    /\ temp_tail <= temp_head + Size

(* What the calls in flight know of the counters.  A claimed push lies in  *)
(* tail .. temp_tail - 1 and a claimed pop in temp_head .. head - 1; no    *)
(* two share an index, and only the oldest of each kind gets to move the   *)
(* counter.  A stale old_temp_tail or old_head never runs ahead of its     *)
(* counter, and the room or the item seen by the loop is still there when  *)
(* the compare-and-swap succeeds.                                          *)
Claims ==
    /\ \A p \in Producers :
          /\ pc[p] \in {"load_temp_head", "cas_temp_tail"} => idx[p] <= temp_tail
          /\ pc[p] = "cas_temp_tail" => idx[p] < temp_head + Size
          /\ Owns(p) => tail <= idx[p] /\ idx[p] < temp_tail
          /\ pc[p] = "bump_tail" => idx[p] = tail
    /\ \A c \in Consumers :
          /\ pc[c] \in {"load_tail", "cas_head"} => idx[c] <= head
          /\ pc[c] = "cas_head" => idx[c] < tail
          /\ Owns(c) => temp_head <= idx[c] /\ idx[c] < head
          /\ pc[c] = "bump_temp_head" => idx[c] = temp_head
    /\ \A t, u \in Threads : t # u /\ Owns(t) /\ Owns(u) => idx[t] # idx[u]

(* A call that claimed an index gets through the spin for its turn and     *)
(* returns, whatever the threads before it do, as long as none stops.      *)
ClaimedCallReturns == \A t \in Threads : Owns(t) ~> pc[t] = "ok"
-----------------------------------------------------------------------------
(* The queue implements BoundedFifo: a push takes effect when tail moves,  *)
(* a pop when its compare-and-swap succeeds, and the cell a pop is still   *)
(* copying from already counts as taken with its content.                  *)
AbstractState(t) ==
    CASE pc[t] \in Idle -> pc[t]
      [] Owns(t) -> "claimed"
      [] OTHER -> "calling"

Fifo == INSTANCE BoundedFifo WITH
    fifo <- [i \in 1 .. tail - head |-> cells[item_addr(head + i - 1)]],
    used <- temp_tail - temp_head,
    st <- [t \in Threads |-> AbstractState(t)],
    item <- [t \in Threads |->
                IF pc[t] = "copy_out" THEN cells[item_addr(idx[t])] ELSE item[t]]

(* First in, first out, nothing lost, duplicated or invented, and a call   *)
(* is refused only when the queue really was full or empty at an instant   *)
(* during the call.                                                        *)
ImplementsFifo == Fifo!Spec
=============================================================================
