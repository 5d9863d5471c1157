------------------------------ MODULE SpmcQueue ------------------------------
(***************************************************************************)
(* lockfree/spmc_queue.c: a queue with one producer and any number of      *)
(* consumers, marked NOT TESTED in the source.  Every load, copy and       *)
(* read-modify-write is a step, except that the producer's load of its own *)
(* counter is part of the step that uses it.                               *)
(***************************************************************************)
EXTENDS Integers

CONSTANTS Consumers,
          Cap,       \* 1 << capacity_log2
          MaxPushes  \* bound of the model

VARIABLES head, tail,  \* the atomic counters
          cells,       \* queue->data: the number of the push stored, 0 at first
          pushes,      \* pushes that returned true
          ppc, phead,  \* producer: control, loaded head
          cpc, chead, ctail, citem  \* consumers: control, locals, *item

vars == <<head, tail, cells, pushes, ppc, phead, cpc, chead, ctail, citem>>

Init ==
    /\ head = 0 /\ tail = 0
    /\ cells = [i \in 0 .. Cap - 1 |-> 0]
    /\ pushes = 0
    /\ ppc = "idle" /\ phead = 0
    /\ cpc = [c \in Consumers |-> "idle"]
    /\ chead = [c \in Consumers |-> 0]
    /\ ctail = [c \in Consumers |-> 0]
    /\ citem = [c \in Consumers |-> 0]
-----------------------------------------------------------------------------
PushLoadHead ==
    /\ ppc = "idle"
    /\ pushes < MaxPushes
    /\ phead' = head
    /\ ppc' = "check"
    /\ UNCHANGED <<head, tail, cells, pushes, cpc, chead, ctail, citem>>

(* The assert on the size, the full queue, and the copy of the item *)
PushCheck ==
    /\ ppc = "check"
    /\ \/ /\ tail - phead > Cap
          /\ ppc' = "aborted"
          /\ UNCHANGED cells
       \/ /\ tail - phead = Cap
          /\ ppc' = "idle"
          /\ UNCHANGED cells
       \/ /\ tail - phead < Cap
          /\ cells' = [cells EXCEPT ![tail % Cap] = pushes + 1]
          /\ ppc' = "add_tail"
    /\ UNCHANGED <<head, tail, pushes, phead, cpc, chead, ctail, citem>>

(* tail++ on the local, then atomic_fetch_add(&queue->tail, tail) *)
PushAddTail ==
    /\ ppc = "add_tail"
    /\ tail' = tail + (tail + 1)
    /\ pushes' = pushes + 1
    /\ ppc' = "idle"
    /\ UNCHANGED <<head, cells, phead, cpc, chead, ctail, citem>>
-----------------------------------------------------------------------------
PopLoadTail(c) ==
    /\ cpc[c] \in {"idle", "retry"}
    /\ ctail' = [ctail EXCEPT ![c] = tail]
    /\ cpc' = [cpc EXCEPT ![c] = "load_head"]
    /\ UNCHANGED <<head, tail, cells, pushes, ppc, phead, chead, citem>>

PopLoadHead(c) ==
    /\ cpc[c] = "load_head"
    /\ chead' = [chead EXCEPT ![c] = head]
    /\ cpc' = [cpc EXCEPT ![c] = IF head >= ctail[c] THEN "idle" ELSE "copy"]
    /\ UNCHANGED <<head, tail, cells, pushes, ppc, phead, ctail, citem>>

PopCopy(c) ==
    /\ cpc[c] = "copy"
    /\ citem' = [citem EXCEPT ![c] = cells[chead[c] % Cap]]
    /\ cpc' = [cpc EXCEPT ![c] = "cas_head"]
    /\ UNCHANGED <<head, tail, cells, pushes, ppc, phead, chead, ctail>>

PopCasHead(c) ==
    /\ cpc[c] = "cas_head"
    /\ \/ /\ head = chead[c]
          /\ head' = head + 1
          /\ cpc' = [cpc EXCEPT ![c] = "popped"]
       \/ /\ cpc' = [cpc EXCEPT ![c] = "retry"]
          /\ UNCHANGED head
    /\ UNCHANGED <<tail, cells, pushes, ppc, phead, chead, ctail, citem>>

PopReturn(c) ==
    /\ cpc[c] = "popped"
    /\ cpc' = [cpc EXCEPT ![c] = "idle"]
    /\ UNCHANGED <<head, tail, cells, pushes, ppc, phead, chead, ctail, citem>>
-----------------------------------------------------------------------------
Next ==
    \/ PushLoadHead \/ PushCheck \/ PushAddTail
    \/ \E c \in Consumers :
          PopLoadTail(c) \/ PopLoadHead(c) \/ PopCopy(c) \/ PopCasHead(c) \/ PopReturn(c)

Spec == Init /\ [][Next]_vars
-----------------------------------------------------------------------------
(* The assert of spmc_queue_push: the queue never holds more items than    *)
(* its capacity.                                                           *)
NoFunnyBusiness == ppc # "aborted"

=============================================================================
