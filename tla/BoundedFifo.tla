----------------------------- MODULE BoundedFifo -----------------------------
(***************************************************************************)
(* What a bounded multi-producer, multi-consumer queue promises its        *)
(* callers.  A call claims a cell of the queue and completes later: a push *)
(* makes its item visible when it completes, a pop takes the oldest        *)
(* visible item when it claims and gives the cell back when it completes.  *)
(* A push is refused only at an instant at which every cell is in use, a   *)
(* pop only at an instant at which no item is visible.                     *)
(***************************************************************************)
EXTENDS Integers, Sequences

CONSTANTS Producers,  \* threads that push
          Consumers,  \* threads that pop
          Items,      \* what can be pushed
          None,       \* no item
          Size        \* cells in the queue

VARIABLES fifo,  \* the visible items, oldest first
          used,  \* cells claimed or holding a visible item
          st,    \* where each thread is in its current or last call
          item   \* the item a thread pushes, or has taken

vars == <<fifo, used, st, item>>

Threads == Producers \cup Consumers

Idle == {"ok", "refused"}

Init ==
    /\ fifo = <<>>
    /\ used = 0
    /\ st = [t \in Threads |-> "ok"]
    /\ item = [t \in Threads |-> None]

Return(t, r) ==
    /\ st' = [st EXCEPT ![t] = r]
    /\ item' = [item EXCEPT ![t] = None]

CallPush(p, x) ==
    /\ st[p] \in Idle
    /\ st' = [st EXCEPT ![p] = "calling"]
    /\ item' = [item EXCEPT ![p] = x]
    /\ UNCHANGED <<fifo, used>>

CallPop(c) ==
    /\ st[c] \in Idle
    /\ st' = [st EXCEPT ![c] = "calling"]
    /\ UNCHANGED <<fifo, used, item>>

Reserve(p) ==
    /\ st[p] = "calling"
    /\ used < Size
    /\ used' = used + 1
    /\ st' = [st EXCEPT ![p] = "claimed"]
    /\ UNCHANGED <<fifo, item>>

Full(p) ==
    /\ st[p] = "calling"
    /\ used = Size
    /\ Return(p, "refused")
    /\ UNCHANGED <<fifo, used>>

Publish(p) ==
    /\ st[p] = "claimed"
    /\ fifo' = Append(fifo, item[p])
    /\ Return(p, "ok")
    /\ UNCHANGED used

Take(c) ==
    /\ st[c] = "calling"
    /\ fifo # <<>>
    /\ item' = [item EXCEPT ![c] = Head(fifo)]
    /\ fifo' = Tail(fifo)
    /\ st' = [st EXCEPT ![c] = "claimed"]
    /\ UNCHANGED used

Empty(c) ==
    /\ st[c] = "calling"
    /\ fifo = <<>>
    /\ Return(c, "refused")
    /\ UNCHANGED <<fifo, used>>

GiveBack(c) ==
    /\ st[c] = "claimed"
    /\ used' = used - 1
    /\ Return(c, "ok")
    /\ UNCHANGED fifo

Next ==
    \/ \E p \in Producers :
          \/ \E x \in Items : CallPush(p, x)
          \/ Reserve(p) \/ Full(p) \/ Publish(p)
    \/ \E c \in Consumers : CallPop(c) \/ Take(c) \/ Empty(c) \/ GiveBack(c)

Spec == Init /\ [][Next]_vars
=============================================================================
