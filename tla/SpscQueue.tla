------------------------------ MODULE SpscQueue ------------------------------
(***************************************************************************)
(* lockfree/spsc_queue.c: a queue between one producer and one consumer.   *)
(* Each side stores only its own counter, and loads the other's.  The      *)
(* producer's items are the numbers 0, 1, 2, ..., so an item is its place  *)
(* in the stream.  A call copies its items one at a time; loads of a       *)
(* counter by the side that owns it are not steps of their own.            *)
(***************************************************************************)
EXTENDS SpscRing, Sequences

CONSTANTS MaxBatch,  \* largest num of a call
          MaxItems   \* bound of the model: items over the queue's lifetime

ASSUME BoundAssumption == MaxBatch \in Nat /\ MaxItems \in Nat

VARIABLES qhead, qtail,  \* queue->head and queue->tail, the atomic counters
          cells,         \* queue->items
          ppc, pnum, phead, pdone,  \* producer: num, loaded head, items stored
          cpc, cnum, cdone,         \* consumer: num, items read
          cknown,  \* the consumer's num comes from size or peek_0
          qsent,   \* items of the pushes that returned true
          got      \* what the consumer's calls read

producer == <<ppc, pnum, phead, pdone>>
consumer == <<cpc, cnum, cdone, cknown>>
queueVars ==
    <<qhead, qtail, cells, ppc, pnum, phead, pdone, cpc, cnum, cdone, cknown, qsent, got>>

QueueInit ==
    /\ qhead = 0 /\ qtail = 0
    /\ cells = [i \in 0 .. Cap - 1 |-> 0]
    /\ ppc = "idle" /\ pnum = 0 /\ phead = 0 /\ pdone = 0
    /\ cpc = "idle" /\ cnum = 0 /\ cdone = 0 /\ cknown = FALSE
    /\ qsent = 0 /\ got = <<>>
-----------------------------------------------------------------------------
(* spsc_queue_push and spsc_queue_multi_push *)

multi_push(n) ==
    /\ ppc = "idle"
    /\ qsent + n <= MaxItems
    /\ ppc' = "load_head"
    /\ pnum' = n
    /\ UNCHANGED <<qhead, qtail, cells, phead, pdone, consumer, qsent, got>>

PushLoadHead ==
    /\ ppc = "load_head"
    /\ phead' = qhead
    /\ ppc' = "check"
    /\ UNCHANGED <<qhead, qtail, cells, pnum, pdone, consumer, qsent, got>>

PushReturn ==
    /\ ppc' = "idle" /\ pnum' = 0 /\ phead' = 0 /\ pdone' = 0

(* Mutant of PushCheck: one item too many fits. *)
PushCheckOffByOne ==
    /\ ppc = "check"
    /\ \/ /\ qtail - phead + pnum > Cap + 1
          /\ PushReturn
       \/ /\ qtail - phead + pnum <= Cap + 1
          /\ ppc' = "store"
          /\ UNCHANGED <<pnum, phead, pdone>>
    /\ UNCHANGED <<qhead, qtail, cells, consumer, qsent, got>>

PushCheck ==
    /\ ppc = "check"
    /\ \/ /\ qtail - phead + pnum > Cap
          /\ PushReturn
       \/ /\ qtail - phead + pnum <= Cap
          /\ ppc' = "store"
          /\ UNCHANGED <<pnum, phead, pdone>>
    /\ UNCHANGED <<qhead, qtail, cells, consumer, qsent, got>>

(* Mutant of StoreItem: every item of a batch goes to the tail. *)
StoreItemAtTail ==
    /\ ppc = "store"
    /\ pdone < pnum
    /\ cells' = [cells EXCEPT ![Masked(qtail)] = qsent + pdone]
    /\ pdone' = pdone + 1
    /\ UNCHANGED <<qhead, qtail, ppc, pnum, phead, consumer, qsent, got>>

StoreItem ==
    /\ ppc = "store"
    /\ pdone < pnum
    /\ cells' = [cells EXCEPT ![Masked(qtail + pdone)] = qsent + pdone]
    /\ pdone' = pdone + 1
    /\ UNCHANGED <<qhead, qtail, ppc, pnum, phead, consumer, qsent, got>>

StoreTail ==
    /\ ppc = "store"
    /\ pdone = pnum
    /\ qtail' = qtail + pnum
    /\ qsent' = qsent + pnum
    /\ PushReturn
    /\ UNCHANGED <<qhead, cells, consumer, got>>
-----------------------------------------------------------------------------
(* spsc_queue_pop and spsc_queue_multi_pop, after spsc_queue_size or a     *)
(* peek, or with a num the caller made up                                  *)

multi_pop(n) ==
    /\ cpc = "idle"
    /\ cpc' = "check"
    /\ cnum' = n
    /\ UNCHANGED <<qhead, qtail, cells, producer, cdone, cknown, qsent, got>>

(* Mutant of size: it counts one item too many. *)
sizeOffByOne ==
    /\ cpc = "idle"
    /\ qtail # qhead
    /\ cpc' = "check"
    /\ cnum' = qtail - qhead + 1
    /\ cknown' = TRUE
    /\ UNCHANGED <<qhead, qtail, cells, producer, cdone, qsent, got>>

(* The consumer asks for the size and pops that many items. *)
size ==
    /\ cpc = "idle"
    /\ qtail # qhead
    /\ cpc' = "check"
    /\ cnum' = qtail - qhead
    /\ cknown' = TRUE
    /\ UNCHANGED <<qhead, qtail, cells, producer, cdone, qsent, got>>

(* The consumer peeks, reads the first piece in place and pops it. *)
PeekFirst ==
    /\ cpc = "idle"
    /\ qtail # qhead
    /\ cpc' = "read_piece"
    /\ cnum' = peek_0(qhead, qtail).num
    /\ cknown' = TRUE
    /\ UNCHANGED <<qhead, qtail, cells, producer, cdone, qsent, got>>

PopReturn ==
    /\ cpc' = "idle" /\ cnum' = 0 /\ cdone' = 0 /\ cknown' = FALSE

PopCheck ==
    /\ cpc = "check"
    /\ \/ /\ qtail - qhead < cnum
          /\ IF cknown
             THEN cpc' = "aborted" /\ UNCHANGED <<cnum, cdone, cknown>>
             ELSE PopReturn
       \/ /\ qtail - qhead >= cnum
          /\ cpc' = IF cdone = cnum THEN "store_head" ELSE "read"
          /\ UNCHANGED <<cnum, cdone, cknown>>
    /\ UNCHANGED <<qhead, qtail, cells, producer, qsent, got>>

(* read_item, or the caller reading a peeked piece before it pops it *)
ReadItem ==
    /\ cpc \in {"read", "read_piece"}
    /\ cdone < cnum
    /\ got' = Append(got, cells[Masked(qhead + cdone)])
    /\ cdone' = cdone + 1
    /\ UNCHANGED <<qhead, qtail, cells, producer, cpc, cnum, cknown, qsent>>

ReadDone ==
    /\ cpc \in {"read", "read_piece"}
    /\ cdone = cnum
    /\ cpc' = IF cpc = "read" THEN "store_head" ELSE "check"
    /\ UNCHANGED <<qhead, qtail, cells, producer, cnum, cdone, cknown, qsent, got>>

StoreHead ==
    /\ cpc = "store_head"
    /\ qhead' = qhead + cnum
    /\ PopReturn
    /\ UNCHANGED <<qtail, cells, producer, qsent, got>>
-----------------------------------------------------------------------------
QueueNext ==
    \/ \E n \in 0 .. MaxBatch : multi_push(n) \/ multi_pop(n)
    \/ PushLoadHead \/ PushCheck \/ StoreItem \/ StoreTail
    \/ size \/ PeekFirst \/ PopCheck \/ ReadItem \/ ReadDone \/ StoreHead

QueueSpec == QueueInit /\ [][QueueNext]_queueVars
-----------------------------------------------------------------------------
(* The counters are naturals, the cells hold items, and each side is at a  *)
(* point of one of its calls.                                              *)
QueueTypeOK ==
    /\ qhead \in Nat /\ qtail \in Nat /\ qsent \in Nat
    /\ cells \in [0 .. Cap - 1 -> Nat]
    /\ ppc \in {"idle", "load_head", "check", "store"}
    /\ pnum \in Nat /\ phead \in Nat /\ pdone \in Nat
    /\ cpc \in {"idle", "check", "read", "read_piece", "store_head", "aborted"}
    /\ cnum \in Nat /\ cdone \in Nat /\ cknown \in BOOLEAN
    /\ got \in Seq(Nat)

(* The consumer reads the producer's stream: in order, nothing lost,       *)
(* nothing twice, although both sides work with stale counters.  And what  *)
(* size and peek_0 told it can be popped when it asks: test_spsc_queue.c   *)
(* asserts it, and log.c relies on it without a check.                     *)
InOrder ==
    /\ \A i \in 1 .. Len(got) : got[i] = i - 1
    /\ cpc # "aborted"

(* The producer never stores into a cell the consumer may be reading, and  *)
(* at every instant the pieces of spsc_queue_peek_0 and spsc_queue_peek_1  *)
(* cover exactly the queued items, in order, over the end of the ring and  *)
(* when it is full.                                                        *)
DisjointAccess ==
    /\ ppc = "store" /\ cpc \in {"read", "read_piece"} =>
          \A i \in 0 .. pnum - 1, j \in 0 .. cnum - 1 :
              Masked(qtail + i) # Masked(qhead + j)
    /\ PiecesCover(qhead, qtail - qhead)
=============================================================================
