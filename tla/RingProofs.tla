----------------------------- MODULE RingProofs -----------------------------
(***************************************************************************)
(* The ring of spsc_queue.c, for any size: its arithmetic, the queue       *)
(* between one producer and one consumer, and the log, whose threads each  *)
(* write into a ring of their own.                                         *)
(***************************************************************************)
EXTENDS SpscQueue, Log, ArithmeticLemmas, SequenceTheorems, FiniteSetTheorems, TLAPS

(* The mask of spsc_queue.c always points into the array. *)
LEMMA MaskedType ==
    ASSUME NEW i \in Nat
    PROVE  Masked(i) \in 0 .. Cap - 1
  BY CapAssumption, DivMod DEF Masked

(* Two indexes less than a ring apart lie in different cells. *)
LEMMA MaskedInjective ==
    ASSUME NEW i \in Nat, NEW j \in Nat, i # j, i - j < Cap, j - i < Cap
    PROVE  Masked(i) # Masked(j)
<1> SUFFICES ASSUME i % Cap = j % Cap PROVE FALSE
  BY DEF Masked
<1>1. i \in Int /\ j \in Int
  OBVIOUS
<1>2. i = j
  BY <1>1, CapAssumption, ModInjective, Zenon
<1> QED BY <1>2

(* Counting on from a masked index wraps at the end of the array. *)
LEMMA MaskedSum ==
    ASSUME NEW i \in Nat, NEW k \in 0 .. Cap
    PROVE  Masked(i + k) = IF Masked(i) + k < Cap
                           THEN Masked(i) + k ELSE Masked(i) + k - Cap
<1>1. i \in Int
  OBVIOUS
<1>2. i % Cap \in 0 .. Cap - 1
  BY <1>1, CapAssumption, DivMod
<1>3. /\ (i % Cap) + k < Cap => (i + k) % Cap = (i % Cap) + k
      /\ (i % Cap) + k >= Cap => (i + k) % Cap = (i % Cap) + k - Cap
  BY <1>1, CapAssumption, ModOfSum, Zenon
<1> DEFINE r == i % Cap
           t == (i + k) % Cap
<1> HIDE DEF r, t
<1>4. t = IF r + k < Cap THEN r + k ELSE r + k - Cap
  BY <1>2, <1>3, CapAssumption DEF r, t
<1> QED BY <1>4 DEF Masked, r, t

(* What spsc_queue_peek_0 and spsc_queue_peek_1 return, in terms of the    *)
(* number of queued items: the first piece ends at the end of the array or *)
(* at the last item, the second has the rest.                              *)
LEMMA PieceSizes ==
    ASSUME NEW h \in Nat, NEW n \in 0 .. Cap
    PROVE  /\ n > 0 => peek_0(h, h + n).off = Masked(h)
           /\ peek_0(h, h + n).num = IF n <= Cap - Masked(h) THEN n ELSE Cap - Masked(h)
           /\ peek_1(h, h + n) = [off |-> 0, num |-> n - peek_0(h, h + n).num]
<1>1. Masked(h) \in 0 .. Cap - 1
  BY MaskedType
<1>2. Masked(h + n) = IF Masked(h) + n < Cap
                      THEN Masked(h) + n ELSE Masked(h) + n - Cap
  BY MaskedSum
<1>3. h = h + n <=> n = 0
  BY CapAssumption
<1> HIDE DEF Masked
<1> QED BY <1>1, <1>2, <1>3, CapAssumption DEF peek_0, peek_1, Piece

(* The first piece holds queued items only, and one at least when there    *)
(* are any.                                                                *)
LEMMA FirstPieceBound ==
    ASSUME NEW h \in Nat, NEW t \in Nat, h <= t, t <= h + Cap
    PROVE  /\ peek_0(h, t).num \in 0 .. t - h
           /\ h < t => peek_0(h, t).num > 0
<1> DEFINE n == t - h
<1>1. n \in 0 .. Cap /\ t = h + n
  BY CapAssumption
<1> HIDE DEF n
<1>2. peek_0(h, t).num = IF n <= Cap - Masked(h) THEN n ELSE Cap - Masked(h)
  BY <1>1, PieceSizes
<1>3. Masked(h) \in 0 .. Cap - 1
  BY MaskedType
<1> QED BY <1>1, <1>2, <1>3, CapAssumption

(* The two pieces are the queued items in order, for every size of the     *)
(* ring, every place of the head and every number of items, a full ring    *)
(* included.                                                               *)
THEOREM PiecesAlwaysCover ==
    ASSUME NEW h \in Nat, NEW n \in 0 .. Cap
    PROVE  PiecesCover(h, n)
<1> DEFINE a == peek_0(h, h + n)
           b == peek_1(h, h + n)
<1>1. /\ n > 0 => a.off = Masked(h)
      /\ a.num = IF n <= Cap - Masked(h) THEN n ELSE Cap - Masked(h)
      /\ b.off = 0 /\ b.num = n - a.num
  <2>1. b = [off |-> 0, num |-> n - a.num]
    BY PieceSizes
  <2> QED BY <2>1, PieceSizes
<1>2. Masked(h) \in 0 .. Cap - 1
  BY MaskedType
<1> HIDE DEF a, b
<1>3. a.num + b.num = n
  BY <1>1, <1>2, CapAssumption
<1>4. ASSUME NEW i \in 0 .. n - 1
      PROVE  Masked(h + i) = IF i < a.num THEN a.off + i ELSE b.off + (i - a.num)
  <2>1. i \in 0 .. Cap /\ n > 0
    BY CapAssumption
  <2>2. Masked(h + i) = IF Masked(h) + i < Cap
                        THEN Masked(h) + i ELSE Masked(h) + i - Cap
    BY <2>1, MaskedSum
  <2> QED BY <1>1, <1>2, <2>1, <2>2, CapAssumption
<1> QED BY <1>3, <1>4 DEF PiecesCover, a, b
-----------------------------------------------------------------------------
(* The queue holds the items qhead .. qtail - 1 of the stream. *)
Counters ==
    /\ qhead <= qtail /\ qtail <= qhead + Cap
    /\ qsent = qtail

(* What a push knows: the head it loaded is at most the head there is, so  *)
(* the room it found is still there while it stores.                       *)
PushKnows ==
    /\ phead <= qhead
    /\ ppc = "store" => qtail - phead + pnum <= Cap
    /\ pdone <= pnum
    /\ ppc # "store" => pdone = 0

(* What a pop knows: the items it found, from size, a peek or its own      *)
(* check, are still there until it stores the head.                        *)
PopKnows ==
    /\ cpc # "aborted"
    /\ cdone <= cnum
    /\ cknown \/ cdone > 0 \/ cpc \in {"read", "read_piece", "store_head"} =>
          cnum <= qtail - qhead
    /\ cpc = "idle" => cdone = 0 /\ ~cknown
    /\ cpc = "check" => cdone \in {0, cnum}
    /\ cpc = "store_head" => cdone = cnum

(* The cells of the queue, and those a push has stored beyond the tail,    *)
(* hold their place of the stream.                                         *)
CellContents ==
    /\ \A i \in Nat : qhead <= i /\ i < qtail => cells[Masked(i)] = i
    /\ \A i \in Nat : qtail <= i /\ i < qtail + pdone => cells[Masked(i)] = i

(* The consumer has read the stream up to the head and cdone items on. *)
ReadSoFar ==
    /\ Len(got) = qhead + cdone
    /\ \A i \in 1 .. Len(got) : got[i] = i - 1

(* What every step preserves.  In order delivery alone is not: it takes    *)
(* what the cells hold, and that no push reaches a cell of the queue takes *)
(* what each side knows through its stale copy of the other's counter.     *)
QueueInv == QueueTypeOK /\ Counters /\ PushKnows /\ PopKnows /\ CellContents /\ ReadSoFar
-----------------------------------------------------------------------------
(* The steps of the producer that do not touch the cells keep the          *)
(* invariant.                                                              *)
LEMMA PushKeepsQueueInv ==
    ASSUME QueueInv, \/ \E n \in 0 .. MaxBatch : multi_push(n)
                   \/ PushLoadHead \/ PushCheck \/ StoreTail
    PROVE  QueueInv'
<1> USE CapAssumption
        DEF QueueInv, QueueTypeOK, Counters, PushKnows, PopKnows, CellContents, ReadSoFar,
            consumer, PushReturn
<1>1. ASSUME NEW n \in 0 .. MaxBatch, multi_push(n) PROVE QueueInv'
  BY <1>1, BoundAssumption DEF multi_push
<1>2. CASE PushLoadHead
  BY <1>2 DEF PushLoadHead
<1>3. CASE PushCheck
  <2>1. /\ UNCHANGED <<qhead, qtail, cells, qsent, got, cpc, cnum, cdone, cknown>>
        /\ pdone' = 0 /\ pdone = 0
    BY <1>3 DEF PushCheck
  <2>2. PushKnows' /\ ppc' \in {"idle", "store"} /\ pnum' \in Nat /\ phead' \in Nat
    <3> HIDE DEF CellContents, ReadSoFar, PopKnows
    <3>1. CASE PushReturn
      BY <1>3, <2>1, <3>1 DEF PushCheck
    <3>2. CASE ~PushReturn
      BY <1>3, <2>1, <3>2 DEF PushCheck
    <3> QED BY <3>1, <3>2
  <2> QED BY <2>1, <2>2
<1>4. CASE StoreTail
  BY <1>4 DEF StoreTail
<1> QED BY <1>1, <1>2, <1>3, <1>4

(* Storing an item keeps the invariant: the cell is none of the queue's    *)
(* and none that this push has stored already.                             *)
LEMMA StoreKeepsQueueInv ==
    ASSUME QueueInv, StoreItem
    PROVE  QueueInv'
<1> USE CapAssumption DEF QueueInv, QueueTypeOK, Counters, PushKnows, StoreItem
<1> DEFINE k == qtail + pdone
<1>1. k \in Nat /\ k < qhead + Cap
  OBVIOUS
<1>2. Masked(k) \in 0 .. Cap - 1
  BY <1>1, MaskedType
<1>3. cells' = [cells EXCEPT ![Masked(k)] = k]
  OBVIOUS
<1> HIDE DEF k
<1>4. ASSUME NEW i \in Nat, qhead <= i, i < k PROVE cells'[Masked(i)] = cells[Masked(i)]
  <2>1. Masked(i) # Masked(k)
    BY <1>1, <1>4, MaskedInjective
  <2> QED BY <1>2, <1>3, <2>1, <1>4, MaskedType
<1>5. cells'[Masked(k)] = k
  BY <1>2, <1>3
<1>6. CellContents'
  <2>1. ASSUME NEW i \in Nat, qhead <= i, i < k PROVE cells'[Masked(i)] = i
    BY <1>4, <2>1 DEF CellContents, k
  <2>2. ASSUME NEW i \in Nat, qhead <= i, i < k + 1 PROVE cells'[Masked(i)] = i
    BY <1>1, <1>5, <2>1, <2>2
  <2>3. qhead' = qhead /\ qtail' = qtail /\ qtail' + pdone' = k + 1
    BY DEF k
  <2>4. qtail <= k
    BY DEF k
  <2> QED BY <1>1, <2>2, <2>3, <2>4 DEF CellContents
<1>7. cells' \in [0 .. Cap - 1 -> Nat]
  BY <1>1, <1>2, <1>3
<1> QED BY <1>6, <1>7 DEF PopKnows, ReadSoFar, consumer

(* The steps of the consumer that read no item keep the invariant. *)
LEMMA PopKeepsQueueInv ==
    ASSUME QueueInv, \/ \E n \in 0 .. MaxBatch : multi_pop(n)
                   \/ size \/ PeekFirst \/ PopCheck \/ ReadDone \/ StoreHead
    PROVE  QueueInv'
<1> USE CapAssumption
        DEF QueueInv, QueueTypeOK, Counters, PushKnows, PopKnows, CellContents, ReadSoFar,
            producer, PopReturn
<1>1. ASSUME NEW n \in 0 .. MaxBatch, multi_pop(n) PROVE QueueInv'
  BY <1>1, BoundAssumption DEF multi_pop
<1>2. CASE size
  BY <1>2 DEF size
<1>3. CASE PeekFirst
  <2>1. peek_0(qhead, qtail).num \in 0 .. qtail - qhead
    BY FirstPieceBound
  <2> QED BY <1>3, <2>1 DEF PeekFirst
<1>4. CASE PopCheck
  <2>1. UNCHANGED <<qhead, qtail, cells, qsent, got, ppc, pnum, phead, pdone>>
    BY <1>4 DEF PopCheck
  <2>2. ASSUME qtail - qhead < cnum PROVE ~cknown /\ cdone = 0
    BY <2>2, <1>4 DEF PopCheck
  <2>3. /\ cpc' \in {"idle", "read", "store_head"} /\ cnum' \in Nat
        /\ cdone' = cdone /\ cknown' \in BOOLEAN
    BY <1>4, <2>2 DEF PopCheck
  <2>4. PopKnows'
    BY <1>4, <2>2 DEF PopCheck
  <2> QED BY <2>1, <2>3, <2>4
<1>5. CASE ReadDone
  BY <1>5 DEF ReadDone
<1>6. CASE StoreHead
  <2>1. cnum <= qtail - qhead /\ cdone = cnum
    BY <1>6 DEF StoreHead
  <2>2. /\ qhead' = qhead + cnum /\ cpc' = "idle" /\ cnum' = 0 /\ cdone' = 0
        /\ cknown' = FALSE
        /\ UNCHANGED <<qtail, cells, qsent, got, ppc, pnum, phead, pdone>>
    BY <1>6 DEF StoreHead
  <2>3. QueueTypeOK' /\ Counters' /\ PushKnows' /\ PopKnows'
    <3> HIDE DEF CellContents, ReadSoFar
    <3>1. qhead' \in Nat /\ qhead <= qhead'
      BY <2>2
    <3>2. QueueTypeOK'
      BY <2>2, <3>1
    <3>3. Counters'
      BY <2>1, <2>2
    <3>4. PushKnows'
      <4> HIDE DEF PopKnows
      <4> QED BY <2>2, <3>1
    <3>5. PopKnows'
      BY <2>1, <2>2
    <3> QED BY <3>2, <3>3, <3>4, <3>5
  <2>4. CellContents'
    <3> HIDE DEF PopKnows, PushKnows
    <3> QED BY <2>1, <2>2, <2>3
  <2>5. ReadSoFar'
    BY <2>1, <2>2
  <2> QED BY <2>3, <2>4, <2>5
<1> QED BY <1>1, <1>2, <1>3, <1>4, <1>5, <1>6

(* Reading an item keeps the invariant: it is the next of the stream. *)
LEMMA ReadKeepsQueueInv ==
    ASSUME QueueInv, ReadItem
    PROVE  QueueInv'
<1> USE CapAssumption DEF QueueInv, QueueTypeOK, Counters, PushKnows, PopKnows, ReadItem
<1>1. qhead + cdone \in Nat /\ qhead <= qhead + cdone /\ qhead + cdone < qtail
  OBVIOUS
<1>2. cells[Masked(qhead + cdone)] = qhead + cdone
  BY <1>1 DEF CellContents
<1>3. got' = Append(got, qhead + cdone)
  BY <1>2
<1>4. Len(got') = Len(got) + 1 /\ got' \in Seq(Nat)
  BY <1>1, <1>3
<1>5. \A i \in 1 .. Len(got') : got'[i] = i - 1
  <2> SUFFICES ASSUME NEW i \in 1 .. Len(got') PROVE got'[i] = i - 1
    OBVIOUS
  <2>1. Len(got) = qhead + cdone /\ Len(got) \in Nat
    BY DEF ReadSoFar
  <2>2. CASE i \in 1 .. Len(got)
    <3>1. got'[i] = got[i]
      BY <1>1, <1>3, <2>2
    <3> QED BY <2>2, <3>1 DEF ReadSoFar
  <2>3. CASE i = Len(got) + 1
    <3>1. got'[i] = qhead + cdone
      BY <1>1, <1>3, <2>3, AppendProperties
    <3> QED BY <1>1, <2>1, <2>3, <3>1
  <2> QED BY <1>4, <2>1, <2>2, <2>3
<1>6. ReadSoFar'
  BY <1>4, <1>5 DEF ReadSoFar
<1> QED BY <1>4, <1>6 DEF CellContents, producer
-----------------------------------------------------------------------------
(* The invariant holds in every reachable state. *)
THEOREM QueueInvInvariant == QueueSpec => []QueueInv
<1>1. QueueInit => QueueInv
  BY CapAssumption
     DEF QueueInit, QueueInv, QueueTypeOK, Counters, PushKnows, PopKnows, CellContents, ReadSoFar
<1>2. QueueInv /\ [QueueNext]_queueVars => QueueInv'
  <2> SUFFICES ASSUME QueueInv, [QueueNext]_queueVars PROVE QueueInv'
    OBVIOUS
  <2>1. CASE UNCHANGED queueVars
    BY <2>1 DEF queueVars, QueueInv, QueueTypeOK, Counters, PushKnows, PopKnows,
                CellContents, ReadSoFar
  <2> QED BY <2>1, PushKeepsQueueInv, StoreKeepsQueueInv, PopKeepsQueueInv,
             ReadKeepsQueueInv DEF QueueNext
<1> QED BY <1>1, <1>2, PTL DEF QueueSpec

(* For every capacity and any calls, the consumer reads the producer's     *)
(* stream in order, with nothing lost and nothing twice, and what size and *)
(* peek_0 told it can be popped.                                           *)
THEOREM StreamInOrder == QueueSpec => []InOrder
<1>1. QueueInv => InOrder
  BY DEF QueueInv, PopKnows, ReadSoFar, InOrder
<1> QED BY <1>1, QueueInvInvariant, PTL

(* For every capacity and any calls, the producer stores into no cell that *)
(* the consumer may be reading, and the two peeked pieces are exactly the  *)
(* queued items in order.                                                  *)
THEOREM AccessDisjoint == QueueSpec => []DisjointAccess
<1>1. QueueInv => DisjointAccess
  <2> SUFFICES ASSUME QueueInv PROVE DisjointAccess
    OBVIOUS
  <2> USE CapAssumption DEF QueueInv, QueueTypeOK, Counters
  <2>1. ASSUME ppc = "store", cpc \in {"read", "read_piece"},
               NEW i \in 0 .. pnum - 1, NEW j \in 0 .. cnum - 1
        PROVE  Masked(qtail + i) # Masked(qhead + j)
    <3>1. /\ qtail + i \in Nat /\ qhead + j \in Nat
          /\ qhead + j < qtail + i /\ qtail + i - (qhead + j) < Cap
      BY <2>1 DEF PushKnows, PopKnows
    <3> QED BY <3>1, MaskedInjective
  <2>2. PiecesCover(qhead, qtail - qhead)
    BY PiecesAlwaysCover
  <2> QED BY <2>1, <2>2 DEF DisjointAccess
<1> QED BY <1>1, QueueInvInvariant, PTL
-----------------------------------------------------------------------------
(* The log, for any number of writers, buffers of any size and messages of  *)
(* any sizes: the accounts of a buffer's space, and then the file.          *)

WriterPC == {"idle", "load_list", "cas_list", "check_free", "wakeup", "sem_wait",
             "asleep", "load_head", "push", "aborted", "dropped"}

(* The types of what the accounting depends on *)
LogTypes ==
    /\ list \in Seq(Writers) /\ cursor \in Seq(Writers)
    /\ head \in [Writers -> Nat] /\ tail \in [Writers -> Nat] /\ sem \in [Writers -> Nat]
    /\ wpc \in [Writers -> WriterPC]
    /\ wsize \in [Writers -> Nat] /\ wloc \in [Writers -> Nat]
    /\ piece0 \in [off : Nat, num : Nat] /\ piece1 \in [off : Nat, num : Nat]

(* Every byte of every buffer has one owner. *)
Accounts ==
    \A w \in Writers :
        /\ head[w] <= tail[w]
        /\ sem[w] + (tail[w] - head[w]) + Claimed(w) + Returning(w) = Cap

(* What a writer knows: the head it loaded is stale, yet there is room for *)
(* its message behind it.                                                  *)
WriterKnows ==
    \A w \in Writers :
        /\ wpc[w] # "dropped"
        /\ wpc[w] = "push" => tail[w] - wloc[w] + wsize[w] <= Cap

(* What the flush thread knows of the buffer it visits: the first piece    *)
(* reaches neither beyond the tail nor beyond the end of the array, and    *)
(* the two pieces, peeked with a tail that moved in between, hold no more  *)
(* than what is queued.                                                    *)
FlushKnows ==
    /\ fpc \in {"peek_1", "write", "pop", "signal"} => cursor # <<>>
    /\ fpc = "peek_1" =>
          /\ piece0.num <= tail[Head(cursor)] - head[Head(cursor)]
          /\ piece0.num <= Cap - Masked(head[Head(cursor)])
    /\ fpc \in {"write", "pop"} =>
          piece0.num + piece1.num <= tail[Head(cursor)] - head[Head(cursor)]

(* What every step preserves.  The accounts alone are not: that a pop is   *)
(* never refused, and so gives back what it took, rests on what the flush  *)
(* thread knows, and that a push is not refused on what the writer knows.  *)
SpaceInv == LogTypes /\ Accounts /\ WriterKnows /\ FlushKnows
-----------------------------------------------------------------------------
(* The buffer the flush thread visits is a writer's. *)
LEMMA VisitedType ==
    ASSUME LogTypes, cursor # <<>>
    PROVE  Head(cursor) \in Writers /\ Tail(cursor) \in Seq(Writers)
  BY DEF LogTypes

(* What peek_0 and peek_1 return are records of naturals. *)
LEMMA PieceTypes ==
    ASSUME NEW h \in Nat, NEW t \in Nat, h <= t, t <= h + Cap
    PROVE  /\ peek_0(h, t) \in [off : Nat, num : Nat]
           /\ peek_1(h, t) \in [off : Nat, num : Nat]
           /\ peek_0(h, t).num <= t - h
           /\ peek_0(h, t).num <= Cap - Masked(h)
           /\ \A k \in Nat : k <= t - h /\ k <= Cap - Masked(h) =>
                 k + peek_1(h, t).num <= t - h
<1> DEFINE n == t - h
<1>1. n \in 0 .. Cap /\ t = h + n
  BY CapAssumption
<1>2. Masked(h) \in 0 .. Cap - 1 /\ Masked(t) \in 0 .. Cap - 1
  BY MaskedType
<1> HIDE DEF n
<1>3. /\ peek_0(h, t).num = IF n <= Cap - Masked(h) THEN n ELSE Cap - Masked(h)
      /\ peek_1(h, t) = [off |-> 0, num |-> n - peek_0(h, t).num]
  BY <1>1, PieceSizes
<1>4. peek_0(h, t) \in [off : Nat, num : Nat]
  BY <1>2, CapAssumption DEF peek_0, Piece
<1>5. peek_1(h, t) \in [off : Nat, num : Nat]
  BY <1>2, CapAssumption DEF peek_1, Piece
<1>6. peek_1(h, t).num = n - peek_0(h, t).num
  BY <1>3
<1>7. t - h = n
  BY DEF n
<1> QED BY <1>1, <1>2, <1>3, <1>4, <1>5, <1>6, <1>7, CapAssumption

(* The terms of a buffer's account are naturals, and so no more than the   *)
(* buffer's size is queued.                                                *)
LEMMA AccountTypes ==
    ASSUME LogTypes, Accounts, NEW w \in Writers
    PROVE  /\ head[w] \in Nat /\ tail[w] \in Nat /\ sem[w] \in Nat /\ wsize[w] \in Nat
           /\ wloc[w] \in Nat /\ piece0.num \in Nat /\ piece1.num \in Nat
           /\ Claimed(w) \in Nat /\ Returning(w) \in Nat
           /\ head[w] <= tail[w] /\ tail[w] <= head[w] + Cap
<1>1. /\ head[w] \in Nat /\ tail[w] \in Nat /\ sem[w] \in Nat /\ wsize[w] \in Nat
      /\ wloc[w] \in Nat /\ piece0.num \in Nat /\ piece1.num \in Nat
  BY DEF LogTypes
<1>2. Claimed(w) \in Nat /\ Returning(w) \in Nat
  BY <1>1 DEF Claimed, Returning
<1>3. /\ head[w] <= tail[w]
      /\ sem[w] + (tail[w] - head[w]) + Claimed(w) + Returning(w) = Cap
  BY DEF Accounts
<1> QED BY <1>1, <1>2, <1>3, CapAssumption

(* Every step of a log_write2 keeps the invariant. *)
LEMMA WriterKeepsSpaceInv ==
    ASSUME SpaceInv, NEW w \in Writers,
           (\E n \in Sizes : log_write2(w, n)) \/ WriterStep(w) \/ SpuriousWakeup(w)
    PROVE  SpaceInv'
<1>a. LogTypes /\ Accounts /\ WriterKnows /\ FlushKnows
  BY DEF SpaceInv
<1>b. ASSUME NEW v \in Writers
      PROVE  /\ head[v] \in Nat /\ tail[v] \in Nat /\ sem[v] \in Nat /\ wsize[v] \in Nat
             /\ wloc[v] \in Nat /\ piece0.num \in Nat /\ piece1.num \in Nat
             /\ Claimed(v) \in Nat /\ Returning(v) \in Nat
             /\ head[v] <= tail[v] /\ tail[v] <= head[v] + Cap
  BY <1>a, AccountTypes
<1>c. ASSUME NEW v \in Writers
      PROVE  sem[v] + (tail[v] - head[v]) + Claimed(v) + Returning(v) = Cap
  BY <1>a DEF Accounts
<1>d. /\ head \in [Writers -> Nat] /\ tail \in [Writers -> Nat] /\ sem \in [Writers -> Nat]
      /\ wpc \in [Writers -> WriterPC] /\ wsize \in [Writers -> Nat]
  BY <1>a DEF LogTypes
<1> USE SizesAssumption, CapAssumption
        DEF SpaceInv, LogTypes, Accounts, WriterKnows, FlushKnows, Claimed, Returning,
            WriterPC, WGoto, buffers, pass, config, control
<1>1. ASSUME NEW n \in Sizes, log_write2(w, n) PROVE SpaceInv'
  BY <1>1 DEF log_write2
<1>2. CASE LoadList(w)
  <2>1. Len(list) \in Nat
    OBVIOUS
  <2> QED BY <1>2, <2>1 DEF LoadList
<1>3. CASE CasList(w)
  <2>1. <<w>> \o list \in Seq(Writers)
    <3>1. <<w>> \in Seq(Writers)
      OBVIOUS
    <3> QED BY <3>1, ConcatProperties
  <2> QED BY <1>3, <2>1 DEF CasList
<1>4. CASE CheckFree(w)
  BY <1>4 DEF CheckFree
<1>5. CASE wakeup_flush_routine(w)
  BY <1>5 DEF wakeup_flush_routine, SignalFlush
<1>6. CASE SemWait(w)
  <2>1. CASE wsize[w] = 0
    BY <1>6, <2>1 DEF SemWait
  <2>2. CASE wsize[w] # 0 /\ sem[w] >= wsize[w]
    <3>1. /\ sem' = [sem EXCEPT ![w] = @ - wsize[w]]
          /\ wpc' = [wpc EXCEPT ![w] = "load_head"] /\ wpc[w] = "sem_wait"
          /\ UNCHANGED <<list, head, tail, wsize, wloc, fpc, cursor, piece0, piece1>>
      BY <1>6, <2>2 DEF SemWait
    <3>2. sem[w] - wsize[w] \in Nat
      <4> HIDE DEF SpaceInv, LogTypes, Accounts, WriterKnows, FlushKnows, Claimed, Returning
      <4> QED BY <1>b, <2>2
    <3>3. LogTypes' /\ WriterKnows' /\ FlushKnows'
      BY <3>1, <3>2
    <3>4. Accounts'
      <4>1. \A v \in Writers : Returning(v)' = Returning(v)
        BY <3>1
      <4>2. /\ \A v \in Writers : v # w => Claimed(v)' = Claimed(v)
            /\ Claimed(w) = 0 /\ Claimed(w)' = wsize[w]
        BY <3>1
      <4> HIDE DEF SpaceInv, LogTypes, Accounts, WriterKnows, FlushKnows, Claimed, Returning
      <4> SUFFICES ASSUME NEW v \in Writers
                   PROVE  /\ head'[v] <= tail'[v]
                          /\ sem'[v] + (tail'[v] - head'[v]) + Claimed(v)' + Returning(v)' = Cap
        BY DEF Accounts
      <4>3. CASE v = w
        BY <1>b, <1>c, <1>d, <3>1, <4>1, <4>2, <4>3
      <4>4. CASE v # w
        BY <1>b, <1>c, <1>d, <3>1, <4>1, <4>2, <4>4
      <4> QED BY <4>3, <4>4
    <3> QED BY <3>3, <3>4
  <2>3. CASE wsize[w] # 0 /\ ~(sem[w] >= wsize[w])
    BY <1>6, <2>3 DEF SemWait
  <2> QED BY <2>1, <2>2, <2>3
<1>7. CASE LoadHead(w)
  <2>1. tail[w] - head[w] + wsize[w] <= Cap
    BY <1>7 DEF LoadHead
  <2> QED BY <1>7, <2>1 DEF LoadHead
<1>8. CASE MultiPush(w)
  <2>1. wpc[w] = "push" /\ tail[w] - wloc[w] + wsize[w] <= Cap
    BY <1>8 DEF MultiPush
  <2>2. ~(tail[w] - wloc[w] + wsize[w] > Cap)
    BY <1>b, <2>1
  <2>3. /\ tail' = [tail EXCEPT ![w] = @ + wsize[w]]
        /\ wpc' = [wpc EXCEPT ![w] = "idle"]
        /\ wloc' = [wloc EXCEPT ![w] = 0] /\ wsize' = [wsize EXCEPT ![w] = 0]
        /\ UNCHANGED <<list, head, sem, fpc, cursor, piece0, piece1>>
    BY <1>8, <2>2 DEF MultiPush
  <2>4. \A v \in Writers : tail'[v] \in Nat /\ tail[v] <= tail'[v]
    <3>1. tail \in [Writers -> Nat] /\ wsize[w] \in Nat
      BY <1>a DEF LogTypes
    <3> HIDE DEF SpaceInv, LogTypes, WriterKnows, FlushKnows, Accounts, Claimed, Returning
    <3> QED BY <2>3, <3>1
  <2>5. LogTypes'
    <3> HIDE DEF WriterKnows, FlushKnows, Accounts
    <3> QED BY <2>3, <2>4
  <2>6. Accounts'
    <3>1. \A v \in Writers : Returning(v)' = Returning(v)
      BY <2>3
    <3>2. /\ \A v \in Writers : v # w => Claimed(v)' = Claimed(v)
          /\ Claimed(w) = wsize[w] /\ Claimed(w)' = 0
      BY <2>1, <2>3
    <3> HIDE DEF SpaceInv, LogTypes, Accounts, WriterKnows, FlushKnows, Claimed, Returning
    <3> SUFFICES ASSUME NEW v \in Writers
                 PROVE  /\ head'[v] <= tail'[v]
                        /\ sem'[v] + (tail'[v] - head'[v]) + Claimed(v)' + Returning(v)' = Cap
      BY DEF Accounts
    <3>3. CASE v = w
      BY <1>b, <1>c, <1>d, <2>3, <3>1, <3>2, <3>3
    <3>4. CASE v # w
      BY <1>b, <1>c, <1>d, <2>3, <3>1, <3>2, <3>4
    <3> QED BY <3>3, <3>4
  <2>7. WriterKnows'
    BY <2>3
  <2>8. FlushKnows'
    <3> HIDE DEF SpaceInv, LogTypes, WriterKnows, Accounts
    <3>1. cursor # <<>> => Head(cursor) \in Writers
      BY <1>a, VisitedType
    <3> DEFINE u == Head(cursor)
    <3>2. CASE fpc \notin {"peek_1", "write", "pop"}
      BY <1>a, <2>3, <3>2
    <3>3. CASE fpc \in {"peek_1", "write", "pop"}
      <4>1. u \in Writers
        BY <1>a, <3>1, <3>3
      <4>2. tail[u] - head[u] <= tail'[u] - head'[u] /\ head'[u] = head[u]
        <5> HIDE DEF u, FlushKnows
        <5> QED BY <1>b, <2>3, <2>4, <4>1
      <4>3. /\ piece0.num \in Nat /\ piece1.num \in Nat /\ tail[u] - head[u] \in Int
            /\ tail'[u] - head'[u] \in Int
        <5> HIDE DEF u, FlushKnows
        <5> QED BY <1>b, <2>3, <2>4, <4>1
      <4> QED BY <1>a, <2>3, <3>3, <4>2, <4>3
    <3> QED BY <3>2, <3>3
  <2> QED BY <2>5, <2>6, <2>7, <2>8
<1>9. CASE SpuriousWakeup(w)
  BY <1>9 DEF SpuriousWakeup
<1> QED BY <1>1, <1>2, <1>3, <1>4, <1>5, <1>6, <1>7, <1>8, <1>9 DEF WriterStep

(* Every step of the flush thread keeps the invariant. *)
LEMMA FlushKeepsSpaceInv ==
    ASSUME SpaceInv, FlushStep \/ FlushSpuriousWakeup
    PROVE  SpaceInv'
<1>a. LogTypes /\ Accounts /\ WriterKnows /\ FlushKnows
  BY DEF SpaceInv
<1>b. ASSUME NEW v \in Writers
      PROVE  /\ head[v] \in Nat /\ tail[v] \in Nat /\ sem[v] \in Nat /\ wsize[v] \in Nat
             /\ wloc[v] \in Nat /\ piece0.num \in Nat /\ piece1.num \in Nat
             /\ Claimed(v) \in Nat /\ Returning(v) \in Nat
             /\ head[v] <= tail[v] /\ tail[v] <= head[v] + Cap
  BY <1>a, AccountTypes
<1>c. ASSUME NEW v \in Writers
      PROVE  sem[v] + (tail[v] - head[v]) + Claimed(v) + Returning(v) = Cap
  BY <1>a DEF Accounts
<1>d. /\ head \in [Writers -> Nat] /\ tail \in [Writers -> Nat] /\ sem \in [Writers -> Nat]
      /\ wpc \in [Writers -> WriterPC] /\ wsize \in [Writers -> Nat]
  BY <1>a DEF LogTypes
<1> USE CapAssumption
        DEF SpaceInv, LogTypes, Accounts, WriterKnows, FlushKnows, Claimed, Returning,
            WriterPC, buffers, callers, pass, config, control
<1>1. CASE FlushStart
  BY <1>1 DEF FlushStart
<1>2. CASE FlushTest
  BY <1>2 DEF FlushTest
<1>3. CASE FlushWait
  BY <1>3 DEF FlushWait
<1>4. CASE FlushTimeout
  BY <1>4 DEF FlushTimeout
<1>5. CASE FlushReadConfig
  BY <1>5 DEF FlushReadConfig
<1>6. CASE FlushOpen
  BY <1>6 DEF FlushOpen
<1>7. CASE FlushClose
  BY <1>7 DEF FlushClose
<1>8. CASE FlushPeek0
  <2> DEFINE w == Head(cursor)
  <2>1. w \in Writers
    BY <1>8, VisitedType DEF FlushPeek0
  <2> HIDE DEF w
  <2>2. head[w] \in Nat /\ tail[w] \in Nat /\ head[w] <= tail[w] /\ tail[w] <= head[w] + Cap
    BY <2>1, AccountTypes
  <2>3. /\ peek_0(head[w], tail[w]) \in [off : Nat, num : Nat]
        /\ peek_0(head[w], tail[w]).num <= tail[w] - head[w]
        /\ peek_0(head[w], tail[w]).num <= Cap - Masked(head[w])
    BY <2>2, PieceTypes
  <2>4. /\ piece0' = peek_0(head[w], tail[w]) /\ fpc' = "peek_1" /\ fpc = "peek_0"
        /\ cursor # <<>>
        /\ UNCHANGED <<list, cursor, piece1, head, tail, sem, wpc, wsize, wloc>>
    BY <1>8 DEF FlushPeek0, w
  <2> QED BY <2>3, <2>4 DEF w
<1>9. CASE FlushPeek1
  <2> DEFINE w == Head(cursor)
             p == peek_1(head[w], tail[w])
  <2>1. w \in Writers /\ Tail(cursor) \in Seq(Writers)
    BY <1>9, VisitedType DEF FlushPeek1
  <2>a. /\ fpc = "peek_1" /\ cursor # <<>>
        /\ UNCHANGED <<list, head, tail, sem, wpc, wsize, wloc>>
    BY <1>9 DEF FlushPeek1
  <2>b. piece0.num <= tail[w] - head[w] /\ piece0.num <= Cap - Masked(head[w])
    BY <2>a
  <2>c. IF piece0.num + p.num > 0
        THEN piece1' = p /\ fpc' = "write" /\ UNCHANGED <<cursor, piece0>>
        ELSE cursor' = Tail(cursor) /\ fpc' = "peek_0" /\ UNCHANGED <<piece0, piece1>>
    BY <1>9 DEF FlushPeek1
  <2>2. p \in [off : Nat, num : Nat] /\ piece0.num + p.num <= tail[w] - head[w]
    <3> HIDE DEF w
    <3>1. head[w] \in Nat /\ tail[w] \in Nat /\ head[w] <= tail[w] /\ tail[w] <= head[w] + Cap
      BY <2>1, AccountTypes
    <3>2. piece0.num \in Nat
      OBVIOUS
    <3> QED BY <2>b, <3>1, <3>2, PieceTypes
  <2> HIDE DEF p
  <2>3. CASE piece0.num + p.num > 0
    BY <2>a, <2>c, <2>2, <2>3
  <2>4. CASE ~(piece0.num + p.num > 0)
    BY <2>1, <2>a, <2>c, <2>4
  <2> QED BY <2>3, <2>4
<1>10. CASE FlushWrite
  BY <1>10 DEF FlushWrite
<1>11. CASE FlushPop
  <2> DEFINE num == piece0.num + piece1.num
  <2>0. cursor # <<>> /\ fpc = "pop" /\ Head(cursor) \in Writers
    BY <1>11, VisitedType DEF FlushPop
  <2>1. PICK w \in Writers : w = Head(cursor)
    BY <2>0
  <2>2. num \in Nat /\ num <= tail[w] - head[w] /\ ~(tail[w] - head[w] < num)
    <3>1. num <= tail[w] - head[w]
      BY <2>0, <2>1
    <3> HIDE DEF SpaceInv, LogTypes, Accounts, WriterKnows, FlushKnows, Claimed, Returning
    <3> QED BY <1>b, <2>0, <2>1, <3>1
  <2>3. /\ head' = [head EXCEPT ![w] = @ + num] /\ fpc' = "signal"
        /\ UNCHANGED <<list, cursor, piece0, piece1, tail, sem, wpc, wsize, wloc>>
    BY <1>11, <2>0, <2>1, <2>2 DEF FlushPop
  <2>4. \A v \in Writers : v # w => Returning(v)' = 0 /\ Returning(v) = 0
    BY <2>0, <2>1, <2>3
  <2>5. Returning(w)' = num /\ Returning(w) = 0
    BY <2>0, <2>1, <2>3
  <2>6. \A v \in Writers : Claimed(v)' = Claimed(v)
    BY <2>3
  <2>7. FlushKnows'
    BY <2>0, <2>1, <2>3
  <2> HIDE DEF num, SpaceInv, LogTypes, Accounts, WriterKnows, FlushKnows, Claimed, Returning
  <2>8. Accounts'
    <3> SUFFICES ASSUME NEW v \in Writers
                 PROVE  /\ head'[v] <= tail'[v]
                        /\ sem'[v] + (tail'[v] - head'[v]) + Claimed(v)' + Returning(v)' = Cap
      BY DEF Accounts
    <3>1. CASE v = w
      BY <1>b, <1>c, <1>d, <2>2, <2>3, <2>5, <2>6, <3>1
    <3>2. CASE v # w
      BY <1>b, <1>c, <1>d, <2>3, <2>4, <2>6, <3>2
    <3> QED BY <3>1, <3>2
  <2>9. head' \in [Writers -> Nat]
    BY <1>b, <1>d, <2>0, <2>1, <2>2, <2>3
  <2>10. LogTypes'
    BY <1>a, <2>3, <2>9 DEF LogTypes
  <2>11. WriterKnows'
    BY <1>a, <2>3 DEF WriterKnows
  <2> QED BY <2>7, <2>8, <2>10, <2>11 DEF SpaceInv
<1>12. CASE FlushSignal
  <2> DEFINE num == piece0.num + piece1.num
  <2>0. Head(cursor) \in Writers /\ Tail(cursor) \in Seq(Writers) /\ fpc = "signal"
    BY <1>12, VisitedType DEF FlushSignal
  <2>1. PICK w \in Writers : w = Head(cursor)
    BY <2>0
  <2>2. num \in Nat /\ piece0.num \in Nat /\ piece1.num \in Nat /\ sem[w] \in Nat
    <3>1. piece0.num \in Nat /\ piece1.num \in Nat /\ sem[w] \in Nat
      BY <1>b, <2>1
    <3> HIDE DEF SpaceInv, LogTypes, Accounts, WriterKnows, FlushKnows, Claimed, Returning
    <3> QED BY <3>1
  <2>3. /\ sem' = [sem EXCEPT ![w] = @ + piece0.num + piece1.num]
        /\ wpc' = [wpc EXCEPT ![w] = IF @ = "asleep" THEN "sem_wait" ELSE @]
        /\ cursor' = Tail(cursor) /\ piece0' = NoPiece /\ piece1' = NoPiece
        /\ fpc' = "peek_0"
        /\ UNCHANGED <<list, head, tail, wsize, wloc>>
    BY <1>12, <2>0, <2>1 DEF FlushSignal
  <2>4. sem'[w] = sem[w] + num /\ \A v \in Writers : v # w => sem'[v] = sem[v]
    <3> HIDE DEF SpaceInv, LogTypes, Accounts, WriterKnows, FlushKnows, Claimed, Returning
    <3>1. sem'[w] = sem[w] + piece0.num + piece1.num
      BY <1>d, <2>3
    <3>2. \A v \in Writers : v # w => sem'[v] = sem[v]
      BY <1>d, <2>3
    <3> QED BY <2>2, <3>1, <3>2
  <2>5. \A v \in Writers : v # w => Returning(v)' = 0 /\ Returning(v) = 0
    BY <2>0, <2>1, <2>3
  <2>6. Returning(w)' = 0 /\ Returning(w) = num
    BY <2>0, <2>1, <2>3
  <2>7. \A v \in Writers : Claimed(v)' = Claimed(v)
    BY <2>3
  <2>8. FlushKnows' /\ WriterKnows'
    BY <2>0, <2>1, <2>3
  <2> HIDE DEF num, SpaceInv, LogTypes, Accounts, WriterKnows, FlushKnows, Claimed, Returning
  <2>9. Accounts'
    <3> SUFFICES ASSUME NEW v \in Writers
                 PROVE  /\ head'[v] <= tail'[v]
                        /\ sem'[v] + (tail'[v] - head'[v]) + Claimed(v)' + Returning(v)' = Cap
      BY DEF Accounts
    <3>1. CASE v = w
      <4>1. /\ head[w] \in Nat /\ tail[w] \in Nat /\ Claimed(w) \in Nat /\ head[w] <= tail[w]
            /\ sem[w] + (tail[w] - head[w]) + Claimed(w) + num = Cap
        BY <1>b, <1>c, <2>6
      <4>2. head'[w] = head[w] /\ tail'[w] = tail[w] /\ Claimed(w)' = Claimed(w)
        BY <2>3, <2>7
      <4> QED BY <2>2, <2>4, <2>6, <3>1, <4>1, <4>2
    <3>2. CASE v # w
      BY <1>b, <1>c, <2>3, <2>4, <2>5, <2>7, <3>2
    <3> QED BY <3>1, <3>2
  <2>10. LogTypes'
    <3>1. NoPiece \in [off : Nat, num : Nat]
      BY DEF NoPiece, Piece
    <3>2. sem' \in [Writers -> Nat]
      <4>1. \A v \in Writers : sem'[v] \in Nat
        <5> TAKE v \in Writers
        <5>1. sem[v] \in Nat
          BY <1>d
        <5> QED BY <2>2, <2>4, <5>1
      <4>2. DOMAIN sem' = Writers /\ sem' = [v \in Writers |-> sem'[v]]
        BY <1>d, <2>3
      <4> QED BY <4>1, <4>2
    <3> QED BY <1>a, <2>0, <2>3, <3>1, <3>2 DEF LogTypes, WriterPC
  <2> QED BY <2>8, <2>9, <2>10 DEF SpaceInv
<1>13. CASE FlushSpuriousWakeup
  BY <1>13 DEF FlushSpuriousWakeup
<1> QED BY <1>1, <1>2, <1>3, <1>4, <1>5, <1>6, <1>7, <1>8, <1>9, <1>10, <1>11,
           <1>12, <1>13 DEF FlushStep
-----------------------------------------------------------------------------
(* The accounts hold in every reachable state. *)
THEOREM SpaceInvInvariant == Spec => []SpaceInv
<1>1. Init => SpaceInv
  BY CapAssumption
     DEF Init, SpaceInv, LogTypes, Accounts, WriterKnows, FlushKnows, Claimed, Returning,
         WriterPC, NoPiece, Piece
<1>2. SpaceInv /\ [Next]_vars => SpaceInv'
  <2> SUFFICES ASSUME SpaceInv, [Next]_vars PROVE SpaceInv'
    OBVIOUS
  <2> USE DEF SpaceInv, LogTypes, Accounts, WriterKnows, FlushKnows, Claimed, Returning,
              buffers, callers, pass, config, control
  <2>1. ASSUME NEW t \in Timeouts, log_set_flush_timeout(t) PROVE SpaceInv'
    BY <2>1 DEF log_set_flush_timeout
  <2>2. CASE QuitSetFlag
    BY <2>2 DEF QuitSetFlag
  <2>3. CASE QuitWakeup
    BY <2>3 DEF QuitWakeup, SignalFlush
  <2>4. CASE QuitJoin
    BY <2>4 DEF QuitJoin
  <2>5. CASE UNCHANGED vars
    BY <2>5 DEF vars
  <2> QED BY <2>1, <2>2, <2>3, <2>4, <2>5, WriterKeepsSpaceInv, FlushKeepsSpaceInv
          DEF Next, QuitStep, Returned
<1> QED BY <1>1, <1>2, PTL DEF Spec

(* For any number of writers, any capacity and any message sizes, the      *)
(* semaphore and the queue of a buffer agree, so neither the multi_push    *)
(* nor the multi_pop whose results log.c ignores is ever refused.          *)
THEOREM SpaceIsAccounted == Spec => []SpaceAccounted
<1>1. SpaceInv => SpaceAccounted
  BY DEF SpaceInv, LogTypes, Accounts, WriterKnows, FlushKnows, SpaceAccounted
<1> QED BY <1>1, SpaceInvInvariant, PTL
-----------------------------------------------------------------------------
(* The file *)

(* The types of what ends up in the file *)
FileTypes ==
    /\ data \in [Writers -> [0 .. Cap - 1 -> Int]]
    /\ sent \in [Writers -> Nat]
    /\ file \in Seq(Writers \X Int)

(* A byte's number is its index in the queue, and it lies where the queue  *)
(* says.                                                                   *)
Contents ==
    \A w \in Writers :
        /\ sent[w] = tail[w]
        /\ \A k \in head[w] .. tail[w] - 1 : data[w][Masked(k)] = k

(* The first piece starts at the head of the queue, and the second goes on *)
(* where it ends, unless it was torn off.                                  *)
PiecesFollow ==
    LET w == Head(cursor)
    IN  /\ fpc \in {"peek_1", "write"} =>
              \A i \in 0 .. piece0.num - 1 : Masked(head[w] + i) = piece0.off + i
        /\ fpc = "write" =>
              /\ piece1.off + piece1.num <= Cap
              /\ ~torn => \A i \in 0 .. piece1.num - 1 :
                             Masked(head[w] + piece0.num + i) = piece1.off + i

(* As many bytes of a buffer are in the file as were popped or are about   *)
(* to be.                                                                  *)
Popping(w) == IF fpc = "pop" /\ Head(cursor) = w THEN piece0.num + piece1.num ELSE 0
FileCounts == \A w \in Writers : Cardinality(FromWriter(w)) = head[w] + Popping(w)

FileInv == FileTypes /\ Contents /\ PiecesFollow /\ FileCounts /\ InOrderUnlessTorn
-----------------------------------------------------------------------------
(* log_quit *)

(* A buffer with anything in it, and one that is about to be used, is in   *)
(* the list until log_quit frees it.                                       *)
BuffersLinked ==
    qpc # "returned" => \A w \in Writers :
        \/ tail[w] > 0
        \/ wpc[w] \in {"check_free", "wakeup", "sem_wait", "asleep", "load_head", "push"}
        => Linked(w)

(* The last pass comes after the last call of a writer, and log_quit       *)
(* returns after the last pass.                                            *)
Phases ==
    /\ can_terminate => qpc # "running"
    /\ final => can_terminate
    /\ qpc # "running" => \A w \in Writers : wpc[w] = "idle"
    /\ qpc = "returned" => fpc = "done"
    /\ fpc = "done" => final /\ cursor = <<>>

(* In the last pass every buffer is empty or yet to be visited, and a      *)
(* visit takes all there is.                                               *)
Visiting == {"peek_0", "peek_1", "write", "pop", "signal", "done"}
ToVisit(w) == \E i \in 1 .. Len(cursor) : cursor[i] = w
Drains ==
    final /\ fpc \in Visiting =>
        LET u == Head(cursor)
        IN  /\ \A w \in Writers : head[w] = tail[w] \/ ToVisit(w)
            /\ fpc = "peek_1" => piece0 = peek_0(head[u], tail[u])
            /\ fpc \in {"write", "pop"} => piece0.num + piece1.num = tail[u] - head[u]
            /\ fpc = "signal" => head[u] = tail[u]

QuitInv == BuffersLinked /\ Phases /\ Drains
-----------------------------------------------------------------------------
(* The places of writer v in a file *)
PlacesOf(f, v) == {i \in 1 .. Len(f) : f[i][1] = v}

(* What n bytes of writer w behind file f do to the places of the writers *)
PlacesGrow(f, g, n, w) ==
    /\ Cardinality(PlacesOf(f, w)) \in Nat
    /\ Cardinality(PlacesOf(g, w)) = Cardinality(PlacesOf(f, w)) + n
    /\ \A k \in 1 .. n :
          Cardinality({j \in PlacesOf(g, w) : j < Len(f) + k})
             = Cardinality(PlacesOf(f, w)) + k - 1
    /\ \A v \in Writers : v # w => PlacesOf(g, v) = PlacesOf(f, v)
    /\ \A v \in Writers : \A i \in 1 .. Len(f) :
          {j \in PlacesOf(g, v) : j < i} = {j \in PlacesOf(f, v) : j < i}

(* A file g that is f and n bytes of writer w has them at its end. *)
LEMMA AppendedPlaces ==
    ASSUME NEW f, NEW g, Len(f) \in Nat, NEW n \in Nat, NEW w,
           Len(g) = Len(f) + n,
           \A i \in 1 .. Len(f) : g[i] = f[i],
           \A k \in 1 .. n : g[Len(f) + k][1] = w
    PROVE  PlacesGrow(f, g, n, w)
<1> DEFINE l == Len(f)
           F == PlacesOf(f, w)
<1>0. l \in Nat
  OBVIOUS
<1>1. F \subseteq 1 .. l /\ IsFiniteSet(F) /\ Cardinality(F) \in Nat
  <2>1. F \subseteq 1 .. l
    BY DEF PlacesOf
  <2>2. IsFiniteSet(1 .. l)
    <3> HIDE DEF l
    <3>1. 1 \in Int /\ l \in Int
      BY <1>0
    <3> QED BY <3>1, FS_Interval, Zenon
  <2> HIDE DEF F, l
  <2> QED BY <2>1, <2>2, FS_Subset, FS_CardinalityType
<1>2. ASSUME NEW k \in 0 .. n
      PROVE  Cardinality(F \cup (l + 1 .. l + k)) = Cardinality(F) + k
  <2> DEFINE T == l + 1 .. l + k
  <2>1. IsFiniteSet(T) /\ Cardinality(T) = k
    <3>1. PICK a \in Int, b \in Int : a = l + 1 /\ b = l + k
      BY <1>0
    <3>2. IsFiniteSet(a .. b) /\ Cardinality(a .. b) = IF a > b THEN 0 ELSE b - a + 1
      BY FS_Interval
    <3> QED BY <1>0, <3>1, <3>2
  <2>2. F \cap T = {}
    BY <1>0, <1>1
  <2> HIDE DEF F, l, T
  <2>3. Cardinality(F \cup T) = Cardinality(F) + Cardinality(T) - Cardinality(F \cap T)
    BY <1>1, <2>1, FS_Union
  <2>4. Cardinality(F \cap T) = 0
    BY <2>2, FS_EmptySet
  <2>5. Cardinality(F \cup T) = Cardinality(F) + k
    <3>1. Cardinality(F) \in Nat /\ k \in Nat
      BY <1>1
    <3> QED BY <2>1, <2>3, <2>4, <3>1
  <2> QED BY <2>5 DEF T
<1>3. \A i \in 1 .. l + n : (g[i] = f[i] /\ i <= l) \/ (g[i][1] = w /\ i > l)
  <2> SUFFICES ASSUME NEW i \in 1 .. l + n PROVE (g[i] = f[i] /\ i <= l) \/ (g[i][1] = w /\ i > l)
    OBVIOUS
  <2>1. CASE i <= l
    BY <2>1
  <2>2. CASE i > l
    <3>1. i - l \in 1 .. n /\ l + (i - l) = i
      BY <1>0, <2>2
    <3> QED BY <2>2, <3>1
  <2> QED BY <1>0, <2>1, <2>2
<1>4. PlacesOf(g, w) = F \cup (l + 1 .. l + n)
  BY <1>0, <1>3 DEF PlacesOf
<1>5. Cardinality(PlacesOf(g, w)) = Cardinality(F) + n
  <2>1. n \in 0 .. n
    OBVIOUS
  <2> QED BY <1>2, <1>4, <2>1
<1>6. ASSUME NEW k \in 1 .. n
      PROVE  Cardinality({j \in PlacesOf(g, w) : j < l + k}) = Cardinality(F) + k - 1
  <2>1. {j \in PlacesOf(g, w) : j < l + k} = F \cup (l + 1 .. l + (k - 1))
    <3>1. F \subseteq 1 .. l
      BY <1>1
    <3> HIDE DEF F, l
    <3>2. ASSUME NEW j \in PlacesOf(g, w), j < l + k PROVE j \in F \cup (l + 1 .. l + (k - 1))
      BY <1>0, <1>4, <3>2
    <3>3. ASSUME NEW j \in F PROVE j \in PlacesOf(g, w) /\ j < l + k
      BY <1>0, <1>4, <3>1
    <3>4. ASSUME NEW j \in l + 1 .. l + (k - 1) PROVE j \in PlacesOf(g, w) /\ j < l + k
      BY <1>0, <1>4
    <3> QED BY <3>2, <3>3, <3>4
  <2>2. k - 1 \in 0 .. n
    OBVIOUS
  <2>3. Cardinality(F \cup (l + 1 .. l + (k - 1))) = Cardinality(F) + (k - 1)
    BY <1>2, <2>2
  <2> HIDE DEF F, l
  <2> QED BY <1>1, <2>1, <2>3
<1>7. ASSUME NEW v \in Writers, v # w PROVE PlacesOf(g, v) = PlacesOf(f, v)
  BY <1>0, <1>3, <1>7 DEF PlacesOf
<1>8. ASSUME NEW v \in Writers, NEW i \in 1 .. l
      PROVE  {j \in PlacesOf(g, v) : j < i} = {j \in PlacesOf(f, v) : j < i}
  BY <1>0, <1>3 DEF PlacesOf
<1> QED BY <1>1, <1>5, <1>6, <1>7, <1>8 DEF PlacesGrow

(* A step that leaves the file and the buffers alone, and the flush thread *)
(* where it is or away from its pieces, keeps what is known of the file.   *)
LEMMA QuietKeepsFileInv ==
    ASSUME FileInv, UNCHANGED <<data, sent, file, tail, head, torn>>,
           \/ UNCHANGED <<fpc, cursor, piece0, piece1>>
           \/ fpc # "pop" /\ fpc' \notin {"peek_1", "write", "pop"}
    PROVE  FileInv'
<1>1. FileTypes' /\ Contents'
  BY DEF FileInv, FileTypes, Contents
<1>2. \A w \in Writers : FromWriter(w)' = FromWriter(w)
  BY DEF FromWriter
<1>3. InOrderUnlessTorn'
  BY <1>2 DEF FileInv, InOrderUnlessTorn, FileInOrder
<1>4. PiecesFollow'
  BY DEF FileInv, PiecesFollow
<1>5. FileCounts'
  <2>1. \A w \in Writers : Popping(w)' = Popping(w)
    BY DEF Popping
  <2> QED BY <1>2, <2>1 DEF FileInv, FileCounts
<1> QED BY <1>1, <1>3, <1>4, <1>5 DEF FileInv

(* A push numbers its bytes by their places in the queue. *)
LEMMA PushKeepsFileInv ==
    ASSUME SpaceInv, FileInv, NEW w \in Writers, MultiPush(w)
    PROVE  FileInv'
<1>1. /\ head[w] \in Nat /\ tail[w] \in Nat /\ sem[w] \in Nat /\ wsize[w] \in Nat
      /\ head[w] <= tail[w] /\ wpc[w] = "push" /\ sent[w] = tail[w]
      /\ tail[w] - wloc[w] + wsize[w] <= Cap /\ wloc[w] \in Nat
  BY AccountTypes DEF SpaceInv, WriterKnows, MultiPush, FileInv, Contents
<1>2. tail[w] + wsize[w] <= head[w] + Cap
  <2>1. /\ sem[w] + (tail[w] - head[w]) + Claimed(w) + Returning(w) = Cap
        /\ Returning(w) \in Nat /\ Claimed(w) = wsize[w]
    BY <1>1, AccountTypes DEF SpaceInv, Accounts, Claimed
  <2> QED BY <1>1, <2>1, CapAssumption
<1>3. /\ data' = [data EXCEPT ![w] = Stored(w)]
      /\ tail' = [tail EXCEPT ![w] = @ + wsize[w]]
      /\ sent' = [sent EXCEPT ![w] = @ + wsize[w]]
      /\ UNCHANGED <<head, fpc, cursor, piece0, piece1, file, torn>>
  <2>1. ~(tail[w] - wloc[w] + wsize[w] > Cap)
    BY <1>1, CapAssumption
  <2> QED BY <2>1 DEF MultiPush, pass
<1>4. /\ data \in [Writers -> [0 .. Cap - 1 -> Int]] /\ sent \in [Writers -> Nat]
      /\ tail \in [Writers -> Nat] /\ file \in Seq(Writers \X Int)
  BY DEF FileInv, FileTypes, SpaceInv, LogTypes
<1>5. ASSUME NEW k \in 0 .. Cap - 1
      PROVE  Stored(w)[Masked(tail[w] + k)]
                = IF k < wsize[w] THEN tail[w] + k ELSE data[w][Masked(tail[w] + k)]
  <2> DEFINE i == Masked(tail[w] + k)
             at == CHOOSE m \in 0 .. Cap - 1 : Masked(tail[w] + m) = i
  <2>1. i \in 0 .. Cap - 1
    BY <1>1, MaskedType, CapAssumption
  <2>2. at \in 0 .. Cap - 1 /\ Masked(tail[w] + at) = i
    OBVIOUS
  <2>3. at = k
    <3> HIDE DEF at
    <3>1. SUFFICES ASSUME at # k PROVE FALSE
      OBVIOUS
    <3>2. /\ tail[w] + at \in Nat /\ tail[w] + k \in Nat /\ tail[w] + at # tail[w] + k
          /\ (tail[w] + at) - (tail[w] + k) < Cap /\ (tail[w] + k) - (tail[w] + at) < Cap
      BY <1>1, <2>2, <3>1, CapAssumption
    <3> QED BY <2>2, <3>2, MaskedInjective
  <2>4. Stored(w)[i] = IF at < wsize[w] THEN sent[w] + at ELSE data[w][i]
    BY <2>1 DEF Stored
  <2> HIDE DEF at, i
  <2>5. Stored(w)[i] = IF k < wsize[w] THEN tail[w] + k ELSE data[w][i]
    BY <1>1, <2>3, <2>4
  <2> QED BY <2>5 DEF i
<1>6. Stored(w) \in [0 .. Cap - 1 -> Int]
  <2> SUFFICES ASSUME NEW i \in 0 .. Cap - 1
               PROVE  LET at == CHOOSE m \in 0 .. Cap - 1 : Masked(tail[w] + m) = i
                      IN  (IF at < wsize[w] THEN sent[w] + at ELSE data[w][i]) \in Int
    BY DEF Stored
  <2> DEFINE at == CHOOSE m \in 0 .. Cap - 1 : Masked(tail[w] + m) = i
  <2>1. \E m \in 0 .. Cap - 1 : Masked(tail[w] + m) = i
    <3> DEFINE r == Masked(tail[w])
    <3>1. r \in 0 .. Cap - 1
      BY <1>1, MaskedType
    <3> HIDE DEF r
    <3>2. CASE i >= r
      <4>1. PICK m \in 0 .. Cap - 1 : m = i - r
        BY <3>1, <3>2, CapAssumption
      <4>2. m \in 0 .. Cap /\ r + m = i /\ r + m < Cap
        BY <3>1, <4>1, CapAssumption
      <4>3. Masked(tail[w] + m) = i
        BY <1>1, <4>2, MaskedSum DEF r
      <4> QED BY <4>3
    <3>3. CASE i < r
      <4>1. PICK m \in 0 .. Cap - 1 : m = i - r + Cap
        BY <3>1, <3>3, CapAssumption
      <4>2. m \in 0 .. Cap /\ r + m - Cap = i /\ ~(r + m < Cap)
        BY <3>1, <4>1, CapAssumption
      <4>3. Masked(tail[w] + m) = i
        BY <1>1, <4>2, MaskedSum DEF r
      <4> QED BY <4>3
    <3> QED BY <3>1, <3>2, <3>3
  <2>2. at \in 0 .. Cap - 1
    BY <2>1
  <2>3. sent[w] \in Nat /\ data[w][i] \in Int
    BY <1>4
  <2> HIDE DEF at
  <2>4. (IF at < wsize[w] THEN sent[w] + at ELSE data[w][i]) \in Int
    BY <2>2, <2>3
  <2> QED BY <2>4 DEF at
<1>7. FileTypes'
  BY <1>1, <1>3, <1>4, <1>6 DEF FileTypes
<1>8. Contents'
  <2> SUFFICES ASSUME NEW v \in Writers
               PROVE  /\ sent'[v] = tail'[v]
                      /\ \A k \in head'[v] .. tail'[v] - 1 : data'[v][Masked(k)] = k
    BY DEF Contents
  <2>1. CASE v # w
    <3>1. sent'[v] = sent[v] /\ tail'[v] = tail[v] /\ head'[v] = head[v] /\ data'[v] = data[v]
      BY <1>3, <1>4, <2>1
    <3> QED BY <3>1 DEF FileInv, Contents
  <2>2. CASE v = w
    <3>1. /\ sent'[w] = tail[w] + wsize[w] /\ tail'[w] = tail[w] + wsize[w]
          /\ head'[w] = head[w] /\ data'[w] = Stored(w)
      BY <1>1, <1>3, <1>4
    <3>2. ASSUME NEW k \in head[w] .. tail[w] + wsize[w] - 1 PROVE Stored(w)[Masked(k)] = k
      <4>1. CASE k >= tail[w]
        <5>1. k - tail[w] \in 0 .. Cap - 1 /\ k - tail[w] < wsize[w] /\ tail[w] + (k - tail[w]) = k
          BY <1>1, <1>2, <4>1, CapAssumption
        <5> QED BY <1>5, <5>1
      <4>2. CASE k < tail[w]
        <5> DEFINE m == k + Cap - tail[w]
        <5>1. m \in 0 .. Cap - 1 /\ ~(m < wsize[w]) /\ tail[w] + m = k + Cap /\ k \in Nat
          BY <1>1, <1>2, <4>2, CapAssumption
        <5>2. Masked(k + Cap) = Masked(k)
          <6>1. Masked(k) \in 0 .. Cap - 1 /\ Cap \in 0 .. Cap
            BY <5>1, MaskedType, CapAssumption
          <6>2. Masked(k + Cap) = IF Masked(k) + Cap < Cap THEN Masked(k) + Cap
                                  ELSE Masked(k) + Cap - Cap
            BY <5>1, <6>1, MaskedSum
          <6> QED BY <6>1, <6>2, CapAssumption
        <5> HIDE DEF m
        <5>3. Stored(w)[Masked(k)] = data[w][Masked(k)]
          BY <1>5, <5>1, <5>2
        <5>4. k \in head[w] .. tail[w] - 1
          BY <1>1, <4>2
        <5> QED BY <5>3, <5>4 DEF FileInv, Contents
      <4> QED BY <1>1, <4>1, <4>2
    <3>3. \A k \in head[w] .. tail[w] + wsize[w] - 1 : Stored(w)[Masked(k)] = k
      BY <3>2
    <3>4. ASSUME NEW k \in head'[w] .. tail'[w] - 1 PROVE data'[w][Masked(k)] = k
      <4>1. k \in head[w] .. tail[w] + wsize[w] - 1
        BY <1>1, <3>1
      <4>2. Stored(w)[Masked(k)] = k
        BY <3>3, <4>1
      <4> QED BY <3>1, <4>2
    <3> QED BY <2>2, <3>1, <3>4
  <2> QED BY <2>1, <2>2
<1>9. PiecesFollow'
  BY <1>3 DEF FileInv, PiecesFollow
<1>10. \A v \in Writers : FromWriter(v)' = FromWriter(v) /\ Popping(v)' = Popping(v)
  BY <1>3 DEF FromWriter, Popping
<1>11. FileCounts' /\ InOrderUnlessTorn'
  BY <1>3, <1>10 DEF FileInv, FileCounts, InOrderUnlessTorn, FileInOrder
<1> QED BY <1>7, <1>8, <1>9, <1>11 DEF FileInv

(* The first peek: its piece starts at the head. *)
LEMMA FirstPeekKeepsFileInv ==
    ASSUME SpaceInv, FileInv, FlushPeek0
    PROVE  FileInv'
<1>1. PICK u \in Writers : u = Head(cursor)
  BY VisitedType DEF SpaceInv, FlushPeek0
<1>2. /\ piece0' = peek_0(head[u], tail[u]) /\ fpc' = "peek_1" /\ fpc = "peek_0"
      /\ UNCHANGED <<cursor, piece1, file, torn, data, sent, head, tail>>
  BY <1>1 DEF FlushPeek0, buffers, callers
<1>3. head[u] \in Nat /\ tail[u] \in Nat /\ head[u] <= tail[u] /\ tail[u] <= head[u] + Cap
  BY AccountTypes DEF SpaceInv
<1>4. \A i \in 0 .. piece0'.num - 1 : Masked(head[u] + i) = piece0'.off + i
  <2>1. PICK n \in 0 .. Cap : tail[u] = head[u] + n
    <3>1. tail[u] - head[u] \in 0 .. Cap /\ tail[u] = head[u] + (tail[u] - head[u])
      BY <1>3, CapAssumption
    <3> QED BY <3>1
  <2>2. PiecesCover(head[u], n) /\ peek_0(head[u], tail[u]).num \in 0 .. n
    <3>1. peek_0(head[u], tail[u]).num \in 0 .. tail[u] - head[u] /\ tail[u] - head[u] = n
      <4>1. head[u] \in Nat /\ tail[u] \in Nat /\ head[u] <= tail[u] /\ tail[u] <= head[u] + Cap
        BY <1>3, <2>1, CapAssumption
      <4>2. tail[u] - head[u] = n
        BY <2>1, <4>1
      <4> QED BY <4>1, <4>2, FirstPieceBound, Zenon
    <3> QED BY <1>3, <2>1, <3>1, PiecesAlwaysCover
  <2>3. \A i \in 0 .. n - 1 : i < peek_0(head[u], tail[u]).num =>
            Masked(head[u] + i) = peek_0(head[u], tail[u]).off + i
    BY <2>1, <2>2 DEF PiecesCover
  <2> DEFINE a == peek_0(head[u], tail[u])
  <2> HIDE DEF a
  <2>4. \A i \in 0 .. a.num - 1 : Masked(head[u] + i) = a.off + i
    BY <2>2, <2>3 DEF a
  <2> QED BY <1>2, <2>4 DEF a
<1>5. FileTypes' /\ Contents'
  BY <1>2 DEF FileInv, FileTypes, Contents
<1>6. PiecesFollow'
  BY <1>1, <1>2, <1>4 DEF PiecesFollow
<1>7. \A v \in Writers : FromWriter(v)' = FromWriter(v) /\ Popping(v)' = Popping(v)
  BY <1>2 DEF FromWriter, Popping
<1>8. FileCounts' /\ InOrderUnlessTorn'
  BY <1>2, <1>7 DEF FileInv, FileCounts, InOrderUnlessTorn, FileInOrder
<1> QED BY <1>5, <1>6, <1>8 DEF FileInv

(* The second peek: its piece continues the first one, or the step is      *)
(* recorded as torn.                                                       *)
LEMMA SecondPeekKeepsFileInv ==
    ASSUME SpaceInv, FileInv, FlushPeek1
    PROVE  FileInv'
<1>1. PICK u \in Writers : u = Head(cursor)
  BY VisitedType DEF SpaceInv, FlushKnows, FlushPeek1
<1>2. PICK p : p = peek_1(head[u], tail[u])
  OBVIOUS
<1>3. fpc = "peek_1" /\ UNCHANGED <<file, data, sent, head, tail>>
  BY DEF FlushPeek1, buffers, callers
<1>4. CASE piece0.num + p.num > 0
  <2>1. /\ piece1' = p /\ fpc' = "write" /\ UNCHANGED <<cursor, piece0>>
        /\ torn' = (torn \/ (p.num > 0 /\ piece0 # peek_0(head[u], tail[u])))
    BY <1>1, <1>2, <1>4 DEF FlushPeek1
  <2>2. head[u] \in Nat /\ tail[u] \in Nat /\ head[u] <= tail[u] /\ tail[u] <= head[u] + Cap
    BY AccountTypes DEF SpaceInv
  <2>3. PICK n \in 0 .. Cap : tail[u] = head[u] + n
    <3>1. tail[u] - head[u] \in 0 .. Cap /\ tail[u] = head[u] + (tail[u] - head[u])
      BY <2>2, CapAssumption
    <3> QED BY <3>1
  <2>4. p.off = 0 /\ p.num \in 0 .. Cap - 1
    <3>1. Masked(tail[u]) \in 0 .. Cap - 1
      BY <2>2, MaskedType
    <3> QED BY <1>2, <3>1, CapAssumption DEF peek_1, Piece
  <2>5. PICK a : a = peek_0(head[u], tail[u])
    OBVIOUS
  <2>6. /\ a.num \in Nat /\ a.num + p.num = n
        /\ \A i \in 0 .. n - 1 :
              Masked(head[u] + i) = IF i < a.num THEN a.off + i ELSE p.off + (i - a.num)
    <3>1. PiecesCover(head[u], n)
      BY <2>2, PiecesAlwaysCover
    <3>2. a.num \in Nat
      BY <2>2, <2>5, FirstPieceBound
    <3> QED BY <1>2, <2>3, <2>5, <3>1, <3>2 DEF PiecesCover
  <2>7. ASSUME ~torn', NEW i \in 0 .. p.num - 1
        PROVE  Masked(head[u] + piece0.num + i) = p.off + i
    <3>0. p.num > 0
      BY <2>4
    <3>1. piece0 = a
      BY <2>1, <2>5, <2>7, <3>0, Zenon
    <3>2. PICK j \in 0 .. n - 1 : j = a.num + i
      BY <2>4, <2>6
    <3>3. ~(j < a.num) /\ j - a.num = i /\ head[u] + a.num + i = head[u] + j
      BY <2>2, <2>4, <2>6, <3>2
    <3>4. Masked(head[u] + j) = p.off + (j - a.num)
      BY <2>6, <3>3
    <3> QED BY <3>1, <3>3, <3>4
  <2>8. FileTypes' /\ Contents'
    BY <1>3 DEF FileInv, FileTypes, Contents
  <2>9. PiecesFollow'
    <3>1. \A i \in 0 .. piece0.num - 1 : Masked(head[u] + i) = piece0.off + i
      BY <1>1, <1>3 DEF FileInv, PiecesFollow
    <3>2. p.off + p.num <= Cap
      BY <2>4, CapAssumption
    <3>3. head' = head /\ u = Head(cursor') /\ piece1' = p /\ piece0' = piece0
      BY <1>1, <1>3, <2>1
    <3> QED BY <2>7, <3>1, <3>2, <3>3 DEF PiecesFollow
  <2>10. \A v \in Writers : FromWriter(v)' = FromWriter(v) /\ Popping(v)' = Popping(v)
    BY <1>3, <2>1 DEF FromWriter, Popping
  <2>11. FileCounts' /\ InOrderUnlessTorn'
    BY <1>3, <2>1, <2>10 DEF FileInv, FileCounts, InOrderUnlessTorn, FileInOrder
  <2> QED BY <2>8, <2>9, <2>11 DEF FileInv
<1>5. CASE ~(piece0.num + p.num > 0)
  <2>1. fpc' = "peek_0" /\ UNCHANGED torn
    BY <1>1, <1>2, <1>5 DEF FlushPeek1
  <2> QED BY <1>3, <2>1, QuietKeepsFileInv
<1> QED BY <1>4, <1>5

(* A write appends the queued bytes in their order, unless they were torn. *)
LEMMA WriteKeepsFileInv ==
    ASSUME SpaceInv, FileInv, FlushWrite
    PROVE  FileInv'
<1>1. PICK u \in Writers : u = Head(cursor)
  BY VisitedType DEF SpaceInv, FlushKnows, FlushWrite
<1>2. /\ file' = file \o Bytes(u, piece0) \o Bytes(u, piece1)
      /\ fpc = "write" /\ fpc' = "pop"
      /\ UNCHANGED <<cursor, piece0, piece1, torn, data, sent, head, tail>>
  BY <1>1 DEF FlushWrite, buffers, callers
<1>3. PICK n0 \in Nat, n1 \in Nat, h \in Nat, t \in Nat :
         n0 = piece0.num /\ n1 = piece1.num /\ h = head[u] /\ t = tail[u]
  BY AccountTypes DEF SpaceInv
<1>4. /\ piece0.off \in Nat /\ piece1.off \in Nat
      /\ n0 + n1 <= t - h
      /\ \A i \in 0 .. n0 - 1 : Masked(h + i) = piece0.off + i
      /\ piece1.off + n1 <= Cap
      /\ ~torn => \A i \in 0 .. n1 - 1 : Masked(h + n0 + i) = piece1.off + i
  BY <1>1, <1>2, <1>3 DEF SpaceInv, LogTypes, FlushKnows, FileInv, PiecesFollow
<1>5. /\ data[u] \in [0 .. Cap - 1 -> Int]
      /\ \A k \in h .. t - 1 : data[u][Masked(k)] = k
      /\ file \in Seq(Writers \X Int)
  BY <1>3 DEF FileInv, FileTypes, Contents
<1>6. ASSUME NEW i \in 1 .. n0
      PROVE  /\ data[u][piece0.off + i - 1] \in Int
             /\ data[u][piece0.off + i - 1] = h + i - 1
  <2>1. PICK j \in 0 .. n0 - 1 : j = i - 1
    BY <1>3
  <2>2. Masked(h + j) = piece0.off + j /\ h + j \in h .. t - 1
    BY <1>3, <1>4, <2>1
  <2>3. data[u][piece0.off + j] = h + j
    BY <1>5, <2>2
  <2>4. piece0.off + i - 1 = piece0.off + j /\ h + i - 1 = h + j /\ h + j \in Int
    BY <1>3, <1>4, <2>1
  <2> QED BY <2>3, <2>4
<1>7. ASSUME NEW i \in 1 .. n1
      PROVE  /\ data[u][piece1.off + i - 1] \in Int
             /\ ~torn => data[u][piece1.off + i - 1] = h + n0 + i - 1
  <2>1. PICK j \in 0 .. n1 - 1 : j = i - 1
    BY <1>3
  <2>2. piece1.off + i - 1 \in 0 .. Cap - 1
    BY <1>3, <1>4, CapAssumption
  <2>3. data[u][piece1.off + i - 1] \in Int
    BY <1>5, <2>2
  <2>4. ASSUME ~torn PROVE data[u][piece1.off + i - 1] = h + n0 + i - 1
    <3>1. Masked(h + n0 + j) = piece1.off + j /\ h + n0 + j \in h .. t - 1
      BY <1>3, <1>4, <2>1, <2>4
    <3>2. data[u][piece1.off + j] = h + n0 + j
      BY <1>5, <3>1
    <3>3. piece1.off + i - 1 = piece1.off + j /\ h + n0 + i - 1 = h + n0 + j
      BY <1>3, <1>4, <2>1
    <3> QED BY <3>2, <3>3
  <2> QED BY <2>3, <2>4
<1>8. PICK b0, b1 : b0 = Bytes(u, piece0) /\ b1 = Bytes(u, piece1)
  OBVIOUS
<1>9. /\ b0 \in Seq(Writers \X Int) /\ Len(b0) = n0
      /\ \A i \in 1 .. n0 : b0[i][1] = u /\ b0[i][2] = h + i - 1
  <2>1. b0 = [i \in 1 .. n0 |-> <<u, data[u][piece0.off + i - 1]>>]
    BY <1>3, <1>8 DEF Bytes
  <2>2. \A i \in 1 .. n0 : <<u, data[u][piece0.off + i - 1]>> \in Writers \X Int
    BY <1>6
  <2>3. b0 \in [1 .. n0 -> Writers \X Int]
    BY <2>1, <2>2
  <2>4. b0 \in Seq(Writers \X Int) /\ Len(b0) = n0
    BY <2>3
  <2>5. \A i \in 1 .. n0 : b0[i] = <<u, data[u][piece0.off + i - 1]>>
    BY <2>1
  <2>6. \A i \in 1 .. n0 : b0[i][1] = u /\ b0[i][2] = data[u][piece0.off + i - 1]
    BY <2>5
  <2> QED BY <1>6, <2>4, <2>6, Zenon
<1>10. /\ b1 \in Seq(Writers \X Int) /\ Len(b1) = n1
       /\ \A i \in 1 .. n1 : b1[i][1] = u /\ (~torn => b1[i][2] = h + n0 + i - 1)
  <2>1. b1 = [i \in 1 .. n1 |-> <<u, data[u][piece1.off + i - 1]>>]
    BY <1>3, <1>8 DEF Bytes
  <2>2. \A i \in 1 .. n1 : <<u, data[u][piece1.off + i - 1]>> \in Writers \X Int
    BY <1>7
  <2>3. b1 \in [1 .. n1 -> Writers \X Int]
    BY <2>1, <2>2
  <2>4. b1 \in Seq(Writers \X Int) /\ Len(b1) = n1
    BY <2>3
  <2>5. \A i \in 1 .. n1 : b1[i] = <<u, data[u][piece1.off + i - 1]>>
    BY <2>1
  <2>6. \A i \in 1 .. n1 : b1[i][1] = u /\ b1[i][2] = data[u][piece1.off + i - 1]
    BY <2>5
  <2> QED BY <1>7, <2>4, <2>6, Zenon
<1>11. PICK f \in Seq(Writers \X Int), l \in Nat : f = file /\ l = Len(f)
  BY <1>5
<1>12. PICK c : c = f \o b0
  OBVIOUS
<1>13. /\ c \in Seq(Writers \X Int) /\ Len(c) = l + n0
       /\ \A i \in 1 .. l + n0 : c[i] = IF i <= l THEN f[i] ELSE b0[i - l]
  BY <1>9, <1>11, <1>12, ConcatProperties
<1>14. PICK g : g = c \o b1
  OBVIOUS
<1>15. /\ g \in Seq(Writers \X Int) /\ Len(g) = (l + n0) + n1
       /\ \A i \in 1 .. (l + n0) + n1 : g[i] = IF i <= l + n0 THEN c[i] ELSE b1[i - (l + n0)]
  <2>1. /\ g \in Seq(Writers \X Int) /\ Len(g) = Len(c) + Len(b1)
        /\ \A i \in 1 .. Len(c) + Len(b1) : g[i] = IF i <= Len(c) THEN c[i] ELSE b1[i - Len(c)]
    <3>1. c \in Seq(Writers \X Int) /\ b1 \in Seq(Writers \X Int)
      BY <1>10, <1>13
    <3> QED BY <1>14, <3>1, ConcatProperties
  <2>2. Len(c) = l + n0 /\ Len(b1) = n1
    BY <1>10, <1>13
  <2> QED BY <2>1, <2>2
<1>16. file' = g
  BY <1>2, <1>8, <1>11, <1>12, <1>14
<1>17. PICK n \in Nat : n = n0 + n1
  BY <1>3
<1>18. Len(g) = l + n
  BY <1>3, <1>11, <1>15, <1>17
<1>19. ASSUME NEW i \in 1 .. l PROVE g[i] = f[i]
  <2>1. i \in 1 .. (l + n0) + n1 /\ i <= l + n0 /\ i \in 1 .. l + n0 /\ i <= l
    BY <1>3, <1>11
  <2> QED BY <1>13, <1>15, <2>1
<1>20. ASSUME NEW k \in 1 .. n
       PROVE  g[l + k][1] = u /\ (~torn => g[l + k][2] = h + k - 1)
  <2>1. CASE k <= n0
    <3>1. /\ l + k \in 1 .. (l + n0) + n1 /\ l + k <= l + n0 /\ l + k \in 1 .. l + n0
          /\ ~(l + k <= l) /\ (l + k) - l = k /\ k \in 1 .. n0
      BY <1>3, <1>11, <1>17, <2>1
    <3>2. g[l + k] = b0[k]
      BY <1>13, <1>15, <3>1
    <3> QED BY <1>9, <3>1, <3>2
  <2>2. CASE k > n0
    <3>1. PICK m \in 1 .. n1 : m = k - n0
      BY <1>3, <1>17, <2>2
    <3>a. n0 \in Nat /\ n1 \in Nat /\ h \in Nat /\ l \in Nat /\ k = n0 + m
      BY <1>3, <1>11, <1>17, <3>1
    <3>2. /\ l + k \in 1 .. (l + n0) + n1 /\ ~(l + k <= l + n0)
          /\ (l + k) - (l + n0) = m /\ h + n0 + m - 1 = h + k - 1
      BY <3>a
    <3>3. g[l + k] = b1[m]
      BY <1>15, <3>2
    <3> QED BY <1>10, <3>1, <3>2, <3>3
  <2> QED BY <1>3, <1>17, <2>1, <2>2
<1>21. /\ Cardinality(PlacesOf(f, u)) \in Nat
       /\ Cardinality(PlacesOf(g, u)) = Cardinality(PlacesOf(f, u)) + n
       /\ \A k \in 1 .. n : Cardinality({j \in PlacesOf(g, u) : j < l + k})
                               = Cardinality(PlacesOf(f, u)) + k - 1
       /\ \A v \in Writers : v # u => PlacesOf(g, v) = PlacesOf(f, v)
       /\ \A v \in Writers : \A i \in 1 .. l :
             {j \in PlacesOf(g, v) : j < i} = {j \in PlacesOf(f, v) : j < i}
  <2>1. /\ Len(f) \in Nat /\ Len(g) = Len(f) + n /\ \A i \in 1 .. Len(f) : g[i] = f[i]
        /\ \A k \in 1 .. n : g[Len(f) + k][1] = u
    BY <1>11, <1>18, <1>19, <1>20, Zenon
  <2>2. PlacesGrow(f, g, n, u)
    BY <2>1, AppendedPlaces
  <2> QED BY <1>11, <2>2, Zenon DEF PlacesGrow
<1>22. ASSUME NEW v \in Writers
       PROVE  FromWriter(v) = PlacesOf(f, v) /\ FromWriter(v)' = PlacesOf(g, v)
  BY <1>11, <1>16 DEF FromWriter, PlacesOf
<1>23. \A v \in Writers : Cardinality(PlacesOf(f, v)) = head[v]
  <2>1. \A v \in Writers : Popping(v) = 0 /\ head[v] \in Nat
    BY <1>2 DEF Popping, SpaceInv, LogTypes
  <2> QED BY <1>22, <2>1 DEF FileInv, FileCounts
<1>24. FileTypes' /\ Contents' /\ PiecesFollow'
  BY <1>2, <1>15, <1>16 DEF FileInv, FileTypes, Contents, PiecesFollow
<1>25. FileCounts'
  <2> SUFFICES ASSUME NEW v \in Writers
               PROVE  Cardinality(FromWriter(v)') = head'[v] + Popping(v)'
    BY DEF FileCounts
  <2>1. CASE v = u
    <3>1. Popping(u)' = n
      BY <1>1, <1>2, <1>3, <1>17 DEF Popping
    <3> QED BY <1>2, <1>21, <1>22, <1>23, <2>1, <3>1
  <2>2. CASE v # u
    <3>1. Popping(v)' = 0 /\ head[v] \in Nat
      BY <1>1, <1>2, <2>2 DEF Popping, SpaceInv, LogTypes
    <3> QED BY <1>2, <1>21, <1>22, <1>23, <2>2, <3>1
  <2> QED BY <2>1, <2>2
<1>26. InOrderUnlessTorn'
  <2> SUFFICES ASSUME ~torn, NEW v \in Writers, NEW i \in PlacesOf(g, v)
               PROVE  g[i][2] = Cardinality({j \in PlacesOf(g, v) : j < i})
    BY <1>2, <1>16, <1>22 DEF InOrderUnlessTorn, FileInOrder
  <2>1. i \in 1 .. l + n /\ g[i][1] = v
    BY <1>18 DEF PlacesOf
  <2>2. CASE i <= l
    <3>1. i \in 1 .. l
      BY <2>1, <2>2
    <3>2. i \in PlacesOf(f, v) /\ g[i] = f[i]
      BY <1>11, <1>19, <2>1, <3>1 DEF PlacesOf
    <3>3. f[i][2] = Cardinality({j \in PlacesOf(f, v) : j < i})
      BY <1>11, <1>22, <3>2 DEF FileInv, InOrderUnlessTorn, FileInOrder
    <3> QED BY <1>21, <3>1, <3>2, <3>3
  <2>3. CASE i > l
    <3>1. PICK k \in 1 .. n : k = i - l
      <4>1. l \in Nat /\ n \in Nat /\ i \in 1 .. l + n
        BY <2>1
      <4> QED BY <2>3, <4>1
    <3>2. l + k = i
      BY <1>11, <2>1, <3>1
    <3>3. v = u /\ g[i][2] = h + k - 1
      BY <1>20, <2>1, <3>2
    <3>4. Cardinality({j \in PlacesOf(g, u) : j < i}) = h + k - 1
      BY <1>3, <1>21, <1>23, <3>2
    <3> QED BY <3>3, <3>4
  <2> QED BY <1>11, <1>17, <2>1, <2>2, <2>3
<1> QED BY <1>24, <1>25, <1>26 DEF FileInv

(* A pop takes from the queue what was written. *)
LEMMA PopKeepsFileInv ==
    ASSUME SpaceInv, FileInv, FlushPop
    PROVE  FileInv'
<1>1. PICK u \in Writers : u = Head(cursor)
  BY VisitedType DEF SpaceInv, FlushKnows, FlushPop
<1>2. PICK n \in Nat, h \in Nat, t \in Nat :
         n = piece0.num + piece1.num /\ h = head[u] /\ t = tail[u]
  <2>1. piece0.num \in Nat /\ piece1.num \in Nat /\ head[u] \in Nat /\ tail[u] \in Nat
    BY AccountTypes DEF SpaceInv
  <2>2. piece0.num + piece1.num \in Nat
    BY <2>1
  <2> QED BY <2>1, <2>2
<1>3. n <= t - h /\ fpc = "pop"
  BY <1>1, <1>2 DEF SpaceInv, FlushKnows, FlushPop
<1>4. /\ head' = [head EXCEPT ![u] = @ + n] /\ fpc' = "signal"
      /\ UNCHANGED <<cursor, piece0, piece1, file, torn, data, sent, tail>>
  <2>1. ~(tail[u] - head[u] < piece0.num + piece1.num)
    BY <1>2, <1>3
  <2> QED BY <1>1, <1>2, <2>1 DEF FlushPop, pass, callers
<1>5. head \in [Writers -> Nat]
  BY DEF SpaceInv, LogTypes
<1>6. head'[u] = h + n /\ \A v \in Writers : v # u => head'[v] = head[v]
  BY <1>2, <1>4, <1>5
<1>7. FileTypes' /\ PiecesFollow'
  BY <1>4 DEF FileInv, FileTypes, PiecesFollow
<1>8. Contents'
  <2> SUFFICES ASSUME NEW v \in Writers, NEW k \in head'[v] .. tail[v] - 1
               PROVE  data[v][Masked(k)] = k
    BY <1>4 DEF Contents, FileInv
  <2>1. k \in head[v] .. tail[v] - 1
    <3>1. CASE v = u
      BY <1>2, <1>6, <3>1
    <3>2. CASE v # u
      BY <1>6, <3>2
    <3> QED BY <3>1, <3>2
  <2> QED BY <2>1 DEF FileInv, Contents
<1>9. \A v \in Writers : FromWriter(v)' = FromWriter(v)
  BY <1>4 DEF FromWriter
<1>10. FileCounts'
  <2> SUFFICES ASSUME NEW v \in Writers
               PROVE  Cardinality(FromWriter(v)) = head'[v] + Popping(v)'
    BY <1>9 DEF FileCounts
  <2>1. Cardinality(FromWriter(v)) = head[v] + Popping(v) /\ Popping(v)' = 0
    BY <1>4 DEF FileInv, FileCounts, Popping
  <2>2. CASE v = u
    <3>1. Popping(u) = n
      BY <1>1, <1>2, <1>3 DEF Popping
    <3> QED BY <1>2, <1>6, <2>1, <2>2, <3>1
  <2>3. CASE v # u
    <3>1. Popping(v) = 0 /\ head[v] \in Nat
      BY <1>1, <1>5, <2>3 DEF Popping
    <3> QED BY <1>6, <2>1, <2>3, <3>1
  <2> QED BY <2>2, <2>3
<1>11. InOrderUnlessTorn'
  BY <1>4, <1>9 DEF FileInv, InOrderUnlessTorn, FileInOrder
<1> QED BY <1>7, <1>8, <1>10, <1>11 DEF FileInv

(* What is known of the file holds in every reachable state. *)
THEOREM FileInvInvariant == Spec => []FileInv
<1>1. Init => FileInv
  <2> SUFFICES ASSUME Init PROVE FileInv
    OBVIOUS
  <2>1. /\ file = <<>> /\ fpc = "start" /\ ~torn
        /\ head = [w \in Writers |-> 0] /\ tail = [w \in Writers |-> 0]
        /\ sent = [w \in Writers |-> 0]
        /\ data = [w \in Writers |-> [i \in 0 .. Cap - 1 |-> NoByte]]
    BY DEF Init
  <2>2. FileTypes
    BY <2>1 DEF FileTypes, NoByte
  <2>3. Contents /\ PiecesFollow
    BY <2>1 DEF Contents, PiecesFollow
  <2>4. \A w \in Writers : FromWriter(w) = {} /\ Popping(w) = 0 /\ head[w] = 0
    BY <2>1 DEF FromWriter, Popping
  <2>5. FileCounts
    BY <2>4, FS_EmptySet DEF FileCounts
  <2>6. InOrderUnlessTorn
    BY <2>4 DEF InOrderUnlessTorn, FileInOrder
  <2> QED BY <2>2, <2>3, <2>5, <2>6 DEF FileInv
<1>2. SpaceInv /\ FileInv /\ [Next]_vars => FileInv'
  <2> SUFFICES ASSUME SpaceInv, FileInv, [Next]_vars PROVE FileInv'
    OBVIOUS
  <2> USE DEF buffers, callers, pass, config, control
  <2>1. ASSUME NEW w \in Writers, NEW n \in Sizes, log_write2(w, n) PROVE FileInv'
    BY <2>1, QuietKeepsFileInv DEF log_write2
  <2>2. ASSUME NEW w \in Writers, WriterStep(w) \/ SpuriousWakeup(w) PROVE FileInv'
    <3>1. CASE LoadList(w) \/ CasList(w) \/ CheckFree(w) \/ SpuriousWakeup(w)
      BY <3>1, QuietKeepsFileInv DEF LoadList, CasList, CheckFree, SpuriousWakeup
    <3>2. CASE wakeup_flush_routine(w)
      BY <3>2, QuietKeepsFileInv DEF wakeup_flush_routine, SignalFlush
    <3>3. CASE SemWait(w) \/ LoadHead(w)
      BY <3>3, QuietKeepsFileInv DEF SemWait, LoadHead
    <3>4. CASE MultiPush(w)
      BY <3>4, PushKeepsFileInv
    <3> QED BY <2>2, <3>1, <3>2, <3>3, <3>4 DEF WriterStep
  <2>3. ASSUME NEW t \in Timeouts, log_set_flush_timeout(t) PROVE FileInv'
    BY <2>3, QuietKeepsFileInv DEF log_set_flush_timeout
  <2>4. CASE FlushStep \/ FlushSpuriousWakeup
    <3>1. CASE FlushStart \/ FlushTest \/ FlushWait \/ FlushTimeout \/ FlushReadConfig
      BY <3>1, QuietKeepsFileInv
         DEF FlushStart, FlushTest, FlushWait, FlushTimeout, FlushReadConfig
    <3>2. CASE FlushOpen \/ FlushClose \/ FlushSignal \/ FlushSpuriousWakeup
      BY <3>2, QuietKeepsFileInv DEF FlushOpen, FlushClose, FlushSignal, FlushSpuriousWakeup
    <3>3. CASE FlushPeek0 \/ FlushPeek1 \/ FlushWrite \/ FlushPop
      BY <3>3, FirstPeekKeepsFileInv, SecondPeekKeepsFileInv, WriteKeepsFileInv, PopKeepsFileInv
    <3> QED BY <2>4, <3>1, <3>2, <3>3 DEF FlushStep
  <2>5. CASE QuitSetFlag \/ QuitStep
    BY <2>5, QuietKeepsFileInv DEF QuitSetFlag, QuitStep, QuitWakeup, QuitJoin, SignalFlush
  <2>6. CASE UNCHANGED vars
    BY <2>6, QuietKeepsFileInv DEF vars
  <2> QED BY <2>1, <2>2, <2>3, <2>4, <2>5, <2>6 DEF Next, Returned
<1> QED BY <1>1, <1>2, SpaceInvInvariant, PTL DEF Spec

(* For any number of writers, any capacity and any message sizes, the file *)
(* holds each writer's bytes in the order it logged them, none missing and *)
(* none repeated, unless a push wrapped between the two peeks.             *)
THEOREM FileStaysInOrder == Spec => []InOrderUnlessTorn
<1>1. FileInv => InOrderUnlessTorn
  BY DEF FileInv
<1> QED BY <1>1, FileInvInvariant, PTL
-----------------------------------------------------------------------------
(* The buffers stay in the list until log_quit frees them. *)
LEMMA KeepsBuffersLinked ==
    ASSUME SpaceInv, QuitInv, [Next]_vars
    PROVE  BuffersLinked'
<1> DEFINE Using == {"check_free", "wakeup", "sem_wait", "asleep", "load_head", "push"}
<1>0. /\ tail \in [Writers -> Nat] /\ wpc \in [Writers -> WriterPC] /\ list \in Seq(Writers)
      /\ wsize \in [Writers -> Nat]
  BY DEF SpaceInv, LogTypes
<1>1. ASSUME qpc' # "returned" => qpc # "returned",
             UNCHANGED list,
             \A w \in Writers : tail'[w] > 0 \/ wpc'[w] \in Using =>
                 tail[w] > 0 \/ wpc[w] \in Using \/ Linked(w)
      PROVE  BuffersLinked'
  <2>1. \A w \in Writers : Linked(w)' <=> Linked(w)
    BY <1>1 DEF Linked
  <2> QED BY <1>1, <2>1 DEF BuffersLinked, QuitInv
<1> USE DEF buffers, callers, pass, config, control
<1>2. ASSUME NEW w \in Writers, NEW n \in Sizes, log_write2(w, n) PROVE BuffersLinked'
  <2>1. /\ wpc' = [wpc EXCEPT ![w] = IF n > Cap THEN "aborted"
                                     ELSE IF Linked(w) THEN "check_free" ELSE "load_list"]
        /\ UNCHANGED <<list, tail, qpc>>
    BY <1>2 DEF log_write2, WGoto
  <2> QED BY <1>0, <1>1, <2>1
<1>3. ASSUME NEW w \in Writers, WriterStep(w) \/ SpuriousWakeup(w) PROVE BuffersLinked'
  <2>1. CASE LoadList(w)
    BY <1>0, <1>1, <2>1 DEF LoadList, WGoto
  <2>2. CASE CasList(w)
    <3>1. CASE UNCHANGED list /\ WGoto(w, "load_list")
      BY <1>0, <1>1, <2>2, <3>1 DEF CasList, WGoto
    <3>2. CASE list' = <<w>> \o list /\ WGoto(w, "check_free")
      <4>1. UNCHANGED <<tail, qpc>>
        BY <2>2 DEF CasList
      <4>2. /\ Len(list') = Len(list) + 1 /\ list'[1] = w
            /\ \A i \in 1 .. Len(list) : list'[i + 1] = list[i]
        BY <1>0, <3>2
      <4>3. Len(list) \in Nat
        BY <1>0
      <4>4. ASSUME NEW v \in Writers, v = w \/ Linked(v) PROVE Linked(v)'
        <5>1. CASE v = w
          BY <4>2, <4>3, <5>1 DEF Linked
        <5>2. CASE Linked(v)
          <6>1. PICK i \in 1 .. Len(list) : list[i] = v
            BY <5>2 DEF Linked
          <6>2. i + 1 \in 1 .. Len(list') /\ list'[i + 1] = v
            BY <4>2, <4>3, <6>1
          <6> QED BY <6>2 DEF Linked
        <5> QED BY <4>4, <5>1, <5>2
      <4>5. \A v \in Writers : v # w => wpc'[v] = wpc[v]
        BY <1>0, <3>2 DEF WGoto
      <4> QED BY <4>1, <4>4, <4>5 DEF BuffersLinked, QuitInv
    <3> QED BY <2>2, <3>1, <3>2 DEF CasList
  <2>3. CASE CheckFree(w)
    BY <1>0, <1>1, <2>3 DEF CheckFree, WGoto
  <2>4. CASE wakeup_flush_routine(w)
    BY <1>0, <1>1, <2>4 DEF wakeup_flush_routine, WGoto
  <2>5. CASE SemWait(w)
    BY <1>0, <1>1, <2>5 DEF SemWait, WGoto
  <2>6. CASE LoadHead(w)
    BY <1>0, <1>1, <2>6 DEF LoadHead, WGoto
  <2>7. CASE MultiPush(w)
    <3>1. wpc[w] = "push" /\ UNCHANGED <<list, qpc>>
      BY <2>7 DEF MultiPush
    <3>2. \A v \in Writers : v # w => wpc'[v] = wpc[v] /\ tail'[v] = tail[v]
      BY <1>0, <2>7 DEF MultiPush, WGoto
    <3>3. \A v \in Writers : v = w => wpc[v] \in Using
      BY <3>1
    <3> HIDE DEF Using
    <3> QED BY <1>1, <3>1, <3>2, <3>3
  <2>8. CASE SpuriousWakeup(w)
    BY <1>0, <1>1, <2>8 DEF SpuriousWakeup, WGoto
  <2> QED BY <1>3, <2>1, <2>2, <2>3, <2>4, <2>5, <2>6, <2>7, <2>8 DEF WriterStep
<1>4. ASSUME NEW t \in Timeouts, log_set_flush_timeout(t) PROVE BuffersLinked'
  BY <1>1, <1>4 DEF log_set_flush_timeout
<1>5. CASE FlushStep \/ FlushSpuriousWakeup
  <2>1. CASE FlushSignal
    BY <1>0, <1>1, <2>1 DEF FlushSignal
  <2>2. CASE ~FlushSignal
    <3>1. UNCHANGED <<list, tail, wpc, qpc>>
      BY <1>5, <2>2
         DEF FlushStep, FlushStart, FlushTest, FlushWait, FlushTimeout, FlushReadConfig,
             FlushOpen, FlushClose, FlushPeek0, FlushPeek1, FlushWrite, FlushPop,
             FlushSpuriousWakeup
    <3> QED BY <1>1, <3>1
  <2> QED BY <2>1, <2>2
<1>6. CASE QuitSetFlag \/ QuitWakeup
  BY <1>1, <1>6 DEF QuitSetFlag, QuitWakeup
<1>7. CASE QuitJoin
  BY <1>7 DEF QuitJoin, BuffersLinked
<1>8. CASE UNCHANGED vars
  BY <1>1, <1>8 DEF vars
<1> QED BY <1>2, <1>3, <1>4, <1>5, <1>6, <1>7, <1>8 DEF Next, Returned, QuitStep

(* The phases of a shutdown follow each other. *)
LEMMA KeepsPhases ==
    ASSUME SpaceInv, QuitInv, [Next]_vars
    PROVE  Phases'
<1>0. wpc \in [Writers -> WriterPC] /\ Phases
  BY DEF SpaceInv, LogTypes, QuitInv
<1> USE <1>0 DEF Phases, buffers, callers, pass, config, control
<1>1. ASSUME NEW w \in Writers, NEW n \in Sizes, log_write2(w, n) PROVE Phases'
  <2>1. qpc = "running" /\ UNCHANGED <<can_terminate, qpc, final, fpc, cursor>>
    BY <1>1 DEF log_write2
  <2> QED BY <2>1
<1>2. ASSUME NEW w \in Writers, WriterStep(w) \/ SpuriousWakeup(w) PROVE Phases'
  <2>1. qpc = "running"
    BY <1>2 DEF WriterStep, SpuriousWakeup, LoadList, CasList, CheckFree,
                wakeup_flush_routine, SemWait, LoadHead, MultiPush
  <2>2. UNCHANGED <<can_terminate, qpc, final, cursor>>
    BY <1>2 DEF WriterStep, SpuriousWakeup, LoadList, CasList, CheckFree,
                wakeup_flush_routine, SemWait, LoadHead, MultiPush
  <2>3. fpc' = fpc \/ fpc' = "read_config"
    BY <1>2 DEF WriterStep, SpuriousWakeup, LoadList, CasList, CheckFree,
                wakeup_flush_routine, SemWait, LoadHead, MultiPush, SignalFlush
  <2> QED BY <2>1, <2>2, <2>3
<1>3. ASSUME NEW t \in Timeouts, log_set_flush_timeout(t) PROVE Phases'
  BY <1>3 DEF log_set_flush_timeout
<1>4. CASE FlushStart \/ FlushWait \/ FlushTimeout \/ FlushReadConfig \/ FlushSpuriousWakeup
  BY <1>4 DEF FlushStart, FlushWait, FlushTimeout, FlushReadConfig, FlushSpuriousWakeup
<1>5. CASE FlushTest
  BY <1>5 DEF FlushTest
<1>6. CASE FlushOpen \/ FlushClose
  BY <1>6 DEF FlushOpen, FlushClose
<1>7. CASE FlushPeek0 \/ FlushPeek1 \/ FlushWrite \/ FlushPop
  BY <1>7 DEF FlushPeek0, FlushPeek1, FlushWrite, FlushPop
<1>8. CASE FlushSignal
  <2>1. /\ fpc = "signal" /\ fpc' = "peek_0" /\ UNCHANGED <<can_terminate, qpc, final>>
        /\ \A w \in Writers : wpc[w] = "idle" => wpc'[w] = "idle"
    BY <1>8 DEF FlushSignal
  <2> QED BY <2>1
<1>9. CASE QuitSetFlag \/ QuitWakeup
  BY <1>9 DEF QuitSetFlag, QuitWakeup, SignalFlush
<1>10. CASE QuitJoin
  BY <1>10 DEF QuitJoin
<1>11. CASE UNCHANGED vars
  BY <1>11 DEF vars
<1> QED BY <1>1, <1>2, <1>3, <1>4, <1>5, <1>6, <1>7, <1>8, <1>9, <1>10, <1>11
        DEF Next, Returned, FlushStep, QuitStep

(* What is left to visit when the flush thread leaves a buffer *)
LEMMA VisitTail ==
    ASSUME LogTypes, cursor # <<>>, cursor' = Tail(cursor), NEW w \in Writers, ToVisit(w)
    PROVE  w = Head(cursor) \/ ToVisit(w)'
<1>1. PICK i \in 1 .. Len(cursor) : cursor[i] = w
  BY DEF ToVisit
<1>2. /\ cursor \in Seq(Writers) /\ Len(cursor) \in Nat /\ Len(Tail(cursor)) = Len(cursor) - 1
      /\ Head(cursor) = cursor[1]
      /\ \A j \in 1 .. Len(Tail(cursor)) : Tail(cursor)[j] = cursor[j + 1]
  BY HeadTailProperties DEF LogTypes
<1>3. CASE i = 1
  BY <1>1, <1>2, <1>3
<1>4. CASE i # 1
  <2>1. PICK j \in 1 .. Len(Tail(cursor)) : i = j + 1
    <3>1. i - 1 \in 1 .. Len(Tail(cursor)) /\ i = (i - 1) + 1
      BY <1>2, <1>4
    <3> QED BY <3>1
  <2>2. cursor'[j] = w /\ j \in 1 .. Len(cursor')
    BY <1>1, <1>2, <2>1
  <2> QED BY <2>2 DEF ToVisit
<1> QED BY <1>3, <1>4

(* The last pass leaves no buffer with anything in it behind. *)
LEMMA KeepsDrains ==
    ASSUME SpaceInv, QuitInv, [Next]_vars
    PROVE  Drains'
<1>0. /\ LogTypes /\ Phases /\ Drains /\ BuffersLinked
      /\ \A w \in Writers : head[w] \in Nat /\ tail[w] \in Nat /\ head[w] <= tail[w]
                            /\ tail[w] <= head[w] + Cap
  BY AccountTypes DEF SpaceInv, QuitInv
<1>1. ASSUME UNCHANGED <<final, head, tail, cursor, piece0, piece1>>,
             fpc' = fpc \/ fpc' \notin Visiting
      PROVE  Drains'
  <2>1. \A w \in Writers : ToVisit(w)' <=> ToVisit(w)
    BY <1>1 DEF ToVisit
  <2> QED BY <1>0, <1>1, <2>1 DEF Drains
<1> USE DEF buffers, callers, pass, config, control
<1>2. ASSUME NEW w \in Writers, NEW n \in Sizes, log_write2(w, n) PROVE Drains'
  BY <1>1, <1>2 DEF log_write2
<1>3. ASSUME NEW w \in Writers, WriterStep(w) \/ SpuriousWakeup(w) PROVE Drains'
  <2>1. ~final
    BY <1>0, <1>3 DEF WriterStep, SpuriousWakeup, LoadList, CasList, CheckFree,
                wakeup_flush_routine, SemWait, LoadHead, MultiPush, Phases
  <2>2. UNCHANGED final
    BY <1>3 DEF WriterStep, SpuriousWakeup, LoadList, CasList, CheckFree,
                wakeup_flush_routine, SemWait, LoadHead, MultiPush
  <2> QED BY <2>1, <2>2 DEF Drains
<1>4. ASSUME NEW t \in Timeouts, log_set_flush_timeout(t) PROVE Drains'
  BY <1>1, <1>4 DEF log_set_flush_timeout
<1>5. CASE FlushStart \/ FlushWait \/ FlushTimeout \/ FlushReadConfig \/ FlushSpuriousWakeup
  BY <1>1, <1>5
     DEF FlushStart, FlushWait, FlushTimeout, FlushReadConfig, FlushSpuriousWakeup, Visiting
<1>6. CASE FlushTest
  BY <1>6 DEF FlushTest, Drains, Visiting
<1>7. CASE FlushOpen
  <2>1. /\ cursor' = list /\ fpc' = "peek_0" /\ UNCHANGED <<head, tail, final>> /\ fpc = "open"
    BY <1>7 DEF FlushOpen
  <2>2. qpc # "returned"
    BY <1>0, <2>1 DEF Phases
  <2>3. ASSUME NEW w \in Writers PROVE head[w] = tail[w] \/ ToVisit(w)'
    <3>1. CASE tail[w] > 0
      BY <1>0, <2>1, <2>2, <3>1 DEF BuffersLinked, Linked, ToVisit
    <3>2. CASE ~(tail[w] > 0)
      BY <1>0, <3>2
    <3> QED BY <3>1, <3>2
  <2> QED BY <2>1, <2>3 DEF Drains
<1>8. CASE FlushClose
  <2>1. /\ fpc = "peek_0" /\ fpc' \in {"done", "test"}
        /\ UNCHANGED <<head, tail, final, cursor>>
    BY <1>8 DEF FlushClose
  <2>2. \A w \in Writers : ToVisit(w)' <=> ToVisit(w)
    BY <2>1 DEF ToVisit
  <2> QED BY <1>0, <2>1, <2>2 DEF Drains, Visiting
<1>9. CASE FlushPeek0
  <2>1. /\ fpc = "peek_0" /\ fpc' = "peek_1" /\ UNCHANGED <<head, tail, final, cursor>>
        /\ piece0' = peek_0(head[Head(cursor)], tail[Head(cursor)])
    BY <1>9 DEF FlushPeek0
  <2>2. \A w \in Writers : ToVisit(w)' <=> ToVisit(w)
    BY <2>1 DEF ToVisit
  <2> QED BY <1>0, <2>1, <2>2 DEF Drains, Visiting
<1>10. CASE FlushPeek1
  <2> SUFFICES ASSUME final' PROVE Drains'
    BY DEF Drains
  <2>1. PICK u \in Writers : u = Head(cursor)
    BY <1>0, <1>10, VisitedType DEF SpaceInv, FlushKnows, FlushPeek1
  <2>2. PICK p : p = peek_1(head[u], tail[u])
    OBVIOUS
  <2>3. /\ fpc = "peek_1" /\ UNCHANGED <<head, tail, final>> /\ cursor # <<>>
        /\ IF piece0.num + p.num > 0
           THEN piece1' = p /\ fpc' = "write" /\ UNCHANGED <<cursor, piece0>>
           ELSE cursor' = Tail(cursor) /\ fpc' = "peek_0" /\ UNCHANGED <<piece0, piece1>>
    BY <1>10, <2>1, <2>2 DEF FlushPeek1, SpaceInv, FlushKnows
  <2>4. /\ piece0 = peek_0(head[u], tail[u])
        /\ \A w \in Writers : head[w] = tail[w] \/ ToVisit(w)
    BY <1>0, <2>1, <2>3 DEF Drains, Visiting
  <2>5. piece0.num + p.num = tail[u] - head[u]
    <3>1. PICK n \in 0 .. Cap : n = tail[u] - head[u]
      BY <1>0, CapAssumption
    <3>2. tail[u] = head[u] + n
      BY <1>0, <3>1
    <3> QED BY <1>0, <2>2, <2>4, <3>1, <3>2, PiecesAlwaysCover DEF PiecesCover
  <2>6. CASE piece0.num + p.num > 0
    <3>1. piece1' = p /\ fpc' = "write" /\ UNCHANGED <<cursor, piece0>>
      BY <2>3, <2>6
    <3>2. \A w \in Writers : ToVisit(w)' <=> ToVisit(w)
      BY <3>1 DEF ToVisit
    <3> QED BY <2>1, <2>3, <2>4, <2>5, <3>1, <3>2 DEF Drains
  <2>7. CASE ~(piece0.num + p.num > 0)
    <3>1. cursor' = Tail(cursor) /\ fpc' = "peek_0"
      BY <2>3, <2>7
    <3>2. head[u] = tail[u]
      BY <1>0, <2>5, <2>7
    <3>3. \A w \in Writers : head[w] = tail[w] \/ ToVisit(w)'
      BY <1>0, <2>1, <2>3, <2>4, <3>1, <3>2, VisitTail
    <3> QED BY <2>3, <3>1, <3>3 DEF Drains
  <2> QED BY <2>6, <2>7
<1>11. CASE FlushWrite
  <2>1. /\ fpc = "write" /\ fpc' = "pop"
        /\ UNCHANGED <<head, tail, final, cursor, piece0, piece1>>
    BY <1>11 DEF FlushWrite
  <2>2. \A w \in Writers : ToVisit(w)' <=> ToVisit(w)
    BY <2>1 DEF ToVisit
  <2> QED BY <1>0, <2>1, <2>2 DEF Drains, Visiting
<1>12. CASE FlushPop
  <2> SUFFICES ASSUME final' PROVE Drains'
    BY DEF Drains
  <2>1. PICK u \in Writers : u = Head(cursor)
    BY <1>0, <1>12, VisitedType DEF SpaceInv, FlushKnows, FlushPop
  <2>2. fpc = "pop" /\ fpc' = "signal" /\ UNCHANGED <<tail, final, cursor>>
    BY <1>12 DEF FlushPop
  <2>3. /\ piece0.num + piece1.num = tail[u] - head[u]
        /\ \A w \in Writers : head[w] = tail[w] \/ ToVisit(w)
    BY <1>0, <2>1, <2>2 DEF Drains, Visiting
  <2>4. head' = [head EXCEPT ![u] = @ + (tail[u] - head[u])]
    <3>1. ~(tail[u] - head[u] < piece0.num + piece1.num)
      BY <1>0, <2>3
    <3> QED BY <1>12, <2>1, <2>3, <3>1 DEF FlushPop
  <2>5. head'[u] = tail[u] /\ \A w \in Writers : w # u => head'[w] = head[w]
    BY <1>0, <2>4 DEF LogTypes
  <2>6. \A w \in Writers : ToVisit(w)' <=> ToVisit(w)
    BY <2>2 DEF ToVisit
  <2>7. \A w \in Writers : head'[w] = tail[w] \/ ToVisit(w)'
    BY <2>3, <2>5, <2>6
  <2> QED BY <2>1, <2>2, <2>5, <2>7 DEF Drains
<1>13. CASE FlushSignal
  <2> SUFFICES ASSUME final' PROVE Drains'
    BY DEF Drains
  <2>1. /\ fpc = "signal" /\ fpc' = "peek_0" /\ UNCHANGED <<head, tail, final>>
        /\ cursor' = Tail(cursor) /\ cursor # <<>>
    BY <1>13 DEF FlushSignal, SpaceInv, FlushKnows
  <2>2. /\ head[Head(cursor)] = tail[Head(cursor)]
        /\ \A w \in Writers : head[w] = tail[w] \/ ToVisit(w)
    BY <1>0, <2>1 DEF Drains, Visiting
  <2>3. \A w \in Writers : head[w] = tail[w] \/ ToVisit(w)'
    BY <1>0, <2>1, <2>2, VisitTail
  <2> QED BY <2>1, <2>3 DEF Drains
<1>14. CASE QuitSetFlag \/ QuitWakeup
  BY <1>1, <1>14 DEF QuitSetFlag, QuitWakeup, SignalFlush, Visiting
<1>15. CASE QuitJoin
  BY <1>1, <1>15 DEF QuitJoin
<1>16. CASE UNCHANGED vars
  BY <1>1, <1>16 DEF vars
<1> QED BY <1>2, <1>3, <1>4, <1>5, <1>6, <1>7, <1>8, <1>9, <1>10, <1>11, <1>12, <1>13,
           <1>14, <1>15, <1>16 DEF Next, Returned, FlushStep, QuitStep

(* What makes log_quit drain the buffers holds in every reachable state. *)
THEOREM QuitInvInvariant == Spec => []QuitInv
<1>1. Init => QuitInv
  BY DEF Init, QuitInv, BuffersLinked, Phases, Drains
<1>2. SpaceInv /\ QuitInv /\ [Next]_vars => QuitInv'
  BY KeepsBuffersLinked, KeepsPhases, KeepsDrains DEF QuitInv
<1> QED BY <1>1, <1>2, SpaceInvInvariant, PTL DEF Spec

(* For any number of writers, any capacity and any message sizes, the file *)
(* holds as many bytes of each writer as it logged when log_quit returns.  *)
THEOREM QuitDrainsBuffers == Spec => []QuitDrains
<1>1. SpaceInv /\ FileInv /\ QuitInv => QuitDrains
  <2> SUFFICES ASSUME SpaceInv, FileInv, QuitInv, qpc = "returned", NEW w \in Writers
               PROVE  Cardinality(FromWriter(w)) = sent[w]
    BY DEF QuitDrains
  <2>1. fpc = "done" /\ final /\ cursor = <<>>
    BY DEF QuitInv, Phases
  <2>2. ~ToVisit(w)
    BY <2>1 DEF ToVisit
  <2>3. head[w] = tail[w]
    BY <2>1, <2>2 DEF QuitInv, Drains, Visiting
  <2>4. Cardinality(FromWriter(w)) = head[w] + 0 /\ sent[w] = tail[w] /\ head[w] \in Nat
    BY <2>1 DEF FileInv, FileCounts, Popping, Contents, SpaceInv, LogTypes
  <2> QED BY <2>3, <2>4
<1> QED BY <1>1, SpaceInvInvariant, FileInvInvariant, QuitInvInvariant, PTL
=============================================================================
