--------------------------- MODULE MpmcQueueProofs ---------------------------
(***************************************************************************)
(* Proofs about MpmcQueue for any number of threads, any size and any      *)
(* number of calls.                                                        *)
(***************************************************************************)
EXTENDS MpmcQueue, ArithmeticLemmas, TLAPS

(* item_addr always points into the array. *)
LEMMA ItemAddrType ==
    ASSUME NEW i \in Nat
    PROVE  item_addr(i) \in Cells
<1>1. i % IntRange \in Nat
  BY RangeAssumption, DivMod
<1>2. AsInt(i) \in Int
  BY <1>1, RangeAssumption DEF AsInt
<1>3. AsU64(AsInt(i)) \in Int
  BY <1>2, RangeAssumption DEF AsU64
<1> QED BY <1>3, SizeAssumption, DivMod DEF item_addr, Cells

(* With a size that divides the range of an int, the truncation to int in  *)
(* item_addr is harmless.                                                  *)
LEMMA ItemAddrIsMod ==
    ASSUME PowerOfTwoSize, NEW i \in Nat
    PROVE  item_addr(i) = i % Size
<1> DEFINE low == i % IntRange
           k == IntRange \div Size
           m == U64Range \div Size
           q == i \div IntRange
<1>1. low \in Nat /\ q \in Int /\ i = IntRange * q + low
  BY RangeAssumption, DivMod
<1>2. k \in Int /\ IntRange = Size * k
  BY RangeAssumption, SizeAssumption, DivMod DEF PowerOfTwoSize
<1>3. m \in Int /\ U64Range = Size * m
  BY RangeAssumption, SizeAssumption, DivMod DEF PowerOfTwoSize
<1> HIDE DEF low, k, m, q
<1>0. low \in Int
  BY <1>1
<1>4. low % Size = i % Size
  <2>1. i = low + Size * (k * q)
    BY <1>1, <1>2, SizeAssumption
  <2>2. k * q \in Int
    BY <1>1, <1>2
  <2>3. (low + Size * (k * q)) % Size = low % Size
    BY <2>2, <1>0, SizeAssumption, ModPlusMultiple, Zenon
  <2> QED BY <2>1, <2>3
<1>5. (low - IntRange + U64Range) % Size = low % Size
  <2>1. low - IntRange + U64Range = low + Size * (m - k)
    BY <1>1, <1>2, <1>3, SizeAssumption
  <2>2. m - k \in Int
    BY <1>2, <1>3
  <2>3. (low + Size * (m - k)) % Size = low % Size
    BY <2>2, <1>0, SizeAssumption, ModPlusMultiple, Zenon
  <2> QED BY <2>1, <2>3
<1>6. AsU64(AsInt(i)) \in {low, low - IntRange + U64Range}
  BY <1>1, RangeAssumption DEF AsU64, AsInt, low
<1> QED BY <1>4, <1>5, <1>6 DEF item_addr
-----------------------------------------------------------------------------
(* Every step keeps the types. *)
THEOREM TypeCorrect == Spec => []TypeOK
<1> USE DEF Threads, Idle
<1>1. Init => TypeOK
  BY SizeAssumption DEF Init, TypeOK, Cells, PushPC, PopPC
<1>2. TypeOK /\ [Next]_vars => TypeOK'
  <2> SUFFICES ASSUME TypeOK, [Next]_vars PROVE TypeOK'
    OBVIOUS
  <2> USE ThreadAssumption DEF TypeOK, PushPC, PopPC, counters, Goto, Return
  <2>1. ASSUME NEW p \in Producers, NEW x \in Items, Push(p, x) PROVE TypeOK'
    BY <2>1 DEF Push
  <2>2. ASSUME NEW p \in Producers, LoadTempTail(p) PROVE TypeOK'
    BY <2>2 DEF LoadTempTail
  <2>3. ASSUME NEW p \in Producers, LoadTempHead(p) PROVE TypeOK'
    BY <2>3 DEF LoadTempHead
  <2>4. ASSUME NEW p \in Producers, CasTempTail(p) PROVE TypeOK'
    BY <2>4 DEF CasTempTail
  <2>5. ASSUME NEW p \in Producers, CopyIn(p) PROVE TypeOK'
    <3>1. item_addr(idx[p]) \in Cells
      BY ItemAddrType
    <3> QED BY <2>5, <3>1 DEF CopyIn
  <2>6. ASSUME NEW p \in Producers, AwaitTail(p) PROVE TypeOK'
    BY <2>6 DEF AwaitTail
  <2>7. ASSUME NEW p \in Producers, BumpTail(p) PROVE TypeOK'
    BY <2>7 DEF BumpTail
  <2>8. ASSUME NEW c \in Consumers, Pop(c) PROVE TypeOK'
    BY <2>8 DEF Pop
  <2>9. ASSUME NEW c \in Consumers, LoadHead(c) PROVE TypeOK'
    BY <2>9 DEF LoadHead
  <2>10. ASSUME NEW c \in Consumers, LoadTail(c) PROVE TypeOK'
    BY <2>10 DEF LoadTail
  <2>11. ASSUME NEW c \in Consumers, CasHead(c) PROVE TypeOK'
    BY <2>11 DEF CasHead
  <2>12. ASSUME NEW c \in Consumers, CopyOut(c) PROVE TypeOK'
    <3>1. cells[item_addr(idx[c])] \in Items \cup {None}
      BY ItemAddrType
    <3> QED BY <2>12, <3>1 DEF CopyOut
  <2>13. ASSUME NEW c \in Consumers, AwaitTempHead(c) PROVE TypeOK'
    BY <2>13 DEF AwaitTempHead
  <2>14. ASSUME NEW c \in Consumers, BumpTempHead(c) PROVE TypeOK'
    <3>1. temp_head' \in Nat
      BY <2>14 DEF BumpTempHead
    <3> QED BY <2>14, <3>1 DEF BumpTempHead
  <2>15. CASE UNCHANGED vars
    BY <2>15 DEF vars
  <2> QED
    BY <2>1, <2>2, <2>3, <2>4, <2>5, <2>6, <2>7, <2>8, <2>9, <2>10, <2>11,
       <2>12, <2>13, <2>14, <2>15 DEF Next, PushStep, PopStep
<1> QED BY <1>1, <1>2, PTL DEF Spec
-----------------------------------------------------------------------------
(* What every step preserves: the picture of mpmc_queue.h, the asserts and *)
(* what each call in flight knows of the counters.  None of the three is   *)
(* preserved without the other two.                                        *)
IndInv == TypeOK /\ CounterOrder /\ NoAbort /\ Claims

(* The steps of a push keep the invariant. *)
LEMMA PushKeepsIndInv ==
    ASSUME IndInv, TypeOK', NEW p \in Producers,
           (\E x \in Items : Push(p, x)) \/ PushStep(p)
    PROVE  IndInv'
<1> USE SizeAssumption, ThreadAssumption
        DEF IndInv, TypeOK, Claims, CounterOrder, NoAbort, Threads, Idle, Owns,
            Owning, counters, Goto, Return
<1>1. ASSUME NEW x \in Items, Push(p, x) PROVE IndInv'
  BY <1>1 DEF Push
<1>2. CASE LoadTempTail(p)
  BY <1>2 DEF LoadTempTail
<1>3. CASE LoadTempHead(p)
  BY <1>3 DEF LoadTempHead
<1>4. CASE CasTempTail(p)
  BY <1>4 DEF CasTempTail
<1>5. CASE CopyIn(p)
  BY <1>5 DEF CopyIn
<1>6. CASE AwaitTail(p)
  BY <1>6 DEF AwaitTail
<1>7. CASE BumpTail(p)
  BY <1>7 DEF BumpTail
<1> QED BY <1>1, <1>2, <1>3, <1>4, <1>5, <1>6, <1>7 DEF PushStep

(* The steps of a pop keep the invariant. *)
LEMMA PopKeepsIndInv ==
    ASSUME IndInv, TypeOK', NEW c \in Consumers, Pop(c) \/ PopStep(c)
    PROVE  IndInv'
<1> USE SizeAssumption, ThreadAssumption
        DEF IndInv, TypeOK, Claims, CounterOrder, NoAbort, Threads, Idle, Owns,
            Owning, counters, Goto, Return
<1>1. CASE Pop(c)
  BY <1>1 DEF Pop
<1>2. CASE LoadHead(c)
  BY <1>2 DEF LoadHead
<1>3. CASE LoadTail(c)
  BY <1>3 DEF LoadTail
<1>4. CASE CasHead(c)
  BY <1>4 DEF CasHead
<1>5. CASE CopyOut(c)
  BY <1>5 DEF CopyOut
<1>6. CASE AwaitTempHead(c)
  BY <1>6 DEF AwaitTempHead
<1>7. CASE BumpTempHead(c)
  BY <1>7 DEF BumpTempHead
<1> QED BY <1>1, <1>2, <1>3, <1>4, <1>5, <1>6, <1>7 DEF PopStep

(* The invariant holds in every reachable state. *)
THEOREM IndInvInvariant == Spec => []IndInv
<1>1. Init => IndInv
  <2> USE SizeAssumption DEF Init
  <2>1. Init => CounterOrder /\ NoAbort /\ Claims
    BY DEF CounterOrder, NoAbort, Claims, Threads, Owns, Owning
  <2>2. Init => TypeOK
    BY DEF TypeOK, Cells, PushPC, PopPC, Threads, Idle
  <2> QED BY <2>1, <2>2 DEF IndInv
<1>2. IndInv /\ TypeOK' /\ [Next]_vars => IndInv'
  <2> SUFFICES ASSUME IndInv, TypeOK', [Next]_vars PROVE IndInv'
    OBVIOUS
  <2>1. CASE UNCHANGED vars
    BY <2>1 DEF vars, IndInv, TypeOK, CounterOrder, NoAbort, Claims, Owns
  <2> QED BY <2>1, PushKeepsIndInv, PopKeepsIndInv DEF Next
<1> QED BY <1>1, <1>2, TypeCorrect, PTL DEF Spec

(* For every number of threads and calls, the asserts of                   *)
(* acquire_push_location and acquire_pop_location never fail.              *)
THEOREM AssertsHold == Spec => []NoAbort
<1>1. IndInv => NoAbort
  BY DEF IndInv
<1> QED BY <1>1, IndInvInvariant, PTL

(* For every number of threads and calls, the counters keep the order of   *)
(* the picture in mpmc_queue.h and the queue never exceeds its size.       *)
THEOREM CountersOrdered == Spec => []CounterOrder
<1>1. IndInv => CounterOrder
  BY DEF IndInv
<1> QED BY <1>1, IndInvInvariant, PTL

(* For every number of threads and calls, the calls in flight own distinct *)
(* indexes of the part of the queue the picture gives them.                *)
THEOREM ClaimsHold == Spec => []Claims
<1>1. IndInv => Claims
  BY DEF IndInv
<1> QED BY <1>1, IndInvInvariant, PTL

(* When the size divides the range of an int, no two calls in flight copy  *)
(* into or out of the same cell, whatever the number of calls made.        *)
THEOREM CellsExclusive ==
    ASSUME PowerOfTwoSize
    PROVE  Spec => []ExclusiveCells
<1>1. IndInv => ExclusiveCells
  <2> SUFFICES ASSUME IndInv, NEW t \in Threads, NEW u \in Threads,
                      t # u, Owns(t), Owns(u),
                      item_addr(idx[t]) = item_addr(idx[u])
               PROVE  FALSE
    BY DEF ExclusiveCells
  <2>1. idx[t] \in Nat /\ idx[u] \in Nat /\ idx[t] # idx[u]
    BY DEF IndInv, TypeOK, Claims
  <2>2. ASSUME NEW v \in Threads, Owns(v)
        PROVE  temp_head <= idx[v] /\ idx[v] < temp_head + Size
    BY <2>2, SizeAssumption DEF IndInv, TypeOK, Claims, CounterOrder, Threads
  <2>3. idx[t] - idx[u] < Size /\ idx[u] - idx[t] < Size
    BY <2>1, <2>2, SizeAssumption DEF IndInv, TypeOK
  <2>4. idx[t] % Size = idx[u] % Size
    BY <2>1, ItemAddrIsMod
  <2> QED BY <2>1, <2>3, <2>4, SizeAssumption, ModInjective
<1> QED BY <1>1, IndInvInvariant, PTL
-----------------------------------------------------------------------------
(* A function on 1 .. n is a sequence of length n.                         *)
LEMMA FunIsSeq ==
    ASSUME NEW S, NEW n \in Nat, NEW f \in [1 .. n -> S]
    PROVE  f \in Seq(S) /\ Len(f) = n
  OBVIOUS

(* The sequence that has one element more has it appended.                 *)
LEMMA AppendFun ==
    ASSUME NEW S, NEW n \in Nat, NEW f \in [1 .. n -> S], NEW g \in [1 .. n + 1 -> S],
           \A i \in 1 .. n : g[i] = f[i]
    PROVE  g = Append(f, g[n + 1])
<1>1. f \in Seq(S) /\ Len(f) = n /\ g \in Seq(S) /\ Len(g) = n + 1
  BY FunIsSeq
<1>2. g[n + 1] \in S
  OBVIOUS
<1> QED BY <1>1, <1>2

(* The sequence that starts one element later is the tail.                 *)
LEMMA TailFun ==
    ASSUME NEW S, NEW n \in Nat, NEW f \in [1 .. n + 1 -> S], NEW g \in [1 .. n -> S],
           \A i \in 1 .. n : g[i] = f[i + 1]
    PROVE  g = Tail(f) /\ Head(f) = f[1] /\ f # <<>>
<1>1. f \in Seq(S) /\ Len(f) = n + 1 /\ g \in Seq(S) /\ Len(g) = n
  BY FunIsSeq
<1> QED BY <1>1

(* A push that has copied its item finds it in its cell until tail moves. *)
Copied ==
    \A p \in Producers :
        pc[p] \in {"await_tail", "bump_tail"} => cells[item_addr(idx[p])] = item[p]

(* What the step simulation needs: without Copied a publish could make     *)
(* something else visible than what was pushed.                            *)
RefInv == IndInv /\ Copied

(* The refinement mapping of Fifo, by name *)
FifoOf == [i \in 1 .. tail - head |-> cells[item_addr(head + i - 1)]]
UsedOf == temp_tail - temp_head
StOf == [t \in Threads |-> AbstractState(t)]
ItemOf == [t \in Threads |->
              IF pc[t] = "copy_out" THEN cells[item_addr(idx[t])] ELSE item[t]]

(* The abstract state of a thread at l *)
StateAt(l) == IF l \in Idle THEN l ELSE IF l \in Owning THEN "claimed" ELSE "calling"

(* The abstract state of a thread only depends on where it is.             *)
LEMMA StateOf ==
    ASSUME NEW t \in Threads
    PROVE  AbstractState(t) = StateAt(pc[t])
<1>1. CASE pc[t] \in Idle
  BY <1>1 DEF AbstractState, StateAt, Owns, Owning, Idle
<1>2. CASE pc[t] \in Owning
  BY <1>2 DEF AbstractState, StateAt, Owns, Owning, Idle
<1>3. CASE pc[t] \notin Idle /\ pc[t] \notin Owning
  BY <1>3 DEF AbstractState, StateAt, Owns, Owning, Idle
<1> QED BY <1>1, <1>2, <1>3

(* A thread that moves changes its own abstract state only.                *)
LEMMA StateMoves ==
    ASSUME TypeOK, NEW t \in Threads, NEW l, Goto(t, l)
    PROVE  /\ StOf[t] = StateAt(pc[t])
           /\ StOf' = [StOf EXCEPT ![t] = StateAt(l)]
<1>1. StOf = [u \in Threads |-> StateAt(pc[u])]
  BY StateOf DEF StOf
<1>2. StOf' = [u \in Threads |-> StateAt(pc'[u])]
  <2>1. \A u \in Threads : AbstractState(u)' = StateAt(pc'[u])
    <3> TAKE u \in Threads
    <3>1. CASE pc'[u] \in Idle
      BY <3>1 DEF AbstractState, StateAt, Owns, Owning, Idle
    <3>2. CASE pc'[u] \in Owning
      BY <3>2 DEF AbstractState, StateAt, Owns, Owning, Idle
    <3>3. CASE pc'[u] \notin Idle /\ pc'[u] \notin Owning
      BY <3>3 DEF AbstractState, StateAt, Owns, Owning, Idle
    <3> QED BY <3>1, <3>2, <3>3
  <2> QED BY <2>1 DEF StOf
<1>3. pc' = [pc EXCEPT ![t] = l] /\ pc \in [Threads -> PushPC \cup PopPC]
  BY DEF Goto, TypeOK
<1> QED BY <1>1, <1>2, <1>3

(* The abstract queue depends on head, tail and the cells between them.    *)
LEMMA FifoUnchanged ==
    ASSUME TypeOK, head' = head, tail' = tail,
           \A i \in Nat : head <= i /\ i < tail => cells'[item_addr(i)] = cells[item_addr(i)]
    PROVE  FifoOf' = FifoOf
<1>1. \A i \in 1 .. tail - head : cells'[item_addr(head + i - 1)] = cells[item_addr(head + i - 1)]
  BY DEF TypeOK
<1>2. FifoOf' = [i \in 1 .. tail - head |-> cells'[item_addr(head + i - 1)]]
  BY DEF FifoOf
<1> QED BY <1>1, <1>2 DEF FifoOf

(* The abstract queue is a sequence of what cells hold.                    *)
LEMMA FifoType ==
    ASSUME TypeOK, head <= tail
    PROVE  FifoOf \in [1 .. tail - head -> Items \cup {None}]
  BY ItemAddrType DEF FifoOf, TypeOK

(* The cell a push copies into is none that another call owns and none of  *)
(* the queue's.                                                            *)
LEMMA CopyInMisses ==
    ASSUME PowerOfTwoSize, IndInv, NEW p \in Producers, Owns(p)
    PROVE  /\ \A t \in Threads : t # p /\ Owns(t) => item_addr(idx[t]) # item_addr(idx[p])
           /\ \A i \in Nat : head <= i /\ i < tail => item_addr(i) # item_addr(idx[p])
<1>1. p \in Threads /\ idx[p] \in Nat
  BY DEF IndInv, TypeOK, Threads
<1>2. ASSUME NEW i \in Nat, temp_head <= i, i < temp_head + Size, i # idx[p]
      PROVE  item_addr(i) # item_addr(idx[p])
  <2>1. idx[p] - i < Size /\ i - idx[p] < Size
    BY <1>1, <1>2, SizeAssumption DEF IndInv, TypeOK, Claims, CounterOrder
  <2>2. SUFFICES ASSUME i % Size = idx[p] % Size PROVE FALSE
    BY <1>1, ItemAddrIsMod
  <2>3. i \in Int /\ idx[p] \in Int
    BY <1>1
  <2>4. i = idx[p]
    BY <2>1, <2>2, <2>3, SizeAssumption, ModInjective, Zenon
  <2> QED BY <1>2, <2>4
<1>3. ASSUME NEW t \in Threads, t # p, Owns(t)
      PROVE  item_addr(idx[t]) # item_addr(idx[p])
  <2>1. idx[t] \in Nat /\ idx[t] # idx[p]
    BY <1>1, <1>3 DEF IndInv, TypeOK, Claims
  <2>2. temp_head <= idx[t] /\ idx[t] < temp_head + Size
    BY <1>3, SizeAssumption DEF IndInv, TypeOK, Claims, CounterOrder, Threads
  <2> QED BY <1>2, <2>1, <2>2
<1>4. ASSUME NEW i \in Nat, head <= i, i < tail
      PROVE  item_addr(i) # item_addr(idx[p])
  <2>1. temp_head <= i /\ i < temp_head + Size /\ i # idx[p]
    BY <1>1, <1>4, SizeAssumption DEF IndInv, TypeOK, Claims, CounterOrder
  <2> QED BY <1>2, <2>1
<1> QED BY <1>3, <1>4

(* Every step keeps the copied items in their cells.                       *)
LEMMA CopiedKept ==
    ASSUME PowerOfTwoSize, RefInv, TypeOK', [Next]_vars
    PROVE  Copied'
<1> USE ThreadAssumption DEF RefInv, Copied
<1> DEFINE Held == {"await_tail", "bump_tail"}
<1>0. /\ pc \in [Threads -> PushPC \cup PopPC] /\ idx \in [Threads -> Nat]
      /\ item \in [Threads -> Items \cup {None}] /\ cells \in [Cells -> Items \cup {None}]
      /\ Producers \subseteq Threads /\ Consumers \subseteq Threads
  BY DEF IndInv, TypeOK, Threads
(* A step of a thread that is not holding a copied item afterwards, and    *)
(* touches no cell and no local of another thread *)
<1>1. ASSUME NEW t \in Threads, NEW l, Goto(t, l), l \notin Held, cells' = cells,
             \A u \in Threads : u # t => idx'[u] = idx[u] /\ item'[u] = item[u]
      PROVE  Copied'
  BY <1>0, <1>1 DEF Goto
<1>2. ASSUME NEW p \in Producers, NEW x \in Items, Push(p, x) PROVE Copied'
  BY <1>0, <1>1, <1>2 DEF Push
<1>3. ASSUME NEW p \in Producers, LoadTempTail(p) PROVE Copied'
  BY <1>0, <1>1, <1>3 DEF LoadTempTail
<1>4. ASSUME NEW p \in Producers, LoadTempHead(p) PROVE Copied'
  BY <1>0, <1>1, <1>4 DEF LoadTempHead, Return
<1>5. ASSUME NEW p \in Producers, CasTempTail(p) PROVE Copied'
  BY <1>0, <1>1, <1>5 DEF CasTempTail
<1>6. ASSUME NEW p \in Producers, CopyIn(p) PROVE Copied'
  <2>1. Owns(p) /\ item_addr(idx[p]) \in Cells
    BY <1>0, <1>6, ItemAddrType DEF CopyIn, Owns, Owning
  <2>2. idx' = idx /\ item' = item /\ pc' = [pc EXCEPT ![p] = "await_tail"]
        /\ cells' = [cells EXCEPT ![item_addr(idx[p])] = item[p]]
    BY <1>6 DEF CopyIn, Goto
  <2>3. ASSUME NEW q \in Producers, q # p, pc[q] \in Held
        PROVE  cells'[item_addr(idx[q])] = item[q]
    <3>1. Owns(q) /\ item_addr(idx[q]) \in Cells
      BY <1>0, <2>3, ItemAddrType DEF Owns, Owning
    <3>2. item_addr(idx[q]) # item_addr(idx[p])
      BY <1>0, <2>1, <2>3, <3>1, CopyInMisses
    <3> QED BY <1>0, <2>2, <2>3, <3>1, <3>2
  <2>4. cells'[item_addr(idx[p])] = item[p]
    BY <1>0, <2>1, <2>2
  <2> QED BY <1>0, <2>2, <2>3, <2>4
<1>7. ASSUME NEW p \in Producers, AwaitTail(p) PROVE Copied'
  BY <1>0, <1>7 DEF AwaitTail, Goto, counters
<1>8. ASSUME NEW p \in Producers, BumpTail(p) PROVE Copied'
  BY <1>0, <1>1, <1>8 DEF BumpTail, Return
<1>9. ASSUME NEW c \in Consumers, Pop(c) PROVE Copied'
  BY <1>0, <1>1, <1>9 DEF Pop
<1>10. ASSUME NEW c \in Consumers, LoadHead(c) PROVE Copied'
  BY <1>0, <1>1, <1>10 DEF LoadHead
<1>11. ASSUME NEW c \in Consumers, LoadTail(c) PROVE Copied'
  BY <1>0, <1>1, <1>11 DEF LoadTail, Return
<1>12. ASSUME NEW c \in Consumers, CasHead(c) PROVE Copied'
  BY <1>0, <1>1, <1>12 DEF CasHead
<1>13. ASSUME NEW c \in Consumers, CopyOut(c) PROVE Copied'
  BY <1>0, <1>1, <1>13 DEF CopyOut
<1>14. ASSUME NEW c \in Consumers, AwaitTempHead(c) PROVE Copied'
  BY <1>0, <1>1, <1>14 DEF AwaitTempHead
<1>15. ASSUME NEW c \in Consumers, BumpTempHead(c) PROVE Copied'
  BY <1>0, <1>1, <1>15 DEF BumpTempHead, Return
<1>16. CASE UNCHANGED vars
  BY <1>16 DEF vars
<1> QED
  BY <1>2, <1>3, <1>4, <1>5, <1>6, <1>7, <1>8, <1>9, <1>10, <1>11, <1>12, <1>13,
     <1>14, <1>15, <1>16 DEF Next, PushStep, PopStep
-----------------------------------------------------------------------------
(* A step that only moves a thread within a call, and changes its own idx  *)
(* at most, changes nothing of the abstract queue.                         *)
LEMMA Stutters ==
    ASSUME RefInv, NEW t \in Threads, NEW l, Goto(t, l),
           StateAt(l) = StateAt(pc[t]), pc[t] # "copy_out", l # "copy_out",
           \A u \in Threads : u # t => idx'[u] = idx[u],
           UNCHANGED <<counters, cells, item>>
    PROVE  UNCHANGED Fifo!vars
<1>1. FifoOf' = FifoOf
  BY FifoUnchanged DEF RefInv, IndInv, counters
<1>2. UsedOf' = UsedOf
  BY DEF UsedOf, counters
<1>3. StOf' = StOf
  BY StateMoves DEF RefInv, IndInv, StOf
<1>4. ItemOf' = ItemOf
  BY DEF ItemOf, Goto, RefInv, IndInv, TypeOK
<1> QED BY <1>1, <1>2, <1>3, <1>4 DEF Fifo!vars, FifoOf, UsedOf, StOf, ItemOf

(* A call that is refused had claimed nothing: only its own abstract state *)
(* and item change.                                                        *)
LEMMA Refused ==
    ASSUME RefInv, NEW t \in Threads, Return(t, "refused"), pc[t] # "copy_out",
           UNCHANGED <<counters, cells>>
    PROVE  /\ FifoOf' = FifoOf /\ UsedOf' = UsedOf
           /\ StOf[t] = StateAt(pc[t])
           /\ StOf' = [StOf EXCEPT ![t] = "refused"]
           /\ ItemOf' = [ItemOf EXCEPT ![t] = None]
<1>1. FifoOf' = FifoOf
  BY FifoUnchanged DEF RefInv, IndInv, counters
<1>2. UsedOf' = UsedOf
  BY DEF UsedOf, counters
<1>3. StOf[t] = StateAt(pc[t]) /\ StOf' = [StOf EXCEPT ![t] = "refused"]
  BY StateMoves DEF RefInv, IndInv, Return, StateAt, Idle
<1>4. ItemOf' = [ItemOf EXCEPT ![t] = None]
  BY DEF ItemOf, Goto, Return, RefInv, IndInv, TypeOK
<1> QED BY <1>1, <1>2, <1>3, <1>4

(* Every step of a push is a step of BoundedFifo or changes nothing of it: *)
(* it reserves at its compare-and-swap, publishes when tail moves, and is  *)
(* refused at the load of temp_head.                                       *)
LEMMA PushSimulates ==
    ASSUME PowerOfTwoSize, RefInv, NEW p \in Producers,
           (\E x \in Items : Push(p, x)) \/ PushStep(p)
    PROVE  [Fifo!Next]_(Fifo!vars)
<1> USE DEF StateAt, Idle, Owning
<1>0. p \in Threads /\ TypeOK /\ CounterOrder /\ Claims
  BY DEF Threads, RefInv, IndInv
<1>a. head \in Nat /\ tail \in Nat /\ temp_head \in Nat /\ temp_tail \in Nat /\ idx[p] \in Nat
  BY <1>0 DEF TypeOK
<1>1. ASSUME NEW x \in Items, Push(p, x) PROVE Fifo!CallPush(p, x)
  <2>1. FifoOf' = FifoOf
    BY <1>0, <1>1, FifoUnchanged DEF Push, counters
  <2>2. UsedOf' = UsedOf
    BY <1>1 DEF UsedOf, Push, counters
  <2>3. StOf[p] \in Idle /\ StOf' = [StOf EXCEPT ![p] = "calling"]
    BY <1>0, <1>1, StateMoves DEF Push
  <2>4. ItemOf' = [ItemOf EXCEPT ![p] = x]
    BY <1>0, <1>1 DEF Push, Goto, ItemOf, TypeOK
  <2> QED BY <2>1, <2>2, <2>3, <2>4 DEF Fifo!CallPush, Fifo!Idle, FifoOf, UsedOf, StOf, ItemOf
<1>2. ASSUME LoadTempTail(p) PROVE UNCHANGED Fifo!vars
  BY <1>0, <1>2, Stutters DEF LoadTempTail, TypeOK
<1>3. ASSUME LoadTempHead(p) PROVE UNCHANGED Fifo!vars \/ Fifo!Full(p)
  <2>1. CASE temp_head + Size = idx[p] /\ Return(p, "refused")
    <3>1. UsedOf = Size
      BY <1>0, <1>a, <1>3, <2>1, SizeAssumption DEF UsedOf, LoadTempHead, Claims, CounterOrder
    <3>2. /\ FifoOf' = FifoOf /\ UsedOf' = UsedOf
          /\ StOf[p] = "calling"
          /\ StOf' = [StOf EXCEPT ![p] = "refused"]
          /\ ItemOf' = [ItemOf EXCEPT ![p] = None]
      BY <1>0, <1>3, <2>1, Refused DEF LoadTempHead
    <3> QED BY <3>1, <3>2 DEF Fifo!Full, Fifo!Return, FifoOf, UsedOf, StOf, ItemOf
  <2>2. CASE ~(temp_head + Size = idx[p] /\ Return(p, "refused"))
    BY <1>0, <1>3, <2>2, Stutters DEF LoadTempHead
  <2> QED BY <2>1, <2>2
<1>4. ASSUME CasTempTail(p) PROVE UNCHANGED Fifo!vars \/ Fifo!Reserve(p)
  <2>1. CASE temp_tail = idx[p] /\ temp_tail' = temp_tail + 1 /\ Goto(p, "copy_in")
    <3>1. FifoOf' = FifoOf
      BY <1>0, <1>4, FifoUnchanged DEF CasTempTail
    <3>2. UsedOf < Size /\ UsedOf' = UsedOf + 1
      BY <1>0, <1>a, <1>4, <2>1, SizeAssumption DEF UsedOf, CasTempTail, Claims
    <3>3. StOf[p] = "calling" /\ StOf' = [StOf EXCEPT ![p] = "claimed"]
      BY <1>0, <1>4, <2>1, StateMoves DEF CasTempTail
    <3>4. ItemOf' = ItemOf
      BY <1>0, <1>4, <2>1 DEF CasTempTail, Goto, ItemOf, TypeOK
    <3> QED BY <3>1, <3>2, <3>3, <3>4 DEF Fifo!Reserve, FifoOf, UsedOf, StOf, ItemOf
  <2>2. CASE ~(temp_tail = idx[p] /\ temp_tail' = temp_tail + 1 /\ Goto(p, "copy_in"))
    BY <1>0, <1>4, <2>2, Stutters DEF CasTempTail, counters
  <2> QED BY <2>1, <2>2
<1>5. ASSUME CopyIn(p) PROVE UNCHANGED Fifo!vars
  <2>1. Owns(p) /\ item_addr(idx[p]) \in Cells
    BY <1>a, <1>5, ItemAddrType DEF CopyIn, Owns
  <2>2. /\ cells' = [cells EXCEPT ![item_addr(idx[p])] = item[p]]
        /\ head' = head /\ tail' = tail /\ idx' = idx /\ item' = item
        /\ temp_head' = temp_head /\ temp_tail' = temp_tail
        /\ Goto(p, "await_tail") /\ pc[p] = "copy_in"
    BY <1>5 DEF CopyIn, counters
  <2>3. ASSUME NEW i \in Nat, head <= i, i < tail
        PROVE  cells'[item_addr(i)] = cells[item_addr(i)]
    <3>1. item_addr(i) # item_addr(idx[p]) /\ item_addr(i) \in Cells
      BY <2>1, <2>3, CopyInMisses, ItemAddrType DEF RefInv
    <3> QED BY <1>0, <2>1, <2>2, <3>1 DEF TypeOK
  <2>4. FifoOf' = FifoOf
    BY <1>0, <2>2, <2>3, FifoUnchanged
  <2>5. StOf' = StOf
    BY <1>0, <2>2, StateMoves DEF StOf
  <2>6. ASSUME NEW t \in Threads, pc[t] = "copy_out"
        PROVE  cells'[item_addr(idx[t])] = cells[item_addr(idx[t])]
    <3>1. idx[t] \in Nat /\ Owns(t) /\ t # p
      BY <1>0, <2>2, <2>6 DEF TypeOK, Owns
    <3>2. item_addr(idx[t]) # item_addr(idx[p]) /\ item_addr(idx[t]) \in Cells
      BY <2>1, <3>1, CopyInMisses, ItemAddrType DEF RefInv
    <3> QED BY <1>0, <2>1, <2>2, <3>2 DEF TypeOK
  <2>7. ItemOf' = ItemOf
    BY <1>0, <2>2, <2>6 DEF ItemOf, Goto, TypeOK
  <2> QED BY <2>2, <2>4, <2>5, <2>7 DEF Fifo!vars, FifoOf, UsedOf, StOf, ItemOf
<1>6. ASSUME AwaitTail(p) PROVE UNCHANGED Fifo!vars
  BY <1>0, <1>6, Stutters DEF AwaitTail
<1>7. ASSUME BumpTail(p) PROVE Fifo!Publish(p)
  <2>1. /\ tail' = tail + 1 /\ head' = head /\ cells' = cells /\ Return(p, "ok")
        /\ temp_head' = temp_head /\ temp_tail' = temp_tail /\ pc[p] = "bump_tail"
    BY <1>7 DEF BumpTail
  <2>2. cells[item_addr(tail)] = item[p]
    BY <1>0, <2>1 DEF RefInv, Copied, Claims
  <2>3. FifoOf' = Append(FifoOf, item[p])
    <3> DEFINE n == tail - head
               g == [i \in 1 .. n + 1 |-> cells[item_addr(head + i - 1)]]
    <3>1. n \in Nat
      BY <1>0, <1>a DEF CounterOrder
    <3>2. FifoOf' = g
      BY <1>a, <2>1 DEF FifoOf
    <3>3. g \in [1 .. n + 1 -> Items \cup {None}]
      BY <1>0, <1>a, <3>1, ItemAddrType DEF TypeOK
    <3>4. FifoOf \in [1 .. n -> Items \cup {None}]
      BY <1>0, <3>1, FifoType DEF CounterOrder
    <3>5. \A i \in 1 .. n : g[i] = FifoOf[i]
      BY <3>1 DEF FifoOf
    <3>6. g[n + 1] = item[p]
      BY <1>a, <2>2, <3>1
    <3> HIDE DEF g, n
    <3> QED BY <3>1, <3>2, <3>3, <3>4, <3>5, <3>6, AppendFun
  <2>4. StOf[p] = "claimed" /\ StOf' = [StOf EXCEPT ![p] = "ok"]
    BY <1>0, <2>1, StateMoves DEF Return
  <2>5. ItemOf[p] = item[p] /\ ItemOf' = [ItemOf EXCEPT ![p] = None]
    BY <1>0, <2>1 DEF Return, Goto, ItemOf, TypeOK
  <2>6. UsedOf' = UsedOf
    BY <2>1 DEF UsedOf
  <2> QED BY <2>3, <2>4, <2>5, <2>6 DEF Fifo!Publish, Fifo!Return, FifoOf, UsedOf, StOf, ItemOf
<1> QED BY <1>1, <1>2, <1>3, <1>4, <1>5, <1>6, <1>7 DEF PushStep, Fifo!Next

(* Every step of a pop is a step of BoundedFifo or changes nothing of it:  *)
(* it takes the oldest item at its compare-and-swap, although it copies it *)
(* later, gives the cell back when temp_head moves, and is refused at the  *)
(* load of tail.                                                           *)
LEMMA PopSimulates ==
    ASSUME RefInv, NEW c \in Consumers, Pop(c) \/ PopStep(c)
    PROVE  [Fifo!Next]_(Fifo!vars)
<1> USE DEF StateAt, Idle, Owning
<1>0. c \in Threads /\ TypeOK /\ CounterOrder /\ Claims
  BY DEF Threads, RefInv, IndInv
<1>a. head \in Nat /\ tail \in Nat /\ temp_head \in Nat /\ temp_tail \in Nat /\ idx[c] \in Nat
  BY <1>0 DEF TypeOK
<1>1. ASSUME Pop(c) PROVE Fifo!CallPop(c)
  <2>1. FifoOf' = FifoOf
    BY <1>0, <1>1, FifoUnchanged DEF Pop, counters
  <2>2. UsedOf' = UsedOf
    BY <1>1 DEF UsedOf, Pop, counters
  <2>3. StOf[c] \in Idle /\ StOf' = [StOf EXCEPT ![c] = "calling"]
    BY <1>0, <1>1, StateMoves DEF Pop
  <2>4. ItemOf' = ItemOf
    BY <1>0, <1>1 DEF Pop, Goto, ItemOf, TypeOK
  <2> QED BY <2>1, <2>2, <2>3, <2>4 DEF Fifo!CallPop, Fifo!Idle, FifoOf, UsedOf, StOf, ItemOf
<1>2. ASSUME LoadHead(c) PROVE UNCHANGED Fifo!vars
  BY <1>0, <1>2, Stutters DEF LoadHead, TypeOK
<1>3. ASSUME LoadTail(c) PROVE UNCHANGED Fifo!vars \/ Fifo!Empty(c)
  <2>1. CASE idx[c] = tail /\ Return(c, "refused")
    <3>1. head = tail
      BY <1>0, <1>a, <1>3, <2>1 DEF LoadTail, Claims, CounterOrder
    <3>2. FifoOf = <<>>
      <4>1. FifoOf \in [1 .. 0 -> Items \cup {None}]
        BY <1>0, <1>a, <3>1, FifoType DEF CounterOrder
      <4> QED BY <4>1, FunIsSeq
    <3>3. /\ FifoOf' = FifoOf /\ UsedOf' = UsedOf
          /\ StOf[c] = "calling"
          /\ StOf' = [StOf EXCEPT ![c] = "refused"]
          /\ ItemOf' = [ItemOf EXCEPT ![c] = None]
      BY <1>0, <1>3, <2>1, Refused DEF LoadTail
    <3> QED BY <3>2, <3>3 DEF Fifo!Empty, Fifo!Return, FifoOf, UsedOf, StOf, ItemOf
  <2>2. CASE ~(idx[c] = tail /\ Return(c, "refused"))
    BY <1>0, <1>3, <2>2, Stutters DEF LoadTail
  <2> QED BY <2>1, <2>2
<1>4. ASSUME CasHead(c) PROVE UNCHANGED Fifo!vars \/ Fifo!Take(c)
  <2>1. CASE head = idx[c] /\ head' = head + 1 /\ Goto(c, "copy_out")
    <3>1. /\ tail' = tail /\ cells' = cells /\ idx' = idx /\ item' = item
          /\ temp_head' = temp_head /\ temp_tail' = temp_tail /\ pc[c] = "cas_head"
      BY <1>4 DEF CasHead
    <3> DEFINE n == tail - head - 1
               g == [i \in 1 .. n |-> cells[item_addr(head + 1 + i - 1)]]
    <3>2. n \in Nat /\ tail - head = n + 1
      BY <1>0, <1>a, <2>1, <3>1 DEF Claims
    <3>3. FifoOf' = g
      <4>1. tail' - head' = n
        BY <1>a, <2>1, <3>1
      <4> QED BY <2>1, <3>1, <4>1 DEF FifoOf
    <3>4. g \in [1 .. n -> Items \cup {None}]
      BY <1>0, <1>a, <3>2, ItemAddrType DEF TypeOK
    <3>5. FifoOf \in [1 .. n + 1 -> Items \cup {None}]
      BY <1>0, <3>2, FifoType DEF CounterOrder
    <3>6. \A i \in 1 .. n : g[i] = FifoOf[i + 1]
      <4> TAKE i \in 1 .. n
      <4>1. head + 1 + i - 1 = head + (i + 1) - 1 /\ i + 1 \in 1 .. tail - head
        BY <1>a, <3>2
      <4> QED BY <4>1 DEF FifoOf
    <3>7. FifoOf[1] = cells[item_addr(idx[c])]
      <4>1. 1 \in 1 .. tail - head /\ head + 1 - 1 = idx[c]
        BY <1>a, <2>1, <3>2
      <4> QED BY <4>1 DEF FifoOf
    <3> HIDE DEF g, n
    <3>8. g = Tail(FifoOf) /\ Head(FifoOf) = FifoOf[1] /\ FifoOf # <<>>
      BY <3>2, <3>4, <3>5, <3>6, TailFun
    <3>9. StOf[c] = "calling" /\ StOf' = [StOf EXCEPT ![c] = "claimed"]
      BY <1>0, <2>1, <3>1, StateMoves
    <3>10. ItemOf' = [ItemOf EXCEPT ![c] = Head(FifoOf)]
      BY <1>0, <2>1, <3>1, <3>7, <3>8 DEF Goto, ItemOf, TypeOK
    <3>11. UsedOf' = UsedOf
      BY <3>1 DEF UsedOf
    <3> QED BY <3>3, <3>8, <3>9, <3>10, <3>11 DEF Fifo!Take, FifoOf, UsedOf, StOf, ItemOf
  <2>2. CASE ~(head = idx[c] /\ head' = head + 1 /\ Goto(c, "copy_out"))
    BY <1>0, <1>4, <2>2, Stutters DEF CasHead, counters
  <2> QED BY <2>1, <2>2
<1>5. ASSUME CopyOut(c) PROVE UNCHANGED Fifo!vars
  <2>1. FifoOf' = FifoOf
    BY <1>0, <1>5, FifoUnchanged DEF CopyOut, counters
  <2>2. UsedOf' = UsedOf
    BY <1>5 DEF UsedOf, CopyOut, counters
  <2>3. StOf' = StOf
    BY <1>0, <1>5, StateMoves DEF CopyOut, StOf
  <2>4. ItemOf' = ItemOf
    BY <1>0, <1>5 DEF CopyOut, Goto, ItemOf, TypeOK
  <2> QED BY <2>1, <2>2, <2>3, <2>4 DEF Fifo!vars, FifoOf, UsedOf, StOf, ItemOf
<1>6. ASSUME AwaitTempHead(c) PROVE UNCHANGED Fifo!vars
  BY <1>0, <1>6, Stutters DEF AwaitTempHead
<1>7. ASSUME BumpTempHead(c) PROVE Fifo!GiveBack(c)
  <2>1. FifoOf' = FifoOf
    BY <1>0, <1>7, FifoUnchanged DEF BumpTempHead
  <2>2. UsedOf' = UsedOf - 1
    BY <1>a, <1>7 DEF UsedOf, BumpTempHead
  <2>3. StOf[c] = "claimed" /\ StOf' = [StOf EXCEPT ![c] = "ok"]
    BY <1>0, <1>7, StateMoves DEF BumpTempHead, Return
  <2>4. ItemOf' = [ItemOf EXCEPT ![c] = None]
    BY <1>0, <1>7 DEF BumpTempHead, Return, Goto, ItemOf, TypeOK
  <2> QED BY <2>1, <2>2, <2>3, <2>4 DEF Fifo!GiveBack, Fifo!Return, FifoOf, UsedOf, StOf, ItemOf
<1> QED BY <1>1, <1>2, <1>3, <1>4, <1>5, <1>6, <1>7 DEF PopStep, Fifo!Next

(* For every number of threads and calls and every power of two size, the  *)
(* queue implements BoundedFifo: first in, first out, nothing lost, taken  *)
(* twice or invented, and refusals only when it was really full or empty.  *)
THEOREM QueueImplementsFifo ==
    ASSUME PowerOfTwoSize
    PROVE  Spec => ImplementsFifo
<1>1. Init => RefInv /\ Fifo!Init
  <2> SUFFICES ASSUME Init PROVE RefInv /\ Fifo!Init
    OBVIOUS
  <2>1. IndInv /\ Copied
    BY SizeAssumption
       DEF Init, IndInv, Copied, TypeOK, CounterOrder, NoAbort, Claims, Owns, Owning,
           Cells, PushPC, PopPC, Threads, Idle
  <2>2. FifoOf = <<>>
    <3>1. FifoOf \in [1 .. 0 -> Items \cup {None}]
      BY <2>1, FifoType DEF Init, IndInv
    <3> QED BY <3>1, FunIsSeq
  <2>3. StOf = [t \in Threads |-> "ok"]
    BY StateOf DEF Init, StOf, StateAt, Idle
  <2>4. UsedOf = 0 /\ ItemOf = [t \in Threads |-> None]
    BY DEF Init, UsedOf, ItemOf
  <2> QED BY <2>1, <2>2, <2>3, <2>4
          DEF RefInv, Fifo!Init, Fifo!Threads, FifoOf, UsedOf, StOf, ItemOf, Threads
<1>2. RefInv /\ TypeOK' /\ [Next]_vars => RefInv'
  <2> SUFFICES ASSUME RefInv, TypeOK', [Next]_vars PROVE RefInv'
    OBVIOUS
  <2>1. Copied'
    BY CopiedKept
  <2>2. IndInv'
    <3>1. CASE UNCHANGED vars
      BY <3>1 DEF vars, RefInv, IndInv, TypeOK, CounterOrder, NoAbort, Claims, Owns
    <3> QED BY <3>1, PushKeepsIndInv, PopKeepsIndInv DEF Next, RefInv
  <2> QED BY <2>1, <2>2 DEF RefInv
<1>3. RefInv /\ [Next]_vars => [Fifo!Next]_(Fifo!vars)
  <2> SUFFICES ASSUME RefInv, [Next]_vars PROVE [Fifo!Next]_(Fifo!vars)
    OBVIOUS
  <2>1. CASE UNCHANGED vars
    BY <2>1 DEF vars, Fifo!vars, AbstractState, Owns
  <2> QED BY <2>1, PushSimulates, PopSimulates DEF Next
<1>4. Spec => []RefInv
  BY <1>1, <1>2, TypeCorrect, PTL DEF Spec
<1> QED BY <1>1, <1>3, <1>4, PTL DEF Spec, ImplementsFifo, Fifo!Spec
=============================================================================
