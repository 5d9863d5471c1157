------------------------------ MODULE SpscRing ------------------------------
(***************************************************************************)
(* lockfree/spsc_queue.c: the arithmetic of the ring.  head and tail only  *)
(* grow; an index is masked into the array, and the items head .. tail - 1 *)
(* lie in one piece of the array or in two.                                *)
(***************************************************************************)
EXTENDS Integers

CONSTANT Cap  \* 1 << cap_log2

ASSUME CapAssumption == Cap \in Nat \ {0}

Masked(i) == i % Cap

Piece(off, num) == [off |-> off, num |-> num]

(* Mutant of peek_0: the piece always reaches to the end of the array. *)
peek_0ToTheEnd(head, tail) ==
    IF head = tail THEN Piece(0, 0) ELSE Piece(Masked(head), Cap - Masked(head))

(* The first piece: from the head to the tail or to the end of the array *)
peek_0(head, tail) ==
    IF head = tail
    THEN Piece(0, 0)
    ELSE IF Masked(head) < Masked(tail)
         THEN Piece(Masked(head), Masked(tail) - Masked(head))
         ELSE Piece(Masked(head), Cap - Masked(head))

(* Mutant of peek_1: a full queue is taken for one that did not wrap. *)
peek_1NotWhenFull(head, tail) ==
    IF Masked(head) <= Masked(tail) THEN Piece(0, 0) ELSE Piece(0, Masked(tail))

(* The second piece: what wrapped to the start of the array *)
peek_1(head, tail) ==
    IF head = tail \/ Masked(head) < Masked(tail)
    THEN Piece(0, 0)
    ELSE Piece(0, Masked(tail))

(* Together the two pieces of one pair of counters are the items head ..   *)
(* head + n - 1 in order: log.c writes them one after the other.           *)
PiecesCover(head, n) ==
    LET a == peek_0(head, head + n)
        b == peek_1(head, head + n)
    IN  /\ a.num + b.num = n
        /\ \A i \in 0 .. n - 1 :
              Masked(head + i) = IF i < a.num THEN a.off + i ELSE b.off + (i - a.num)
=============================================================================
