----------------------------- MODULE ByteQueue -----------------------------
(***************************************************************************)
(* tcp/byte_queue.c: a growing buffer whose unread bytes lie at            *)
(* head .. head + size - 1.  A queue is represented by what can be read    *)
(* from byte_queue_start_read on, by head and by the capacity; the memory  *)
(* outside the unread bytes is written before it is read.  Garbage is a    *)
(* byte nobody wrote.  Allocation succeeds.                                *)
(***************************************************************************)
EXTENDS Integers, Sequences, FiniteSetsExt

Garbage == -1

byte_queue_init == [bytes |-> <<>>, head |-> 0, capacity |-> 0]

used_space(q) == Len(q.bytes)
free_space(q) == q.capacity - used_space(q) - q.head

NeedsResize(q, num) == free_space(q) < num /\ q.capacity - used_space(q) < num
NeedsMove(q, num) == free_space(q) < num /\ q.capacity - used_space(q) >= num

(* Memory that holds the unread bytes at its front, read from head on *)
ReadFromHead(q) ==
    [i \in 1 .. used_space(q) |->
        IF q.head + i <= used_space(q) THEN q.bytes[q.head + i] ELSE Garbage]

(* Mutant of ensure_min_free_space: a move leaves head as it is, too. *)
ensure_min_free_spaceKeepsHead(q, num) ==
    IF NeedsResize(q, num)
    THEN [bytes    |-> ReadFromHead(q),
          head     |-> q.head,
          capacity |-> Max({2 * q.capacity, used_space(q) + num})]
    ELSE IF NeedsMove(q, num) THEN [q EXCEPT !.bytes = ReadFromHead(q)] ELSE q

(* A resize copies the unread bytes to the front of the new memory but     *)
(* leaves head as it is; a move sets it to 0.                              *)
ensure_min_free_space(q, num) ==
    IF NeedsResize(q, num)
    THEN [bytes    |-> ReadFromHead(q),
          head     |-> q.head,
          capacity |-> Max({2 * q.capacity, used_space(q) + num})]
    ELSE IF NeedsMove(q, num) THEN [q EXCEPT !.head = 0] ELSE q

(* A resize of a queue that was partly read *)
ResizePartlyRead(q, num) == NeedsResize(q, num) /\ q.head > 0

(* Bytes copied to byte_queue_start_write, then byte_queue_end_write *)
end_write(q, bytes) == [q EXCEPT !.bytes = @ \o bytes]

end_read(q, num) ==
    [q EXCEPT !.head = @ + num, !.bytes = SubSeq(@, num + 1, Len(@))]
=============================================================================
