-------------------------------- MODULE Log --------------------------------
(***************************************************************************)
(* misc/log.c: threads log into buffers of their own, and one flush thread *)
(* moves the buffers' content to the file.  A buffer is a spsc_queue_t of  *)
(* bytes (SpscRing) with a semaphore_t that counts its free bytes          *)
(* (Semaphore): log_write2 takes size units before it pushes, the flush    *)
(* thread gives the units back after it popped.                            *)
(*                                                                         *)
(* The bytes of a writer are the numbers 0, 1, 2, ..., so a byte is its    *)
(* place in what the thread logged.  The destination file is one sequence: *)
(* which file name is open does not matter to the properties here.         *)
(***************************************************************************)
EXTENDS SpscRing, Sequences, FiniteSets

CONSTANTS Writers,   \* threads that log
          Sizes,     \* sizes of the messages they log
          Timeouts,  \* what log_set_flush_timeout is called with
          MaxBytes   \* bound of the model: bytes each writer logs

ASSUME SizesAssumption == Sizes \subseteq Nat  \* a message's size is unsigned

(* A negative timeout waits forever; only the sign matters here. *)
Timed == "timed"
Forever == "forever"

VARIABLES list,            \* global_thread_local_buffer_list, newest first
          head, tail, data,\* per writer: the buffer's queue
          sem,             \* per writer: count of the buffer's semaphore
          wpc, wsize, wloc,\* per writer: control, size, loaded list or head
          sent,            \* per writer: bytes of completed log_write2 calls
          fpc,             \* control of the flush thread
          cursor,          \* buffers it still has to visit in this pass
          piece0, piece1,  \* what its two peeks returned
          timeout,         \* its local timeout_ms
          final,           \* it is in the pass after the loop
          config_timeout, config_changed,
          can_terminate,
          qpc,             \* control of the thread that calls log_quit
          file,            \* bytes written, each with its writer
          torn             \* ghost: a push wrapped between the two peeks

buffers == <<head, tail, data, sem>>
callers == <<wpc, wsize, wloc, sent>>
pass == <<cursor, piece0, piece1, final, file, torn>>
config == <<config_timeout, config_changed>>
control == <<can_terminate, qpc>>
vars == <<list, buffers, callers, fpc, pass, timeout, config, control>>

NoPiece == Piece(0, 0)
NoByte == -1

Init ==
    /\ list = <<>>
    /\ head = [w \in Writers |-> 0]
    /\ tail = [w \in Writers |-> 0]
    /\ data = [w \in Writers |-> [i \in 0 .. Cap - 1 |-> NoByte]]
    /\ sem = [w \in Writers |-> Cap]
    /\ wpc = [w \in Writers |-> "idle"]
    /\ wsize = [w \in Writers |-> 0]
    /\ wloc = [w \in Writers |-> 0]
    /\ sent = [w \in Writers |-> 0]
    /\ fpc = "start" /\ cursor = <<>> /\ piece0 = NoPiece /\ piece1 = NoPiece
    /\ timeout = Timed /\ final = FALSE
    /\ config_timeout = Timed /\ config_changed = FALSE
    /\ can_terminate = FALSE
    /\ qpc = "running"
    /\ file = <<>>
    /\ torn = FALSE

Linked(w) == \E i \in 1 .. Len(list) : list[i] = w

WGoto(w, l) == wpc' = [wpc EXCEPT ![w] = l]
-----------------------------------------------------------------------------
(* log_write2, called by a thread while the log is running *)

log_write2(w, n) ==
    /\ wpc[w] = "idle"
    /\ qpc = "running"
    /\ sent[w] + n <= MaxBytes[w]
    /\ wsize' = [wsize EXCEPT ![w] = n]
    /\ WGoto(w, IF n > Cap THEN "aborted"
                ELSE IF Linked(w) THEN "check_free" ELSE "load_list")
    /\ UNCHANGED <<list, wloc, sent, fpc, timeout, buffers, pass, config, control>>

(* The thread's first message: it links a new buffer into the list.  The   *)
(* list only grows, so its length tells whether the head pointer moved.    *)
LoadList(w) ==
    /\ wpc[w] = "load_list"
    /\ wloc' = [wloc EXCEPT ![w] = Len(list)]
    /\ WGoto(w, "cas_list")
    /\ UNCHANGED <<list, wsize, sent, fpc, timeout, buffers, pass, config, control>>

CasList(w) ==
    /\ wpc[w] = "cas_list"
    /\ \/ /\ Len(list) = wloc[w]
          /\ list' = <<w>> \o list
          /\ WGoto(w, "check_free")
       \/ /\ WGoto(w, "load_list")
          /\ UNCHANGED list
    /\ wloc' = [wloc EXCEPT ![w] = 0]
    /\ UNCHANGED <<wsize, sent, fpc, timeout, buffers, pass, config, control>>

CheckFree(w) ==
    /\ wpc[w] = "check_free"
    /\ WGoto(w, IF Cap - (tail[w] - head[w]) < wsize[w] THEN "wakeup" ELSE "sem_wait")
    /\ UNCHANGED <<list, wsize, wloc, sent, fpc, timeout, buffers, pass, config, control>>

(* The signal of can_flush_event: lost unless the flush thread waits. *)
SignalFlush == fpc' = IF fpc = "waiting" THEN "read_config" ELSE fpc

wakeup_flush_routine(w) ==
    /\ wpc[w] = "wakeup"
    /\ SignalFlush
    /\ WGoto(w, "sem_wait")
    /\ UNCHANGED <<list, wsize, wloc, sent, timeout, buffers, pass, config, control>>

(* semaphore_wait without a timeout: the assert on its count, then one     *)
(* turn of its loop.  The flush thread or a spurious wakeup ends the sleep.*)
SemWait(w) ==
    /\ wpc[w] = "sem_wait"
    /\ IF wsize[w] = 0
       THEN WGoto(w, "aborted") /\ UNCHANGED sem
       ELSE IF sem[w] >= wsize[w]
            THEN /\ sem' = [sem EXCEPT ![w] = @ - wsize[w]]
                 /\ WGoto(w, "load_head")
            ELSE WGoto(w, "asleep") /\ UNCHANGED sem
    /\ UNCHANGED <<list, head, tail, data, wsize, wloc, sent, fpc, timeout, pass, config, control>>

SpuriousWakeup(w) ==
    /\ wpc[w] = "asleep"
    /\ WGoto(w, "sem_wait")
    /\ UNCHANGED <<list, wsize, wloc, sent, fpc, timeout, buffers, pass, config, control>>

(* spsc_queue_multi_push, whose result log_write2 does not look at: a      *)
(* refused push would drop the message.                                    *)
LoadHead(w) ==
    /\ wpc[w] = "load_head"
    /\ wloc' = [wloc EXCEPT ![w] = head[w]]
    /\ WGoto(w, "push")
    /\ UNCHANGED <<list, wsize, sent, fpc, timeout, buffers, pass, config, control>>

Stored(w) ==
    [i \in 0 .. Cap - 1 |->
        LET at == CHOOSE k \in 0 .. Cap - 1 : Masked(tail[w] + k) = i
        IN  IF at < wsize[w] THEN sent[w] + at ELSE data[w][i]]

MultiPush(w) ==
    /\ wpc[w] = "push"
    /\ IF tail[w] - wloc[w] + wsize[w] > Cap
       THEN WGoto(w, "dropped") /\ UNCHANGED <<tail, data, sent>>
       ELSE /\ data' = [data EXCEPT ![w] = Stored(w)]
            /\ tail' = [tail EXCEPT ![w] = @ + wsize[w]]
            /\ sent' = [sent EXCEPT ![w] = @ + wsize[w]]
            /\ WGoto(w, "idle")
    /\ wloc' = [wloc EXCEPT ![w] = 0]
    /\ wsize' = [wsize EXCEPT ![w] = 0]
    /\ UNCHANGED <<list, head, sem, fpc, timeout, pass, config, control>>
-----------------------------------------------------------------------------
log_set_flush_timeout(t) ==
    /\ qpc = "running"
    /\ config_timeout' = t
    /\ config_changed' = TRUE
    /\ UNCHANGED <<list, fpc, timeout, buffers, callers, pass, control>>

(* log_quit, called once the writers have returned *)
QuitSetFlag ==
    /\ qpc = "running"
    /\ \A w \in Writers : wpc[w] = "idle"
    /\ can_terminate' = TRUE
    /\ qpc' = "wakeup"
    /\ UNCHANGED <<list, fpc, timeout, buffers, callers, pass, config>>

QuitWakeup ==
    /\ qpc = "wakeup"
    /\ SignalFlush
    /\ qpc' = "join"
    /\ UNCHANGED <<list, timeout, can_terminate, buffers, callers, pass, config>>

(* Joins the flush thread and frees the buffers. *)
QuitJoin ==
    /\ qpc = "join"
    /\ fpc = "done"
    /\ qpc' = "returned"
    /\ list' = <<>>
    /\ UNCHANGED <<fpc, timeout, can_terminate, buffers, callers, pass, config>>
-----------------------------------------------------------------------------
(* flush_routine *)

FlushStart ==
    /\ fpc = "start"
    /\ timeout' = config_timeout
    /\ fpc' = "test"
    /\ UNCHANGED <<list, buffers, callers, pass, config, control>>

(* Mutant of FlushTest: no pass over the buffers after the loop. *)
FlushTestNoFinalPass ==
    /\ fpc = "test"
    /\ fpc' = IF can_terminate THEN "done" ELSE "lock"
    /\ final' = can_terminate
    /\ UNCHANGED <<list, cursor, piece0, piece1, timeout, file, torn, buffers, callers, config, control>>

FlushTest ==
    /\ fpc = "test"
    /\ fpc' = IF can_terminate THEN "open" ELSE "lock"
    /\ final' = can_terminate
    /\ UNCHANGED <<list, cursor, piece0, piece1, timeout, file, torn, buffers, callers, config, control>>

(* os_condvar_wait: from here on a signal is seen, before it is lost. *)
FlushWait ==
    /\ fpc = "lock"
    /\ fpc' = "waiting"
    /\ UNCHANGED <<list, timeout, buffers, callers, pass, config, control>>

(* Mutant of FlushTimeout: a wait that timed out is started again. *)
FlushTimeoutWaitsAgain ==
    /\ fpc = "waiting"
    /\ timeout = Timed
    /\ fpc' = "lock"
    /\ UNCHANGED <<list, timeout, buffers, callers, pass, config, control>>

FlushTimeout ==
    /\ fpc = "waiting"
    /\ timeout = Timed
    /\ fpc' = "read_config"
    /\ UNCHANGED <<list, timeout, buffers, callers, pass, config, control>>

FlushSpuriousWakeup ==
    /\ fpc = "waiting"
    /\ fpc' = "read_config"
    /\ UNCHANGED <<list, timeout, buffers, callers, pass, config, control>>

FlushReadConfig ==
    /\ fpc = "read_config"
    /\ timeout' = IF config_changed THEN config_timeout ELSE timeout
    /\ config_changed' = FALSE
    /\ fpc' = "open"
    /\ UNCHANGED <<list, config_timeout, buffers, callers, pass, control>>

(* flush_thread_local_buffers: loads the list and visits its buffers *)
FlushOpen ==
    /\ fpc = "open"
    /\ cursor' = list
    /\ fpc' = "peek_0"
    /\ UNCHANGED <<list, piece0, piece1, timeout, final, file, torn, buffers, callers, config, control>>

FlushClose ==
    /\ fpc = "peek_0"
    /\ cursor = <<>>
    /\ fpc' = IF final THEN "done" ELSE "test"
    /\ UNCHANGED <<list, timeout, buffers, callers, pass, config, control>>

FlushPeek0 ==
    /\ fpc = "peek_0"
    /\ cursor # <<>>
    /\ LET w == Head(cursor)
       IN  piece0' = peek_0(head[w], tail[w])
    /\ fpc' = "peek_1"
    /\ UNCHANGED <<list, cursor, piece1, timeout, final, file, torn, buffers, callers, config, control>>

(* The second peek loads the tail again. *)
FlushPeek1 ==
    /\ fpc = "peek_1"
    /\ LET w == Head(cursor)
           p == peek_1(head[w], tail[w])
       IN  IF piece0.num + p.num > 0
           THEN /\ piece1' = p
                /\ fpc' = "write"
                /\ torn' = (torn \/ (p.num > 0 /\ piece0 # peek_0(head[w], tail[w])))
                /\ UNCHANGED <<cursor, piece0>>
           ELSE /\ cursor' = Tail(cursor)
                /\ fpc' = "peek_0"
                /\ UNCHANGED <<piece0, piece1, torn>>
    /\ UNCHANGED <<list, timeout, final, file, buffers, callers, config, control>>

Bytes(w, p) == [i \in 1 .. p.num |-> <<w, data[w][p.off + i - 1]>>]

(* Mutant of FlushWrite: the second piece is written first. *)
FlushWriteSwapped ==
    /\ fpc = "write"
    /\ LET w == Head(cursor)
       IN  file' = file \o Bytes(w, piece1) \o Bytes(w, piece0)
    /\ fpc' = "pop"
    /\ UNCHANGED <<list, cursor, piece0, piece1, timeout, final, torn, buffers, callers, config, control>>

FlushWrite ==
    /\ fpc = "write"
    /\ LET w == Head(cursor)
       IN  file' = file \o Bytes(w, piece0) \o Bytes(w, piece1)
    /\ fpc' = "pop"
    /\ UNCHANGED <<list, cursor, piece0, piece1, timeout, final, torn, buffers, callers, config, control>>

(* spsc_queue_multi_pop without a destination; its result is ignored *)
FlushPop ==
    /\ fpc = "pop"
    /\ LET w == Head(cursor)
           num == piece0.num + piece1.num
       IN  head' = IF tail[w] - head[w] < num THEN head ELSE [head EXCEPT ![w] = @ + num]
    /\ fpc' = "signal"
    /\ UNCHANGED <<list, tail, data, sem, timeout, callers, pass, config, control>>

(* Mutants of FlushSignal: the second piece's bytes are not given back;    *)
(* the units are added but the writer is not woken.                        *)
FlushSignalFirstPiece ==
    /\ fpc = "signal"
    /\ LET w == Head(cursor)
       IN  /\ sem' = [sem EXCEPT ![w] = @ + piece0.num]
           /\ wpc' = [wpc EXCEPT ![w] = IF @ = "asleep" THEN "sem_wait" ELSE @]
    /\ cursor' = Tail(cursor)
    /\ piece0' = NoPiece /\ piece1' = NoPiece
    /\ fpc' = "peek_0"
    /\ UNCHANGED <<list, head, tail, data, wsize, wloc, sent, timeout, final, file, torn, config, control>>

FlushSignalSilent ==
    /\ fpc = "signal"
    /\ LET w == Head(cursor)
       IN  sem' = [sem EXCEPT ![w] = @ + piece0.num + piece1.num]
    /\ cursor' = Tail(cursor)
    /\ piece0' = NoPiece /\ piece1' = NoPiece
    /\ fpc' = "peek_0"
    /\ UNCHANGED <<list, head, tail, data, callers, timeout, final, file, torn, config, control>>

(* semaphore_signal, which wakes the writer if it sleeps; then cursor->next *)
FlushSignal ==
    /\ fpc = "signal"
    /\ LET w == Head(cursor)
       IN  /\ sem' = [sem EXCEPT ![w] = @ + piece0.num + piece1.num]
           /\ wpc' = [wpc EXCEPT ![w] = IF @ = "asleep" THEN "sem_wait" ELSE @]
    /\ cursor' = Tail(cursor)
    /\ piece0' = NoPiece /\ piece1' = NoPiece
    /\ fpc' = "peek_0"
    /\ UNCHANGED <<list, head, tail, data, wsize, wloc, sent, timeout, final, file, torn, config, control>>
-----------------------------------------------------------------------------
WriterStep(w) ==
    \/ LoadList(w) \/ CasList(w) \/ CheckFree(w) \/ wakeup_flush_routine(w)
    \/ SemWait(w) \/ LoadHead(w) \/ MultiPush(w)

FlushStep ==
    \/ FlushStart \/ FlushTest \/ FlushWait \/ FlushTimeout \/ FlushReadConfig
    \/ FlushOpen \/ FlushClose \/ FlushPeek0 \/ FlushPeek1 \/ FlushWrite
    \/ FlushPop \/ FlushSignal

QuitStep == QuitWakeup \/ QuitJoin

(* The log has been shut down. *)
Returned ==
    /\ qpc = "returned"
    /\ UNCHANGED vars

Next ==
    \/ \E w \in Writers :
          \/ \E n \in Sizes : log_write2(w, n)
          \/ WriterStep(w)
          \/ SpuriousWakeup(w)
    \/ \E t \in Timeouts : log_set_flush_timeout(t)
    \/ FlushStep \/ FlushSpuriousWakeup
    \/ QuitSetFlag \/ QuitStep
    \/ Returned

Spec == Init /\ [][Next]_vars

(* Threads inside a call keep running, and so does the flush thread; a     *)
(* timed wait times out.  A thread that keeps trying to link its buffer    *)
(* succeeds in the end.                                                    *)
Fairness ==
    /\ \A w \in Writers : WF_vars(WriterStep(w))
    /\ \A w \in Writers : SF_vars(CasList(w) /\ list' # list)
    /\ WF_vars(FlushStep)
    /\ WF_vars(QuitStep)

FairSpec == Spec /\ Fairness
-----------------------------------------------------------------------------
Claimed(w) == IF wpc[w] \in {"load_head", "push"} THEN wsize[w] ELSE 0
Returning(w) ==
    IF fpc = "signal" /\ Head(cursor) = w THEN piece0.num + piece1.num ELSE 0

(* The places of a writer's bytes in the file *)
FromWriter(w) == {i \in 1 .. Len(file) : file[i][1] = w}

(* Every byte of a buffer is free, queued, claimed by the writer or being  *)
(* given back: the semaphore and the queue never disagree for good.  So    *)
(* the multi_push whose result log_write2 ignores never refuses a message, *)
(* and the multi_pop the flush thread does not check never refuses either. *)
SpaceAccounted ==
    /\ \A w \in Writers : sem[w] + (tail[w] - head[w]) + Claimed(w) + Returning(w) = Cap
    /\ \A w \in Writers : wpc[w] # "dropped"
    /\ fpc = "pop" =>
          tail[Head(cursor)] - head[Head(cursor)] >= piece0.num + piece1.num

(* log_quit returns with every logged byte accounted for in the file: as   *)
(* many bytes of each writer as it logged, which is the size log_test.c    *)
(* expects.                                                                *)
QuitDrains ==
    qpc = "returned" => \A w \in Writers : Cardinality(FromWriter(w)) = sent[w]

(* The file holds each writer's bytes in the order it logged them, with    *)
(* none missing and none repeated, as log_test.c checks message by message *)
(* after log_quit.                                                         *)
FileInOrder ==
    \A w \in Writers : \A i \in FromWriter(w) :
        file[i][2] = Cardinality({j \in FromWriter(w) : j < i})

(* The order can only be lost by a push that wraps around the buffer       *)
(* between the flush thread's calls of spsc_queue_peek_0 and               *)
(* spsc_queue_peek_1.                                                      *)
InOrderUnlessTorn == ~torn => FileInOrder

(* A writer that waits for room gets it, whatever wake-ups are lost, as    *)
(* long as the flush thread's wait has a timeout; and log_quit ends        *)
(* although its only wake-up of the flush thread may come before that      *)
(* thread waits.                                                           *)
CallsReturn ==
    /\ \A w \in Writers : wpc[w] # "idle" ~> wpc[w] = "idle"
    /\ qpc = "wakeup" ~> qpc = "returned"
=============================================================================
