------------------------------ MODULE AsyncIo ------------------------------
(***************************************************************************)
(* asyncio/io.c: operations on files and sockets that the operating system *)
(* completes later, over io_uring or I/O completion ports.  Resources are  *)
(* named by handles with a generation; an operation structure is in use    *)
(* from the call that starts it to the event that ends it, and its address *)
(* is what the operating system gives back with the completion.            *)
(*                                                                         *)
(* Concurrent with the caller is the operating system, which completes     *)
(* requests in any order.  The callbacks run inside io_wait, so that what  *)
(* they do is what the caller does between two calls of it.  The user      *)
(* pointer of an operation is its number, in the order they were started.  *)
(***************************************************************************)
EXTENDS Integers, Sequences, FiniteSets, FiniteSetsExt, Functions

CONSTANTS MaxRes, MaxOps,  \* max_res and max_ops of io_init
          GenLimit,        \* UINT16_MAX: generations are below it
          SqLimit,         \* entries of the submission queue: 32
          FirstFd,         \* the first descriptor that is not in use
          MaxOpens,        \* bound of the model: resources opened
          MaxStarts,       \* bound of the model: operations started
          MaxFails         \* bound of the model: failures of the system

(* With the last conjunct no generation wraps around within the bounds: a  *)
(* handle kept for 65535 closings of its slot names a resource again.      *)
ASSUME AsyncAssumption ==
    /\ MaxRes \in Nat \ {0} /\ MaxOps \in Nat \ {0} /\ SqLimit \in Nat \ {0}
    /\ FirstFd \in Nat /\ MaxOpens \in Nat /\ MaxStarts \in Nat /\ GenLimit \in Nat
    /\ MaxOpens + MaxStarts < GenLimit

Res == 0 .. MaxRes - 1
Ops == 1 .. MaxOps
NoRes == -1
NoFd == -1
NoCallback == [idx |-> -1, gen |-> 0]

VARIABLES
    platform,  \* "linux" or "windows"
    res, ops,  \* ioc->res and ioc->ops
    sq,        \* the submission queue: entries the kernel has not taken
    flight,    \* requests the system works on
    cq,        \* completions that io_wait has not taken
    fds,       \* open descriptors
    port,      \* Windows: descriptors associated with the completion port
    opens, starts, fails,
    handles,   \* ghost: the handles the caller got, and what for
    shut,      \* ghost: the handles it closed
    begun,     \* ghost: what each operation was asked to be
    ev,        \* the last event of io_wait; <<>> before the first
    ended,     \* ghost: the users of the events so far
    spoiled,   \* ghost: see Spoiling
    status     \* "running", "freed" or "crashed"

counters == <<opens, starts, fails>>
system == <<sq, flight, cq>>
ghosts == <<handles, shut, begun, spoiled>>
events == <<ev, ended>>
vars == <<platform, res, ops, system, fds, port, counters, ghosts, events, status>>

(* Mutant of clear_res: the callback is kept. *)
clear_resKeepCallback(r) == [r EXCEPT !.type = "VOID", !.pending = 0, !.fd = NoFd]

clear_res(r) ==
    [r EXCEPT !.type = "VOID", !.pending = 0, !.fd = NoFd, !.callback = NoCallback]

(* io_init; the fields of an unused operation are not set *)
Init ==
    /\ platform \in {"linux", "windows"}
    /\ res = [r \in Res |-> [type |-> "VOID", pending |-> 0, gen |-> 0,
                             fd |-> NoFd, callback |-> NoCallback]]
    /\ ops = [o \in Ops |-> [type |-> "VOID", res |-> NoRes, user |-> 0,
                             accepted |-> NoFd]]
    /\ sq = <<>> /\ flight = {} /\ cq = <<>>
    /\ fds = {} /\ port = {}
    /\ opens = 0 /\ starts = 0 /\ fails = 0
    /\ handles = {} /\ shut = {} /\ begun = <<>> /\ spoiled = FALSE
    /\ ev = <<>> /\ ended = <<>>
    /\ status = "running"

Running == status = "running"
Linux == platform = "linux"
Windows == platform = "windows"
-----------------------------------------------------------------------------
(* Handles *)

handle_from_res(r) == [idx |-> r, gen |-> res[r].gen]

res_from_handle(h) ==
    IF h.idx < MaxRes /\ res[h.idx].gen = h.gen THEN h.idx ELSE NoRes

NewFd == Min((FirstFd .. FirstFd + Cardinality(fds)) \ fds)

UnusedRes == {r \in Res : res[r].type = "VOID"}
find_unused_res == Min(UnusedRes)

UnusedOps == {o \in Ops : ops[o].type = "VOID"}
find_unused_op == Min(UnusedOps)

(* What spoils a context, so that its later events cannot be trusted: a    *)
(* resource is closed while operations on it are under way; io_uring_enter *)
(* fails and leaves its entry in the submission queue; the number a Linux  *)
(* accept gives, a descriptor and no handle, happens to name a resource.   *)
Spoiling(h) ==
    \/ h.kind = "STRAY"
    \/ res[res_from_handle(h.handle)].pending > 0

(* The fields io_open_file, io_create_file, io_start_server and, on        *)
(* Windows, an accept set; the callback was cleared when it was closed.    *)
Opened(r, type, fd) == [res[r] EXCEPT !.type = type, !.pending = 0, !.fd = fd]

Open(type, kind) ==
    /\ Running
    /\ opens < MaxOpens
    /\ UnusedRes # {}
    /\ LET r == find_unused_res
           fd == NewFd
       IN  /\ res' = [res EXCEPT ![r] = Opened(r, type, fd)]
           /\ fds' = fds \cup {fd}
           /\ port' = IF Windows THEN port \cup {fd} ELSE port
           /\ handles' = handles \cup
                  {[handle |-> handle_from_res(r), fd |-> fd, kind |-> kind]}
    /\ opens' = opens + 1
    /\ UNCHANGED <<platform, ops, system, starts, fails, shut, begun, spoiled, events, status>>

(* io_open_file and io_create_file, when the system does what they ask;    *)
(* else they change nothing.  Likewise io_start_server.                    *)
io_open_file == Open("FILE", "FILE")
io_start_server == Open("SOCKET", "LISTENER")

io_set_callback(h) ==
    /\ Running
    /\ res_from_handle(h.handle) # NoRes
    /\ res' = [res EXCEPT ![res_from_handle(h.handle)].callback = h.handle]
    /\ spoiled' = (spoiled \/ h.kind = "STRAY")
    /\ UNCHANGED <<platform, ops, system, fds, port, counters, handles, shut, begun, events, status>>
-----------------------------------------------------------------------------
(* Starting an operation: io_recv, io_send and io_accept *)

(* What the system is asked for: on Windows io_send calls ReadFile too.    *)
Request(type) == CASE type = "RECV" -> "read"
                   [] type = "SEND" -> IF Linux THEN "write" ELSE "read"
                   [] type = "ACCEPT" -> "accept"

(* Mutant of start_uring_op: the entry is queued and the system not told.  *)
start_uring_opQuiet(sqe) ==
    /\ Len(sq) < SqLimit
    /\ sq' = Append(sq, sqe)
    /\ UNCHANGED flight

(* start_uring_op, when io_uring_enter succeeds: it takes one entry, the   *)
(* oldest, which is another one if an earlier call failed.                 *)
start_uring_op(sqe) ==
    /\ Len(sq) < SqLimit
    /\ LET queue == Append(sq, sqe)
       IN  /\ flight' = flight \cup {Head(queue)}
           /\ sq' = Tail(queue)

start_uring_opFails(sqe) ==
    /\ Len(sq) < SqLimit
    /\ sq' = Append(sq, sqe)
    /\ UNCHANGED flight

(* io_recv_windows, io_send_windows, io_accept_windows, when the system    *)
(* takes the request                                                       *)
StartWindows(sqe) == flight' = flight \cup {sqe} /\ UNCHANGED sq

SqeOf(h, type, op) ==
    LET fd == res[res_from_handle(h.handle)].fd
    IN  [op |-> op, fd |-> fd, does |-> Request(type), n |-> starts + 1,
         reports |-> Linux \/ fd \in port]

(* An accept on a listener, other operations on everything else *)
Startable(h, type) ==
    /\ Running
    /\ starts < MaxStarts
    /\ (type = "ACCEPT") = (h.kind = "LISTENER")
    /\ res_from_handle(h.handle) # NoRes
    /\ UnusedOps # {}

Attempt(h, type) ==
    /\ starts' = starts + 1
    /\ begun' = Append(begun, [handle |-> h.handle, type |-> type])

StartedOp(h, type, op, accepted) ==
    LET r == res_from_handle(h.handle)
    IN  /\ res' = [res EXCEPT ![r].pending = @ + 1]
        /\ ops' = [ops EXCEPT ![op] = [type |-> type, res |-> r,
                                       user |-> starts + 1, accepted |-> accepted]]

Start(h, type) ==
    /\ Startable(h, type)
    /\ Attempt(h, type)
    /\ LET op == find_unused_op
           acceptor == Windows /\ type = "ACCEPT"
       IN  /\ IF Linux THEN start_uring_op(SqeOf(h, type, op))
                       ELSE StartWindows(SqeOf(h, type, op))
           /\ StartedOp(h, type, op, IF acceptor THEN NewFd ELSE ops[op].accepted)
           /\ fds' = IF acceptor THEN fds \cup {NewFd} ELSE fds
    /\ spoiled' = (spoiled \/ h.kind = "STRAY")
    /\ UNCHANGED <<platform, cq, port, opens, fails, handles, shut, events, status>>

(* The system refuses: on Windows nothing changes, on Linux the entry      *)
(* stays queued although its operation structure is still unused.          *)
StartFails(h, type) ==
    /\ Linux
    /\ Startable(h, type)
    /\ fails < MaxFails
    /\ start_uring_opFails(SqeOf(h, type, find_unused_op))
    /\ Attempt(h, type)
    /\ fails' = fails + 1
    /\ spoiled' = TRUE
    /\ UNCHANGED <<platform, res, ops, cq, fds, port, opens, handles, shut, events, status>>

(* The system completes a request.  A request on a socket that is not      *)
(* associated with the completion port is completed and not reported.      *)
Complete(f, ok) ==
    /\ Running
    /\ f \in flight /\ f.reports
    /\ LET accepts == Linux /\ f.does = "accept" /\ ok
       IN  /\ cq' = Append(cq, [op |-> f.op, n |-> f.n, ok |-> ok,
                                num |-> IF accepts THEN NewFd ELSE 0])
           /\ fds' = IF accepts THEN fds \cup {NewFd} ELSE fds
    /\ flight' = flight \ {f}
    /\ UNCHANGED <<platform, res, ops, sq, port, counters, ghosts, events, status>>
-----------------------------------------------------------------------------
(* io_wait *)

ReleaseOp(op) == ops' = [ops EXCEPT ![op].type = "VOID"]

Report(op, o, evtype) ==
    LET r == o.res
    IN  /\ ev' = [evtype |-> evtype, optype |-> o.type, handle |-> handle_from_res(r),
                  user |-> o.user, to |-> res[r].callback]
        /\ ended' = Append(ended, o.user)
        /\ ReleaseOp(op)

(* io_wait_internal_linux: the descriptor that was accepted is the result *)
TakeLinux(c, o) ==
    /\ Report(c.op, o, IF c.ok THEN "COMPLETE" ELSE "ABORT")
    /\ res' = [res EXCEPT ![o.res].pending = @ - 1]
    /\ handles' = IF c.ok /\ o.type = "ACCEPT"
                  THEN handles \cup {[handle |-> [idx |-> c.num, gen |-> 0],
                                      fd |-> c.num, kind |-> "STRAY"]}
                  ELSE handles
    /\ UNCHANGED fds

(* io_wait_internal_windows: the socket that was accepted becomes a        *)
(* resource, or is closed when the operation failed or no resource is left *)
TakeWindows(c, o) ==
    LET done == c.ok /\ (o.type = "ACCEPT" => UnusedRes # {})
        accepted == done /\ o.type = "ACCEPT"
        r2 == find_unused_res
    IN  /\ Report(c.op, o, IF done THEN "COMPLETE" ELSE "ABORT")
        /\ res' = [(IF accepted THEN [res EXCEPT ![r2] = Opened(r2, "SOCKET", o.accepted)]
                                ELSE res)
                   EXCEPT ![o.res].pending = @ - 1]
        /\ handles' = IF accepted
                      THEN handles \cup {[handle |-> handle_from_res(r2),
                                          fd |-> o.accepted, kind |-> "CONN"]}
                      ELSE handles
        /\ fds' = IF o.type = "ACCEPT" /\ ~done THEN fds \ {o.accepted} ELSE fds

(* io_wait reads the resource of the operation, which a close has set to   *)
(* NULL, and asserts that an operation is pending there.                   *)
io_wait ==
    /\ Running
    /\ cq # <<>>
    /\ LET c == Head(cq)
           o == ops[c.op]
           found == o.res # NoRes /\ res[o.res].pending > 0
       IN  IF ~found
           THEN /\ status' = "crashed"
                /\ UNCHANGED <<res, ops, fds, handles, events>>
           ELSE /\ IF Linux THEN TakeLinux(c, o) ELSE TakeWindows(c, o)
                /\ UNCHANGED status
    /\ cq' = Tail(cq)
    /\ UNCHANGED <<platform, sq, flight, port, counters, shut, begun, spoiled>>
-----------------------------------------------------------------------------
(* io_close and io_free *)

UsedBy(r) == {o \in Ops : ops[o].type # "VOID" /\ ops[o].res = r}

(* The operations a close marks unused: the first ones on the resource, as *)
(* many as it counts                                                       *)
Marked(r) == {o \in UsedBy(r) :
                Cardinality({p \in UsedBy(r) : p < o}) < res[r].pending}

NextGen(gen) == IF gen + 1 = GenLimit THEN 0 ELSE gen + 1

(* Mutant of close_internal: the generation stays. *)
close_internalSameGen(rs) ==
    /\ res' = [r \in Res |-> IF r \in rs THEN clear_res(res[r]) ELSE res[r]]
    /\ ops' = [o \in Ops |-> IF \E r \in rs : o \in Marked(r)
                             THEN [ops[o] EXCEPT !.type = "VOID", !.res = NoRes]
                             ELSE ops[o]]
    /\ fds' = fds \ {res[r].fd : r \in rs}
    /\ port' = port \ {res[r].fd : r \in rs}

(* close_internal, of every resource of rs.  Its loop ends when it has     *)
(* marked as many operations as the resource counts, not with the array:   *)
(* OpsAccounted says that there are as many.                               *)
close_internal(rs) ==
    /\ res' = [r \in Res |->
                 IF r \in rs
                 THEN [clear_res(res[r]) EXCEPT !.gen = NextGen(res[r].gen)]
                 ELSE res[r]]
    /\ ops' = [o \in Ops |-> IF \E r \in rs : o \in Marked(r)
                             THEN [ops[o] EXCEPT !.type = "VOID", !.res = NoRes]
                             ELSE ops[o]]
    /\ fds' = fds \ {res[r].fd : r \in rs}
    /\ port' = port \ {res[r].fd : r \in rs}

io_close(h) ==
    /\ Running
    /\ res_from_handle(h.handle) # NoRes
    /\ close_internal({res_from_handle(h.handle)})
    /\ spoiled' = (spoiled \/ Spoiling(h))
    /\ shut' = shut \cup {h.handle}
    /\ UNCHANGED <<platform, system, counters, handles, begun, events, status>>

io_free ==
    /\ Running
    /\ close_internal(Res \ UnusedRes)
    /\ status' = "freed"
    /\ UNCHANGED <<platform, system, counters, ghosts, events>>
-----------------------------------------------------------------------------
Next ==
    \/ io_open_file
    \/ io_start_server
    \/ \E h \in handles : io_set_callback(h)
    \/ \E h \in handles, type \in {"RECV", "SEND", "ACCEPT"} : Start(h, type)
    \/ \E h \in handles, type \in {"RECV", "SEND", "ACCEPT"} : StartFails(h, type)
    \/ \E f \in flight, ok \in BOOLEAN : Complete(f, ok)
    \/ io_wait
    \/ \E h \in handles : io_close(h)
    \/ io_free

Spec == Init /\ [][Next]_vars
-----------------------------------------------------------------------------
(* Until the context is spoiled, an event of io_wait is for one operation  *)
(* that was started and had no event before, says what that operation was  *)
(* and on which handle, and goes to the caller or to the callback that was *)
(* set for that handle: however the system orders the completions, and     *)
(* however resources and operation structures were reused in between.      *)
EventsMatch ==
    ~spoiled /\ ended # <<>> =>
        /\ IsInjective(ended)
        /\ ev.user \in DOMAIN begun
        /\ begun[ev.user] = [handle |-> ev.handle, type |-> ev.optype]
        /\ ev.to \in {NoCallback, ev.handle}

Posted == {[op |-> f.op, n |-> f.n] : f \in flight}
              \cup {[op |-> cq[i].op, n |-> cq[i].n] : i \in DOMAIN cq}

(* A resource never counts more operations than are in use on it, so that  *)
(* the loop of close_internal ends inside the array, whatever was closed   *)
(* or failed before.  And until the context is spoiled, the structures in  *)
(* use are those the system works on or has completed, each with the user  *)
(* pointer of its request; nothing waits in the submission queue; a        *)
(* resource counts exactly its operations; no assertion fails in io_wait.  *)
OpsAccounted ==
    /\ \A r \in Res : res[r].pending <= Cardinality(UsedBy(r))
    /\ ~spoiled =>
        /\ status # "crashed"
        /\ Running =>
            /\ {[op |-> o, n |-> ops[o].user] : o \in Ops \ UnusedOps} = Posted
            /\ Cardinality(Posted) = Cardinality(flight) + Len(cq)
            /\ sq = <<>>
            /\ \A r \in Res : res[r].pending = Cardinality(UsedBy(r))

(* Until the context is spoiled, a handle names the descriptor it was      *)
(* given out for until that handle is closed, and nothing afterwards,      *)
(* whatever has taken its slot; the descriptor is open, and no other       *)
(* resource has it.                                                        *)
HandlesFaithful ==
    ~spoiled /\ Running =>
        \A h \in handles : h.kind # "STRAY" =>
            LET r == res_from_handle(h.handle)
            IN  /\ (r = NoRes) = (h.handle \in shut)
                /\ r # NoRes =>
                     /\ res[r].fd = h.fd /\ h.fd \in fds
                     /\ \A q \in Res \ {r} : res[q].fd # h.fd
=============================================================================
