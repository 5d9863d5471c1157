----------------------------- MODULE TcpServer -----------------------------
(***************************************************************************)
(* The server half of tcp/tcp.c: a table of client structures, an event    *)
(* queue, and a caller that polls, takes events and uses the clients'      *)
(* handles.  The module is single threaded; what runs concurrently is the  *)
(* network, which acts between any two steps of tcp_server_poll.           *)
(*                                                                         *)
(* A connection stands for its descriptor.  The bytes of a connection are  *)
(* the numbers 1, 2, 3, ... in each direction.                             *)
(***************************************************************************)
EXTENDS ByteQueue, TcpHandle, SequencesExt, FiniteSets

CONSTANTS Capacity,    \* max_clients of tcp_server_create
          MinFree,     \* room made for each recv: 256
          WriteSizes,  \* sizes tcp_client_write is called with
          Segment,     \* bytes a peer sends at a time
          NumConns,    \* bound of the model: connections peers open
          MaxIn,       \* bound of the model: bytes the peer of each sends
          MaxOut,      \* bound of the model: bytes the caller writes to each
          Leaving,     \* bound of the model: connections whose peer leaves
          MaxServers   \* bound of the model: calls of tcp_server_create

(* A server accepts at most Capacity connections in its life, and          *)
(* tcp_server_poll aborts with more than 127 clients.                      *)
ASSUME ServerAssumption ==
    /\ Capacity \in 1 .. 127
    /\ Capacity < SharedBit
    /\ MinFree \in Nat \ {0}
    /\ Segment \in Nat /\ WriteSizes \subseteq Nat

MAX_EVENTS_PER_CLIENT == 3

Slots == 0 .. Capacity - 1
Conns == 1 .. NumConns
NoFd == 0

VARIABLES
    servers,  \* servers created so far
    used,     \* the server structure is TCP_SERVER_USED
    count,    \* server->count
    clients,  \* server->clients
    events,   \* the event queue, each event with its connection (ghost)
    poll,     \* the locals of tcp_server_poll
    net,      \* the connections, seen from the network
    known,    \* handles the caller took with an event (ghost: of whom)
    stale,    \* handles it took from servers that were deleted
    hist,     \* ghost: what happened to each connection
    overrun   \* a write went past the end of its buffer

vars == <<servers, used, count, clients, events, poll, net, known, stale, hist, overrun>>

NewClient == [state |-> "FREE", gen |-> 1, fd |-> NoFd,
              input |-> byte_queue_init, output |-> byte_queue_init]

(* tcp_server_poll: pc, poll_clients, poll_array (its last entry is the    *)
(* listening socket), the client whose turn it is in a loop (clients come  *)
(* in the order of the structures), and whether bytes were moved           *)
NotPolling == [pc |-> "idle", polled |-> {}, turn |-> 0,
               revents |-> [s \in Slots |-> {}], listening |-> FALSE, moved |-> FALSE]

(* A connection: what its peer sent and the server did not receive, and    *)
(* what the peer was sent                                                  *)
NewConn == [state |-> "none", sent |-> 0, pending |-> <<>>,
            fin |-> FALSE, rst |-> FALSE, got |-> <<>>]

(* Of a connection: the events pushed, the bytes read and written by the   *)
(* caller, whether it closed, whether a send failed, and whether a queue   *)
(* was resized while partly read                                           *)
NoHistory == [pushed |-> <<>>, received |-> <<>>, written |-> 0,
              closed |-> FALSE, sendfailed |-> FALSE, regrown |-> FALSE]

Init ==
    /\ servers = 0 /\ used = FALSE /\ count = 0
    /\ clients = [s \in Slots |-> NewClient]
    /\ events = <<>>
    /\ poll = NotPolling
    /\ net = [c \in Conns |-> NewConn]
    /\ known = {} /\ stale = {}
    /\ hist = [c \in Conns |-> NoHistory]
    /\ overrun = FALSE

Idle == used /\ poll.pc = "idle"

Handles == {k.handle : k \in known}
-----------------------------------------------------------------------------
(* The network: peers connect in order, send, finish and reset.            *)

Reachable(c) == net[c].state \in {"backlog", "accepted"} /\ ~net[c].rst

PeerStep == UNCHANGED <<servers, used, count, clients, events, poll, known, stale, hist, overrun>>

Connect(c) ==
    /\ used
    /\ net[c].state = "none"
    /\ \A d \in 1 .. c - 1 : net[d].state # "none"
    /\ net' = [net EXCEPT ![c].state = "backlog"]
    /\ PeerStep

PeerSends(c) ==
    /\ Reachable(c) /\ ~net[c].fin
    /\ net[c].sent + Segment <= MaxIn[c]
    /\ net' = [net EXCEPT ![c].sent = @ + Segment,
                          ![c].pending = @ \o [i \in 1 .. Segment |-> net[c].sent + i]]
    /\ PeerStep

PeerFinishes(c) ==
    /\ c \in Leaving
    /\ Reachable(c) /\ ~net[c].fin
    /\ net' = [net EXCEPT ![c].fin = TRUE]
    /\ PeerStep

(* A reset may discard what was not received yet. *)
PeerResets(c) ==
    /\ c \in Leaving
    /\ Reachable(c)
    /\ \E left \in {net[c].pending, <<>>} :
          net' = [net EXCEPT ![c].rst = TRUE, ![c].pending = left]
    /\ PeerStep

(* close(fd): of a closed connection only the bytes its peer got and the   *)
(* way it ended are of interest.                                           *)
Closed(n) == [NewConn EXCEPT !.state = "closed", !.got = n.got]
Ended(h) == [h EXCEPT !.pushed = <<>>, !.received = <<>>]
-----------------------------------------------------------------------------
(* tcp_server_create and tcp_server_delete *)

tcp_server_create ==
    /\ ~used
    /\ servers < MaxServers
    /\ servers' = servers + 1
    /\ used' = TRUE
    /\ count' = 0
    /\ clients' = [s \in Slots |-> NewClient]
    /\ events' = <<>>
    /\ UNCHANGED <<poll, net, known, stale, hist, overrun>>

(* Of the connections of a deleted server nothing is of interest but that  *)
(* they are closed.                                                        *)
Forgotten == [NewConn EXCEPT !.state = "closed"]

(* Mutant of tcp_server_delete: only connected clients are closed. *)
tcp_server_deleteUsedOnly ==
    /\ Idle
    /\ used' = FALSE
    /\ net' = [c \in Conns |->
                 IF net[c].state \in {"backlog", "closed"}
                    \/ \E s \in Slots : clients[s].fd = c /\ clients[s].state = "USED"
                 THEN Forgotten ELSE net[c]]
    /\ hist' = [c \in Conns |-> NoHistory]
    /\ clients' = [s \in Slots |-> NewClient] /\ events' = <<>>
    /\ known' = {} /\ stale' = stale \cup Handles
    /\ UNCHANGED <<servers, count, poll, overrun>>

(* Closes the listening socket, with what waits in its backlog, and the    *)
(* descriptors of the clients, and frees the memory of the clients and of  *)
(* the queue, which the next server gets new.  The caller may keep its     *)
(* handles.  They do not name their server: the next one begins with the   *)
(* same generations, and they may resolve to its clients.                  *)
tcp_server_delete ==
    /\ Idle
    /\ used' = FALSE
    /\ net' = [c \in Conns |->
                 IF net[c].state \in {"backlog", "closed"} \/ \E s \in Slots : clients[s].fd = c
                 THEN Forgotten ELSE net[c]]
    /\ hist' = [c \in Conns |-> NoHistory]
    /\ clients' = [s \in Slots |-> NewClient] /\ events' = <<>>
    /\ known' = {} /\ stale' = stale \cup Handles
    /\ UNCHANGED <<servers, count, poll, overrun>>
-----------------------------------------------------------------------------
(* Events and the end of a client *)

Event(type, c, s) ==
    [type |-> type, conn |-> c, handle |-> pack_handle(1, s, clients[s].gen)]

push_event(types, c, s) == events \o [i \in DOMAIN types |-> Event(types[i], c, s)]

(* Mutant of free_client: the generation stays. *)
free_clientSameGen(s) == [NewClient EXCEPT !.gen = clients[s].gen]

(* The structure after free_client.  Its queues are freed, and initialised *)
(* by the next accept.                                                     *)
free_client(s) == [NewClient EXCEPT !.gen = NextGen(clients[s].gen)]
-----------------------------------------------------------------------------
(* tcp_server_poll *)

Wanted(s) ==
    IF clients[s].state = "USED"
    THEN {"IN", "HUP"} \cup (IF used_space(clients[s].output) > 0 THEN {"OUT"} ELSE {})
    ELSE {"OUT", "HUP"}

(* What a socket reports; a reset is reported as everything. *)
Ready(n, writable) ==
    (IF n.pending # <<>> \/ n.fin \/ n.rst THEN {"IN"} ELSE {})
    \cup (IF n.rst THEN {"HUP"} ELSE {})
    \cup (IF n.rst \/ writable THEN {"OUT"} ELSE {})

Backlog == {c \in Conns : net[c].state = "backlog"}

(* The call of poll.  The assert on events_count: the caller has taken all *)
(* events before.                                                          *)
tcp_server_poll ==
    /\ Idle
    /\ events = <<>>
    /\ \E writable \in SUBSET Slots :
          LET in == {s \in Slots : clients[s].state \notin {"FREE", "HANGUP"}}
              r == [s \in Slots |->
                       IF s \in in THEN Wanted(s) \cap Ready(net[clients[s].fd], s \in writable)
                                   ELSE {}]
          IN  /\ writable \subseteq in
              /\ poll' = IF Backlog = {} /\ \A s \in in : r[s] = {}
                         THEN NotPolling
                         ELSE [pc |-> "accept", polled |-> in, turn |-> 0,
                               revents |-> r, listening |-> Backlog # {}, moved |-> FALSE]
    /\ UNCHANGED <<servers, used, count, clients, events, net, known, stale, hist, overrun>>

(* Mutant of MoreToAccept: one connection too many. *)
MoreToAcceptInclusive == poll.listening /\ count <= Capacity /\ Backlog # {}

MoreToAccept == poll.listening /\ count < Capacity /\ Backlog # {}

(* One turn of the accept loop; the count is never taken back.  A socket   *)
(* that cannot be made non-blocking is closed again.                       *)
Accept ==
    /\ poll.pc = "accept" /\ MoreToAccept
    /\ LET c == Min(Backlog)
           s == Min({t \in Slots : clients[t].state = "FREE"})
       IN  \/ /\ net' = [net EXCEPT ![c].state = "accepted"]
              /\ clients' = [clients EXCEPT ![s].state = "USED", ![s].fd = c,
                                            ![s].input = byte_queue_init,
                                            ![s].output = byte_queue_init]
              /\ count' = count + 1
              /\ events' = push_event(<<"CONNECT">>, c, s)
              /\ hist' = [hist EXCEPT ![c].pushed = <<"CONNECT">>]
           \/ /\ net' = [net EXCEPT ![c] = Closed(@)]
              /\ UNCHANGED <<clients, count, events, hist>>
    /\ UNCHANGED <<servers, used, poll, known, stale, overrun>>

(* Both loops over poll_array: the next client, the next loop, the return *)
NextTurn ==
    LET later == {s \in poll.polled : poll.pc # "accept" /\ s > poll.turn}
        first == IF poll.polled = {} THEN 0 ELSE Min(poll.polled)
    IN  poll' = IF later # {}
                THEN [poll EXCEPT !.turn = Min(later), !.moved = FALSE]
                ELSE CASE poll.pc = "accept" -> [poll EXCEPT !.pc = "input", !.turn = first,
                                                             !.listening = FALSE]
                       [] poll.pc = "input" -> [poll EXCEPT !.pc = "output", !.turn = first,
                                                            !.moved = FALSE]
                       [] poll.pc = "output" -> NotPolling

(* The accept loop ends, or a loop has no client to look at. *)
LoopDone ==
    /\ \/ poll.pc = "accept" /\ ~MoreToAccept
       \/ poll.pc \in {"input", "output"} /\ poll.polled = {}
    /\ NextTurn
    /\ UNCHANGED <<servers, used, count, clients, events, net, known, stale, hist, overrun>>

Readable(s) == poll.revents[s] \cap {"IN", "HUP"} # {}

(* One turn of the loop of move_bytes_from_socket_to_queue: recv as much   *)
(* as fits                                                                 *)
Receive ==
    /\ poll.pc = "input" /\ poll.polled # {}
    /\ LET s == poll.turn
           c == clients[s].fd
           q == ensure_min_free_space(clients[s].input, MinFree)
           n == Min({free_space(q), Len(net[c].pending)})
       IN  /\ Readable(s) /\ net[c].pending # <<>>
           /\ clients' = [clients EXCEPT ![s].input =
                            end_write(q, SubSeq(net[c].pending, 1, n))]
           /\ net' = [net EXCEPT ![c].pending = SubSeq(@, n + 1, Len(@))]
           /\ hist' = [hist EXCEPT ![c].regrown =
                         @ \/ ResizePartlyRead(clients[s].input, MinFree)]
    /\ poll' = [poll EXCEPT !.moved = TRUE]
    /\ UNCHANGED <<servers, used, count, events, known, stale, overrun>>

(* Mutant of InputEvents: no event for a client the caller has closed. *)
InputEventsUnlessClosed(s, data, hangup) ==
    (IF data THEN <<"DATA">> ELSE <<>>)
    \o (IF hangup /\ clients[s].state = "USED" THEN <<"DISCONNECT">> ELSE <<>>)

(* Mutant of InputEvents: the disconnection is announced before the data. *)
InputEventsSwapped(s, data, hangup) ==
    (IF hangup THEN <<"DISCONNECT">> ELSE <<>>) \o (IF data THEN <<"DATA">> ELSE <<>>)

(* The events the input loop pushes for client s, whatever its state *)
InputEvents(s, data, hangup) ==
    (IF data THEN <<"DATA">> ELSE <<>>) \o (IF hangup THEN <<"DISCONNECT">> ELSE <<>>)

(* One turn of the input loop, from the recv on that returns no bytes.     *)
(* When that is an error, moved is uninitialised: a DATA event may be      *)
(* pushed or not.                                                          *)
Input ==
    /\ poll.pc = "input" /\ poll.polled # {}
    /\ LET s == poll.turn
           c == clients[s].fd
           q == clients[s].input
           hangup == net[c].rst \/ net[c].fin
       IN  IF ~Readable(s)
           THEN UNCHANGED <<clients, events, hist>>
           ELSE /\ net[c].pending = <<>>
                /\ \E data \in IF net[c].rst THEN BOOLEAN ELSE {poll.moved} :
                     LET types == InputEvents(s, data, hangup)
                     IN  /\ clients' = [clients EXCEPT
                                          ![s].input = ensure_min_free_space(q, MinFree),
                                          ![s].state = IF hangup THEN "HANGUP" ELSE @]
                         /\ events' = push_event(types, c, s)
                         /\ hist' = [hist EXCEPT ![c].pushed = @ \o types,
                                       ![c].regrown = @ \/ ResizePartlyRead(q, MinFree)]
    /\ NextTurn
    /\ UNCHANGED <<servers, used, count, net, known, stale, overrun>>

(* A client that hung up in the input loop of the same poll is skipped. *)
Flushable(s) == clients[s].state \in {"USED", "CLOSE"}

(* One turn of the output loop: sends until the socket is full (k bytes    *)
(* went out), a send fails, or nothing is left.                            *)
Output ==
    /\ poll.pc = "output" /\ poll.polled # {}
    /\ LET s == poll.turn
           c == clients[s].fd
           q == clients[s].output
       IN  IF ~(Flushable(s) /\ "OUT" \in poll.revents[s])
           THEN UNCHANGED <<clients, events, net, hist>>
           ELSE \E k \in 0 .. used_space(q), error \in BOOLEAN :
                  LET freed == clients[s].state = "CLOSE" /\ (error \/ k = used_space(q))
                      lost == clients[s].state # "CLOSE" /\ error
                      types == IF lost THEN <<"DISCONNECT">> ELSE <<>>
                      sent == [net[c] EXCEPT !.got = @ \o SubSeq(q.bytes, 1, k)]
                      told == [hist[c] EXCEPT !.sendfailed = @ \/ error, !.pushed = @ \o types]
                  IN  /\ error => k < used_space(q)
                      /\ net[c].rst => error /\ k = 0
                      /\ clients' = [clients EXCEPT ![s] =
                                       IF freed THEN free_client(s)
                                       ELSE [clients[s] EXCEPT
                                               !.output = end_read(q, k),
                                               !.state = IF lost THEN "HANGUP" ELSE @]]
                      /\ net' = [net EXCEPT ![c] = IF freed THEN Closed(sent) ELSE sent]
                      /\ events' = push_event(types, c, s)
                      /\ hist' = [hist EXCEPT ![c] = IF freed THEN Ended(told) ELSE told]
    /\ NextTurn
    /\ UNCHANGED <<servers, used, count, known, stale, overrun>>
-----------------------------------------------------------------------------
(* The caller's side.  It uses handles of clients it took events of; one   *)
(* that no longer resolves makes every call abort, so it is not used.      *)

tcp_server_event ==
    /\ Idle
    /\ events # <<>>
    /\ events' = Tail(events)
    /\ known' = known \cup {[handle |-> Head(events).handle, conn |-> Head(events).conn]}
    /\ UNCHANGED <<servers, used, count, clients, poll, net, stale, hist, overrun>>

NoSlot == -1

client_from_handle(h) ==
    IF IndexOf(h) < Capacity /\ GenOf(h) = clients[IndexOf(h)].gen
    THEN IndexOf(h) ELSE NoSlot

(* The assert at the end of client_from_handle holds. *)
Usable(h) ==
    /\ client_from_handle(h) # NoSlot
    /\ clients[client_from_handle(h)].state # "FREE"

(* Mutant of tcp_client_close: it does not wait for the flush. *)
tcp_client_closeAtOnce(h) ==
    /\ Idle /\ Usable(h)
    /\ LET s == client_from_handle(h)
           c == clients[s].fd
       IN  /\ clients' = [clients EXCEPT ![s] = free_client(s)]
           /\ net' = [net EXCEPT ![c] = Closed(@)]
           /\ hist' = [hist EXCEPT ![c] = Ended([@ EXCEPT !.closed = TRUE])]
    /\ UNCHANGED <<servers, used, count, events, poll, known, stale, overrun>>

tcp_client_close(h) ==
    /\ Idle /\ Usable(h)
    /\ LET s == client_from_handle(h)
           c == clients[s].fd
           told == [hist[c] EXCEPT !.closed = TRUE]
       IN  IF clients[s].state = "HANGUP" \/ used_space(clients[s].output) = 0
           THEN /\ clients' = [clients EXCEPT ![s] = free_client(s)]
                /\ net' = [net EXCEPT ![c] = Closed(@)]
                /\ hist' = [hist EXCEPT ![c] = Ended(told)]
           ELSE /\ clients' = [clients EXCEPT ![s].state = "CLOSE"]
                /\ hist' = [hist EXCEPT ![c] = told]
                /\ UNCHANGED net
    /\ UNCHANGED <<servers, used, count, events, poll, known, stale, overrun>>

(* tcp_client_get_input_data and tcp_client_get_input_size, then           *)
(* tcp_client_read of the first n bytes                                    *)
tcp_client_read(h, n) ==
    /\ Idle /\ Usable(h)
    /\ LET s == client_from_handle(h)
           q == clients[s].input
       IN  /\ n <= used_space(q)
           /\ hist' = [hist EXCEPT ![clients[s].fd].received = @ \o SubSeq(q.bytes, 1, n)]
           /\ clients' = [clients EXCEPT ![s].input = end_read(q, n)]
    /\ UNCHANGED <<servers, used, count, events, poll, net, known, stale, overrun>>

(* Ignored unless the client is USED.  The copy does not look at the free  *)
(* space again: after a resize of a partly read queue it may not fit.      *)
tcp_client_write(h, n) ==
    /\ Idle /\ Usable(h)
    /\ LET s == client_from_handle(h)
           c == clients[s].fd
           old == clients[s].output
           q == ensure_min_free_space(old, n)
       IN  /\ clients[s].state = "USED"
           /\ hist[c].written + n <= MaxOut[c]
           /\ clients' = [clients EXCEPT ![s].output =
                            end_write(q, [i \in 1 .. n |-> hist[c].written + i])]
           /\ hist' = [hist EXCEPT ![c].written = @ + n,
                                   ![c].regrown = @ \/ ResizePartlyRead(old, n)]
           /\ overrun' = (free_space(q) < n)
    /\ UNCHANGED <<servers, used, count, events, poll, net, known, stale>>
-----------------------------------------------------------------------------
Peer == \E c \in Conns :
    Connect(c) \/ PeerSends(c) \/ PeerFinishes(c) \/ PeerResets(c)

PollStep == Accept \/ LoopDone \/ Receive \/ Input \/ Output

UseClient == \E h \in Handles \cup stale :
    \/ tcp_client_close(h)
    \/ \E n \in 1 .. Segment : tcp_client_read(h, n)
    \/ \E n \in WriteSizes : tcp_client_write(h, n)

(* After a write past the end of a buffer nothing is known any more: the   *)
(* behaviours end there.                                                   *)
Next ==
    /\ ~overrun
    /\ \/ Peer
       \/ tcp_server_create \/ tcp_server_delete
       \/ tcp_server_poll \/ PollStep
       \/ tcp_server_event \/ UseClient

Spec == Init /\ [][Next]_vars

(* The caller took the event of the client's disconnection. *)
Told(s) ==
    LET c == clients[s].fd
    IN  /\ clients[s].state # "FREE"
        /\ Contains(hist[c].pushed, "DISCONNECT")
        /\ \A i \in DOMAIN events : events[i].conn # c

CloseDisconnected(s) ==
    /\ Told(s)
    /\ \E h \in Handles : client_from_handle(h) = s /\ tcp_client_close(h)

(* The caller goes on calling tcp_server_poll and taking the events, and   *)
(* it closes a client whose disconnection it was told before it polls for  *)
(* ever: a strong fairness, as it can only do so between two polls.        *)
Fairness ==
    /\ WF_vars(~overrun /\ tcp_server_poll)
    /\ WF_vars(~overrun /\ PollStep)
    /\ WF_vars(~overrun /\ tcp_server_event)
    /\ \A s \in Slots : SF_vars(~overrun /\ CloseDisconnected(s))

FairSpec == Spec /\ Fairness
-----------------------------------------------------------------------------
(* A handle the caller got from the running server, or will get with a     *)
(* queued event, resolves to the connection it was made for or to nothing, *)
(* never to the next user of the structure; and never to a free one        *)
(* (assert in client_from_handle).  Nothing is claimed of the handles of   *)
(* servers that were deleted, which the caller may use as well.  An open   *)
(* descriptor belongs to exactly one structure, also when the server is    *)
(* deleted and when such a handle is used, and an accepted connection      *)
(* finds a free one (assert in tcp_server_poll).                           *)
HandlesFaithful ==
    /\ used => \A k \in known \cup ToSet(events) :
          LET s == client_from_handle(k.handle)
          IN  s # NoSlot => clients[s].fd = k.conn /\ clients[s].state # "FREE"
    /\ \A c \in Conns : net[c].state = "accepted" =>
          used /\ Cardinality({s \in Slots : clients[s].fd = c}) = 1
    /\ used => \A s \in Slots :
          /\ clients[s].fd = NoFd <=> clients[s].state = "FREE"
          /\ clients[s].fd # NoFd => net[clients[s].fd].state = "accepted"
    /\ poll.pc = "accept" /\ MoreToAccept => \E s \in Slots : clients[s].state = "FREE"

(* What the caller is told of a connection: first CONNECT, then DATA, and  *)
(* DISCONNECT last and once, whichever of the two loops found out.  The    *)
(* events of a poll fit into the queue (assert in push_event).             *)
EventOrder ==
    /\ \A c \in Conns : LET p == hist[c].pushed IN
          \A i \in DOMAIN p : /\ p[i] = "CONNECT" <=> i = 1
                              /\ p[i] = "DISCONNECT" => i = Len(p)
    /\ Len(events) <= Capacity * MAX_EVENTS_PER_CLIENT

Numbers(n) == [i \in 1 .. n |-> i]

(* No byte is lost, duplicated or reordered between the peer and the       *)
(* caller, in either direction, over partial reads and sends and moves of  *)
(* the queues, and no write goes past the end of its buffer, unless the    *)
(* queue was resized while partly read (a reset may drop what the server   *)
(* did not receive).                                                       *)
BytesInOrder ==
    /\ used => \A s \in Slots :
          LET c == clients[s].fd
              in == hist[c].received \o clients[s].input.bytes \o net[c].pending
          IN  c # NoFd /\ ~hist[c].regrown =>
                /\ in = Numbers(Len(in))
                /\ ~net[c].rst => Len(in) = net[c].sent
                /\ net[c].got \o clients[s].output.bytes = Numbers(hist[c].written)
    /\ overrun => \E c \in Conns : hist[c].regrown

(* A client that is freed without having hung up got everything the caller *)
(* wrote before it closed, unless a send failed or the server was deleted. *)
CloseFlushes ==
    [][\A s \in Slots :
         LET c == clients[s].fd
         IN  clients[s].state \in {"USED", "CLOSE"} /\ clients'[s].state = "FREE"
             /\ used /\ used'
             /\ ~hist'[c].sendfailed /\ ~hist[c].regrown
             => net'[c].got = Numbers(hist[c].written)]_vars

(* A connection that the caller has closed and the peer resets while its   *)
(* output is being flushed is released in the end.  Only peers of          *)
(* connections in Leaving reset.                                           *)
ClosedIsReleased ==
    \A c \in Leaving : hist[c].closed /\ net[c].rst ~> net[c].state = "closed" \/ overrun

(* The handle of a client that is not free resolves to that client, as the *)
(* separate bits of index and generation in the comment of pack_handle     *)
(* promise.                                                                *)
HandlesResolve ==
    used => \A s \in Slots : clients[s].state # "FREE" =>
        client_from_handle(pack_handle(1, s, clients[s].gen)) = s
=============================================================================
