----------------------------- MODULE HttpServer -----------------------------
(***************************************************************************)
(* http/server.c: a single-threaded HTTP server on poll.  The caller takes *)
(* a request with http_server_wait_request, builds the response through    *)
(* the handle it got, and may have several requests open at a time; while  *)
(* it waits for the next one, input and output of all clients go on.       *)
(*                                                                         *)
(* The unit of input is a request head or one byte of a body; the unit of  *)
(* output is the status line, a header, the Content-Length header with the *)
(* end of the head, or one byte of content.  Memory never runs out.        *)
(***************************************************************************)
EXTENDS Integers, Sequences, FiniteSets, FiniteSetsExt, SequencesExt, Functions

CONSTANTS MAX_CLIENTS,
          Scripts,     \* what the peers may send: sets of sequences of input
          Leaving,     \* the peers that may close or reset
          GenLimit,    \* (uint16_t) -1: generations are below it
          MaxServed,   \* requests served on one connection: 5
          MaxAppends   \* bound of the model: headers and content per response

Conns == DOMAIN Scripts
Slots == 0 .. MAX_CLIENTS - 1

(* The input: heads with a Content-Length and a minor version, malformed   *)
(* heads, and bytes of a body                                              *)
Req(len, minor) == [kind |-> "head", len |-> len, minor |-> minor]
BadReq == [kind |-> "bad", len |-> 0, minor |-> 1]
Body == [kind |-> "body", len |-> 0, minor |-> 0]

ASSUME HttpAssumption ==
    /\ MAX_CLIENTS \in Nat \ {0}
    /\ GenLimit \in Nat \ {0}
    /\ Leaving \subseteq Conns

VARIABLES
    server,   \* cs, ps without its first entry, pis, free and the queue
    pc, turn, \* where the server is: outside, in wait_request, in process_io's loop
    net,      \* the peers and their sockets
    backlog,  \* connections to accept
    known,    \* ghost: handles the caller got, for which request
    hist,     \* ghost: requests popped, appends to the open response
    early,    \* ghost: connections that were sent output in C_CONTENT
    lost      \* ghost: clients closed while they were queued

ghosts == <<known, hist, early, lost>>
vars == <<server, pc, turn, net, backlog, ghosts>>

NoLength == -1000  \* blanks: no length, not even a wrong one, is so small
Part(h, part, num) == [conn |-> h.conn, r |-> h.r, part |-> part, num |-> num]

(* http_server_init.  keepalive is not initialised. *)
Init ==
    /\ \E b \in BOOLEAN : server =
         [cs |-> [s \in Slots |->
                    [gen |-> 0, state |-> "FREE", pitem |-> 0, input |-> <<>>,
                     output |-> <<>>, num_served |-> 0, minor |-> 0,
                     connheader |-> -1, content_length_offset |-> 0,
                     content_offset |-> 0, request_length |-> 0, keepalive |-> b]],
          ps |-> <<>>, pis |-> <<>>,
          free |-> [i \in Slots |-> MAX_CLIENTS - (i + 1)],
          queue |-> <<>>]
    /\ pc = "caller" /\ turn = 0
    /\ \E script \in [Conns -> UNION {Scripts[c] : c \in Conns}] :
         /\ \A c \in Conns : script[c] \in Scripts[c]
         /\ net = [c \in Conns |-> [open |-> "no", script |-> script[c],
                                    pending |-> <<>>, fin |-> FALSE, got |-> <<>>]]
    /\ backlog = <<>>
    /\ known = {}
    /\ hist = [c \in Conns |-> [popped |-> 0, appends |-> 0]]
    /\ early = {} /\ lost = {}
-----------------------------------------------------------------------------
(* The peers *)

PeerStep == UNCHANGED <<server, pc, turn, ghosts>> /\ pc # "freed" /\ pc # "aborted"

(* Bound of the model: connections come in the order of their numbers. *)
Connect(c) ==
    /\ PeerStep
    /\ net[c].open = "no"
    /\ \A d \in Conns : d < c => net[d].open # "no"
    /\ net' = [net EXCEPT ![c].open = "yes"]
    /\ backlog' = Append(backlog, c)

Deliver(c) ==
    /\ PeerStep
    /\ net[c].open = "yes" /\ ~net[c].fin /\ net[c].script # <<>>
    /\ net' = [net EXCEPT ![c].pending = Append(@, Head(net[c].script)),
                          ![c].script = Tail(@)]
    /\ UNCHANGED backlog

(* What the server has closed is of no interest any more. *)
Closed(n) == [n EXCEPT !.open = "closed", !.script = <<>>, !.pending = <<>>,
                       !.fin = FALSE, !.got = <<>>]

(* It closes or resets the connection. *)
Leave(c) ==
    /\ PeerStep
    /\ c \in Leaving
    /\ net[c].open = "yes" /\ ~net[c].fin
    /\ net' = [net EXCEPT ![c].fin = TRUE]
    /\ UNCHANGED backlog
-----------------------------------------------------------------------------
(* The tables.  These operators take the server and return it changed.     *)

Ncs(sv) == Len(sv.pis)

push_client(sv, s) == [sv EXCEPT !.queue = Append(@, s)]

NextGen(gen) == IF gen + 1 = GenLimit THEN 0 ELSE gen + 1

(* The fields of the response that is over are given fixed values: they    *)
(* are set again before they are read.                                     *)
Unset(client) == [client EXCEPT !.minor = 0, !.connheader = -1, !.content_offset = 0,
                                !.content_length_offset = 0, !.request_length = 0]

invalidate_handles(sv, s) ==
    [sv EXCEPT !.cs[s] = [Unset(@) EXCEPT !.gen = NextGen(sv.cs[s].gen)]]

(* Mutant of close_client: the client that moves into the gap in ps keeps  *)
(* its old pitem.                                                          *)
close_clientStalePitem(sv, s) ==
    LET pi == sv.cs[s].pitem
        n == Ncs(sv)
    IN  [invalidate_handles(sv, s) EXCEPT
           !.cs[s].state = "FREE", !.cs[s].input = <<>>, !.cs[s].output = <<>>,
           !.cs[s].pitem = 0, !.cs[s].num_served = 0,
           !.pis = Front([sv.pis EXCEPT ![pi] = sv.pis[n]]),
           !.ps = Front([sv.ps EXCEPT ![pi] = sv.ps[n]]),
           !.free[MAX_CLIENTS - n] = s]

(* The last entries of pis and ps fill the gap.  A queued client stays in  *)
(* the queue: remove_queued_client does nothing.  When the client is the   *)
(* last one itself, its pitem is set again, to no effect.                  *)
close_client(sv, s) ==
    LET pi == sv.cs[s].pitem
        n == Ncs(sv)
        cleared == [invalidate_handles(sv, s) EXCEPT
                      !.cs[s].state = "FREE", !.cs[s].input = <<>>, !.cs[s].output = <<>>,
                      !.cs[s].pitem = 0, !.cs[s].num_served = 0,
                      !.pis = Front([sv.pis EXCEPT ![pi] = sv.pis[n]]),
                      !.ps = Front([sv.ps EXCEPT ![pi] = sv.ps[n]]),
                      !.free[MAX_CLIENTS - n] = s]
    IN  IF pi = n THEN cleared ELSE [cleared EXCEPT !.cs[sv.pis[n]].pitem = pi]

AcceptClient(sv, c) ==
    LET s == sv.free[MAX_CLIENTS - (Ncs(sv) + 1)]
    IN  [sv EXCEPT
           !.ps = Append(@, [fd |-> c, pollout |-> FALSE, in |-> FALSE, out |-> FALSE]),
           !.pis = Append(@, s),
           !.cs[s].state = "IDLE", !.cs[s].input = <<>>, !.cs[s].output = <<>>,
           !.cs[s].pitem = Ncs(sv) + 1, !.cs[s].num_served = 0]

Fd(sv, s) == sv.ps[sv.cs[s].pitem].fd

(* find(input, "\r\n\r\n"): there is a whole head *)
find(input) == \E i \in DOMAIN input : input[i].kind # "body"

append_output(sv, s, parts) ==
    [sv EXCEPT !.cs[s].output = @ \o parts, !.ps[sv.cs[s].pitem].pollout = TRUE]
-----------------------------------------------------------------------------
(* process_io *)

(* Mutant of Limit: the blank Content-Length is sent with the rest. *)
LimitNone(client) == Len(client.output)

(* socket_output stops before the blank Content-Length *)
Limit(client) ==
    IF client.state = "CONTENT" THEN client.content_length_offset ELSE Len(client.output)

(* A socket that is not writable is one that takes nothing in its turn. *)
Polled(entry) ==
    [entry EXCEPT !.in = net[entry.fd].pending # <<>> \/ net[entry.fd].fin,
                  !.out = entry.pollout]

Accepted == Min({MAX_CLIENTS - Ncs(server), Len(backlog)})

(* The connections that wait are accepted while structures are free. *)
AcceptLoop(sv) ==
    LET accepted[i \in 0 .. Accepted] ==
            IF i = 0 THEN sv ELSE AcceptClient(accepted[i - 1], backlog[i])
    IN  accepted[Accepted]

(* poll, which waits until there is something to do, and the accept loop *)
Poll ==
    /\ pc = "waiting"
    /\ server.queue = <<>>
    /\ LET ps == [i \in DOMAIN server.ps |-> Polled(server.ps[i])]
       IN  /\ backlog # <<>> \/ \E i \in DOMAIN ps : ps[i].in \/ ps[i].out
           /\ server' = AcceptLoop([server EXCEPT !.ps = ps])
    /\ backlog' = SubSeq(backlog, Accepted + 1, Len(backlog))
    /\ pc' = "polling" /\ turn' = 1
    /\ UNCHANGED <<net, ghosts>>

socket_input(sv, s, arrived) ==
    LET received == [sv EXCEPT !.cs[s].input = @ \o arrived]
    IN  IF sv.cs[s].state = "IDLE" /\ find(received.cs[s].input)
        THEN [push_client(received, s) EXCEPT !.cs[s].state = "QUEUED"]
        ELSE received

(* socket_output, when the socket takes n units.  content_offset stays. *)
socket_output(sv, s, n) ==
    LET client == sv.cs[s]
    IN  [sv EXCEPT
           !.cs[s].content_length_offset = IF client.state = "CONTENT" THEN @ - n ELSE @,
           !.cs[s].output = SubSeq(@, n + 1, Len(@)),
           !.ps[client.pitem].pollout = IF n = Limit(client) THEN FALSE ELSE @]

(* The turn of the loop for the client of ps[turn].  The connection may    *)
(* break between socket_input and socket_output.  Bound of the model: the  *)
(* socket takes everything or all but one unit, which may be nothing.      *)
ClientTurn ==
    /\ pc = "polling"
    /\ turn <= Ncs(server)
    /\ LET s == server.pis[turn]
           c == server.ps[turn].fd
           evs == server.ps[turn]
           gone == evs.in /\ net[c].fin
           arrived == IF evs.in THEN net[c].pending ELSE <<>>
           sv == IF evs.in THEN socket_input(server, s, arrived) ELSE server
           limit == Limit(sv.cs[s])
           Close == /\ server' = close_client(sv, s)
                    /\ lost' = IF sv.cs[s].state = "QUEUED" THEN lost \cup {s} ELSE lost
                    /\ UNCHANGED <<turn, early>>
       IN  \/ /\ gone
              /\ net' = [net EXCEPT ![c] = Closed(@)]
              /\ server' = close_client(server, s)
              /\ UNCHANGED <<turn, early, lost>>
           \/ /\ ~gone /\ evs.out /\ limit > 0 /\ c \in Leaving
              /\ net' = [net EXCEPT ![c] = Closed(@)]
              /\ Close
           \/ \E n \in IF evs.out /\ limit > 0 THEN {limit - 1, limit} ELSE {0} :
              /\ ~gone
              /\ LET done == evs.out /\ n = Len(sv.cs[s].output) /\ sv.cs[s].state = "CLOSE"
                 IN  /\ net' = IF done THEN [net EXCEPT ![c] = Closed(@)]
                               ELSE [net EXCEPT
                                       ![c].pending = IF evs.in THEN <<>> ELSE @,
                                       ![c].got = @ \o SubSeq(sv.cs[s].output, 1, n)]
                     /\ IF done
                        THEN Close
                        ELSE /\ server' = IF evs.out THEN socket_output(sv, s, n) ELSE sv
                             /\ turn' = turn + 1
                             /\ early' = IF n > 0 /\ sv.cs[s].state = "CONTENT"
                                         THEN early \cup {c} ELSE early
                             /\ UNCHANGED lost
    /\ UNCHANGED <<pc, backlog, known, hist>>

IoDone ==
    /\ pc = "polling"
    /\ turn > Ncs(server)
    /\ pc' = "waiting" /\ turn' = 0
    /\ UNCHANGED <<server, net, backlog, ghosts>>
-----------------------------------------------------------------------------
(* http_server_wait_request *)

http_server_wait_request ==
    /\ pc = "caller"
    /\ pc' = "waiting"
    /\ UNCHANGED <<server, turn, net, backlog, ghosts>>

send_basic_response_and_close(sv, s, h) ==
    [append_output(sv, s, <<Part(h, "status", 0), Part(h, "length", 0)>>)
       EXCEPT !.cs[s].state = "CLOSE"]

(* A popped client: its head is malformed, its body is not all there, or   *)
(* it is the next request.  A client that was closed in the queue has no   *)
(* input, and the assert fails.                                            *)
PopClient ==
    /\ pc = "waiting"
    /\ server.queue # <<>>
    /\ LET s == Head(server.queue)
           sv == [server EXCEPT !.queue = Tail(@), !.cs[s].state = "POPPED"]
           input == sv.cs[s].input
       IN  IF ~find(input)
           THEN /\ server' = sv /\ pc' = "aborted"
                /\ UNCHANGED <<known, hist>>
           ELSE LET head == Head(input)
                    c == Fd(sv, s)
                    h == [conn |-> c, r |-> hist[c].popped + 1,
                          idx |-> s, gen |-> sv.cs[s].gen]
                    total == 1 + head.len
                IN  \/ /\ head.kind = "bad"
                       /\ server' = send_basic_response_and_close(sv, s, h)
                       /\ UNCHANGED <<pc, known, hist>>
                    \/ /\ head.kind # "bad" /\ Len(input) < total
                       /\ server' = sv
                       /\ UNCHANGED <<pc, known, hist>>
                    \/ /\ head.kind # "bad" /\ Len(input) >= total
                       /\ server' = [sv EXCEPT !.cs[s].state = "STATUS",
                                               !.cs[s].minor = head.minor,
                                               !.cs[s].connheader = -1,
                                               !.cs[s].request_length = total]
                       /\ known' = known \cup {h}
                       /\ hist' = [hist EXCEPT ![c] = [popped |-> h.r, appends |-> 0]]
                       /\ pc' = "caller"
    /\ UNCHANGED <<turn, net, backlog, early, lost>>
-----------------------------------------------------------------------------
(* The response calls *)

NoSlot == -1

(* The index of the structure is compared with the number of clients. *)
client_from_handle(h) ==
    IF h.idx >= Ncs(server) THEN NoSlot
    ELSE IF server.cs[h.idx].gen # h.gen THEN NoSlot ELSE h.idx

Respond(h) ==
    /\ pc = "caller"
    /\ client_from_handle(h) # NoSlot
    /\ UNCHANGED <<pc, turn, net, backlog, known, early, lost>>

MayAppend(h) ==
    /\ hist[h.conn].popped = h.r => hist[h.conn].appends < MaxAppends
    /\ hist' = [hist EXCEPT ![h.conn].appends = @ + 1]

WithStatus(sv, s, h) ==
    [append_output(sv, s, <<Part(h, "status", 0)>>) EXCEPT !.cs[s].state = "HEADER"]

http_server_set_status(h) ==
    /\ Respond(h)
    /\ LET s == client_from_handle(h)
       IN  /\ server.cs[s].state = "STATUS"
           /\ server' = WithStatus(server, s, h)
    /\ UNCHANGED hist

(* The header goes out as it is, whatever its name: parse_header makes the *)
(* name the whole text, so that neither Content-Length nor Connection is   *)
(* recognised, and connheader stays as it is.  One without a colon does    *)
(* nothing.                                                                *)
http_server_append_header(h) ==
    /\ Respond(h)
    /\ MayAppend(h)
    /\ LET s == client_from_handle(h)
       IN  /\ server.cs[s].state = "HEADER"
           /\ server' = append_output(server, s, <<Part(h, "header", 0)>>)

append_special_headers(sv, s, h) ==
    LET client == sv.cs[s]
        keepalive == /\ client.connheader # 0
                     /\ client.num_served < MaxServed
                     /\ 10 * Ncs(sv) < 7 * MAX_CLIENTS
        one == IF client.minor = 1
               THEN [append_output(sv, s, <<Part(h, "header", 0)>>)
                       EXCEPT !.cs[s].keepalive = keepalive]
               ELSE sv
        offset == Len(one.cs[s].output)
    IN  [append_output(one, s, <<Part(h, "length", NoLength)>>)
           EXCEPT !.cs[s].content_length_offset = offset,
                  !.cs[s].content_offset = offset + 1,
                  !.cs[s].state = "CONTENT"]

InContent(sv, s, h) ==
    IF sv.cs[s].state = "HEADER" THEN append_special_headers(sv, s, h) ELSE sv

http_server_append_content(h) ==
    /\ Respond(h)
    /\ MayAppend(h)
    /\ LET s == client_from_handle(h)
           sv == InContent(server, s, h)
       IN  /\ sv.cs[s].state = "CONTENT"
           /\ server' = append_output(sv, s, <<Part(h, "content", 0)>>)

(* The Content-Length is filled in, the request removed from the input *)
Finished(sv, s) ==
    LET client == sv.cs[s]
        length == Len(client.output) - client.content_offset
    IN  [sv EXCEPT
           !.cs[s].output[client.content_length_offset + 1].num = length,
           !.ps[client.pitem].pollout = TRUE,
           !.cs[s].input = SubSeq(@, client.request_length + 1, Len(@)),
           !.cs[s].request_length = 0,
           !.cs[s].num_served = @ + 1]

(* Mutant of AfterResponse: the next request is not looked for. *)
AfterResponseIdle(sv, s) ==
    invalidate_handles(
        [sv EXCEPT !.cs[s].state = IF sv.cs[s].keepalive THEN "IDLE" ELSE "CLOSE",
                   !.cs[s].keepalive = FALSE], s)

AfterResponse(sv, s) ==
    LET next == IF ~sv.cs[s].keepalive THEN [sv EXCEPT !.cs[s].state = "CLOSE"]
                ELSE IF find(sv.cs[s].input)
                THEN [push_client(sv, s) EXCEPT !.cs[s].state = "QUEUED", !.cs[s].keepalive = FALSE]
                ELSE [sv EXCEPT !.cs[s].state = "IDLE", !.cs[s].keepalive = FALSE]
    IN  invalidate_handles(next, s)

(* While a handle resolves its client is in C_STATUS, C_HEADER or          *)
(* C_CONTENT, so that the response can always be completed.                *)
http_server_send_response(h) ==
    /\ Respond(h)
    /\ LET s == client_from_handle(h)
           status == IF server.cs[s].state = "STATUS" THEN WithStatus(server, s, h) ELSE server
           content == InContent(status, s, h)
       IN  server' = IF content.cs[s].state = "CONTENT"
                     THEN AfterResponse(Finished(content, s), s)
                     ELSE close_client(content, s)
    /\ UNCHANGED hist

(* The loop of http_server_free goes forward while close_client moves the  *)
(* last client into the gap: it closes the first half of the clients.      *)
http_server_free ==
    /\ pc = "caller"
    /\ LET closed == SubSeq(server.pis, 1, (Ncs(server) + 1) \div 2)
       IN  /\ server' = FoldLeft(close_client, server, closed)
           /\ net' = [c \in Conns |->
                        IF \E i \in DOMAIN closed : Fd(server, closed[i]) = c
                        THEN Closed(net[c]) ELSE net[c]]
    /\ pc' = "freed"
    /\ UNCHANGED <<turn, backlog, ghosts>>
-----------------------------------------------------------------------------
Next ==
    \/ \E c \in Conns : Connect(c) \/ Deliver(c) \/ Leave(c)
    \/ Poll \/ ClientTurn \/ IoDone
    \/ http_server_wait_request \/ PopClient
    \/ \E h \in known :
          \/ http_server_set_status(h)
          \/ http_server_append_header(h)
          \/ http_server_append_content(h)
          \/ http_server_send_response(h)
    \/ http_server_free

Spec == Init /\ [][Next]_vars
-----------------------------------------------------------------------------
Live == {s \in Slots : \E i \in DOMAIN server.pis : server.pis[i] = s}
FreeSlots == {server.free[i] : i \in 0 .. MAX_CLIENTS - Ncs(server) - 1}

(* The four tables agree: every structure is either on the stack of free   *)
(* ones, once, and C_FREE, or in pis, once, with its pitem at the same     *)
(* place in ps; so that the asserts of process_io hold however clients are *)
(* closed and moved.  A connection that is accepted is open in one entry.  *)
TablesAgree ==
    pc \notin {"aborted", "freed"} =>
        /\ IsInjective(server.pis)
        /\ Live \cap FreeSlots = {} /\ Live \cup FreeSlots = Slots
        /\ Cardinality(FreeSlots) = MAX_CLIENTS - Ncs(server)
        /\ \A s \in Slots : server.cs[s].state = "FREE" <=> s \in FreeSlots
        /\ \A i \in DOMAIN server.pis : server.cs[server.pis[i]].pitem = i
        /\ \A c \in Conns : c \notin ToSet(backlog) /\ net[c].open = "yes" =>
               Cardinality({i \in DOMAIN server.ps : server.ps[i].fd = c}) = 1

(* The queue holds the clients in C_QUEUED, each once and with a whole     *)
(* head, and no others but those closed in the turn that queued them; only *)
(* popping one of those fails the assert of http_server_wait_request.  And *)
(* no idle client has a whole head that nobody will look at.               *)
QueueFaithful ==
    /\ pc = "aborted" => lost # {}
    /\ pc # "aborted" /\ pc # "freed" =>
        /\ IsInjective(server.queue)
        /\ \A s \in ToSet(server.queue) :
              \/ server.cs[s].state = "QUEUED" /\ find(server.cs[s].input)
              \/ s \in lost
        /\ \A s \in Slots : server.cs[s].state = "QUEUED" => s \in ToSet(server.queue)
        /\ \A s \in Slots : server.cs[s].state = "IDLE" => ~find(server.cs[s].input)

Rank(part) == CASE part = "status" -> 0 [] part = "header" -> 1
                [] part = "length" -> 2 [] part = "content" -> 3

(* What a peer has got and will get is the responses to its own requests,  *)
(* in their order, each whole before the next one: status, headers,        *)
(* the Content-Length the server computes, content.  It is never sent      *)
(* blank, and it is the number of bytes of content, unless output of the   *)
(* response was sent while its content was being appended.  A caller's own *)
(* Content-Length is a header like any other and not judged.               *)
ResponsesInOrder ==
    pc # "aborted" /\ pc # "freed" => \A s \in Live :
        LET c == Fd(server, s)
            stream == net[c].got \o server.cs[s].output
            Content(r) == Cardinality({j \in DOMAIN stream :
                              stream[j].part = "content" /\ stream[j].r = r})
        IN  /\ \A i \in DOMAIN stream :
                 LET t == stream[i]
                     before == IF i = 1 THEN [r |-> 0, part |-> "length"] ELSE stream[i - 1]
                 IN  /\ t.conn = c
                     /\ IF t.r = before.r
                        THEN \/ Rank(t.part) > Rank(before.part)
                             \/ t.part = before.part /\ t.part \in {"header", "content"}
                        ELSE /\ t.r = before.r + 1 /\ t.part = "status"
                             /\ Rank(before.part) >= 2
                     /\ t.part = "length" /\ t.num # NoLength /\ c \notin early =>
                            t.num = Content(t.r)
            /\ \A i \in DOMAIN net[c].got :
                 net[c].got[i].part = "length" => net[c].got[i].num # NoLength
=============================================================================
