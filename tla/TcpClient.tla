----------------------------- MODULE TcpClient -----------------------------
(***************************************************************************)
(* The stand-alone clients of tcp/tcp.c: a static table of structures, of  *)
(* which tcp_client_create takes one, and a caller that polls each client  *)
(* on its own and takes its events.  Unlike a server's clients they have   *)
(* no event queue but two flags, their handles' generation is not          *)
(* compared, and a close does not flush.  The network acts between any two *)
(* steps of tcp_client_poll.                                               *)
(*                                                                         *)
(* A connection stands for its descriptor; its bytes are 1, 2, 3, ... in   *)
(* each direction.                                                         *)
(***************************************************************************)
EXTENDS ByteQueue, TcpHandle, SequencesExt

CONSTANTS MaxClients,   \* MAX_CLIENTS
          RecvRoom,     \* room made for each recv: 256
          MaxLinks,     \* bound of the model: connections opened
          MaxFromPeer,  \* bound of the model: bytes the peer of each sends
          MaxToPeer,    \* bound of the model: bytes the caller writes to each
          Quitting      \* bound of the model: connections whose peer leaves

ASSUME ClientAssumption ==
    MaxClients \in Nat /\ MaxLinks \in Nat /\ RecvRoom \in Nat

VARIABLES alone,    \* clients
          link,     \* the connections, seen from the network
          held,     \* handles the caller has not closed (ghost: of which connection)
          polling,  \* the locals of tcp_client_poll
          story,    \* ghost: what happened on each connection
          aborted   \* an assert has failed

clientVars == <<alone, link, held, polling, story, aborted>>

Links == 1 .. MaxLinks

FreeAlone(gen) ==
    [state |-> "FREE", gen |-> gen, fd |-> 0, event_data |-> FALSE, event_disconnect |-> FALSE,
     input |-> byte_queue_init, output |-> byte_queue_init]

NewLink == [state |-> "none", sent |-> 0, pending |-> <<>>,
            fin |-> FALSE, rst |-> FALSE, got |-> <<>>]

(* Of a connection: the bytes read and written by the caller, whether some *)
(* arrived it was not told of, whether it took a DISCONNECT, whether a     *)
(* queue was resized while partly read, and whether the generation changed *)
(* the index in its handle                                                 *)
NewStory == [received |-> <<>>, written |-> 0, fresh |-> FALSE,
             left |-> FALSE, regrown |-> FALSE, spilled |-> FALSE]

NotInPoll == [pc |-> "idle", slot |-> 0, revents |-> {}, moved |-> FALSE]

ClientInit ==
    /\ alone = [s \in 0 .. MaxClients - 1 |-> FreeAlone(0)]
    /\ link = [c \in Links |-> NewLink]
    /\ held = {}
    /\ polling = NotInPoll
    /\ story = [c \in Links |-> NewStory]
    /\ aborted = FALSE

Calling == polling.pc = "idle" /\ ~aborted

Abort ==
    /\ aborted' = TRUE
    /\ UNCHANGED <<alone, link, held, polling, story>>
-----------------------------------------------------------------------------
(* The peer of a connection sends, finishes and resets. *)

PeerActs(c) ==
    /\ link[c].state = "open" /\ ~link[c].rst /\ ~aborted
    /\ \/ /\ ~link[c].fin /\ link[c].sent < MaxFromPeer[c]
          /\ link' = [link EXCEPT ![c].sent = @ + 1, ![c].pending = Append(@, link[c].sent + 1)]
       \/ /\ c \in Quitting /\ ~link[c].fin
          /\ link' = [link EXCEPT ![c].fin = TRUE]
       \/ /\ c \in Quitting
          /\ \E left \in {link[c].pending, <<>>} :
                link' = [link EXCEPT ![c].rst = TRUE, ![c].pending = left]
    /\ UNCHANGED <<alone, held, polling, story, aborted>>
-----------------------------------------------------------------------------
(* client_from_handle for a handle without a server, whose generation it   *)
(* does not compare.  Its assert: the structure is in use; an index out of *)
(* bounds ends in an abort as well.                                        *)
SlotOf(h) == IndexOf(h)
InUse(h) == SlotOf(h) \in DOMAIN alone /\ alone[SlotOf(h)].state # "FREE"

(* The connection succeeds and the first free structure is taken; without  *)
(* one get_client_struct aborts.  When a call on the way fails, nothing    *)
(* has changed.                                                            *)
tcp_client_create ==
    LET free == {s \in DOMAIN alone : alone[s].state = "FREE"}
        c == Min({d \in Links : link[d].state = "none"})
        s == Min(free)
    IN  /\ Calling
        /\ \E d \in Links : link[d].state = "none"
        /\ free # {}
        /\ alone' = [alone EXCEPT ![s] =
                        [FreeAlone(alone[s].gen) EXCEPT !.state = "USED", !.fd = c]]
        /\ link' = [link EXCEPT ![c].state = "open"]
        /\ LET h == pack_handle(0, s, alone[s].gen)
           IN  /\ held' = held \cup {[handle |-> h, conn |-> c]}
               /\ story' = [story EXCEPT ![c].spilled = (SlotOf(h) # s)]
        /\ UNCHANGED <<polling, aborted>>

(* Mutant of PollFor: it asks for room to write although there is nothing  *)
(* to be written.                                                          *)
PollForOutAlways(client) == {"IN", "HUP", "OUT"}

PollFor(client) ==
    {"IN", "HUP"} \cup (IF used_space(client.output) > 0 THEN {"OUT"} ELSE {})

(* What a socket reports *)
Reported(n, writable) ==
    (IF n.pending # <<>> \/ n.fin \/ n.rst THEN {"IN"} ELSE {})
    \cup (IF n.rst THEN {"HUP"} ELSE {})
    \cup (IF n.rst \/ writable THEN {"OUT"} ELSE {})

(* tcp_client_poll up to the call of poll; it returns at once while an     *)
(* event is waiting to be taken.                                           *)
tcp_client_poll(h) ==
    LET s == SlotOf(h)
    IN  /\ Calling
        /\ IF ~InUse(h) THEN Abort
           ELSE /\ ~alone[s].event_data /\ ~alone[s].event_disconnect
                /\ \E writable \in BOOLEAN :
                     LET revents == PollFor(alone[s]) \cap Reported(link[alone[s].fd], writable)
                     IN  /\ revents # {}
                         /\ polling' = [pc |-> "input", slot |-> s, revents |-> revents,
                                        moved |-> FALSE]
                /\ UNCHANGED <<alone, link, held, story, aborted>>

(* A turn of move_bytes_from_socket_to_queue that receives bytes *)
ClientReceive ==
    LET s == polling.slot
        c == alone[s].fd
        q == ensure_min_free_space(alone[s].input, RecvRoom)
        n == Min({free_space(q), Len(link[c].pending)})
    IN  /\ polling.pc = "input" /\ polling.revents \cap {"IN", "HUP"} # {}
        /\ link[c].pending # <<>>
        /\ alone' = [alone EXCEPT ![s].input = end_write(q, SubSeq(link[c].pending, 1, n))]
        /\ link' = [link EXCEPT ![c].pending = SubSeq(@, n + 1, Len(@))]
        /\ story' = [story EXCEPT ![c].fresh = TRUE,
                                  ![c].regrown = @ \/ ResizePartlyRead(alone[s].input, RecvRoom)]
        /\ polling' = [polling EXCEPT !.moved = TRUE]
        /\ UNCHANGED <<held, aborted>>

(* The rest of the input part, from the recv on that returns no bytes.     *)
(* When that is an error, moved is uninitialised.                          *)
ClientInput ==
    LET s == polling.slot
        n == link[alone[s].fd]
        q == alone[s].input
        hangup == n.rst \/ n.fin
    IN  /\ polling.pc = "input"
        /\ IF polling.revents \cap {"IN", "HUP"} = {}
           THEN UNCHANGED <<alone, story>>
           ELSE /\ n.pending = <<>>
                /\ \E data \in IF n.rst THEN BOOLEAN ELSE {polling.moved} :
                     alone' = [alone EXCEPT ![s] =
                                 [alone[s] EXCEPT
                                    !.input = ensure_min_free_space(q, RecvRoom),
                                    !.event_data = data,
                                    !.event_disconnect = hangup,
                                    !.state = IF hangup THEN "HANGUP" ELSE @]]
                /\ story' = [story EXCEPT ![alone[s].fd].regrown =
                                            @ \/ ResizePartlyRead(q, RecvRoom)]
        /\ polling' = [polling EXCEPT !.pc = "output"]
        /\ UNCHANGED <<link, held, aborted>>

(* The output part: k bytes go out, then the socket is full or a send      *)
(* fails.  The assert after it does not expect a client that hung up.      *)
ClientOutput ==
    LET s == polling.slot
        c == alone[s].fd
        q == alone[s].output
    IN  /\ polling.pc = "output" /\ ~aborted
        /\ IF "OUT" \notin polling.revents
           THEN /\ polling' = NotInPoll
                /\ UNCHANGED <<alone, link, held, story, aborted>>
           ELSE IF alone[s].state # "USED" THEN Abort
           ELSE /\ \E k \in 0 .. used_space(q), error \in BOOLEAN :
                     /\ error => k < used_space(q)
                     /\ link[c].rst => error /\ k = 0
                     /\ alone' = [alone EXCEPT ![s] =
                                    [alone[s] EXCEPT !.output = end_read(q, k),
                                                     !.state = IF error THEN "HANGUP" ELSE @,
                                                     !.event_disconnect = @ \/ error]]
                     /\ link' = [link EXCEPT ![c].got = @ \o SubSeq(q.bytes, 1, k)]
                /\ polling' = NotInPoll
                /\ UNCHANGED <<held, story, aborted>>

(* Mutant of tcp_client_event: a disconnection hides the data before it. *)
tcp_client_eventHidesData(h) ==
    LET s == SlotOf(h)
        client == alone[s]
    IN  /\ Calling /\ InUse(h)
        /\ client.event_data \/ client.event_disconnect
        /\ IF client.event_disconnect
           THEN /\ alone' = [alone EXCEPT ![s].event_data = FALSE, ![s].event_disconnect = FALSE]
                /\ story' = [story EXCEPT ![client.fd].left = TRUE]
           ELSE /\ alone' = [alone EXCEPT ![s].event_data = FALSE]
                /\ story' = [story EXCEPT ![client.fd].fresh = FALSE]
        /\ UNCHANGED <<link, held, polling, aborted>>

(* The data before the disconnection; without an event nothing changes. *)
tcp_client_event(h) ==
    LET s == SlotOf(h)
        client == alone[s]
    IN  /\ Calling /\ InUse(h)
        /\ client.event_data \/ client.event_disconnect
        /\ IF client.event_data
           THEN /\ alone' = [alone EXCEPT ![s].event_data = FALSE]
                /\ story' = [story EXCEPT ![client.fd].fresh = FALSE]
           ELSE /\ alone' = [alone EXCEPT ![s].event_disconnect = FALSE]
                /\ story' = [story EXCEPT ![client.fd].left = TRUE]
        /\ UNCHANGED <<link, held, polling, aborted>>

(* tcp_client_read of all there is, tcp_client_write of one byte: what the *)
(* queues do with them is checked in TcpServer.                            *)
ReadAll(h) ==
    LET s == SlotOf(h)
        q == alone[s].input
    IN  /\ Calling /\ InUse(h)
        /\ q.bytes # <<>>
        /\ alone' = [alone EXCEPT ![s].input = end_read(q, used_space(q))]
        /\ story' = [story EXCEPT ![alone[s].fd].received = @ \o q.bytes]
        /\ UNCHANGED <<link, held, polling, aborted>>

WriteByte(h) ==
    LET s == SlotOf(h)
        c == alone[s].fd
        q == ensure_min_free_space(alone[s].output, 1)
    IN  /\ Calling /\ InUse(h)
        /\ alone[s].state = "USED"
        /\ story[c].written < MaxToPeer[c]
        /\ alone' = [alone EXCEPT ![s].output = end_write(q, <<story[c].written + 1>>)]
        /\ story' = [story EXCEPT ![c].written = @ + 1,
                                  ![c].regrown = @ \/ ResizePartlyRead(alone[s].output, 1)]
        /\ UNCHANGED <<link, held, polling, aborted>>

(* tcp_client_close: whatever is unsent, the structure is freed. *)
CloseAlone(k) ==
    LET s == SlotOf(k.handle)
        c == alone[s].fd
    IN  /\ Calling
        /\ IF ~InUse(k.handle) THEN Abort
           ELSE /\ alone' = [alone EXCEPT ![s] = FreeAlone(NextGen(alone[s].gen))]
                /\ link' = [link EXCEPT ![c] = [NewLink EXCEPT !.state = "closed"]]
                /\ story' = [story EXCEPT ![c] = [NewStory EXCEPT !.spilled = story[c].spilled]]
                /\ held' = held \ {k}
                /\ UNCHANGED <<polling, aborted>>

ClientNext ==
    \/ \E c \in Links : PeerActs(c)
    \/ tcp_client_create
    \/ \E k \in held :
          \/ tcp_client_poll(k.handle)
          \/ tcp_client_event(k.handle)
          \/ ReadAll(k.handle)
          \/ WriteByte(k.handle)
          \/ CloseAlone(k)
    \/ ClientReceive
    \/ ClientInput
    \/ ClientOutput

ClientSpec == ClientInit /\ [][ClientNext]_clientVars
-----------------------------------------------------------------------------
Connected == {s \in DOMAIN alone : alone[s].state # "FREE"}

(* What a stand-alone client's caller is told: bytes are received in order *)
(* and none without an event, unless the connection is lost at the same    *)
(* time; a client that hung up has a DISCONNECT waiting or its caller has  *)
(* taken one, and no other client has.                                     *)
ClientTold ==
    \A s \in Connected :
        LET c == alone[s].fd
            in == story[c].received \o alone[s].input.bytes \o link[c].pending
            lost == alone[s].state = "HANGUP"
        IN  /\ polling.pc = "idle" /\ story[c].fresh =>
                  alone[s].event_data \/ (lost /\ link[c].rst)
            /\ lost <=> (alone[s].event_disconnect \/ story[c].left)
            /\ ~story[c].regrown => \A i \in DOMAIN in : in[i] = i

Spilled == \E c \in Links : story[c].spilled

(* An assert fails in two cases only: the connection is lost while output  *)
(* is unsent, so that the poll that reports it, or the next one, finds the *)
(* socket writable; or a structure was reused so often that its generation *)
(* spilled into a handle's index.  Otherwise each handle reaches its own   *)
(* client, although its generation is not compared.                        *)
ClientAborts ==
    /\ aborted /\ ~Spilled =>
          \E s \in Connected : alone[s].state = "HANGUP" /\ used_space(alone[s].output) > 0
    /\ ~Spilled => \A k \in held : InUse(k.handle) /\ alone[SlotOf(k.handle)].fd = k.conn
=============================================================================
