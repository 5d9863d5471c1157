----------------------------- MODULE TcpProofs -----------------------------
(***************************************************************************)
(* Proofs about the two halves of tcp/tcp.c.                               *)
(*                                                                         *)
(* TcpServer: for every capacity, every number of connections and every    *)
(* width of the generations that leaves the shared bit of the handles      *)
(* alone, a handle of the running server never reaches another connection  *)
(* than the one it was made for, whatever the caller does with the handles *)
(* of servers that were deleted; descriptors and client structures         *)
(* correspond, events come in order, bytes are neither lost nor reordered  *)
(* in either direction, and a client that was closed is flushed before it  *)
(* is freed.                                                               *)
(*                                                                         *)
(* TcpClient: for any number of client structures and connections and      *)
(* whatever peers and caller do, bytes are received in order and           *)
(* announced, hang-ups are told, and the asserts of the stand-alone        *)
(* clients fail in the two known ways only.                                *)
(***************************************************************************)
EXTENDS TcpServer, TcpClient, ArithmeticLemmas, FiniteSetTheorems, SequenceTheorems

Occupied == {s \in Slots : clients[s].state # "FREE"}

(* The fields the argument looks at are there.  Queues and histories play  *)
(* no part in it.                                                          *)
Shapes ==
    /\ DOMAIN clients = Slots
    /\ \A s \in Slots : {"state", "gen", "fd"} \subseteq DOMAIN clients[s]
    /\ DOMAIN net = Conns
    /\ \A c \in Conns : "state" \in DOMAIN net[c]
    /\ {"pc", "polled", "turn", "listening", "moved"} \subseteq DOMAIN poll

(* The handles that are ever made: the count of a server bounds the        *)
(* generations, so that they stay below the shared bit.                    *)
MadeHandles == {pack_handle(1, s, g) : s \in Slots, g \in 1 .. SharedBit - 1}

EventTypes == {"CONNECT", "DATA", "DISCONNECT"}

Announced == [type : EventTypes, conn : Conns, handle : MadeHandles]

Types ==
    /\ used \in BOOLEAN
    /\ count \in 0 .. Capacity
    /\ \A s \in Slots : clients[s].gen \in Nat \ {0} /\ clients[s].fd \in Conns \cup {NoFd}
    /\ events \in Seq(Announced)
    /\ known \subseteq [handle : MadeHandles, conn : Conns]

(* Client structures and descriptors correspond, and accepts are counted:  *)
(* the generation of a structure is at most the number of accepts it took  *)
(* part in.                                                                *)
Table ==
    /\ \A s \in Slots :
          /\ clients[s].fd = NoFd <=> clients[s].state = "FREE"
          /\ clients[s].fd # NoFd => net[clients[s].fd].state = "accepted"
          /\ clients[s].gen <= count + 1
          /\ clients[s].state # "FREE" => clients[s].gen <= count
    /\ \A s, t \in Slots : clients[s].fd = clients[t].fd /\ clients[s].fd # NoFd => s = t
    /\ Cardinality(Occupied) <= count

Owned == \A c \in Conns : net[c].state = "accepted" =>
    used /\ \E s \in Slots : clients[s].fd = c

(* A handle was made for a generation its structure has reached, and if    *)
(* that is the current one, for its current connection.                    *)
Names(k) == \E s \in Slots, g \in 1 .. SharedBit - 1 :
    /\ k.handle = pack_handle(1, s, g)
    /\ g <= clients[s].gen
    /\ g = clients[s].gen => clients[s].fd = k.conn

Named == \A k \in known \cup ToSet(events) : Names(k)

Stopped == known = {} /\ poll.pc = "idle"

(* The clients a loop of tcp_server_poll still looks at are not free. *)
Polling ==
    /\ poll.pc \in {"idle", "accept", "input", "output"}
    /\ poll.polled \subseteq Slots
    /\ poll.pc \in {"input", "output"} /\ poll.polled # {} => poll.turn \in poll.polled
    /\ poll.pc \in {"accept", "input"} => poll.polled \subseteq Occupied
    /\ poll.pc = "output" => \A s \in poll.polled : s >= poll.turn => s \in Occupied

IndInv ==
    /\ Shapes /\ Types /\ Owned /\ Polling
    /\ used => Table /\ Named
    /\ ~used => Stopped
-----------------------------------------------------------------------------
(* What a handle unpacks to: the index, and the generation with the lowest *)
(* bit of the index as its highest.                                        *)
LEMMA HandleUnpacks ==
    ASSUME NEW s \in Nat, NEW g \in 1 .. SharedBit - 1
    PROVE  /\ IndexOf(pack_handle(1, s, g)) = s
           /\ GenOf(pack_handle(1, s, g)) = SharedBit * (s % 2) + g
<1> DEFINE q == s \div 2
           r == s % 2
           h == pack_handle(1, s, g)
<1>1. PICK B \in Nat \ {0} : B = SharedBit
  BY PowersAssumption
<1>2. /\ q \in Int /\ r \in 0 .. 1 /\ s = 2 * q + r
      /\ GEN_UPPER_BOUND = 2 * B
  BY <1>1, DivMod, PowersAssumption
<1>3. g % B = g
  BY <1>1, ModUnique
<1>4. h.bits = q * 4 * B + r * 2 * B + g * 2
  <2>1. (IF s % 2 = 1 \/ g >= SharedBit THEN 1 ELSE 0) = r
    BY <1>1, <1>2
  <2>2. h.bits = (s \div 2) * 4 * SharedBit
                 + (IF s % 2 = 1 \/ g >= SharedBit THEN 1 ELSE 0) * 2 * SharedBit
                 + (g % SharedBit) * 2
    BY DEF pack_handle
  <2> QED BY <1>1, <1>3, <2>1, <2>2
<1> HIDE DEF q, r, h
<1>5. h.bits = (2 * B) * s + 2 * g /\ h.bits = 2 * (B * s + g) + 0
  <2>1. B * s = 2 * (q * B) + r * B
    BY <1>2
  <2> QED BY <1>1, <1>2, <1>4, <2>1
<1>6. h.bits \div (2 * B) = s
  <2>1. 2 * g \in 0 .. 2 * B - 1 /\ 2 * B \in Nat \ {0}
    BY <1>1
  <2> QED BY <1>5, <2>1, DivUnique
<1>7. h.bits \div 2 = B * s + g
  <2>1. B * s + g \in Int
    BY <1>1
  <2> QED BY <1>5, <2>1, DivUnique
<1>8. (B * s + g) % (2 * B) = B * r + g
  <2>1. B * s + g = (2 * B) * q + (B * r + g)
    <3>1. B * s = 2 * (q * B) + r * B
      BY <1>2
    <3> QED BY <1>2, <3>1
  <2>2. B * r + g \in 0 .. 2 * B - 1 /\ 2 * B \in Nat \ {0}
    <3>1. r = 0 \/ r = 1
      BY <1>2
    <3>2. B * r = 0 \/ B * r = B
      BY <3>1
    <3> QED BY <1>1, <3>2
  <2> QED BY <1>2, <2>1, <2>2, ModUnique
<1> QED BY <1>1, <1>2, <1>6, <1>7, <1>8 DEF IndexOf, GenOf, r, h

(* The constants of the server, as numbers. *)
LEMMA ServerNumbers ==
    /\ Capacity \in Nat \ {0} /\ SharedBit \in Nat \ {0} /\ Capacity < SharedBit
    /\ GEN_UPPER_BOUND = 2 * SharedBit
    /\ Slots \subseteq Nat /\ Conns \subseteq Nat \ {0} /\ NoFd \notin Conns
    /\ IsFiniteSet(Slots) /\ Cardinality(Slots) = Capacity
<1>1. /\ Capacity \in Nat \ {0} /\ SharedBit \in Nat \ {0} /\ Capacity < SharedBit
      /\ GEN_UPPER_BOUND = 2 * SharedBit
  BY ServerAssumption, PowersAssumption
<1>2. IsFiniteSet(Slots) /\ Cardinality(Slots) = Capacity
  <2>1. IsFiniteSet(0 .. Capacity - 1)
    BY <1>1, FS_Interval
  <2>2. Cardinality(0 .. Capacity - 1) = IF 0 > Capacity - 1 THEN 0 ELSE (Capacity - 1) - 0 + 1
    BY <1>1, FS_Interval
  <2> QED BY <1>1, <2>1, <2>2 DEF Slots
<1> QED BY <1>1, <1>2 DEF Slots, Conns, NoFd

(* A handle resolves to the connection it names, or to nothing. *)
LEMMA NamesResolve ==
    ASSUME IndInv, used, NEW k \in known \cup ToSet(events),
           client_from_handle(k.handle) # NoSlot
    PROVE  LET s == client_from_handle(k.handle)
           IN  s \in Slots /\ clients[s].fd = k.conn /\ clients[s].state # "FREE"
<1>1. PICK s \in Slots, g \in 1 .. SharedBit - 1 :
         /\ k.handle = pack_handle(1, s, g)
         /\ g <= clients[s].gen
         /\ g = clients[s].gen => clients[s].fd = k.conn
  BY DEF IndInv, Named, Names
<1>2. s \in Nat
  BY ServerNumbers
<1>3. IndexOf(k.handle) = s /\ GenOf(k.handle) = SharedBit * (s % 2) + g
  BY <1>1, <1>2, HandleUnpacks
<1>4. client_from_handle(k.handle) = s /\ GenOf(k.handle) = clients[s].gen
  BY <1>3 DEF client_from_handle
<1>5. clients[s].gen \in Nat /\ clients[s].gen <= SharedBit
  <2>1. clients[s].gen \in Nat /\ clients[s].gen <= count + 1 /\ count \in Nat /\ count <= Capacity
    BY ServerNumbers DEF IndInv, Types, Table
  <2> QED BY <2>1, ServerNumbers
<1>6. g = clients[s].gen
  <2>1. s % 2 = 0 \/ s % 2 = 1
    BY <1>2, DivMod
  <2>2. s % 2 = 1 => GenOf(k.handle) = SharedBit + g
    BY <1>3, ServerNumbers
  <2>3. s % 2 = 0 => GenOf(k.handle) = g
    BY <1>3, ServerNumbers
  <2> QED BY <1>4, <1>5, <2>1, <2>2, <2>3, ServerNumbers
<1>7. k.conn # NoFd
  <2>1. k.conn \in Conns
    <3>1. CASE k \in known
      BY <3>1 DEF IndInv, Types
    <3>2. CASE k \in ToSet(events)
      <4>1. PICK i \in DOMAIN events : k = events[i]
        BY <3>2 DEF ToSet
      <4>2. events[i] \in Announced
        BY <4>1 DEF IndInv, Types
      <4> QED BY <4>1, <4>2 DEF Announced
    <3> QED BY <3>1, <3>2
  <2> QED BY <2>1, ServerNumbers
<1> QED BY <1>1, <1>4, <1>6, <1>7 DEF IndInv, Table
-----------------------------------------------------------------------------
(* The least element of a set of structures or connections *)
LEMMA MinIsIn ==
    ASSUME NEW T, T \subseteq Nat, T # {}
    PROVE  Min(T) \in T
<1>1. \E x \in T : \A y \in T : x <= y
  BY LeastNatural
<1> QED BY <1>1 DEF Min

(* As long as accepts are left there is a free structure: the count of     *)
(* accepts bounds the structures in use.                                   *)
LEMMA FreeSlotLeft ==
    ASSUME IndInv, used, count < Capacity
    PROVE  \E s \in Slots : clients[s].state = "FREE"
<1> SUFFICES ASSUME \A s \in Slots : clients[s].state # "FREE" PROVE FALSE
  OBVIOUS
<1>1. Occupied = Slots
  BY DEF Occupied
<1>2. Cardinality(Occupied) <= count /\ count \in Nat
  BY ServerNumbers DEF IndInv, Types, Table
<1> QED BY <1>1, <1>2, ServerNumbers

(* The invariant gives the property the run checks. *)
LEMMA IndInvFaithful == IndInv => HandlesFaithful
<1> SUFFICES ASSUME IndInv PROVE HandlesFaithful
  OBVIOUS
<1>1. used => \A k \in known \cup ToSet(events) :
        LET s == client_from_handle(k.handle)
        IN  s # NoSlot => clients[s].fd = k.conn /\ clients[s].state # "FREE"
  BY NamesResolve
<1>2. ASSUME NEW c \in Conns, net[c].state = "accepted"
      PROVE  used /\ Cardinality({s \in Slots : clients[s].fd = c}) = 1
  <2>1. PICK s \in Slots : used /\ clients[s].fd = c
    BY <1>2 DEF IndInv, Owned
  <2>2. \A t \in Slots : clients[t].fd = c => t = s
    BY <2>1, ServerNumbers DEF IndInv, Table
  <2>3. {t \in Slots : clients[t].fd = c} = {s}
    BY <2>1, <2>2
  <2> QED BY <2>1, <2>3, FS_Singleton
<1>3. used => \A s \in Slots :
        /\ clients[s].fd = NoFd <=> clients[s].state = "FREE"
        /\ clients[s].fd # NoFd => net[clients[s].fd].state = "accepted"
  BY DEF IndInv, Table
<1>4. poll.pc = "accept" /\ MoreToAccept => \E s \in Slots : clients[s].state = "FREE"
  <2>1. poll.pc = "accept" => used
    BY DEF IndInv, Stopped
  <2> QED BY <2>1, FreeSlotLeft DEF MoreToAccept
<1> QED BY <1>1, <1>2, <1>3, <1>4 DEF HandlesFaithful
-----------------------------------------------------------------------------
(* What steps do to the table, the network and the handles that are about. *)

KeepsNet(c) == net'[c].state = "accepted" <=> net[c].state = "accepted"

NetShape == DOMAIN net' = Conns /\ \A c \in Conns : "state" \in DOMAIN net'[c]

(* No structure is taken or freed. *)
KeepsTable ==
    /\ used' = used /\ count' = count
    /\ DOMAIN clients' = Slots
    /\ \A s \in Slots :
          /\ {"state", "gen", "fd"} \subseteq DOMAIN clients'[s]
          /\ clients'[s].gen = clients[s].gen
          /\ clients'[s].fd = clients[s].fd
          /\ clients'[s].state = "FREE" <=> clients[s].state = "FREE"
    /\ NetShape
    /\ \A c \in Conns : KeepsNet(c)

(* One structure is freed and its descriptor closed. *)
FreesSlot(s) ==
    /\ used' = used /\ count' = count
    /\ clients' = [clients EXCEPT ![s] = free_client(s)]
    /\ NetShape
    /\ \A c \in Conns : c # clients[s].fd => KeepsNet(c)
    /\ net'[clients[s].fd].state # "accepted"

(* A handle made in this step, for a client that is there *)
Fresh(k) == \E s \in Slots :
    /\ clients[s].state # "FREE"
    /\ k.handle = pack_handle(1, s, clients[s].gen)
    /\ k.conn = clients[s].fd

(* Handles are handed on, or made for clients that are there. *)
Carries ==
    /\ events' \in Seq(Announced)
    /\ known' \subseteq [handle : MadeHandles, conn : Conns]
    /\ \A k \in known' \cup ToSet(events') :
          \/ Fresh(k)
          \/ \E j \in known \cup ToSet(events) : k.handle = j.handle /\ k.conn = j.conn

PollShape == {"pc", "polled", "turn", "listening", "moved"} \subseteq DOMAIN poll'

(* The generation of a client that is there leaves the shared bit alone. *)
LEMMA GenerationBound ==
    ASSUME IndInv, used, NEW s \in Slots
    PROVE  /\ clients[s].gen \in Nat \ {0} /\ clients[s].gen <= SharedBit
           /\ clients[s].gen <= count + 1
           /\ clients[s].state # "FREE" => clients[s].gen \in 1 .. SharedBit - 1
           /\ count < Capacity => clients[s].gen \in 1 .. SharedBit - 1
<1>1. /\ clients[s].gen \in Nat \ {0} /\ clients[s].gen <= count + 1
      /\ clients[s].state # "FREE" => clients[s].gen <= count
      /\ count \in Nat /\ count <= Capacity
  BY ServerNumbers DEF IndInv, Types, Table
<1> QED BY <1>1, ServerNumbers

(* The events push_event appends *)
LEMMA PushedEvents ==
    ASSUME events \in Seq(Announced), NEW types \in Seq(EventTypes),
           NEW s \in Slots, clients[s].gen \in 1 .. SharedBit - 1, NEW c \in Conns,
           NEW after, after = push_event(types, c, s)
    PROVE  /\ after \in Seq(Announced)
           /\ \A e \in ToSet(after) : \/ e \in ToSet(events)
                                      \/ /\ e.handle = pack_handle(1, s, clients[s].gen)
                                         /\ e.conn = c
<1> DEFINE made == pack_handle(1, s, clients[s].gen)
           new == [i \in DOMAIN types |-> Event(types[i], c, s)]
<1>1. made \in MadeHandles
  BY DEF MadeHandles
<1>2. \A i \in DOMAIN types : /\ Event(types[i], c, s) \in Announced
                              /\ Event(types[i], c, s).handle = made
                              /\ Event(types[i], c, s).conn = c
  <2> HIDE DEF made
  <2> QED BY <1>1 DEF Event, Announced, made
<1>3. /\ new \in Seq(Announced) /\ DOMAIN new = 1 .. Len(types) /\ Len(new) = Len(types)
      /\ \A i \in 1 .. Len(new) : new[i].handle = made /\ new[i].conn = c
  <2> HIDE DEF made
  <2>1. DOMAIN types = 1 .. Len(types) /\ Len(types) \in Nat
    OBVIOUS
  <2> QED BY <1>2, <2>1
<1> HIDE DEF made, new
<1>4. after = events \o new
  BY DEF push_event, new
<1>5. after \in Seq(Announced)
  BY <1>3, <1>4
<1>6. ASSUME NEW e \in ToSet(after)
      PROVE  e \in ToSet(events) \/ (e.handle = made /\ e.conn = c)
  <2>1. PICK i \in DOMAIN after : e = after[i]
    BY DEF ToSet
  <2>2. i \in 1 .. Len(events) + Len(new) /\ Len(events) \in Nat /\ Len(new) \in Nat
    BY <1>3, <1>4, <2>1
  <2>3. CASE i <= Len(events)
    BY <1>3, <1>4, <2>1, <2>2, <2>3 DEF ToSet
  <2>4. CASE i > Len(events)
    <3>1. e = new[i - Len(events)] /\ i - Len(events) \in 1 .. Len(new)
      BY <1>3, <1>4, <2>1, <2>2, <2>4
    <3> QED BY <1>3, <3>1
  <2> QED BY <2>2, <2>3, <2>4
<1> QED BY <1>5, <1>6 DEF made

(* A push for a client that is there carries the handles on. *)
LEMMA PushCarries ==
    ASSUME IndInv, used, NEW s \in Slots, clients[s].state # "FREE",
           NEW types \in Seq(EventTypes),
           events' = push_event(types, clients[s].fd, s), known' = known
    PROVE  Carries
<1>1. clients[s].gen \in 1 .. SharedBit - 1 /\ clients[s].fd \in Conns
  BY GenerationBound DEF IndInv, Types, Table
<1>2. events \in Seq(Announced) /\ known \subseteq [handle : MadeHandles, conn : Conns]
  BY DEF IndInv, Types
<1>3. /\ events' \in Seq(Announced)
      /\ \A e \in ToSet(events') : \/ e \in ToSet(events)
                                   \/ /\ e.handle = pack_handle(1, s, clients[s].gen)
                                      /\ e.conn = clients[s].fd
  BY <1>1, <1>2, PushedEvents
<1>4. \A k \in known' \cup ToSet(events') :
          \/ Fresh(k)
          \/ \E j \in known \cup ToSet(events) : k.handle = j.handle /\ k.conn = j.conn
  BY <1>3 DEF Fresh
<1> QED BY <1>2, <1>3, <1>4 DEF Carries

(* So do steps that leave handles alone. *)
LEMMA SameCarries ==
    ASSUME IndInv, events' = events, known' = known
    PROVE  Carries
  BY DEF IndInv, Types, Carries
-----------------------------------------------------------------------------
(* A step that keeps the table and carries the handles on keeps the        *)
(* invariant, if it leaves the loops of tcp_server_poll right.             *)
LEMMA KeepsTableKeepsIndInv ==
    ASSUME IndInv, KeepsTable, Carries, PollShape, Polling',
           used \/ (known' = known /\ poll' = poll)
    PROVE  IndInv'
<1>1. Shapes'
  BY DEF KeepsTable, NetShape, PollShape, Shapes
<1>2. Types'
  BY DEF IndInv, Types, KeepsTable, Carries
<1>3. Owned'
  BY DEF IndInv, Types, Owned, KeepsTable, KeepsNet
<1>4. ASSUME used PROVE Table'
  <2>1. Occupied' = Occupied
    BY DEF Occupied, KeepsTable
  <2>2. Cardinality(Occupied') <= count'
    BY <1>4, <2>1 DEF IndInv, Table, KeepsTable
  <2>3. ASSUME NEW s \in Slots
        PROVE  /\ clients'[s].fd = NoFd <=> clients'[s].state = "FREE"
               /\ clients'[s].fd # NoFd => net'[clients'[s].fd].state = "accepted"
               /\ clients'[s].gen <= count' + 1
               /\ clients'[s].state # "FREE" => clients'[s].gen <= count'
    BY <1>4 DEF IndInv, Types, Table, KeepsTable, KeepsNet
  <2>4. \A s, t \in Slots : clients'[s].fd = clients'[t].fd /\ clients'[s].fd # NoFd => s = t
    BY <1>4 DEF IndInv, Table, KeepsTable
  <2> QED BY <2>2, <2>3, <2>4 DEF Table
<1>5. ASSUME used, NEW k \in known' \cup ToSet(events') PROVE Names(k)'
  <2>1. CASE Fresh(k)
    <3>1. PICK s \in Slots : /\ clients[s].state # "FREE"
                             /\ k.handle = pack_handle(1, s, clients[s].gen)
                             /\ k.conn = clients[s].fd
      BY <2>1 DEF Fresh
    <3>2. clients[s].gen \in 1 .. SharedBit - 1
      BY <1>5, <3>1, GenerationBound
    <3>3. clients'[s].gen = clients[s].gen /\ clients'[s].fd = clients[s].fd
      BY DEF KeepsTable
    <3> QED BY <3>1, <3>2, <3>3 DEF Names
  <2>2. CASE \E j \in known \cup ToSet(events) : k.handle = j.handle /\ k.conn = j.conn
    <3>1. PICK j \in known \cup ToSet(events) : k.handle = j.handle /\ k.conn = j.conn
      BY <2>2
    <3>2. Names(j)
      BY <1>5 DEF IndInv, Named
    <3>3. PICK s \in Slots, g \in 1 .. SharedBit - 1 :
             /\ j.handle = pack_handle(1, s, g)
             /\ g <= clients[s].gen
             /\ g = clients[s].gen => clients[s].fd = j.conn
      BY <3>2 DEF Names
    <3>4. clients'[s].gen = clients[s].gen /\ clients'[s].fd = clients[s].fd
      BY DEF KeepsTable
    <3> QED BY <3>1, <3>3, <3>4 DEF Names
  <2> QED BY <2>1, <2>2 DEF Carries
<1>6. used => Named'
  BY <1>5, Zenon DEF Named
<1>7. ~used => Stopped'
  BY DEF IndInv, Stopped
<1>8. used' = used
  BY DEF KeepsTable
<1> QED BY <1>1, <1>2, <1>3, <1>4, <1>6, <1>7, <1>8 DEF IndInv

(* Freeing a structure keeps the invariant: its generation moves on, past  *)
(* those of all handles that were made for it.                             *)
LEMMA FreesSlotKeepsIndInv ==
    ASSUME IndInv, used, NEW s \in Slots, clients[s].state # "FREE", FreesSlot(s),
           events' = events, known' = known, PollShape, Polling'
    PROVE  IndInv'
<1>1. /\ clients[s].gen \in 1 .. SharedBit - 1 /\ clients[s].gen <= count
      /\ clients[s].fd \in Conns /\ count \in Nat
  BY GenerationBound, ServerNumbers DEF IndInv, Types, Table
<1>2. NextGen(clients[s].gen) = clients[s].gen + 1
  BY <1>1, ServerNumbers DEF NextGen
<1>3. /\ DOMAIN clients' = Slots
      /\ \A t \in Slots : t # s => clients'[t] = clients[t]
      /\ clients'[s] = free_client(s)
  BY DEF FreesSlot, IndInv, Shapes
<1>4. /\ clients'[s].gen = clients[s].gen + 1 /\ clients'[s].fd = NoFd
      /\ clients'[s].state = "FREE" /\ {"state", "gen", "fd"} \subseteq DOMAIN clients'[s]
  BY <1>2, <1>3 DEF free_client, NewClient
<1>5. Shapes'
  BY <1>3, <1>4 DEF FreesSlot, NetShape, PollShape, Shapes, IndInv
<1>6. Types'
  BY <1>1, <1>3, <1>4 DEF IndInv, Types, FreesSlot
<1>7. Owned'
  <2> SUFFICES ASSUME NEW c \in Conns, net'[c].state = "accepted"
               PROVE  used' /\ \E t \in Slots : clients'[t].fd = c
    BY DEF Owned
  <2>1. c # clients[s].fd /\ net[c].state = "accepted"
    BY DEF FreesSlot, KeepsNet
  <2>2. PICK t \in Slots : clients[t].fd = c
    BY <2>1 DEF IndInv, Owned
  <2> QED BY <1>3, <2>1, <2>2 DEF FreesSlot
<1>8. Table'
  <2>1. Occupied' = Occupied \ {s} /\ s \in Occupied
    BY <1>3, <1>4 DEF Occupied
  <2>2. Cardinality(Occupied') <= count'
    <3>1. IsFiniteSet(Occupied)
      BY ServerNumbers, FS_Subset DEF Occupied
    <3>2. Cardinality(Occupied') <= Cardinality(Occupied)
      BY <2>1, <3>1, FS_Subset
    <3>3. Cardinality(Occupied) \in Nat /\ Cardinality(Occupied') \in Nat
      BY <2>1, <3>1, FS_CardinalityType, FS_Subset
    <3> QED BY <1>1, <3>2, <3>3 DEF IndInv, Table, FreesSlot
  <2>3. \A t, u \in Slots : clients'[t].fd = clients'[u].fd /\ clients'[t].fd # NoFd => t = u
    BY <1>3, <1>4 DEF IndInv, Table
  <2>4. ASSUME NEW t \in Slots
        PROVE  /\ clients'[t].fd = NoFd <=> clients'[t].state = "FREE"
               /\ clients'[t].fd # NoFd => net'[clients'[t].fd].state = "accepted"
               /\ clients'[t].gen <= count' + 1
               /\ clients'[t].state # "FREE" => clients'[t].gen <= count'
    <3>1. CASE t = s
      BY <1>1, <1>4, <3>1 DEF FreesSlot
    <3>2. CASE t # s
      <4>1. clients'[t] = clients[t] /\ count' = count
        BY <1>3, <3>2 DEF FreesSlot
      <4>2. ASSUME clients[t].fd # NoFd PROVE net'[clients[t].fd].state = "accepted"
        <5>1. clients[t].fd # clients[s].fd
          BY <3>2, <4>2 DEF IndInv, Table
        <5>2. clients[t].fd \in Conns /\ net[clients[t].fd].state = "accepted"
          BY <4>2 DEF IndInv, Types, Table
        <5> QED BY <5>1, <5>2 DEF FreesSlot, KeepsNet
      <4> QED BY <4>1, <4>2 DEF IndInv, Table
    <3> QED BY <3>1, <3>2
  <2> QED BY <2>2, <2>3, <2>4 DEF Table
<1>9. Named'
  <2> SUFFICES ASSUME NEW k \in known \cup ToSet(events) PROVE Names(k)'
    BY DEF Named
  <2>1. PICK t \in Slots, g \in 1 .. SharedBit - 1 :
           /\ k.handle = pack_handle(1, t, g)
           /\ g <= clients[t].gen
           /\ g = clients[t].gen => clients[t].fd = k.conn
    BY DEF IndInv, Named, Names
  <2>2. g <= clients'[t].gen /\ (g = clients'[t].gen => clients'[t].fd = k.conn)
    <3>1. CASE t = s
      BY <1>1, <1>4, <2>1, <3>1
    <3>2. CASE t # s
      BY <1>3, <2>1, <3>2
    <3> QED BY <3>1, <3>2
  <2> QED BY <2>1, <2>2 DEF Names
<1> QED BY <1>5, <1>6, <1>7, <1>8, <1>9 DEF IndInv, FreesSlot

(* The loops over poll_array come to clients that are not free: within a   *)
(* poll only the output loop frees clients, each in its own turn.          *)
LEMMA NextTurnKeepsPolling ==
    ASSUME IndInv, poll.pc # "idle", NextTurn,
           \A s \in Occupied : s \in Occupied' \/ (poll.pc = "output" /\ s = poll.turn)
    PROVE  PollShape /\ Polling'
<1> DEFINE later == {s \in poll.polled : poll.pc # "accept" /\ s > poll.turn}
           first == IF poll.polled = {} THEN 0 ELSE Min(poll.polled)
<1>1. poll.polled \subseteq Slots /\ poll.polled \subseteq Nat /\ Slots \subseteq Nat
  BY ServerNumbers DEF IndInv, Polling
<1>2. poll.polled # {} => first \in poll.polled
  BY <1>1, MinIsIn
<1>3. later # {} => Min(later) \in later
  BY <1>1, MinIsIn
<1>4. {"pc", "polled", "turn", "listening", "moved"} \subseteq DOMAIN poll
  BY DEF IndInv, Shapes
<1>5. poll.pc \in {"accept", "input", "output"}
  BY DEF IndInv, Polling
<1>6. /\ poll.pc \in {"input", "output"} /\ poll.polled # {} => poll.turn \in poll.polled
      /\ poll.pc \in {"accept", "input"} => poll.polled \subseteq Occupied
      /\ poll.pc = "output" => \A s \in poll.polled : s >= poll.turn => s \in Occupied
  BY DEF IndInv, Polling
<1>7. poll' = IF later # {}
              THEN [poll EXCEPT !.turn = Min(later), !.moved = FALSE]
              ELSE CASE poll.pc = "accept" -> [poll EXCEPT !.pc = "input", !.turn = first,
                                                           !.listening = FALSE]
                     [] poll.pc = "input" -> [poll EXCEPT !.pc = "output", !.turn = first,
                                                          !.moved = FALSE]
                     [] poll.pc = "output" -> NotPolling
  BY DEF NextTurn
<1> HIDE DEF later, first
<1>8. CASE later # {}
  <2>1. /\ poll'.pc = poll.pc /\ poll'.polled = poll.polled /\ poll'.turn = Min(later)
        /\ PollShape
    BY <1>4, <1>7, <1>8 DEF PollShape
  <2>2. Min(later) \in poll.polled /\ Min(later) > poll.turn /\ poll.pc # "accept"
    BY <1>3, <1>8 DEF later
  <2>3. poll.turn \in Nat /\ Min(later) \in Nat
    BY <1>1, <1>5, <1>6, <2>2
  <2>4. ASSUME poll.pc = "input" PROVE poll.polled \subseteq Occupied'
    BY <1>6, <2>4
  <2>5. ASSUME poll.pc = "output", NEW s \in poll.polled, s >= Min(later) PROVE s \in Occupied'
    <3>1. s \in Nat
      BY <1>1
    <3>2. s >= poll.turn /\ s # poll.turn
      BY <2>2, <2>3, <2>5, <3>1
    <3> QED BY <1>6, <2>5, <3>2
  <2> QED BY <1>1, <1>5, <2>1, <2>2, <2>4, <2>5 DEF Polling
<1>9. CASE later = {}
  <2>1. CASE poll.pc = "accept"
    <3>1. poll' = [poll EXCEPT !.pc = "input", !.turn = first, !.listening = FALSE]
      BY <1>7, <1>9, <2>1
    <3>2. /\ poll'.pc = "input" /\ poll'.polled = poll.polled /\ poll'.turn = first
          /\ PollShape
      BY <1>4, <3>1 DEF PollShape
    <3>3. poll.polled \subseteq Occupied'
      BY <1>6, <2>1
    <3> QED BY <1>1, <1>2, <3>2, <3>3 DEF Polling
  <2>2. CASE poll.pc = "input"
    <3>1. poll' = [poll EXCEPT !.pc = "output", !.turn = first, !.moved = FALSE]
      BY <1>7, <1>9, <2>2
    <3>2. /\ poll'.pc = "output" /\ poll'.polled = poll.polled /\ poll'.turn = first
          /\ PollShape
      BY <1>4, <3>1 DEF PollShape
    <3>3. poll.polled \subseteq Occupied'
      BY <1>6, <2>2
    <3> QED BY <1>1, <1>2, <3>2, <3>3 DEF Polling
  <2>3. CASE poll.pc = "output"
    <3>1. poll' = NotPolling
      BY <1>7, <1>9, <2>3
    <3> QED BY <3>1 DEF NotPolling, Polling, PollShape
  <2> QED BY <1>5, <2>1, <2>2, <2>3
<1> QED BY <1>8, <1>9

(* The loops are undisturbed where the table is kept. *)
LEMMA SamePolling ==
    ASSUME IndInv, KeepsTable, poll' = poll
    PROVE  PollShape /\ Polling'
<1>1. Occupied' = Occupied
  BY DEF Occupied, KeepsTable
<1>2. PollShape
  BY DEF PollShape, IndInv, Shapes
<1>3. Polling'
  BY <1>1 DEF IndInv, Polling
<1> QED BY <1>2, <1>3

(* An update of the queues of a client, or of its state, keeps the table. *)
LEMMA UpdateKeepsClients ==
    ASSUME IndInv, NEW s \in Slots, NEW c,
           clients' = [clients EXCEPT ![s] = c],
           {"state", "gen", "fd"} \subseteq DOMAIN c,
           c.gen = clients[s].gen, c.fd = clients[s].fd,
           c.state = "FREE" <=> clients[s].state = "FREE"
    PROVE  /\ DOMAIN clients' = Slots
           /\ \A t \in Slots :
                 /\ {"state", "gen", "fd"} \subseteq DOMAIN clients'[t]
                 /\ clients'[t].gen = clients[t].gen
                 /\ clients'[t].fd = clients[t].fd
                 /\ clients'[t].state = "FREE" <=> clients[t].state = "FREE"
<1>1. /\ DOMAIN clients = Slots
      /\ \A t \in Slots : {"state", "gen", "fd"} \subseteq DOMAIN clients[t]
  BY DEF IndInv, Shapes
<1>2. DOMAIN clients' = Slots /\ \A t \in Slots : clients'[t] = IF t = s THEN c ELSE clients[t]
  BY <1>1
<1>3. ASSUME NEW t \in Slots
      PROVE  /\ {"state", "gen", "fd"} \subseteq DOMAIN clients'[t]
             /\ clients'[t].gen = clients[t].gen
             /\ clients'[t].fd = clients[t].fd
             /\ clients'[t].state = "FREE" <=> clients[t].state = "FREE"
  <2>1. CASE t = s
    BY <1>2, <2>1
  <2>2. CASE t # s
    BY <1>1, <1>2, <2>2
  <2> QED BY <2>1, <2>2
<1> QED BY <1>2, <1>3

(* An update of a connection that leaves its acceptance as it was *)
LEMMA UpdateKeepsNet ==
    ASSUME IndInv, NEW c \in Conns, NEW n,
           net' = [net EXCEPT ![c] = n],
           "state" \in DOMAIN n, n.state = "accepted" <=> net[c].state = "accepted"
    PROVE  NetShape /\ \A d \in Conns : KeepsNet(d)
<1>1. DOMAIN net = Conns /\ \A d \in Conns : "state" \in DOMAIN net[d]
  BY DEF IndInv, Shapes
<1>2. DOMAIN net' = Conns /\ \A d \in Conns : net'[d] = IF d = c THEN n ELSE net[d]
  BY <1>1
<1> QED BY <1>1, <1>2 DEF NetShape, KeepsNet

(* A step that leaves the connections alone keeps their acceptance. *)
LEMMA SameNet ==
    ASSUME IndInv, net' = net
    PROVE  NetShape /\ \A d \in Conns : KeepsNet(d)
  BY DEF IndInv, Shapes, NetShape, KeepsNet

(* A step that leaves the structures alone keeps the table. *)
LEMMA SameClients ==
    ASSUME IndInv, clients' = clients
    PROVE  /\ DOMAIN clients' = Slots
           /\ \A t \in Slots :
                 /\ {"state", "gen", "fd"} \subseteq DOMAIN clients'[t]
                 /\ clients'[t].gen = clients[t].gen
                 /\ clients'[t].fd = clients[t].fd
                 /\ clients'[t].state = "FREE" <=> clients[t].state = "FREE"
  BY DEF IndInv, Shapes

(* The network does not touch the server. *)
LEMMA PeerKeepsIndInv ==
    ASSUME IndInv, Peer
    PROVE  IndInv'
<1>1. PICK c \in Conns : Connect(c) \/ PeerSends(c) \/ PeerFinishes(c) \/ PeerResets(c)
  BY DEF Peer
<1>2. PeerStep
  BY <1>1 DEF Connect, PeerSends, PeerFinishes, PeerResets
<1>3. DOMAIN net = Conns /\ "state" \in DOMAIN net[c]
  BY DEF IndInv, Shapes
<1>4. \E n : /\ net' = [net EXCEPT ![c] = n]
             /\ "state" \in DOMAIN n /\ (n.state = "accepted" <=> net[c].state = "accepted")
  <2>1. CASE Connect(c)
    <3>1. PICK n : n = [net[c] EXCEPT !.state = "backlog"] /\ net' = [net EXCEPT ![c] = n]
      BY <2>1 DEF Connect
    <3>2. net[c].state # "accepted"
      BY <2>1 DEF Connect
    <3>3. "state" \in DOMAIN n /\ n.state = "backlog"
      BY <1>3, <3>1
    <3> QED BY <3>1, <3>2, <3>3
  <2>2. CASE PeerSends(c)
    <3>1. PICK n, sent, pending :
             /\ n = [net[c] EXCEPT !.sent = sent, !.pending = pending]
             /\ net' = [net EXCEPT ![c] = n]
      BY <2>2 DEF PeerSends
    <3>2. "state" \in DOMAIN n /\ n.state = net[c].state
      BY <1>3, <3>1
    <3> QED BY <3>1, <3>2
  <2>3. CASE PeerFinishes(c)
    <3>1. PICK n : n = [net[c] EXCEPT !.fin = TRUE] /\ net' = [net EXCEPT ![c] = n]
      BY <2>3 DEF PeerFinishes
    <3>2. "state" \in DOMAIN n /\ n.state = net[c].state
      BY <1>3, <3>1
    <3> QED BY <3>1, <3>2
  <2>4. CASE PeerResets(c)
    <3>1. PICK n, left : /\ n = [net[c] EXCEPT !.rst = TRUE, !.pending = left]
                         /\ net' = [net EXCEPT ![c] = n]
      BY <2>4 DEF PeerResets
    <3>2. "state" \in DOMAIN n /\ n.state = net[c].state
      BY <1>3, <3>1
    <3> QED BY <3>1, <3>2
  <2> QED BY <1>1, <2>1, <2>2, <2>3, <2>4
<1>5. NetShape /\ \A d \in Conns : KeepsNet(d)
  BY <1>4, UpdateKeepsNet
<1>6. KeepsTable
  BY <1>2, <1>5, SameClients DEF KeepsTable, PeerStep
<1>7. Carries
  BY <1>2, SameCarries DEF PeerStep
<1>8. PollShape /\ Polling'
  BY <1>2, <1>6, SamePolling DEF PeerStep
<1> QED BY <1>2, <1>6, <1>7, <1>8, KeepsTableKeepsIndInv DEF PeerStep

(* tcp_server_create starts with a table of free structures. *)
LEMMA CreateKeepsIndInv ==
    ASSUME IndInv, tcp_server_create
    PROVE  IndInv'
<1>1. /\ ~used /\ used' /\ count' = 0 /\ clients' = [s \in Slots |-> NewClient]
      /\ events' = <<>> /\ poll' = poll /\ net' = net /\ known' = known
  BY DEF tcp_server_create
<1>2. known' = {} /\ poll'.pc = "idle"
  BY <1>1 DEF IndInv, Stopped
<1>3. \A s \in Slots : /\ clients'[s].state = "FREE" /\ clients'[s].gen = 1
                       /\ clients'[s].fd = NoFd
                       /\ {"state", "gen", "fd"} \subseteq DOMAIN clients'[s]
  BY <1>1 DEF NewClient
<1>4. Shapes'
  BY <1>1, <1>3 DEF IndInv, Shapes
<1>5. ToSet(events') = {} /\ events' \in Seq(Announced)
  BY <1>1 DEF ToSet
<1>6. Types'
  BY <1>1, <1>2, <1>3, <1>5, ServerNumbers DEF Types
<1>7. \A c \in Conns : net[c].state # "accepted"
  BY <1>1 DEF IndInv, Owned
<1>8. Owned'
  BY <1>1, <1>7 DEF Owned
<1>9. Table'
  <2>1. Occupied' = {}
    BY <1>3 DEF Occupied
  <2>2. Cardinality(Occupied') <= count'
    BY <1>1, <2>1, FS_EmptySet
  <2> QED BY <1>1, <1>3, <2>2 DEF Table
<1>10. Named'
  BY <1>2, <1>5 DEF Named
<1>11. Polling'
  BY <1>1, <1>2 DEF IndInv, Polling
<1> QED BY <1>1, <1>4, <1>6, <1>8, <1>9, <1>10, <1>11 DEF IndInv

(* The structures of a new server *)
LEMMA NewStructures ==
    ASSUME clients' = [s \in Slots |-> NewClient]
    PROVE  \A s \in Slots : /\ clients'[s].state = "FREE" /\ clients'[s].gen = 1
                            /\ clients'[s].fd = NoFd
                            /\ {"state", "gen", "fd"} \subseteq DOMAIN clients'[s]
  BY DEF NewClient

(* tcp_server_delete closes every descriptor, and the handles go stale. *)
LEMMA DeleteKeepsIndInv ==
    ASSUME IndInv, tcp_server_delete
    PROVE  IndInv'
<1>1. /\ used /\ poll.pc = "idle" /\ used' = FALSE /\ known' = {}
      /\ count' = count /\ clients' = [s \in Slots |-> NewClient] /\ events' = <<>>
      /\ poll' = poll
      /\ net' = [c \in Conns |->
                   IF net[c].state \in {"backlog", "closed"} \/ \E s \in Slots : clients[s].fd = c
                   THEN Forgotten ELSE net[c]]
  BY DEF tcp_server_delete, Idle
<1>2. ASSUME NEW c \in Conns PROVE "state" \in DOMAIN net'[c] /\ net'[c].state # "accepted"
  <2>1. CASE net[c].state \in {"backlog", "closed"} \/ \E s \in Slots : clients[s].fd = c
    <3>1. net'[c] = Forgotten
      BY <1>1, <2>1
    <3> QED BY <3>1 DEF Forgotten, NewConn
  <2>2. CASE ~(net[c].state \in {"backlog", "closed"} \/ \E s \in Slots : clients[s].fd = c)
    <3>1. net'[c] = net[c]
      BY <1>1, <2>2
    <3> QED BY <2>2, <3>1 DEF IndInv, Shapes, Owned
  <2> QED BY <2>1, <2>2
<1>3. DOMAIN net' = Conns
  BY <1>1
<1>4. Shapes'
  BY <1>1, <1>2, <1>3, NewStructures DEF IndInv, Shapes
<1>5. events' \in Seq(Announced)
  BY <1>1
<1>6. Types'
  <2>1. \A s \in Slots : clients'[s].gen = 1 /\ clients'[s].fd = NoFd
    BY <1>1, NewStructures
  <2>2. \A s \in Slots : clients'[s].gen \in Nat \ {0} /\ clients'[s].fd \in Conns \cup {NoFd}
    BY <2>1
  <2>3. used' \in BOOLEAN /\ count' \in 0 .. Capacity
    BY <1>1 DEF IndInv, Types
  <2>4. known' \subseteq [handle : MadeHandles, conn : Conns]
    BY <1>1
  <2> QED BY <1>5, <2>2, <2>3, <2>4, Zenon DEF Types
<1>7. Owned'
  BY <1>2 DEF Owned
<1>8. Polling'
  BY <1>1 DEF IndInv, Polling
<1>9. Stopped'
  BY <1>1 DEF Stopped
<1> QED BY <1>1, <1>4, <1>6, <1>7, <1>8, <1>9 DEF IndInv

(* The call of poll picks clients that are not free. *)
LEMMA PollKeepsIndInv ==
    ASSUME IndInv, tcp_server_poll
    PROVE  IndInv'
<1>1. /\ used /\ poll.pc = "idle"
      /\ UNCHANGED <<servers, used, count, clients, events, net, known, stale, hist, overrun>>
  BY DEF tcp_server_poll, Idle
<1>2. KeepsTable
  BY <1>1, SameClients, SameNet DEF KeepsTable
<1>3. Carries
  BY <1>1, SameCarries
<1>4. PICK r : \/ poll' = NotPolling
               \/ poll' = [pc |-> "accept",
                           polled |-> {s \in Slots : clients[s].state \notin {"FREE", "HANGUP"}},
                           turn |-> 0, revents |-> r, listening |-> Backlog # {},
                           moved |-> FALSE]
  BY DEF tcp_server_poll
<1>5. {s \in Slots : clients[s].state \notin {"FREE", "HANGUP"}} \subseteq Occupied'
  BY <1>1 DEF Occupied
<1>6. PollShape /\ Polling'
  <2>1. CASE poll' = NotPolling
    BY <2>1 DEF NotPolling, PollShape, Polling
  <2>2. CASE poll' # NotPolling
    <3>1. /\ poll'.pc = "accept" /\ PollShape
          /\ poll'.polled = {s \in Slots : clients[s].state \notin {"FREE", "HANGUP"}}
      BY <1>4, <2>2 DEF PollShape
    <3> QED BY <1>5, <3>1 DEF Polling
  <2> QED BY <2>1, <2>2
<1> QED BY <1>1, <1>2, <1>3, <1>6, KeepsTableKeepsIndInv

(* The connection of a handle that is about is a connection. *)
LEMMA HandleConn ==
    ASSUME IndInv, NEW k \in known \cup ToSet(events)
    PROVE  k.conn \in Conns
<1>1. CASE k \in known
  BY <1>1 DEF IndInv, Types
<1>2. CASE k \in ToSet(events)
  <2>1. PICK i \in DOMAIN events : k = events[i]
    BY <1>2 DEF ToSet
  <2>2. events[i] \in Announced
    BY <2>1 DEF IndInv, Types
  <2> QED BY <2>1, <2>2 DEF Announced
<1> QED BY <1>1, <1>2

(* Taking a free structure for a connection of the backlog keeps the       *)
(* invariant: its generation is new to the handles.                        *)
LEMMA TakeKeepsIndInv ==
    ASSUME IndInv, used, poll.pc = "accept", count < Capacity,
           NEW c \in Conns, net[c].state = "backlog",
           NEW s \in Slots, clients[s].state = "FREE",
           net' = [net EXCEPT ![c].state = "accepted"],
           clients' = [clients EXCEPT ![s].state = "USED", ![s].fd = c,
                                      ![s].input = byte_queue_init,
                                      ![s].output = byte_queue_init],
           count' = count + 1,
           events' = push_event(<<"CONNECT">>, c, s),
           used' = used, poll' = poll, known' = known
    PROVE  IndInv'
<1>1. /\ DOMAIN clients = Slots /\ DOMAIN net = Conns
      /\ {"state", "gen", "fd"} \subseteq DOMAIN clients[s]
      /\ "state" \in DOMAIN net[c]
  BY DEF IndInv, Shapes
<1>2. /\ DOMAIN clients' = Slots
      /\ \A t \in Slots : t # s => clients'[t] = clients[t]
      /\ {"state", "gen", "fd"} \subseteq DOMAIN clients'[s]
      /\ clients'[s].state = "USED" /\ clients'[s].fd = c /\ clients'[s].gen = clients[s].gen
  BY <1>1
<1>3. /\ DOMAIN net' = Conns /\ \A d \in Conns : d # c => net'[d] = net[d]
      /\ "state" \in DOMAIN net'[c] /\ net'[c].state = "accepted"
  BY <1>1
<1>4. /\ clients[s].gen \in 1 .. SharedBit - 1 /\ clients[s].gen <= count + 1
      /\ count \in Nat /\ clients[s].fd = NoFd
  BY GenerationBound, ServerNumbers DEF IndInv, Types, Table
<1>5. /\ events' \in Seq(Announced)
      /\ \A e \in ToSet(events') : \/ e \in ToSet(events)
                                   \/ /\ e.handle = pack_handle(1, s, clients[s].gen)
                                      /\ e.conn = c
  <2>1. events \in Seq(Announced)
    BY DEF IndInv, Types
  <2>2. PICK types \in Seq(EventTypes) : types = <<"CONNECT">>
    <3>1. <<"CONNECT">> \in Seq(EventTypes)
      BY DEF EventTypes
    <3> QED BY <3>1
  <2>3. events' = push_event(types, c, s)
    BY <2>2
  <2> QED BY <1>4, <2>1, <2>3, PushedEvents
<1>6. \A t \in Slots : clients[t].fd # c
  <2>1. \A t \in Slots : clients[t].fd # NoFd => net[clients[t].fd].state = "accepted"
    BY DEF IndInv, Table
  <2> QED BY <2>1, ServerNumbers
<1>7. Shapes'
  BY <1>2, <1>3 DEF IndInv, Shapes
<1>8. Types'
  <2>1. count' \in 0 .. Capacity
    BY <1>4, ServerNumbers
  <2> QED BY <1>2, <1>4, <1>5, <2>1 DEF IndInv, Types
<1>9. Owned'
  <2> SUFFICES ASSUME NEW d \in Conns, net'[d].state = "accepted"
               PROVE  used' /\ \E t \in Slots : clients'[t].fd = d
    BY DEF Owned
  <2>1. CASE d = c
    BY <1>2, <2>1
  <2>2. CASE d # c
    <3>1. PICK t \in Slots : clients[t].fd = d
      BY <1>3, <2>2 DEF IndInv, Owned
    <3>2. t # s
      BY <1>4, <3>1, ServerNumbers
    <3> QED BY <1>2, <3>1, <3>2
  <2> QED BY <2>1, <2>2
<1>10. Occupied' = Occupied \cup {s} /\ s \notin Occupied
  BY <1>2 DEF Occupied
<1>11. Table'
  <2>1. Cardinality(Occupied') <= count'
    <3>1. IsFiniteSet(Occupied)
      BY ServerNumbers, FS_Subset DEF Occupied
    <3>2. Cardinality(Occupied \cup {s}) = Cardinality(Occupied) + 1
      BY <1>10, <3>1, FS_AddElement
    <3>3. Cardinality(Occupied) \in Nat /\ Cardinality(Occupied) <= count
      BY <3>1, FS_CardinalityType DEF IndInv, Table
    <3> QED BY <1>4, <1>10, <3>2, <3>3
  <2>2. \A t, u \in Slots : clients'[t].fd = clients'[u].fd /\ clients'[t].fd # NoFd => t = u
    BY <1>2, <1>6 DEF IndInv, Table
  <2>3. ASSUME NEW t \in Slots
        PROVE  /\ clients'[t].fd = NoFd <=> clients'[t].state = "FREE"
               /\ clients'[t].fd # NoFd => net'[clients'[t].fd].state = "accepted"
               /\ clients'[t].gen <= count' + 1
               /\ clients'[t].state # "FREE" => clients'[t].gen <= count'
    <3>1. CASE t = s
      BY <1>2, <1>3, <1>4, <3>1, ServerNumbers
    <3>2. CASE t # s
      <4>1. clients'[t] = clients[t]
        BY <1>2, <3>2
      <4>2. clients[t].gen \in Nat /\ clients[t].fd \in Conns \cup {NoFd}
        BY DEF IndInv, Types
      <4>3. /\ clients[t].fd = NoFd <=> clients[t].state = "FREE"
            /\ clients[t].fd # NoFd => net[clients[t].fd].state = "accepted"
            /\ clients[t].gen <= count + 1
            /\ clients[t].state # "FREE" => clients[t].gen <= count
        BY DEF IndInv, Table
      <4> QED BY <1>3, <1>4, <1>6, <4>1, <4>2, <4>3
    <3> QED BY <3>1, <3>2
  <2> QED BY <2>1, <2>2, <2>3 DEF Table
<1>12. Named'
  <2> SUFFICES ASSUME NEW k \in known' \cup ToSet(events') PROVE Names(k)'
    BY DEF Named
  <2>1. CASE k \in known \cup ToSet(events)
    <3>1. PICK t \in Slots, g \in 1 .. SharedBit - 1 :
             /\ k.handle = pack_handle(1, t, g)
             /\ g <= clients[t].gen
             /\ g = clients[t].gen => clients[t].fd = k.conn
      BY <2>1 DEF IndInv, Named, Names
    <3>2. k.conn # NoFd
      BY <2>1, HandleConn, ServerNumbers
    <3>3. g <= clients'[t].gen /\ (g = clients'[t].gen => clients'[t].fd = k.conn)
      <4>1. CASE t = s
        BY <1>2, <1>4, <3>1, <3>2, <4>1
      <4>2. CASE t # s
        BY <1>2, <3>1, <4>2
      <4> QED BY <4>1, <4>2
    <3> QED BY <3>1, <3>3 DEF Names
  <2>2. CASE k \notin known \cup ToSet(events)
    <3>1. k.handle = pack_handle(1, s, clients[s].gen) /\ k.conn = c
      BY <1>5, <2>2
    <3> QED BY <1>2, <1>4, <3>1 DEF Names
  <2> QED BY <2>1, <2>2
<1>13. Polling'
  BY <1>10 DEF IndInv, Polling
<1> QED BY <1>7, <1>8, <1>9, <1>11, <1>12, <1>13 DEF IndInv

(* A turn of the accept loop takes a structure or closes the socket. *)
LEMMA AcceptKeepsIndInv ==
    ASSUME IndInv, Accept
    PROVE  IndInv'
<1>1. /\ used /\ poll.pc = "accept" /\ count < Capacity /\ Backlog # {}
  BY DEF Accept, MoreToAccept, IndInv, Stopped
<1>2. PICK c \in Conns : c = Min(Backlog) /\ net[c].state = "backlog"
  <2>1. Backlog \subseteq Nat
    BY ServerNumbers DEF Backlog
  <2>2. Min(Backlog) \in Backlog
    BY <1>1, <2>1, MinIsIn
  <2> QED BY <2>2 DEF Backlog
<1>3. PICK s \in Slots : /\ s = Min({t \in Slots : clients[t].state = "FREE"})
                         /\ clients[s].state = "FREE"
  <2>1. {t \in Slots : clients[t].state = "FREE"} # {}
    BY <1>1, FreeSlotLeft
  <2>2. {t \in Slots : clients[t].state = "FREE"} \subseteq Nat
    BY ServerNumbers
  <2>3. Min({t \in Slots : clients[t].state = "FREE"}) \in {t \in Slots : clients[t].state = "FREE"}
    BY <2>1, <2>2, MinIsIn
  <2> QED BY <2>3
<1>4. used' = used /\ poll' = poll /\ known' = known
  BY DEF Accept
<1>5. \/ /\ net' = [net EXCEPT ![c].state = "accepted"]
         /\ clients' = [clients EXCEPT ![s].state = "USED", ![s].fd = c,
                                       ![s].input = byte_queue_init,
                                       ![s].output = byte_queue_init]
         /\ count' = count + 1
         /\ events' = push_event(<<"CONNECT">>, c, s)
      \/ /\ net' = [net EXCEPT ![c] = Closed(@)]
         /\ clients' = clients /\ count' = count /\ events' = events
  BY <1>2, <1>3, Zenon DEF Accept
<1>6. CASE /\ net' = [net EXCEPT ![c].state = "accepted"]
           /\ clients' = [clients EXCEPT ![s].state = "USED", ![s].fd = c,
                                         ![s].input = byte_queue_init,
                                         ![s].output = byte_queue_init]
           /\ count' = count + 1
           /\ events' = push_event(<<"CONNECT">>, c, s)
  BY <1>1, <1>2, <1>3, <1>4, <1>6, TakeKeepsIndInv
<1>7. CASE /\ net' = [net EXCEPT ![c] = Closed(@)]
           /\ clients' = clients /\ count' = count /\ events' = events
  <2>1. Closed(net[c]).state = "closed" /\ "state" \in DOMAIN Closed(net[c])
    BY DEF Closed, NewConn
  <2>2. NetShape /\ \A d \in Conns : KeepsNet(d)
    BY <1>2, <1>7, <2>1, UpdateKeepsNet
  <2>3. KeepsTable
    BY <1>4, <1>7, <2>2, SameClients DEF KeepsTable
  <2> QED BY <1>1, <1>4, <1>7, <2>3, SameCarries, SamePolling, KeepsTableKeepsIndInv
<1> QED BY <1>5, <1>6, <1>7

(* The end of a loop changes no structure. *)
LEMMA LoopDoneKeepsIndInv ==
    ASSUME IndInv, LoopDone
    PROVE  IndInv'
<1>1. /\ poll.pc # "idle" /\ NextTurn
      /\ UNCHANGED <<servers, used, count, clients, events, net, known, stale, hist, overrun>>
  BY DEF LoopDone
<1>2. used
  BY <1>1 DEF IndInv, Stopped
<1>3. KeepsTable
  BY <1>1, SameClients, SameNet DEF KeepsTable
<1>4. Occupied' = Occupied
  BY <1>1 DEF Occupied
<1>5. PollShape /\ Polling'
  BY <1>1, <1>4, NextTurnKeepsPolling
<1>6. Carries
  BY <1>1, SameCarries
<1> QED BY <1>2, <1>3, <1>5, <1>6, KeepsTableKeepsIndInv

(* The client whose turn it is in a loop *)
LEMMA TurnIsOccupied ==
    ASSUME IndInv, poll.pc \in {"input", "output"}, poll.polled # {}
    PROVE  used /\ poll.turn \in Slots /\ clients[poll.turn].state # "FREE"
<1>1. used
  BY DEF IndInv, Stopped
<1>2. poll.turn \in poll.polled /\ poll.polled \subseteq Slots
  BY DEF IndInv, Polling
<1>3. poll.turn >= poll.turn
  <2>1. poll.turn \in Slots
    BY <1>2
  <2>2. poll.turn \in Nat
    BY <2>1, ServerNumbers
  <2> QED BY <2>2
<1>4. poll.turn \in Occupied
  BY <1>2, <1>3 DEF IndInv, Polling
<1> QED BY <1>1, <1>2, <1>4 DEF Occupied

(* A client that is there has a connection. *)
LEMMA OccupiedConn ==
    ASSUME IndInv, used, NEW s \in Slots, clients[s].state # "FREE"
    PROVE  /\ clients[s].fd \in Conns
           /\ {"state", "gen", "fd"} \subseteq DOMAIN clients[s]
           /\ DOMAIN net = Conns /\ "state" \in DOMAIN net[clients[s].fd]
<1>1. clients[s].fd \in Conns
  BY DEF IndInv, Types, Table
<1> QED BY <1>1 DEF IndInv, Shapes

(* A recv moves bytes into the input queue only. *)
LEMMA ReceiveKeepsIndInv ==
    ASSUME IndInv, Receive
    PROVE  IndInv'
<1>1. /\ poll.pc = "input" /\ poll.polled # {}
      /\ poll' = [poll EXCEPT !.moved = TRUE]
      /\ used' = used /\ count' = count /\ events' = events /\ known' = known
  BY DEF Receive
<1>2. PICK s \in Slots : s = poll.turn /\ used /\ clients[s].state # "FREE"
  BY <1>1, TurnIsOccupied
<1>3. PICK input, pending :
         /\ clients' = [clients EXCEPT ![s].input = input]
         /\ net' = [net EXCEPT ![clients[s].fd].pending = pending]
  BY <1>2, Zenon DEF Receive
<1>4. PICK c : c = [clients[s] EXCEPT !.input = input] /\ clients' = [clients EXCEPT ![s] = c]
  BY <1>3
<1>5. PICK n : /\ n = [net[clients[s].fd] EXCEPT !.pending = pending]
               /\ net' = [net EXCEPT ![clients[s].fd] = n]
  BY <1>3
<1>6. /\ clients[s].fd \in Conns
      /\ {"state", "gen", "fd"} \subseteq DOMAIN clients[s]
      /\ "state" \in DOMAIN net[clients[s].fd]
  BY <1>2, OccupiedConn
<1>7. /\ {"state", "gen", "fd"} \subseteq DOMAIN c /\ c.gen = clients[s].gen
      /\ c.fd = clients[s].fd /\ c.state = clients[s].state
  BY <1>4, <1>6
<1>8. "state" \in DOMAIN n /\ n.state = net[clients[s].fd].state
  BY <1>5, <1>6
<1>9. NetShape /\ \A d \in Conns : KeepsNet(d)
  BY <1>5, <1>6, <1>8, UpdateKeepsNet
<1>10. KeepsTable
  BY <1>1, <1>4, <1>7, <1>9, UpdateKeepsClients DEF KeepsTable
<1>11. PollShape /\ Polling'
  <2>1. {"pc", "polled", "turn", "listening", "moved"} \subseteq DOMAIN poll
    BY DEF IndInv, Shapes
  <2>2. poll'.pc = poll.pc /\ poll'.polled = poll.polled /\ poll'.turn = poll.turn /\ PollShape
    BY <1>1, <2>1 DEF PollShape
  <2>3. Occupied' = Occupied
    BY <1>10 DEF Occupied, KeepsTable
  <2> QED BY <2>2, <2>3 DEF IndInv, Polling
<1>12. Carries
  BY <1>1, SameCarries
<1> QED BY <1>2, <1>10, <1>11, <1>12, KeepsTableKeepsIndInv

(* The input loop hangs clients up; it frees none. *)
LEMMA InputKeepsIndInv ==
    ASSUME IndInv, Input
    PROVE  IndInv'
<1>1. /\ poll.pc = "input" /\ poll.polled # {} /\ NextTurn
      /\ used' = used /\ count' = count /\ net' = net /\ known' = known
  BY Zenon DEF Input
<1>2. PICK s \in Slots : s = poll.turn /\ used /\ clients[s].state # "FREE"
  BY <1>1, TurnIsOccupied
<1>3. \/ clients' = clients /\ events' = events
      \/ \E types \in Seq(EventTypes) : \E input, state :
            /\ clients' = [clients EXCEPT ![s].input = input, ![s].state = state]
            /\ state # "FREE"
            /\ events' = push_event(types, clients[s].fd, s)
  <2>1. CASE ~Readable(poll.turn)
    BY <2>1 DEF Input
  <2>2. CASE Readable(poll.turn)
    <3> DEFINE hangup == net[clients[s].fd].rst \/ net[clients[s].fd].fin
    <3>1. PICK data :
            /\ clients' = [clients EXCEPT
                             ![s].input = ensure_min_free_space(clients[s].input, MinFree),
                             ![s].state = IF hangup THEN "HANGUP" ELSE @]
            /\ events' = push_event(InputEvents(s, data, hangup), clients[s].fd, s)
      BY <1>2, <2>2, Zenon DEF Input
    <3>2. InputEvents(s, data, hangup) \in Seq(EventTypes)
      <4> DEFINE one == IF data THEN <<"DATA">> ELSE <<>>
                 two == IF hangup THEN <<"DISCONNECT">> ELSE <<>>
      <4>1. one \in Seq(EventTypes)
        <5>1. <<>> \in Seq(EventTypes) /\ <<"DATA">> \in Seq(EventTypes)
          BY DEF EventTypes
        <5> QED BY <5>1, Zenon
      <4>2. two \in Seq(EventTypes)
        <5>1. <<>> \in Seq(EventTypes) /\ <<"DISCONNECT">> \in Seq(EventTypes)
          BY DEF EventTypes
        <5> QED BY <5>1, Zenon
      <4>3. InputEvents(s, data, hangup) = one \o two
        BY Zenon DEF InputEvents
      <4> HIDE DEF one, two
      <4>4. one \o two \in Seq(EventTypes)
        BY <4>1, <4>2
      <4> QED BY <4>3, <4>4, Zenon
    <3>3. PICK state : state = IF hangup THEN "HANGUP" ELSE clients[s].state
      OBVIOUS
    <3>4. state # "FREE"
      BY <1>2, <3>3
    <3>5. clients' = [clients EXCEPT
                        ![s].input = ensure_min_free_space(clients[s].input, MinFree),
                        ![s].state = state]
      BY <3>1, <3>3
    <3>6. PICK types \in Seq(EventTypes) : events' = push_event(types, clients[s].fd, s)
      <4> HIDE DEF hangup
      <4> QED BY <3>1, <3>2, Zenon
    <3>7. PICK input : clients' = [clients EXCEPT ![s].input = input, ![s].state = state]
      BY <3>5
    <3> QED BY <3>4, <3>6, <3>7, Zenon
  <2> QED BY <2>1, <2>2
<1>4. KeepsTable /\ Carries
  <2>1. NetShape /\ \A d \in Conns : KeepsNet(d)
    BY <1>1, SameNet
  <2>2. CASE clients' = clients /\ events' = events
    BY <1>1, <2>1, <2>2, SameClients, SameCarries DEF KeepsTable
  <2>3. CASE \E types \in Seq(EventTypes) : \E input, state :
               /\ clients' = [clients EXCEPT ![s].input = input, ![s].state = state]
               /\ state # "FREE"
               /\ events' = push_event(types, clients[s].fd, s)
    <3>1. PICK types \in Seq(EventTypes) : \E input, state :
             /\ clients' = [clients EXCEPT ![s].input = input, ![s].state = state]
             /\ state # "FREE"
             /\ events' = push_event(types, clients[s].fd, s)
      BY <2>3
    <3>2. PICK input, state :
             /\ clients' = [clients EXCEPT ![s].input = input, ![s].state = state]
             /\ state # "FREE"
             /\ events' = push_event(types, clients[s].fd, s)
      BY <3>1, Zenon
    <3>3. PICK c : /\ c = [clients[s] EXCEPT !.input = input, !.state = state]
                   /\ clients' = [clients EXCEPT ![s] = c]
      BY <3>2
    <3>4. {"state", "gen", "fd"} \subseteq DOMAIN clients[s]
      BY <1>2, OccupiedConn
    <3>5. /\ {"state", "gen", "fd"} \subseteq DOMAIN c /\ c.gen = clients[s].gen
          /\ c.fd = clients[s].fd /\ c.state # "FREE"
      BY <3>2, <3>3, <3>4
    <3>6. Carries
      BY <1>1, <1>2, <3>2, PushCarries
    <3>7. KeepsTable
      BY <1>1, <1>2, <2>1, <3>3, <3>5, UpdateKeepsClients DEF KeepsTable
    <3> QED BY <3>6, <3>7
  <2> QED BY <1>3, <2>2, <2>3
<1>5. Occupied' = Occupied
  BY <1>4 DEF Occupied, KeepsTable
<1>6. PollShape /\ Polling'
  BY <1>1, <1>5, NextTurnKeepsPolling
<1> QED BY <1>2, <1>4, <1>6, KeepsTableKeepsIndInv

(* The output loop frees the client of its turn, loses it, or sends. *)
LEMMA OutputKeepsIndInv ==
    ASSUME IndInv, Output
    PROVE  IndInv'
<1>1. /\ poll.pc = "output" /\ poll.polled # {} /\ NextTurn
      /\ used' = used /\ count' = count /\ known' = known
  BY Zenon DEF Output
<1>2. PICK s \in Slots : s = poll.turn /\ used /\ clients[s].state # "FREE"
  BY <1>1, TurnIsOccupied
<1>3. PICK c \in Conns : c = clients[s].fd /\ DOMAIN net = Conns /\ "state" \in DOMAIN net[c]
  BY <1>2, OccupiedConn
<1>4. DOMAIN clients = Slots /\ {"state", "gen", "fd"} \subseteq DOMAIN clients[s]
  BY DEF IndInv, Shapes
<1>5. CASE ~(Flushable(s) /\ "OUT" \in poll.revents[s])
  <2>1. clients' = clients /\ events' = events /\ net' = net
    BY <1>2, <1>5 DEF Output
  <2>2. KeepsTable
    BY <1>1, <2>1, SameClients, SameNet DEF KeepsTable
  <2>3. Occupied' = Occupied
    BY <2>1 DEF Occupied
  <2>4. PollShape /\ Polling'
    BY <1>1, <2>3, NextTurnKeepsPolling
  <2> QED BY <1>1, <1>2, <2>1, <2>2, <2>4, SameCarries, KeepsTableKeepsIndInv
<1>6. CASE Flushable(s) /\ "OUT" \in poll.revents[s]
  <2> DEFINE q == clients[s].output
             freed(k, error) == clients[s].state = "CLOSE" /\ (error \/ k = used_space(q))
             lost(error) == clients[s].state # "CLOSE" /\ error
             types(error) == IF lost(error) THEN <<"DISCONNECT">> ELSE <<>>
             sent(k) == [net[c] EXCEPT !.got = @ \o SubSeq(q.bytes, 1, k)]
  <2>1. PICK error \in BOOLEAN, k \in 0 .. used_space(q) :
           /\ clients' = [clients EXCEPT ![s] =
                             IF freed(k, error) THEN free_client(s)
                             ELSE [clients[s] EXCEPT
                                     !.output = end_read(q, k),
                                     !.state = IF lost(error) THEN "HANGUP" ELSE @]]
           /\ net' = [net EXCEPT ![c] = IF freed(k, error) THEN Closed(sent(k)) ELSE sent(k)]
           /\ events' = push_event(types(error), c, s)
    BY <1>2, <1>3, <1>6, Zenon DEF Output
  <2>2. PICK n : n = sent(k)
    OBVIOUS
  <2>3. "state" \in DOMAIN n /\ n.state = net[c].state
    BY <1>3, <2>2
  <2>4. PICK out : out = end_read(q, k)
    OBVIOUS
  <2>5. CASE freed(k, error)
    <3>1. types(error) = <<>>
      BY <2>5
    <3>2. events' = events
      <4>1. events' = events \o [i \in DOMAIN <<>> |-> Event(<<>>[i], c, s)]
        BY <2>1, <3>1 DEF push_event
      <4>2. events \in Seq(Announced)
        BY DEF IndInv, Types
      <4>3. [i \in DOMAIN <<>> |-> Event(<<>>[i], c, s)] = <<>>
        OBVIOUS
      <4> QED BY <4>1, <4>2, <4>3
    <3>3. clients' = [clients EXCEPT ![s] = free_client(s)]
      BY <2>1, <2>5
    <3>4. net' = [net EXCEPT ![c] = Closed(n)]
      BY <2>1, <2>2, <2>5
    <3>5. NetShape /\ net'[c].state = "closed" /\ \A d \in Conns : d # c => net'[d] = net[d]
      <4>1. Closed(n).state = "closed" /\ "state" \in DOMAIN Closed(n)
        BY DEF Closed, NewConn
      <4>2. \A d \in Conns : "state" \in DOMAIN net[d]
        BY DEF IndInv, Shapes
      <4> QED BY <1>3, <3>4, <4>1, <4>2 DEF NetShape
    <3>6. FreesSlot(s)
      BY <1>1, <1>3, <3>3, <3>5 DEF FreesSlot, KeepsNet
    <3>7. \A t \in Occupied : t \in Occupied' \/ t = s
      BY <1>4, <3>3 DEF Occupied
    <3>8. PollShape /\ Polling'
      BY <1>1, <1>2, <3>7, NextTurnKeepsPolling
    <3> QED BY <1>1, <1>2, <3>2, <3>6, <3>8, FreesSlotKeepsIndInv
  <2>6. CASE ~freed(k, error)
    <3>1. PICK state : state = IF lost(error) THEN "HANGUP" ELSE clients[s].state
      OBVIOUS
    <3>2. PICK b : /\ b = [clients[s] EXCEPT !.output = out, !.state = state]
                   /\ clients' = [clients EXCEPT ![s] = b]
      BY <2>1, <2>4, <2>6, <3>1
    <3>3. /\ {"state", "gen", "fd"} \subseteq DOMAIN b /\ b.gen = clients[s].gen
          /\ b.fd = clients[s].fd /\ b.state # "FREE"
      BY <1>2, <1>4, <3>1, <3>2
    <3>4. net' = [net EXCEPT ![c] = n]
      BY <2>1, <2>2, <2>6
    <3>5. NetShape /\ \A d \in Conns : KeepsNet(d)
      BY <2>3, <3>4, UpdateKeepsNet
    <3>6. KeepsTable
      BY <1>1, <1>2, <3>2, <3>3, <3>5, UpdateKeepsClients DEF KeepsTable
    <3>7. types(error) \in Seq(EventTypes)
      <4>1. <<>> \in Seq(EventTypes) /\ <<"DISCONNECT">> \in Seq(EventTypes)
        BY DEF EventTypes
      <4> QED BY <4>1, Zenon
    <3>8. PICK told \in Seq(EventTypes) : events' = push_event(told, clients[s].fd, s)
      BY <1>3, <2>1, <3>7, Zenon
    <3>9. Carries
      BY <1>1, <1>2, <3>8, PushCarries
    <3>10. Occupied' = Occupied
      BY <3>6 DEF Occupied, KeepsTable
    <3>11. PollShape /\ Polling'
      BY <1>1, <3>10, NextTurnKeepsPolling
    <3> QED BY <1>2, <3>6, <3>9, <3>11, KeepsTableKeepsIndInv
  <2> QED BY <2>5, <2>6
<1> QED BY <1>5, <1>6

(* tcp_server_event hands a handle on to the caller. *)
LEMMA EventKeepsIndInv ==
    ASSUME IndInv, tcp_server_event
    PROVE  IndInv'
<1>1. /\ used /\ poll.pc = "idle" /\ events # <<>> /\ events' = Tail(events)
      /\ known' = known \cup {[handle |-> Head(events).handle, conn |-> Head(events).conn]}
      /\ UNCHANGED <<servers, used, count, clients, poll, net, stale, hist, overrun>>
  BY DEF tcp_server_event, Idle
<1>2. KeepsTable
  BY <1>1, SameClients, SameNet DEF KeepsTable
<1>3. events \in Seq(Announced) /\ known \subseteq [handle : MadeHandles, conn : Conns]
  BY DEF IndInv, Types
<1>4. /\ Head(events) \in Announced /\ Head(events) \in ToSet(events)
      /\ Tail(events) \in Seq(Announced)
      /\ \A e \in ToSet(Tail(events)) : e \in ToSet(events)
  <2>1. Len(events) \in Nat \ {0} /\ DOMAIN events = 1 .. Len(events)
    BY <1>1, <1>3
  <2>2. Head(events) = events[1] /\ events[1] \in Announced
    BY <1>3, <2>1
  <2>3. ASSUME NEW e \in ToSet(Tail(events)) PROVE e \in ToSet(events)
    <3>1. PICK i \in DOMAIN Tail(events) : e = Tail(events)[i]
      BY DEF ToSet
    <3>2. i \in 1 .. Len(events) - 1 /\ Tail(events)[i] = events[i + 1]
      BY <1>1, <1>3, <2>1, <3>1
    <3>3. i + 1 \in DOMAIN events
      BY <2>1, <3>2
    <3> QED BY <3>1, <3>2, <3>3 DEF ToSet
  <2>4. Tail(events) \in Seq(Announced)
    BY <1>1, <1>3
  <2> QED BY <2>1, <2>2, <2>3, <2>4 DEF ToSet
<1>5. Carries
  <2>1. PICK k : k = [handle |-> Head(events).handle, conn |-> Head(events).conn]
    OBVIOUS
  <2>2. /\ k \in [handle : MadeHandles, conn : Conns]
        /\ k.handle = Head(events).handle /\ k.conn = Head(events).conn
    BY <1>4, <2>1 DEF Announced
  <2>3. known' = known \cup {k}
    BY <1>1, <2>1
  <2>4. \A j \in known' \cup ToSet(events') :
           \E i \in known \cup ToSet(events) : j.handle = i.handle /\ j.conn = i.conn
    BY <1>1, <1>4, <2>2, <2>3
  <2> QED BY <1>1, <1>3, <1>4, <2>2, <2>3, <2>4 DEF Carries
<1>6. PollShape /\ Polling'
  BY <1>1, <1>2, SamePolling
<1> QED BY <1>1, <1>2, <1>5, <1>6, KeepsTableKeepsIndInv

(* A handle the caller may use, be it of a deleted server, resolves to a   *)
(* client that is there.                                                   *)
LEMMA UsableClient ==
    ASSUME IndInv, NEW h \in MadeHandles, Idle, Usable(h)
    PROVE  /\ used /\ client_from_handle(h) \in Slots
           /\ clients[client_from_handle(h)].state # "FREE"
<1>1. /\ used /\ client_from_handle(h) # NoSlot
      /\ clients[client_from_handle(h)].state # "FREE"
  BY DEF Idle, Usable
<1>2. PICK s \in Slots, g \in 1 .. SharedBit - 1 : h = pack_handle(1, s, g)
  BY DEF MadeHandles
<1>3. s \in Nat
  BY ServerNumbers
<1>4. IndexOf(h) = s
  BY <1>2, <1>3, HandleUnpacks
<1>5. client_from_handle(h) = s
  BY <1>1, <1>4 DEF client_from_handle
<1> QED BY <1>1, <1>5

(* Steps of the caller that change the queues of a client only, or its     *)
(* state to another than FREE.                                             *)
LEMMA ClientUpdateKeepsIndInv ==
    ASSUME IndInv, used, NEW s \in Slots, clients[s].state # "FREE",
           NEW c, clients' = [clients EXCEPT ![s] = c],
           {"state", "gen", "fd"} \subseteq DOMAIN c,
           c.gen = clients[s].gen, c.fd = clients[s].fd, c.state # "FREE",
           UNCHANGED <<used, count, events, poll, net, known>>
    PROVE  IndInv'
<1>1. KeepsTable
  BY UpdateKeepsClients, SameNet DEF KeepsTable
<1> QED BY <1>1, SameCarries, SamePolling, KeepsTableKeepsIndInv

(* tcp_client_close frees the structure, or leaves it to the flush. *)
LEMMA CloseKeepsIndInv ==
    ASSUME IndInv, NEW h \in MadeHandles, tcp_client_close(h)
    PROVE  IndInv'
<1>1. /\ Idle /\ Usable(h)
      /\ UNCHANGED <<used, count, events, poll, known>>
  BY DEF tcp_client_close
<1>2. PICK s \in Slots : s = client_from_handle(h) /\ used /\ clients[s].state # "FREE"
  BY <1>1, UsableClient
<1>3. PICK c \in Conns : c = clients[s].fd
  BY <1>2, OccupiedConn
<1>4. /\ DOMAIN clients = Slots /\ {"state", "gen", "fd"} \subseteq DOMAIN clients[s]
      /\ DOMAIN net = Conns /\ \A d \in Conns : "state" \in DOMAIN net[d]
  BY DEF IndInv, Shapes
<1>5. \/ /\ clients' = [clients EXCEPT ![s] = free_client(s)]
         /\ net' = [net EXCEPT ![c] = Closed(@)]
      \/ /\ clients' = [clients EXCEPT ![s].state = "CLOSE"]
         /\ net' = net
  BY <1>2, <1>3 DEF tcp_client_close
<1>6. CASE /\ clients' = [clients EXCEPT ![s] = free_client(s)]
           /\ net' = [net EXCEPT ![c] = Closed(@)]
  <2>1. NetShape /\ net'[c].state = "closed" /\ \A d \in Conns : d # c => net'[d] = net[d]
    <3>1. Closed(net[c]).state = "closed" /\ "state" \in DOMAIN Closed(net[c])
      BY DEF Closed, NewConn
    <3> QED BY <1>4, <1>6, <3>1 DEF NetShape
  <2>2. FreesSlot(s)
    BY <1>1, <1>3, <1>6, <2>1 DEF FreesSlot, KeepsNet
  <2>3. PollShape
    BY <1>1 DEF IndInv, Shapes, PollShape
  <2>4. Polling'
    BY <1>1 DEF IndInv, Polling, Idle
  <2> QED BY <1>1, <1>2, <2>2, <2>3, <2>4, FreesSlotKeepsIndInv
<1>7. CASE /\ clients' = [clients EXCEPT ![s].state = "CLOSE"]
           /\ net' = net
  <2>1. PICK b : /\ b = [clients[s] EXCEPT !.state = "CLOSE"]
                 /\ clients' = [clients EXCEPT ![s] = b]
    BY <1>7
  <2>2. /\ {"state", "gen", "fd"} \subseteq DOMAIN b /\ b.gen = clients[s].gen
        /\ b.fd = clients[s].fd /\ b.state # "FREE"
    BY <1>4, <2>1
  <2> QED BY <1>1, <1>2, <1>7, <2>1, <2>2, ClientUpdateKeepsIndInv
<1> QED BY <1>5, <1>6, <1>7

(* tcp_client_read changes the input queue only. *)
LEMMA ReadKeepsIndInv ==
    ASSUME IndInv, NEW h \in MadeHandles, NEW n, tcp_client_read(h, n)
    PROVE  IndInv'
<1>1. /\ Idle /\ Usable(h)
      /\ UNCHANGED <<used, count, events, poll, net, known>>
  BY DEF tcp_client_read
<1>2. PICK s \in Slots : s = client_from_handle(h) /\ used /\ clients[s].state # "FREE"
  BY <1>1, UsableClient
<1>3. PICK input : clients' = [clients EXCEPT ![s].input = input]
  BY <1>2 DEF tcp_client_read
<1>4. PICK b : b = [clients[s] EXCEPT !.input = input] /\ clients' = [clients EXCEPT ![s] = b]
  BY <1>3
<1>5. /\ {"state", "gen", "fd"} \subseteq DOMAIN b /\ b.gen = clients[s].gen
      /\ b.fd = clients[s].fd /\ b.state # "FREE"
  BY <1>2, <1>4, OccupiedConn
<1> QED BY <1>1, <1>2, <1>4, <1>5, ClientUpdateKeepsIndInv

(* tcp_client_write changes the output queue only. *)
LEMMA WriteKeepsIndInv ==
    ASSUME IndInv, NEW h \in MadeHandles, NEW n, tcp_client_write(h, n)
    PROVE  IndInv'
<1>1. /\ Idle /\ Usable(h)
      /\ UNCHANGED <<used, count, events, poll, net, known>>
  BY DEF tcp_client_write
<1>2. PICK s \in Slots : s = client_from_handle(h) /\ used /\ clients[s].state # "FREE"
  BY <1>1, UsableClient
<1>3. PICK output : clients' = [clients EXCEPT ![s].output = output]
  BY <1>2 DEF tcp_client_write
<1>4. PICK b : b = [clients[s] EXCEPT !.output = output] /\ clients' = [clients EXCEPT ![s] = b]
  BY <1>3
<1>5. /\ {"state", "gen", "fd"} \subseteq DOMAIN b /\ b.gen = clients[s].gen
      /\ b.fd = clients[s].fd /\ b.state # "FREE"
  BY <1>2, <1>4, OccupiedConn
<1> QED BY <1>1, <1>2, <1>4, <1>5, ClientUpdateKeepsIndInv
-----------------------------------------------------------------------------
(* Before the first tcp_server_create the invariant holds. *)
LEMMA InitIndInv == Init => IndInv
<1> SUFFICES ASSUME Init PROVE IndInv
  OBVIOUS
<1>1. /\ used = FALSE /\ count = 0 /\ clients = [s \in Slots |-> NewClient]
      /\ events = <<>> /\ poll = NotPolling /\ net = [c \in Conns |-> NewConn] /\ known = {}
  BY DEF Init
<1>2. \A s \in Slots : /\ clients[s].gen = 1 /\ clients[s].fd = NoFd
                       /\ {"state", "gen", "fd"} \subseteq DOMAIN clients[s]
  BY <1>1 DEF NewClient
<1>3. \A c \in Conns : net[c].state = "none" /\ "state" \in DOMAIN net[c]
  BY <1>1 DEF NewConn
<1>4. /\ poll.pc = "idle" /\ poll.polled = {}
      /\ {"pc", "polled", "turn", "listening", "moved"} \subseteq DOMAIN poll
  BY <1>1 DEF NotPolling
<1>5. Shapes
  BY <1>1, <1>2, <1>3, <1>4 DEF Shapes
<1>6. Types
  <2>1. <<>> \in Seq(Announced) /\ 0 \in 0 .. Capacity
    BY ServerNumbers
  <2>2. \A s \in Slots : clients[s].gen \in Nat \ {0} /\ clients[s].fd \in Conns \cup {NoFd}
    BY <1>2
  <2>3. used \in BOOLEAN /\ count \in 0 .. Capacity /\ events \in Seq(Announced)
    BY <1>1, <2>1
  <2>4. known \subseteq [handle : MadeHandles, conn : Conns]
    BY <1>1
  <2> QED BY <2>2, <2>3, <2>4, Zenon DEF Types
<1>7. Owned /\ Polling /\ Stopped
  BY <1>1, <1>3, <1>4 DEF Owned, Polling, Stopped
<1> QED BY <1>1, <1>5, <1>6, <1>7 DEF IndInv

(* The handles of deleted servers were made by one. *)
StaleMade == stale \subseteq MadeHandles

(* All handles the caller may use were made by a server. *)
LEMMA UsedAreMade == IndInv /\ StaleMade => Handles \cup stale \subseteq MadeHandles
  BY DEF IndInv, Types, StaleMade, Handles

(* Handles go stale when the server is deleted, at no other step. *)
LEMMA NextStaleMade == IndInv /\ StaleMade /\ [Next]_vars => StaleMade'
<1> SUFFICES ASSUME IndInv, StaleMade, [Next]_vars PROVE StaleMade'
  OBVIOUS
<1>1. CASE tcp_server_delete
  <2>1. stale' = stale \cup Handles
    BY <1>1 DEF tcp_server_delete
  <2> QED BY <2>1, UsedAreMade DEF StaleMade
<1>2. CASE stale' = stale
  BY <1>2 DEF StaleMade
<1>3. Peer \/ tcp_server_create \/ tcp_server_poll \/ tcp_server_event => stale' = stale
  BY DEF Peer, Connect, PeerSends, PeerFinishes, PeerResets, PeerStep, tcp_server_create,
     tcp_server_poll, tcp_server_event
<1>4. PollStep => stale' = stale
  BY Zenon DEF PollStep, Accept, LoopDone, Receive, Input, Output
<1>5. UseClient => stale' = stale
  BY DEF UseClient, tcp_client_close, tcp_client_read, tcp_client_write
<1>6. UNCHANGED vars => stale' = stale
  BY DEF vars
<1> QED BY <1>1, <1>2, <1>3, <1>4, <1>5, <1>6 DEF Next

(* Every step keeps the invariant. *)
LEMMA NextIndInv == IndInv /\ StaleMade /\ [Next]_vars => IndInv'
<1> SUFFICES ASSUME IndInv, StaleMade, [Next]_vars PROVE IndInv'
  OBVIOUS
<1>1. CASE Peer
  BY <1>1, PeerKeepsIndInv
<1>2. CASE tcp_server_create
  BY <1>2, CreateKeepsIndInv
<1>3. CASE tcp_server_delete
  BY <1>3, DeleteKeepsIndInv
<1>4. CASE tcp_server_poll
  BY <1>4, PollKeepsIndInv
<1>5. CASE PollStep
  BY <1>5, AcceptKeepsIndInv, LoopDoneKeepsIndInv, ReceiveKeepsIndInv, InputKeepsIndInv,
     OutputKeepsIndInv DEF PollStep
<1>6. CASE tcp_server_event
  BY <1>6, EventKeepsIndInv
<1>7. CASE UseClient
  BY <1>7, UsedAreMade, CloseKeepsIndInv, ReadKeepsIndInv, WriteKeepsIndInv DEF UseClient
<1>8. CASE UNCHANGED vars
  <2>1. UNCHANGED <<used, count, clients, events, poll, net, known>>
    BY <1>8 DEF vars
  <2>2. KeepsTable
    BY <2>1, SameClients, SameNet DEF KeepsTable
  <2> QED BY <2>1, <2>2, SameCarries, SamePolling, KeepsTableKeepsIndInv
<1> QED BY <1>1, <1>2, <1>3, <1>4, <1>5, <1>6, <1>7, <1>8 DEF Next

(* The correspondence of client structures, descriptors and handles is an  *)
(* invariant of the server, whatever the network and the caller do.        *)
THEOREM IndInvInvariant == Spec => [](IndInv /\ StaleMade)
<1>1. Init => IndInv /\ StaleMade
  <2>1. Init => StaleMade
    BY DEF Init, StaleMade
  <2> QED BY <2>1, InitIndInv
<1>2. (IndInv /\ StaleMade) /\ [Next]_vars => (IndInv /\ StaleMade)'
  BY NextIndInv, NextStaleMade
<1> QED BY <1>1, <1>2, PTL DEF Spec

(* A handle of the running server resolves to the connection it was made   *)
(* for or to nothing, also after its structure was freed and taken again;  *)
(* descriptors and structures correspond; and the accept loop of           *)
(* tcp_server_poll finds the free structure it asserts.  The caller may    *)
(* have used handles of deleted servers, of which nothing is said.         *)
THEOREM HandlesAreFaithful == Spec => []HandlesFaithful
  BY IndInvInvariant, IndInvFaithful, PTL
-----------------------------------------------------------------------------
(* What the caller is told of a connection.                                *)

HistShape ==
    /\ DOMAIN hist = Conns
    /\ \A c \in Conns : "pushed" \in DOMAIN hist[c] /\ hist[c].pushed \in Seq(EventTypes)

InOrder(p) == \A i \in DOMAIN p : /\ p[i] = "CONNECT" <=> i = 1
                                  /\ p[i] = "DISCONNECT" => i = Len(p)

(* The caller is told of every connection, and of the end of those only    *)
(* whose client has hung up.                                               *)
Follows(p, state) ==
    p # <<>> /\ (state # "HANGUP" => \A i \in DOMAIN p : p[i] # "DISCONNECT")

ToldOf == \A s \in Slots :
    clients[s].state # "FREE" => Follows(hist[clients[s].fd].pushed, clients[s].state)

ToldInv ==
    /\ HistShape
    /\ \A c \in Conns : InOrder(hist[c].pushed)
    /\ used => ToldOf

(* A client that hung up is not polled, and the input loop comes to each   *)
(* client once.                                                            *)
HangsUpOnce ==
    /\ poll.pc = "accept" => \A s \in poll.polled : clients[s].state # "HANGUP"
    /\ poll.pc = "input" => \A s \in poll.polled :
                               s >= poll.turn => clients[s].state # "HANGUP"

(* Room for the events: one for each client that is accepted, two for each *)
(* that is polled in the input loop and one more in the output loop.       *)
Before == {s \in poll.polled : s < poll.turn}

Room ==
    /\ poll.pc = "idle" => Len(events) <= 3 * Capacity
    /\ poll.pc = "accept" =>
          Len(events) + Cardinality(poll.polled) <= Cardinality(Occupied)
    /\ poll.pc = "input" =>
          Len(events) + Cardinality(poll.polled) <= Capacity + 2 * Cardinality(Before)
    /\ poll.pc = "output" =>
          Len(events) <= Capacity + Cardinality(poll.polled) + Cardinality(Before)

TellInv == ToldInv /\ HangsUpOnce /\ Room

(* Events that may follow what was told of a connection whose client is in *)
(* the given state afterwards *)
Tells(types, state) ==
    /\ types \in Seq(EventTypes)
    /\ \A i \in DOMAIN types :
          /\ types[i] # "CONNECT"
          /\ types[i] = "DISCONNECT" => i = Len(types) /\ state = "HANGUP"

(* What is told of a connection stays in order when more is told. *)
LEMMA AppendInOrder ==
    ASSUME NEW p \in Seq(EventTypes), NEW types, NEW state, NEW after,
           InOrder(p), p # <<>>, \A i \in DOMAIN p : p[i] # "DISCONNECT",
           Tells(types, state)
    PROVE  p \o types \in Seq(EventTypes) /\ InOrder(p \o types) /\ Follows(p \o types, state)
<1>1. PICK n \in Nat, m \in Nat : n = Len(p) /\ m = Len(types)
  BY DEF Tells
<1>2. /\ DOMAIN p = 1 .. n /\ DOMAIN types = 1 .. m /\ n # 0
      /\ types \in Seq(EventTypes)
  BY <1>1 DEF Tells
<1>3. PICK r : r = p \o types
  OBVIOUS
<1>4. /\ r \in Seq(EventTypes) /\ Len(r) = n + m /\ DOMAIN r = 1 .. n + m
      /\ \A i \in 1 .. n : r[i] = p[i]
      /\ \A i \in n + 1 .. n + m : r[i] = types[i - n]
  BY <1>1, <1>2, <1>3
<1>5. ASSUME NEW i \in 1 .. n + m
      PROVE  /\ r[i] = "CONNECT" <=> i = 1
             /\ r[i] = "DISCONNECT" => i = n + m /\ state = "HANGUP"
  <2>1. CASE i <= n
    BY <1>1, <1>2, <1>4, <2>1 DEF InOrder
  <2>2. CASE i > n
    <3>1. i - n \in 1 .. m /\ r[i] = types[i - n] /\ i # 1
      <4>1. i \in n + 1 .. n + m /\ i - n \in 1 .. m /\ i # 1
        BY <1>1, <1>2, <2>2
      <4> QED BY <1>4, <4>1
    <3>2. /\ types[i - n] # "CONNECT"
          /\ types[i - n] = "DISCONNECT" => i - n = m /\ state = "HANGUP"
      BY <1>1, <1>2, <3>1 DEF Tells
    <3> QED BY <1>1, <3>1, <3>2
  <2> QED BY <1>1, <2>1, <2>2
<1>6. r # <<>>
  BY <1>2, <1>4
<1> QED BY <1>3, <1>4, <1>5, <1>6 DEF InOrder, Follows

(* The events of the input loop: DISCONNECT last, and only on a hangup *)
LEMMA InputTells ==
    ASSUME NEW s, NEW data, NEW hangup, NEW state, hangup => state = "HANGUP"
    PROVE  Tells(InputEvents(s, data, hangup), state) /\ Len(InputEvents(s, data, hangup)) <= 2
<1>1. CASE data /\ hangup
  <2>1. InputEvents(s, data, hangup) = <<"DATA">> \o <<"DISCONNECT">>
    BY <1>1, Zenon DEF InputEvents
  <2>2. PICK t : t = <<"DATA">> \o <<"DISCONNECT">>
    OBVIOUS
  <2>3. <<"DATA">> \in Seq(EventTypes) /\ <<"DISCONNECT">> \in Seq(EventTypes)
    BY DEF EventTypes
  <2>4. /\ t \in Seq(EventTypes) /\ Len(t) = 2 /\ DOMAIN t = 1 .. 2
        /\ t[1] = "DATA" /\ t[2] = "DISCONNECT"
    BY <2>2, <2>3
  <2>5. Tells(t, state) /\ Len(t) <= 2
    BY <1>1, <2>4 DEF Tells
  <2> QED BY <2>1, <2>2, <2>5, Zenon
<1>2. CASE data /\ ~hangup
  <2>1. InputEvents(s, data, hangup) = <<"DATA">> \o <<>>
    BY <1>2, Zenon DEF InputEvents
  <2>2. PICK t : t = <<"DATA">>
    OBVIOUS
  <2>3. <<"DATA">> \o <<>> = t
    BY <2>2
  <2>4. Tells(t, state) /\ Len(t) <= 2
    BY <2>2 DEF Tells, EventTypes
  <2> QED BY <2>1, <2>3, <2>4, Zenon
<1>3. CASE ~data /\ hangup
  <2>1. InputEvents(s, data, hangup) = <<>> \o <<"DISCONNECT">>
    BY <1>3, Zenon DEF InputEvents
  <2>2. PICK t : t = <<"DISCONNECT">>
    OBVIOUS
  <2>3. <<>> \o <<"DISCONNECT">> = t
    BY <2>2
  <2>4. Tells(t, state) /\ Len(t) <= 2
    BY <1>3, <2>2 DEF Tells, EventTypes
  <2> QED BY <2>1, <2>3, <2>4, Zenon
<1>4. CASE ~data /\ ~hangup
  <2>1. InputEvents(s, data, hangup) = <<>> \o <<>>
    BY <1>4, Zenon DEF InputEvents
  <2>2. PICK t : t = <<>>
    OBVIOUS
  <2>3. <<>> \o <<>> = t
    BY <2>2
  <2>4. Tells(t, state) /\ Len(t) <= 2
    BY <2>2 DEF Tells, EventTypes
  <2> QED BY <2>1, <2>3, <2>4, Zenon
<1> QED BY <1>1, <1>2, <1>3, <1>4, Zenon

(* How many events push_event appends *)
LEMMA PushedCount ==
    ASSUME IndInv, used, NEW s \in Slots, clients[s].gen \in 1 .. SharedBit - 1,
           NEW c \in Conns, NEW types \in Seq(EventTypes)
    PROVE  Len(push_event(types, c, s)) = Len(events) + Len(types)
<1> DEFINE new == [i \in DOMAIN types |-> Event(types[i], c, s)]
<1>1. DOMAIN types = 1 .. Len(types) /\ Len(types) \in Nat /\ events \in Seq(Announced)
  BY DEF IndInv, Types
<1>2. \A i \in DOMAIN types : Event(types[i], c, s) \in Announced
  <2>1. pack_handle(1, s, clients[s].gen) \in MadeHandles
    BY DEF MadeHandles
  <2> QED BY <1>1, <2>1 DEF Event, Announced
<1>3. new \in Seq(Announced) /\ Len(new) = Len(types)
  BY <1>1, <1>2
<1>4. push_event(types, c, s) = events \o new
  BY DEF push_event
<1> HIDE DEF new
<1>5. Len(events \o new) = Len(events) + Len(new)
  BY <1>1, <1>3
<1> QED BY <1>3, <1>4, <1>5
-----------------------------------------------------------------------------
(* Steps that tell nothing and hang nobody up *)
HistKept ==
    /\ DOMAIN hist' = Conns
    /\ \A c \in Conns : "pushed" \in DOMAIN hist'[c] /\ hist'[c].pushed = hist[c].pushed

StatesKept ==
    /\ used' = used
    /\ \A s \in Slots :
          /\ clients'[s].fd = clients[s].fd
          /\ clients'[s].state = "FREE" <=> clients[s].state = "FREE"
          /\ clients'[s].state = "HANGUP" <=> clients[s].state = "HANGUP"

(* Such steps keep what the caller was told. *)
LEMMA QuietKeepsToldInv ==
    ASSUME IndInv, ToldInv, HistKept, StatesKept
    PROVE  ToldInv'
<1>1. HistShape'
  BY DEF ToldInv, HistShape, HistKept
<1>2. \A c \in Conns : InOrder(hist'[c].pushed)
  BY DEF ToldInv, HistKept
<1>3. ASSUME used, NEW s \in Slots, clients'[s].state # "FREE"
      PROVE  Follows(hist'[clients'[s].fd].pushed, clients'[s].state)
  <2>1. clients[s].state # "FREE" /\ clients'[s].fd = clients[s].fd
    BY <1>3 DEF StatesKept
  <2>2. clients[s].fd \in Conns
    BY <1>3, <2>1, OccupiedConn
  <2>3. Follows(hist[clients[s].fd].pushed, clients[s].state)
    BY <1>3, <2>1 DEF ToldInv, ToldOf
  <2>4. hist'[clients[s].fd].pushed = hist[clients[s].fd].pushed
    BY <2>2 DEF HistKept
  <2>5. clients'[s].state = "HANGUP" <=> clients[s].state = "HANGUP"
    BY DEF StatesKept
  <2> QED BY <2>1, <2>3, <2>4, <2>5 DEF Follows
<1>4. used => ToldOf'
  BY <1>3 DEF ToldOf
<1> QED BY <1>1, <1>2, <1>4 DEF ToldInv, StatesKept

(* Telling the caller of the client of a turn *)
LEMMA PushKeepsToldInv ==
    ASSUME IndInv, ToldInv, used, used' = used,
           NEW s \in Slots, clients[s].state # "FREE", clients[s].state # "HANGUP",
           clients'[s].fd = clients[s].fd,
           \A t \in Slots : t # s => clients'[t] = clients[t],
           NEW types, Tells(types, clients'[s].state),
           DOMAIN hist' = Conns,
           \A c \in Conns : "pushed" \in DOMAIN hist'[c],
           \A c \in Conns : hist'[c].pushed = IF c = clients[s].fd
                                              THEN hist[c].pushed \o types
                                              ELSE hist[c].pushed
    PROVE  ToldInv'
<1>1. PICK c \in Conns : c = clients[s].fd
  BY OccupiedConn
<1>2. PICK p \in Seq(EventTypes) : p = hist[c].pushed
  BY DEF ToldInv, HistShape
<1>3. InOrder(p) /\ p # <<>> /\ \A i \in DOMAIN p : p[i] # "DISCONNECT"
  BY <1>1, <1>2 DEF ToldInv, ToldOf, Follows
<1>4. PICK r : r = p \o types
  OBVIOUS
<1>5. r \in Seq(EventTypes) /\ InOrder(r) /\ Follows(r, clients'[s].state)
  BY <1>3, <1>4, AppendInOrder
<1>6. hist'[c].pushed = r
  BY <1>1, <1>2, <1>4
<1>7. \A d \in Conns : d # c => hist'[d].pushed = hist[d].pushed
  BY <1>1
<1>8. HistShape'
  BY <1>5, <1>6, <1>7 DEF ToldInv, HistShape
<1>9. \A d \in Conns : InOrder(hist'[d].pushed)
  BY <1>5, <1>6, <1>7 DEF ToldInv
<1>10. ASSUME NEW t \in Slots, clients'[t].state # "FREE"
       PROVE  Follows(hist'[clients'[t].fd].pushed, clients'[t].state)
  <2>1. CASE t = s
    BY <1>1, <1>5, <1>6, <2>1
  <2>2. CASE t # s
    <3>1. clients'[t] = clients[t] /\ clients[t].state # "FREE"
      BY <1>10, <2>2
    <3>2. clients[t].fd \in Conns
      BY <3>1, OccupiedConn
    <3>3. clients[t].fd # c
      BY <1>1, <2>2, ServerNumbers DEF IndInv, Table
    <3>4. Follows(hist[clients[t].fd].pushed, clients[t].state)
      BY <3>1 DEF ToldInv, ToldOf
    <3> QED BY <1>7, <3>1, <3>2, <3>3, <3>4
  <2> QED BY <2>1, <2>2
<1> QED BY <1>8, <1>9, <1>10 DEF ToldInv, ToldOf

(* A structure that is freed takes what was told of its connection along. *)
LEMMA FreeKeepsToldInv ==
    ASSUME IndInv, ToldInv, used, used' = used,
           NEW s \in Slots, clients[s].state # "FREE", clients'[s].state = "FREE",
           \A t \in Slots : t # s => clients'[t] = clients[t],
           DOMAIN hist' = Conns,
           \A c \in Conns : "pushed" \in DOMAIN hist'[c],
           \A c \in Conns : hist'[c].pushed = IF c = clients[s].fd THEN <<>> ELSE hist[c].pushed
    PROVE  ToldInv'
<1>1. PICK c \in Conns : c = clients[s].fd
  BY OccupiedConn
<1>2. <<>> \in Seq(EventTypes) /\ InOrder(<<>>)
  BY DEF InOrder
<1>3. hist'[c].pushed = <<>> /\ \A d \in Conns : d # c => hist'[d].pushed = hist[d].pushed
  BY <1>1
<1>4. HistShape'
  BY <1>2, <1>3 DEF ToldInv, HistShape
<1>5. \A d \in Conns : InOrder(hist'[d].pushed)
  BY <1>2, <1>3 DEF ToldInv
<1>6. ASSUME NEW t \in Slots, clients'[t].state # "FREE"
      PROVE  Follows(hist'[clients'[t].fd].pushed, clients'[t].state)
  <2>1. t # s /\ clients'[t] = clients[t] /\ clients[t].state # "FREE"
    BY <1>6
  <2>2. clients[t].fd \in Conns
    BY <2>1, OccupiedConn
  <2>3. clients[t].fd # c
    BY <1>1, <2>1, ServerNumbers DEF IndInv, Table
  <2>4. Follows(hist[clients[t].fd].pushed, clients[t].state)
    BY <2>1 DEF ToldInv, ToldOf
  <2> QED BY <1>3, <2>1, <2>2, <2>3, <2>4
<1> QED BY <1>4, <1>5, <1>6 DEF ToldInv, ToldOf

(* Between two polls the queue of events only shrinks. *)
LEMMA IdleKeepsRoom ==
    ASSUME IndInv, Room, poll.pc = "idle", poll' = poll,
           Len(events') \in Nat, Len(events') <= Len(events)
    PROVE  HangsUpOnce' /\ Room'
<1>1. Len(events) \in Nat /\ Len(events) <= 3 * Capacity
  BY DEF IndInv, Types, Room
<1>2. Len(events') <= 3 * Capacity
  BY <1>1, ServerNumbers
<1> QED BY <1>2 DEF HangsUpOnce, Room

(* So do the loops of a poll stand where a step changes no state. *)
LEMMA StillKeepsRoom ==
    ASSUME IndInv, HangsUpOnce, Room, StatesKept, events' = events,
           poll'.pc = poll.pc, poll'.polled = poll.polled, poll'.turn = poll.turn
    PROVE  HangsUpOnce' /\ Room'
<1>1. Occupied' = Occupied
  BY DEF Occupied, StatesKept
<1>2. Before' = Before
  BY DEF Before
<1>3. Room'
  BY <1>1, <1>2 DEF Room
<1>4. poll.polled \subseteq Slots
  BY DEF IndInv, Polling
<1>5. HangsUpOnce'
  BY <1>4 DEF HangsUpOnce, StatesKept
<1> QED BY <1>3, <1>5

(* The turns of the loops stay within the room that is left. *)
LEMMA NextTurnKeepsRoom ==
    ASSUME IndInv, HangsUpOnce, Room, poll.pc # "idle", NextTurn,
           Len(events') \in Nat, NEW n \in Nat, Len(events') <= Len(events) + n,
           poll.pc = "accept" \/ poll.polled = {} => n = 0,
           poll.pc = "input" => n <= 2,
           poll.pc = "output" => n <= 1,
           \A t \in Slots : /\ poll.pc = "accept" \/ t # poll.turn
                            /\ clients'[t].state = "HANGUP"
                            => clients[t].state = "HANGUP"
    PROVE  HangsUpOnce' /\ Room'
<1> DEFINE later == {s \in poll.polled : poll.pc # "accept" /\ s > poll.turn}
           first == IF poll.polled = {} THEN 0 ELSE Min(poll.polled)
<1>1. poll.polled \subseteq Slots /\ poll.polled \subseteq Nat
  BY ServerNumbers DEF IndInv, Polling
<1>2. poll.polled # {} => first \in poll.polled /\ \A s \in poll.polled : first <= s
  <2>1. poll.polled # {} => \E x \in poll.polled : \A y \in poll.polled : x <= y
    BY <1>1, LeastNatural
  <2> QED BY <2>1 DEF Min
<1>3. later # {} => Min(later) \in later
  BY <1>1, MinIsIn
<1>4. {"pc", "polled", "turn", "listening", "moved"} \subseteq DOMAIN poll
  BY DEF IndInv, Shapes
<1>5. /\ poll.pc \in {"accept", "input", "output"}
      /\ poll.pc \in {"input", "output"} /\ poll.polled # {} => poll.turn \in poll.polled
  BY DEF IndInv, Polling
<1>6. poll' = IF later # {}
              THEN [poll EXCEPT !.turn = Min(later), !.moved = FALSE]
              ELSE CASE poll.pc = "accept" -> [poll EXCEPT !.pc = "input", !.turn = first,
                                                           !.listening = FALSE]
                     [] poll.pc = "input" -> [poll EXCEPT !.pc = "output", !.turn = first,
                                                          !.moved = FALSE]
                     [] poll.pc = "output" -> NotPolling
  BY DEF NextTurn
<1>7. PICK P \in Nat, B \in Nat, O \in Nat, L \in Nat, M \in Nat :
         /\ P = Cardinality(poll.polled) /\ B = Cardinality(Before)
         /\ O = Cardinality(Occupied) /\ L = Len(events) /\ M = Len(events')
         /\ P <= Capacity /\ O <= Capacity /\ B <= P
         /\ IsFiniteSet(poll.polled) /\ IsFiniteSet(Before)
  <2>1. Occupied \subseteq Slots /\ Before \subseteq poll.polled
    BY DEF Occupied, Before
  <2>2. IsFiniteSet(poll.polled) /\ Cardinality(poll.polled) <= Capacity
    BY <1>1, ServerNumbers, FS_Subset
  <2>3. IsFiniteSet(Occupied) /\ Cardinality(Occupied) <= Capacity
    BY <2>1, ServerNumbers, FS_Subset
  <2>4. IsFiniteSet(Before) /\ Cardinality(Before) <= Cardinality(poll.polled)
    BY <2>1, <2>2, FS_Subset
  <2>5. Len(events) \in Nat
    BY DEF IndInv, Types
  <2> QED BY <2>2, <2>3, <2>4, <2>5, FS_CardinalityType
<1>8. M <= L + n /\ Capacity \in Nat
  BY <1>7, ServerNumbers
<1>9. ASSUME poll.polled # {}, poll.pc # "accept" PROVE B + 1 <= P
  <2>1. poll.turn \in poll.polled /\ poll.turn \notin Before
    BY <1>1, <1>5, <1>9 DEF Before
  <2>2. Cardinality(Before \cup {poll.turn}) = B + 1 /\ IsFiniteSet(Before \cup {poll.turn})
    BY <1>7, <2>1, FS_AddElement
  <2>3. Before \cup {poll.turn} \subseteq poll.polled
    BY <2>1 DEF Before
  <2>4. Cardinality(Before \cup {poll.turn}) <= Cardinality(poll.polled)
    BY <1>7, <2>3, FS_Subset
  <2> QED BY <1>7, <2>2, <2>4
<1> HIDE DEF later, first
<1>10. CASE later # {}
  <2>1. /\ poll'.pc = poll.pc /\ poll'.polled = poll.polled /\ poll'.turn = Min(later)
    BY <1>4, <1>6, <1>10
  <2>2. Min(later) \in poll.polled /\ Min(later) > poll.turn /\ poll.pc # "accept"
    BY <1>3, <1>10 DEF later
  <2>3. poll.turn \in poll.polled /\ poll.turn \in Nat /\ Min(later) \in Nat
    BY <1>1, <1>5, <2>2
  <2>4. B + 1 <= Cardinality(Before') /\ Cardinality(Before') \in Nat
    <3>1. Before' = {s \in poll.polled : s < Min(later)}
      BY <2>1 DEF Before
    <3>2. Before \cup {poll.turn} \subseteq Before' /\ poll.turn \notin Before
      BY <1>1, <2>2, <2>3, <3>1 DEF Before
    <3>3. Cardinality(Before \cup {poll.turn}) = B + 1
      BY <1>7, <3>2, FS_AddElement
    <3>4. IsFiniteSet(Before')
      BY <1>7, <3>1, FS_Subset
    <3>5. Cardinality(Before \cup {poll.turn}) <= Cardinality(Before')
      BY <3>2, <3>4, FS_Subset
    <3> QED BY <3>3, <3>4, <3>5, FS_CardinalityType
  <2>5. PICK C \in Nat : C = Cardinality(Before') /\ B + 1 <= C
    BY <2>4
  <2>6. poll.pc = "input" => L + P <= Capacity + 2 * B
    BY <1>7 DEF Room
  <2>7. poll.pc = "output" => L <= Capacity + P + B
    BY <1>7 DEF Room
  <2>8. /\ poll.pc = "input" => M + P <= Capacity + 2 * C
        /\ poll.pc = "output" => M <= Capacity + P + C
    BY <1>8, <2>5, <2>6, <2>7
  <2>9. Room'
    BY <1>5, <1>7, <2>1, <2>2, <2>5, <2>8 DEF Room
  <2>10. ASSUME poll.pc = "input", NEW s \in poll.polled, s >= Min(later)
         PROVE  clients'[s].state # "HANGUP"
    <3>1. s \in Nat /\ s \in Slots
      BY <1>1
    <3>2. s >= poll.turn /\ s # poll.turn
      BY <2>2, <2>3, <2>10, <3>1
    <3> QED BY <2>10, <3>1, <3>2 DEF HangsUpOnce
  <2>11. HangsUpOnce'
    BY <2>1, <2>2, <2>10 DEF HangsUpOnce
  <2> QED BY <2>9, <2>11
<1>11. CASE later = {}
  <2>1. ASSUME poll'.polled = poll.polled, poll'.turn = first PROVE Cardinality(Before') = 0
    <3>1. Before' = {s \in poll.polled : s < first}
      BY <2>1 DEF Before
    <3>2. ASSUME NEW s \in poll.polled, s < first PROVE FALSE
      <4>1. s \in Nat /\ first \in Nat /\ first <= s
        BY <1>1, <1>2
      <4> QED BY <3>2, <4>1
    <3>3. Before' = {}
      BY <3>1, <3>2
    <3> QED BY <3>3, FS_EmptySet
  <2>2. CASE poll.pc = "accept"
    <3>1. poll' = [poll EXCEPT !.pc = "input", !.turn = first, !.listening = FALSE]
      BY <1>6, <1>11, <2>2
    <3>2. poll'.pc = "input" /\ poll'.polled = poll.polled /\ poll'.turn = first
      BY <1>4, <3>1
    <3>3. L + P <= O
      BY <1>7, <2>2 DEF Room
    <3>4. M + P <= Capacity + 2 * 0
      BY <1>7, <1>8, <2>2, <3>3
    <3>5. Room'
      BY <1>7, <2>1, <3>2, <3>4 DEF Room
    <3>6. \A s \in poll.polled : clients'[s].state # "HANGUP"
      BY <1>1, <2>2 DEF HangsUpOnce
    <3> QED BY <3>2, <3>5, <3>6 DEF HangsUpOnce
  <2>3. CASE poll.pc = "input"
    <3>1. poll' = [poll EXCEPT !.pc = "output", !.turn = first, !.moved = FALSE]
      BY <1>6, <1>11, <2>3
    <3>2. poll'.pc = "output" /\ poll'.polled = poll.polled /\ poll'.turn = first
      BY <1>4, <3>1
    <3>3. L + P <= Capacity + 2 * B
      BY <1>7, <2>3 DEF Room
    <3>4. M <= Capacity + P + 0
      <4>1. CASE poll.polled = {}
        <5>1. n = 0 /\ B <= P
          BY <1>7, <4>1
        <5> QED BY <1>8, <3>3, <5>1
      <4>2. CASE poll.polled # {}
        <5>1. n <= 2 /\ B + 1 <= P
          BY <1>9, <2>3, <4>2
        <5> QED BY <1>8, <3>3, <5>1
      <4> QED BY <4>1, <4>2
    <3>5. Room'
      BY <1>7, <2>1, <3>2, <3>4 DEF Room
    <3> QED BY <3>2, <3>5 DEF HangsUpOnce
  <2>4. CASE poll.pc = "output"
    <3>1. poll'.pc = "idle"
      BY <1>6, <1>11, <2>4 DEF NotPolling
    <3>2. L <= Capacity + P + B
      BY <1>7, <2>4 DEF Room
    <3>3. M <= 3 * Capacity
      BY <1>7, <1>8, <1>9, <2>4, <3>2
    <3> QED BY <1>7, <3>1, <3>3 DEF Room, HangsUpOnce
  <2> QED BY <1>5, <2>2, <2>3, <2>4
<1> QED BY <1>10, <1>11
-----------------------------------------------------------------------------
(* One lemma for each action; most of them tell nothing.                   *)

(* A step that leaves the histories alone tells nothing. *)
LEMMA SameHist ==
    ASSUME ToldInv, hist' = hist
    PROVE  HistKept
  BY DEF ToldInv, HistShape, HistKept

(* A step that leaves the structures alone hangs nobody up. *)
LEMMA SameStates ==
    ASSUME used' = used, clients' = clients
    PROVE  StatesKept
  BY DEF StatesKept

(* The network tells the caller nothing by itself. *)
LEMMA PeerKeepsTellInv ==
    ASSUME IndInv, TellInv, Peer
    PROVE  TellInv'
<1>1. PeerStep
  BY DEF Peer, Connect, PeerSends, PeerFinishes, PeerResets
<1>2. used' = used /\ clients' = clients /\ events' = events /\ poll' = poll /\ hist' = hist
  BY <1>1 DEF PeerStep
<1>3. HistKept /\ StatesKept
  BY <1>2, SameHist, SameStates DEF TellInv
<1> QED BY <1>2, <1>3, QuietKeepsToldInv, StillKeepsRoom DEF TellInv

(* A new server has no clients to tell of, and an empty queue. *)
LEMMA CreateKeepsTellInv ==
    ASSUME IndInv, TellInv, tcp_server_create
    PROVE  TellInv'
<1>1. /\ ~used /\ used' /\ clients' = [s \in Slots |-> NewClient]
      /\ events' = <<>> /\ poll' = poll /\ hist' = hist
  BY DEF tcp_server_create
<1>2. ToldInv'
  <2>1. \A s \in Slots : clients'[s].state = "FREE"
    BY <1>1 DEF NewClient
  <2>2. ToldOf'
    BY <2>1 DEF ToldOf
  <2>3. HistShape'
    BY <1>1 DEF TellInv, ToldInv, HistShape
  <2>4. \A c \in Conns : InOrder(hist'[c].pushed)
    BY <1>1 DEF TellInv, ToldInv
  <2> QED BY <2>2, <2>3, <2>4 DEF ToldInv
<1>3. poll.pc = "idle"
  BY <1>1 DEF IndInv, Stopped
<1>4. Len(events') = 0 /\ Len(events) \in Nat
  BY <1>1 DEF IndInv, Types
<1>5. HangsUpOnce' /\ Room'
  BY <1>1, <1>3, <1>4, IdleKeepsRoom DEF TellInv
<1> QED BY <1>2, <1>5 DEF TellInv

(* tcp_server_delete ends what is told. *)
LEMMA DeleteKeepsTellInv ==
    ASSUME IndInv, TellInv, tcp_server_delete
    PROVE  TellInv'
<1>1. /\ used' = FALSE /\ poll.pc = "idle" /\ events' = <<>> /\ poll' = poll
      /\ hist' = [c \in Conns |-> NoHistory]
  BY DEF tcp_server_delete, Idle
<1>2. ToldInv'
  <2>1. <<>> \in Seq(EventTypes) /\ InOrder(<<>>)
    BY DEF InOrder
  <2>2. \A c \in Conns : hist'[c].pushed = <<>> /\ "pushed" \in DOMAIN hist'[c]
    BY <1>1 DEF NoHistory
  <2> QED BY <1>1, <2>1, <2>2 DEF ToldInv, HistShape
<1>3. Len(events) \in Nat /\ Len(events') = 0
  BY <1>1 DEF IndInv, Types
<1>4. HangsUpOnce' /\ Room'
  BY <1>1, <1>3, IdleKeepsRoom DEF TellInv
<1> QED BY <1>2, <1>4 DEF TellInv

(* The call of poll starts with an empty queue, and leaves out the clients *)
(* that hung up.                                                           *)
LEMMA PollKeepsTellInv ==
    ASSUME IndInv, TellInv, tcp_server_poll
    PROVE  TellInv'
<1>1. /\ used /\ poll.pc = "idle" /\ events = <<>>
      /\ UNCHANGED <<used, clients, events, hist>>
  BY DEF tcp_server_poll, Idle
<1> DEFINE in == {s \in Slots : clients[s].state \notin {"FREE", "HANGUP"}}
<1>2. PICK r : \/ poll' = NotPolling
               \/ poll' = [pc |-> "accept", polled |-> in, turn |-> 0,
                           revents |-> r, listening |-> Backlog # {}, moved |-> FALSE]
  BY DEF tcp_server_poll
<1>3. HistKept /\ StatesKept
  BY <1>1, SameHist, SameStates DEF TellInv
<1>4. ToldInv'
  BY <1>3, QuietKeepsToldInv DEF TellInv
<1>5. Len(events') = 0
  BY <1>1
<1>6. CASE poll' = NotPolling
  <2>1. poll'.pc = "idle"
    BY <1>6 DEF NotPolling
  <2>2. 0 <= 3 * Capacity
    BY ServerNumbers
  <2>3. HangsUpOnce' /\ Room'
    BY <1>5, <2>1, <2>2 DEF HangsUpOnce, Room
  <2> QED BY <1>4, <2>3 DEF TellInv
<1>7. CASE poll' # NotPolling
  <2>1. poll'.pc = "accept" /\ poll'.polled = in
    BY <1>2, <1>7
  <2>2. in \subseteq Occupied /\ Occupied \subseteq Slots /\ Occupied' = Occupied
    BY <1>1 DEF Occupied
  <2>3. IsFiniteSet(Occupied)
    BY <2>2, ServerNumbers, FS_Subset
  <2>4. Cardinality(in) <= Cardinality(Occupied) /\ IsFiniteSet(in)
    BY <2>2, <2>3, FS_Subset
  <2>5. 0 + Cardinality(in) <= Cardinality(Occupied)
    BY <2>3, <2>4, FS_CardinalityType
  <2>6. Room'
    BY <1>5, <2>1, <2>2, <2>5 DEF Room
  <2>7. \A s \in in : clients'[s].state # "HANGUP"
    BY <1>1
  <2>8. HangsUpOnce'
    BY <2>1, <2>7 DEF HangsUpOnce
  <2> QED BY <1>4, <2>6, <2>8 DEF TellInv
<1> QED BY <1>6, <1>7

(* The end of a loop tells nothing. *)
LEMMA LoopDoneKeepsTellInv ==
    ASSUME IndInv, TellInv, LoopDone
    PROVE  TellInv'
<1>1. /\ poll.pc # "idle" /\ NextTurn
      /\ UNCHANGED <<used, clients, events, hist>>
  BY DEF LoopDone
<1>2. HistKept /\ StatesKept
  BY <1>1, SameHist, SameStates DEF TellInv
<1>3. ToldInv'
  BY <1>2, QuietKeepsToldInv DEF TellInv
<1>4. Len(events) \in Nat
  BY DEF IndInv, Types
<1>5. PICK n \in Nat : n = 0
  OBVIOUS
<1>6. Len(events') \in Nat /\ Len(events') <= Len(events) + n /\ n <= 2 /\ n <= 1
  BY <1>1, <1>4, <1>5
<1>7. HangsUpOnce' /\ Room'
  BY <1>1, <1>5, <1>6, NextTurnKeepsRoom DEF TellInv
<1> QED BY <1>3, <1>7 DEF TellInv

(* A recv tells nothing yet. *)
LEMMA ReceiveKeepsTellInv ==
    ASSUME IndInv, TellInv, Receive
    PROVE  TellInv'
<1>1. /\ poll.pc = "input" /\ poll.polled # {}
      /\ poll' = [poll EXCEPT !.moved = TRUE]
      /\ used' = used /\ events' = events
  BY DEF Receive
<1>2. PICK s \in Slots : s = poll.turn /\ used /\ clients[s].state # "FREE"
  BY <1>1, TurnIsOccupied
<1>3. PICK c \in Conns : c = clients[s].fd
  BY <1>2, OccupiedConn
<1>4. PICK input, regrown : /\ clients' = [clients EXCEPT ![s].input = input]
                            /\ hist' = [hist EXCEPT ![c].regrown = regrown]
  BY <1>2, <1>3, Zenon DEF Receive
<1>5. /\ DOMAIN clients = Slots
      /\ \A t \in Slots : {"state", "gen", "fd"} \subseteq DOMAIN clients[t]
  BY DEF IndInv, Shapes
<1>6. StatesKept
  BY <1>1, <1>4, <1>5 DEF StatesKept
<1>7. HistKept
  BY <1>3, <1>4 DEF TellInv, ToldInv, HistShape, HistKept
<1>8. poll'.pc = poll.pc /\ poll'.polled = poll.polled /\ poll'.turn = poll.turn
  BY <1>1 DEF IndInv, Shapes
<1> QED BY <1>1, <1>6, <1>7, <1>8, QuietKeepsToldInv, StillKeepsRoom DEF TellInv

(* An accept tells the caller of the connection. *)
LEMMA AcceptKeepsTellInv ==
    ASSUME IndInv, TellInv, Accept
    PROVE  TellInv'
<1>1. used /\ poll.pc = "accept" /\ count < Capacity /\ Backlog # {}
  BY DEF Accept, MoreToAccept, IndInv, Stopped
<1>2. PICK c \in Conns : c = Min(Backlog) /\ net[c].state = "backlog"
  <2>1. Backlog \subseteq Nat
    BY ServerNumbers DEF Backlog
  <2>2. Min(Backlog) \in Backlog
    BY <1>1, <2>1, MinIsIn
  <2> QED BY <2>2 DEF Backlog
<1>3. PICK s \in Slots : /\ s = Min({t \in Slots : clients[t].state = "FREE"})
                         /\ clients[s].state = "FREE"
  <2>1. {t \in Slots : clients[t].state = "FREE"} # {}
    BY <1>1, FreeSlotLeft
  <2>2. {t \in Slots : clients[t].state = "FREE"} \subseteq Nat
    BY ServerNumbers
  <2>3. Min({t \in Slots : clients[t].state = "FREE"}) \in {t \in Slots : clients[t].state = "FREE"}
    BY <2>1, <2>2, MinIsIn
  <2> QED BY <2>3
<1>4. used' = used /\ poll' = poll
  BY DEF Accept
<1>5. \/ /\ clients' = [clients EXCEPT ![s].state = "USED", ![s].fd = c,
                                       ![s].input = byte_queue_init,
                                       ![s].output = byte_queue_init]
         /\ events' = push_event(<<"CONNECT">>, c, s)
         /\ hist' = [hist EXCEPT ![c].pushed = <<"CONNECT">>]
      \/ clients' = clients /\ events' = events /\ hist' = hist
  BY <1>2, <1>3, Zenon DEF Accept
<1>6. CASE clients' = clients /\ events' = events /\ hist' = hist
  <2>1. HistKept /\ StatesKept
    BY <1>4, <1>6, SameHist, SameStates DEF TellInv
  <2> QED BY <1>4, <1>6, <2>1, QuietKeepsToldInv, StillKeepsRoom DEF TellInv
<1>7. CASE /\ clients' = [clients EXCEPT ![s].state = "USED", ![s].fd = c,
                                         ![s].input = byte_queue_init,
                                         ![s].output = byte_queue_init]
           /\ events' = push_event(<<"CONNECT">>, c, s)
           /\ hist' = [hist EXCEPT ![c].pushed = <<"CONNECT">>]
  <2>1. /\ DOMAIN clients = Slots
        /\ \A t \in Slots : {"state", "gen", "fd"} \subseteq DOMAIN clients[t]
    BY DEF IndInv, Shapes
  <2>2. /\ \A t \in Slots : t # s => clients'[t] = clients[t]
        /\ clients'[s].state = "USED" /\ clients'[s].fd = c
    BY <1>7, <2>1
  <2>3. /\ DOMAIN hist' = Conns /\ \A d \in Conns : "pushed" \in DOMAIN hist'[d]
        /\ hist'[c].pushed = <<"CONNECT">>
        /\ \A d \in Conns : d # c => hist'[d] = hist[d]
    BY <1>7 DEF TellInv, ToldInv, HistShape
  <2>4. PICK p \in Seq(EventTypes) : p = <<"CONNECT">>
    <3>1. <<"CONNECT">> \in Seq(EventTypes)
      BY DEF EventTypes
    <3> QED BY <3>1
  <2>5. Len(p) = 1 /\ DOMAIN p = 1 .. 1 /\ p[1] = "CONNECT" /\ p # <<>>
    BY <2>4
  <2>6. InOrder(p) /\ Follows(p, "USED")
    BY <2>5 DEF InOrder, Follows
  <2>7. HistShape'
    BY <2>3, <2>4 DEF TellInv, ToldInv, HistShape
  <2>8. \A d \in Conns : InOrder(hist'[d].pushed)
    BY <2>3, <2>4, <2>6 DEF TellInv, ToldInv
  <2>9. ASSUME NEW t \in Slots, clients'[t].state # "FREE"
        PROVE  Follows(hist'[clients'[t].fd].pushed, clients'[t].state)
    <3>1. CASE t = s
      BY <2>2, <2>3, <2>4, <2>6, <3>1
    <3>2. CASE t # s
      <4>1. clients'[t] = clients[t] /\ clients[t].state # "FREE"
        BY <2>2, <2>9, <3>2
      <4>2. clients[t].fd \in Conns
        BY <1>1, <4>1, OccupiedConn
      <4>3. net[clients[t].fd].state = "accepted"
        BY <1>1, <4>1 DEF IndInv, Table
      <4>4. clients[t].fd # c
        BY <1>2, <4>3
      <4>5. Follows(hist[clients[t].fd].pushed, clients[t].state)
        BY <1>1, <4>1 DEF TellInv, ToldInv, ToldOf
      <4> QED BY <2>3, <4>1, <4>2, <4>4, <4>5
    <3> QED BY <3>1, <3>2
  <2>10. ToldInv'
    BY <2>7, <2>8, <2>9 DEF ToldInv, ToldOf
  <2>11. Occupied' = Occupied \cup {s} /\ s \notin Occupied /\ Occupied \subseteq Slots
    BY <1>3, <2>2 DEF Occupied
  <2>12. IsFiniteSet(Occupied) /\ Cardinality(Occupied \cup {s}) = Cardinality(Occupied) + 1
    BY <2>11, ServerNumbers, FS_Subset, FS_AddElement
  <2>13. Len(events') = Len(events) + 1 /\ Len(events) \in Nat
    <3>1. clients[s].gen \in 1 .. SharedBit - 1
      BY <1>1, GenerationBound
    <3>2. events' = push_event(p, c, s)
      BY <1>7, <2>4
    <3>3. Len(push_event(p, c, s)) = Len(events) + Len(p)
      BY <1>1, <3>1, PushedCount
    <3>4. Len(events) \in Nat
      BY DEF IndInv, Types
    <3> QED BY <2>5, <3>2, <3>3, <3>4
  <2>14. Room'
    <3>1. poll.polled \subseteq Slots
      BY DEF IndInv, Polling
    <3>2. Cardinality(poll.polled) \in Nat /\ Cardinality(Occupied) \in Nat
      BY <2>12, <3>1, ServerNumbers, FS_Subset, FS_CardinalityType
    <3>3. Len(events) + Cardinality(poll.polled) <= Cardinality(Occupied)
      BY <1>1 DEF TellInv, Room
    <3>4. Len(events') + Cardinality(poll.polled) <= Cardinality(Occupied')
      BY <2>11, <2>12, <2>13, <3>2, <3>3
    <3> QED BY <1>1, <1>4, <3>4 DEF Room
  <2>15. HangsUpOnce'
    <3>1. poll.polled \subseteq Slots
      BY DEF IndInv, Polling
    <3>2. \A t \in poll.polled : clients'[t].state # "HANGUP"
      BY <1>1, <2>2, <3>1 DEF TellInv, HangsUpOnce
    <3> QED BY <1>1, <1>4, <3>2 DEF HangsUpOnce
  <2> QED BY <2>10, <2>14, <2>15 DEF TellInv
<1> QED BY <1>5, <1>6, <1>7

(* The input loop tells of data, then of the end, and only of clients that *)
(* have not hung up before.                                                *)
LEMMA InputKeepsTellInv ==
    ASSUME IndInv, TellInv, Input
    PROVE  TellInv'
<1>1. poll.pc = "input" /\ poll.polled # {} /\ NextTurn /\ used' = used
  BY Zenon DEF Input
<1>2. PICK s \in Slots : s = poll.turn /\ used /\ clients[s].state # "FREE"
  BY <1>1, TurnIsOccupied
<1>3. PICK c \in Conns : c = clients[s].fd
  BY <1>2, OccupiedConn
<1>4. clients[s].state # "HANGUP"
  <2>1. poll.turn \in poll.polled /\ s \in Nat
    BY <1>1, <1>2, ServerNumbers DEF IndInv, Polling
  <2>2. s >= poll.turn
    BY <1>2, <2>1
  <2> QED BY <1>1, <1>2, <2>1, <2>2 DEF TellInv, HangsUpOnce
<1>5. /\ DOMAIN clients = Slots
      /\ \A t \in Slots : {"state", "gen", "fd"} \subseteq DOMAIN clients[t]
      /\ Len(events) \in Nat
  BY DEF IndInv, Shapes, Types
<1>6. CASE ~Readable(poll.turn)
  <2>1. clients' = clients /\ events' = events /\ hist' = hist
    BY <1>6 DEF Input
  <2>2. HistKept /\ StatesKept
    BY <1>1, <2>1, SameHist, SameStates DEF TellInv
  <2>3. PICK n \in Nat : n = 0
    OBVIOUS
  <2>4. Len(events') \in Nat /\ Len(events') <= Len(events) + n /\ n <= 2
    BY <1>5, <2>1, <2>3
  <2>5. HangsUpOnce' /\ Room'
    BY <1>1, <2>1, <2>3, <2>4, NextTurnKeepsRoom DEF TellInv
  <2> QED BY <2>2, <2>5, QuietKeepsToldInv DEF TellInv
<1>7. CASE Readable(poll.turn)
  <2> DEFINE hangup == net[clients[s].fd].rst \/ net[clients[s].fd].fin
  <2>1. PICK data :
          /\ clients' = [clients EXCEPT
                           ![s].input = ensure_min_free_space(clients[s].input, MinFree),
                           ![s].state = IF hangup THEN "HANGUP" ELSE @]
          /\ events' = push_event(InputEvents(s, data, hangup), clients[s].fd, s)
          /\ hist' = [hist EXCEPT
                        ![clients[s].fd].pushed = @ \o InputEvents(s, data, hangup),
                        ![clients[s].fd].regrown =
                           @ \/ ResizePartlyRead(clients[s].input, MinFree)]
    BY <1>2, <1>7, ZenonT(40) DEF Input
  <2>2. PICK input : input = ensure_min_free_space(clients[s].input, MinFree)
    OBVIOUS
  <2>3. PICK state : state = IF hangup THEN "HANGUP" ELSE clients[s].state
    OBVIOUS
  <2>4. state # "FREE" /\ (hangup => state = "HANGUP")
    BY <1>2, <2>3
  <2>5. clients' = [clients EXCEPT ![s].input = input, ![s].state = state]
    BY <2>1, <2>2, <2>3
  <2>6. PICK types : types = InputEvents(s, data, hangup)
    OBVIOUS
  <2>7. Tells(types, state) /\ Len(types) <= 2
    <3> HIDE DEF hangup
    <3>1. Tells(InputEvents(s, data, hangup), state) /\ Len(InputEvents(s, data, hangup)) <= 2
      BY <2>4, InputTells
    <3> QED BY <2>6, <3>1, Zenon
  <2>8. events' = push_event(types, c, s)
    BY <1>3, <2>1, <2>6, Zenon
  <2>9. PICK r : r = (hist[c].regrown \/ ResizePartlyRead(clients[s].input, MinFree))
    OBVIOUS
  <2>10. hist' = [hist EXCEPT ![c].pushed = @ \o types, ![c].regrown = r]
    BY <1>3, <2>1, <2>6, <2>9
  <2>11. /\ \A t \in Slots : t # s => clients'[t] = clients[t]
         /\ clients'[s].state = state /\ clients'[s].fd = clients[s].fd
    BY <1>5, <2>5
  <2>12. /\ DOMAIN hist' = Conns /\ \A d \in Conns : "pushed" \in DOMAIN hist'[d]
         /\ \A d \in Conns : hist'[d].pushed = IF d = c THEN hist[d].pushed \o types
                                                        ELSE hist[d].pushed
    BY <2>10 DEF TellInv, ToldInv, HistShape
  <2>13. ToldInv'
    BY <1>1, <1>2, <1>3, <1>4, <2>7, <2>11, <2>12, PushKeepsToldInv DEF TellInv
  <2>14. PICK n \in Nat : n = Len(types) /\ n <= 2
    BY <2>7 DEF Tells
  <2>15. Len(events') = Len(events) + n
    <3>1. clients[s].gen \in 1 .. SharedBit - 1
      BY <1>2, GenerationBound
    <3>2. types \in Seq(EventTypes)
      BY <2>7 DEF Tells
    <3> QED BY <1>2, <2>8, <2>14, <3>1, <3>2, PushedCount
  <2>16. Len(events') \in Nat /\ Len(events') <= Len(events) + n
    BY <1>5, <2>15
  <2>17. \A t \in Slots : t # poll.turn => clients'[t] = clients[t]
    BY <1>2, <2>11
  <2>18. HangsUpOnce' /\ Room'
    BY <1>1, <2>14, <2>16, <2>17, NextTurnKeepsRoom DEF TellInv
  <2> QED BY <2>13, <2>18 DEF TellInv
<1> QED BY <1>6, <1>7

(* The output loop tells of a client that is lost, unless it has hung up   *)
(* in the input loop.                                                      *)
LEMMA OutputKeepsTellInv ==
    ASSUME IndInv, TellInv, Output
    PROVE  TellInv'
<1>1. poll.pc = "output" /\ poll.polled # {} /\ NextTurn /\ used' = used
  BY Zenon DEF Output
<1>2. PICK s \in Slots : s = poll.turn /\ used /\ clients[s].state # "FREE"
  BY <1>1, TurnIsOccupied
<1>3. PICK c \in Conns : c = clients[s].fd
  BY <1>2, OccupiedConn
<1>4. /\ DOMAIN clients = Slots
      /\ \A t \in Slots : {"state", "gen", "fd"} \subseteq DOMAIN clients[t]
      /\ Len(events) \in Nat
  BY DEF IndInv, Shapes, Types
<1>5. DOMAIN hist = Conns /\ \A d \in Conns : "pushed" \in DOMAIN hist[d]
  BY DEF TellInv, ToldInv, HistShape
<1>6. CASE ~(Flushable(s) /\ "OUT" \in poll.revents[s])
  <2>1. clients' = clients /\ events' = events /\ hist' = hist
    BY <1>2, <1>6 DEF Output
  <2>2. HistKept /\ StatesKept
    BY <1>1, <2>1, SameHist, SameStates DEF TellInv
  <2>3. PICK n \in Nat : n = 0
    OBVIOUS
  <2>4. Len(events') \in Nat /\ Len(events') <= Len(events) + n /\ n <= 1
    BY <1>4, <2>1, <2>3
  <2>5. HangsUpOnce' /\ Room'
    BY <1>1, <2>1, <2>3, <2>4, NextTurnKeepsRoom DEF TellInv
  <2> QED BY <2>2, <2>5, QuietKeepsToldInv DEF TellInv
<1>7. CASE Flushable(s) /\ "OUT" \in poll.revents[s]
  <2> DEFINE q == clients[s].output
             freed(k, error) == clients[s].state = "CLOSE" /\ (error \/ k = used_space(q))
             lost(error) == clients[s].state # "CLOSE" /\ error
             news(error) == IF lost(error) THEN <<"DISCONNECT">> ELSE <<>>
             note(error) == [hist[c] EXCEPT !.sendfailed = @ \/ error,
                                            !.pushed = @ \o news(error)]
  <2>1. PICK error \in BOOLEAN, k \in 0 .. used_space(q) :
           /\ clients' = [clients EXCEPT ![s] =
                             IF freed(k, error) THEN free_client(s)
                             ELSE [clients[s] EXCEPT
                                     !.output = end_read(q, k),
                                     !.state = IF lost(error) THEN "HANGUP" ELSE @]]
           /\ events' = push_event(news(error), c, s)
           /\ hist' = [hist EXCEPT ![c] = IF freed(k, error) THEN Ended(note(error))
                                                             ELSE note(error)]
    BY <1>2, <1>3, <1>7, ZenonT(40) DEF Output
  <2>2. PICK types : types = news(error)
    OBVIOUS
  <2>3. PICK told : told = note(error)
    OBVIOUS
  <2>4. "pushed" \in DOMAIN told /\ told.pushed = hist[c].pushed \o types
    BY <1>5, <2>2, <2>3
  <2>5. clients[s].state # "HANGUP"
    BY <1>7 DEF Flushable
  <2>6. types \in Seq(EventTypes) /\ Len(types) <= 1
    <3>1. types = <<>> \/ types = <<"DISCONNECT">>
      BY <2>2
    <3>2. /\ <<>> \in Seq(EventTypes) /\ Len(<<>>) <= 1
          /\ <<"DISCONNECT">> \in Seq(EventTypes) /\ Len(<<"DISCONNECT">>) <= 1
      BY DEF EventTypes
    <3>3. CASE types = <<>>
      BY <3>2, <3>3, Zenon
    <3>4. CASE types = <<"DISCONNECT">>
      BY <3>2, <3>4, Zenon
    <3> QED BY <3>1, <3>3, <3>4
  <2>7. PICK n \in Nat : n = Len(types) /\ n <= 1
    BY <2>6
  <2>8. Len(events') = Len(events) + n
    <3>1. clients[s].gen \in 1 .. SharedBit - 1
      BY <1>2, GenerationBound
    <3>2. events' = push_event(types, c, s)
      BY <2>1, <2>2
    <3> QED BY <1>2, <2>6, <2>7, <3>1, <3>2, PushedCount
  <2>9. Len(events') \in Nat /\ Len(events') <= Len(events) + n
    BY <1>4, <2>8
  <2>10. \A t \in Slots : t # s => clients'[t] = clients[t]
    BY <1>4, <2>1
  <2>11. HangsUpOnce' /\ Room'
    BY <1>1, <1>2, <2>7, <2>9, <2>10, NextTurnKeepsRoom DEF TellInv
  <2>12. CASE freed(k, error)
    <3>1. clients'[s].state = "FREE"
      BY <1>4, <2>1, <2>12 DEF free_client, NewClient
    <3>2. hist' = [hist EXCEPT ![c] = Ended(told)]
      BY <2>1, <2>3, <2>12
    <3>3. "pushed" \in DOMAIN Ended(told) /\ Ended(told).pushed = <<>>
      BY <2>4 DEF Ended
    <3>4. /\ DOMAIN hist' = Conns /\ \A d \in Conns : "pushed" \in DOMAIN hist'[d]
          /\ \A d \in Conns : hist'[d].pushed = IF d = c THEN <<>> ELSE hist[d].pushed
      BY <1>5, <3>2, <3>3
    <3>5. ToldInv'
      BY <1>1, <1>2, <1>3, <2>10, <3>1, <3>4, FreeKeepsToldInv DEF TellInv
    <3> QED BY <2>11, <3>5 DEF TellInv
  <2>13. CASE ~freed(k, error)
    <3>1. PICK out, state : /\ out = end_read(q, k)
                            /\ state = IF lost(error) THEN "HANGUP" ELSE clients[s].state
      OBVIOUS
    <3>2. clients'[s] = [clients[s] EXCEPT !.output = out, !.state = state]
      BY <1>4, <2>1, <2>13, <3>1
    <3>3. clients'[s].state = state /\ clients'[s].fd = clients[s].fd
      BY <1>4, <3>2
    <3>4. Tells(types, state)
      <4>1. CASE lost(error)
        <5>1. types = <<"DISCONNECT">> /\ state = "HANGUP"
          BY <2>2, <3>1, <4>1
        <5> QED BY <2>6, <5>1 DEF Tells
      <4>2. CASE ~lost(error)
        <5>1. types = <<>>
          BY <2>2, <4>2
        <5> QED BY <2>6, <5>1 DEF Tells
      <4> QED BY <4>1, <4>2
    <3>5. hist' = [hist EXCEPT ![c] = told]
      BY <2>1, <2>3, <2>13
    <3>6. /\ DOMAIN hist' = Conns /\ \A d \in Conns : "pushed" \in DOMAIN hist'[d]
          /\ \A d \in Conns : hist'[d].pushed = IF d = c THEN hist[d].pushed \o types
                                                         ELSE hist[d].pushed
      BY <1>5, <2>4, <3>5
    <3>7. ToldInv'
      BY <1>1, <1>2, <1>3, <2>5, <2>10, <3>3, <3>4, <3>6, PushKeepsToldInv DEF TellInv
    <3> QED BY <2>11, <3>7 DEF TellInv
  <2> QED BY <2>12, <2>13
<1> QED BY <1>6, <1>7

(* tcp_server_event shortens the queue. *)
LEMMA EventKeepsTellInv ==
    ASSUME IndInv, TellInv, tcp_server_event
    PROVE  TellInv'
<1>1. /\ poll.pc = "idle" /\ events # <<>> /\ events' = Tail(events)
      /\ UNCHANGED <<used, clients, poll, hist>>
  BY DEF tcp_server_event, Idle
<1>2. HistKept /\ StatesKept
  BY <1>1, SameHist, SameStates DEF TellInv
<1>3. Len(events') \in Nat /\ Len(events') <= Len(events)
  <2>1. events \in Seq(Announced)
    BY DEF IndInv, Types
  <2> QED BY <1>1, <2>1
<1> QED BY <1>1, <1>2, <1>3, QuietKeepsToldInv, IdleKeepsRoom DEF TellInv

(* tcp_client_close ends what is told of a connection, or tells nothing. *)
LEMMA CloseKeepsTellInv ==
    ASSUME IndInv, TellInv, NEW h \in MadeHandles, tcp_client_close(h)
    PROVE  TellInv'
<1>1. /\ Idle /\ Usable(h)
      /\ UNCHANGED <<used, events, poll>>
  BY DEF tcp_client_close
<1>2. PICK s \in Slots : s = client_from_handle(h) /\ used /\ clients[s].state # "FREE"
  BY <1>1, UsableClient
<1>3. PICK c \in Conns : c = clients[s].fd
  BY <1>2, OccupiedConn
<1>4. /\ DOMAIN clients = Slots
      /\ \A t \in Slots : {"state", "gen", "fd"} \subseteq DOMAIN clients[t]
      /\ Len(events) \in Nat
  BY DEF IndInv, Shapes, Types
<1>5. DOMAIN hist = Conns /\ \A d \in Conns : "pushed" \in DOMAIN hist[d]
  BY DEF TellInv, ToldInv, HistShape
<1>6. PICK told : told = [hist[c] EXCEPT !.closed = TRUE]
  OBVIOUS
<1>7. "pushed" \in DOMAIN told /\ told.pushed = hist[c].pushed
  BY <1>5, <1>6
<1>8. HangsUpOnce' /\ Room'
  BY <1>1, <1>4, IdleKeepsRoom DEF TellInv, Idle
<1>9. \/ /\ clients' = [clients EXCEPT ![s] = free_client(s)]
         /\ hist' = [hist EXCEPT ![c] = Ended(told)]
      \/ /\ clients[s].state # "HANGUP"
         /\ clients' = [clients EXCEPT ![s].state = "CLOSE"]
         /\ hist' = [hist EXCEPT ![c] = told]
  BY <1>2, <1>3, <1>6 DEF tcp_client_close
<1>10. CASE /\ clients' = [clients EXCEPT ![s] = free_client(s)]
            /\ hist' = [hist EXCEPT ![c] = Ended(told)]
  <2>1. clients'[s].state = "FREE" /\ \A t \in Slots : t # s => clients'[t] = clients[t]
    BY <1>4, <1>10 DEF free_client, NewClient
  <2>2. "pushed" \in DOMAIN Ended(told) /\ Ended(told).pushed = <<>>
    BY <1>7 DEF Ended
  <2>3. /\ DOMAIN hist' = Conns /\ \A d \in Conns : "pushed" \in DOMAIN hist'[d]
        /\ \A d \in Conns : hist'[d].pushed = IF d = c THEN <<>> ELSE hist[d].pushed
    BY <1>5, <1>10, <2>2
  <2>4. ToldInv'
    BY <1>1, <1>2, <1>3, <2>1, <2>3, FreeKeepsToldInv DEF TellInv
  <2> QED BY <1>8, <2>4 DEF TellInv
<1>11. CASE /\ clients[s].state # "HANGUP"
            /\ clients' = [clients EXCEPT ![s].state = "CLOSE"]
            /\ hist' = [hist EXCEPT ![c] = told]
  <2>1. StatesKept
    BY <1>1, <1>2, <1>4, <1>11 DEF StatesKept
  <2>2. HistKept
    BY <1>5, <1>7, <1>11 DEF HistKept
  <2> QED BY <1>8, <2>1, <2>2, QuietKeepsToldInv DEF TellInv
<1> QED BY <1>9, <1>10, <1>11

(* Reads and writes of the caller *)
LEMMA UseKeepsTellInv ==
    ASSUME IndInv, TellInv, NEW h \in MadeHandles, NEW n,
           tcp_client_read(h, n) \/ tcp_client_write(h, n)
    PROVE  TellInv'
<1>1. /\ Idle /\ Usable(h)
      /\ UNCHANGED <<used, events, poll>>
  BY DEF tcp_client_read, tcp_client_write
<1>2. PICK s \in Slots : s = client_from_handle(h) /\ used /\ clients[s].state # "FREE"
  BY <1>1, UsableClient
<1>3. PICK c \in Conns : c = clients[s].fd
  BY <1>2, OccupiedConn
<1>4. /\ DOMAIN clients = Slots
      /\ \A t \in Slots : {"state", "gen", "fd"} \subseteq DOMAIN clients[t]
      /\ Len(events) \in Nat
  BY DEF IndInv, Shapes, Types
<1>5. DOMAIN hist = Conns /\ \A d \in Conns : "pushed" \in DOMAIN hist[d]
  BY DEF TellInv, ToldInv, HistShape
<1>6. HangsUpOnce' /\ Room'
  BY <1>1, <1>4, IdleKeepsRoom DEF TellInv, Idle
<1>7. CASE tcp_client_read(h, n)
  <2>1. PICK input, received : /\ clients' = [clients EXCEPT ![s].input = input]
                               /\ hist' = [hist EXCEPT ![c].received = received]
    BY <1>2, <1>3, <1>7 DEF tcp_client_read
  <2>2. StatesKept
    BY <1>1, <1>4, <2>1 DEF StatesKept
  <2>3. HistKept
    BY <1>5, <2>1 DEF HistKept
  <2> QED BY <1>6, <2>2, <2>3, QuietKeepsToldInv DEF TellInv
<1>8. CASE tcp_client_write(h, n)
  <2>1. PICK output, written, regrown :
           /\ clients' = [clients EXCEPT ![s].output = output]
           /\ hist' = [hist EXCEPT ![c].written = written, ![c].regrown = regrown]
    BY <1>2, <1>3, <1>8 DEF tcp_client_write
  <2>2. StatesKept
    BY <1>1, <1>4, <2>1 DEF StatesKept
  <2>3. HistKept
    BY <1>5, <2>1 DEF HistKept
  <2> QED BY <1>6, <2>2, <2>3, QuietKeepsToldInv DEF TellInv
<1> QED BY <1>7, <1>8
-----------------------------------------------------------------------------
(* Nothing is told in the beginning. *)
LEMMA InitTellInv == Init => TellInv
<1> SUFFICES ASSUME Init PROVE TellInv
  OBVIOUS
<1>1. /\ used = FALSE /\ events = <<>> /\ poll = NotPolling
      /\ hist = [c \in Conns |-> NoHistory]
  BY DEF Init
<1>2. poll.pc = "idle" /\ Len(events) = 0
  BY <1>1 DEF NotPolling
<1>3. \A c \in Conns : hist[c].pushed = <<>> /\ "pushed" \in DOMAIN hist[c]
  BY <1>1 DEF NoHistory
<1>4. <<>> \in Seq(EventTypes) /\ InOrder(<<>>)
  BY DEF InOrder
<1>5. ToldInv
  BY <1>1, <1>3, <1>4 DEF ToldInv, HistShape
<1>6. 0 <= 3 * Capacity
  BY ServerNumbers
<1> QED BY <1>2, <1>5, <1>6 DEF TellInv, HangsUpOnce, Room

(* Every step keeps what was told in order, and the queue within its size. *)
LEMMA NextTellInv == IndInv /\ StaleMade /\ TellInv /\ [Next]_vars => TellInv'
<1> SUFFICES ASSUME IndInv, StaleMade, TellInv, [Next]_vars PROVE TellInv'
  OBVIOUS
<1>1. CASE Peer
  BY <1>1, PeerKeepsTellInv
<1>2. CASE tcp_server_create
  BY <1>2, CreateKeepsTellInv
<1>3. CASE tcp_server_delete
  BY <1>3, DeleteKeepsTellInv
<1>4. CASE tcp_server_poll
  BY <1>4, PollKeepsTellInv
<1>5. CASE PollStep
  BY <1>5, AcceptKeepsTellInv, LoopDoneKeepsTellInv, ReceiveKeepsTellInv, InputKeepsTellInv,
     OutputKeepsTellInv DEF PollStep
<1>6. CASE tcp_server_event
  BY <1>6, EventKeepsTellInv
<1>7. CASE UseClient
  BY <1>7, UsedAreMade, CloseKeepsTellInv, UseKeepsTellInv DEF UseClient
<1>8. CASE UNCHANGED vars
  <2>1. UNCHANGED <<used, clients, events, poll, hist>>
    BY <1>8 DEF vars
  <2>2. HistKept /\ StatesKept
    BY <2>1, SameHist, SameStates DEF TellInv
  <2> QED BY <2>1, <2>2, QuietKeepsToldInv, StillKeepsRoom DEF TellInv
<1> QED BY <1>1, <1>2, <1>3, <1>4, <1>5, <1>6, <1>7, <1>8 DEF Next

(* In a poll, too, the events fit into the queue. *)
LEMMA TellInvEventOrder == IndInv /\ TellInv => EventOrder
<1> SUFFICES ASSUME IndInv, TellInv PROVE EventOrder
  OBVIOUS
<1>1. PICK P \in Nat, B \in Nat, O \in Nat, L \in Nat :
         /\ P = Cardinality(poll.polled) /\ B = Cardinality(Before)
         /\ O = Cardinality(Occupied) /\ L = Len(events)
         /\ P <= Capacity /\ O <= Capacity /\ B <= P
  <2>1. /\ Occupied \subseteq Slots /\ Before \subseteq poll.polled
        /\ poll.polled \subseteq Slots
    BY DEF Occupied, Before, IndInv, Polling
  <2>2. IsFiniteSet(poll.polled) /\ Cardinality(poll.polled) <= Capacity
    BY <2>1, ServerNumbers, FS_Subset
  <2>3. IsFiniteSet(Occupied) /\ Cardinality(Occupied) <= Capacity
    BY <2>1, ServerNumbers, FS_Subset
  <2>4. IsFiniteSet(Before) /\ Cardinality(Before) <= Cardinality(poll.polled)
    BY <2>1, <2>2, FS_Subset
  <2>5. Len(events) \in Nat
    BY DEF IndInv, Types
  <2> QED BY <2>2, <2>3, <2>4, <2>5, FS_CardinalityType
<1>2. L <= Capacity * MAX_EVENTS_PER_CLIENT
  <2>1. /\ poll.pc = "idle" => L <= 3 * Capacity
        /\ poll.pc = "accept" => L + P <= O
        /\ poll.pc = "input" => L + P <= Capacity + 2 * B
        /\ poll.pc = "output" => L <= Capacity + P + B
    BY <1>1 DEF TellInv, Room
  <2>2. poll.pc \in {"idle", "accept", "input", "output"}
    BY DEF IndInv, Polling
  <2> QED BY <1>1, <2>1, <2>2, ServerNumbers DEF MAX_EVENTS_PER_CLIENT
<1> QED BY <1>1, <1>2 DEF EventOrder, TellInv, ToldInv, InOrder

(* What is told of each connection, and the room of the event queue, are   *)
(* kept by every step of the network, of the server and of the caller.     *)
THEOREM TellInvInvariant == Spec => [](IndInv /\ TellInv)
  BY IndInvInvariant, InitTellInv, NextTellInv, PTL DEF Spec

(* The caller is told CONNECT first, then DATA, and DISCONNECT last and    *)
(* once, whichever of the loops of tcp_server_poll found out; and the      *)
(* assert of push_event on the size of the queue holds.                    *)
THEOREM EventsInOrder == Spec => []EventOrder
  BY TellInvInvariant, TellInvEventOrder, PTL
-----------------------------------------------------------------------------
(* The stand-alone clients *)

(* The queues as byte_queue.c keeps them: the unread bytes lie inside the  *)
(* memory.                                                                 *)
Queue == {q \in [bytes : Seq(Int), head : Nat, capacity : Nat] :
             q.head + Len(q.bytes) <= q.capacity}

(* The largest of two numbers *)
LEMMA MaxOfTwo ==
    ASSUME NEW a \in Int, NEW b \in Int
    PROVE  Max({a, b}) \in {a, b} /\ Max({a, b}) >= a /\ Max({a, b}) >= b
<1>1. \E x \in {a, b} : \A y \in {a, b} : x >= y
  OBVIOUS
<1> QED BY <1>1 DEF Max

(* The smallest of two numbers *)
LEMMA MinOfTwo ==
    ASSUME NEW a \in Int, NEW b \in Int
    PROVE  Min({a, b}) \in {a, b} /\ Min({a, b}) <= a /\ Min({a, b}) <= b
<1>1. \E x \in {a, b} : \A y \in {a, b} : x <= y
  OBVIOUS
<1> QED BY <1>1 DEF Min

(* Making room keeps the queue inside its memory.  It keeps the bytes and  *)
(* makes the room that was asked for unless a partly read queue is         *)
(* resized, and even then there is as much room as the queue had memory.   *)
LEMMA RoomIsMade ==
    ASSUME NEW q \in Queue, NEW num \in Nat,
           NEW r, r = ensure_min_free_space(q, num)
    PROVE  /\ r \in Queue
           /\ free_space(r) \in Nat
           /\ Len(r.bytes) = Len(q.bytes)
           /\ ~ResizePartlyRead(q, num) => r.bytes = q.bytes /\ free_space(r) >= num
           /\ num = 1 => free_space(r) >= 1
<1>1. /\ q = [bytes |-> q.bytes, head |-> q.head, capacity |-> q.capacity]
      /\ q.bytes \in Seq(Int) /\ q.head \in Nat /\ q.capacity \in Nat /\ Len(q.bytes) \in Nat
      /\ q.head + Len(q.bytes) <= q.capacity
  BY DEF Queue
<1>2. CASE NeedsResize(q, num)
  <2> DEFINE m == Max({2 * q.capacity, Len(q.bytes) + num})
  <2>1. m \in Int /\ m >= 2 * q.capacity /\ m >= Len(q.bytes) + num
    <3>1. 2 * q.capacity \in Int /\ Len(q.bytes) + num \in Int
      BY <1>1
    <3> QED BY <3>1, MaxOfTwo
  <2> HIDE DEF m
  <2>2. r = [bytes |-> ReadFromHead(q), head |-> q.head, capacity |-> m]
    BY <1>2 DEF ensure_min_free_space, m, used_space
  <2>3. ReadFromHead(q) \in Seq(Int) /\ Len(ReadFromHead(q)) = Len(q.bytes)
    <3> DEFINE F(i) == IF q.head + i <= Len(q.bytes) THEN q.bytes[q.head + i] ELSE Garbage
    <3>1. \A i \in 1 .. Len(q.bytes) : F(i) \in Int
      BY <1>1 DEF Garbage
    <3>2. ReadFromHead(q) = [i \in 1 .. Len(q.bytes) |-> F(i)]
      BY DEF ReadFromHead, used_space
    <3> HIDE DEF F
    <3> QED BY <1>1, <3>1, <3>2
  <2>4. q.head = 0 => ReadFromHead(q) = q.bytes
    <3> SUFFICES ASSUME q.head = 0 PROVE ReadFromHead(q) = q.bytes
      OBVIOUS
    <3>1. \A i \in 1 .. Len(q.bytes) : ReadFromHead(q)[i] = q.bytes[i]
      BY <1>1 DEF ReadFromHead, used_space
    <3> QED BY <1>1, <2>3, <3>1, SeqEqual
  <2>5. r \in Queue /\ Len(r.bytes) = Len(q.bytes)
    <3>1. m \in Nat /\ q.head + Len(q.bytes) <= m
      BY <1>1, <2>1
    <3> QED BY <1>1, <2>2, <2>3, <3>1 DEF Queue
  <2>6. free_space(r) = m - Len(q.bytes) - q.head
    BY <2>2, <2>3 DEF free_space, used_space
  <2>7. free_space(r) >= q.capacity /\ free_space(r) \in Nat
    BY <1>1, <2>1, <2>6
  <2>8. ~ResizePartlyRead(q, num) => r.bytes = q.bytes /\ free_space(r) >= num
    BY <1>1, <1>2, <2>1, <2>2, <2>4, <2>6 DEF ResizePartlyRead
  <2>9. num = 1 => free_space(r) >= 1
    BY <1>1, <2>1, <2>6, <2>7
  <2> QED BY <2>5, <2>7, <2>8, <2>9
<1>3. CASE ~NeedsResize(q, num) /\ NeedsMove(q, num)
  <2>1. r = [q EXCEPT !.head = 0]
    BY <1>3 DEF ensure_min_free_space
  <2>2. r = [bytes |-> q.bytes, head |-> 0, capacity |-> q.capacity]
    BY <1>1, <2>1
  <2>3. q.capacity - Len(q.bytes) >= num
    BY <1>3 DEF NeedsMove, used_space
  <2>4. r \in Queue
    BY <1>1, <2>2 DEF Queue
  <2> QED BY <1>1, <2>2, <2>3, <2>4 DEF free_space, used_space
<1>4. CASE ~NeedsResize(q, num) /\ ~NeedsMove(q, num)
  <2>1. r = q
    BY <1>4 DEF ensure_min_free_space
  <2>2. free_space(q) \in Int /\ q.capacity - Len(q.bytes) \in Int /\ free_space(q) >= 0
    BY <1>1 DEF free_space, used_space
  <2>3. free_space(q) >= num
    BY <1>4, <2>2 DEF NeedsResize, NeedsMove, used_space
  <2> QED BY <1>1, <2>1, <2>2, <2>3
<1> QED BY <1>2, <1>3, <1>4

(* Writing what there is room for appends it. *)
LEMMA WritesAppend ==
    ASSUME NEW q \in Queue, NEW b \in Seq(Int), Len(b) <= free_space(q)
    PROVE  end_write(q, b) \in Queue /\ end_write(q, b).bytes = q.bytes \o b
<1>1. PICK x \in Seq(Int), h \in Nat, c \in Nat :
         q = [bytes |-> x, head |-> h, capacity |-> c] /\ h + Len(x) <= c
  BY DEF Queue
<1>2. PICK y : y = x \o b
  OBVIOUS
<1>3. y \in Seq(Int) /\ Len(y) = Len(x) + Len(b) /\ Len(b) \in Nat /\ Len(x) \in Nat
  BY <1>2
<1>4. h + Len(y) <= c
  BY <1>1, <1>3 DEF free_space, used_space
<1>5. q.bytes = x
  BY <1>1
<1>6. end_write(q, b) = [q EXCEPT !.bytes = y]
  BY <1>2, <1>5 DEF end_write
<1>7. [q EXCEPT !.bytes = y] = [bytes |-> y, head |-> h, capacity |-> c]
  BY <1>1
<1>8. [bytes |-> y, head |-> h, capacity |-> c] \in Queue
  BY <1>3, <1>4 DEF Queue
<1> QED BY <1>2, <1>5, <1>6, <1>7, <1>8

(* Reading takes bytes from the front. *)
LEMMA ReadsTake ==
    ASSUME NEW q \in Queue, NEW n \in 0 .. Len(q.bytes)
    PROVE  /\ end_read(q, n) \in Queue
           /\ end_read(q, n).bytes = SubSeq(q.bytes, n + 1, Len(q.bytes))
<1>1. PICK x \in Seq(Int), h \in Nat, c \in Nat :
         q = [bytes |-> x, head |-> h, capacity |-> c] /\ h + Len(x) <= c
  BY DEF Queue
<1>2. Len(x) \in Nat /\ n \in 0 .. Len(x)
  BY <1>1
<1>3. PICK y : y = SubSeq(x, n + 1, Len(x))
  OBVIOUS
<1>4. y \in Seq(Int) /\ Len(y) = Len(x) - n
  <2>1. \A i \in n + 1 .. Len(x) : x[i] \in Int
    BY <1>2
  <2>2. n + 1 \in Int /\ Len(x) \in Int
    BY <1>2
  <2> QED BY <1>2, <1>3, <2>1, <2>2, SubSeqProperties
<1>5. q.bytes = x /\ q.head = h
  BY <1>1
<1>6. end_read(q, n) = [q EXCEPT !.head = h + n, !.bytes = y]
  BY <1>3, <1>5 DEF end_read
<1>7. [q EXCEPT !.head = h + n, !.bytes = y] = [bytes |-> y, head |-> h + n, capacity |-> c]
  <2>1. PICK i : i = h + n
    OBVIOUS
  <2>2. PICK p : p = [q EXCEPT !.head = i]
    OBVIOUS
  <2>3. p = [bytes |-> x, head |-> i, capacity |-> c]
    BY <1>1, <2>2
  <2>4. [q EXCEPT !.head = i, !.bytes = y] = [p EXCEPT !.bytes = y]
    BY <2>2
  <2>5. [p EXCEPT !.bytes = y] = [bytes |-> y, head |-> i, capacity |-> c]
    BY <2>3
  <2> QED BY <2>1, <2>4, <2>5
<1>8. [bytes |-> y, head |-> h + n, capacity |-> c] \in Queue
  BY <1>1, <1>2, <1>4 DEF Queue
<1> QED BY <1>3, <1>5, <1>6, <1>7, <1>8

(* Cutting a sequence in two *)
LEMMA CutInTwo ==
    ASSUME NEW b \in Seq(Int), NEW n \in 0 .. Len(b)
    PROVE  /\ SubSeq(b, 1, n) \in Seq(Int) /\ Len(SubSeq(b, 1, n)) = n
           /\ SubSeq(b, n + 1, Len(b)) \in Seq(Int)
           /\ SubSeq(b, 1, n) \o SubSeq(b, n + 1, Len(b)) = b
<1>1. Len(b) \in Nat
  OBVIOUS
<1>2. SubSeq(b, 1, n) \o SubSeq(b, n + 1, Len(b)) = SubSeq(b, 1, Len(b))
  <2>1. 1 \in 1 .. Len(b) + 1 /\ n \in 1 - 1 .. Len(b) /\ Len(b) \in n .. Len(b)
    BY <1>1
  <2> QED BY <2>1, ConcatAdjacentSubSeq
<1>3. SubSeq(b, 1, Len(b)) = b
  BY SubSeqFull
<1>4. SubSeq(b, 1, n) \in Seq(Int) /\ Len(SubSeq(b, 1, n)) = n
  <2>1. \A i \in 1 .. n : b[i] \in Int
    BY <1>1
  <2>2. 1 \in Int /\ n \in Int
    BY <1>1
  <2> QED BY <1>1, <2>1, <2>2, SubSeqProperties
<1>5. SubSeq(b, n + 1, Len(b)) \in Seq(Int)
  <2>1. \A i \in n + 1 .. Len(b) : b[i] \in Int
    BY <1>1
  <2>2. n + 1 \in Int /\ Len(b) \in Int
    BY <1>1
  <2> QED BY <2>1, <2>2, SubSeqProperties
<1> QED BY <1>2, <1>3, <1>4, <1>5, Zenon
-----------------------------------------------------------------------------
(* The types of the client table, the connections and their histories *)
AloneSlots == 0 .. MaxClients - 1

ClientStates == {"FREE", "USED", "HANGUP"}

LinkStates == {"none", "open", "closed"}

AloneRecord == [state : ClientStates, gen : Int, fd : Links \cup {0},
                event_data : BOOLEAN, event_disconnect : BOOLEAN,
                input : Queue, output : Queue]

LinkRecord == [state : LinkStates, sent : Nat, pending : Seq(Int),
               fin : BOOLEAN, rst : BOOLEAN, got : Seq(Int)]

StoryRecord == [received : Seq(Int), written : Nat, fresh : BOOLEAN,
                left : BOOLEAN, regrown : BOOLEAN, spilled : BOOLEAN]

PollRecord == [pc : {"idle", "input", "output"}, slot : AloneSlots \cup {0},
               revents : SUBSET {"IN", "HUP", "OUT"}, moved : BOOLEAN]

ClientTypes ==
    /\ alone \in [AloneSlots -> AloneRecord]
    /\ link \in [Links -> LinkRecord]
    /\ story \in [Links -> StoryRecord]
    /\ polling \in PollRecord
    /\ aborted \in BOOLEAN

(* Structures in use and open connections correspond, and nothing has      *)
(* happened on a connection before it was opened.                          *)
LinksOwned ==
    /\ \A s \in Connected : alone[s].fd \in Links /\ link[alone[s].fd].state = "open"
    /\ \A s, t \in Connected : alone[s].fd = alone[t].fd => s = t
    /\ \A c \in Links : link[c].state = "none" => link[c] = NewLink /\ story[c] = NewStory

(* The caller has one handle for each connection.  As long as no generation*)
(* spilled into an index, it reaches that connection's structure.          *)
HandlesReach ==
    /\ \A k \in held : k.conn \in Links /\ link[k.conn].state # "none"
    /\ \A j, k \in held : j.conn = k.conn => j = k
    /\ ~Spilled => \A k \in held : InUse(k.handle) /\ alone[SlotOf(k.handle)].fd = k.conn

(* What tcp_client_poll knows of the client it was called for.             *)
PollKnows ==
    /\ polling.pc # "idle" =>
          /\ polling.slot \in Connected
          /\ "OUT" \in polling.revents => alone[polling.slot].output.bytes # <<>>
    /\ polling.pc = "input" =>
          /\ ~alone[polling.slot].event_data /\ ~alone[polling.slot].event_disconnect
          /\ polling.moved => polling.revents \cap {"IN", "HUP"} # {}
          /\ ~aborted

(* The poll that is under way has received bytes of client s. *)
HasMoved(s) == polling.pc = "input" /\ polling.slot = s /\ polling.moved

(* The bytes of a connection, as far as they came, are numbered on; and    *)
(* unless it was reset, all that were sent came.                           *)
Counted(in, l) ==
    /\ \A i \in DOMAIN in : in[i] = i
    /\ ~l.rst => Len(in) = l.sent

(* Of a client a, its connection l and its history st: bytes the caller    *)
(* was not told of, the DISCONNECT, and the bytes                          *)
FreshKnown(a, l, st, moved) ==
    st.fresh => a.event_data \/ (a.state = "HANGUP" /\ l.rst) \/ moved
LostKnown(a, st) == a.state = "HANGUP" <=> (a.event_disconnect \/ st.left)
BytesKnown(a, l, st) ==
    ~st.regrown => Counted(st.received \o a.input.bytes \o l.pending, l)

CallerKnows ==
    \A s \in Connected :
        LET a == alone[s]
            l == link[a.fd]
            st == story[a.fd]
        IN  FreshKnown(a, l, st, HasMoved(s)) /\ LostKnown(a, st) /\ BytesKnown(a, l, st)

AbortKnown ==
    aborted /\ ~Spilled =>
        \E s \in Connected : alone[s].state = "HANGUP" /\ used_space(alone[s].output) > 0

ClientInv ==
    /\ ClientTypes /\ LinksOwned /\ HandlesReach /\ PollKnows
    /\ CallerKnows /\ AbortKnown
-----------------------------------------------------------------------------
(* The invariant gives the properties the run checks. *)
LEMMA ClientInvTold == ClientInv => ClientTold /\ ClientAborts
<1> SUFFICES ASSUME ClientInv PROVE ClientTold /\ ClientAborts
  OBVIOUS
<1>1. ASSUME NEW s \in Connected
      PROVE  LET c == alone[s].fd
                 in == story[c].received \o alone[s].input.bytes \o link[c].pending
                 lost == alone[s].state = "HANGUP"
             IN  /\ polling.pc = "idle" /\ story[c].fresh =>
                       alone[s].event_data \/ (lost /\ link[c].rst)
                 /\ lost <=> (alone[s].event_disconnect \/ story[c].left)
                 /\ ~story[c].regrown => \A i \in DOMAIN in : in[i] = i
  <2>1. /\ FreshKnown(alone[s], link[alone[s].fd], story[alone[s].fd], HasMoved(s))
        /\ LostKnown(alone[s], story[alone[s].fd])
        /\ BytesKnown(alone[s], link[alone[s].fd], story[alone[s].fd])
    BY DEF ClientInv, CallerKnows
  <2>2. polling.pc = "idle" => ~HasMoved(s)
    BY DEF HasMoved
  <2> QED BY <2>1, <2>2 DEF FreshKnown, LostKnown, BytesKnown, Counted
<1>2. ClientAborts
  BY DEF ClientInv, AbortKnown, HandlesReach, ClientAborts
<1> QED BY <1>1, <1>2 DEF ClientTold

(* A step on one open connection, which takes and frees no structure: it   *)
(* is enough to look at that connection and at what the poll knows.        *)
LEMMA OneConnection ==
    ASSUME ClientInv, NEW c \in Links, link[c].state = "open",
           ClientTypes', PollKnows', held' = held, ~aborted, ~aborted',
           \A t \in AloneSlots : /\ alone'[t].fd = alone[t].fd
                                 /\ alone'[t].state = "FREE" <=> alone[t].state = "FREE",
           \A t \in Connected : alone[t].fd # c =>
               alone'[t] = alone[t] /\ (HasMoved(t) => HasMoved(t)'),
           \A d \in Links : d # c => link'[d] = link[d] /\ story'[d] = story[d],
           link'[c].state = "open", story'[c].spilled = story[c].spilled,
           \A t \in Connected : alone[t].fd = c =>
               /\ FreshKnown(alone'[t], link'[c], story'[c], HasMoved(t)')
               /\ LostKnown(alone'[t], story'[c])
               /\ BytesKnown(alone'[t], link'[c], story'[c])
    PROVE  ClientInv'
<1>1. Connected' = Connected /\ Connected \subseteq AloneSlots
  <2>1. DOMAIN alone' = AloneSlots /\ DOMAIN alone = AloneSlots
    BY DEF ClientInv, ClientTypes
  <2> QED BY <2>1 DEF Connected
<1>2. LinksOwned'
  <2>1. \A s \in Connected : alone'[s].fd \in Links /\ link'[alone'[s].fd].state = "open"
    BY <1>1 DEF ClientInv, LinksOwned
  <2>2. \A s, t \in Connected : alone'[s].fd = alone'[t].fd => s = t
    BY <1>1 DEF ClientInv, LinksOwned
  <2>3. \A d \in Links : link'[d].state = "none" => link'[d] = NewLink /\ story'[d] = NewStory
    BY DEF ClientInv, LinksOwned
  <2> QED BY <1>1, <2>1, <2>2, <2>3 DEF LinksOwned, NewLink, NewStory
<1>3. Spilled' <=> Spilled
  <2>1. \A d \in Links : story'[d].spilled = story[d].spilled
    OBVIOUS
  <2> QED BY <2>1 DEF Spilled
<1>4. HandlesReach'
  <2>1. \A k \in held : k.conn \in Links /\ link'[k.conn].state # "none"
    BY DEF ClientInv, HandlesReach
  <2>2. \A j, k \in held : j.conn = k.conn => j = k
    BY DEF ClientInv, HandlesReach
  <2>3. ASSUME ~Spilled, NEW k \in held
        PROVE  InUse(k.handle)' /\ alone'[SlotOf(k.handle)].fd = k.conn
    <3>1. InUse(k.handle) /\ alone[SlotOf(k.handle)].fd = k.conn
      BY <2>3 DEF ClientInv, HandlesReach
    <3>2. DOMAIN alone' = AloneSlots /\ DOMAIN alone = AloneSlots
      BY DEF ClientInv, ClientTypes
    <3>3. SlotOf(k.handle) \in AloneSlots
      BY <3>1, <3>2 DEF InUse
    <3> QED BY <3>1, <3>2, <3>3 DEF InUse
  <2>4. \A k \in held : SlotOf(k.handle)' = SlotOf(k.handle)
    BY DEF SlotOf, IndexOf, GEN_UPPER_BOUND
  <2> QED BY <1>3, <2>1, <2>2, <2>3, <2>4 DEF HandlesReach
<1>5. CallerKnows'
  <2> SUFFICES ASSUME NEW s \in Connected
               PROVE  /\ FreshKnown(alone'[s], link'[alone'[s].fd], story'[alone'[s].fd],
                                     HasMoved(s)')
                      /\ LostKnown(alone'[s], story'[alone'[s].fd])
                      /\ BytesKnown(alone'[s], link'[alone'[s].fd], story'[alone'[s].fd])
    BY <1>1 DEF CallerKnows, FreshKnown, LostKnown, BytesKnown, Counted
  <2>1. /\ FreshKnown(alone[s], link[alone[s].fd], story[alone[s].fd], HasMoved(s))
        /\ LostKnown(alone[s], story[alone[s].fd])
        /\ BytesKnown(alone[s], link[alone[s].fd], story[alone[s].fd])
    BY DEF ClientInv, CallerKnows
  <2>2. CASE alone[s].fd = c
    BY <1>1, <2>2
  <2>3. CASE alone[s].fd # c
    <3>1. alone[s].fd \in Links
      BY DEF ClientInv, LinksOwned
    <3>2. /\ alone'[s] = alone[s] /\ link'[alone[s].fd] = link[alone[s].fd]
          /\ story'[alone[s].fd] = story[alone[s].fd] /\ (HasMoved(s) => HasMoved(s)')
      BY <2>3, <3>1
    <3> QED BY <2>1, <3>2 DEF FreshKnown
  <2> QED BY <2>2, <2>3
<1>6. AbortKnown'
  BY DEF AbortKnown
<1> QED BY <1>2, <1>4, <1>5, <1>6 DEF ClientInv
-----------------------------------------------------------------------------
(* The next number at the end of a counted sequence *)
LEMMA NextIsCounted ==
    ASSUME NEW x \in Seq(Int), NEW y \in Seq(Int), NEW n \in Nat, Len(x \o y) = n,
           \A i \in DOMAIN (x \o y) : (x \o y)[i] = i
    PROVE  /\ \A i \in DOMAIN (x \o Append(y, n + 1)) : (x \o Append(y, n + 1))[i] = i
           /\ Len(x \o Append(y, n + 1)) = n + 1
<1>1. Len(x) \in Nat /\ Len(y) \in Nat /\ n = Len(x) + Len(y)
  OBVIOUS
<1>2. Append(y, n + 1) \in Seq(Int) /\ Len(Append(y, n + 1)) = Len(y) + 1
  BY <1>1
<1>3. Len(x \o Append(y, n + 1)) = n + 1 /\ DOMAIN (x \o Append(y, n + 1)) = 1 .. n + 1
  BY <1>1, <1>2
<1>4. ASSUME NEW i \in 1 .. n + 1 PROVE (x \o Append(y, n + 1))[i] = i
  <2>1. CASE i <= Len(x)
    <3>1. (x \o y)[i] = x[i] /\ (x \o Append(y, n + 1))[i] = x[i] /\ i \in DOMAIN (x \o y)
      BY <1>1, <1>2, <2>1
    <3> QED BY <3>1
  <2>2. CASE i > Len(x) /\ i <= n
    <3>1. /\ (x \o y)[i] = y[i - Len(x)] /\ i \in DOMAIN (x \o y)
          /\ (x \o Append(y, n + 1))[i] = Append(y, n + 1)[i - Len(x)]
      BY <1>1, <1>2, <2>2
    <3>2. Append(y, n + 1)[i - Len(x)] = y[i - Len(x)]
      BY <1>1, <2>2
    <3> QED BY <3>1, <3>2
  <2>3. CASE i = n + 1
    <3>1. (x \o Append(y, n + 1))[i] = Append(y, n + 1)[i - Len(x)]
      BY <1>1, <1>2, <2>3
    <3>2. i - Len(x) = Len(y) + 1
      BY <1>1, <2>3
    <3> QED BY <2>3, <3>1, <3>2
  <2> QED BY <1>1, <2>1, <2>2, <2>3
<1> QED BY <1>3, <1>4

(* The front of a counted sequence is counted. *)
LEMMA FrontIsCounted ==
    ASSUME NEW x \in Seq(Int), NEW y \in Seq(Int), \A i \in DOMAIN (x \o y) : (x \o y)[i] = i
    PROVE  \A i \in DOMAIN (x \o <<>>) : (x \o <<>>)[i] = i
<1>1. x \o <<>> = x
  BY ConcatEmptySeq
<1>2. \A i \in DOMAIN x : (x \o y)[i] = x[i] /\ i \in DOMAIN (x \o y)
  OBVIOUS
<1> QED BY <1>1, <1>2

(* The fields of a client that is there, of its connection and its history *)
LEMMA ClientFields ==
    ASSUME ClientInv, NEW s \in Connected
    PROVE  /\ s \in AloneSlots
           /\ alone[s] \in AloneRecord /\ alone[s].fd \in Links
           /\ link[alone[s].fd] \in LinkRecord /\ link[alone[s].fd].state = "open"
           /\ story[alone[s].fd] \in StoryRecord
           /\ \A t \in Connected : alone[t].fd = alone[s].fd => t = s
           /\ FreshKnown(alone[s], link[alone[s].fd], story[alone[s].fd], HasMoved(s))
           /\ LostKnown(alone[s], story[alone[s].fd])
           /\ BytesKnown(alone[s], link[alone[s].fd], story[alone[s].fd])
<1>1. s \in AloneSlots /\ alone[s] \in AloneRecord
  BY DEF ClientInv, ClientTypes, Connected
<1>2. alone[s].fd \in Links /\ link[alone[s].fd].state = "open"
  BY DEF ClientInv, LinksOwned
<1>3. link[alone[s].fd] \in LinkRecord /\ story[alone[s].fd] \in StoryRecord
  BY <1>2 DEF ClientInv, ClientTypes
<1> QED BY <1>1, <1>2, <1>3 DEF ClientInv, LinksOwned, CallerKnows

(* What the peers do keeps the invariant. *)
LEMMA PeerKeepsInv ==
    ASSUME ClientInv, NEW c \in Links, PeerActs(c)
    PROVE  ClientInv'
<1>1. PICK l : l = link[c]
  OBVIOUS
<1>2. link \in [Links -> LinkRecord] /\ l \in LinkRecord /\ l.state = "open" /\ ~aborted /\ ~l.rst
  BY <1>1 DEF ClientInv, ClientTypes, PeerActs
<1>3. UNCHANGED <<alone, held, polling, story, aborted>>
  BY DEF PeerActs
<1>4. /\ link' \in [Links -> LinkRecord]
      /\ \A d \in Links : d # c => link'[d] = link[d]
      /\ link'[c].state = "open"
      /\ \/ /\ link'[c].sent = l.sent + 1 /\ link'[c].pending = Append(l.pending, l.sent + 1)
            /\ ~link'[c].rst
         \/ link'[c].sent = l.sent /\ link'[c].pending = l.pending /\ ~link'[c].rst
         \/ link'[c].rst /\ link'[c].pending \in {l.pending, <<>>}
  <2>1. CASE link' = [link EXCEPT ![c].sent = @ + 1, ![c].pending = Append(@, link[c].sent + 1)]
    <3>1. link'[c] = [l EXCEPT !.sent = l.sent + 1, !.pending = Append(l.pending, l.sent + 1)]
      BY <1>1, <1>2, <2>1
    <3>2. PICK n, p : n = l.sent + 1 /\ p = Append(l.pending, l.sent + 1)
      OBVIOUS
    <3>3. n \in Nat /\ p \in Seq(Int)
      BY <1>2, <3>2 DEF LinkRecord
    <3>4. link'[c] = [l EXCEPT !.sent = n, !.pending = p]
      BY <3>1, <3>2
    <3>5. /\ link'[c] \in LinkRecord /\ link'[c].state = "open" /\ ~link'[c].rst
          /\ link'[c].sent = n /\ link'[c].pending = p
      BY <1>2, <3>3, <3>4 DEF LinkRecord
    <3> QED BY <1>2, <2>1, <3>2, <3>5
  <2>2. CASE link' = [link EXCEPT ![c].fin = TRUE]
    <3>1. link'[c] = [l EXCEPT !.fin = TRUE]
      BY <1>1, <1>2, <2>2
    <3>2. /\ link'[c] \in LinkRecord /\ link'[c].state = "open" /\ ~link'[c].rst
          /\ link'[c].sent = l.sent /\ link'[c].pending = l.pending
      BY <1>2, <3>1 DEF LinkRecord
    <3> QED BY <1>2, <2>2, <3>2
  <2>3. ASSUME NEW left \in {link[c].pending, <<>>},
               link' = [link EXCEPT ![c].rst = TRUE, ![c].pending = left]
        PROVE  <1>4!1 /\ <1>4!2 /\ <1>4!3 /\ link'[c].rst /\ link'[c].pending \in {l.pending, <<>>}
    <3>1. link'[c] = [l EXCEPT !.rst = TRUE, !.pending = left]
      BY <1>1, <1>2, <2>3
    <3>2. left \in Seq(Int) /\ left \in {l.pending, <<>>}
      BY <1>1, <1>2, <2>3 DEF LinkRecord
    <3>3. /\ link'[c] \in LinkRecord /\ link'[c].state = "open" /\ link'[c].rst
          /\ link'[c].pending = left
      BY <1>2, <3>1, <3>2 DEF LinkRecord
    <3> QED BY <1>2, <2>3, <3>2, <3>3
  <2> QED BY <2>1, <2>2, <2>3 DEF PeerActs
<1>5. ClientTypes'
  BY <1>3, <1>4 DEF ClientInv, ClientTypes
<1>6. PollKnows'
  BY <1>3 DEF ClientInv, PollKnows, Connected
<1>7. \A t \in Connected : HasMoved(t)' <=> HasMoved(t)
  BY <1>3 DEF HasMoved
<1>8. ASSUME NEW t \in Connected, alone[t].fd = c
      PROVE  /\ FreshKnown(alone'[t], link'[c], story'[c], HasMoved(t)')
             /\ LostKnown(alone'[t], story'[c])
             /\ BytesKnown(alone'[t], link'[c], story'[c])
  <2>1. /\ FreshKnown(alone[t], l, story[c], HasMoved(t))
        /\ LostKnown(alone[t], story[c]) /\ BytesKnown(alone[t], l, story[c])
        /\ alone[t] \in AloneRecord /\ story[c] \in StoryRecord
    BY <1>1, <1>8, ClientFields
  <2>2. FreshKnown(alone'[t], link'[c], story'[c], HasMoved(t)') /\ LostKnown(alone'[t], story'[c])
    BY <1>2, <1>3, <1>7, <2>1 DEF FreshKnown, LostKnown
  <2>3. ASSUME ~story[c].regrown
        PROVE  Counted(story[c].received \o alone[t].input.bytes \o link'[c].pending, link'[c])
    <3>1. PICK x : x = story[c].received \o alone[t].input.bytes
      OBVIOUS
    <3>2. x \in Seq(Int) /\ l.pending \in Seq(Int) /\ l.sent \in Nat
      <4>1. story[c].received \in Seq(Int) /\ alone[t].input \in Queue
        BY <2>1 DEF AloneRecord, StoryRecord
      <4>2. alone[t].input.bytes \in Seq(Int)
        BY <4>1 DEF Queue
      <4> QED BY <1>2, <3>1, <4>1, <4>2 DEF LinkRecord
    <3>3. /\ \A i \in DOMAIN (x \o l.pending) : (x \o l.pending)[i] = i
          /\ Len(x \o l.pending) = l.sent
      BY <1>2, <2>1, <2>3, <3>1 DEF BytesKnown, Counted
    <3>4. CASE /\ link'[c].sent = l.sent + 1 /\ link'[c].pending = Append(l.pending, l.sent + 1)
               /\ ~link'[c].rst
      <4>1. /\ \A i \in DOMAIN (x \o Append(l.pending, l.sent + 1)) :
                  (x \o Append(l.pending, l.sent + 1))[i] = i
            /\ Len(x \o Append(l.pending, l.sent + 1)) = l.sent + 1
        BY <3>2, <3>3, NextIsCounted
      <4> QED BY <3>1, <3>4, <4>1 DEF Counted
    <3>5. CASE link'[c].sent = l.sent /\ link'[c].pending = l.pending /\ ~link'[c].rst
      BY <3>1, <3>3, <3>5 DEF Counted
    <3>6. CASE link'[c].rst /\ link'[c].pending \in {l.pending, <<>>}
      BY <3>1, <3>2, <3>3, <3>6, FrontIsCounted DEF Counted
    <3> QED BY <1>4, <3>4, <3>5, <3>6
  <2> QED BY <1>3, <2>2, <2>3 DEF BytesKnown
<1>9. \A t \in AloneSlots : /\ alone'[t].fd = alone[t].fd
                            /\ alone'[t].state = "FREE" <=> alone[t].state = "FREE"
  BY <1>3
<1> QED BY <1>1, <1>2, <1>3, <1>4, <1>5, <1>6, <1>7, <1>8, <1>9, OneConnection
-----------------------------------------------------------------------------
(* A step on one client: what has to be shown of its structure a, its      *)
(* connection l and its history st afterwards                              *)
LEMMA OneClient ==
    ASSUME ClientInv, NEW s \in Connected, NEW c, c = alone[s].fd,
           ~aborted, aborted' = aborted, held' = held,
           NEW a \in AloneRecord, NEW l \in LinkRecord, NEW st \in StoryRecord,
           alone' = [alone EXCEPT ![s] = a],
           link' = [link EXCEPT ![c] = l],
           story' = [story EXCEPT ![c] = st],
           a.fd = c, a.state # "FREE", l.state = "open", st.spilled = story[c].spilled,
           polling' \in PollRecord, polling.pc = "idle" \/ polling.slot = s,
           polling'.pc # "idle" =>
               polling'.slot = s /\ ("OUT" \in polling'.revents => a.output.bytes # <<>>),
           polling'.pc = "input" =>
               /\ ~a.event_data /\ ~a.event_disconnect
               /\ polling'.moved => polling'.revents \cap {"IN", "HUP"} # {},
           st.fresh => \/ a.event_data \/ (a.state = "HANGUP" /\ l.rst)
                       \/ (polling'.pc = "input" /\ polling'.moved),
           LostKnown(a, st), BytesKnown(a, l, st)
    PROVE  ClientInv'
<1>1. /\ s \in AloneSlots /\ c \in Links /\ link[c].state = "open"
      /\ \A t \in Connected : alone[t].fd = c => t = s
  BY ClientFields
<1>2. /\ alone \in [AloneSlots -> AloneRecord] /\ link \in [Links -> LinkRecord]
      /\ story \in [Links -> StoryRecord] /\ Connected \subseteq AloneSlots
      /\ alone[s].state # "FREE"
  BY DEF ClientInv, ClientTypes, Connected
<1>3. ClientTypes'
  BY <1>1, <1>2 DEF ClientInv, ClientTypes
<1>4. alone'[s] = a /\ link'[c] = l /\ story'[c] = st
  BY <1>1, <1>2
<1>5. \A t \in AloneSlots : /\ alone'[t].fd = alone[t].fd
                            /\ alone'[t].state = "FREE" <=> alone[t].state = "FREE"
  BY <1>1, <1>2, <1>4
<1>6. s \in Connected'
  BY <1>1, <1>2, <1>4 DEF Connected
<1>7. PollKnows'
  BY <1>4, <1>6 DEF PollKnows
<1>8. \A t \in Connected : alone[t].fd # c =>
         alone'[t] = alone[t] /\ (HasMoved(t) => HasMoved(t)')
  <2> SUFFICES ASSUME NEW t \in Connected, alone[t].fd # c
               PROVE  alone'[t] = alone[t] /\ ~HasMoved(t)
    OBVIOUS
  <2> QED BY <1>1, <1>2 DEF HasMoved
<1>9. \A d \in Links : d # c => link'[d] = link[d] /\ story'[d] = story[d]
  BY <1>2
<1>10. ASSUME NEW t \in Connected, alone[t].fd = c
       PROVE  /\ FreshKnown(alone'[t], link'[c], story'[c], HasMoved(t)')
              /\ LostKnown(alone'[t], story'[c])
              /\ BytesKnown(alone'[t], link'[c], story'[c])
  <2>1. t = s
    BY <1>1, <1>10
  <2>2. polling'.pc = "input" /\ polling'.moved => HasMoved(s)'
    BY DEF HasMoved
  <2> QED BY <1>4, <2>1, <2>2 DEF FreshKnown
<1> QED BY <1>1, <1>3, <1>4, <1>5, <1>7, <1>8, <1>9, <1>10, OneConnection

(* The handle of a client in use reaches a structure. *)
LEMMA InUseConnected ==
    ASSUME NEW h, InUse(h)
    PROVE  SlotOf(h) \in Connected
  BY DEF InUse, Connected

(* Taking an event keeps the invariant. *)
LEMMA EventKeepsInv ==
    ASSUME ClientInv, NEW h, tcp_client_event(h)
    PROVE  ClientInv'
<1>1. PICK s : s = SlotOf(h)
  OBVIOUS
<1>2. s \in Connected
  BY <1>1, InUseConnected DEF tcp_client_event
<1>3. PICK a0, c : a0 = alone[s] /\ c = alone[s].fd
  OBVIOUS
<1>4. PICK l, st0 : l = link[c] /\ st0 = story[c]
  OBVIOUS
<1>5. /\ a0 \in AloneRecord /\ a0.fd = c /\ c \in Links /\ l \in LinkRecord /\ st0 \in StoryRecord
      /\ a0.state # "FREE" /\ l.state = "open"
      /\ FreshKnown(a0, l, st0, HasMoved(s)) /\ LostKnown(a0, st0) /\ BytesKnown(a0, l, st0)
      /\ s \in AloneSlots
  BY <1>2, <1>3, <1>4, ClientFields DEF Connected
<1>6. /\ alone \in [AloneSlots -> AloneRecord] /\ link \in [Links -> LinkRecord]
      /\ story \in [Links -> StoryRecord] /\ polling \in PollRecord
  BY DEF ClientInv, ClientTypes
<1>7. /\ polling.pc = "idle" /\ ~aborted /\ UNCHANGED <<link, held, polling, aborted>>
      /\ \/ /\ alone' = [alone EXCEPT ![s].event_data = FALSE]
            /\ story' = [story EXCEPT ![c].fresh = FALSE]
            /\ a0.event_data
         \/ /\ alone' = [alone EXCEPT ![s].event_disconnect = FALSE]
            /\ story' = [story EXCEPT ![c].left = TRUE]
            /\ a0.event_disconnect /\ ~a0.event_data
  BY <1>1, <1>3 DEF tcp_client_event, Calling
<1>8. link' = [link EXCEPT ![c] = l]
  BY <1>4, <1>6, <1>7
<1>9. CASE /\ alone' = [alone EXCEPT ![s].event_data = FALSE]
           /\ story' = [story EXCEPT ![c].fresh = FALSE]
  <2>1. PICK a, st : a = [a0 EXCEPT !.event_data = FALSE] /\ st = [st0 EXCEPT !.fresh = FALSE]
    OBVIOUS
  <2>2. alone' = [alone EXCEPT ![s] = a] /\ story' = [story EXCEPT ![c] = st]
    BY <1>3, <1>4, <1>9, <2>1
  <2>3. /\ a \in AloneRecord /\ a.fd = c /\ a.state = a0.state
        /\ a.event_disconnect = a0.event_disconnect /\ a.input = a0.input
    BY <1>5, <2>1 DEF AloneRecord
  <2>4. /\ st \in StoryRecord /\ ~st.fresh /\ st.left = st0.left
        /\ st.regrown = st0.regrown /\ st.received = st0.received /\ st.spilled = st0.spilled
    BY <1>5, <2>1 DEF StoryRecord
  <2>5. LostKnown(a, st) /\ BytesKnown(a, l, st)
    BY <1>5, <2>3, <2>4 DEF LostKnown, BytesKnown
  <2> QED BY <1>2, <1>3, <1>4, <1>5, <1>6, <1>7, <1>8, <2>2, <2>3, <2>4, <2>5, OneClient
<1>10. CASE /\ alone' = [alone EXCEPT ![s].event_disconnect = FALSE]
            /\ story' = [story EXCEPT ![c].left = TRUE]
            /\ a0.event_disconnect
  <2>1. PICK a, st : a = [a0 EXCEPT !.event_disconnect = FALSE] /\ st = [st0 EXCEPT !.left = TRUE]
    OBVIOUS
  <2>2. alone' = [alone EXCEPT ![s] = a] /\ story' = [story EXCEPT ![c] = st]
    BY <1>3, <1>4, <1>10, <2>1
  <2>3. /\ a \in AloneRecord /\ a.fd = c /\ a.state = a0.state
        /\ a.event_data = a0.event_data /\ a.input = a0.input
    BY <1>5, <2>1 DEF AloneRecord
  <2>4. /\ st \in StoryRecord /\ st.fresh = st0.fresh /\ st.left
        /\ st.regrown = st0.regrown /\ st.received = st0.received /\ st.spilled = st0.spilled
    BY <1>5, <2>1 DEF StoryRecord
  <2>5. LostKnown(a, st) /\ BytesKnown(a, l, st)
    BY <1>5, <1>10, <2>3, <2>4 DEF LostKnown, BytesKnown
  <2>6. st.fresh => a.event_data \/ (a.state = "HANGUP" /\ l.rst)
    <3>1. ~HasMoved(s)
      BY <1>7 DEF HasMoved
    <3> QED BY <1>5, <2>3, <2>4, <3>1 DEF FreshKnown
  <2> QED BY <1>2, <1>3, <1>4, <1>5, <1>6, <1>7, <1>8, <2>2, <2>3, <2>4, <2>5, <2>6, OneClient
<1> QED BY <1>7, <1>9, <1>10

(* The client a call is about: its structure, connection and history. *)
LEMMA ClientParts ==
    ASSUME ClientInv, NEW s \in Connected
    PROVE  \E a, c, l, st :
             /\ a = alone[s] /\ c = alone[s].fd /\ l = link[c] /\ st = story[c]
             /\ a \in AloneRecord /\ a.fd = c /\ c \in Links /\ s \in AloneSlots
             /\ l \in LinkRecord /\ st \in StoryRecord
             /\ a.state # "FREE" /\ l.state = "open"
             /\ FreshKnown(a, l, st, HasMoved(s)) /\ LostKnown(a, st) /\ BytesKnown(a, l, st)
             /\ alone = [alone EXCEPT ![s] = a] /\ link = [link EXCEPT ![c] = l]
             /\ story = [story EXCEPT ![c] = st]
             /\ a.input \in Queue /\ a.output \in Queue
             /\ a.input.bytes \in Seq(Int) /\ a.output.bytes \in Seq(Int)
             /\ l.pending \in Seq(Int) /\ st.received \in Seq(Int)
<1>1. PICK a, c : a = alone[s] /\ c = alone[s].fd
  OBVIOUS
<1>2. PICK l, st : l = link[c] /\ st = story[c]
  OBVIOUS
<1>3. /\ a \in AloneRecord /\ a.fd = c /\ c \in Links /\ l \in LinkRecord /\ st \in StoryRecord
      /\ a.state # "FREE" /\ l.state = "open"
      /\ FreshKnown(a, l, st, HasMoved(s)) /\ LostKnown(a, st) /\ BytesKnown(a, l, st)
      /\ s \in AloneSlots
  BY <1>1, <1>2, ClientFields DEF Connected
<1>4. /\ alone \in [AloneSlots -> AloneRecord] /\ link \in [Links -> LinkRecord]
      /\ story \in [Links -> StoryRecord]
  BY DEF ClientInv, ClientTypes
<1>5. /\ alone = [alone EXCEPT ![s] = a] /\ link = [link EXCEPT ![c] = l]
      /\ story = [story EXCEPT ![c] = st]
  BY <1>1, <1>2, <1>3, <1>4
<1>6. a.input \in Queue /\ a.output \in Queue
  BY <1>3 DEF AloneRecord
<1>7. a.input.bytes \in Seq(Int) /\ a.output.bytes \in Seq(Int)
  BY <1>6 DEF Queue
<1>8. l.pending \in Seq(Int) /\ st.received \in Seq(Int)
  BY <1>3 DEF LinkRecord, StoryRecord
<1> QED BY <1>1, <1>2, <1>3, <1>5, <1>6, <1>7, <1>8

(* The call of poll keeps the invariant. *)
LEMMA PollKeepsInv ==
    ASSUME ClientInv, NEW h, tcp_client_poll(h), InUse(h)
    PROVE  ClientInv'
<1>1. PICK s : s = SlotOf(h) /\ s \in Connected
  BY InUseConnected
<1>2. PICK a, c, l, st :
             /\ a = alone[s] /\ c = alone[s].fd /\ l = link[c] /\ st = story[c]
             /\ a \in AloneRecord /\ a.fd = c /\ c \in Links /\ s \in AloneSlots
             /\ l \in LinkRecord /\ st \in StoryRecord
             /\ a.state # "FREE" /\ l.state = "open"
             /\ FreshKnown(a, l, st, HasMoved(s)) /\ LostKnown(a, st) /\ BytesKnown(a, l, st)
             /\ alone = [alone EXCEPT ![s] = a] /\ link = [link EXCEPT ![c] = l]
             /\ story = [story EXCEPT ![c] = st]
             /\ a.output.bytes \in Seq(Int)
  BY <1>1, ClientParts
<1>3. /\ polling.pc = "idle" /\ ~aborted /\ UNCHANGED <<alone, link, held, story, aborted>>
      /\ ~a.event_data /\ ~a.event_disconnect
      /\ \E writable \in BOOLEAN :
            polling' = [pc |-> "input", slot |-> s,
                        revents |-> PollFor(a) \cap Reported(link[alone[s].fd], writable),
                        moved |-> FALSE]
  BY <1>1, <1>2 DEF tcp_client_poll, Calling
<1>4. PICK e : /\ e \subseteq PollFor(a)
               /\ polling' = [pc |-> "input", slot |-> s, revents |-> e, moved |-> FALSE]
  BY <1>3
<1>5. e \subseteq {"IN", "HUP", "OUT"} /\ ("OUT" \in e => a.output.bytes # <<>>)
  BY <1>2, <1>4 DEF PollFor, used_space
<1>6. polling' \in PollRecord
  BY <1>2, <1>4, <1>5 DEF PollRecord
<1>7. st.fresh => a.event_data \/ (a.state = "HANGUP" /\ l.rst)
  <2>1. ~HasMoved(s)
    BY <1>3 DEF HasMoved
  <2> QED BY <1>2, <2>1 DEF FreshKnown
<1>8. /\ alone' = [alone EXCEPT ![s] = a] /\ link' = [link EXCEPT ![c] = l]
      /\ story' = [story EXCEPT ![c] = st]
  BY <1>2, <1>3
<1>9. /\ polling'.pc # "idle" =>
           polling'.slot = s /\ ("OUT" \in polling'.revents => a.output.bytes # <<>>)
      /\ polling'.pc = "input" =>
           /\ ~a.event_data /\ ~a.event_disconnect
           /\ polling'.moved => polling'.revents \cap {"IN", "HUP"} # {}
  BY <1>3, <1>4, <1>5
<1>10. /\ s \in Connected /\ c = alone[s].fd /\ ~aborted /\ aborted' = aborted /\ held' = held
       /\ a \in AloneRecord /\ l \in LinkRecord /\ st \in StoryRecord /\ polling.pc = "idle"
       /\ a.fd = c /\ a.state # "FREE" /\ l.state = "open" /\ st.spilled = story[c].spilled
       /\ LostKnown(a, st) /\ BytesKnown(a, l, st)
  BY <1>1, <1>2, <1>3
<1> QED BY <1>6, <1>7, <1>8, <1>9, <1>10, OneClient

(* Concatenation of bytes is associative. *)
LEMMA BytesAssociate ==
    ASSUME NEW x \in Seq(Int), NEW y \in Seq(Int), NEW z \in Seq(Int)
    PROVE  (x \o y) \o z = x \o (y \o z)
  BY ConcatAssociative

(* Reading and receiving move bytes along the stream of a connection.      *)
LEMMA StreamMoves ==
    ASSUME NEW x \in Seq(Int), NEW b \in Seq(Int), NEW p \in Seq(Int), NEW n \in 0 .. Len(p)
    PROVE  /\ x \o (b \o SubSeq(p, 1, n)) \o SubSeq(p, n + 1, Len(p)) = x \o b \o p
           /\ (x \o SubSeq(p, 1, n)) \o SubSeq(p, n + 1, Len(p)) \o b = x \o p \o b
<1>1. PICK u, v : u = SubSeq(p, 1, n) /\ v = SubSeq(p, n + 1, Len(p))
  OBVIOUS
<1>2. u \in Seq(Int) /\ v \in Seq(Int) /\ u \o v = p
  BY <1>1, CutInTwo
<1>3. x \o (b \o u) = (x \o b) \o u /\ x \o b \in Seq(Int)
  <2>1. x \o b \in Seq(Int)
    OBVIOUS
  <2>2. (x \o b) \o u = x \o (b \o u)
    BY <1>2, BytesAssociate, ZenonT(40)
  <2> QED BY <2>1, <2>2
<1>4. ((x \o b) \o u) \o v = (x \o b) \o (u \o v)
  BY <1>2, <1>3, BytesAssociate
<1>5. (x \o u) \o v = x \o (u \o v)
  BY <1>2, BytesAssociate, ZenonT(40)
<1> QED BY <1>1, <1>2, <1>3, <1>4, <1>5

(* tcp_client_read keeps the invariant. *)
LEMMA ReadKeepsInv ==
    ASSUME ClientInv, NEW h, ReadAll(h)
    PROVE  ClientInv'
<1>1. PICK s : s = SlotOf(h) /\ s \in Connected
  BY InUseConnected DEF ReadAll
<1>2. PICK a0, c, l, st0 :
             /\ a0 = alone[s] /\ c = alone[s].fd /\ l = link[c] /\ st0 = story[c]
             /\ a0 \in AloneRecord /\ a0.fd = c /\ c \in Links /\ s \in AloneSlots
             /\ l \in LinkRecord /\ st0 \in StoryRecord
             /\ a0.state # "FREE" /\ l.state = "open"
             /\ FreshKnown(a0, l, st0, HasMoved(s)) /\ LostKnown(a0, st0) /\ BytesKnown(a0, l, st0)
             /\ link = [link EXCEPT ![c] = l]
             /\ a0.input \in Queue /\ a0.input.bytes \in Seq(Int)
             /\ l.pending \in Seq(Int) /\ st0.received \in Seq(Int)
  BY <1>1, ClientParts
<1>3. /\ polling.pc = "idle" /\ ~aborted /\ UNCHANGED <<link, held, polling, aborted>>
      /\ alone' = [alone EXCEPT ![s].input = end_read(a0.input, used_space(a0.input))]
      /\ story' = [story EXCEPT ![c].received = @ \o a0.input.bytes]
  BY <1>1, <1>2 DEF ReadAll, Calling
<1>4. PICK q, r : /\ q = end_read(a0.input, used_space(a0.input))
                  /\ r = st0.received \o a0.input.bytes
  OBVIOUS
<1>5. PICK b, n : b = a0.input.bytes /\ n = Len(a0.input.bytes)
  OBVIOUS
<1>6. q \in Queue /\ r \in Seq(Int) /\ q.bytes = SubSeq(b, n + 1, Len(b)) /\ r = st0.received \o b
  <2>1. n \in 0 .. Len(a0.input.bytes) /\ n = used_space(a0.input)
    BY <1>2, <1>5 DEF used_space
  <2>2. end_read(a0.input, n) \in Queue /\ end_read(a0.input, n).bytes = SubSeq(b, n + 1, Len(b))
    BY <1>2, <1>5, <2>1, ReadsTake
  <2>3. r \in Seq(Int) /\ r = st0.received \o b
    BY <1>2, <1>4, <1>5
  <2> QED BY <1>4, <2>1, <2>2, <2>3
<1>7. PICK a, st : a = [a0 EXCEPT !.input = q] /\ st = [st0 EXCEPT !.received = r]
  BY Zenon
<1>8. alone' = [alone EXCEPT ![s] = a] /\ story' = [story EXCEPT ![c] = st]
  BY <1>2, <1>3, <1>4, <1>7, Zenon
<1>9. /\ a \in AloneRecord /\ a.fd = c /\ a.state = a0.state /\ a.event_data = a0.event_data
      /\ a.event_disconnect = a0.event_disconnect /\ a.input = q
  BY <1>2, <1>6, <1>7, Zenon DEF AloneRecord
<1>10. /\ st \in StoryRecord /\ st.fresh = st0.fresh /\ st.left = st0.left
       /\ st.regrown = st0.regrown /\ st.received = r /\ st.spilled = st0.spilled
  BY <1>2, <1>6, <1>7, Zenon DEF StoryRecord
<1>11. st.received \o a.input.bytes \o l.pending = st0.received \o a0.input.bytes \o l.pending
  <2>1. n \in 0 .. Len(b) /\ SubSeq(b, 1, n) = b
    BY <1>2, <1>5, SubSeqFull
  <2>2. (st0.received \o SubSeq(b, 1, n)) \o SubSeq(b, n + 1, Len(b)) \o l.pending
           = st0.received \o b \o l.pending
    <3>1. st0.received \in Seq(Int) /\ l.pending \in Seq(Int) /\ b \in Seq(Int)
      BY <1>2, <1>5
    <3> QED BY <2>1, <3>1, StreamMoves, Zenon
  <2> QED BY <1>5, <1>6, <1>9, <1>10, <2>1, <2>2
<1>12. LostKnown(a, st) /\ BytesKnown(a, l, st)
  BY <1>2, <1>9, <1>10, <1>11, Zenon DEF LostKnown, BytesKnown
<1>13. st.fresh => a.event_data \/ (a.state = "HANGUP" /\ l.rst)
  <2>1. ~HasMoved(s)
    BY <1>3 DEF HasMoved
  <2> QED BY <1>2, <1>9, <1>10, <2>1 DEF FreshKnown
<1>14. /\ s \in Connected /\ c = alone[s].fd /\ ~aborted /\ aborted' = aborted /\ held' = held
       /\ l \in LinkRecord /\ polling.pc = "idle" /\ polling' = polling /\ polling \in PollRecord
       /\ a.state # "FREE" /\ l.state = "open" /\ st.spilled = story[c].spilled
       /\ link' = [link EXCEPT ![c] = l]
  BY <1>1, <1>2, <1>3, <1>9, <1>10 DEF ClientInv, ClientTypes
<1> QED BY <1>8, <1>9, <1>10, <1>12, <1>13, <1>14, OneClient

(* tcp_client_write keeps the invariant. *)
LEMMA WriteKeepsInv ==
    ASSUME ClientInv, NEW h, WriteByte(h)
    PROVE  ClientInv'
<1>1. PICK s : s = SlotOf(h) /\ s \in Connected
  BY InUseConnected DEF WriteByte
<1>2. PICK a0, c, l, st0 :
             /\ a0 = alone[s] /\ c = alone[s].fd /\ l = link[c] /\ st0 = story[c]
             /\ a0 \in AloneRecord /\ a0.fd = c /\ c \in Links /\ s \in AloneSlots
             /\ l \in LinkRecord /\ st0 \in StoryRecord
             /\ a0.state # "FREE" /\ l.state = "open"
             /\ FreshKnown(a0, l, st0, HasMoved(s)) /\ LostKnown(a0, st0) /\ BytesKnown(a0, l, st0)
             /\ link = [link EXCEPT ![c] = l]
             /\ a0.output \in Queue
  BY <1>1, ClientParts
<1>3. PICK w, q : /\ w = st0.written + 1
                  /\ q = end_write(ensure_min_free_space(a0.output, 1), <<w>>)
  OBVIOUS
<1>4. PICK g \in BOOLEAN : g = (st0.regrown \/ ResizePartlyRead(a0.output, 1))
  OBVIOUS
<1>5. /\ polling.pc = "idle" /\ ~aborted /\ UNCHANGED <<link, held, polling, aborted>>
      /\ alone' = [alone EXCEPT ![s].output = q]
      /\ story' = [story EXCEPT ![c].written = w, ![c].regrown = g]
  BY <1>1, <1>2, <1>3, <1>4 DEF WriteByte, Calling
<1>6. w \in Nat /\ q \in Queue
  <2>1. w \in Nat
    BY <1>2, <1>3 DEF StoryRecord
  <2>2. PICK r : r = ensure_min_free_space(a0.output, 1)
    OBVIOUS
  <2>3. r \in Queue /\ free_space(r) \in Nat /\ free_space(r) >= 1
    BY <1>2, <2>2, RoomIsMade
  <2>4. <<w>> \in Seq(Int) /\ Len(<<w>>) = 1
    BY <2>1
  <2>5. end_write(r, <<w>>) \in Queue
    BY <2>3, <2>4, WritesAppend
  <2> QED BY <1>3, <2>1, <2>2, <2>5
<1>7. PICK a, st : a = [a0 EXCEPT !.output = q] /\ st = [st0 EXCEPT !.written = w, !.regrown = g]
  OBVIOUS
<1>8. alone' = [alone EXCEPT ![s] = a] /\ story' = [story EXCEPT ![c] = st]
  BY <1>2, <1>5, <1>7
<1>9. /\ a \in AloneRecord /\ a.fd = c /\ a.state = a0.state /\ a.event_data = a0.event_data
      /\ a.event_disconnect = a0.event_disconnect /\ a.input = a0.input
  BY <1>2, <1>6, <1>7 DEF AloneRecord
<1>10. /\ st \in StoryRecord /\ st.fresh = st0.fresh /\ st.left = st0.left
       /\ st.regrown = g /\ st.received = st0.received /\ st.spilled = st0.spilled
  BY <1>2, <1>6, <1>7 DEF StoryRecord
<1>11. st0.regrown => st.regrown
  BY <1>2, <1>4, <1>10 DEF StoryRecord
<1>12. LostKnown(a, st) /\ BytesKnown(a, l, st)
  BY <1>2, <1>9, <1>10, <1>11 DEF LostKnown, BytesKnown
<1>13. st.fresh => a.event_data \/ (a.state = "HANGUP" /\ l.rst)
  <2>1. ~HasMoved(s)
    BY <1>5 DEF HasMoved
  <2> QED BY <1>2, <1>9, <1>10, <2>1 DEF FreshKnown
<1>14. /\ s \in Connected /\ c = alone[s].fd /\ ~aborted /\ aborted' = aborted /\ held' = held
       /\ l \in LinkRecord /\ polling.pc = "idle" /\ polling' = polling /\ polling \in PollRecord
       /\ a.state # "FREE" /\ l.state = "open" /\ st.spilled = story[c].spilled
       /\ link' = [link EXCEPT ![c] = l]
  BY <1>1, <1>2, <1>5, <1>9, <1>10 DEF ClientInv, ClientTypes
<1> QED BY <1>8, <1>9, <1>10, <1>12, <1>13, <1>14, OneClient

(* Receiving bytes keeps the invariant. *)
LEMMA ReceiveKeepsInv ==
    ASSUME ClientInv, ClientReceive
    PROVE  ClientInv'
<1>1. PICK s : s = polling.slot /\ s \in Connected
  BY DEF ClientReceive, ClientInv, PollKnows
<1>2. PICK a0, c, l0, st0 :
             /\ a0 = alone[s] /\ c = alone[s].fd /\ l0 = link[c] /\ st0 = story[c]
             /\ a0 \in AloneRecord /\ a0.fd = c /\ c \in Links /\ s \in AloneSlots
             /\ l0 \in LinkRecord /\ st0 \in StoryRecord
             /\ a0.state # "FREE" /\ l0.state = "open"
             /\ LostKnown(a0, st0) /\ BytesKnown(a0, l0, st0)
             /\ a0.input \in Queue /\ a0.input.bytes \in Seq(Int)
             /\ l0.pending \in Seq(Int) /\ st0.received \in Seq(Int)
  BY <1>1, ClientParts
<1>3. PICK q : q = ensure_min_free_space(a0.input, RecvRoom)
  OBVIOUS
<1>4. /\ q \in Queue /\ free_space(q) \in Nat
      /\ ~ResizePartlyRead(a0.input, RecvRoom) => q.bytes = a0.input.bytes
  BY <1>2, <1>3, ClientAssumption, RoomIsMade
<1>5. PICK n : n = Min({free_space(q), Len(l0.pending)})
  OBVIOUS
<1>6. n \in 0 .. Len(l0.pending) /\ n <= free_space(q)
  <2>1. Len(l0.pending) \in Nat
    BY <1>2
  <2>2. PICK i, j : i = free_space(q) /\ j = Len(l0.pending)
    OBVIOUS
  <2>3. i \in Nat /\ j \in Nat
    BY <1>4, <2>1, <2>2
  <2>4. Min({i, j}) \in {i, j} /\ Min({i, j}) <= i /\ Min({i, j}) <= j
    BY <2>3, MinOfTwo
  <2>5. n = Min({i, j})
    BY <1>5, <2>2
  <2>6. n \in {i, j} /\ n <= i /\ n <= j
    BY <2>4, <2>5
  <2> QED BY <2>2, <2>3, <2>6
<1>7. PICK r, p : r = end_write(q, SubSeq(l0.pending, 1, n))
                  /\ p = SubSeq(l0.pending, n + 1, Len(l0.pending))
  OBVIOUS
<1>8. r \in Queue /\ p \in Seq(Int) /\ r.bytes = q.bytes \o SubSeq(l0.pending, 1, n)
  <2>1. /\ SubSeq(l0.pending, 1, n) \in Seq(Int) /\ Len(SubSeq(l0.pending, 1, n)) = n
        /\ SubSeq(l0.pending, n + 1, Len(l0.pending)) \in Seq(Int)
    BY <1>2, <1>6, CutInTwo
  <2> QED BY <1>4, <1>6, <1>7, <2>1, WritesAppend
<1>9. PICK g \in BOOLEAN : g = (st0.regrown \/ ResizePartlyRead(a0.input, RecvRoom))
  BY Zenon
<1>10. /\ polling.pc = "input" /\ polling.revents \cap {"IN", "HUP"} # {}
       /\ UNCHANGED <<held, aborted>>
       /\ alone' = [alone EXCEPT ![s].input = r]
       /\ link' = [link EXCEPT ![c].pending = p]
       /\ story' = [story EXCEPT ![c].fresh = TRUE, ![c].regrown = g]
       /\ polling' = [polling EXCEPT !.moved = TRUE]
  BY <1>1, <1>2, <1>3, <1>5, <1>7, <1>9, Zenon DEF ClientReceive
<1>11. PICK a, l, st : /\ a = [a0 EXCEPT !.input = r] /\ l = [l0 EXCEPT !.pending = p]
                       /\ st = [st0 EXCEPT !.fresh = TRUE, !.regrown = g]
  OBVIOUS
<1>12. /\ alone' = [alone EXCEPT ![s] = a] /\ link' = [link EXCEPT ![c] = l]
       /\ story' = [story EXCEPT ![c] = st]
  BY <1>2, <1>10, <1>11
<1>13. /\ a \in AloneRecord /\ a.fd = c /\ a.state = a0.state /\ a.event_data = a0.event_data
       /\ a.event_disconnect = a0.event_disconnect /\ a.input = r /\ a.output = a0.output
  BY <1>2, <1>8, <1>11 DEF AloneRecord
<1>14. /\ l \in LinkRecord /\ l.state = "open" /\ l.rst = l0.rst /\ l.sent = l0.sent
       /\ l.pending = p
  BY <1>2, <1>8, <1>11 DEF LinkRecord
<1>15. /\ st \in StoryRecord /\ st.left = st0.left
       /\ st.regrown = g /\ st.received = st0.received /\ st.spilled = st0.spilled
  BY <1>2, <1>11 DEF StoryRecord
<1>16. BytesKnown(a, l, st)
  <2> SUFFICES ASSUME ~st.regrown
               PROVE  Counted(st.received \o a.input.bytes \o l.pending, l)
    BY DEF BytesKnown
  <2>1. ~st0.regrown /\ q.bytes = a0.input.bytes
    BY <1>4, <1>9, <1>15
  <2>2. st0.received \o (a0.input.bytes \o SubSeq(l0.pending, 1, n))
           \o SubSeq(l0.pending, n + 1, Len(l0.pending))
           = st0.received \o a0.input.bytes \o l0.pending
    <3>1. /\ st0.received \in Seq(Int) /\ a0.input.bytes \in Seq(Int) /\ l0.pending \in Seq(Int)
          /\ n \in 0 .. Len(l0.pending)
      BY <1>2, <1>6
    <3> QED BY <3>1, StreamMoves, Zenon
  <2>3. st.received \o a.input.bytes \o l.pending = st0.received \o a0.input.bytes \o l0.pending
    BY <1>7, <1>8, <1>13, <1>14, <1>15, <2>1, <2>2
  <2>4. Counted(st0.received \o a0.input.bytes \o l0.pending, l0)
    BY <1>2, <2>1 DEF BytesKnown
  <2> QED BY <1>14, <2>3, <2>4 DEF Counted
<1>17. LostKnown(a, st)
  BY <1>2, <1>13, <1>15 DEF LostKnown
<1>18. /\ polling' \in PollRecord /\ polling'.pc = "input" /\ polling'.slot = s /\ polling'.moved
       /\ polling'.revents = polling.revents
  BY <1>1, <1>10 DEF ClientInv, ClientTypes, PollRecord
<1>19. /\ "OUT" \in polling.revents => a.output.bytes # <<>>
       /\ ~a.event_data /\ ~a.event_disconnect /\ ~aborted
  BY <1>1, <1>2, <1>10, <1>13 DEF ClientInv, PollKnows
<1>20. /\ s \in Connected /\ c = alone[s].fd /\ aborted' = aborted /\ held' = held
       /\ a.state # "FREE" /\ st.spilled = story[c].spilled /\ polling.slot = s
       /\ polling.revents \cap {"IN", "HUP"} # {}
  BY <1>1, <1>2, <1>10, <1>13, <1>15
<1> QED BY <1>12, <1>13, <1>14, <1>15, <1>16, <1>17, <1>18, <1>19, <1>20, OneClient

(* The rest of the input part keeps the invariant. *)
LEMMA InputKeepsInv ==
    ASSUME ClientInv, ClientInput
    PROVE  ClientInv'
<1>1. PICK s : s = polling.slot /\ s \in Connected
  BY Zenon DEF ClientInput, ClientInv, PollKnows
<1>2. PICK a0, c, l, st0 :
             /\ a0 = alone[s] /\ c = alone[s].fd /\ l = link[c] /\ st0 = story[c]
             /\ a0 \in AloneRecord /\ a0.fd = c /\ c \in Links /\ s \in AloneSlots
             /\ l \in LinkRecord /\ st0 \in StoryRecord
             /\ a0.state # "FREE" /\ l.state = "open"
             /\ FreshKnown(a0, l, st0, HasMoved(s))
             /\ LostKnown(a0, st0) /\ BytesKnown(a0, l, st0)
             /\ alone = [alone EXCEPT ![s] = a0] /\ link = [link EXCEPT ![c] = l]
             /\ story = [story EXCEPT ![c] = st0]
             /\ a0.input \in Queue
  BY <1>1, ClientParts
<1>3. /\ polling.pc = "input" /\ UNCHANGED <<link, held, aborted>>
      /\ polling' = [polling EXCEPT !.pc = "output"]
  BY Zenon DEF ClientInput
<1>4. /\ "OUT" \in polling.revents => a0.output.bytes # <<>>
      /\ ~a0.event_data /\ ~a0.event_disconnect /\ ~aborted
      /\ polling.moved => polling.revents \cap {"IN", "HUP"} # {}
      /\ polling \in PollRecord
  BY <1>1, <1>2, <1>3 DEF ClientInv, PollKnows, ClientTypes
<1>5. /\ polling' \in PollRecord /\ polling'.pc = "output" /\ polling'.slot = s
      /\ polling'.revents = polling.revents
  BY <1>1, <1>3, <1>4 DEF PollRecord
<1>6. st0.fresh => (a0.state = "HANGUP" /\ l.rst) \/ polling.moved
  <2>1. HasMoved(s) => polling.moved
    BY DEF HasMoved
  <2> QED BY <1>2, <1>4, <2>1 DEF FreshKnown
<1>7. /\ s \in Connected /\ c = alone[s].fd /\ aborted' = aborted /\ held' = held /\ ~aborted
      /\ polling.slot = s /\ link' = [link EXCEPT ![c] = l] /\ l \in LinkRecord /\ l.state = "open"
  BY <1>1, <1>2, <1>3, <1>4
<1>8. CASE polling.revents \cap {"IN", "HUP"} = {}
  <2>1. alone' = [alone EXCEPT ![s] = a0] /\ story' = [story EXCEPT ![c] = st0]
    BY <1>2, <1>8 DEF ClientInput
  <2>2. /\ a0 \in AloneRecord /\ st0 \in StoryRecord /\ a0.fd = c /\ a0.state # "FREE"
        /\ st0.spilled = story[c].spilled /\ LostKnown(a0, st0) /\ BytesKnown(a0, l, st0)
    BY <1>2
  <2>3. st0.fresh => a0.event_data \/ (a0.state = "HANGUP" /\ l.rst)
    BY <1>4, <1>6, <1>8
  <2> QED BY <1>4, <1>5, <1>7, <2>1, <2>2, <2>3, OneClient
<1>9. CASE polling.revents \cap {"IN", "HUP"} # {}
  <2>1. PICK q, hangup : /\ q = ensure_min_free_space(a0.input, RecvRoom)
                         /\ hangup = (l.rst \/ l.fin)
    OBVIOUS
  <2>2. /\ q \in Queue
        /\ ~ResizePartlyRead(a0.input, RecvRoom) => q.bytes = a0.input.bytes
    BY <1>2, <2>1, ClientAssumption, RoomIsMade
  <2>3. PICK g \in BOOLEAN : g = (st0.regrown \/ ResizePartlyRead(a0.input, RecvRoom))
    OBVIOUS
  <2>4. PICK data \in (IF l.rst THEN BOOLEAN ELSE {polling.moved}) :
           alone' = [alone EXCEPT ![s] =
                       [a0 EXCEPT !.input = q, !.event_data = data, !.event_disconnect = hangup,
                                  !.state = IF hangup THEN "HANGUP" ELSE a0.state]]
    BY <1>1, <1>2, <1>9, <2>1, Zenon DEF ClientInput
  <2>5. story' = [story EXCEPT ![c].regrown = g]
    BY <1>1, <1>2, <1>9, <2>3, Zenon DEF ClientInput
  <2>6. /\ data \in BOOLEAN /\ hangup \in BOOLEAN /\ (l.rst => hangup)
        /\ ~l.rst => data = polling.moved
    BY <1>2, <1>4, <2>1, <2>4 DEF LinkRecord, PollRecord
  <2>7. PICK state : state = IF hangup THEN "HANGUP" ELSE a0.state
    OBVIOUS
  <2>8. PICK a, st : /\ a = [a0 EXCEPT !.input = q, !.event_data = data,
                                       !.event_disconnect = hangup, !.state = state]
                     /\ st = [st0 EXCEPT !.regrown = g]
    OBVIOUS
  <2>9. alone' = [alone EXCEPT ![s] = a] /\ story' = [story EXCEPT ![c] = st]
    BY <1>2, <2>4, <2>5, <2>7, <2>8
  <2>10. state \in ClientStates /\ state # "FREE"
    BY <1>2, <2>7 DEF AloneRecord, ClientStates
  <2>11. /\ a \in AloneRecord /\ a.fd = c /\ a.state = state /\ a.event_data = data
         /\ a.event_disconnect = hangup /\ a.input = q /\ a.output = a0.output
    BY <1>2, <2>2, <2>6, <2>8, <2>10 DEF AloneRecord
  <2>12. /\ st \in StoryRecord /\ st.left = st0.left /\ st.fresh = st0.fresh
         /\ st.regrown = g /\ st.received = st0.received /\ st.spilled = st0.spilled
    BY <1>2, <2>8 DEF StoryRecord
  <2>13. BytesKnown(a, l, st)
    BY <1>2, <2>2, <2>3, <2>11, <2>12 DEF BytesKnown
  <2>14. LostKnown(a, st)
    BY <1>2, <1>4, <2>6, <2>7, <2>11, <2>12 DEF LostKnown
  <2>15. st.fresh => a.event_data \/ (a.state = "HANGUP" /\ l.rst)
    BY <1>6, <2>6, <2>7, <2>11, <2>12
  <2>16. /\ a.state # "FREE" /\ st.spilled = story[c].spilled
         /\ "OUT" \in polling'.revents => a.output.bytes # <<>>
    BY <1>2, <1>4, <1>5, <2>10, <2>11, <2>12
  <2> QED BY <1>5, <1>7, <2>9, <2>11, <2>12, <2>13, <2>14, <2>15, <2>16, OneClient
<1> QED BY <1>8, <1>9

(* A failed assert leaves the invariant, if it can be explained. *)
LEMMA AbortKeepsInv ==
    ASSUME ClientInv, Abort, polling.pc # "input",
           ~Spilled => \E s \in Connected :
                          alone[s].state = "HANGUP" /\ used_space(alone[s].output) > 0
    PROVE  ClientInv'
<1>1. aborted' = TRUE /\ UNCHANGED <<alone, link, held, polling, story>>
  BY DEF Abort
<1>2. ClientTypes'
  BY <1>1 DEF ClientInv, ClientTypes
<1>3. LinksOwned'
  BY <1>1 DEF ClientInv, LinksOwned, Connected, NewLink, NewStory
<1>4. Spilled' <=> Spilled
  BY <1>1 DEF Spilled
<1>5. HandlesReach'
  BY <1>1, <1>4 DEF ClientInv, HandlesReach, InUse, SlotOf, IndexOf, GEN_UPPER_BOUND
<1>6. PollKnows'
  BY <1>1 DEF ClientInv, PollKnows, Connected
<1>7. CallerKnows'
  BY <1>1, Zenon DEF ClientInv, CallerKnows, Connected, HasMoved, FreshKnown, LostKnown, BytesKnown,
              Counted
<1>8. AbortKnown'
  BY <1>1, <1>4 DEF AbortKnown, Connected, used_space
<1> QED BY <1>2, <1>3, <1>5, <1>6, <1>7, <1>8 DEF ClientInv

(* The output part keeps the invariant: what its assert does not expect is *)
(* a client that hung up with output unsent.                               *)
LEMMA OutputKeepsInv ==
    ASSUME ClientInv, ClientOutput
    PROVE  ClientInv'
<1>1. PICK s : s = polling.slot /\ s \in Connected
  BY Zenon DEF ClientOutput, ClientInv, PollKnows
<1>2. PICK a0, c, l0, st :
             /\ a0 = alone[s] /\ c = alone[s].fd /\ l0 = link[c] /\ st = story[c]
             /\ a0 \in AloneRecord /\ a0.fd = c /\ c \in Links /\ s \in AloneSlots
             /\ l0 \in LinkRecord /\ st \in StoryRecord
             /\ a0.state # "FREE" /\ l0.state = "open"
             /\ FreshKnown(a0, l0, st, HasMoved(s))
             /\ LostKnown(a0, st) /\ BytesKnown(a0, l0, st)
             /\ alone = [alone EXCEPT ![s] = a0] /\ link = [link EXCEPT ![c] = l0]
             /\ story = [story EXCEPT ![c] = st]
             /\ a0.output \in Queue /\ a0.output.bytes \in Seq(Int)
  BY <1>1, ClientParts
<1>3. polling.pc = "output" /\ ~aborted /\ polling \in PollRecord
  BY Zenon DEF ClientOutput, ClientInv, ClientTypes
<1>4. "OUT" \in polling.revents => a0.output.bytes # <<>>
  BY <1>1, <1>2, <1>3 DEF ClientInv, PollKnows
<1>5. st.fresh => a0.event_data \/ (a0.state = "HANGUP" /\ l0.rst)
  <2>1. ~HasMoved(s)
    BY <1>3 DEF HasMoved
  <2> QED BY <1>2, <2>1 DEF FreshKnown
<1>6. NotInPoll \in PollRecord /\ NotInPoll.pc = "idle"
  BY DEF NotInPoll, PollRecord
<1>7. CASE "OUT" \notin polling.revents
  <2>1. polling' = NotInPoll /\ UNCHANGED <<alone, link, held, story, aborted>>
    BY <1>7 DEF ClientOutput
  <2>2. /\ alone' = [alone EXCEPT ![s] = a0] /\ link' = [link EXCEPT ![c] = l0]
        /\ story' = [story EXCEPT ![c] = st] /\ aborted' = aborted /\ held' = held
        /\ polling' \in PollRecord /\ polling'.pc = "idle"
    BY <1>2, <1>6, <2>1
  <2>3. /\ s \in Connected /\ c = alone[s].fd /\ polling.slot = s /\ ~aborted
        /\ a0 \in AloneRecord /\ l0 \in LinkRecord /\ st \in StoryRecord
        /\ a0.fd = c /\ a0.state # "FREE" /\ l0.state = "open" /\ st.spilled = story[c].spilled
        /\ LostKnown(a0, st) /\ BytesKnown(a0, l0, st)
    BY <1>1, <1>2, <1>3
  <2> QED BY <1>5, <2>2, <2>3, OneClient
<1>8. CASE "OUT" \in polling.revents /\ a0.state # "USED"
  <2>1. Abort
    BY <1>1, <1>2, <1>8 DEF ClientOutput
  <2>2. a0.state = "HANGUP"
    BY <1>2, <1>8 DEF AloneRecord, ClientStates
  <2>3. used_space(a0.output) > 0
    BY <1>2, <1>4, <1>8 DEF used_space
  <2> QED BY <1>1, <1>2, <1>3, <2>1, <2>2, <2>3, AbortKeepsInv
<1>9. CASE "OUT" \in polling.revents /\ a0.state = "USED"
  <2>1. PICK k \in 0 .. used_space(a0.output), error \in BOOLEAN :
           /\ alone' = [alone EXCEPT ![s] =
                          [a0 EXCEPT !.output = end_read(a0.output, k),
                                     !.state = IF error THEN "HANGUP" ELSE a0.state,
                                     !.event_disconnect = a0.event_disconnect \/ error]]
           /\ link' = [link EXCEPT ![c].got = @ \o SubSeq(a0.output.bytes, 1, k)]
           /\ polling' = NotInPoll
           /\ UNCHANGED <<held, story, aborted>>
    <3>1. "OUT" \in polling.revents /\ alone[polling.slot].state = "USED"
      BY <1>1, <1>2, <1>9
    <3>2. PICK k \in 0 .. used_space(alone[polling.slot].output), error \in BOOLEAN :
             /\ alone' = [alone EXCEPT ![polling.slot] =
                            [alone[polling.slot] EXCEPT
                               !.output = end_read(alone[polling.slot].output, k),
                               !.state = IF error THEN "HANGUP" ELSE @,
                               !.event_disconnect = @ \/ error]]
             /\ link' = [link EXCEPT ![alone[polling.slot].fd].got =
                                         @ \o SubSeq(alone[polling.slot].output.bytes, 1, k)]
      BY <3>1, Zenon DEF ClientOutput
    <3>3. /\ polling.slot = s /\ alone[polling.slot] = a0
          /\ alone[polling.slot].fd = c
      BY <1>1, <1>2
    <3>4. polling' = NotInPoll /\ UNCHANGED <<held, story, aborted>>
      BY <3>1, Zenon DEF ClientOutput
    <3> QED BY <3>2, <3>3, <3>4
  <2>2. PICK q, state, p : /\ q = end_read(a0.output, k)
                           /\ state = IF error THEN "HANGUP" ELSE a0.state
                           /\ p = l0.got \o SubSeq(a0.output.bytes, 1, k)
    OBVIOUS
  <2>3. PICK d \in BOOLEAN : d = (a0.event_disconnect \/ error)
    OBVIOUS
  <2>4. k \in 0 .. Len(a0.output.bytes)
    BY <2>1 DEF used_space
  <2>5. q \in Queue
    BY <1>2, <2>2, <2>4, ReadsTake
  <2>6. p \in Seq(Int)
    <3>1. SubSeq(a0.output.bytes, 1, k) \in Seq(Int)
      BY <1>2, <2>4, CutInTwo
    <3>2. l0.got \in Seq(Int)
      BY <1>2 DEF LinkRecord
    <3> QED BY <2>2, <3>1, <3>2
  <2>7. PICK a, l : /\ a = [a0 EXCEPT !.output = q, !.state = state, !.event_disconnect = d]
                    /\ l = [l0 EXCEPT !.got = p]
    BY Zenon
  <2>8. /\ alone' = [alone EXCEPT ![s] = a] /\ link' = [link EXCEPT ![c] = l]
        /\ story' = [story EXCEPT ![c] = st]
    BY <1>2, <2>1, <2>2, <2>3, <2>7, Zenon
  <2>9. state \in ClientStates /\ state # "FREE"
    BY <1>2, <2>2 DEF AloneRecord, ClientStates
  <2>10. /\ a \in AloneRecord /\ a.fd = c /\ a.state = state /\ a.event_data = a0.event_data
         /\ a.event_disconnect = d /\ a.input = a0.input
    BY <1>2, <2>5, <2>7, <2>9 DEF AloneRecord
  <2>11. /\ l \in LinkRecord /\ l.state = "open" /\ l.rst = l0.rst /\ l.sent = l0.sent
         /\ l.pending = l0.pending
    BY <1>2, <2>6, <2>7, Zenon DEF LinkRecord
  <2>12. BytesKnown(a, l, st)
    BY <1>2, <2>10, <2>11, Zenon DEF BytesKnown, Counted
  <2>13. LostKnown(a, st)
    BY <1>2, <1>9, <2>2, <2>3, <2>10 DEF LostKnown
  <2>14. st.fresh => a.event_data \/ (a.state = "HANGUP" /\ l.rst)
    BY <1>5, <1>9, <2>10, <2>11
  <2>15. /\ s \in Connected /\ c = alone[s].fd /\ polling.slot = s /\ ~aborted
         /\ st \in StoryRecord /\ st.spilled = story[c].spilled /\ a.state # "FREE"
         /\ aborted' = aborted /\ held' = held /\ polling' \in PollRecord /\ polling'.pc = "idle"
    BY <1>1, <1>2, <1>3, <1>6, <2>1, <2>9, <2>10, Zenon
  <2> QED BY <2>8, <2>10, <2>11, <2>12, <2>13, <2>14, <2>15, OneClient
<1> QED BY <1>7, <1>8, <1>9
-----------------------------------------------------------------------------
(* A step that takes or frees structure s for connection c, which no other *)
(* structure has, between two calls of tcp_client_poll: what has to be     *)
(* shown of the structure a, the connection l and the history st           *)
LEMMA OneStructure ==
    ASSUME ClientInv, Calling, NEW s \in AloneSlots, NEW c \in Links,
           NEW a \in AloneRecord, NEW l \in LinkRecord, NEW st \in StoryRecord,
           alone' = [alone EXCEPT ![s] = a],
           link' = [link EXCEPT ![c] = l],
           story' = [story EXCEPT ![c] = st],
           UNCHANGED <<polling, aborted>>,
           \A t \in Connected : t # s => alone[t].fd # c,
           l.state # "none",
           a.state # "FREE" => a.fd = c /\ l.state = "open" /\ ~st.fresh
                                /\ LostKnown(a, st) /\ BytesKnown(a, l, st),
           HandlesReach'
    PROVE  ClientInv'
<1>1. /\ alone \in [AloneSlots -> AloneRecord] /\ link \in [Links -> LinkRecord]
      /\ story \in [Links -> StoryRecord] /\ polling \in PollRecord /\ aborted \in BOOLEAN
      /\ Connected \subseteq AloneSlots
  BY DEF ClientInv, ClientTypes, Connected
<1>2. ClientTypes'
  BY <1>1 DEF ClientTypes
<1>3. /\ alone'[s] = a /\ link'[c] = l /\ story'[c] = st
      /\ \A t \in AloneSlots : t # s => alone'[t] = alone[t]
      /\ \A d \in Links : d # c => link'[d] = link[d] /\ story'[d] = story[d]
  BY <1>1
<1>4. Connected' \subseteq AloneSlots /\ (\A t \in Connected' : t # s => t \in Connected)
  <2>1. DOMAIN alone' = AloneSlots /\ DOMAIN alone = AloneSlots
    BY <1>1
  <2> QED BY <1>3, <2>1 DEF Connected
<1>5. ASSUME NEW t \in Connected', t # s
      PROVE  /\ alone'[t] = alone[t] /\ alone[t].fd \in Links /\ alone[t].fd # c
             /\ link'[alone[t].fd] = link[alone[t].fd] /\ link[alone[t].fd].state = "open"
             /\ story'[alone[t].fd] = story[alone[t].fd] /\ t \in Connected
  <2>1. t \in Connected /\ t \in AloneSlots
    BY <1>4, <1>5
  <2>2. alone[t].fd \in Links /\ link[alone[t].fd].state = "open"
    BY <2>1 DEF ClientInv, LinksOwned
  <2> QED BY <1>3, <1>5, <2>1, <2>2
<1>6. s \in Connected' => a.state # "FREE"
  BY <1>3 DEF Connected
<1>7. LinksOwned'
  <2>1. \A t \in Connected' : alone'[t].fd \in Links /\ link'[alone'[t].fd].state = "open"
    <3> SUFFICES ASSUME NEW t \in Connected'
                 PROVE  alone'[t].fd \in Links /\ link'[alone'[t].fd].state = "open"
      OBVIOUS
    <3>1. CASE t = s
      BY <1>3, <1>6, <3>1
    <3>2. CASE t # s
      BY <1>5, <3>2
    <3> QED BY <3>1, <3>2
  <2>2. \A t, u \in Connected' : alone'[t].fd = alone'[u].fd => t = u
    <3> SUFFICES ASSUME NEW t \in Connected', NEW u \in Connected', alone'[t].fd = alone'[u].fd
                 PROVE  t = u
      OBVIOUS
    <3>1. CASE t # s /\ u # s
      BY <1>5, <3>1 DEF ClientInv, LinksOwned
    <3>2. CASE t = s /\ u # s
      BY <1>3, <1>5, <1>6, <3>2
    <3>3. CASE t # s /\ u = s
      BY <1>3, <1>5, <1>6, <3>3
    <3> QED BY <3>1, <3>2, <3>3
  <2>3. \A d \in Links : link'[d].state = "none" => link'[d] = NewLink /\ story'[d] = NewStory
    BY <1>3 DEF ClientInv, LinksOwned
  <2> QED BY <2>1, <2>2, <2>3 DEF LinksOwned, NewLink, NewStory
<1>8. PollKnows'
  BY DEF Calling, PollKnows
<1>9. CallerKnows'
  <2> SUFFICES ASSUME NEW t \in Connected'
               PROVE  /\ FreshKnown(alone'[t], link'[alone'[t].fd], story'[alone'[t].fd],
                                     HasMoved(t)')
                      /\ LostKnown(alone'[t], story'[alone'[t].fd])
                      /\ BytesKnown(alone'[t], link'[alone'[t].fd], story'[alone'[t].fd])
    BY Zenon DEF CallerKnows, FreshKnown, LostKnown, BytesKnown, Counted
  <2>1. CASE t = s
    BY <1>3, <1>6, <2>1 DEF FreshKnown
  <2>2. CASE t # s
    <3>1. /\ FreshKnown(alone[t], link[alone[t].fd], story[alone[t].fd], HasMoved(t))
          /\ LostKnown(alone[t], story[alone[t].fd])
          /\ BytesKnown(alone[t], link[alone[t].fd], story[alone[t].fd])
      BY <1>5, <2>2, ClientFields
    <3>2. ~HasMoved(t)
      BY DEF HasMoved, Calling
    <3> QED BY <1>5, <2>2, <3>1, <3>2 DEF FreshKnown
  <2> QED BY <2>1, <2>2
<1>10. AbortKnown'
  BY DEF AbortKnown, Calling
<1> QED BY <1>2, <1>7, <1>8, <1>9, <1>10 DEF ClientInv

(* A structure that tcp_client_create has taken *)
Taken(g, c) == [FreeAlone(g) EXCEPT !.state = "USED", !.fd = c]

(* The structures that tcp_client_create takes and tcp_client_close leaves *)
LEMMA FreshStructure ==
    ASSUME NEW g \in Int, NEW c \in Links, NEW a, a = Taken(g, c)
    PROVE  /\ FreeAlone(g) \in AloneRecord /\ FreeAlone(g).state = "FREE"
           /\ a \in AloneRecord /\ a.state = "USED" /\ a.fd = c /\ ~a.event_disconnect
           /\ a.input = byte_queue_init
<1>1. byte_queue_init \in Queue
  <2>1. <<>> \in Seq(Int) /\ Len(<<>>) = 0
    OBVIOUS
  <2> QED BY <2>1 DEF byte_queue_init, Queue
<1>2. PICK q \in Queue : q = byte_queue_init
  BY <1>1
<1>3. PICK f : f = FreeAlone(g)
  OBVIOUS
<1>4. f \in AloneRecord /\ f.state = "FREE" /\ ~f.event_disconnect /\ f.input = q
  BY <1>2, <1>3 DEF FreeAlone, AloneRecord, ClientStates
<1>5. a \in AloneRecord /\ a.state = "USED" /\ a.fd = c /\ ~a.event_disconnect /\ a.input = q
  <2>1. a = [f EXCEPT !.state = "USED", !.fd = c]
    BY <1>3 DEF Taken
  <2> QED BY <1>4, <2>1 DEF AloneRecord, ClientStates
<1> QED BY <1>2, <1>3, <1>4, <1>5

(* Connections before and after they are used, and their histories *)
LEMMA FreshConnection ==
    /\ NewLink \in LinkRecord /\ NewStory \in StoryRecord
    /\ \A st \in LinkStates : [NewLink EXCEPT !.state = st] \in LinkRecord
    /\ \A sp \in BOOLEAN : [NewStory EXCEPT !.spilled = sp] \in StoryRecord
<1>1. NewLink \in LinkRecord /\ NewStory \in StoryRecord
  <2>1. <<>> \in Seq(Int)
    OBVIOUS
  <2> QED BY <2>1 DEF NewLink, NewStory, LinkRecord, StoryRecord, LinkStates
<1>2. \A st \in LinkStates : [NewLink EXCEPT !.state = st] \in LinkRecord
  BY <1>1 DEF LinkRecord
<1>3. \A sp \in BOOLEAN : [NewStory EXCEPT !.spilled = sp] \in StoryRecord
  BY <1>1 DEF StoryRecord
<1> QED BY <1>1, <1>2, <1>3

(* Opening a connection keeps the invariant. *)
LEMMA CreateKeepsInv ==
    ASSUME ClientInv, tcp_client_create
    PROVE  ClientInv'
<1>1. PICK c : c = Min({d \in Links : link[d].state = "none"})
  OBVIOUS
<1>2. PICK s : s = Min({t \in DOMAIN alone : alone[t].state = "FREE"})
  OBVIOUS
<1>3. c \in Links /\ link[c].state = "none" /\ s \in AloneSlots /\ alone[s].state = "FREE"
  <2>1. DOMAIN alone = AloneSlots /\ AloneSlots \subseteq Nat /\ Links \subseteq Nat
    BY ClientAssumption DEF ClientInv, ClientTypes, AloneSlots, Links
  <2>2. c \in {d \in Links : link[d].state = "none"}
    <3>1. {d \in Links : link[d].state = "none"} # {}
      BY DEF tcp_client_create
    <3> QED BY <1>1, <2>1, <3>1, MinIsIn
  <2>3. s \in {t \in DOMAIN alone : alone[t].state = "FREE"}
    <3>1. {t \in DOMAIN alone : alone[t].state = "FREE"} # {}
      BY DEF tcp_client_create
    <3> QED BY <1>2, <2>1, <3>1, MinIsIn
  <2> QED BY <2>1, <2>2, <2>3
<1>4. /\ alone \in [AloneSlots -> AloneRecord] /\ link \in [Links -> LinkRecord]
      /\ story \in [Links -> StoryRecord] /\ link[c] = NewLink /\ story[c] = NewStory
  BY <1>3 DEF ClientInv, ClientTypes, LinksOwned
<1>5. PICK g \in Int : g = alone[s].gen
  BY <1>3, <1>4 DEF AloneRecord
<1>6. PICK h, sp : h = pack_handle(0, s, g) /\ sp \in BOOLEAN /\ (sp <=> SlotOf(h) # s)
  <2>1. PICK h : h = pack_handle(0, s, g)
    OBVIOUS
  <2> QED BY <2>1
<1>7. PICK a, l, st : /\ a = Taken(g, c)
                      /\ l = [NewLink EXCEPT !.state = "open"]
                      /\ st = [NewStory EXCEPT !.spilled = sp]
  OBVIOUS
<1>8. /\ a \in AloneRecord /\ l \in LinkRecord /\ st \in StoryRecord
      /\ a.state = "USED" /\ a.fd = c /\ ~a.event_disconnect /\ a.input.bytes = <<>>
      /\ l.state = "open" /\ l.pending = <<>> /\ l.sent = 0
      /\ ~st.fresh /\ ~st.left /\ st.received = <<>> /\ st.spilled = sp
  <2>1. /\ a \in AloneRecord /\ a.state = "USED" /\ a.fd = c /\ ~a.event_disconnect
        /\ a.input = byte_queue_init
    BY <1>3, <1>5, <1>7, FreshStructure
  <2>2. a.input.bytes = <<>> /\ l \in LinkRecord /\ st \in StoryRecord
    <3>1. "open" \in LinkStates
      BY DEF LinkStates
    <3> QED BY <1>6, <1>7, <2>1, <3>1, FreshConnection DEF byte_queue_init
  <2>3. l.state = "open" /\ l.pending = <<>> /\ l.sent = 0
    BY <1>7 DEF NewLink
  <2>4. ~st.fresh /\ ~st.left /\ st.received = <<>> /\ st.spilled = sp
    BY <1>6, <1>7 DEF NewStory
  <2> QED BY <2>1, <2>2, <2>3, <2>4
<1>9. /\ Calling /\ UNCHANGED <<polling, aborted>>
      /\ alone' = [alone EXCEPT ![s] = a]
      /\ link' = [link EXCEPT ![c] = l]
      /\ story' = [story EXCEPT ![c] = st]
      /\ held' = held \cup {[handle |-> h, conn |-> c]}
  <2>1. /\ Calling /\ UNCHANGED <<polling, aborted>>
        /\ alone' = [alone EXCEPT ![s] = a]
        /\ link' = [link EXCEPT ![c].state = "open"]
        /\ held' = held \cup {[handle |-> h, conn |-> c]}
        /\ story' = [story EXCEPT ![c].spilled = (SlotOf(h) # s)]
    BY <1>1, <1>2, <1>5, <1>6, <1>7 DEF tcp_client_create, Taken
  <2>2. link' = [link EXCEPT ![c] = l]
    BY <1>3, <1>4, <1>7, <2>1
  <2>3. (SlotOf(h) # s) = sp
    BY <1>6
  <2>4. story' = [story EXCEPT ![c] = st]
    BY <1>3, <1>4, <1>7, <2>1, <2>3
  <2> QED BY <2>1, <2>2, <2>4
<1>10. \A t \in Connected : t # s => alone[t].fd # c
  BY <1>3 DEF ClientInv, LinksOwned
<1>11. LostKnown(a, st) /\ BytesKnown(a, l, st)
  <2>1. LostKnown(a, st)
    BY <1>8 DEF LostKnown
  <2>2. st.received \o a.input.bytes \o l.pending = <<>>
    BY <1>8
  <2> QED BY <1>8, <2>1, <2>2 DEF BytesKnown, Counted
<1>12. HandlesReach'
  <2>1. /\ alone'[s] = a /\ link'[c] = l /\ story'[c] = st
        /\ \A t \in AloneSlots : t # s => alone'[t] = alone[t]
        /\ \A d \in Links : d # c => link'[d] = link[d] /\ story'[d] = story[d]
        /\ DOMAIN alone' = AloneSlots /\ DOMAIN alone = AloneSlots
    BY <1>3, <1>4, <1>9
  <2>2. \A k \in held : k.conn \in Links /\ k.conn # c /\ link'[k.conn].state # "none"
    BY <1>3, <2>1 DEF ClientInv, HandlesReach
  <2>3. \A k \in held' : k.conn \in Links /\ link'[k.conn].state # "none"
    BY <1>3, <1>8, <1>9, <2>1, <2>2
  <2>4. \A j, k \in held' : j.conn = k.conn => j = k
    <3>1. \A j, k \in held : j.conn = k.conn => j = k
      BY DEF ClientInv, HandlesReach
    <3> QED BY <1>9, <2>2, <3>1
  <2>5. ASSUME ~Spilled' PROVE ~Spilled /\ SlotOf(h) = s
    <3>1. \A d \in Links : ~story'[d].spilled
      BY <2>5 DEF Spilled
    <3>2. \A d \in Links : ~story[d].spilled
      BY <1>4, <2>1, <3>1 DEF NewStory
    <3> QED BY <1>3, <1>6, <1>8, <2>1, <3>1, <3>2 DEF Spilled
  <2>6. \A x : SlotOf(x)' = SlotOf(x)
    BY DEF SlotOf, IndexOf, GEN_UPPER_BOUND
  <2>7. ASSUME ~Spilled', NEW k \in held'
        PROVE  /\ SlotOf(k.handle) \in DOMAIN alone' /\ alone'[SlotOf(k.handle)].state # "FREE"
               /\ alone'[SlotOf(k.handle)].fd = k.conn
    <3>1. CASE k = [handle |-> h, conn |-> c]
      BY <1>3, <1>8, <2>1, <2>5, <2>7, <3>1
    <3>2. CASE k \in held
      <4>1. /\ SlotOf(k.handle) \in DOMAIN alone /\ alone[SlotOf(k.handle)].state # "FREE"
            /\ alone[SlotOf(k.handle)].fd = k.conn
        BY <2>5, <2>7, <3>2 DEF ClientInv, HandlesReach, InUse
      <4> QED BY <1>3, <2>1, <4>1
    <3> QED BY <1>9, <2>7, <3>1, <3>2
  <2> QED BY <2>3, <2>4, <2>6, <2>7 DEF HandlesReach, InUse
<1>13. l.state # "none" /\ (a.state # "FREE" => a.fd = c /\ l.state = "open" /\ ~st.fresh)
  BY <1>8
<1> QED BY <1>3, <1>8, <1>9, <1>10, <1>11, <1>12, <1>13, OneStructure

(* Closing a client keeps the invariant: its handle is the only one of its *)
(* connection, and the connection's structure the one that is freed.       *)
LEMMA CloseKeepsInv ==
    ASSUME ClientInv, NEW k \in held, CloseAlone(k), InUse(k.handle)
    PROVE  ClientInv'
<1>1. PICK s : s = SlotOf(k.handle) /\ s \in Connected
  BY InUseConnected
<1>2. PICK c : c = alone[s].fd /\ c \in Links
  BY <1>1, ClientFields
<1>3. /\ alone \in [AloneSlots -> AloneRecord] /\ link \in [Links -> LinkRecord]
      /\ story \in [Links -> StoryRecord] /\ s \in AloneSlots
      /\ \A t \in Connected : t # s => alone[t].fd # c
  BY <1>1, <1>2, ClientFields DEF ClientInv, ClientTypes
<1>4. PICK g \in Int : g = NextGen(alone[s].gen)
  <2>1. alone[s].gen \in Int
    BY <1>3 DEF AloneRecord
  <2> QED BY <2>1 DEF NextGen
<1>5. PICK sp \in BOOLEAN : sp = story[c].spilled
  BY <1>2, <1>3 DEF StoryRecord
<1>6. PICK a, l, st : /\ a = FreeAlone(g)
                      /\ l = [NewLink EXCEPT !.state = "closed"]
                      /\ st = [NewStory EXCEPT !.spilled = sp]
  OBVIOUS
<1>7. /\ a \in AloneRecord /\ l \in LinkRecord /\ st \in StoryRecord
      /\ a.state = "FREE" /\ l.state = "closed" /\ st.spilled = sp
  <2>1. a \in AloneRecord /\ l \in LinkRecord /\ st \in StoryRecord /\ a.state = "FREE"
    <3>1. "closed" \in LinkStates
      BY DEF LinkStates
    <3> QED BY <1>2, <1>4, <1>5, <1>6, <3>1, FreshStructure, FreshConnection
  <2>2. l.state = "closed"
    BY <1>6 DEF NewLink
  <2>3. st.spilled = sp
    BY <1>6 DEF NewStory
  <2> QED BY <2>1, <2>2, <2>3
<1>8. /\ Calling /\ UNCHANGED <<polling, aborted>>
      /\ alone' = [alone EXCEPT ![s] = a]
      /\ link' = [link EXCEPT ![c] = l]
      /\ story' = [story EXCEPT ![c] = st]
      /\ held' = held \ {k}
  BY <1>1, <1>2, <1>4, <1>5, <1>6 DEF CloseAlone
<1>9. HandlesReach'
  <2>1. /\ alone'[s] = a /\ link'[c] = l /\ story'[c] = st
        /\ \A t \in AloneSlots : t # s => alone'[t] = alone[t]
        /\ \A d \in Links : d # c => link'[d] = link[d] /\ story'[d] = story[d]
        /\ DOMAIN alone' = AloneSlots /\ DOMAIN alone = AloneSlots
    BY <1>2, <1>3, <1>8
  <2>2. \A j \in held' : j.conn \in Links /\ link'[j.conn].state # "none"
    BY <1>7, <1>8, <2>1 DEF ClientInv, HandlesReach
  <2>3. \A i, j \in held' : i.conn = j.conn => i = j
    BY <1>8 DEF ClientInv, HandlesReach
  <2>4. Spilled' <=> Spilled
    <3>1. \A d \in Links : story'[d].spilled = story[d].spilled
      BY <1>5, <1>7, <2>1
    <3> QED BY <3>1 DEF Spilled
  <2>5. \A x : SlotOf(x)' = SlotOf(x)
    BY DEF SlotOf, IndexOf, GEN_UPPER_BOUND
  <2>6. ASSUME ~Spilled, NEW j \in held'
        PROVE  /\ SlotOf(j.handle) \in DOMAIN alone' /\ alone'[SlotOf(j.handle)].state # "FREE"
               /\ alone'[SlotOf(j.handle)].fd = j.conn
    <3>1. j \in held /\ j # k
      BY <1>8
    <3>2. /\ SlotOf(j.handle) \in DOMAIN alone /\ alone[SlotOf(j.handle)].state # "FREE"
          /\ alone[SlotOf(j.handle)].fd = j.conn /\ alone[s].fd = k.conn
      BY <1>1, <2>6, <3>1 DEF ClientInv, HandlesReach, InUse
    <3>3. j.conn # k.conn
      BY <3>1 DEF ClientInv, HandlesReach
    <3> QED BY <2>1, <3>2, <3>3
  <2> QED BY <2>2, <2>3, <2>4, <2>5, <2>6 DEF HandlesReach, InUse
<1> QED BY <1>2, <1>3, <1>7, <1>8, <1>9, OneStructure
-----------------------------------------------------------------------------
(* A handle that reaches no structure in use is explained by a generation  *)
(* that spilled into an index.                                             *)
LEMMA UnknownKeepsInv ==
    ASSUME ClientInv, NEW k \in held, Calling, ~InUse(k.handle), Abort
    PROVE  ClientInv'
<1>1. Spilled
  BY DEF ClientInv, HandlesReach
<1>2. polling.pc # "input"
  BY DEF Calling
<1> QED BY <1>1, <1>2, AbortKeepsInv

(* The invariant holds before any client is created. *)
LEMMA InitClientInv == ClientInit => ClientInv
<1> SUFFICES ASSUME ClientInit PROVE ClientInv
  OBVIOUS
<1>1. /\ alone = [s \in AloneSlots |-> FreeAlone(0)] /\ link = [c \in Links |-> NewLink]
      /\ story = [c \in Links |-> NewStory] /\ held = {} /\ polling = NotInPoll
      /\ aborted = FALSE
  BY DEF ClientInit, AloneSlots
<1>2. NewLink \in LinkRecord /\ NewStory \in StoryRecord
  BY FreshConnection
<1>3. FreeAlone(0) \in AloneRecord /\ FreeAlone(0).state = "FREE"
  <2>1. byte_queue_init \in Queue
    <3>1. <<>> \in Seq(Int) /\ Len(<<>>) = 0
      OBVIOUS
    <3> QED BY <3>1 DEF byte_queue_init, Queue
  <2> QED BY <2>1 DEF FreeAlone, AloneRecord, ClientStates
<1>4. polling \in PollRecord /\ polling.pc = "idle"
  BY <1>1 DEF NotInPoll, PollRecord
<1>5. ClientTypes
  BY <1>1, <1>2, <1>3, <1>4 DEF ClientTypes
<1>6. Connected = {}
  BY <1>1, <1>3 DEF Connected
<1>7. LinksOwned
  BY <1>1, <1>6 DEF LinksOwned
<1>8. HandlesReach
  BY <1>1 DEF HandlesReach
<1>9. PollKnows
  BY <1>4 DEF PollKnows
<1>10. CallerKnows /\ AbortKnown
  BY <1>1, <1>6 DEF CallerKnows, AbortKnown
<1> QED BY <1>5, <1>7, <1>8, <1>9, <1>10 DEF ClientInv

(* Every step of the network, the caller and a poll keeps the invariant. *)
LEMMA NextClientInv == ClientInv /\ [ClientNext]_clientVars => ClientInv'
<1> SUFFICES ASSUME ClientInv, [ClientNext]_clientVars PROVE ClientInv'
  OBVIOUS
<1>1. CASE UNCHANGED clientVars
  <2>1. UNCHANGED <<alone, link, held, polling, story, aborted>>
    BY <1>1 DEF clientVars
  <2>2. ClientTypes' /\ PollKnows'
    BY <2>1 DEF ClientInv, ClientTypes, PollKnows, Connected
  <2>3. LinksOwned'
    BY <2>1 DEF ClientInv, LinksOwned, Connected, NewLink, NewStory
  <2>4. HandlesReach'
    BY <2>1 DEF ClientInv, HandlesReach, InUse, Spilled, SlotOf, IndexOf, GEN_UPPER_BOUND
  <2>5. CallerKnows'
    BY <2>1, ZenonT(40) DEF ClientInv, CallerKnows, Connected, HasMoved, FreshKnown, LostKnown,
                BytesKnown, Counted
  <2>6. AbortKnown'
    BY <2>1 DEF ClientInv, AbortKnown, Connected, Spilled, used_space
  <2> QED BY <2>2, <2>3, <2>4, <2>5, <2>6 DEF ClientInv
<1>2. ASSUME NEW c \in Links, PeerActs(c) PROVE ClientInv'
  BY <1>2, PeerKeepsInv
<1>3. CASE tcp_client_create
  BY <1>3, CreateKeepsInv
<1>4. ASSUME NEW k \in held, tcp_client_poll(k.handle) PROVE ClientInv'
  <2>1. CASE InUse(k.handle)
    BY <1>4, <2>1, PollKeepsInv
  <2>2. CASE ~InUse(k.handle)
    <3>1. Calling /\ Abort
      BY <1>4, <2>2 DEF tcp_client_poll
    <3> QED BY <2>2, <3>1, UnknownKeepsInv
  <2> QED BY <2>1, <2>2
<1>5. ASSUME NEW k \in held, tcp_client_event(k.handle) PROVE ClientInv'
  BY <1>5, EventKeepsInv
<1>6. ASSUME NEW k \in held, ReadAll(k.handle) PROVE ClientInv'
  BY <1>6, ReadKeepsInv
<1>7. ASSUME NEW k \in held, WriteByte(k.handle) PROVE ClientInv'
  BY <1>7, WriteKeepsInv
<1>8. ASSUME NEW k \in held, CloseAlone(k) PROVE ClientInv'
  <2>1. CASE InUse(k.handle)
    BY <1>8, <2>1, CloseKeepsInv
  <2>2. CASE ~InUse(k.handle)
    <3>1. Calling /\ Abort
      BY <1>8, <2>2 DEF CloseAlone
    <3> QED BY <2>2, <3>1, UnknownKeepsInv
  <2> QED BY <2>1, <2>2
<1>9. CASE ClientReceive
  BY <1>9, ReceiveKeepsInv
<1>10. CASE ClientInput
  BY <1>10, InputKeepsInv
<1>11. CASE ClientOutput
  BY <1>11, OutputKeepsInv
<1> QED
  BY <1>1, <1>2, <1>3, <1>4, <1>5, <1>6, <1>7, <1>8, <1>9, <1>10, <1>11 DEF ClientNext

(* The invariant of the stand-alone clients holds throughout, for any      *)
(* number of structures and connections and any width of the generations.  *)
THEOREM ClientInvInvariant == ClientSpec => []ClientInv
<1>1. ClientInit => ClientInv
  BY InitClientInv
<1>2. ClientInv /\ [ClientNext]_clientVars => ClientInv'
  BY NextClientInv
<1> QED BY <1>1, <1>2, PTL DEF ClientSpec

(* What tcp_client_poll and tcp_client_event tell a caller: received bytes *)
(* are in order and announced, a hang-up is told, and nothing else is.     *)
THEOREM CallersAreTold == ClientSpec => []ClientTold
<1>1. ClientInv => ClientTold
  BY ClientInvTold
<1> QED BY <1>1, ClientInvInvariant, PTL

(* The asserts of tcp_client_poll and client_from_handle fail in the two   *)
(* known ways only, and otherwise each handle reaches its own client.      *)
THEOREM AbortsAreKnown == ClientSpec => []ClientAborts
<1>1. ClientInv => ClientAborts
  BY ClientInvTold
<1> QED BY <1>1, ClientInvInvariant, PTL
-----------------------------------------------------------------------------
(* The bytes of the server's connections, in both directions.              *)


(* The fields of a client structure, a connection and its history that the *)
(* bytes go through                                                        *)
ClientBytes(a) ==
    {"input", "output"} \subseteq DOMAIN a /\ a.input \in Queue /\ a.output \in Queue

NetBytes(n) ==
    /\ {"sent", "pending", "fin", "rst", "got"} \subseteq DOMAIN n
    /\ n.sent \in Nat /\ n.pending \in Seq(Int) /\ n.got \in Seq(Int)

HistBytes(h) ==
    /\ {"pushed", "received", "written", "closed", "sendfailed", "regrown"} \subseteq DOMAIN h
    /\ h.received \in Seq(Int) /\ h.written \in Nat

(* Nothing was exchanged over a connection that was not accepted; what its *)
(* peer sent waits.                                                        *)
Unopened(n, h) ==
    n.state \in {"none", "backlog"} =>
        /\ h.received = <<>> /\ h.written = 0 /\ n.got = <<>>
        /\ n.pending = Numbers(Len(n.pending))
        /\ ~n.rst => Len(n.pending) = n.sent

(* The streams of a client in both directions *)
Stream(a, n, h) ==
    LET in == h.received \o a.input.bytes \o n.pending
    IN  /\ in = Numbers(Len(in))
        /\ ~n.rst => Len(in) = n.sent
        /\ n.got \o a.output.bytes = Numbers(h.written)

ByteTypes ==
    /\ DOMAIN hist = Conns
    /\ \A s \in Slots : ClientBytes(clients[s])
    /\ \A c \in Conns : NetBytes(net[c]) /\ HistBytes(hist[c]) /\ Unopened(net[c], hist[c])

(* After a write past the end of its buffer nothing has to be known: the   *)
(* behaviours end there.                                                   *)
ByteInv == (~overrun => ByteTypes) /\ BytesInOrder

-----------------------------------------------------------------------------
(* A sequence that counts is the numbers up to its length. *)
LEMMA NumbersCount ==
    ASSUME NEW x \in Seq(Int)
    PROVE  x = Numbers(Len(x)) <=> \A i \in DOMAIN x : x[i] = i
<1>1. Len(x) \in Nat /\ DOMAIN x = 1 .. Len(x)
  OBVIOUS
<1>2. ASSUME x = Numbers(Len(x)), NEW i \in DOMAIN x PROVE x[i] = i
  BY <1>1, <1>2 DEF Numbers
<1>3. ASSUME \A i \in DOMAIN x : x[i] = i PROVE x = Numbers(Len(x))
  <2>1. x = [i \in 1 .. Len(x) |-> x[i]]
    BY <1>1
  <2>2. [i \in 1 .. Len(x) |-> x[i]] = [i \in 1 .. Len(x) |-> i]
    BY <1>1, <1>3
  <2> QED BY <2>1, <2>2 DEF Numbers
<1> QED BY <1>2, <1>3

(* The numbers up to n are a sequence of length n. *)
LEMMA NumbersAreSeq ==
    ASSUME NEW n \in Nat
    PROVE  Numbers(n) \in Seq(Int) /\ Len(Numbers(n)) = n
  BY DEF Numbers

(* No numbers *)
LEMMA EmptyNumbers == <<>> = Numbers(Len(<<>>)) /\ <<>> = Numbers(0)
<1>1. PICK x \in Seq(Int) : x = <<>>
  <2>1. <<>> \in Seq(Int)
    OBVIOUS
  <2> QED BY <2>1
<1>2. Len(x) = 0 /\ \A i \in DOMAIN x : x[i] = i
  BY <1>1
<1>3. x = Numbers(Len(x))
  BY <1>2, NumbersCount
<1> QED BY <1>1, <1>2, <1>3

(* Two sequences of bytes, one behind the other *)
LEMMA BytesJoin ==
    ASSUME NEW x \in Seq(Int), NEW y \in Seq(Int)
    PROVE  /\ x \o y \in Seq(Int) /\ Len(x \o y) = Len(x) + Len(y)
           /\ DOMAIN (x \o y) = 1 .. Len(x) + Len(y)
           /\ \A i \in 1 .. Len(x) : (x \o y)[i] = x[i]
           /\ \A i \in Len(x) + 1 .. Len(x) + Len(y) : (x \o y)[i] = y[i - Len(x)]
  OBVIOUS

(* The numbers behind m *)
Following(m, n) == [i \in 1 .. n |-> m + i]

(* The next numbers behind a sequence that counts *)
LEMMA NumbersGoOn ==
    ASSUME NEW n \in Nat, NEW m \in Nat
    PROVE  /\ Following(m, n) \in Seq(Int) /\ Len(Following(m, n)) = n
           /\ Numbers(m) \o Following(m, n) = Numbers(m + n)
<1> DEFINE x == Numbers(m)
           r == Following(m, n)
<1>1. r \in Seq(Int) /\ Len(r) = n /\ \A i \in 1 .. n : r[i] = m + i
  <2>1. \A i \in 1 .. n : m + i \in Int
    OBVIOUS
  <2> QED BY <2>1 DEF Following
<1>2. x \in Seq(Int) /\ Len(x) = m /\ \A i \in 1 .. m : x[i] = i
  BY DEF Numbers
<1> HIDE DEF x, r
<1>3. x \o r \in Seq(Int) /\ Len(x \o r) = m + n /\ DOMAIN (x \o r) = 1 .. m + n
  <2>1. /\ x \o r \in Seq(Int) /\ Len(x \o r) = Len(x) + Len(r)
        /\ DOMAIN (x \o r) = 1 .. Len(x) + Len(r)
    BY <1>1, <1>2, BytesJoin, Zenon
  <2> QED BY <1>1, <1>2, <2>1, Zenon
<1>4. ASSUME NEW i \in DOMAIN (x \o r) PROVE (x \o r)[i] = i
  <2>1. CASE i <= m
    <3>1. (x \o r)[i] = x[i]
      BY <1>1, <1>2, <1>3, <2>1, BytesJoin
    <3> QED BY <1>2, <1>3, <2>1, <3>1
  <2>2. CASE i > m
    <3>1. (x \o r)[i] = r[i - m]
      BY <1>1, <1>2, <1>3, <2>2, BytesJoin
    <3>2. i - m \in 1 .. n
      BY <1>3, <2>2
    <3>3. r[i - m] = m + (i - m)
      BY <1>1, <3>2
    <3> QED BY <1>3, <3>1, <3>2, <3>3
  <2> QED BY <1>3, <2>1, <2>2
<1>5. x \o r = Numbers(m + n)
  BY <1>3, <1>4, NumbersCount
<1> QED BY <1>1, <1>5 DEF x, r

(* The front of a sequence that counts *)
LEMMA NumbersFront ==
    ASSUME NEW x \in Seq(Int), NEW y \in Seq(Int), x \o y = Numbers(Len(x \o y))
    PROVE  x = Numbers(Len(x))
<1>1. x \o y \in Seq(Int)
  OBVIOUS
<1>2. \A i \in DOMAIN (x \o y) : (x \o y)[i] = i
  BY <1>1, NumbersCount
<1>3. \A i \in DOMAIN x : (x \o y)[i] = x[i] /\ i \in DOMAIN (x \o y)
  OBVIOUS
<1> QED BY <1>2, <1>3, NumbersCount
-----------------------------------------------------------------------------
(* The fields of a client that is there, of its connection and its history *)
LEMMA StreamFields ==
    ASSUME IndInv, ByteInv, ~overrun, used, NEW s \in Slots, clients[s].state # "FREE"
    PROVE  /\ clients[s].fd \in Conns /\ clients[s].fd # NoFd
           /\ {"state", "gen", "fd"} \subseteq DOMAIN clients[s] /\ ClientBytes(clients[s])
           /\ "state" \in DOMAIN net[clients[s].fd] /\ NetBytes(net[clients[s].fd])
           /\ net[clients[s].fd].state = "accepted"
           /\ HistBytes(hist[clients[s].fd])
           /\ \A t \in Slots : t # s => clients[t].fd # clients[s].fd
           /\ ~hist[clients[s].fd].regrown =>
                 Stream(clients[s], net[clients[s].fd], hist[clients[s].fd])
<1>1. clients[s].fd \in Conns /\ clients[s].fd # NoFd
  BY OccupiedConn, ServerNumbers
<1>2. /\ net[clients[s].fd].state = "accepted"
      /\ \A t \in Slots : t # s => clients[t].fd # clients[s].fd
  BY <1>1 DEF IndInv, Table
<1>3. {"state", "gen", "fd"} \subseteq DOMAIN clients[s] /\ "state" \in DOMAIN net[clients[s].fd]
  BY OccupiedConn
<1>4. ClientBytes(clients[s]) /\ NetBytes(net[clients[s].fd]) /\ HistBytes(hist[clients[s].fd])
  BY <1>1, Zenon DEF ByteInv, ByteTypes
<1>5. ~hist[clients[s].fd].regrown =>
         Stream(clients[s], net[clients[s].fd], hist[clients[s].fd])
  BY <1>1 DEF ByteInv, BytesInOrder, Stream
<1> QED BY <1>1, <1>2, <1>3, <1>4, <1>5

(* A step on one structure s and one connection c that no other structure  *)
(* has: what has to be shown of them and of the history afterwards         *)
LEMMA OneStream ==
    ASSUME IndInv, ByteInv, ~overrun, used' = used, NEW s \in Slots, NEW c \in Conns,
           NEW a, NEW n, NEW h, DOMAIN hist' = Conns,
           \A t \in Slots : clients'[t] = IF t = s THEN a ELSE clients[t],
           \A d \in Conns : net'[d] = IF d = c THEN n ELSE net[d],
           \A d \in Conns : hist'[d] = IF d = c THEN h ELSE hist[d],
           used => \A t \in Slots : t # s => clients[t].fd # c,
           ~overrun' => ClientBytes(a) /\ NetBytes(n) /\ HistBytes(h) /\ Unopened(n, h),
           overrun' => h.regrown,
           used /\ a.fd \notin {c, NoFd} => a = clients[s],
           used /\ a.fd = c /\ ~h.regrown => Stream(a, n, h)
    PROVE  ByteInv'
<1>1. /\ DOMAIN clients = Slots /\ DOMAIN net = Conns /\ DOMAIN hist = Conns /\ ByteTypes
  BY DEF IndInv, Shapes, ByteInv, ByteTypes
<1>2. /\ \A t \in Slots : clients'[t] = IF t = s THEN a ELSE clients[t]
      /\ \A d \in Conns : net'[d] = IF d = c THEN n ELSE net[d]
      /\ \A d \in Conns : hist'[d] = IF d = c THEN h ELSE hist[d]
  OBVIOUS
<1>3. ~overrun' => ByteTypes'
  <2> SUFFICES ASSUME ~overrun' PROVE ByteTypes'
    OBVIOUS
  <2>1. \A t \in Slots : ClientBytes(clients'[t])
    BY <1>1, <1>2 DEF ByteTypes
  <2>2. \A d \in Conns : NetBytes(net'[d]) /\ HistBytes(hist'[d]) /\ Unopened(net'[d], hist'[d])
    <3> SUFFICES ASSUME NEW d \in Conns
                 PROVE  NetBytes(net'[d]) /\ HistBytes(hist'[d]) /\ Unopened(net'[d], hist'[d])
      OBVIOUS
    <3>1. CASE d = c
      BY <1>2, <3>1
    <3>2. CASE d # c
      BY <1>1, <1>2, <3>2, ZenonT(40) DEF ByteTypes
    <3> QED BY <3>1, <3>2
  <2> QED BY <1>2, <2>1, <2>2 DEF ByteTypes, ClientBytes, NetBytes, HistBytes, Unopened, Numbers
<1>4. BytesInOrder'
  <2>1. overrun' => \E d \in Conns : hist'[d].regrown
    BY <1>2
  <2>2. ASSUME used, NEW t \in Slots, clients'[t].fd # NoFd, ~hist'[clients'[t].fd].regrown
        PROVE  Stream(clients'[t], net'[clients'[t].fd], hist'[clients'[t].fd])
    <3>1. CASE t = s /\ a.fd = c
      BY <1>2, <2>2, <3>1
    <3>2. CASE clients'[t] = clients[t] /\ clients[t].fd # c
      <4>1. clients[t].fd \in Conns
        BY <2>2, <3>2 DEF IndInv, Types
      <4>2. /\ net'[clients[t].fd] = net[clients[t].fd]
            /\ hist'[clients[t].fd] = hist[clients[t].fd]
        BY <1>2, <3>2, <4>1
      <4>3. ~hist[clients[t].fd].regrown /\ clients[t].fd # NoFd
        BY <2>2, <3>2, <4>2, Zenon
      <4>4. Stream(clients[t], net[clients[t].fd], hist[clients[t].fd])
        BY <2>2, <4>3 DEF ByteInv, BytesInOrder, Stream
      <4> QED BY <3>2, <4>2, <4>4
    <3> QED BY <1>2, <2>2, <3>1, <3>2
  <2>3. used' => \A t \in Slots :
           clients'[t].fd # NoFd /\ ~hist'[clients'[t].fd].regrown =>
              Stream(clients'[t], net'[clients'[t].fd], hist'[clients'[t].fd])
    BY <2>2
  <2> QED BY <2>1, <2>3 DEF BytesInOrder, Stream, Numbers
<1> QED BY <1>3, <1>4 DEF ByteInv
-----------------------------------------------------------------------------
(* A step that changes no bytes and no acceptance *)
LEMMA StillStreams ==
    ASSUME IndInv, ByteInv, ~overrun, overrun' = overrun, used' = used,
           clients' = clients, net' = net, hist' = hist
    PROVE  ByteInv'
<1>1. ByteTypes'
  BY ZenonT(40) DEF ByteInv, ByteTypes, ClientBytes, NetBytes, HistBytes, Unopened, Numbers
<1>2. BytesInOrder'
  BY DEF ByteInv, BytesInOrder, Numbers
<1> QED BY <1>1, <1>2 DEF ByteInv

(* A connection alone: its structure, if it has one, and its history stay. *)
LEMMA OneNet ==
    ASSUME IndInv, ByteInv, ~overrun, overrun' = overrun, used' = used,
           clients' = clients, hist' = hist,
           NEW c \in Conns, NEW n, \A d \in Conns : net'[d] = IF d = c THEN n ELSE net[d],
           NetBytes(n), Unopened(n, hist[c]),
           \A s \in Slots : used /\ clients[s].fd = c /\ ~hist[c].regrown =>
                               Stream(clients[s], n, hist[c])
    PROVE  ByteInv'
<1>1. PICK s \in Slots : used => \A t \in Slots : t # s => clients[t].fd # c
  <2>1. 0 \in Slots
    BY ServerNumbers DEF Slots
  <2>2. CASE \E s \in Slots : clients[s].fd = c
    <3>1. PICK s \in Slots : clients[s].fd = c
      BY <2>2
    <3>2. c # NoFd
      BY ServerNumbers
    <3>3. used => \A t \in Slots : t # s => clients[t].fd # c
      BY <3>1, <3>2 DEF IndInv, Table
    <3> QED BY <3>3
  <2>3. CASE ~ \E s \in Slots : clients[s].fd = c
    BY <2>1, <2>3
  <2> QED BY <2>2, <2>3
<1>2. PICK a, h : a = clients[s] /\ h = hist[c]
  OBVIOUS
<1>3. /\ \A t \in Slots : clients'[t] = IF t = s THEN a ELSE clients[t]
      /\ \A d \in Conns : hist'[d] = IF d = c THEN h ELSE hist[d]
      /\ DOMAIN hist' = Conns
  BY <1>2 DEF ByteInv, ByteTypes
<1>4. ClientBytes(a) /\ HistBytes(h) /\ Unopened(n, h)
  BY <1>2 DEF ByteInv, ByteTypes
<1>5. /\ ~overrun' /\ (used /\ a.fd = c /\ ~h.regrown => Stream(a, n, h))
      /\ (used /\ a.fd \notin {c, NoFd} => a = clients[s])
  BY <1>2
<1> QED BY <1>1, <1>3, <1>4, <1>5, OneStream

(* The peer's next bytes *)
LEMMA StreamGrows ==
    ASSUME NEW x \in Seq(Int), NEW p \in Seq(Int), NEW m \in Nat, NEW k \in Nat,
           x \o p = Numbers(m)
    PROVE  /\ p \o Following(m, k) \in Seq(Int)
           /\ x \o (p \o Following(m, k)) = Numbers(m + k)
<1>1. PICK y, r : y = x \o p /\ r = Following(m, k)
  OBVIOUS
<1>2. y \in Seq(Int) /\ y = Numbers(m)
  BY <1>1, BytesJoin, Zenon
<1>3. r \in Seq(Int) /\ y \o r = Numbers(m + k)
  BY <1>1, <1>2, NumbersGoOn, Zenon
<1>4. (x \o p) \o r = x \o (p \o r)
  BY <1>3, BytesAssociate
<1>5. p \o r \in Seq(Int)
  BY <1>3, BytesJoin, Zenon
<1> QED BY <1>1, <1>3, <1>4, <1>5, Zenon

(* What a peer sends, and what a reset drops, leaves the streams counting. *)
LEMMA PeerKeepsByteInv ==
    ASSUME IndInv, ByteInv, ~overrun, Peer
    PROVE  ByteInv'
<1>1. PICK c \in Conns : Connect(c) \/ PeerSends(c) \/ PeerFinishes(c) \/ PeerResets(c)
  BY DEF Peer
<1>2. UNCHANGED <<clients, hist, used, overrun>>
  BY <1>1 DEF Connect, PeerSends, PeerFinishes, PeerResets, PeerStep
<1>3. PICK o : o = net[c]
  OBVIOUS
<1>4. /\ DOMAIN net = Conns /\ "state" \in DOMAIN o /\ NetBytes(o)
      /\ HistBytes(hist[c]) /\ Unopened(o, hist[c])
  BY <1>3 DEF IndInv, Shapes, ByteInv, ByteTypes
<1>5. ASSUME NEW s \in Slots, used, clients[s].fd = c, ~hist[c].regrown
      PROVE  Stream(clients[s], o, hist[c]) /\ ClientBytes(clients[s])
  <2>1. c # NoFd
    BY ServerNumbers
  <2> QED BY <1>3, <1>5, <2>1 DEF ByteInv, BytesInOrder, Stream, ByteTypes
<1>6. CASE Connect(c)
  <2>1. PICK n : /\ n = [o EXCEPT !.state = "backlog"]
                /\ \A d \in Conns : net'[d] = IF d = c THEN n ELSE net[d]
    BY <1>3, <1>4, <1>6 DEF Connect
  <2>2. /\ NetBytes(n) /\ n.pending = o.pending /\ n.sent = o.sent /\ n.rst = o.rst
        /\ n.got = o.got
    BY <1>4, <2>1 DEF NetBytes
  <2>3. Unopened(n, hist[c])
    <3>1. o.state = "none"
      BY <1>3, <1>6 DEF Connect
    <3> QED BY <1>4, <2>2, <3>1 DEF Unopened
  <2>4. \A s \in Slots : used /\ clients[s].fd = c /\ ~hist[c].regrown =>
                            Stream(clients[s], n, hist[c])
    BY <1>5, <2>2 DEF Stream
  <2> QED BY <1>2, <2>1, <2>2, <2>3, <2>4, OneNet
<1>7. CASE PeerSends(c)
  <2>1. PICK r : r = Following(o.sent, Segment)
    OBVIOUS
  <2>2. PICK p, m : p = o.pending \o r /\ m = o.sent + Segment
    OBVIOUS
  <2>3. PICK n : /\ n = [o EXCEPT !.sent = m, !.pending = p]
                /\ \A d \in Conns : net'[d] = IF d = c THEN n ELSE net[d]
    BY <1>3, <1>4, <1>7, <2>1, <2>2 DEF PeerSends, Following
  <2>4. ~o.rst /\ Segment \in Nat /\ o.sent \in Nat /\ o.pending \in Seq(Int)
    BY <1>3, <1>4, <1>7, ServerAssumption DEF PeerSends, Reachable, NetBytes
  <2>5. p \in Seq(Int)
    <3>1. r \in Seq(Int)
      <4>1. \A i \in 1 .. Segment : o.sent + i \in Int
        BY <2>4
      <4> QED BY <2>1, <2>4, <4>1 DEF Following
    <3> QED BY <2>2, <2>4, <3>1, BytesJoin, Zenon
  <2>6. /\ NetBytes(n) /\ n.pending = p /\ n.sent = m /\ n.rst = o.rst
        /\ n.got = o.got /\ n.state = o.state
    BY <1>4, <2>2, <2>3, <2>4, <2>5 DEF NetBytes
  <2>7. Unopened(n, hist[c])
    <3> SUFFICES ASSUME o.state \in {"none", "backlog"}
                 PROVE  p = Numbers(Len(p)) /\ Len(p) = m
      BY <1>4, <2>6 DEF Unopened
    <3>1. o.pending = Numbers(Len(o.pending)) /\ Len(o.pending) = o.sent
      BY <1>4, <2>4 DEF Unopened
    <3>2. Len(r) = Segment /\ p = Numbers(m)
      <4>1. o.pending = Numbers(o.sent)
        BY <3>1
      <4>2. Len(r) = Segment /\ o.pending \o r = Numbers(o.sent + Segment)
        BY <2>1, <2>4, <4>1, NumbersGoOn
      <4> QED BY <2>2, <4>2
    <3>3. Len(p) = m
      BY <2>2, <2>4, <3>2, NumbersAreSeq
    <3> QED BY <3>2, <3>3
  <2>8. ASSUME NEW s \in Slots, used, clients[s].fd = c, ~hist[c].regrown
        PROVE  Stream(clients[s], n, hist[c])
    <3>1. Stream(clients[s], o, hist[c]) /\ ClientBytes(clients[s])
      BY <1>5, <2>8
    <3>2. PICK x : x = hist[c].received \o clients[s].input.bytes
      OBVIOUS
    <3>3. x \in Seq(Int)
      <4>1. hist[c].received \in Seq(Int) /\ clients[s].input.bytes \in Seq(Int)
        BY <1>4, <3>1 DEF HistBytes, ClientBytes, Queue
      <4> QED BY <3>2, <4>1, BytesJoin, Zenon
    <3>4. x \o o.pending = Numbers(Len(x \o o.pending)) /\ Len(x \o o.pending) = o.sent
      BY <2>4, <3>1, <3>2 DEF Stream
    <3>5. x \o p = Numbers(Len(x \o p)) /\ Len(x \o p) = m
      <4>1. x \o o.pending = Numbers(o.sent)
        BY <3>4
      <4>2. x \o (o.pending \o r) = Numbers(o.sent + Segment)
        BY <2>1, <2>4, <3>3, <4>1, StreamGrows
      <4>3. x \o p = Numbers(m) /\ m \in Nat
        BY <2>2, <2>4, <4>2
      <4> QED BY <4>3, NumbersAreSeq
    <3> QED BY <2>6, <3>1, <3>2, <3>5 DEF Stream
  <2> QED BY <1>2, <2>3, <2>6, <2>7, <2>8, OneNet
<1>8. CASE PeerFinishes(c)
  <2>1. PICK n : /\ n = [o EXCEPT !.fin = TRUE]
                /\ \A d \in Conns : net'[d] = IF d = c THEN n ELSE net[d]
    BY <1>3, <1>4, <1>8 DEF PeerFinishes
  <2>2. /\ NetBytes(n) /\ n.pending = o.pending /\ n.sent = o.sent /\ n.rst = o.rst
        /\ n.got = o.got /\ n.state = o.state
    BY <1>4, <2>1 DEF NetBytes
  <2>3. Unopened(n, hist[c])
    BY <1>4, <2>2 DEF Unopened
  <2>4. \A s \in Slots : used /\ clients[s].fd = c /\ ~hist[c].regrown =>
                            Stream(clients[s], n, hist[c])
    BY <1>5, <2>2 DEF Stream
  <2> QED BY <1>2, <2>1, <2>2, <2>3, <2>4, OneNet
<1>9. CASE PeerResets(c)
  <2>1. PICK left \in {o.pending, <<>>} :
           net' = [net EXCEPT ![c].rst = TRUE, ![c].pending = left]
    BY <1>3, <1>9 DEF PeerResets
  <2>2. PICK n : /\ n = [o EXCEPT !.rst = TRUE, !.pending = left]
                /\ \A d \in Conns : net'[d] = IF d = c THEN n ELSE net[d]
    BY <1>3, <1>4, <2>1
  <2>3. left \in Seq(Int)
    <3>1. o.pending \in Seq(Int) /\ <<>> \in Seq(Int)
      BY <1>4 DEF NetBytes
    <3> QED BY <2>1, <3>1
  <2>4. NetBytes(n) /\ n.pending = left /\ n.rst /\ n.got = o.got /\ n.state = o.state
    BY <1>4, <2>2, <2>3 DEF NetBytes
  <2>5. Unopened(n, hist[c])
    <3>1. <<>> = Numbers(Len(<<>>))
      BY EmptyNumbers
    <3> QED BY <1>4, <2>1, <2>4, <3>1 DEF Unopened
  <2>6. ASSUME NEW s \in Slots, used, clients[s].fd = c, ~hist[c].regrown
        PROVE  Stream(clients[s], n, hist[c])
    <3>1. Stream(clients[s], o, hist[c]) /\ ClientBytes(clients[s])
      BY <1>5, <2>6
    <3>2. PICK x : x = hist[c].received \o clients[s].input.bytes
      OBVIOUS
    <3>3. x \in Seq(Int)
      <4>1. hist[c].received \in Seq(Int) /\ clients[s].input.bytes \in Seq(Int)
        BY <1>4, <3>1 DEF HistBytes, ClientBytes, Queue
      <4> QED BY <3>2, <4>1, BytesJoin, Zenon
    <3>4. x \o o.pending = Numbers(Len(x \o o.pending)) /\ o.pending \in Seq(Int)
      BY <1>4, <3>1, <3>2 DEF Stream, NetBytes
    <3>5. x \o left = Numbers(Len(x \o left))
      <4>1. CASE left = o.pending
        BY <3>4, <4>1
      <4>2. CASE left = <<>>
        <5>1. x \o <<>> = x
          BY <3>3, ConcatEmptySeq
        <5>2. x = Numbers(Len(x))
          BY <3>3, <3>4, NumbersFront
        <5> QED BY <4>2, <5>1, <5>2
      <4> QED BY <2>1, <4>1, <4>2
    <3> QED BY <2>4, <3>1, <3>2, <3>5 DEF Stream
  <2> QED BY <1>2, <2>2, <2>4, <2>5, <2>6, OneNet
<1> QED BY <1>1, <1>6, <1>7, <1>8, <1>9
-----------------------------------------------------------------------------
(* A recv moves bytes along the stream. *)
LEMMA ReceiveKeepsByteInv ==
    ASSUME IndInv, ByteInv, ~overrun, Receive
    PROVE  ByteInv'
<1>1. used' = used /\ overrun' = overrun /\ poll.pc = "input" /\ poll.polled # {}
  BY DEF Receive
<1>2. PICK s \in Slots : s = poll.turn /\ used /\ clients[s].state # "FREE"
  BY <1>1, TurnIsOccupied
<1>3. PICK a0, c, n0, h0 : a0 = clients[s] /\ c = a0.fd /\ n0 = net[c] /\ h0 = hist[c]
  OBVIOUS
<1>4. /\ c \in Conns /\ {"state", "gen", "fd"} \subseteq DOMAIN a0 /\ ClientBytes(a0)
      /\ "state" \in DOMAIN n0 /\ NetBytes(n0) /\ n0.state = "accepted" /\ HistBytes(h0)
      /\ \A t \in Slots : t # s => clients[t].fd # c
      /\ ~h0.regrown => Stream(a0, n0, h0)
  BY <1>2, <1>3, StreamFields
<1>5. DOMAIN clients = Slots /\ DOMAIN net = Conns /\ DOMAIN hist = Conns
  BY DEF IndInv, Shapes, ByteInv, ByteTypes
<1>6. PICK q : q = ensure_min_free_space(a0.input, MinFree)
  OBVIOUS
<1>7. /\ q \in Queue /\ free_space(q) \in Nat
      /\ ~ResizePartlyRead(a0.input, MinFree) => q.bytes = a0.input.bytes
  BY <1>4, <1>6, RoomIsMade, ServerAssumption DEF ClientBytes
<1>8. PICK i, j : i = free_space(q) /\ j = Len(n0.pending)
  OBVIOUS
<1>9. i \in Nat /\ j \in Nat /\ n0.pending \in Seq(Int)
  BY <1>4, <1>7, <1>8 DEF NetBytes
<1>10. PICK k : k = Min({i, j})
  OBVIOUS
<1>11. k \in 0 .. Len(n0.pending) /\ k <= free_space(q)
  <2>1. Min({i, j}) \in {i, j} /\ Min({i, j}) <= i /\ Min({i, j}) <= j
    <3>1. i \in Int /\ j \in Int
      BY <1>9
    <3> QED BY <3>1, MinOfTwo
  <2>2. k \in {i, j} /\ k <= i /\ k <= j
    BY <1>10, <2>1
  <2> QED BY <1>8, <1>9, <2>2
<1>12. PICK u, v : u = SubSeq(n0.pending, 1, k) /\ v = SubSeq(n0.pending, k + 1, Len(n0.pending))
  OBVIOUS
<1>13. u \in Seq(Int) /\ Len(u) = k /\ v \in Seq(Int)
  BY <1>9, <1>11, <1>12, CutInTwo
<1>14. PICK r : r = end_write(q, u)
  OBVIOUS
<1>15. r \in Queue /\ r.bytes = q.bytes \o u
  BY <1>7, <1>11, <1>13, <1>14, WritesAppend
<1>16. PICK g \in BOOLEAN : g = (h0.regrown \/ ResizePartlyRead(a0.input, MinFree))
  OBVIOUS
<1>17. PICK a, n, h : /\ a = [a0 EXCEPT !.input = r]
                      /\ n = [n0 EXCEPT !.pending = v]
                      /\ h = [h0 EXCEPT !.regrown = g]
  OBVIOUS
<1>18. /\ clients' = [clients EXCEPT ![s].input = r]
       /\ net' = [net EXCEPT ![c].pending = v]
       /\ hist' = [hist EXCEPT ![c].regrown = g]
  <2>1. /\ clients' = [clients EXCEPT ![s].input = r]
        /\ net' = [net EXCEPT ![c].pending = v]
    BY <1>2, <1>3, <1>6, <1>8, <1>10, <1>12, <1>14, Zenon DEF Receive
  <2>2. hist' = [hist EXCEPT ![c].regrown = @ \/ ResizePartlyRead(a0.input, MinFree)]
    BY <1>2, <1>3 DEF Receive
  <2>3. hist' = [hist EXCEPT ![c].regrown = g]
    BY <1>3, <1>16, <2>2
  <2> QED BY <2>1, <2>3
<1>19. /\ DOMAIN hist' = Conns
       /\ \A t \in Slots : clients'[t] = IF t = s THEN a ELSE clients[t]
       /\ \A d \in Conns : net'[d] = IF d = c THEN n ELSE net[d]
       /\ \A d \in Conns : hist'[d] = IF d = c THEN h ELSE hist[d]
  BY <1>3, <1>5, <1>17, <1>18
<1>20. ClientBytes(a) /\ a.fd = c /\ a.input = r /\ a.output = a0.output
  BY <1>3, <1>4, <1>15, <1>17 DEF ClientBytes
<1>21. /\ NetBytes(n) /\ n.state = "accepted" /\ n.pending = v /\ n.sent = n0.sent
       /\ n.rst = n0.rst /\ n.got = n0.got
  BY <1>4, <1>13, <1>17 DEF NetBytes
<1>22. HistBytes(h) /\ h.regrown = g /\ h.received = h0.received /\ h.written = h0.written
  BY <1>4, <1>17 DEF HistBytes
<1>23. ASSUME ~h.regrown PROVE Stream(a, n, h)
  <2>1. Stream(a0, n0, h0) /\ q.bytes = a0.input.bytes
    BY <1>4, <1>7, <1>16, <1>22, <1>23
  <2>2. PICK x, b, p : x = h0.received /\ b = a0.input.bytes /\ p = n0.pending
    OBVIOUS
  <2>3. x \in Seq(Int) /\ b \in Seq(Int) /\ p \in Seq(Int) /\ k \in 0 .. Len(p)
    BY <1>4, <1>9, <1>11, <2>2 DEF HistBytes, ClientBytes, Queue
  <2>4. x \o (b \o u) \o v = x \o b \o p
    <3>1. x \o (b \o SubSeq(p, 1, k)) \o SubSeq(p, k + 1, Len(p)) = x \o b \o p
      BY <2>3, StreamMoves, Zenon
    <3> QED BY <1>12, <2>2, <3>1
  <2>5. h.received \o a.input.bytes \o n.pending = h0.received \o a0.input.bytes \o n0.pending
    BY <1>15, <1>20, <1>21, <1>22, <2>1, <2>2, <2>4
  <2> QED BY <1>20, <1>21, <1>22, <2>1, <2>5 DEF Stream
<1>24. Unopened(n, h)
  BY <1>21 DEF Unopened
<1> QED BY <1>1, <1>4, <1>19, <1>20, <1>21, <1>22, <1>23, <1>24, OneStream

(* The rest of an input turn changes no bytes unless a partly read queue   *)
(* is resized.                                                             *)
LEMMA InputKeepsByteInv ==
    ASSUME IndInv, ByteInv, ~overrun, Input
    PROVE  ByteInv'
<1>1. /\ used' = used /\ overrun' = overrun /\ poll.pc = "input" /\ poll.polled # {}
      /\ net' = net
  BY Zenon DEF Input
<1>2. PICK s \in Slots : s = poll.turn /\ used /\ clients[s].state # "FREE"
  BY <1>1, TurnIsOccupied
<1>3. PICK a0, c, n, h0 : a0 = clients[s] /\ c = a0.fd /\ n = net[c] /\ h0 = hist[c]
  OBVIOUS
<1>4. /\ c \in Conns /\ {"state", "gen", "fd"} \subseteq DOMAIN a0 /\ ClientBytes(a0)
      /\ NetBytes(n) /\ n.state = "accepted" /\ HistBytes(h0)
      /\ \A t \in Slots : t # s => clients[t].fd # c
      /\ ~h0.regrown => Stream(a0, n, h0)
  BY <1>2, <1>3, StreamFields
<1>5. DOMAIN clients = Slots /\ DOMAIN net = Conns /\ DOMAIN hist = Conns
  BY DEF IndInv, Shapes, ByteInv, ByteTypes
<1>6. CASE ~Readable(poll.turn)
  <2>1. clients' = clients /\ hist' = hist
    BY <1>6 DEF Input
  <2> QED BY <1>1, <2>1, StillStreams
<1>7. CASE Readable(poll.turn)
  <2>1. PICK q : q = ensure_min_free_space(a0.input, MinFree)
    OBVIOUS
  <2>2. q \in Queue /\ (~ResizePartlyRead(a0.input, MinFree) => q.bytes = a0.input.bytes)
    BY <1>4, <2>1, RoomIsMade, ServerAssumption DEF ClientBytes
  <2> DEFINE hangup == net[clients[s].fd].rst \/ net[clients[s].fd].fin
  <2>3. PICK data :
          /\ clients' = [clients EXCEPT
                           ![s].input = ensure_min_free_space(clients[s].input, MinFree),
                           ![s].state = IF hangup THEN "HANGUP" ELSE @]
          /\ hist' = [hist EXCEPT ![clients[s].fd].pushed = @ \o InputEvents(s, data, hangup),
                                  ![clients[s].fd].regrown =
                                     @ \/ ResizePartlyRead(clients[s].input, MinFree)]
    BY <1>2, <1>7, ZenonT(40) DEF Input
  <2>4. PICK state, pushed : /\ state = IF hangup THEN "HANGUP" ELSE clients[s].state
                             /\ pushed = h0.pushed \o InputEvents(s, data, hangup)
    OBVIOUS
  <2>5. PICK g \in BOOLEAN : g = (h0.regrown \/ ResizePartlyRead(a0.input, MinFree))
    OBVIOUS
  <2>6. PICK a, h : /\ a = [a0 EXCEPT !.input = q, !.state = state]
                    /\ h = [h0 EXCEPT !.pushed = pushed, !.regrown = g]
    OBVIOUS
  <2>7. \A t \in Slots : clients'[t] = IF t = s THEN a ELSE clients[t]
    <3>1. clients' = [clients EXCEPT ![s].input = q, ![s].state = state]
      BY <1>3, <2>1, <2>3, <2>4, Zenon
    <3> QED BY <1>3, <1>5, <2>6, <3>1
  <2>8. DOMAIN hist' = Conns /\ \A d \in Conns : hist'[d] = IF d = c THEN h ELSE hist[d]
    <3>1. hist' = [hist EXCEPT ![c].pushed = pushed, ![c].regrown = g]
      <4> HIDE DEF hangup
      <4>1. hist' = [hist EXCEPT ![c].pushed = h0.pushed \o InputEvents(s, data, hangup),
                                 ![c].regrown = h0.regrown \/ ResizePartlyRead(a0.input, MinFree)]
        BY <1>3, <2>3
      <4> QED BY <2>4, <2>5, <4>1
    <3> QED BY <1>3, <1>5, <2>6, <3>1
  <2>9. \A d \in Conns : net'[d] = IF d = c THEN n ELSE net[d]
    BY <1>1, <1>3
  <2>10. ClientBytes(a) /\ a.fd = c /\ a.input = q /\ a.output = a0.output
    BY <1>3, <1>4, <2>2, <2>6 DEF ClientBytes
  <2>11. HistBytes(h) /\ h.regrown = g /\ h.received = h0.received /\ h.written = h0.written
    BY <1>4, <2>6 DEF HistBytes
  <2>12. ASSUME ~h.regrown PROVE Stream(a, n, h)
    <3>1. Stream(a0, n, h0) /\ q.bytes = a0.input.bytes
      BY <1>4, <2>2, <2>5, <2>11, <2>12
    <3> QED BY <2>10, <2>11, <3>1 DEF Stream
  <2>13. Unopened(n, h)
    BY <1>4 DEF Unopened
  <2> HIDE DEF hangup
  <2> QED BY <1>1, <1>4, <2>7, <2>8, <2>9, <2>10, <2>11, <2>12, <2>13, OneStream
<1> QED BY <1>6, <1>7

(* Bytes that are sent go from the output queue to the peer. *)
LEMMA SentBytes ==
    ASSUME NEW x \in Seq(Int), NEW b \in Seq(Int), NEW k \in 0 .. Len(b)
    PROVE  /\ x \o SubSeq(b, 1, k) \in Seq(Int)
           /\ (x \o SubSeq(b, 1, k)) \o SubSeq(b, k + 1, Len(b)) = x \o b
<1>1. PICK u, v : u = SubSeq(b, 1, k) /\ v = SubSeq(b, k + 1, Len(b))
  OBVIOUS
<1>2. u \in Seq(Int) /\ v \in Seq(Int) /\ u \o v = b
  BY <1>1, CutInTwo
<1>3. x \o u \in Seq(Int)
  BY <1>2, BytesJoin, Zenon
<1>4. (x \o u) \o v = x \o (u \o v)
  BY <1>2, BytesAssociate
<1> QED BY <1>1, <1>2, <1>3, <1>4

(* A structure that was freed has empty queues and no connection, and a    *)
(* connection that was closed keeps what its peer got.                     *)
LEMMA FreedBytes ==
    /\ \A s : ClientBytes(free_client(s)) /\ free_client(s).fd = NoFd
    /\ \A n : NetBytes(n) => /\ NetBytes(Closed(n)) /\ Closed(n).state = "closed"
                             /\ Closed(n).got = n.got
    /\ \A h : HistBytes(h) => /\ HistBytes(Ended(h)) /\ Ended(h).regrown = h.regrown
                              /\ Ended(h).sendfailed = h.sendfailed
<1>1. <<>> \in Seq(Int) /\ Len(<<>>) = 0
  OBVIOUS
<1>2. byte_queue_init \in Queue
  BY <1>1 DEF byte_queue_init, Queue
<1>3. ASSUME NEW s PROVE ClientBytes(free_client(s)) /\ free_client(s).fd = NoFd
  <2>1. PICK g, q : g = NextGen(clients[s].gen) /\ q = byte_queue_init
    OBVIOUS
  <2>2. free_client(s) = [NewClient EXCEPT !.gen = g]
    BY <2>1 DEF free_client
  <2>3. NewClient = [state |-> "FREE", gen |-> 1, fd |-> NoFd, input |-> q, output |-> q]
    BY <2>1 DEF NewClient
  <2>4. /\ {"input", "output"} \subseteq DOMAIN free_client(s) /\ free_client(s).fd = NoFd
        /\ free_client(s).input = q /\ free_client(s).output = q
    BY <2>2, <2>3
  <2> QED BY <1>2, <2>1, <2>4 DEF ClientBytes
<1>4. ASSUME NEW n, NetBytes(n)
      PROVE  NetBytes(Closed(n)) /\ Closed(n).state = "closed" /\ Closed(n).got = n.got
  <2>1. PICK b \in Seq(Int) : b = n.got
    BY <1>4 DEF NetBytes
  <2>2. Closed(n) = [NewConn EXCEPT !.state = "closed", !.got = b]
    BY <2>1 DEF Closed
  <2> QED BY <1>1, <2>1, <2>2 DEF NewConn, NetBytes
<1>5. ASSUME NEW h, HistBytes(h)
      PROVE  /\ HistBytes(Ended(h)) /\ Ended(h).regrown = h.regrown
             /\ Ended(h).sendfailed = h.sendfailed
  BY <1>1, <1>5 DEF Ended, HistBytes
<1> QED BY <1>3, <1>4, <1>5

(* The structure of client s is freed, its connection closed and its       *)
(* history ended.                                                          *)
FreesClient(s, c, n, h) ==
    /\ clients' = [clients EXCEPT ![s] = free_client(s)]
    /\ net' = [net EXCEPT ![c] = Closed(n)]
    /\ hist' = [hist EXCEPT ![c] = Ended(h)]

(* A client that is freed takes its streams with it. *)
LEMMA FreedStream ==
    ASSUME IndInv, ByteInv, ~overrun, overrun' = overrun, used, used' = used,
           NEW s \in Slots, clients[s].state # "FREE", NEW c, c = clients[s].fd,
           NEW n, NetBytes(n), NEW h, HistBytes(h), FreesClient(s, c, n, h)
    PROVE  ByteInv'
<1>1. PICK a, m, e : a = free_client(s) /\ m = Closed(n) /\ e = Ended(h)
  OBVIOUS
<1>2. /\ ClientBytes(a) /\ a.fd = NoFd /\ NetBytes(m) /\ m.state = "closed" /\ HistBytes(e)
  BY <1>1, FreedBytes
<1>3. c \in Conns /\ \A t \in Slots : t # s => clients[t].fd # c
  BY StreamFields
<1>4. DOMAIN clients = Slots /\ DOMAIN net = Conns /\ DOMAIN hist = Conns
  BY DEF IndInv, Shapes, ByteInv, ByteTypes
<1>5. /\ DOMAIN hist' = Conns
      /\ \A t \in Slots : clients'[t] = IF t = s THEN a ELSE clients[t]
      /\ \A d \in Conns : net'[d] = IF d = c THEN m ELSE net[d]
      /\ \A d \in Conns : hist'[d] = IF d = c THEN e ELSE hist[d]
  BY <1>1, <1>3, <1>4 DEF FreesClient
<1>6. NoFd # c
  BY <1>3, ServerNumbers
<1>7. Unopened(m, e)
  BY <1>2 DEF Unopened
<1>8. /\ used => \A t \in Slots : t # s => clients[t].fd # c
      /\ ~overrun' => ClientBytes(a) /\ NetBytes(m) /\ HistBytes(e) /\ Unopened(m, e)
      /\ overrun' => e.regrown
      /\ used /\ a.fd \notin {c, NoFd} => a = clients[s]
      /\ used /\ a.fd = c /\ ~e.regrown => Stream(a, m, e)
  BY <1>2, <1>3, <1>6, <1>7
<1> QED BY <1>3, <1>5, <1>8, OneStream
-----------------------------------------------------------------------------
(* What CloseFlushes says of a step *)
Flushes ==
    \A s \in Slots :
         LET c == clients[s].fd
         IN  clients[s].state \in {"USED", "CLOSE"} /\ clients'[s].state = "FREE"
             /\ used /\ used'
             /\ ~hist'[c].sendfailed /\ ~hist[c].regrown
             => net'[c].got = Numbers(hist[c].written)

(* A step that frees no client but s, and that one with its bytes flushed *)
LEMMA OneFlush ==
    ASSUME NEW s \in Slots, \A t \in Slots : t # s => clients'[t].state = clients[t].state,
           NEW c, c = clients[s].fd,
           clients'[s].state = "FREE" /\ ~hist'[c].sendfailed /\ ~hist[c].regrown =>
               clients[s].state \notin {"USED", "CLOSE"} \/ net'[c].got = Numbers(hist[c].written)
    PROVE  Flushes
  BY DEF Flushes

(* The output loop sends from the front of the queue, and frees a client   *)
(* that was closed when a send fails or everything was sent.               *)
LEMMA OutputKeepsByteInv ==
    ASSUME IndInv, ByteInv, ~overrun, Output
    PROVE  ByteInv' /\ Flushes
<1>1. used' = used /\ overrun' = overrun /\ poll.pc = "output" /\ poll.polled # {}
  BY Zenon DEF Output
<1>2. PICK s \in Slots : s = poll.turn /\ used /\ clients[s].state # "FREE"
  BY <1>1, TurnIsOccupied
<1>3. PICK a0, c, n0, h0 : a0 = clients[s] /\ c = a0.fd /\ n0 = net[c] /\ h0 = hist[c]
  OBVIOUS
<1>4. /\ c \in Conns /\ {"state", "gen", "fd"} \subseteq DOMAIN a0 /\ ClientBytes(a0)
      /\ "state" \in DOMAIN n0 /\ NetBytes(n0) /\ n0.state = "accepted" /\ HistBytes(h0)
      /\ \A t \in Slots : t # s => clients[t].fd # c
      /\ ~h0.regrown => Stream(a0, n0, h0)
  BY <1>2, <1>3, StreamFields
<1>5. DOMAIN clients = Slots /\ DOMAIN net = Conns /\ DOMAIN hist = Conns
  BY DEF IndInv, Shapes, ByteInv, ByteTypes
<1>6. CASE ~(Flushable(s) /\ "OUT" \in poll.revents[s])
  <2>1. clients' = clients /\ net' = net /\ hist' = hist
    BY <1>2, <1>6 DEF Output
  <2>2. ByteInv'
    BY <1>1, <2>1, StillStreams
  <2>3. Flushes
    BY <2>1 DEF Flushes
  <2> QED BY <2>2, <2>3
<1>7. CASE Flushable(s) /\ "OUT" \in poll.revents[s]
  <2> DEFINE q == clients[s].output
             freed(k, error) == clients[s].state = "CLOSE" /\ (error \/ k = used_space(q))
             lost(error) == clients[s].state # "CLOSE" /\ error
             types(error) == IF lost(error) THEN <<"DISCONNECT">> ELSE <<>>
             sent(k) == [net[clients[s].fd] EXCEPT !.got = @ \o SubSeq(q.bytes, 1, k)]
             told(error) == [hist[clients[s].fd] EXCEPT !.sendfailed = @ \/ error,
                                                        !.pushed = @ \o types(error)]
  <2>1. PICK error \in BOOLEAN, k \in 0 .. used_space(q) :
           /\ clients' = [clients EXCEPT ![s] =
                             IF freed(k, error) THEN free_client(s)
                             ELSE [clients[s] EXCEPT
                                     !.output = end_read(q, k),
                                     !.state = IF lost(error) THEN "HANGUP" ELSE @]]
           /\ net' = [net EXCEPT ![clients[s].fd] =
                         IF freed(k, error) THEN Closed(sent(k)) ELSE sent(k)]
           /\ hist' = [hist EXCEPT ![clients[s].fd] =
                          IF freed(k, error) THEN Ended(told(error)) ELSE told(error)]
    BY <1>2, <1>7, ZenonT(40) DEF Output
  <2>2. PICK b, got : b = a0.output.bytes /\ got = n0.got
    OBVIOUS
  <2>3. /\ b \in Seq(Int) /\ got \in Seq(Int) /\ a0.output \in Queue /\ Len(b) \in Nat
        /\ k \in 0 .. Len(b)
    BY <1>3, <1>4, <2>1, <2>2 DEF ClientBytes, NetBytes, Queue, used_space
  <2>4. PICK out, g : out = end_read(a0.output, k) /\ g = got \o SubSeq(b, 1, k)
    OBVIOUS
  <2>5. out \in Queue /\ out.bytes = SubSeq(b, k + 1, Len(b))
    BY <2>2, <2>3, <2>4, ReadsTake
  <2>6. g \in Seq(Int) /\ g \o out.bytes = got \o b
    BY <2>3, <2>4, <2>5, SentBytes
  <2>7. PICK n, h : n = sent(k) /\ h = told(error)
    OBVIOUS
  <2>8. /\ NetBytes(n) /\ n.state = "accepted" /\ n.pending = n0.pending /\ n.sent = n0.sent
        /\ n.rst = n0.rst /\ n.got = g
    <3>1. n = [n0 EXCEPT !.got = g]
      BY <1>3, <2>2, <2>4, <2>7
    <3> QED BY <1>4, <2>6, <3>1 DEF NetBytes
  <2>9. /\ HistBytes(h) /\ h.regrown = h0.regrown /\ h.received = h0.received
        /\ h.written = h0.written /\ (error => h.sendfailed)
    <3>1. PICK f \in BOOLEAN : f = (h0.sendfailed \/ error)
      OBVIOUS
    <3>2. PICK pushed : pushed = h0.pushed \o types(error)
      BY Zenon
    <3>3. h = [h0 EXCEPT !.sendfailed = f, !.pushed = pushed]
      BY <1>3, <2>7, <3>1, <3>2
    <3> QED BY <1>4, <3>1, <3>3 DEF HistBytes
  <2>10. CASE freed(k, error)
    <3>1. /\ clients' = [clients EXCEPT ![s] = free_client(s)]
          /\ net' = [net EXCEPT ![c] = Closed(n)]
          /\ hist' = [hist EXCEPT ![c] = Ended(h)]
      BY <1>3, <2>1, <2>7, <2>10, Zenon
    <3>2. ByteInv'
      <4>1. FreesClient(s, c, n, h)
        BY <3>1 DEF FreesClient
      <4> HIDE DEF q, freed, lost, types, sent, told
      <4> QED BY <1>1, <1>2, <1>3, <2>8, <2>9, <4>1, FreedStream
    <3>3. net'[c].got = g /\ hist'[c].sendfailed = h.sendfailed
      <4>1. Closed(n).got = n.got /\ Ended(h).sendfailed = h.sendfailed
        BY <2>8, <2>9, FreedBytes
      <4> QED BY <1>4, <1>5, <2>8, <3>1, <4>1
    <3>4. ASSUME ~hist'[c].sendfailed, ~hist[c].regrown PROVE net'[c].got = Numbers(hist[c].written)
      <4>1. k = Len(b)
        BY <1>3, <2>2, <2>9, <2>10, <3>3, <3>4 DEF used_space
      <4>2. SubSeq(b, 1, k) = b
        BY <2>3, <4>1, SubSeqFull, Zenon
      <4>3. got \o b = Numbers(h0.written)
        BY <1>3, <1>4, <2>2, <3>4 DEF Stream
      <4> QED BY <1>3, <2>4, <3>3, <4>2, <4>3
    <3>5. \A t \in Slots : t # s => clients'[t].state = clients[t].state
      BY <1>5, <3>1
    <3>6. Flushes
      BY <1>3, <3>4, <3>5, OneFlush
    <3> QED BY <3>2, <3>6
  <2>11. CASE ~freed(k, error)
    <3>1. PICK state : state = IF lost(error) THEN "HANGUP" ELSE clients[s].state
      OBVIOUS
    <3>2. PICK a : a = [a0 EXCEPT !.output = out, !.state = state]
      OBVIOUS
    <3>3. /\ clients' = [clients EXCEPT ![s] = a]
          /\ net' = [net EXCEPT ![c] = n]
          /\ hist' = [hist EXCEPT ![c] = h]
      BY <1>3, <2>1, <2>4, <2>7, <2>11, <3>1, <3>2, Zenon
    <3>4. state # "FREE"
      BY <1>2, <3>1
    <3>5. /\ ClientBytes(a) /\ a.fd = c /\ a.input = a0.input /\ a.output = out
          /\ a.state # "FREE"
      BY <1>3, <1>4, <2>5, <3>2, <3>4 DEF ClientBytes
    <3>6. /\ DOMAIN hist' = Conns
          /\ \A t \in Slots : clients'[t] = IF t = s THEN a ELSE clients[t]
          /\ \A d \in Conns : net'[d] = IF d = c THEN n ELSE net[d]
          /\ \A d \in Conns : hist'[d] = IF d = c THEN h ELSE hist[d]
      BY <1>4, <1>5, <3>3
    <3>7. ASSUME ~h.regrown PROVE Stream(a, n, h)
      <4>1. Stream(a0, n0, h0)
        BY <1>4, <2>9, <3>7
      <4>2. n.got \o a.output.bytes = n0.got \o a0.output.bytes
        BY <2>2, <2>6, <2>8, <3>5
      <4> QED BY <2>8, <2>9, <3>5, <4>1, <4>2 DEF Stream
    <3>8. Unopened(n, h)
      BY <2>8 DEF Unopened
    <3>9. ByteInv'
      <4> HIDE DEF q, freed, lost, types, sent, told
      <4> QED BY <1>1, <1>4, <2>8, <2>9, <3>5, <3>6, <3>7, <3>8, OneStream
    <3>10. \A t \in Slots : t # s => clients'[t].state = clients[t].state
      BY <3>6
    <3>11. clients'[s].state # "FREE"
      BY <3>5, <3>6
    <3>12. Flushes
      BY <3>10, <3>11, OneFlush
    <3> QED BY <3>9, <3>12
  <2> QED BY <2>10, <2>11
<1> QED BY <1>6, <1>7
-----------------------------------------------------------------------------
(* tcp_client_close frees a client at once when nothing is left to send. *)
LEMMA CloseKeepsByteInv ==
    ASSUME IndInv, ByteInv, ~overrun, NEW hd \in MadeHandles, tcp_client_close(hd)
    PROVE  ByteInv' /\ Flushes
<1>1. Idle /\ Usable(hd) /\ used' = used /\ overrun' = overrun
  BY DEF tcp_client_close
<1>2. PICK s \in Slots : s = client_from_handle(hd) /\ used /\ clients[s].state # "FREE"
  BY <1>1, UsableClient
<1>3. PICK a0, c, n0, h0 : a0 = clients[s] /\ c = a0.fd /\ n0 = net[c] /\ h0 = hist[c]
  OBVIOUS
<1>4. /\ c \in Conns /\ {"state", "gen", "fd"} \subseteq DOMAIN a0 /\ ClientBytes(a0)
      /\ "state" \in DOMAIN n0 /\ NetBytes(n0) /\ n0.state = "accepted" /\ HistBytes(h0)
      /\ \A t \in Slots : t # s => clients[t].fd # c
      /\ ~h0.regrown => Stream(a0, n0, h0)
  BY <1>2, <1>3, StreamFields
<1>5. DOMAIN clients = Slots /\ DOMAIN net = Conns /\ DOMAIN hist = Conns
  BY DEF IndInv, Shapes, ByteInv, ByteTypes
<1>6. PICK h : h = [h0 EXCEPT !.closed = TRUE]
  OBVIOUS
<1>7. /\ HistBytes(h) /\ h.regrown = h0.regrown /\ h.received = h0.received
      /\ h.written = h0.written
  BY <1>4, <1>6 DEF HistBytes
<1>8. CASE a0.state = "HANGUP" \/ used_space(a0.output) = 0
  <2>1. /\ clients' = [clients EXCEPT ![s] = free_client(s)]
        /\ net' = [net EXCEPT ![c] = Closed(n0)]
        /\ hist' = [hist EXCEPT ![c] = Ended(h)]
    BY <1>2, <1>3, <1>6, <1>8 DEF tcp_client_close
  <2>2. ByteInv'
    <3>1. FreesClient(s, c, n0, h)
      BY <2>1 DEF FreesClient
    <3> QED BY <1>1, <1>2, <1>3, <1>4, <1>7, <3>1, FreedStream
  <2>3. net'[c].got = n0.got
    <3>1. Closed(n0).got = n0.got
      BY <1>4, FreedBytes
    <3> QED BY <1>4, <1>5, <2>1, <3>1
  <2>4. ASSUME ~hist[c].regrown, clients[s].state \in {"USED", "CLOSE"}
        PROVE  net'[c].got = Numbers(hist[c].written)
    <3>1. n0.got \o a0.output.bytes = Numbers(h0.written)
      BY <1>3, <1>4, <2>4 DEF Stream
    <3>2. n0.got \in Seq(Int) /\ a0.output.bytes \in Seq(Int) /\ Len(a0.output.bytes) = 0
      BY <1>3, <1>4, <1>8, <2>4 DEF NetBytes, ClientBytes, Queue, used_space
    <3>3. a0.output.bytes = <<>>
      BY <3>2, EmptySeq
    <3>4. n0.got \o <<>> = n0.got
      BY <3>2, ConcatEmptySeq
    <3> QED BY <1>3, <2>3, <3>1, <3>3, <3>4, Zenon
  <2>5. \A t \in Slots : t # s => clients'[t].state = clients[t].state
    BY <1>5, <2>1
  <2>6. Flushes
    BY <1>3, <2>4, <2>5, OneFlush
  <2> QED BY <2>2, <2>6
<1>9. CASE ~(a0.state = "HANGUP" \/ used_space(a0.output) = 0)
  <2>1. PICK a : a = [a0 EXCEPT !.state = "CLOSE"]
    OBVIOUS
  <2>2. /\ clients' = [clients EXCEPT ![s] = a]
        /\ hist' = [hist EXCEPT ![c] = h]
        /\ net' = net
    <3>1. /\ clients' = [clients EXCEPT ![s].state = "CLOSE"]
          /\ hist' = [hist EXCEPT ![c] = h]
          /\ net' = net
      BY <1>2, <1>3, <1>6, <1>9 DEF tcp_client_close
    <3> QED BY <1>3, <2>1, <3>1
  <2>3. /\ ClientBytes(a) /\ a.fd = c /\ a.input = a0.input /\ a.output = a0.output
        /\ a.state # "FREE"
    BY <1>3, <1>4, <2>1 DEF ClientBytes
  <2>4. /\ DOMAIN hist' = Conns
        /\ \A t \in Slots : clients'[t] = IF t = s THEN a ELSE clients[t]
        /\ \A d \in Conns : net'[d] = IF d = c THEN n0 ELSE net[d]
        /\ \A d \in Conns : hist'[d] = IF d = c THEN h ELSE hist[d]
    BY <1>3, <1>4, <1>5, <2>2
  <2>5. ASSUME ~h.regrown PROVE Stream(a, n0, h)
    BY <1>4, <1>7, <2>3, <2>5 DEF Stream
  <2>6. Unopened(n0, h)
    BY <1>4 DEF Unopened
  <2>7. ByteInv'
    BY <1>1, <1>4, <1>7, <2>3, <2>4, <2>5, <2>6, OneStream
  <2>8. Flushes
    BY <2>3, <2>4, OneFlush
  <2> QED BY <2>7, <2>8
<1> QED BY <1>8, <1>9

(* A step that frees no client *)
LEMMA NothingFreed ==
    ASSUME \A s \in Slots : clients'[s].state = "FREE" => clients[s].state = "FREE"
    PROVE  Flushes
  BY DEF Flushes

(* tcp_client_read moves bytes from the input queue to the caller. *)
LEMMA ReadKeepsByteInv ==
    ASSUME IndInv, ByteInv, ~overrun, NEW hd \in MadeHandles, NEW k \in 1 .. Segment,
           tcp_client_read(hd, k)
    PROVE  ByteInv' /\ Flushes
<1>1. Idle /\ Usable(hd) /\ used' = used /\ overrun' = overrun /\ net' = net
  BY DEF tcp_client_read
<1>2. PICK s \in Slots : s = client_from_handle(hd) /\ used /\ clients[s].state # "FREE"
  BY <1>1, UsableClient
<1>3. PICK a0, c, n0, h0 : a0 = clients[s] /\ c = a0.fd /\ n0 = net[c] /\ h0 = hist[c]
  OBVIOUS
<1>4. /\ c \in Conns /\ {"state", "gen", "fd"} \subseteq DOMAIN a0 /\ ClientBytes(a0)
      /\ "state" \in DOMAIN n0 /\ NetBytes(n0) /\ n0.state = "accepted" /\ HistBytes(h0)
      /\ \A t \in Slots : t # s => clients[t].fd # c
      /\ ~h0.regrown => Stream(a0, n0, h0)
  BY <1>2, <1>3, StreamFields
<1>5. DOMAIN clients = Slots /\ DOMAIN net = Conns /\ DOMAIN hist = Conns
  BY DEF IndInv, Shapes, ByteInv, ByteTypes
<1>6. PICK b, x : b = a0.input.bytes /\ x = h0.received
  OBVIOUS
<1>7. /\ b \in Seq(Int) /\ Len(b) \in Nat /\ x \in Seq(Int) /\ n0.pending \in Seq(Int)
      /\ k \in 0 .. Len(b) /\ a0.input \in Queue
  <2>1. k <= used_space(a0.input) /\ k \in Nat
    BY <1>2, <1>3, ServerAssumption DEF tcp_client_read
  <2> QED BY <1>4, <1>6, <2>1 DEF ClientBytes, NetBytes, HistBytes, Queue, used_space
<1>8. PICK q, y : q = end_read(a0.input, k) /\ y = x \o SubSeq(b, 1, k)
  OBVIOUS
<1>9. q \in Queue /\ q.bytes = SubSeq(b, k + 1, Len(b))
  BY <1>6, <1>7, <1>8, ReadsTake
<1>10. y \in Seq(Int)
  BY <1>7, <1>8, SentBytes
<1>11. PICK a, h : a = [a0 EXCEPT !.input = q] /\ h = [h0 EXCEPT !.received = y]
  OBVIOUS
<1>12. clients' = [clients EXCEPT ![s] = a] /\ hist' = [hist EXCEPT ![c] = h]
  <2>1. /\ clients' = [clients EXCEPT ![s].input = q]
        /\ hist' = [hist EXCEPT ![c].received = y]
    BY <1>2, <1>3, <1>6, <1>8 DEF tcp_client_read
  <2> QED BY <1>3, <1>11, <2>1
<1>13. /\ ClientBytes(a) /\ a.fd = c /\ a.input = q /\ a.output = a0.output
       /\ a.state # "FREE"
  BY <1>2, <1>3, <1>4, <1>9, <1>11 DEF ClientBytes
<1>14. HistBytes(h) /\ h.regrown = h0.regrown /\ h.received = y /\ h.written = h0.written
  BY <1>4, <1>10, <1>11 DEF HistBytes
<1>15. /\ DOMAIN hist' = Conns
       /\ \A t \in Slots : clients'[t] = IF t = s THEN a ELSE clients[t]
       /\ \A d \in Conns : net'[d] = IF d = c THEN n0 ELSE net[d]
       /\ \A d \in Conns : hist'[d] = IF d = c THEN h ELSE hist[d]
  BY <1>1, <1>3, <1>4, <1>5, <1>12
<1>16. ASSUME ~h.regrown PROVE Stream(a, n0, h)
  <2>1. Stream(a0, n0, h0)
    BY <1>4, <1>14, <1>16
  <2>2. PICK p : p = n0.pending
    OBVIOUS
  <2>3. p \in Seq(Int)
    BY <1>7, <2>2
  <2>4. (x \o SubSeq(b, 1, k)) \o SubSeq(b, k + 1, Len(b)) \o p = x \o b \o p
    BY <1>7, <2>3, StreamMoves, Zenon
  <2>5. h.received \o a.input.bytes \o n0.pending = h0.received \o a0.input.bytes \o n0.pending
    BY <1>6, <1>8, <1>9, <1>13, <1>14, <2>2, <2>4
  <2> QED BY <1>13, <1>14, <2>1, <2>5 DEF Stream
<1>17. Unopened(n0, h)
  BY <1>4 DEF Unopened
<1>18. ByteInv'
  BY <1>1, <1>4, <1>13, <1>14, <1>15, <1>16, <1>17, OneStream
<1>19. Flushes
  BY <1>13, <1>15, OneFlush
<1> QED BY <1>18, <1>19

(* tcp_client_write appends the caller's next bytes to the output queue,   *)
(* and goes past its end only after a resize of a partly read queue.       *)
LEMMA WriteKeepsByteInv ==
    ASSUME IndInv, ByteInv, ~overrun, NEW hd \in MadeHandles, NEW k \in WriteSizes,
           tcp_client_write(hd, k)
    PROVE  ByteInv' /\ Flushes
<1>1. Idle /\ Usable(hd) /\ used' = used /\ net' = net
  BY DEF tcp_client_write
<1>2. PICK s \in Slots : s = client_from_handle(hd) /\ used /\ clients[s].state # "FREE"
  BY <1>1, UsableClient
<1>3. PICK a0, c, n0, h0 : a0 = clients[s] /\ c = a0.fd /\ n0 = net[c] /\ h0 = hist[c]
  OBVIOUS
<1>4. /\ c \in Conns /\ {"state", "gen", "fd"} \subseteq DOMAIN a0 /\ ClientBytes(a0)
      /\ "state" \in DOMAIN n0 /\ NetBytes(n0) /\ n0.state = "accepted" /\ HistBytes(h0)
      /\ \A t \in Slots : t # s => clients[t].fd # c
      /\ ~h0.regrown => Stream(a0, n0, h0)
  BY <1>2, <1>3, StreamFields
<1>5. DOMAIN clients = Slots /\ DOMAIN net = Conns /\ DOMAIN hist = Conns
  BY DEF IndInv, Shapes, ByteInv, ByteTypes
<1>6. PICK q, w : q = ensure_min_free_space(a0.output, k) /\ w = h0.written
  OBVIOUS
<1>7. k \in Nat /\ w \in Nat /\ a0.output \in Queue /\ n0.got \in Seq(Int)
  BY <1>4, <1>6, ServerAssumption DEF HistBytes, ClientBytes, NetBytes
<1>8. /\ q \in Queue /\ free_space(q) \in Nat
      /\ ~ResizePartlyRead(a0.output, k) => q.bytes = a0.output.bytes /\ free_space(q) >= k
  BY <1>6, <1>7, RoomIsMade
<1>9. PICK b : b = Following(w, k)
  OBVIOUS
<1>10. b \in Seq(Int) /\ Len(b) = k
  BY <1>7, <1>9, NumbersGoOn
<1>11. PICK r, m : r = end_write(q, b) /\ m = w + k
  OBVIOUS
<1>12. PICK g \in BOOLEAN : g = (h0.regrown \/ ResizePartlyRead(a0.output, k))
  OBVIOUS
<1>13. PICK a, h : a = [a0 EXCEPT !.output = r] /\ h = [h0 EXCEPT !.written = m, !.regrown = g]
  OBVIOUS
<1>14. /\ clients' = [clients EXCEPT ![s] = a] /\ hist' = [hist EXCEPT ![c] = h]
       /\ overrun' = (free_space(q) < k)
  <2>1. /\ clients' = [clients EXCEPT ![s].output = r]
        /\ overrun' = (free_space(q) < k)
    BY <1>2, <1>3, <1>6, <1>9, <1>11 DEF tcp_client_write, Following
  <2>2. hist' = [hist EXCEPT ![c].written = @ + k,
                             ![c].regrown = @ \/ ResizePartlyRead(a0.output, k)]
    BY <1>2, <1>3 DEF tcp_client_write
  <2>3. hist' = [hist EXCEPT ![c].written = m, ![c].regrown = g]
    BY <1>3, <1>6, <1>11, <1>12, <2>2
  <2> QED BY <1>3, <1>13, <2>1, <2>3
<1>15. a.fd = c /\ a.input = a0.input /\ a.output = r /\ a.state # "FREE"
  BY <1>2, <1>3, <1>4, <1>13 DEF ClientBytes
<1>16. HistBytes(h) /\ h.regrown = g /\ h.received = h0.received /\ h.written = m
  BY <1>4, <1>7, <1>11, <1>13 DEF HistBytes
<1>17. /\ DOMAIN hist' = Conns
       /\ \A t \in Slots : clients'[t] = IF t = s THEN a ELSE clients[t]
       /\ \A d \in Conns : net'[d] = IF d = c THEN n0 ELSE net[d]
       /\ \A d \in Conns : hist'[d] = IF d = c THEN h ELSE hist[d]
  BY <1>1, <1>3, <1>4, <1>5, <1>14
<1>18. overrun' => h.regrown
  <2>1. ASSUME ~ResizePartlyRead(a0.output, k) PROVE ~(free_space(q) < k)
    BY <1>7, <1>8, <2>1
  <2>2. overrun' => ResizePartlyRead(a0.output, k)
    BY <1>14, <2>1, Zenon
  <2> QED BY <1>12, <1>16, <2>2, Zenon
<1>19. ASSUME ~overrun' PROVE r \in Queue /\ r.bytes = q.bytes \o b
  <2>1. ~(free_space(q) < k)
    BY <1>14, <1>19, Zenon
  <2>2. Len(b) <= free_space(q)
    BY <1>7, <1>8, <1>10, <2>1
  <2> QED BY <1>8, <1>10, <1>11, <2>2, WritesAppend
<1>20. ~overrun' => ClientBytes(a)
  BY <1>4, <1>13, <1>15, <1>19 DEF ClientBytes
<1>21. ASSUME ~h.regrown PROVE Stream(a, n0, h)
  <2>1. Stream(a0, n0, h0) /\ q.bytes = a0.output.bytes /\ ~overrun'
    BY <1>4, <1>8, <1>12, <1>16, <1>18, <1>21
  <2>2. PICK x, p : x = n0.got /\ p = a0.output.bytes
    OBVIOUS
  <2>3. x \in Seq(Int) /\ p \in Seq(Int)
    BY <1>7, <2>2 DEF Queue
  <2>4. x \o p = Numbers(w)
    BY <1>6, <2>1, <2>2 DEF Stream
  <2>5. x \o (p \o b) = Numbers(m)
    <3>1. x \o (p \o Following(w, k)) = Numbers(w + k)
      BY <1>7, <2>3, <2>4, StreamGrows
    <3> QED BY <1>9, <1>11, <3>1
  <2>6. n0.got \o a.output.bytes = Numbers(h.written)
    BY <1>15, <1>16, <1>19, <2>1, <2>2, <2>5
  <2> QED BY <1>15, <1>16, <2>1, <2>6 DEF Stream
<1>22. Unopened(n0, h)
  BY <1>4 DEF Unopened
<1>23. ByteInv'
  BY <1>1, <1>4, <1>15, <1>16, <1>17, <1>18, <1>20, <1>21, <1>22, OneStream
<1>24. Flushes
  BY <1>15, <1>17, OneFlush
<1> QED BY <1>23, <1>24

(* A connection is accepted with empty queues, and with what its peer sent *)
(* in the meantime still pending; one that is closed again had no client.  *)
LEMMA AcceptKeepsByteInv ==
    ASSUME IndInv, ByteInv, ~overrun, Accept
    PROVE  ByteInv' /\ Flushes
<1>1. /\ used /\ poll.pc = "accept" /\ count < Capacity /\ Backlog # {}
      /\ used' = used /\ overrun' = overrun
  BY DEF Accept, MoreToAccept, IndInv, Stopped
<1>2. PICK c \in Conns : c = Min(Backlog) /\ net[c].state = "backlog"
  <2>1. Backlog \subseteq Nat
    BY ServerNumbers DEF Backlog
  <2>2. Min(Backlog) \in Backlog
    BY <1>1, <2>1, MinIsIn
  <2> QED BY <2>2 DEF Backlog
<1>3. PICK s \in Slots : /\ s = Min({t \in Slots : clients[t].state = "FREE"})
                         /\ clients[s].state = "FREE"
  <2>1. {t \in Slots : clients[t].state = "FREE"} # {}
    BY <1>1, FreeSlotLeft
  <2>2. {t \in Slots : clients[t].state = "FREE"} \subseteq Nat
    BY ServerNumbers
  <2>3. Min({t \in Slots : clients[t].state = "FREE"}) \in {t \in Slots : clients[t].state = "FREE"}
    BY <2>1, <2>2, MinIsIn
  <2> QED BY <2>3
<1>4. \A t \in Slots : clients[t].fd # c
  <2>1. \A t \in Slots : clients[t].fd # NoFd => net[clients[t].fd].state = "accepted"
    BY <1>1 DEF IndInv, Table
  <2> QED BY <1>2, <2>1, ServerNumbers
<1>5. PICK a0, n0, h0 : a0 = clients[s] /\ n0 = net[c] /\ h0 = hist[c]
  OBVIOUS
<1>6. /\ DOMAIN clients = Slots /\ DOMAIN net = Conns /\ DOMAIN hist = Conns
      /\ {"state", "gen", "fd"} \subseteq DOMAIN a0 /\ ClientBytes(a0)
      /\ "state" \in DOMAIN n0 /\ NetBytes(n0) /\ HistBytes(h0) /\ Unopened(n0, h0)
  BY <1>5 DEF IndInv, Shapes, ByteInv, ByteTypes
<1>7. \/ /\ net' = [net EXCEPT ![c].state = "accepted"]
         /\ clients' = [clients EXCEPT ![s].state = "USED", ![s].fd = c,
                                       ![s].input = byte_queue_init,
                                       ![s].output = byte_queue_init]
         /\ hist' = [hist EXCEPT ![c].pushed = <<"CONNECT">>]
      \/ net' = [net EXCEPT ![c] = Closed(@)] /\ clients' = clients /\ hist' = hist
  BY <1>2, <1>3, Zenon DEF Accept
<1>8. CASE /\ net' = [net EXCEPT ![c].state = "accepted"]
           /\ clients' = [clients EXCEPT ![s].state = "USED", ![s].fd = c,
                                         ![s].input = byte_queue_init,
                                         ![s].output = byte_queue_init]
           /\ hist' = [hist EXCEPT ![c].pushed = <<"CONNECT">>]
  <2>1. PICK q : q = byte_queue_init
    OBVIOUS
  <2>2. q \in Queue /\ q.bytes = <<>>
    <3>1. <<>> \in Seq(Int) /\ Len(<<>>) = 0
      OBVIOUS
    <3> QED BY <2>1, <3>1 DEF byte_queue_init, Queue
  <2>3. PICK pushed : pushed = <<"CONNECT">>
    OBVIOUS
  <2>4. PICK a, n, h :
           /\ a = [a0 EXCEPT !.state = "USED", !.fd = c, !.input = q, !.output = q]
           /\ n = [n0 EXCEPT !.state = "accepted"]
           /\ h = [h0 EXCEPT !.pushed = pushed]
    OBVIOUS
  <2>5. /\ clients' = [clients EXCEPT ![s] = a]
        /\ net' = [net EXCEPT ![c] = n]
        /\ hist' = [hist EXCEPT ![c] = h]
    BY <1>5, <1>8, <2>1, <2>3, <2>4
  <2>6. /\ DOMAIN hist' = Conns
        /\ \A t \in Slots : clients'[t] = IF t = s THEN a ELSE clients[t]
        /\ \A d \in Conns : net'[d] = IF d = c THEN n ELSE net[d]
        /\ \A d \in Conns : hist'[d] = IF d = c THEN h ELSE hist[d]
    BY <1>6, <2>5
  <2>7. ClientBytes(a) /\ a.fd = c /\ a.input = q /\ a.output = q /\ a.state = "USED"
    BY <1>6, <2>2, <2>4 DEF ClientBytes
  <2>8. /\ NetBytes(n) /\ n.state = "accepted" /\ n.pending = n0.pending /\ n.sent = n0.sent
        /\ n.rst = n0.rst /\ n.got = n0.got
    BY <1>6, <2>4 DEF NetBytes
  <2>9. HistBytes(h) /\ h.received = h0.received /\ h.written = h0.written
    BY <1>6, <2>4 DEF HistBytes
  <2>10. /\ h0.received = <<>> /\ h0.written = 0 /\ n0.got = <<>>
         /\ n0.pending = Numbers(Len(n0.pending)) /\ n0.pending \in Seq(Int)
         /\ ~n0.rst => Len(n0.pending) = n0.sent
    BY <1>2, <1>5, <1>6 DEF Unopened, NetBytes
  <2>11. Stream(a, n, h)
    <3>1. PICK p : p = n0.pending
      OBVIOUS
    <3>2. <<>> \o <<>> \o p = p /\ <<>> \o <<>> = <<>>
      BY <2>10, <3>1
    <3>3. h.received \o a.input.bytes \o n.pending = p
      BY <2>2, <2>7, <2>8, <2>9, <2>10, <3>1, <3>2
    <3>4. n.got \o a.output.bytes = Numbers(h.written)
      BY <2>2, <2>7, <2>8, <2>9, <2>10, <3>2, EmptyNumbers
    <3> QED BY <2>8, <2>10, <3>1, <3>3, <3>4 DEF Stream
  <2>12. Unopened(n, h)
    BY <2>8 DEF Unopened
  <2>13. ByteInv'
    BY <1>1, <1>4, <2>6, <2>7, <2>8, <2>9, <2>11, <2>12, OneStream
  <2>14. Flushes
    BY <2>6, <2>7, NothingFreed
  <2> QED BY <2>13, <2>14
<1>9. CASE net' = [net EXCEPT ![c] = Closed(@)] /\ clients' = clients /\ hist' = hist
  <2>1. PICK n : n = Closed(n0)
    OBVIOUS
  <2>2. NetBytes(n) /\ n.state = "closed"
    BY <1>6, <2>1, FreedBytes
  <2>3. \A d \in Conns : net'[d] = IF d = c THEN n ELSE net[d]
    BY <1>5, <1>6, <1>9, <2>1
  <2>4. Unopened(n, hist[c])
    BY <2>2 DEF Unopened
  <2>5. ByteInv'
    BY <1>1, <1>4, <1>9, <2>2, <2>3, <2>4, OneNet
  <2>6. Flushes
    BY <1>9, NothingFreed
  <2> QED BY <2>5, <2>6
<1> QED BY <1>7, <1>8, <1>9

(* A structure of a new server has empty queues and no connection. *)
LEMMA NewBytes == ClientBytes(NewClient) /\ NewClient.fd = NoFd
<1>1. <<>> \in Seq(Int) /\ Len(<<>>) = 0
  OBVIOUS
<1>2. PICK q : q = byte_queue_init
  OBVIOUS
<1>3. q \in Queue
  BY <1>1, <1>2 DEF byte_queue_init, Queue
<1>4. NewClient = [state |-> "FREE", gen |-> 1, fd |-> NoFd, input |-> q, output |-> q]
  BY <1>2 DEF NewClient
<1> QED BY <1>3, <1>4 DEF ClientBytes

(* A recv frees no client. *)
LEMMA ReceiveFreesNone ==
    ASSUME IndInv, Receive
    PROVE  Flushes
<1>1. poll.pc = "input" /\ poll.polled # {}
  BY DEF Receive
<1>2. PICK s \in Slots : s = poll.turn /\ used /\ clients[s].state # "FREE"
  BY <1>1, TurnIsOccupied
<1>3. PICK input : clients' = [clients EXCEPT ![s].input = input]
  BY <1>2, Zenon DEF Receive
<1>4. DOMAIN clients = Slots /\ "state" \in DOMAIN clients[s]
  BY DEF IndInv, Shapes
<1>5. \A t \in Slots : clients'[t].state = clients[t].state
  BY <1>3, <1>4
<1> QED BY <1>5, NothingFreed

(* The input loop hangs clients up and frees none. *)
LEMMA InputFreesNone ==
    ASSUME IndInv, Input
    PROVE  Flushes
<1>1. poll.pc = "input" /\ poll.polled # {}
  BY Zenon DEF Input
<1>2. PICK s \in Slots : s = poll.turn /\ used /\ clients[s].state # "FREE"
  BY <1>1, TurnIsOccupied
<1>3. DOMAIN clients = Slots /\ "state" \in DOMAIN clients[s]
  BY DEF IndInv, Shapes
<1>4. CASE ~Readable(poll.turn)
  <2>1. clients' = clients
    BY <1>4 DEF Input
  <2> QED BY <2>1, NothingFreed
<1>5. CASE Readable(poll.turn)
  <2> DEFINE hangup == net[clients[s].fd].rst \/ net[clients[s].fd].fin
  <2>1. clients' = [clients EXCEPT
                      ![s].input = ensure_min_free_space(clients[s].input, MinFree),
                      ![s].state = IF hangup THEN "HANGUP" ELSE @]
    BY <1>2, <1>5, Zenon DEF Input
  <2>2. PICK input, state : /\ input = ensure_min_free_space(clients[s].input, MinFree)
                            /\ state = IF hangup THEN "HANGUP" ELSE clients[s].state
    OBVIOUS
  <2>3. state # "FREE" /\ clients' = [clients EXCEPT ![s].input = input, ![s].state = state]
    BY <1>2, <2>1, <2>2
  <2> HIDE DEF hangup
  <2>4. \A t \in Slots : clients'[t].state = IF t = s THEN state ELSE clients[t].state
    BY <1>3, <2>3
  <2> QED BY <2>3, <2>4, NothingFreed
<1> QED BY <1>4, <1>5

(* tcp_server_create starts with empty queues and no connection. *)
LEMMA CreateKeepsByteInv ==
    ASSUME IndInv, ByteInv, ~overrun, tcp_server_create
    PROVE  ByteInv' /\ Flushes
<1>1. /\ ~used /\ overrun' = overrun /\ net' = net /\ hist' = hist
      /\ clients' = [s \in Slots |-> NewClient]
  BY DEF tcp_server_create
<1>2. \A s \in Slots : ClientBytes(clients'[s]) /\ clients'[s].fd = NoFd
  BY <1>1, NewBytes
<1>3. ByteTypes'
  <2>1. \A c \in Conns : NetBytes(net'[c]) /\ HistBytes(hist'[c]) /\ Unopened(net'[c], hist'[c])
    BY <1>1 DEF ByteInv, ByteTypes
  <2>2. DOMAIN hist' = Conns
    BY <1>1 DEF ByteInv, ByteTypes
  <2> QED BY <1>2, <2>1, <2>2 DEF ByteTypes, ClientBytes, NetBytes, HistBytes, Unopened, Numbers
<1>4. BytesInOrder'
  BY <1>1, <1>2 DEF BytesInOrder
<1>5. Flushes
  BY <1>1 DEF Flushes
<1> QED BY <1>3, <1>4, <1>5 DEF ByteInv

(* Of a connection that was not used yet there are no bytes. *)
LEMMA EmptyStreams == NetBytes(NewConn) /\ HistBytes(NoHistory) /\ Unopened(NewConn, NoHistory)
<1>1. PICK e \in Seq(Int) : e = <<>> /\ Len(e) = 0 /\ e = Numbers(Len(e))
  <2>1. <<>> \in Seq(Int) /\ Len(<<>>) = 0
    OBVIOUS
  <2> QED BY <2>1, EmptyNumbers
<1>2. /\ NewConn = [state |-> "none", sent |-> 0, pending |-> e,
                    fin |-> FALSE, rst |-> FALSE, got |-> e]
      /\ NoHistory = [pushed |-> e, received |-> e, written |-> 0,
                      closed |-> FALSE, sendfailed |-> FALSE, regrown |-> FALSE]
  BY <1>1 DEF NewConn, NoHistory
<1> QED BY <1>1, <1>2 DEF NetBytes, HistBytes, Unopened

(* tcp_server_delete closes connections; their streams end with the server. *)
LEMMA DeleteKeepsByteInv ==
    ASSUME IndInv, ByteInv, ~overrun, tcp_server_delete
    PROVE  ByteInv' /\ Flushes
<1>1. /\ used' = FALSE /\ overrun' = overrun /\ clients' = [s \in Slots |-> NewClient]
      /\ hist' = [c \in Conns |-> NoHistory]
      /\ \A c \in Conns : net'[c] = Forgotten \/ net'[c] = net[c]
  BY DEF tcp_server_delete
<1>2. ByteTypes
  BY DEF ByteInv
<1>3. ASSUME NEW c \in Conns
      PROVE  NetBytes(net'[c]) /\ HistBytes(hist'[c]) /\ Unopened(net'[c], hist'[c])
  <2>1. HistBytes(NoHistory) /\ NetBytes(NewConn) /\ NetBytes(net[c])
    BY <1>2, EmptyStreams DEF ByteTypes
  <2>2. hist'[c] = NoHistory
    BY <1>1
  <2>3. NoHistory.received = <<>> /\ NoHistory.written = 0
    BY DEF NoHistory
  <2>4. CASE net'[c] = Forgotten
    <3>1. NetBytes(Forgotten) /\ Forgotten.state = "closed"
      <4>1. Forgotten = [NewConn EXCEPT !.state = "closed"] /\ "state" \in DOMAIN NewConn
        BY DEF Forgotten, NewConn
      <4> QED BY <2>1, <4>1 DEF NetBytes
    <3> QED BY <2>1, <2>2, <2>4, <3>1 DEF Unopened
  <2>5. CASE net'[c] = net[c]
    <3>1. net[c].state \in {"none", "backlog"} => Unopened(net[c], NoHistory)
      BY <1>2, <2>3 DEF ByteTypes, Unopened
    <3>2. Unopened(net[c], NoHistory)
      BY <3>1 DEF Unopened
    <3> QED BY <2>1, <2>2, <2>5, <3>2
  <2> QED BY <1>1, <2>4, <2>5
<1>4. DOMAIN hist' = Conns /\ \A s \in Slots : ClientBytes(clients'[s])
  BY <1>1, NewBytes
<1>5. ByteTypes'
  BY <1>3, <1>4 DEF ByteTypes, ClientBytes, NetBytes, HistBytes, Unopened, Numbers
<1>6. BytesInOrder' /\ Flushes
  BY <1>1 DEF BytesInOrder, Flushes
<1> QED BY <1>5, <1>6 DEF ByteInv

(* Before the first server there are no bytes. *)
LEMMA InitByteInv == Init => ByteInv
<1> SUFFICES ASSUME Init PROVE ByteInv
  OBVIOUS
<1>1. /\ used = FALSE /\ overrun = FALSE /\ clients = [s \in Slots |-> NewClient]
      /\ net = [c \in Conns |-> NewConn] /\ hist = [c \in Conns |-> NoHistory]
  BY DEF Init
<1>2. \A s \in Slots : ClientBytes(clients[s])
  BY <1>1, NewBytes
<1>3. NetBytes(NewConn) /\ HistBytes(NoHistory) /\ Unopened(NewConn, NoHistory)
  BY EmptyStreams
<1>4. ByteTypes
  BY <1>1, <1>2, <1>3 DEF ByteTypes
<1>5. BytesInOrder
  BY <1>1 DEF BytesInOrder
<1> QED BY <1>4, <1>5 DEF ByteInv

(* Every step keeps the streams, and frees a client flushed. *)
LEMMA NextByteInv ==
    IndInv /\ StaleMade /\ ByteInv /\ [Next]_vars => ByteInv' /\ (Flushes \/ UNCHANGED vars)
<1> SUFFICES ASSUME IndInv, StaleMade, ByteInv, [Next]_vars
             PROVE  ByteInv' /\ (Flushes \/ UNCHANGED vars)
  OBVIOUS
<1>1. CASE UNCHANGED vars
  <2>1. /\ overrun' = overrun /\ used' = used /\ clients' = clients /\ net' = net
        /\ hist' = hist
    BY <1>1, ZenonT(40) DEF vars
  <2>2. (~overrun' => ByteTypes') /\ BytesInOrder'
    BY <2>1 DEF ByteInv, ByteTypes, BytesInOrder, ClientBytes, NetBytes, HistBytes, Unopened,
       Numbers
  <2> QED BY <1>1, <2>2 DEF ByteInv
<1>2. CASE Next
  <2>1. ~overrun
    BY <1>2 DEF Next
  <2>2. CASE Peer
    <3>1. clients' = clients
      BY <2>2 DEF Peer, Connect, PeerSends, PeerFinishes, PeerResets, PeerStep
    <3> QED BY <2>1, <2>2, <3>1, PeerKeepsByteInv, NothingFreed
  <2>3. CASE tcp_server_create
    BY <2>1, <2>3, CreateKeepsByteInv
  <2>4. CASE tcp_server_delete
    BY <2>1, <2>4, DeleteKeepsByteInv
  <2>5. CASE tcp_server_poll \/ LoopDone \/ tcp_server_event
    <3>1. /\ overrun' = overrun /\ used' = used /\ clients' = clients /\ net' = net
          /\ hist' = hist
      BY <2>5 DEF tcp_server_poll, LoopDone, tcp_server_event
    <3> QED BY <2>1, <3>1, StillStreams, NothingFreed
  <2>6. CASE Accept
    BY <2>1, <2>6, AcceptKeepsByteInv
  <2>7. CASE Receive
    BY <2>1, <2>7, ReceiveKeepsByteInv, ReceiveFreesNone
  <2>8. CASE Input
    BY <2>1, <2>8, InputKeepsByteInv, InputFreesNone
  <2>9. CASE Output
    BY <2>1, <2>9, OutputKeepsByteInv
  <2>10. CASE UseClient
    BY <2>1, <2>10, UsedAreMade, CloseKeepsByteInv, ReadKeepsByteInv, WriteKeepsByteInv
       DEF UseClient
  <2> QED BY <1>2, <2>2, <2>3, <2>4, <2>5, <2>6, <2>7, <2>8, <2>9, <2>10 DEF Next, PollStep
<1> QED BY <1>1, <1>2

(* The streams of every connection count in both directions, as long as no *)
(* write went past its buffer.                                             *)
THEOREM ByteInvInvariant == Spec => [](IndInv /\ StaleMade /\ ByteInv)
<1>1. IndInv /\ StaleMade /\ ByteInv /\ [Next]_vars => ByteInv'
  BY NextByteInv
<1> QED BY <1>1, IndInvInvariant, InitByteInv, PTL DEF Spec

(* For any sizes of reads, writes and queues, any number of connections    *)
(* and any interleaving with the network: no byte is lost, duplicated or   *)
(* reordered in either direction, and no write goes past the end of its    *)
(* buffer, unless byte_queue_ensure_min_free_space resized a queue that    *)
(* was partly read.                                                        *)
THEOREM BytesStayInOrder == Spec => []BytesInOrder
<1>1. ByteInv => BytesInOrder
  BY DEF ByteInv
<1> QED BY <1>1, ByteInvInvariant, PTL

(* A client freed by tcp_client_close or by the output loop without having *)
(* hung up got everything the caller wrote, unless a send failed.          *)
THEOREM ClosesFlush == Spec => CloseFlushes
<1>1. IndInv /\ StaleMade /\ ByteInv /\ [Next]_vars => [Flushes]_vars
  BY NextByteInv
<1>2. Spec => [][Flushes]_vars
  BY <1>1, ByteInvInvariant, PTL DEF Spec
<1> QED BY <1>2 DEF CloseFlushes, Flushes
=============================================================================
