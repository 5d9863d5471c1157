----------------------------- MODULE HttpProofs -----------------------------
(***************************************************************************)
(* Proofs about HttpServer, for any number of client structures, any       *)
(* connections and any input: the tables of the server agree, and its      *)
(* queue holds the clients that wait to be looked at.                      *)
(***************************************************************************)
EXTENDS HttpServer, ArithmeticLemmas, FunctionTheorems, SequenceTheorems, FiniteSetTheorems, TLAPS
-----------------------------------------------------------------------------
(* No generation has come around: no structure was used so often that it   *)
(* would start at 0 again.                                                 *)
NoWrap == \A s \in Slots : server.cs[s].gen + 1 # GenLimit
-----------------------------------------------------------------------------
(* The invariant *)
ClientFields == {"gen", "state", "pitem", "input", "output", "num_served", "minor",
                 "connheader", "content_length_offset", "content_offset",
                 "request_length", "keepalive"}

Entries == [fd : Conns, pollout : BOOLEAN, in : BOOLEAN, out : BOOLEAN]

IsServer(sv) ==
    /\ DOMAIN sv = {"cs", "ps", "pis", "free", "queue"}
    /\ DOMAIN sv.cs = Slots
    /\ \A s \in Slots : DOMAIN sv.cs[s] = ClientFields /\ sv.cs[s].gen \in Nat
    /\ sv.ps \in Seq(Entries)
    /\ sv.pis \in Seq(Slots)
    /\ sv.free \in [Slots -> Slots]
    /\ sv.queue \in Seq(Slots)

IsNet(nt) ==
    /\ DOMAIN nt = Conns
    /\ \A c \in Conns : /\ DOMAIN nt[c] = {"open", "script", "pending", "fin", "got"}
                        /\ nt[c].fin \in BOOLEAN

(* The structures in pis are where their pitem says, the others are on the *)
(* stack of free ones.                                                     *)
Tables(sv) ==
    /\ IsServer(sv)
    /\ Len(sv.pis) <= MAX_CLIENTS
    /\ Len(sv.ps) = Len(sv.pis)
    /\ \A i \in 1 .. Len(sv.pis) : /\ sv.cs[sv.pis[i]].pitem = i
                                   /\ sv.cs[sv.pis[i]].state # "FREE"
    /\ \A i \in 0 .. MAX_CLIENTS - Len(sv.pis) - 1 : sv.cs[sv.free[i]].state = "FREE"
    /\ \A i, j \in 0 .. MAX_CLIENTS - Len(sv.pis) - 1 : sv.free[i] = sv.free[j] => i = j
    /\ \A s \in Slots : \/ \E i \in 1 .. Len(sv.pis) : sv.pis[i] = s
                        \/ \E i \in 0 .. MAX_CLIENTS - Len(sv.pis) - 1 : sv.free[i] = s

(* The connection c is in the backlog bl, behind its first k. *)
Waits(bl, k, c) == \E j \in k + 1 .. Len(bl) : bl[j] = c

(* Open connections wait or have one entry in ps. *)
Links(sv, nt, bl, k) ==
    /\ \A i \in 1 .. Len(sv.ps) : nt[sv.ps[i].fd].open = "yes" /\ ~Waits(bl, k, sv.ps[i].fd)
    /\ \A i, j \in 1 .. Len(sv.ps) : sv.ps[i].fd = sv.ps[j].fd => i = j
    /\ \A c \in Conns : nt[c].open = "yes" =>
          Waits(bl, k, c) \/ \E i \in 1 .. Len(sv.ps) : sv.ps[i].fd = c
    /\ \A i \in k + 1 .. Len(bl) : nt[bl[i]].open = "yes"
    /\ \A i, j \in k + 1 .. Len(bl) : bl[i] = bl[j] => i = j

Responding == {"STATUS", "HEADER", "CONTENT"}

(* A handle that resolves names a client whose response is being built. *)
Handles(sv, kn) ==
    \A h \in kn : /\ h.idx \in Slots /\ h.gen \in Nat /\ h.gen <= sv.cs[h.idx].gen
                  /\ h.gen = sv.cs[h.idx].gen => sv.cs[h.idx].state \in Responding

(* Why a structure is in the queue *)
InQueue(client, s, lo) ==
    \/ client.state = "QUEUED" /\ find(client.input)
    \/ client.state = "FREE" /\ ~find(client.input) /\ s \in lo

Queue(sv, lo) ==
    /\ \A i, j \in 1 .. Len(sv.queue) : sv.queue[i] = sv.queue[j] => i = j
    /\ \A i \in 1 .. Len(sv.queue) : InQueue(sv.cs[sv.queue[i]], sv.queue[i], lo)
    /\ \A s \in Slots : sv.cs[s].state = "QUEUED" =>
                            \E i \in 1 .. Len(sv.queue) : sv.queue[i] = s
    /\ \A s \in Slots : sv.cs[s].state = "IDLE" => ~find(sv.cs[s].input)

Good(sv, nt, bl, k, kn, lo) ==
    /\ Tables(sv)
    /\ IsNet(nt)
    /\ bl \in Seq(Conns)
    /\ Links(sv, nt, bl, k)
    /\ Handles(sv, kn)
    /\ Queue(sv, lo)

(* The clients that the loop of process_io has yet to look at are not      *)
(* queued: this round has not got to them.                                 *)
Loop(sv, t) ==
    /\ t \in Nat \ {0}
    /\ \A i \in t .. Len(sv.pis) : sv.cs[sv.pis[i]].state # "QUEUED"

Running == pc \notin {"aborted", "freed"}

HttpInv ==
    /\ Running => Good(server, net, backlog, 0, known, lost)
    /\ pc = "polling" => Loop(server, turn)
    /\ pc = "aborted" => lost # {}
-----------------------------------------------------------------------------
(* Steps that change one client *)

(* sw is sv with another client s and other flags in ps; s is in pis. *)
Touched(sv, sw, s) ==
    /\ IsServer(sw)
    /\ sw.pis = sv.pis /\ sw.free = sv.free
    /\ Len(sw.ps) = Len(sv.ps)
    /\ \A i \in 1 .. Len(sv.ps) : sw.ps[i].fd = sv.ps[i].fd
    /\ \A r \in Slots : r # s => sw.cs[r] = sv.cs[r]
    /\ sw.cs[s].pitem = sv.cs[s].pitem
    /\ sv.cs[s].state # "FREE" /\ sw.cs[s].state # "FREE"

(* What has become of the client s *)
Becomes(sv, sw, s, state, gen, input, queue) ==
    /\ Touched(sv, sw, s)
    /\ sw.cs[s].state = state
    /\ sw.cs[s].gen = gen
    /\ sw.cs[s].input = input
    /\ sw.queue = queue

(* Tables and links do not depend on what was touched. *)
LEMMA TouchTables ==
    ASSUME NEW sv, Tables(sv), NEW s \in Slots, NEW sw, Touched(sv, sw, s)
    PROVE  Tables(sw)
<1>1. /\ IsServer(sw) /\ Len(sw.pis) = Len(sv.pis)
      /\ sw.pis = sv.pis /\ sw.free = sv.free
  BY DEF Touched
<1>2. sw.pis \in Seq(Slots) /\ sw.free \in [Slots -> Slots] /\ Len(sw.pis) \in Nat
  BY <1>1 DEF IsServer
<1>3. \A r \in Slots : /\ sw.cs[r].pitem = sv.cs[r].pitem
                       /\ sw.cs[r].state = "FREE" <=> sv.cs[r].state = "FREE"
  BY DEF Touched
<1>4. Len(sw.ps) = Len(sw.pis) /\ Len(sw.pis) <= MAX_CLIENTS
  BY <1>1 DEF Tables, Touched
<1>5. \A i \in 1 .. Len(sw.pis) : sw.pis[i] \in Slots
  BY <1>2
<1>6. \A i \in 0 .. MAX_CLIENTS - Len(sw.pis) - 1 : sw.free[i] \in Slots
  <2>1. 0 .. MAX_CLIENTS - Len(sw.pis) - 1 \subseteq Slots
    BY <1>2, HttpAssumption DEF Slots
  <2> QED BY <1>2, <2>1
<1>7. \A i \in 1 .. Len(sw.pis) : /\ sw.cs[sw.pis[i]].pitem = i
                                  /\ sw.cs[sw.pis[i]].state # "FREE"
  BY <1>1, <1>3, <1>5 DEF Tables
<1>8. \A i \in 0 .. MAX_CLIENTS - Len(sw.pis) - 1 : sw.cs[sw.free[i]].state = "FREE"
  BY <1>1, <1>3, <1>6 DEF Tables
<1> QED BY <1>1, <1>4, <1>7, <1>8 DEF Tables

LEMMA TouchLinks ==
    ASSUME NEW sv, Tables(sv), NEW s \in Slots, NEW sw, Touched(sv, sw, s),
           NEW nt, NEW bl, NEW k, Links(sv, nt, bl, k)
    PROVE  Links(sw, nt, bl, k)
<1>1. Len(sw.ps) = Len(sv.ps) /\ \A i \in 1 .. Len(sv.ps) : sw.ps[i].fd = sv.ps[i].fd
  BY DEF Touched
<1> QED BY <1>1 DEF Links

LEMMA TouchAgain ==
    ASSUME NEW sv, NEW s \in Slots, NEW sw, Touched(sv, sw, s),
           NEW sx, NEW state, NEW gen, NEW input, NEW queue,
           Becomes(sw, sx, s, state, gen, input, queue)
    PROVE  Becomes(sv, sx, s, state, gen, input, queue)
BY DEF Touched, Becomes

(* A handle that resolves still does, to a client that is responded to, or *)
(* no handle resolves any more.                                            *)
LEMMA TouchHandles ==
    ASSUME NEW sv, IsServer(sv), NEW s \in Slots, NEW sw, Touched(sv, sw, s),
           NEW kn, Handles(sv, kn),
           \/ /\ sw.cs[s].gen = sv.cs[s].gen
              /\ sv.cs[s].state \in Responding => sw.cs[s].state \in Responding
           \/ sw.cs[s].gen = sv.cs[s].gen + 1
    PROVE  Handles(sw, kn)
<1> SUFFICES ASSUME NEW h \in kn
             PROVE  /\ h.idx \in Slots /\ h.gen \in Nat /\ h.gen <= sw.cs[h.idx].gen
                    /\ h.gen = sw.cs[h.idx].gen => sw.cs[h.idx].state \in Responding
  BY DEF Handles
<1>1. /\ h.idx \in Slots /\ h.gen \in Nat /\ h.gen <= sv.cs[h.idx].gen
      /\ h.gen = sv.cs[h.idx].gen => sv.cs[h.idx].state \in Responding
  BY DEF Handles
<1>2. sv.cs[h.idx].gen \in Nat
  BY <1>1 DEF IsServer
<1>3. CASE h.idx = s
  BY <1>1, <1>2, <1>3
<1>4. CASE h.idx # s
  <2>1. sw.cs[h.idx] = sv.cs[h.idx]
    BY <1>1, <1>4 DEF Touched
  <2> QED BY <1>1, <2>1
<1> QED BY <1>3, <1>4

(* The client s is not queued before and after. *)
LEMMA TouchQueue ==
    ASSUME NEW sv, IsServer(sv), NEW s \in Slots, NEW sw, Touched(sv, sw, s),
           NEW lo, Queue(sv, lo), sw.queue = sv.queue,
           \/ sw.cs[s].state = sv.cs[s].state /\ sw.cs[s].input = sv.cs[s].input
           \/ /\ sv.cs[s].state # "QUEUED" /\ sw.cs[s].state # "QUEUED"
              /\ sw.cs[s].state = "IDLE" => ~find(sw.cs[s].input)
    PROVE  Queue(sw, lo)
<1>0. /\ Len(sv.queue) \in Nat
      /\ \A i \in 1 .. Len(sv.queue) : sv.queue[i] \in Slots
  BY DEF IsServer
<1>1. \A r \in Slots : r # s => sw.cs[r] = sv.cs[r]
  BY DEF Touched
<1>2. sv.cs[s].state # "FREE"
  BY DEF Touched
<1>3. ASSUME NEW i \in 1 .. Len(sw.queue)
      PROVE  InQueue(sw.cs[sw.queue[i]], sw.queue[i], lo)
  <2>1. InQueue(sv.cs[sv.queue[i]], sv.queue[i], lo) /\ sv.queue[i] \in Slots
    BY <1>0, <1>3 DEF Queue
  <2>2. CASE sv.queue[i] = s
    <3>1. sv.cs[s].state = "QUEUED" /\ find(sv.cs[s].input)
      BY <2>1, <2>2, <1>2 DEF InQueue
    <3> QED BY <3>1, <2>2 DEF InQueue
  <2>3. CASE sv.queue[i] # s
    BY <2>1, <2>3, <1>1
  <2> QED BY <2>2, <2>3
<1>4. ASSUME NEW r \in Slots, sw.cs[r].state = "QUEUED"
      PROVE  \E i \in 1 .. Len(sw.queue) : sw.queue[i] = r
  <2>1. sv.cs[r].state = "QUEUED"
    BY <1>1, <1>4
  <2> QED BY <2>1 DEF Queue
<1>5. ASSUME NEW r \in Slots, sw.cs[r].state = "IDLE" PROVE ~find(sw.cs[r].input)
  <2>1. CASE r = s
    BY <1>5, <2>1 DEF Queue
  <2>2. CASE r # s
    BY <1>1, <1>5, <2>2 DEF Queue
  <2> QED BY <2>1, <2>2
<1>6. \A i, j \in 1 .. Len(sw.queue) : sw.queue[i] = sw.queue[j] => i = j
  BY DEF Queue
<1> QED BY <1>3, <1>4, <1>5, <1>6 DEF Queue

(* It is put in the queue. *)
LEMMA TouchPush ==
    ASSUME NEW sv, IsServer(sv), NEW s \in Slots, NEW sw, Touched(sv, sw, s),
           NEW lo, Queue(sv, lo), sw.queue = Append(sv.queue, s),
           sv.cs[s].state # "QUEUED",
           sw.cs[s].state = "QUEUED", find(sw.cs[s].input)
    PROVE  Queue(sw, lo)
<1> DEFINE n == Len(sv.queue)
<1>0. sv.queue \in Seq(Slots) /\ n \in Nat /\ \A i \in 1 .. n : sv.queue[i] \in Slots
  BY DEF IsServer
<1>1. \A r \in Slots : r # s => sw.cs[r] = sv.cs[r]
  BY DEF Touched
<1>2. sv.cs[s].state # "FREE"
  BY DEF Touched
<1>3. /\ Len(sw.queue) = n + 1 /\ sw.queue[n + 1] = s
      /\ \A i \in 1 .. n : sw.queue[i] = sv.queue[i]
  BY <1>0, AppendProperties
<1> HIDE DEF n
<1>4. \A i \in 1 .. n : sv.queue[i] # s
  <2> SUFFICES ASSUME NEW i \in 1 .. n, sv.queue[i] = s PROVE FALSE
    OBVIOUS
  <2>1. InQueue(sv.cs[s], s, lo)
    BY DEF Queue, n
  <2> QED BY <2>1, <1>2 DEF InQueue
<1>5. ASSUME NEW i \in 1 .. Len(sw.queue)
      PROVE  InQueue(sw.cs[sw.queue[i]], sw.queue[i], lo)
  <2>1. CASE i = n + 1
    BY <1>3, <2>1 DEF InQueue
  <2>2. CASE i # n + 1
    <3>1. i \in 1 .. n
      BY <1>0, <1>3, <1>5, <2>2
    <3>2. InQueue(sv.cs[sv.queue[i]], sv.queue[i], lo)
      BY <3>1 DEF Queue, n
    <3>3. sw.queue[i] = sv.queue[i] /\ sw.cs[sv.queue[i]] = sv.cs[sv.queue[i]]
      BY <3>1, <1>0, <1>1, <1>3, <1>4
    <3> QED BY <3>2, <3>3
  <2> QED BY <2>1, <2>2
<1>6. ASSUME NEW r \in Slots, sw.cs[r].state = "QUEUED"
      PROVE  \E i \in 1 .. Len(sw.queue) : sw.queue[i] = r
  <2>1. CASE r = s
    BY <1>0, <1>3, <2>1
  <2>2. CASE r # s
    <3>1. PICK i \in 1 .. n : sv.queue[i] = r
      BY <1>1, <1>6, <2>2 DEF Queue, n
    <3> QED BY <3>1, <1>0, <1>3
  <2> QED BY <2>1, <2>2
<1>7. ASSUME NEW r \in Slots, sw.cs[r].state = "IDLE" PROVE ~find(sw.cs[r].input)
  BY <1>1, <1>7 DEF Queue
<1>8. \A i, j \in 1 .. Len(sw.queue) : sw.queue[i] = sw.queue[j] => i = j
  <2> SUFFICES ASSUME NEW i \in 1 .. n + 1, NEW j \in 1 .. n + 1, sw.queue[i] = sw.queue[j]
               PROVE  i = j
    BY <1>3
  <2>1. CASE i \in 1 .. n /\ j \in 1 .. n
    BY <2>1, <1>3 DEF Queue, n
  <2>2. CASE i = n + 1 /\ j \in 1 .. n
    BY <2>2, <1>3, <1>4
  <2>3. CASE j = n + 1 /\ i \in 1 .. n
    BY <2>3, <1>3, <1>4
  <2> QED BY <2>1, <2>2, <2>3, <1>0
<1> QED BY <1>5, <1>6, <1>7, <1>8 DEF Queue

(* It is the first of the queue and taken out. *)
LEMMA TouchPop ==
    ASSUME NEW sv, IsServer(sv), NEW s \in Slots, NEW sw, Touched(sv, sw, s),
           NEW lo, Queue(sv, lo), sv.queue # <<>>, s = Head(sv.queue),
           sw.queue = Tail(sv.queue),
           sw.cs[s].state \notin {"QUEUED", "IDLE"}
    PROVE  Queue(sw, lo)
<1> DEFINE n == Len(sv.queue)
<1>0. /\ sv.queue \in Seq(Slots) /\ n \in Nat \ {0}
      /\ \A i \in 1 .. n : sv.queue[i] \in Slots
  BY EmptySeq DEF IsServer
<1>1. \A r \in Slots : r # s => sw.cs[r] = sv.cs[r]
  BY DEF Touched
<1>3. /\ Len(sw.queue) = n - 1 /\ sv.queue[1] = s
      /\ \A i \in 1 .. n - 1 : sw.queue[i] = sv.queue[i + 1]
  BY <1>0, HeadTailProperties
<1> HIDE DEF n
<1>4. \A i, j \in 1 .. n : sv.queue[i] = sv.queue[j] => i = j
  BY DEF Queue, n
<1>5. ASSUME NEW i \in 1 .. Len(sw.queue)
      PROVE  InQueue(sw.cs[sw.queue[i]], sw.queue[i], lo)
  <2>1. i \in 1 .. n - 1 /\ i + 1 \in 1 .. n /\ i + 1 # 1 /\ 1 \in 1 .. n
    BY <1>0, <1>3, <1>5
  <2>2. InQueue(sv.cs[sv.queue[i + 1]], sv.queue[i + 1], lo)
    BY <2>1 DEF Queue, n
  <2>3. sv.queue[i + 1] # s /\ sv.queue[i + 1] \in Slots
    BY <2>1, <1>0, <1>3, <1>4
  <2> QED BY <2>1, <2>2, <2>3, <1>1, <1>3
<1>6. ASSUME NEW r \in Slots, sw.cs[r].state = "QUEUED"
      PROVE  \E i \in 1 .. Len(sw.queue) : sw.queue[i] = r
  <2>1. r # s
    BY <1>6
  <2>2. PICK i \in 1 .. n : sv.queue[i] = r
    BY <1>1, <1>6, <2>1 DEF Queue, n
  <2>3. i # 1 /\ i - 1 \in 1 .. n - 1 /\ (i - 1) + 1 = i
    BY <2>1, <2>2, <1>0, <1>3
  <2> QED BY <2>2, <2>3, <1>3
<1>7. ASSUME NEW r \in Slots, sw.cs[r].state = "IDLE" PROVE ~find(sw.cs[r].input)
  BY <1>1, <1>7 DEF Queue
<1>8. \A i, j \in 1 .. Len(sw.queue) : sw.queue[i] = sw.queue[j] => i = j
  <2> SUFFICES ASSUME NEW i \in 1 .. n - 1, NEW j \in 1 .. n - 1, sw.queue[i] = sw.queue[j]
               PROVE  i = j
    BY <1>3
  <2>1. i + 1 \in 1 .. n /\ j + 1 \in 1 .. n /\ sv.queue[i + 1] = sv.queue[j + 1]
    BY <1>0, <1>3
  <2> QED BY <2>1, <1>4
<1> QED BY <1>5, <1>6, <1>7, <1>8 DEF Queue
-----------------------------------------------------------------------------
(* What the operators of the server do to the client s.  A client that is  *)
(* not free has its place in ps.                                           *)
LEMMA LivePlace ==
    ASSUME NEW sv, Tables(sv), NEW s \in Slots, sv.cs[s].state # "FREE"
    PROVE  /\ sv.cs[s].pitem \in 1 .. Len(sv.pis)
           /\ sv.pis[sv.cs[s].pitem] = s
           /\ sv.cs[s].pitem \in DOMAIN sv.ps
           /\ sv.ps[sv.cs[s].pitem] \in Entries
<1>1. PICK i \in 1 .. Len(sv.pis) : sv.pis[i] = s
  BY DEF Tables
<1>2. sv.cs[s].pitem = i
  BY <1>1 DEF Tables
<1>3. Len(sv.ps) = Len(sv.pis) /\ sv.ps \in Seq(Entries)
  BY DEF Tables, IsServer
<1> QED BY <1>1, <1>2, <1>3

LEMMA InPis ==
    ASSUME NEW sv, Tables(sv)
    PROVE  \A i \in 1 .. Len(sv.pis) : /\ sv.pis[i] \in Slots
                                       /\ sv.cs[sv.pis[i]].pitem = i
                                       /\ sv.cs[sv.pis[i]].state # "FREE"
<1>1. sv.pis \in Seq(Slots)
  BY DEF Tables, IsServer
<1>2. \A i \in 1 .. Len(sv.pis) : sv.pis[i] \in Slots
  BY <1>1
<1> QED BY <1>2 DEF Tables

(* q is ps with other flags. *)
SameFds(ps, q) ==
    /\ q \in Seq(Entries) /\ Len(q) = Len(ps)
    /\ \A i \in 1 .. Len(ps) : q[i].fd = ps[i].fd

LEMMA FlagSet ==
    ASSUME NEW ps \in Seq(Entries), NEW pi \in DOMAIN ps, NEW b \in BOOLEAN
    PROVE  SameFds(ps, [ps EXCEPT ![pi].pollout = b])
<1> DEFINE e == [ps[pi] EXCEPT !.pollout = b]
<1>0. ps[pi] \in Entries
  OBVIOUS
<1>1. e \in Entries /\ e.fd = ps[pi].fd
  BY <1>0 DEF Entries
<1>2. [ps EXCEPT ![pi].pollout = b] = [ps EXCEPT ![pi] = e]
  OBVIOUS
<1> HIDE DEF e
<1>3. /\ [ps EXCEPT ![pi] = e] \in Seq(Entries) /\ Len([ps EXCEPT ![pi] = e]) = Len(ps)
      /\ \A i \in 1 .. Len(ps) : [ps EXCEPT ![pi] = e][i] = IF i = pi THEN e ELSE ps[i]
  BY <1>1, ExceptSeq
<1> QED BY <1>1, <1>2, <1>3 DEF SameFds

(* Output is appended, and the socket polled for output. *)
LEMMA AppendOutput ==
    ASSUME NEW sv, Tables(sv), NEW s \in Slots, sv.cs[s].state # "FREE", NEW parts
    PROVE  Becomes(sv, append_output(sv, s, parts), s,
                   sv.cs[s].state, sv.cs[s].gen, sv.cs[s].input, sv.queue)
<1> DEFINE pi == sv.cs[s].pitem
           sw == append_output(sv, s, parts)
<1>1. pi \in DOMAIN sv.ps /\ sv.ps[pi] \in Entries /\ sv.ps \in Seq(Entries)
  BY LivePlace DEF Tables, IsServer
<1>2. IsServer(sv)
  BY DEF Tables
<1>3. sw.ps = [sv.ps EXCEPT ![pi].pollout = TRUE] /\ sw.pis = sv.pis /\ sw.free = sv.free
      /\ sw.queue = sv.queue /\ DOMAIN sw = {"cs", "ps", "pis", "free", "queue"}
  BY <1>2 DEF append_output, IsServer
<1>4. /\ sw.ps \in Seq(Entries) /\ Len(sw.ps) = Len(sv.ps)
      /\ \A i \in 1 .. Len(sv.ps) : sw.ps[i].fd = sv.ps[i].fd
  <2>1. SameFds(sv.ps, [sv.ps EXCEPT ![pi].pollout = TRUE])
    BY <1>1, FlagSet
  <2> QED BY <1>3, <2>1 DEF SameFds
<1>5. /\ DOMAIN sw.cs = Slots
      /\ \A r \in Slots : DOMAIN sw.cs[r] = ClientFields /\ sw.cs[r].gen \in Nat
      /\ \A r \in Slots : r # s => sw.cs[r] = sv.cs[r]
      /\ sw.cs[s].pitem = sv.cs[s].pitem /\ sw.cs[s].state = sv.cs[s].state
      /\ sw.cs[s].gen = sv.cs[s].gen /\ sw.cs[s].input = sv.cs[s].input
  BY <1>2 DEF append_output, IsServer, ClientFields
<1>6. IsServer(sw)
  BY <1>2, <1>3, <1>4, <1>5 DEF IsServer
<1> HIDE DEF sw, pi
<1>7. Touched(sv, sw, s)
  BY <1>3, <1>4, <1>5, <1>6 DEF Touched
<1> QED BY <1>3, <1>5, <1>7 DEF Becomes, sw
(* One field of the client s is set to v. *)
LEMMA SetState ==
    ASSUME NEW sv, Tables(sv), NEW s \in Slots, sv.cs[s].state # "FREE", NEW v, v # "FREE"
    PROVE  Becomes(sv, [sv EXCEPT !.cs[s].state = v], s,
                   v, sv.cs[s].gen, sv.cs[s].input, sv.queue)
<1> DEFINE sw == [sv EXCEPT !.cs[s].state = v]
<1>1. IsServer(sv)
  BY DEF Tables
<1>2. sw.ps = sv.ps /\ sw.pis = sv.pis /\ sw.free = sv.free
      /\ sw.queue = sv.queue /\ DOMAIN sw = {"cs", "ps", "pis", "free", "queue"}
  BY <1>1 DEF IsServer
<1>3. /\ DOMAIN sw.cs = Slots
      /\ \A r \in Slots : DOMAIN sw.cs[r] = ClientFields /\ sw.cs[r].gen \in Nat
      /\ \A r \in Slots : r # s => sw.cs[r] = sv.cs[r]
      /\ sw.cs[s].pitem = sv.cs[s].pitem /\ sw.cs[s].state = v
      /\ sw.cs[s].gen = sv.cs[s].gen /\ sw.cs[s].input = sv.cs[s].input
  BY <1>1 DEF IsServer, ClientFields
<1> HIDE DEF sw
<1>4. IsServer(sw)
  BY <1>1, <1>2, <1>3 DEF IsServer
<1>5. Touched(sv, sw, s)
  BY <1>2, <1>3, <1>4 DEF Touched
<1> QED BY <1>2, <1>3, <1>5 DEF Becomes, sw

(* Input arrives.  A client that was idle is queued when it has a head. *)
LEMMA SocketInput ==
    ASSUME NEW sv, Tables(sv), NEW s \in Slots, sv.cs[s].state # "FREE", NEW arrived
    PROVE  LET input == sv.cs[s].input \o arrived
               found == sv.cs[s].state = "IDLE" /\ find(input)
           IN  Becomes(sv, socket_input(sv, s, arrived), s,
                       IF found THEN "QUEUED" ELSE sv.cs[s].state, sv.cs[s].gen, input,
                       IF found THEN Append(sv.queue, s) ELSE sv.queue)
<1> DEFINE input == sv.cs[s].input \o arrived
           received == [sv EXCEPT !.cs[s].input = input]
           found == sv.cs[s].state = "IDLE" /\ find(input)
<1>1. IsServer(sv)
  BY DEF Tables
<1>2. received.ps = sv.ps /\ received.pis = sv.pis /\ received.free = sv.free
      /\ received.queue = sv.queue /\ DOMAIN received = {"cs", "ps", "pis", "free", "queue"}
  BY <1>1 DEF IsServer
<1>3. /\ DOMAIN received.cs = Slots
      /\ \A r \in Slots : DOMAIN received.cs[r] = ClientFields /\ received.cs[r].gen \in Nat
      /\ \A r \in Slots : r # s => received.cs[r] = sv.cs[r]
      /\ received.cs[s].pitem = sv.cs[s].pitem /\ received.cs[s].state = sv.cs[s].state
      /\ received.cs[s].gen = sv.cs[s].gen /\ received.cs[s].input = input
  BY <1>1 DEF IsServer, ClientFields
<1>4. socket_input(sv, s, arrived) =
        IF found THEN [push_client(received, s) EXCEPT !.cs[s].state = "QUEUED"] ELSE received
  <2>1. find(received.cs[s].input) <=> find(input)
    BY <1>3
  <2> QED BY <2>1 DEF socket_input
<1> HIDE DEF received
<1>5. IsServer(received)
  BY <1>1, <1>2, <1>3 DEF IsServer
<1>6. CASE ~found
  <2>1. Touched(sv, received, s)
    BY <1>2, <1>3, <1>5 DEF Touched
  <2> QED BY <1>2, <1>3, <1>4, <1>6, <2>1 DEF Becomes
<1>7. CASE found
  <2> DEFINE sw == [push_client(received, s) EXCEPT !.cs[s].state = "QUEUED"]
  <2>1. sw.ps = sv.ps /\ sw.pis = sv.pis /\ sw.free = sv.free
        /\ sw.queue = Append(sv.queue, s) /\ DOMAIN sw = {"cs", "ps", "pis", "free", "queue"}
    BY <1>2 DEF push_client
  <2>2. /\ DOMAIN sw.cs = Slots
        /\ \A r \in Slots : DOMAIN sw.cs[r] = ClientFields /\ sw.cs[r].gen \in Nat
        /\ \A r \in Slots : r # s => sw.cs[r] = sv.cs[r]
        /\ sw.cs[s].pitem = sv.cs[s].pitem /\ sw.cs[s].state = "QUEUED"
        /\ sw.cs[s].gen = sv.cs[s].gen /\ sw.cs[s].input = input
    BY <1>2, <1>3 DEF push_client, ClientFields
  <2> HIDE DEF sw
  <2>3. sw.queue \in Seq(Slots)
    BY <1>1, <2>1, AppendProperties DEF IsServer
  <2>4. IsServer(sw)
    BY <1>1, <2>1, <2>2, <2>3 DEF IsServer
  <2>5. Touched(sv, sw, s)
    BY <2>1, <2>2, <2>4 DEF Touched
  <2>6. sw = socket_input(sv, s, arrived)
    BY <1>4, <1>7 DEF sw
  <2> QED BY <1>7, <2>1, <2>2, <2>5, <2>6 DEF Becomes
<1> QED BY <1>6, <1>7

(* Output is sent. *)
LEMMA SocketOutput ==
    ASSUME NEW sv, Tables(sv), NEW s \in Slots, sv.cs[s].state # "FREE", NEW n
    PROVE  Becomes(sv, socket_output(sv, s, n), s,
                   sv.cs[s].state, sv.cs[s].gen, sv.cs[s].input, sv.queue)
<1> DEFINE pi == sv.cs[s].pitem
           b == IF n = Limit(sv.cs[s]) THEN FALSE ELSE sv.ps[pi].pollout
           sw == socket_output(sv, s, n)
<1>1. pi \in DOMAIN sv.ps /\ sv.ps[pi] \in Entries /\ sv.ps \in Seq(Entries)
  BY LivePlace DEF Tables, IsServer
<1>2. IsServer(sv)
  BY DEF Tables
<1>3. sw.ps = [sv.ps EXCEPT ![pi].pollout = b] /\ sw.pis = sv.pis /\ sw.free = sv.free
      /\ sw.queue = sv.queue /\ DOMAIN sw = {"cs", "ps", "pis", "free", "queue"}
  BY <1>2 DEF socket_output, IsServer
<1>4. /\ sw.ps \in Seq(Entries) /\ Len(sw.ps) = Len(sv.ps)
      /\ \A i \in 1 .. Len(sv.ps) : sw.ps[i].fd = sv.ps[i].fd
  <2>1. b \in BOOLEAN
    BY <1>1 DEF Entries
  <2> HIDE DEF b, sw, pi
  <2>2. SameFds(sv.ps, [sv.ps EXCEPT ![pi].pollout = b])
    BY <1>1, <2>1, FlagSet
  <2> QED BY <1>3, <2>2 DEF SameFds
<1>5. /\ DOMAIN sw.cs = Slots
      /\ \A r \in Slots : DOMAIN sw.cs[r] = ClientFields /\ sw.cs[r].gen \in Nat
      /\ \A r \in Slots : r # s => sw.cs[r] = sv.cs[r]
      /\ sw.cs[s].pitem = sv.cs[s].pitem /\ sw.cs[s].state = sv.cs[s].state
      /\ sw.cs[s].gen = sv.cs[s].gen /\ sw.cs[s].input = sv.cs[s].input
  BY <1>2 DEF socket_output, IsServer, ClientFields
<1> HIDE DEF sw, pi
<1>6. IsServer(sw)
  BY <1>2, <1>3, <1>4, <1>5 DEF IsServer
<1>7. Touched(sv, sw, s)
  BY <1>3, <1>4, <1>5, <1>6 DEF Touched
<1> QED BY <1>3, <1>5, <1>7 DEF Becomes, sw
(* Handles to the client s stop to resolve. *)
LEMMA InvalidateHandles ==
    ASSUME NEW sv, Tables(sv), NEW s \in Slots, sv.cs[s].state # "FREE",
           sv.cs[s].gen + 1 # GenLimit
    PROVE  Becomes(sv, invalidate_handles(sv, s), s,
                   sv.cs[s].state, sv.cs[s].gen + 1, sv.cs[s].input, sv.queue)
<1> DEFINE sw == invalidate_handles(sv, s)
<1>1. IsServer(sv)
  BY DEF Tables
<1>2. sw.ps = sv.ps /\ sw.pis = sv.pis /\ sw.free = sv.free
      /\ sw.queue = sv.queue /\ DOMAIN sw = {"cs", "ps", "pis", "free", "queue"}
  BY <1>1 DEF invalidate_handles, IsServer
<1>3. /\ DOMAIN sw.cs = Slots
      /\ \A r \in Slots : DOMAIN sw.cs[r] = ClientFields /\ sw.cs[r].gen \in Nat
      /\ \A r \in Slots : r # s => sw.cs[r] = sv.cs[r]
      /\ sw.cs[s].pitem = sv.cs[s].pitem /\ sw.cs[s].state = sv.cs[s].state
      /\ sw.cs[s].gen = sv.cs[s].gen + 1 /\ sw.cs[s].input = sv.cs[s].input
  BY <1>1 DEF invalidate_handles, Unset, NextGen, IsServer, ClientFields
<1> HIDE DEF sw
<1>4. IsServer(sw)
  BY <1>1, <1>2, <1>3 DEF IsServer
<1>5. Touched(sv, sw, s)
  BY <1>2, <1>3, <1>4 DEF Touched
<1> QED BY <1>2, <1>3, <1>5 DEF Becomes, sw

(* Output is appended and the state set. *)
LEMMA AppendAndSet ==
    ASSUME NEW sv, Tables(sv), NEW s \in Slots, sv.cs[s].state # "FREE",
           NEW parts, NEW v, v # "FREE"
    PROVE  Becomes(sv, [append_output(sv, s, parts) EXCEPT !.cs[s].state = v], s,
                   v, sv.cs[s].gen, sv.cs[s].input, sv.queue)
<1>1. PICK sw : sw = append_output(sv, s, parts)
  OBVIOUS
<1>2. Becomes(sv, sw, s, sv.cs[s].state, sv.cs[s].gen, sv.cs[s].input, sv.queue)
  BY <1>1, AppendOutput
<1>3. Tables(sw) /\ Touched(sv, sw, s) /\ sw.cs[s].state # "FREE"
  BY <1>2, TouchTables DEF Becomes
<1>4. Becomes(sw, [sw EXCEPT !.cs[s].state = v], s, v, sw.cs[s].gen, sw.cs[s].input, sw.queue)
  BY <1>3, SetState
<1>5. sw.cs[s].gen = sv.cs[s].gen /\ sw.cs[s].input = sv.cs[s].input /\ sw.queue = sv.queue
  BY <1>2 DEF Becomes
<1>6. Becomes(sw, [sw EXCEPT !.cs[s].state = v], s, v, sv.cs[s].gen, sv.cs[s].input, sv.queue)
  BY <1>4, <1>5
<1> QED BY <1>1, <1>3, <1>6, TouchAgain

(* The head of the response is completed. *)
LEMMA SpecialHeaders ==
    ASSUME NEW sv, Tables(sv), NEW s \in Slots, sv.cs[s].state # "FREE", NEW h
    PROVE  Becomes(sv, append_special_headers(sv, s, h), s,
                   "CONTENT", sv.cs[s].gen, sv.cs[s].input, sv.queue)
<1> DEFINE keepalive == /\ sv.cs[s].connheader # 0
                        /\ sv.cs[s].num_served < MaxServed
                        /\ 10 * Ncs(sv) < 7 * MAX_CLIENTS
           ap == append_output(sv, s, <<Part(h, "header", 0)>>)
           one == IF sv.cs[s].minor = 1 THEN [ap EXCEPT !.cs[s].keepalive = keepalive] ELSE sv
<1>1. Becomes(sv, one, s, sv.cs[s].state, sv.cs[s].gen, sv.cs[s].input, sv.queue)
  <2>1. CASE sv.cs[s].minor = 1
    <3>1. Becomes(sv, ap, s, sv.cs[s].state, sv.cs[s].gen, sv.cs[s].input, sv.queue)
      BY AppendOutput
    <3>2. one = [ap EXCEPT !.cs[s].keepalive = keepalive]
      BY <2>1
    <3> HIDE DEF ap, keepalive, one
    <3>3. IsServer(ap)
      BY <3>1 DEF Becomes, Touched
    <3>4. one.ps = ap.ps /\ one.pis = ap.pis /\ one.free = ap.free
          /\ one.queue = ap.queue /\ DOMAIN one = {"cs", "ps", "pis", "free", "queue"}
      BY <3>2, <3>3 DEF IsServer
    <3>5. /\ DOMAIN one.cs = Slots
          /\ \A r \in Slots : DOMAIN one.cs[r] = ClientFields /\ one.cs[r].gen \in Nat
          /\ \A r \in Slots : r # s => one.cs[r] = ap.cs[r]
          /\ one.cs[s].pitem = ap.cs[s].pitem /\ one.cs[s].state = ap.cs[s].state
          /\ one.cs[s].gen = ap.cs[s].gen /\ one.cs[s].input = ap.cs[s].input
      BY <3>2, <3>3 DEF IsServer, ClientFields
    <3>6. IsServer(one)
      BY <3>3, <3>4, <3>5 DEF IsServer
    <3> QED BY <3>1, <3>4, <3>5, <3>6 DEF Becomes, Touched
  <2>2. CASE sv.cs[s].minor # 1
    BY <2>2 DEF Becomes, Touched, Tables
  <2> QED BY <2>1, <2>2
<1> DEFINE offset == Len(one.cs[s].output)
           two == append_output(one, s, <<Part(h, "length", NoLength)>>)
           sw == [two EXCEPT !.cs[s].content_length_offset = offset,
                             !.cs[s].content_offset = offset + 1,
                             !.cs[s].state = "CONTENT"]
<1>2. sw = append_special_headers(sv, s, h)
  BY DEF append_special_headers
<1> HIDE DEF one
<1>3. Tables(one) /\ Touched(sv, one, s) /\ one.cs[s].state # "FREE"
  BY <1>1, TouchTables DEF Becomes
<1>4. Becomes(one, two, s, one.cs[s].state, one.cs[s].gen, one.cs[s].input, one.queue)
  BY <1>3, AppendOutput
<1>5. Becomes(one, two, s, sv.cs[s].state, sv.cs[s].gen, sv.cs[s].input, sv.queue)
  BY <1>1, <1>4 DEF Becomes
<1>6. Becomes(sv, two, s, sv.cs[s].state, sv.cs[s].gen, sv.cs[s].input, sv.queue)
  BY <1>3, <1>5, TouchAgain
<1> HIDE DEF two, offset
<1>7. IsServer(two)
  BY <1>6 DEF Becomes, Touched
<1>8. sw.ps = two.ps /\ sw.pis = two.pis /\ sw.free = two.free
      /\ sw.queue = two.queue /\ DOMAIN sw = {"cs", "ps", "pis", "free", "queue"}
  BY <1>7 DEF IsServer
<1>9. /\ DOMAIN sw.cs = Slots
      /\ \A r \in Slots : DOMAIN sw.cs[r] = ClientFields /\ sw.cs[r].gen \in Nat
      /\ \A r \in Slots : r # s => sw.cs[r] = two.cs[r]
      /\ sw.cs[s].pitem = two.cs[s].pitem /\ sw.cs[s].state = "CONTENT"
      /\ sw.cs[s].gen = two.cs[s].gen /\ sw.cs[s].input = two.cs[s].input
  BY <1>7 DEF IsServer, ClientFields
<1> HIDE DEF sw
<1>10. IsServer(sw)
  BY <1>7, <1>8, <1>9 DEF IsServer
<1>11. Becomes(sv, sw, s, "CONTENT", sv.cs[s].gen, sv.cs[s].input, sv.queue)
  BY <1>6, <1>8, <1>9, <1>10 DEF Becomes, Touched
<1> QED BY <1>2, <1>11

LEMMA ContentBegins ==
    ASSUME NEW sv, Tables(sv), NEW s \in Slots, sv.cs[s].state # "FREE", NEW h
    PROVE  Becomes(sv, InContent(sv, s, h), s,
                   IF sv.cs[s].state = "HEADER" THEN "CONTENT" ELSE sv.cs[s].state,
                   sv.cs[s].gen, sv.cs[s].input, sv.queue)
<1>1. CASE sv.cs[s].state = "HEADER"
  BY <1>1, SpecialHeaders DEF InContent
<1>2. CASE sv.cs[s].state # "HEADER"
  BY <1>2 DEF InContent, Becomes, Touched, Tables
<1> QED BY <1>1, <1>2

(* The response is completed. *)
LEMMA ResponseFinished ==
    ASSUME NEW sv, Tables(sv), NEW s \in Slots, sv.cs[s].state # "FREE"
    PROVE  LET client == sv.cs[s]
           IN  Becomes(sv, Finished(sv, s), s, client.state, client.gen,
                       SubSeq(client.input, client.request_length + 1, Len(client.input)),
                       sv.queue)
<1> DEFINE pi == sv.cs[s].pitem
           sw == Finished(sv, s)
<1>1. pi \in DOMAIN sv.ps /\ sv.ps[pi] \in Entries /\ sv.ps \in Seq(Entries)
  BY LivePlace DEF Tables, IsServer
<1>2. IsServer(sv)
  BY DEF Tables
<1>3. sw.ps = [sv.ps EXCEPT ![pi].pollout = TRUE] /\ sw.pis = sv.pis /\ sw.free = sv.free
      /\ sw.queue = sv.queue /\ DOMAIN sw = {"cs", "ps", "pis", "free", "queue"}
  BY <1>2 DEF Finished, IsServer
<1>4. /\ sw.ps \in Seq(Entries) /\ Len(sw.ps) = Len(sv.ps)
      /\ \A i \in 1 .. Len(sv.ps) : sw.ps[i].fd = sv.ps[i].fd
  <2>1. SameFds(sv.ps, [sv.ps EXCEPT ![pi].pollout = TRUE])
    BY <1>1, FlagSet
  <2> QED BY <1>3, <2>1 DEF SameFds
<1> DEFINE client == sv.cs[s]
           input == SubSeq(client.input, client.request_length + 1, Len(client.input))
           output == [client.output EXCEPT ![client.content_length_offset + 1].num =
                         Len(client.output) - client.content_offset]
           cl == [client EXCEPT !.output = output, !.input = input, !.request_length = 0,
                                !.num_served = @ + 1]
<1>5. sw.cs = [sv.cs EXCEPT ![s] = cl]
  BY <1>2, Zenon DEF Finished, IsServer, ClientFields
<1>8. DOMAIN cl = ClientFields /\ cl.gen = client.gen /\ cl.state = client.state
      /\ cl.pitem = client.pitem /\ cl.input = input
  <2> HIDE DEF input, output
  <2> QED BY <1>2 DEF IsServer, ClientFields
<1> HIDE DEF cl, input, output
<1>9. /\ DOMAIN sw.cs = Slots
      /\ \A r \in Slots : DOMAIN sw.cs[r] = ClientFields /\ sw.cs[r].gen \in Nat
      /\ \A r \in Slots : r # s => sw.cs[r] = sv.cs[r]
      /\ sw.cs[s].pitem = sv.cs[s].pitem /\ sw.cs[s].state = sv.cs[s].state
      /\ sw.cs[s].gen = sv.cs[s].gen /\ sw.cs[s].input = input
  BY <1>2, <1>5, <1>8 DEF IsServer
<1> HIDE DEF sw, pi
<1>6. IsServer(sw)
  BY <1>2, <1>3, <1>4, <1>9 DEF IsServer
<1>7. Touched(sv, sw, s)
  BY <1>3, <1>4, <1>9, <1>6 DEF Touched
<1> QED BY <1>3, <1>9, <1>7 DEF Becomes, sw, input

(* The next request is looked for, and handles stop to resolve. *)
LEMMA ResponseOver ==
    ASSUME NEW sv, Tables(sv), NEW s \in Slots, sv.cs[s].state # "FREE",
           sv.cs[s].gen + 1 # GenLimit
    PROVE  LET input == sv.cs[s].input
               queued == sv.cs[s].keepalive /\ find(input)
           IN  Becomes(sv, AfterResponse(sv, s), s,
                       IF ~sv.cs[s].keepalive THEN "CLOSE"
                       ELSE IF queued THEN "QUEUED" ELSE "IDLE",
                       sv.cs[s].gen + 1, input,
                       IF queued THEN Append(sv.queue, s) ELSE sv.queue)
<1> DEFINE input == sv.cs[s].input
           keepalive == sv.cs[s].keepalive
           state == IF ~keepalive THEN "CLOSE" ELSE IF find(input) THEN "QUEUED" ELSE "IDLE"
           queue == IF keepalive /\ find(input) THEN Append(sv.queue, s) ELSE sv.queue
           next == IF ~keepalive THEN [sv EXCEPT !.cs[s].state = "CLOSE"]
                   ELSE IF find(input)
                   THEN [push_client(sv, s) EXCEPT !.cs[s].state = "QUEUED", !.cs[s].keepalive = FALSE]
                   ELSE [sv EXCEPT !.cs[s].state = "IDLE", !.cs[s].keepalive = FALSE]
<1>0. IsServer(sv)
  BY DEF Tables
<1>1. next.ps = sv.ps /\ next.pis = sv.pis /\ next.free = sv.free
      /\ next.queue = queue /\ DOMAIN next = {"cs", "ps", "pis", "free", "queue"}
  BY <1>0 DEF push_client, IsServer
<1>2. /\ DOMAIN next.cs = Slots
      /\ \A r \in Slots : DOMAIN next.cs[r] = ClientFields /\ next.cs[r].gen \in Nat
      /\ \A r \in Slots : r # s => next.cs[r] = sv.cs[r]
      /\ next.cs[s].pitem = sv.cs[s].pitem /\ next.cs[s].state = state
      /\ next.cs[s].gen = sv.cs[s].gen /\ next.cs[s].input = input
  BY <1>0 DEF push_client, IsServer, ClientFields
<1>3. AfterResponse(sv, s) = invalidate_handles(next, s)
  BY DEF AfterResponse
<1>4. queue \in Seq(Slots) /\ state # "FREE"
  BY <1>0, AppendProperties DEF IsServer
<1> HIDE DEF next, queue, state
<1>5. IsServer(next)
  BY <1>0, <1>1, <1>2, <1>4 DEF IsServer
<1>6. Touched(sv, next, s)
  BY <1>1, <1>2, <1>4, <1>5 DEF Touched
<1>7. Becomes(next, invalidate_handles(next, s), s,
              next.cs[s].state, next.cs[s].gen + 1, next.cs[s].input, next.queue)
  <2>1. Tables(next)
    BY <1>6, TouchTables
  <2>2. next.cs[s].state # "FREE" /\ next.cs[s].gen + 1 # GenLimit
    BY <1>2, <1>4
  <2> QED BY <2>1, <2>2, InvalidateHandles
<1>8. Becomes(next, AfterResponse(sv, s), s, state, sv.cs[s].gen + 1, input, queue)
  BY <1>1, <1>2, <1>3, <1>7
<1>9. Becomes(sv, AfterResponse(sv, s), s, state, sv.cs[s].gen + 1, input, queue)
  BY <1>6, <1>8, TouchAgain, Zenon
<1> QED BY <1>9 DEF state, queue
-----------------------------------------------------------------------------
(* close_client *)

(* The last entry of q fills the gap at pi. *)
Filled(q, w, pi) ==
    /\ Len(w) = Len(q) - 1
    /\ \A i \in 1 .. Len(q) - 1 : w[i] = IF i = pi THEN q[Len(q)] ELSE q[i]

LEMMA GapFilled ==
    ASSUME NEW S, NEW q \in Seq(S), NEW pi \in 1 .. Len(q)
    PROVE  /\ Front([q EXCEPT ![pi] = q[Len(q)]]) \in Seq(S)
           /\ Filled(q, Front([q EXCEPT ![pi] = q[Len(q)]]), pi)
<1>1. PICK x : x = [q EXCEPT ![pi] = q[Len(q)]]
  OBVIOUS
<1>0. Len(q) \in Nat /\ Len(q) \in 1 .. Len(q)
  OBVIOUS
<1>2. /\ x \in Seq(S) /\ Len(x) = Len(q)
      /\ \A i \in 1 .. Len(q) : x[i] = IF i = pi THEN q[Len(q)] ELSE q[i]
  <2>1. q[Len(q)] \in S /\ pi \in DOMAIN q
    BY <1>0
  <2> QED BY <1>1, <2>1, ExceptSeq
<1>3. PICK n \in Nat : n = Len(q)
  BY <1>0
<1>4. /\ SubSeq(x, 1, n - 1) \in Seq(S)
      /\ Len(SubSeq(x, 1, n - 1)) = n - 1
      /\ \A i \in 1 .. n - 1 : SubSeq(x, 1, n - 1)[i] = x[i]
  <2>1. x \in Seq(S) /\ 1 \in Int /\ n - 1 \in Int /\ n >= 1 /\ Len(x) = n
    BY <1>0, <1>2, <1>3
  <2>2. \A i \in 1 .. n - 1 : i \in 1 .. Len(x)
    BY <2>1
  <2> QED BY <2>1, <2>2
<1>5. Front(x) = SubSeq(x, 1, n - 1)
  BY <1>2, <1>3 DEF Front
<1>6. \A i \in 1 .. n - 1 : i \in 1 .. n
  OBVIOUS
<1> QED BY <1>1, <1>2, <1>3, <1>4, <1>5, <1>6, Zenon DEF Filled

(* What close_client leaves *)
Closes(sv, sw, s) ==
    /\ IsServer(sw)
    /\ Filled(sv.pis, sw.pis, sv.cs[s].pitem)
    /\ Filled(sv.ps, sw.ps, sv.cs[s].pitem)
    /\ sw.free = [sv.free EXCEPT ![MAX_CLIENTS - Len(sv.pis)] = s]
    /\ sw.queue = sv.queue
    /\ \A r \in Slots \ {s} : /\ sw.cs[r].state = sv.cs[r].state
                              /\ sw.cs[r].gen = sv.cs[r].gen
                              /\ sw.cs[r].input = sv.cs[r].input
                              /\ sw.cs[r].pitem =
                                   IF r = sv.pis[Len(sv.pis)] THEN sv.cs[s].pitem
                                   ELSE sv.cs[r].pitem
    /\ sw.cs[s].state = "FREE" /\ sw.cs[s].gen = sv.cs[s].gen + 1
    /\ ~find(sw.cs[s].input)

LEMMA NothingFound == ~find(<<>>)
BY DEF find

LEMMA CloseEffect ==
    ASSUME NEW sv, Tables(sv), NEW s \in Slots, sv.cs[s].state # "FREE",
           sv.cs[s].gen + 1 # GenLimit
    PROVE  Closes(sv, close_client(sv, s), s)
<1> DEFINE pi == sv.cs[s].pitem
           n == Len(sv.pis)
           inv == invalidate_handles(sv, s)
           pis == Front([sv.pis EXCEPT ![pi] = sv.pis[n]])
           ps == Front([sv.ps EXCEPT ![pi] = sv.ps[n]])
           cleared == [inv EXCEPT
                         !.cs[s].state = "FREE", !.cs[s].input = <<>>, !.cs[s].output = <<>>,
                         !.cs[s].pitem = 0, !.cs[s].num_served = 0,
                         !.pis = pis, !.ps = ps, !.free[MAX_CLIENTS - n] = s]
           sw == close_client(sv, s)
<1>0. IsServer(sv) /\ Len(sv.ps) = n /\ n \in Nat /\ n <= MAX_CLIENTS
  BY DEF Tables, IsServer
<1>1. pi \in 1 .. n /\ sv.pis[pi] = s
  BY LivePlace
<1>2. Becomes(sv, inv, s, sv.cs[s].state, sv.cs[s].gen + 1, sv.cs[s].input, sv.queue)
  BY InvalidateHandles
<1>3. sw = IF pi = n THEN cleared ELSE [cleared EXCEPT !.cs[sv.pis[n]].pitem = pi]
  BY DEF close_client, Ncs
<1>4. /\ ps \in Seq(Entries) /\ Filled(sv.ps, ps, pi)
      /\ pis \in Seq(Slots) /\ Filled(sv.pis, pis, pi)
  <2>1. sv.ps \in Seq(Entries) /\ sv.pis \in Seq(Slots)
    BY <1>0 DEF IsServer
  <2>2. /\ Front([sv.pis EXCEPT ![pi] = sv.pis[Len(sv.pis)]]) \in Seq(Slots)
        /\ Filled(sv.pis, Front([sv.pis EXCEPT ![pi] = sv.pis[Len(sv.pis)]]), pi)
    BY <1>1, <2>1, GapFilled
  <2>3. /\ Front([sv.ps EXCEPT ![pi] = sv.ps[Len(sv.ps)]]) \in Seq(Entries)
        /\ Filled(sv.ps, Front([sv.ps EXCEPT ![pi] = sv.ps[Len(sv.ps)]]), pi)
    BY <1>0, <1>1, <2>1, GapFilled
  <2> QED BY <1>0, <2>2, <2>3
<1>5. /\ sv.pis[n] \in Slots /\ MAX_CLIENTS - n \in Slots
      /\ pi # n => sv.pis[n] # s
      /\ pi = n => sv.pis[n] = s
  <2>1. n \in 1 .. n
    BY <1>0, <1>1
  <2>2. sv.cs[sv.pis[n]].pitem = n /\ sv.pis[n] \in Slots
    BY <2>1, InPis
  <2>3. MAX_CLIENTS - n \in Slots
    BY <1>0, <1>1, HttpAssumption DEF Slots
  <2> QED BY <2>2, <2>3, <1>1
<1>6. /\ IsServer(inv) /\ inv.free = sv.free /\ inv.queue = sv.queue
      /\ \A r \in Slots : r # s => inv.cs[r] = sv.cs[r]
      /\ inv.cs[s].gen = sv.cs[s].gen + 1
  BY <1>2 DEF Becomes, Touched
<1> HIDE DEF inv, pis, ps
<1> HIDE DEF n
<1>7. /\ cleared.pis = pis /\ cleared.ps = ps /\ cleared.queue = sv.queue
      /\ cleared.free = [sv.free EXCEPT ![MAX_CLIENTS - n] = s]
      /\ DOMAIN cleared = {"cs", "ps", "pis", "free", "queue"}
  <2>1. DOMAIN inv = {"cs", "ps", "pis", "free", "queue"}
    BY <1>6 DEF IsServer
  <2>2. cleared.pis = pis /\ cleared.ps = ps /\ cleared.queue = inv.queue
        /\ DOMAIN cleared = {"cs", "ps", "pis", "free", "queue"}
    BY <2>1
  <2>3. cleared.free = [inv.free EXCEPT ![MAX_CLIENTS - n] = s]
    BY <2>1
  <2> QED BY <1>6, <2>2, <2>3
<1>8. /\ DOMAIN cleared.cs = Slots
      /\ \A r \in Slots : DOMAIN cleared.cs[r] = ClientFields /\ cleared.cs[r].gen \in Nat
      /\ \A r \in Slots : r # s => cleared.cs[r] = sv.cs[r]
      /\ cleared.cs[s].state = "FREE" /\ cleared.cs[s].input = <<>>
      /\ cleared.cs[s].gen = sv.cs[s].gen + 1
  BY <1>6 DEF IsServer, ClientFields
<1> HIDE DEF cleared
<1>9. /\ sw.pis = pis /\ sw.ps = ps /\ sw.queue = sv.queue
      /\ sw.free = [sv.free EXCEPT ![MAX_CLIENTS - n] = s]
      /\ DOMAIN sw = {"cs", "ps", "pis", "free", "queue"}
  BY <1>3, <1>7
<1>10. /\ DOMAIN sw.cs = Slots
       /\ \A r \in Slots : DOMAIN sw.cs[r] = ClientFields /\ sw.cs[r].gen \in Nat
       /\ sw.cs[s].state = "FREE" /\ sw.cs[s].input = <<>> /\ sw.cs[s].gen = sv.cs[s].gen + 1
       /\ \A r \in Slots \ {s} : /\ sw.cs[r].state = sv.cs[r].state
                                 /\ sw.cs[r].gen = sv.cs[r].gen
                                 /\ sw.cs[r].input = sv.cs[r].input
                                 /\ sw.cs[r].pitem =
                                      IF r = sv.pis[n] THEN pi ELSE sv.cs[r].pitem
  <2>1. CASE pi = n
    BY <1>3, <1>5, <1>8, <2>1
  <2>2. CASE pi # n
    <3>1. sw = [cleared EXCEPT !.cs[sv.pis[n]].pitem = pi]
      BY <1>3, <2>2
    <3> HIDE DEF sw, pi, n
    <3> QED BY <1>5, <1>7, <1>8, <2>2, <3>1 DEF ClientFields
  <2> QED BY <2>1, <2>2
<1> HIDE DEF sw
<1>11. sw.free \in [Slots -> Slots]
  BY <1>0, <1>5, <1>9 DEF IsServer
<1>12. IsServer(sw)
  BY <1>0, <1>4, <1>9, <1>10, <1>11 DEF IsServer
<1>13. Closes(sv, sw, s)
  BY <1>4, <1>9, <1>10, <1>12, NothingFound DEF Closes, n
<1> QED BY <1>13 DEF sw

(* The tables agree again. *)
LEMMA CloseTables ==
    ASSUME NEW sv, Tables(sv), NEW s \in Slots, sv.cs[s].state # "FREE",
           NEW sw, Closes(sv, sw, s)
    PROVE  Tables(sw)
<1> DEFINE pi == sv.cs[s].pitem
           n == Len(sv.pis)
<1>0. /\ IsServer(sv) /\ Len(sv.ps) = n /\ n \in Nat /\ n <= MAX_CLIENTS /\ MAX_CLIENTS \in Nat
      /\ n \in 1 .. n /\ n - 1 \in Nat
  BY LivePlace, HttpAssumption DEF Tables, IsServer
<1>1. pi \in 1 .. n /\ sv.pis[pi] = s
  BY LivePlace
<1>2. \A i \in 1 .. n : /\ sv.pis[i] \in Slots /\ sv.cs[sv.pis[i]].pitem = i
                        /\ sv.cs[sv.pis[i]].state # "FREE"
  BY InPis
<1>3. \A i \in 0 .. MAX_CLIENTS - n - 1 : /\ i \in Slots /\ sv.free[i] \in Slots
                                          /\ sv.cs[sv.free[i]].state = "FREE"
  <2>1. 0 .. MAX_CLIENTS - n - 1 \subseteq Slots
    BY <1>0 DEF Slots
  <2>2. sv.free \in [Slots -> Slots]
    BY <1>0 DEF IsServer
  <2>3. \A i \in 0 .. MAX_CLIENTS - n - 1 : sv.free[i] \in Slots
    BY <2>1, <2>2
  <2> QED BY <2>1, <2>3 DEF Tables
<1>4. /\ Len(sw.pis) = n - 1 /\ Len(sw.ps) = n - 1
      /\ \A i \in 1 .. n - 1 : sw.pis[i] = IF i = pi THEN sv.pis[n] ELSE sv.pis[i]
  BY <1>0 DEF Closes, Filled
<1>5. /\ MAX_CLIENTS - Len(sw.pis) - 1 = MAX_CLIENTS - n
      /\ MAX_CLIENTS - n \in Slots
      /\ sw.free[MAX_CLIENTS - n] = s
      /\ \A i \in 0 .. MAX_CLIENTS - n - 1 : sw.free[i] = sv.free[i]
  <2>1. MAX_CLIENTS - n \in Slots /\ MAX_CLIENTS - Len(sw.pis) - 1 = MAX_CLIENTS - n
    BY <1>0, <1>4 DEF Slots
  <2>2. sw.free = [sv.free EXCEPT ![MAX_CLIENTS - n] = s] /\ DOMAIN sv.free = Slots
    BY <1>0 DEF Closes, IsServer
  <2>3. \A i \in 0 .. MAX_CLIENTS - n - 1 : i # MAX_CLIENTS - n
    BY <1>0
  <2> HIDE DEF n
  <2> QED BY <1>3, <2>1, <2>2, <2>3
<1>6. /\ \A r \in Slots \ {s} : /\ sw.cs[r].state = sv.cs[r].state
                                /\ sw.cs[r].pitem = IF r = sv.pis[n] THEN pi ELSE sv.cs[r].pitem
      /\ sw.cs[s].state = "FREE" /\ IsServer(sw)
  BY DEF Closes
<1> HIDE DEF pi, n
<1>7. ASSUME NEW i \in 1 .. Len(sw.pis)
      PROVE  sw.cs[sw.pis[i]].pitem = i /\ sw.cs[sw.pis[i]].state # "FREE"
  <2>1. i \in 1 .. n - 1 /\ i \in 1 .. n /\ i # n
    BY <1>0, <1>4, <1>7
  <2>2. CASE i = pi
    <3>1. sw.pis[i] = sv.pis[n] /\ sv.pis[n] # s /\ sv.pis[n] \in Slots
      BY <1>0, <1>1, <1>2, <1>4, <2>1, <2>2
    <3> QED BY <1>0, <1>2, <1>6, <2>2, <3>1
  <2>3. CASE i # pi
    <3>1. sw.pis[i] = sv.pis[i] /\ sv.pis[i] # s /\ sv.pis[i] \in Slots /\ sv.pis[i] # sv.pis[n]
      BY <1>0, <1>1, <1>2, <1>4, <2>1, <2>3
    <3> QED BY <1>2, <1>6, <2>1, <3>1
  <2> QED BY <2>2, <2>3
<1>8. ASSUME NEW i \in 0 .. MAX_CLIENTS - n
      PROVE  /\ sw.cs[sw.free[i]].state = "FREE"
             /\ sw.free[i] = s <=> i = MAX_CLIENTS - n
  <2>1. CASE i = MAX_CLIENTS - n
    BY <1>5, <1>6, <2>1
  <2>2. CASE i # MAX_CLIENTS - n
    <3>1. i \in 0 .. MAX_CLIENTS - n - 1
      BY <1>0, <1>8, <2>2
    <3>2. sw.free[i] = sv.free[i] /\ sv.free[i] \in Slots /\ sv.free[i] # s
      BY <1>3, <1>5, <3>1
    <3> QED BY <1>3, <1>6, <2>2, <3>1, <3>2
  <2> QED BY <2>1, <2>2
<1>9. ASSUME NEW i \in 0 .. MAX_CLIENTS - n, NEW j \in 0 .. MAX_CLIENTS - n,
             sw.free[i] = sw.free[j]
      PROVE  i = j
  <2>1. CASE i = MAX_CLIENTS - n \/ j = MAX_CLIENTS - n
    BY <1>8, <1>9, <2>1
  <2>2. CASE i # MAX_CLIENTS - n /\ j # MAX_CLIENTS - n
    <3>1. i \in 0 .. MAX_CLIENTS - n - 1 /\ j \in 0 .. MAX_CLIENTS - n - 1
      BY <1>0, <2>2
    <3>2. sv.free[i] = sv.free[j]
      BY <1>5, <1>9, <3>1
    <3> QED BY <3>1, <3>2 DEF Tables, n
  <2> QED BY <2>1, <2>2
<1>10. ASSUME NEW r \in Slots
       PROVE  \/ \E i \in 1 .. Len(sw.pis) : sw.pis[i] = r
              \/ \E i \in 0 .. MAX_CLIENTS - n : sw.free[i] = r
  <2>1. CASE r = s
    <3>1. MAX_CLIENTS - n \in 0 .. MAX_CLIENTS - n
      BY <1>0
    <3> QED BY <1>5, <2>1, <3>1
  <2>2. CASE r # s /\ \E i \in 1 .. n : sv.pis[i] = r
    <3>1. PICK i \in 1 .. n : sv.pis[i] = r
      BY <2>2
    <3>2. CASE i = n
      <4>1. pi # n /\ pi \in 1 .. n - 1
        BY <1>0, <1>1, <2>2, <3>1, <3>2
      <4>2. sw.pis[pi] = r
        BY <1>4, <3>1, <3>2, <4>1
      <4> QED BY <1>4, <4>1, <4>2
    <3>3. CASE i # n
      <4>1. i # pi /\ i \in 1 .. n - 1
        BY <1>0, <1>1, <2>2, <3>1, <3>3
      <4>2. sw.pis[i] = r
        BY <1>4, <3>1, <4>1
      <4> QED BY <1>4, <4>1, <4>2
    <3> QED BY <3>2, <3>3
  <2>3. CASE \E i \in 0 .. MAX_CLIENTS - n - 1 : sv.free[i] = r
    <3>1. PICK i \in 0 .. MAX_CLIENTS - n - 1 : sv.free[i] = r
      BY <2>3
    <3>2. i \in 0 .. MAX_CLIENTS - n /\ sw.free[i] = r
      BY <1>0, <1>5, <3>1
    <3> QED BY <3>2
  <2> QED BY <2>1, <2>2, <2>3 DEF Tables, n
<1>11. Len(sw.pis) <= MAX_CLIENTS /\ Len(sw.ps) = Len(sw.pis)
  BY <1>0, <1>4
<1> QED BY <1>5, <1>6, <1>7, <1>8, <1>9, <1>10, <1>11 DEF Tables
(* The entries of ps that are left were other entries: w[i] was q[f[i]]. *)
Moves(q, w, pi, f) ==
    /\ \A i \in 1 .. Len(w) : f[i] \in 1 .. Len(q) /\ f[i] # pi /\ w[i] = q[f[i]]
    /\ \A i, j \in 1 .. Len(w) : f[i] = f[j] => i = j
    /\ \A j \in 1 .. Len(q) : j # pi => \E i \in 1 .. Len(w) : f[i] = j

LEMMA OtherEntries ==
    ASSUME NEW q, NEW w, NEW pi \in 1 .. Len(q), Len(q) \in Nat, Filled(q, w, pi)
    PROVE  \E f : Moves(q, w, pi, f)
<1> DEFINE n == Len(q)
           f == [i \in 1 .. n - 1 |-> IF i = pi THEN n ELSE i]
<1>1. n \in Nat /\ n - 1 \in Nat /\ Len(w) = n - 1 /\ pi \in 1 .. n
      /\ \A i \in 1 .. n - 1 : w[i] = IF i = pi THEN q[n] ELSE q[i]
  BY DEF Filled
<1> HIDE DEF n
<1>3. \A i \in 1 .. n - 1 : f[i] \in 1 .. n /\ f[i] # pi /\ w[i] = q[f[i]]
  BY <1>1
<1>4. \A i, j \in 1 .. n - 1 : f[i] = f[j] => i = j
  BY <1>1
<1>5. ASSUME NEW j \in 1 .. n, j # pi PROVE \E i \in 1 .. n - 1 : f[i] = j
  <2>1. CASE j = n
    <3>1. pi \in 1 .. n - 1 /\ f[pi] = j
      BY <1>1, <1>5, <2>1
    <3> QED BY <3>1
  <2>2. CASE j # n
    <3>1. j \in 1 .. n - 1 /\ f[j] = j
      BY <1>1, <1>5, <2>2
    <3> QED BY <3>1
  <2> QED BY <2>1, <2>2
<1> HIDE DEF f
<1>6. Moves(q, w, pi, f)
  BY <1>1, <1>3, <1>4, <1>5 DEF Moves, n
<1> QED BY <1>6

(* nw is nt when c was closed. *)
ClosedNet(nt, nw, c) ==
    /\ IsNet(nw) /\ nw[c].open # "yes"
    /\ \A d \in Conns : d # c => nw[d] = nt[d]

LEMMA ClosedNetIs ==
    ASSUME NEW nt, IsNet(nt), NEW c \in Conns
    PROVE  ClosedNet(nt, [nt EXCEPT ![c] = Closed(@)], c)
BY DEF ClosedNet, IsNet, Closed

LEMMA OneEntry ==
    ASSUME NEW sv, NEW nt, NEW bl, NEW k, Links(sv, nt, bl, k)
    PROVE  \A i, j \in 1 .. Len(sv.ps) : sv.ps[i].fd = sv.ps[j].fd => i = j
BY DEF Links

LEMMA CloseLinks ==
    ASSUME NEW sv, Tables(sv), NEW s \in Slots, sv.cs[s].state # "FREE",
           NEW sw, Closes(sv, sw, s),
           NEW nt, IsNet(nt), NEW bl \in Seq(Conns), NEW k \in Nat, Links(sv, nt, bl, k),
           NEW nw, ClosedNet(nt, nw, sv.ps[sv.cs[s].pitem].fd)
    PROVE  Links(sw, nw, bl, k)
<1> DEFINE pi == sv.cs[s].pitem
           n == Len(sv.ps)
           c == sv.ps[pi].fd
<1>0. pi \in 1 .. n /\ n \in Nat /\ sv.ps \in Seq(Entries) /\ Filled(sv.ps, sw.ps, pi)
  <2>1. sv.cs[s].pitem \in 1 .. Len(sv.pis)
    BY LivePlace
  <2>2. Len(sv.ps) = Len(sv.pis) /\ sv.ps \in Seq(Entries)
    BY DEF Tables, IsServer
  <2>3. Filled(sv.ps, sw.ps, sv.cs[s].pitem)
    BY DEF Closes
  <2> QED BY <2>1, <2>2, <2>3
<1>1. \A i \in 1 .. n : sv.ps[i].fd \in Conns
  <2>1. \A i \in 1 .. n : sv.ps[i] \in Entries
    BY <1>0
  <2> QED BY <2>1 DEF Entries
<1>2. PICK f : Moves(sv.ps, sw.ps, pi, f)
  BY <1>0, OtherEntries
<1>3. /\ \A i \in 1 .. Len(sw.ps) : f[i] \in 1 .. n /\ f[i] # pi /\ sw.ps[i] = sv.ps[f[i]]
      /\ \A i, j \in 1 .. Len(sw.ps) : f[i] = f[j] => i = j
      /\ \A j \in 1 .. n : j # pi => \E i \in 1 .. Len(sw.ps) : f[i] = j
  BY <1>2 DEF Moves
<1>4. \A i, j \in 1 .. n : sv.ps[i].fd = sv.ps[j].fd => i = j
  BY OneEntry, Zenon
<1>5. c \in Conns /\ ~Waits(bl, k, c) /\ nw[c].open # "yes"
      /\ \A d \in Conns : d # c => nw[d] = nt[d]
  BY <1>0, <1>1 DEF Links, ClosedNet
<1>6. \A i \in 1 .. Len(sw.ps) : f[i] \in 1 .. n /\ sw.ps[i].fd = sv.ps[f[i]].fd
                                 /\ sw.ps[i].fd # c /\ sw.ps[i].fd \in Conns
  <2> SUFFICES ASSUME NEW i \in 1 .. Len(sw.ps)
               PROVE  /\ f[i] \in 1 .. n /\ sw.ps[i].fd = sv.ps[f[i]].fd
                      /\ sw.ps[i].fd # c /\ sw.ps[i].fd \in Conns
    OBVIOUS
  <2>1. f[i] \in 1 .. n /\ f[i] # pi /\ sw.ps[i] = sv.ps[f[i]]
    BY <1>3
  <2>2. sv.ps[f[i]].fd # sv.ps[pi].fd /\ sv.ps[f[i]].fd \in Conns
    BY <1>0, <1>1, <1>4, <2>1
  <2> QED BY <2>1, <2>2
<1> HIDE DEF pi, n, c
<1>7. \A i \in 1 .. Len(sw.ps) : nw[sw.ps[i].fd].open = "yes" /\ ~Waits(bl, k, sw.ps[i].fd)
  <2>1. \A j \in 1 .. n : nt[sv.ps[j].fd].open = "yes" /\ ~Waits(bl, k, sv.ps[j].fd)
    BY DEF Links, n
  <2> SUFFICES ASSUME NEW i \in 1 .. Len(sw.ps)
               PROVE  nw[sw.ps[i].fd].open = "yes" /\ ~Waits(bl, k, sw.ps[i].fd)
    OBVIOUS
  <2>2. /\ nt[sw.ps[i].fd].open = "yes" /\ ~Waits(bl, k, sw.ps[i].fd)
        /\ sw.ps[i].fd # c /\ sw.ps[i].fd \in Conns
    BY <2>1, <1>6
  <2> QED BY <2>2, <1>5
<1>8. \A i, j \in 1 .. Len(sw.ps) : sw.ps[i].fd = sw.ps[j].fd => i = j
  <2> SUFFICES ASSUME NEW i \in 1 .. Len(sw.ps), NEW j \in 1 .. Len(sw.ps),
                      sw.ps[i].fd = sw.ps[j].fd
               PROVE  i = j
    OBVIOUS
  <2>1. /\ f[i] \in 1 .. n /\ sw.ps[i].fd = sv.ps[f[i]].fd
        /\ f[j] \in 1 .. n /\ sw.ps[j].fd = sv.ps[f[j]].fd
    BY <1>6
  <2>2. f[i] = f[j]
    BY <1>4, <2>1
  <2> QED BY <1>3, <2>2
<1>9. ASSUME NEW d \in Conns, nw[d].open = "yes"
      PROVE  Waits(bl, k, d) \/ \E i \in 1 .. Len(sw.ps) : sw.ps[i].fd = d
  <2>1. d # c /\ nt[d].open = "yes"
    BY <1>5, <1>9
  <2>2. CASE \E j \in 1 .. n : sv.ps[j].fd = d
    <3>1. PICK j \in 1 .. n : sv.ps[j].fd = d
      BY <2>2
    <3>2. j # pi
      BY <2>1, <3>1 DEF c
    <3>3. PICK i \in 1 .. Len(sw.ps) : f[i] = j
      BY <1>3, <3>2
    <3> QED BY <1>6, <3>1, <3>3
  <2> QED BY <2>1, <2>2 DEF Links, n
<1>10. ASSUME NEW i \in k + 1 .. Len(bl) PROVE nw[bl[i]].open = "yes"
  <2>1. bl[i] \in Conns
    BY <1>10
  <2>2. bl[i] # c
    BY <1>5 DEF Waits
  <2> QED BY <1>5, <2>1, <2>2 DEF Links
<1>11. \A i, j \in k + 1 .. Len(bl) : bl[i] = bl[j] => i = j
  BY DEF Links
<1> QED BY <1>7, <1>8, <1>9, <1>10, <1>11 DEF Links

LEMMA CloseHandles ==
    ASSUME NEW sv, IsServer(sv), NEW s \in Slots, NEW sw, Closes(sv, sw, s),
           NEW kn, Handles(sv, kn)
    PROVE  Handles(sw, kn)
<1> SUFFICES ASSUME NEW h \in kn
             PROVE  /\ h.idx \in Slots /\ h.gen \in Nat /\ h.gen <= sw.cs[h.idx].gen
                    /\ h.gen = sw.cs[h.idx].gen => sw.cs[h.idx].state \in Responding
  BY DEF Handles
<1>1. /\ h.idx \in Slots /\ h.gen \in Nat /\ h.gen <= sv.cs[h.idx].gen
      /\ h.gen = sv.cs[h.idx].gen => sv.cs[h.idx].state \in Responding
  BY DEF Handles
<1>2. sv.cs[h.idx].gen \in Nat
  BY <1>1 DEF IsServer
<1>3. CASE h.idx = s
  <2>1. sw.cs[s].gen = sv.cs[s].gen + 1
    BY DEF Closes
  <2> QED BY <1>1, <1>2, <1>3, <2>1
<1>4. CASE h.idx # s
  <2>1. sw.cs[h.idx].gen = sv.cs[h.idx].gen /\ sw.cs[h.idx].state = sv.cs[h.idx].state
    BY <1>1, <1>4 DEF Closes
  <2> QED BY <1>1, <2>1
<1> QED BY <1>3, <1>4

(* A client that is closed in the queue stays there, and is lost. *)
LEMMA CloseQueue ==
    ASSUME NEW sv, IsServer(sv), NEW s \in Slots, sv.cs[s].state # "FREE",
           NEW sw, Closes(sv, sw, s), NEW lo, Queue(sv, lo),
           NEW lw, lo \subseteq lw, sv.cs[s].state = "QUEUED" => s \in lw
    PROVE  Queue(sw, lw)
<1>0. /\ Len(sv.queue) \in Nat /\ sw.queue = sv.queue
      /\ \A i \in 1 .. Len(sv.queue) : sv.queue[i] \in Slots
  BY DEF IsServer, Closes
<1>1. /\ \A r \in Slots : r # s => /\ sw.cs[r].state = sv.cs[r].state
                                   /\ sw.cs[r].input = sv.cs[r].input
      /\ sw.cs[s].state = "FREE" /\ ~find(sw.cs[s].input)
  BY DEF Closes
<1>2. ASSUME NEW i \in 1 .. Len(sw.queue)
      PROVE  InQueue(sw.cs[sw.queue[i]], sw.queue[i], lw)
  <2>1. InQueue(sv.cs[sv.queue[i]], sv.queue[i], lo) /\ sv.queue[i] \in Slots
    BY <1>0, <1>2 DEF Queue
  <2>2. CASE sv.queue[i] = s
    BY <1>0, <1>1, <2>1, <2>2 DEF InQueue
  <2>3. CASE sv.queue[i] # s
    BY <1>0, <1>1, <2>1, <2>3 DEF InQueue
  <2> QED BY <2>2, <2>3
<1>3. ASSUME NEW r \in Slots, sw.cs[r].state = "QUEUED"
      PROVE  \E i \in 1 .. Len(sw.queue) : sw.queue[i] = r
  BY <1>0, <1>1, <1>3 DEF Queue
<1>4. ASSUME NEW r \in Slots, sw.cs[r].state = "IDLE" PROVE ~find(sw.cs[r].input)
  BY <1>1, <1>4 DEF Queue
<1>5. \A i, j \in 1 .. Len(sw.queue) : sw.queue[i] = sw.queue[j] => i = j
  BY <1>0 DEF Queue
<1> QED BY <1>2, <1>3, <1>4, <1>5 DEF Queue

(* The loop looks at the entry that was moved into the gap next. *)
LEMMA CloseLoop ==
    ASSUME NEW sv, Tables(sv), NEW t \in 1 .. Len(sv.pis), NEW s \in Slots, s = sv.pis[t],
           \A i \in t + 1 .. Len(sv.pis) : sv.cs[sv.pis[i]].state # "QUEUED",
           NEW sw, Closes(sv, sw, s)
    PROVE  Loop(sw, t)
<1> DEFINE n == Len(sv.pis)
<1>1. \A i \in 1 .. n : /\ sv.pis[i] \in Slots
                        /\ sv.cs[sv.pis[i]].pitem = i
                        /\ sv.cs[sv.pis[i]].state # "FREE"
  BY InPis
<1>2. n \in Nat /\ t \in 1 .. n /\ sv.cs[s].pitem = t
  BY <1>1 DEF Tables, IsServer
<1>3. /\ Len(sw.pis) = n - 1
      /\ \A i \in 1 .. n - 1 : sw.pis[i] = IF i = t THEN sv.pis[n] ELSE sv.pis[i]
  BY <1>2 DEF Closes, Filled
<1>4. \A r \in Slots : r # s => sw.cs[r].state = sv.cs[r].state
  BY DEF Closes
<1> SUFFICES ASSUME NEW i \in t .. Len(sw.pis)
             PROVE  sw.cs[sw.pis[i]].state # "QUEUED"
  BY <1>2 DEF Loop
<1> HIDE DEF n
<1>5. PICK j \in t + 1 .. n : sw.pis[i] = sv.pis[j]
  <2>1. i \in 1 .. n - 1 /\ i \in t .. n - 1
    BY <1>2, <1>3
  <2>2. CASE i = t
    <3>1. n \in t + 1 .. n
      BY <1>2, <2>1, <2>2
    <3> QED BY <1>3, <2>1, <2>2, <3>1
  <2>3. CASE i # t
    <3>1. i \in t + 1 .. n
      BY <1>2, <2>1, <2>3
    <3> QED BY <1>3, <2>1, <2>3, <3>1
  <2> QED BY <2>2, <2>3
<1>6. j \in 1 .. n /\ j # t
  BY <1>2, <1>5
<1>7. sv.pis[j] \in Slots /\ sv.pis[j] # s /\ sv.cs[sv.pis[j]].state # "QUEUED"
  BY <1>1, <1>2, <1>5, <1>6 DEF n
<1> QED BY <1>4, <1>5, <1>7
-----------------------------------------------------------------------------
(* AcceptClient *)

(* The connection c gets the structure s, on top of the stack. *)
Accepts(sv, sw, c, s) ==
    LET n == Len(sv.pis)
    IN  /\ s = sv.free[MAX_CLIENTS - (n + 1)]
        /\ IsServer(sw)
        /\ Len(sw.pis) = n + 1 /\ sw.pis[n + 1] = s
        /\ \A i \in 1 .. n : sw.pis[i] = sv.pis[i]
        /\ Len(sw.ps) = n + 1 /\ sw.ps[n + 1].fd = c
        /\ \A i \in 1 .. n : sw.ps[i] = sv.ps[i]
        /\ sw.free = sv.free /\ sw.queue = sv.queue
        /\ \A r \in Slots : r # s => sw.cs[r] = sv.cs[r]
        /\ sw.cs[s].state = "IDLE" /\ ~find(sw.cs[s].input)
        /\ sw.cs[s].pitem = n + 1 /\ sw.cs[s].gen = sv.cs[s].gen

LEMMA AcceptEffect ==
    ASSUME NEW sv, Tables(sv), Len(sv.pis) < MAX_CLIENTS, NEW c \in Conns
    PROVE  \E s \in Slots : Accepts(sv, AcceptClient(sv, c), c, s)
<1> DEFINE n == Len(sv.pis)
           s == sv.free[MAX_CLIENTS - (n + 1)]
           e == [fd |-> c, pollout |-> FALSE, in |-> FALSE, out |-> FALSE]
           sw == AcceptClient(sv, c)
<1>0. IsServer(sv) /\ n \in Nat /\ Len(sv.ps) = n
  BY DEF Tables, IsServer
<1>1. s \in Slots
  <2>1. MAX_CLIENTS - (n + 1) \in Slots
    BY <1>0, HttpAssumption DEF Slots
  <2> QED BY <1>0, <2>1 DEF IsServer
<1> HIDE DEF s
<1>2. sw = [sv EXCEPT
              !.ps = Append(@, e), !.pis = Append(@, s),
              !.cs[s].state = "IDLE", !.cs[s].input = <<>>, !.cs[s].output = <<>>,
              !.cs[s].pitem = n + 1, !.cs[s].num_served = 0]
  BY DEF AcceptClient, Ncs, s
<1> HIDE DEF sw, e
<1>3. sw.ps = Append(sv.ps, e) /\ sw.pis = Append(sv.pis, s) /\ sw.free = sv.free
      /\ sw.queue = sv.queue /\ DOMAIN sw = {"cs", "ps", "pis", "free", "queue"}
  BY <1>0, <1>2 DEF IsServer
<1> HIDE DEF n
<1>4. /\ DOMAIN sw.cs = Slots
      /\ \A r \in Slots : DOMAIN sw.cs[r] = ClientFields /\ sw.cs[r].gen \in Nat
      /\ \A r \in Slots : r # s => sw.cs[r] = sv.cs[r]
      /\ sw.cs[s].state = "IDLE" /\ sw.cs[s].input = <<>>
      /\ sw.cs[s].pitem = n + 1 /\ sw.cs[s].gen = sv.cs[s].gen
  <2> DEFINE cl == [sv.cs[s] EXCEPT !.state = "IDLE", !.input = <<>>, !.output = <<>>,
                                    !.pitem = n + 1, !.num_served = 0]
  <2>1. sw.cs = [sv.cs EXCEPT ![s] = cl]
    BY <1>0, <1>1, <1>2, Zenon DEF IsServer, ClientFields
  <2>2. DOMAIN cl = ClientFields /\ cl.gen = sv.cs[s].gen /\ cl.state = "IDLE"
        /\ cl.pitem = n + 1 /\ cl.input = <<>>
    BY <1>0, <1>1 DEF IsServer, ClientFields
  <2> HIDE DEF cl
  <2> QED BY <1>0, <1>1, <2>1, <2>2 DEF IsServer
<1>5. e \in Entries /\ e.fd = c
  BY DEF e, Entries
<1>6. /\ sw.ps \in Seq(Entries) /\ Len(sw.ps) = n + 1 /\ sw.ps[n + 1] = e
      /\ \A i \in 1 .. n : sw.ps[i] = sv.ps[i]
  <2>1. sv.ps \in Seq(Entries) /\ Len(sv.ps) = n
    BY <1>0 DEF IsServer
  <2> QED BY <1>3, <1>5, <2>1, AppendProperties
<1>7. /\ sw.pis \in Seq(Slots) /\ Len(sw.pis) = n + 1 /\ sw.pis[n + 1] = s
      /\ \A i \in 1 .. n : sw.pis[i] = sv.pis[i]
  <2>1. sv.pis \in Seq(Slots) /\ Len(sv.pis) = n
    BY <1>0 DEF IsServer, n
  <2> QED BY <1>1, <1>3, <2>1, AppendProperties
<1>8. IsServer(sw)
  BY <1>0, <1>3, <1>4, <1>6, <1>7 DEF IsServer
<1>9. Accepts(sv, sw, c, s)
  BY <1>1, <1>3, <1>4, <1>5, <1>6, <1>7, <1>8, NothingFound DEF Accepts, n, s
<1> QED BY <1>1, <1>9 DEF sw

LEMMA AcceptTables ==
    ASSUME NEW sv, Tables(sv), Len(sv.pis) < MAX_CLIENTS, NEW c, NEW s \in Slots,
           NEW sw, Accepts(sv, sw, c, s)
    PROVE  Tables(sw) /\ sv.cs[s].state = "FREE"
<1> DEFINE n == Len(sv.pis)
           m == MAX_CLIENTS - (n + 1)
<1>0. /\ n \in Nat /\ m \in 0 .. MAX_CLIENTS - n - 1 /\ MAX_CLIENTS \in Nat /\ n < MAX_CLIENTS
      /\ MAX_CLIENTS - (n + 1) - 1 = m - 1
      /\ \A i \in 0 .. m - 1 : i \in 0 .. MAX_CLIENTS - n - 1 /\ i # m
      /\ \A i \in 0 .. MAX_CLIENTS - n - 1 : i # m => i \in 0 .. m - 1
  <2>1. n \in Nat
    BY DEF Tables, IsServer
  <2> HIDE DEF n
  <2> QED BY <2>1, HttpAssumption DEF n
<1>1. \A i \in 1 .. n : /\ sv.pis[i] \in Slots /\ sv.cs[sv.pis[i]].pitem = i
                        /\ sv.cs[sv.pis[i]].state # "FREE"
  BY InPis
<1>2. /\ s = sv.free[m] /\ IsServer(sw)
      /\ Len(sw.pis) = n + 1 /\ sw.pis[n + 1] = s /\ Len(sw.ps) = n + 1
      /\ \A i \in 1 .. n : sw.pis[i] = sv.pis[i]
      /\ sw.free = sv.free
      /\ \A r \in Slots : r # s => sw.cs[r] = sv.cs[r]
      /\ sw.cs[s].state = "IDLE" /\ sw.cs[s].pitem = n + 1
  BY DEF Accepts
<1>3. /\ \A i \in 0 .. MAX_CLIENTS - n - 1 : sv.cs[sv.free[i]].state = "FREE"
      /\ \A i, j \in 0 .. MAX_CLIENTS - n - 1 : sv.free[i] = sv.free[j] => i = j
      /\ \A r \in Slots : \/ \E i \in 1 .. n : sv.pis[i] = r
                          \/ \E i \in 0 .. MAX_CLIENTS - n - 1 : sv.free[i] = r
  BY DEF Tables
<1>4. \A i \in 0 .. MAX_CLIENTS - n - 1 : sv.free[i] \in Slots
  <2>1. 0 .. MAX_CLIENTS - n - 1 \subseteq Slots
    BY <1>0 DEF Slots
  <2>2. sv.free \in [Slots -> Slots]
    BY DEF Tables, IsServer
  <2> QED BY <2>1, <2>2
<1> HIDE DEF n, m
<1>5. sv.cs[s].state = "FREE"
  BY <1>0, <1>2, <1>3
<1>6. ASSUME NEW i \in 1 .. Len(sw.pis)
      PROVE  sw.cs[sw.pis[i]].pitem = i /\ sw.cs[sw.pis[i]].state # "FREE"
  <2>1. CASE i = n + 1
    BY <1>2, <2>1
  <2>2. CASE i # n + 1
    <3>1. i \in 1 .. n
      BY <1>0, <1>2, <1>6, <2>2
    <3>2. sw.pis[i] = sv.pis[i] /\ sv.pis[i] # s
      BY <1>1, <1>2, <1>5, <3>1
    <3> QED BY <1>1, <1>2, <3>1, <3>2
  <2> QED BY <2>1, <2>2
<1>7. ASSUME NEW i \in 0 .. m - 1
      PROVE  sw.cs[sw.free[i]].state = "FREE"
  <2>1. i \in 0 .. MAX_CLIENTS - n - 1 /\ i # m
    BY <1>0, <1>7
  <2>2. sv.free[i] # s
    BY <1>0, <1>2, <1>3, <2>1
  <2> QED BY <1>2, <1>3, <1>4, <2>1, <2>2
<1>8. \A i, j \in 0 .. m - 1 : sw.free[i] = sw.free[j] => i = j
  BY <1>0, <1>2, <1>3
<1>9. ASSUME NEW r \in Slots
      PROVE  \/ \E i \in 1 .. Len(sw.pis) : sw.pis[i] = r
             \/ \E i \in 0 .. m - 1 : sw.free[i] = r
  <2>1. CASE r = s
    BY <1>0, <1>2, <2>1
  <2>2. CASE r # s /\ \E i \in 1 .. n : sv.pis[i] = r
    <3>1. PICK i \in 1 .. n : sv.pis[i] = r
      BY <2>2
    <3>2. i \in 1 .. Len(sw.pis) /\ sw.pis[i] = r
      BY <1>0, <1>2, <3>1
    <3> QED BY <3>2
  <2>3. CASE r # s /\ \E i \in 0 .. MAX_CLIENTS - n - 1 : sv.free[i] = r
    BY <1>0, <1>2, <2>3
  <2> QED BY <1>3, <2>1, <2>2, <2>3
<1>10. Len(sw.pis) <= MAX_CLIENTS /\ Len(sw.ps) = Len(sw.pis)
       /\ MAX_CLIENTS - Len(sw.pis) - 1 = m - 1
  BY <1>0, <1>2
<1> QED BY <1>2, <1>5, <1>6, <1>7, <1>8, <1>9, <1>10 DEF Tables

LEMMA AcceptLinks ==
    ASSUME NEW sv, Tables(sv), NEW c, NEW s \in Slots, NEW sw, Accepts(sv, sw, c, s),
           NEW nt, NEW bl \in Seq(Conns), NEW k \in Nat, k < Len(bl), c = bl[k + 1],
           Links(sv, nt, bl, k)
    PROVE  Links(sw, nt, bl, k + 1)
<1> DEFINE n == Len(sv.ps)
<1>0. /\ n \in Nat /\ Len(sw.ps) = n + 1 /\ sw.ps[n + 1].fd = c
      /\ \A i \in 1 .. n : sw.ps[i].fd = sv.ps[i].fd
  <2>1. n = Len(sv.pis) /\ n \in Nat
    BY DEF Tables, IsServer
  <2>2. /\ Len(sw.ps) = Len(sv.pis) + 1 /\ sw.ps[Len(sv.pis) + 1].fd = c
        /\ \A i \in 1 .. Len(sv.pis) : sw.ps[i] = sv.ps[i]
    BY DEF Accepts
  <2> QED BY <2>1, <2>2
<1>1. PICK len \in Nat : len = Len(bl)
  OBVIOUS
<1>2. /\ k + 1 \in k + 1 .. len
      /\ \A i \in k + 1 + 1 .. len : i \in k + 1 .. len /\ i # k + 1
      /\ \A i \in k + 1 .. len : i # k + 1 => i \in k + 1 + 1 .. len
  BY <1>1
<1>3. /\ \A i \in 1 .. n : nt[sv.ps[i].fd].open = "yes" /\ ~Waits(bl, k, sv.ps[i].fd)
      /\ \A i, j \in 1 .. n : sv.ps[i].fd = sv.ps[j].fd => i = j
      /\ \A d \in Conns : nt[d].open = "yes" =>
             Waits(bl, k, d) \/ \E i \in 1 .. n : sv.ps[i].fd = d
      /\ \A i \in k + 1 .. len : nt[bl[i]].open = "yes"
      /\ \A i, j \in k + 1 .. len : bl[i] = bl[j] => i = j
  BY <1>1 DEF Links
<1> HIDE DEF n
<1>4. \A d : Waits(bl, k, d) <=> d = c \/ Waits(bl, k + 1, d)
  BY <1>1, <1>2 DEF Waits
<1>5. ~Waits(bl, k + 1, c) /\ nt[c].open = "yes"
  BY <1>1, <1>2, <1>3 DEF Waits
<1>6. \A i \in 1 .. n + 1 : nt[sw.ps[i].fd].open = "yes" /\ ~Waits(bl, k + 1, sw.ps[i].fd)
  <2> SUFFICES ASSUME NEW i \in 1 .. n + 1
               PROVE  nt[sw.ps[i].fd].open = "yes" /\ ~Waits(bl, k + 1, sw.ps[i].fd)
    OBVIOUS
  <2>1. CASE i = n + 1
    BY <1>0, <1>5, <2>1
  <2>2. CASE i \in 1 .. n
    BY <1>0, <1>3, <1>4, <2>2
  <2> QED BY <1>0, <2>1, <2>2
<1>7. \A i \in 1 .. n : sw.ps[i].fd # c
  BY <1>0, <1>3, <1>4
<1>8. \A i, j \in 1 .. n + 1 : sw.ps[i].fd = sw.ps[j].fd => i = j
  <2> SUFFICES ASSUME NEW i \in 1 .. n + 1, NEW j \in 1 .. n + 1, sw.ps[i].fd = sw.ps[j].fd
               PROVE  i = j
    OBVIOUS
  <2>1. CASE i \in 1 .. n /\ j \in 1 .. n
    BY <1>0, <1>3, <2>1
  <2>2. CASE i = n + 1 /\ j \in 1 .. n
    BY <1>0, <1>7, <2>2
  <2>3. CASE j = n + 1 /\ i \in 1 .. n
    BY <1>0, <1>7, <2>3
  <2> QED BY <1>0, <2>1, <2>2, <2>3
<1>9. ASSUME NEW d \in Conns, nt[d].open = "yes"
      PROVE  Waits(bl, k + 1, d) \/ \E i \in 1 .. n + 1 : sw.ps[i].fd = d
  <2>1. CASE d = c
    BY <1>0, <2>1
  <2>2. CASE \E i \in 1 .. n : sv.ps[i].fd = d
    <3>1. PICK i \in 1 .. n : sv.ps[i].fd = d
      BY <2>2
    <3>2. i \in 1 .. n + 1 /\ sw.ps[i].fd = d
      BY <1>0, <3>1
    <3> QED BY <3>2
  <2> QED BY <1>3, <1>4, <1>9, <2>1, <2>2
<1>10. /\ \A i \in k + 1 + 1 .. len : nt[bl[i]].open = "yes"
       /\ \A i, j \in k + 1 + 1 .. len : bl[i] = bl[j] => i = j
  BY <1>2, <1>3
<1> QED BY <1>0, <1>1, <1>6, <1>8, <1>9, <1>10 DEF Links

LEMMA AcceptHandles ==
    ASSUME NEW sv, NEW c, NEW s \in Slots, sv.cs[s].state = "FREE",
           NEW sw, Accepts(sv, sw, c, s), NEW kn, Handles(sv, kn)
    PROVE  Handles(sw, kn)
<1> SUFFICES ASSUME NEW h \in kn
             PROVE  /\ h.idx \in Slots /\ h.gen \in Nat /\ h.gen <= sw.cs[h.idx].gen
                    /\ h.gen = sw.cs[h.idx].gen => sw.cs[h.idx].state \in Responding
  BY DEF Handles
<1>1. /\ h.idx \in Slots /\ h.gen \in Nat /\ h.gen <= sv.cs[h.idx].gen
      /\ h.gen = sv.cs[h.idx].gen => sv.cs[h.idx].state \in Responding
  BY DEF Handles
<1>2. CASE h.idx = s
  <2>1. sw.cs[s].gen = sv.cs[s].gen
    BY DEF Accepts
  <2> QED BY <1>1, <1>2, <2>1 DEF Responding
<1>3. CASE h.idx # s
  <2>1. sw.cs[h.idx] = sv.cs[h.idx]
    BY <1>1, <1>3 DEF Accepts
  <2> QED BY <1>1, <2>1
<1> QED BY <1>2, <1>3

(* poll accepts only while the queue is empty. *)
LEMMA AcceptQueue ==
    ASSUME NEW sv, NEW c, NEW s \in Slots, NEW sw, Accepts(sv, sw, c, s),
           NEW lo, Queue(sv, lo), sv.queue = <<>>
    PROVE  Queue(sw, lo) /\ sw.queue = <<>>
<1>1. /\ sw.queue = <<>> /\ sw.cs[s].state = "IDLE" /\ ~find(sw.cs[s].input)
      /\ \A r \in Slots : r # s => sw.cs[r] = sv.cs[r]
  BY DEF Accepts
<1>2. 1 .. Len(sw.queue) = {} /\ 1 .. Len(sv.queue) = {}
  BY <1>1
<1>3. \A r \in Slots : sv.cs[r].state # "QUEUED"
  BY <1>2 DEF Queue
<1>4. \A r \in Slots : sw.cs[r].state # "QUEUED"
  BY <1>1, <1>3
<1>5. \A r \in Slots : sw.cs[r].state = "IDLE" => ~find(sw.cs[r].input)
  BY <1>1 DEF Queue
<1> QED BY <1>1, <1>2, <1>4, <1>5 DEF Queue

LEMMA AcceptStep ==
    ASSUME NEW sv, NEW nt, NEW bl, NEW k \in Nat, NEW kn, NEW lo,
           Good(sv, nt, bl, k, kn, lo), sv.queue = <<>>,
           k < Len(bl), Len(sv.pis) < MAX_CLIENTS,
           NEW sw, sw = AcceptClient(sv, bl[k + 1])
    PROVE  /\ Good(sw, nt, bl, k + 1, kn, lo)
           /\ sw.queue = <<>>
           /\ Len(sw.pis) = Len(sv.pis) + 1
<1>0. /\ Tables(sv) /\ IsNet(nt) /\ bl \in Seq(Conns) /\ Links(sv, nt, bl, k)
      /\ Handles(sv, kn) /\ Queue(sv, lo)
  BY DEF Good
<1>1. bl[k + 1] \in Conns
  <2>1. k + 1 \in 1 .. Len(bl)
    BY <1>0
  <2> QED BY <1>0, <2>1
<1>2. PICK c \in Conns : c = bl[k + 1]
  BY <1>1
<1>3. PICK s \in Slots : Accepts(sv, sw, c, s)
  BY <1>0, <1>2, AcceptEffect
<1>4. Tables(sw) /\ sv.cs[s].state = "FREE"
  BY <1>0, <1>3, AcceptTables
<1>5. Links(sw, nt, bl, k + 1)
  BY <1>0, <1>2, <1>3, AcceptLinks
<1>6. Handles(sw, kn)
  BY <1>0, <1>3, <1>4, AcceptHandles
<1>7. Queue(sw, lo) /\ sw.queue = <<>>
  BY <1>0, <1>3, AcceptQueue
<1>8. Len(sw.pis) = Len(sv.pis) + 1
  BY <1>3 DEF Accepts
<1> QED BY <1>0, <1>4, <1>5, <1>6, <1>7, <1>8 DEF Good
(* The loop builds one server after another. *)
Builds(f, m, a, bl) ==
    f = [i \in 0 .. m |-> IF i = 0 THEN a ELSE AcceptClient(f[i - 1], bl[i])]

LEMMA LoopBuilds ==
    ASSUME NEW num \in Nat, NEW a, NEW bl
    PROVE  \E f : Builds(f, num, a, bl)
<1> DEFINE T == {m \in Nat : \E f : Builds(f, m, a, bl)}
<1>1. 0 \in T
  <2> DEFINE f == [i \in 0 .. 0 |-> a]
  <2>1. f = [i \in 0 .. 0 |-> IF i = 0 THEN a ELSE AcceptClient(f[i - 1], bl[i])]
    OBVIOUS
  <2>2. Builds(f, 0, a, bl)
    BY <2>1 DEF Builds
  <2> HIDE DEF f
  <2> QED BY <2>2
<1>2. ASSUME NEW m \in 1 .. num, m - 1 \in T PROVE m \in T
  <2>1. PICK f : Builds(f, m - 1, a, bl)
    BY <1>2
  <2> DEFINE g == [i \in 0 .. m |-> IF i = m THEN AcceptClient(f[m - 1], bl[m]) ELSE f[i]]
  <2>2. ASSUME NEW i \in 0 .. m
        PROVE  g[i] = IF i = 0 THEN a ELSE AcceptClient(g[i - 1], bl[i])
    <3>1. CASE i = m
      <4>1. i # 0 /\ i - 1 \in 0 .. m /\ i - 1 # m
        BY <3>1
      <4>2. g[i - 1] = f[m - 1] /\ g[i] = AcceptClient(f[m - 1], bl[m])
        BY <3>1, <4>1
      <4> QED BY <3>1, <4>1, <4>2
    <3>2. CASE i # m
      <4>1. i \in 0 .. m - 1 /\ g[i] = f[i]
        BY <2>2, <3>2
      <4>2. f[i] = IF i = 0 THEN a ELSE AcceptClient(f[i - 1], bl[i])
        BY <2>1, <4>1 DEF Builds
      <4>3. i # 0 => i - 1 \in 0 .. m /\ i - 1 # m /\ g[i - 1] = f[i - 1]
        BY <4>1
      <4> QED BY <4>1, <4>2, <4>3
    <3> QED BY <3>1, <3>2
  <2>3. g = [i \in 0 .. m |-> IF i = 0 THEN a ELSE AcceptClient(g[i - 1], bl[i])]
    BY <2>2
  <2> HIDE DEF g
  <2>4. Builds(g, m, a, bl)
    BY <2>3 DEF Builds
  <2> QED BY <2>4
<1> HIDE DEF T
<1>3. \A m \in 0 .. num : m \in T
  BY <1>1, <1>2, CountingUp
<1>4. num \in T
  BY <1>3
<1> QED BY <1>4 DEF T

LEMMA MinOfTwo ==
    ASSUME NEW x \in Nat, NEW y \in Nat
    PROVE  Min({x, y}) \in Nat /\ Min({x, y}) <= x /\ Min({x, y}) <= y
<1>1. \E z \in {x, y} : \A w \in {x, y} : z <= w
  OBVIOUS
<1>2. Min({x, y}) \in {x, y} /\ \A w \in {x, y} : Min({x, y}) <= w
  BY <1>1 DEF Min
<1> QED BY <1>2

(* After the loop the connections it took off the backlog have entries. *)
LEMMA AcceptLoopGood ==
    ASSUME NEW sv, NEW nt, NEW kn, NEW lo,
           Good(sv, nt, backlog, 0, kn, lo), sv.queue = <<>>,
           Len(sv.pis) = Len(server.pis)
    PROVE  LET sw == AcceptLoop(sv)
           IN  /\ Accepted \in Nat /\ Accepted <= Len(backlog)
               /\ Good(sw, nt, backlog, Accepted, kn, lo)
               /\ sw.queue = <<>>
<1> DEFINE K == Accepted
           n == Len(sv.pis)
<1>0. n \in Nat /\ n <= MAX_CLIENTS /\ MAX_CLIENTS \in Nat /\ Len(backlog) \in Nat
  BY HttpAssumption DEF Good, Tables, IsServer
<1>1. K \in Nat /\ K <= MAX_CLIENTS - n /\ K <= Len(backlog)
  <2>1. MAX_CLIENTS - n \in Nat
    BY <1>0
  <2> HIDE DEF n
  <2>2. Accepted = Min({MAX_CLIENTS - n, Len(backlog)})
    BY DEF Accepted, Ncs, n
  <2> QED BY <1>0, <2>1, <2>2, MinOfTwo
<1> HIDE DEF K, n
<1> DEFINE R == CHOOSE f : Builds(f, K, sv, backlog)
<1>2. AcceptLoop(sv) = R[K]
  BY Zenon DEF AcceptLoop, Builds, K
<1>3. Builds(R, K, sv, backlog)
  BY <1>1, LoopBuilds, Zenon
<1> HIDE DEF R
<1>4. R[0] = sv
  BY <1>1, <1>3 DEF Builds
<1>5. \A i \in 1 .. K : R[i] = AcceptClient(R[i - 1], backlog[i])
  BY <1>1, <1>3 DEF Builds
<1> DEFINE T == {i \in 0 .. K : /\ Good(R[i], nt, backlog, i, kn, lo)
                                /\ R[i].queue = <<>> /\ Len(R[i].pis) = n + i}
<1>6. 0 \in T
  BY <1>0, <1>1, <1>4 DEF n
<1>7. ASSUME NEW i \in 1 .. K, i - 1 \in T PROVE i \in T
  <2>1. PICK k \in Nat : k = i - 1
    BY <1>1
  <2>2. i = k + 1 /\ k < Len(backlog) /\ n + k < MAX_CLIENTS /\ k + 1 \in 0 .. K
    BY <1>0, <1>1, <2>1
  <2>3. PICK x : x = R[k]
    OBVIOUS
  <2>4. PICK y : y = R[k + 1]
    OBVIOUS
  <2>5. Good(x, nt, backlog, k, kn, lo) /\ x.queue = <<>> /\ Len(x.pis) = n + k
    BY <1>7, <2>1, <2>3
  <2>6. y = AcceptClient(x, backlog[k + 1])
    BY <1>5, <2>1, <2>2, <2>3, <2>4
  <2>7. Len(x.pis) < MAX_CLIENTS
    BY <2>2, <2>5
  <2>8. /\ Good(y, nt, backlog, k + 1, kn, lo) /\ y.queue = <<>>
        /\ Len(y.pis) = Len(x.pis) + 1
    BY <2>2, <2>5, <2>6, <2>7, AcceptStep
  <2>9. Len(y.pis) = n + (k + 1)
    BY <1>0, <2>5, <2>8
  <2> QED BY <2>2, <2>4, <2>8, <2>9
<1> HIDE DEF T
<1>8. \A i \in 0 .. K : i \in T
  BY <1>1, <1>6, <1>7, CountingUp
<1>9. K \in T
  BY <1>1, <1>8
<1> QED BY <1>1, <1>2, <1>9 DEF T, K
-----------------------------------------------------------------------------
(* The steps *)

(* A client that is not queued is changed, or what it is queued for stays. *)
LEMMA GoodStays ==
    ASSUME NEW sv, NEW nt, NEW bl, NEW k, NEW kn, NEW lo, Good(sv, nt, bl, k, kn, lo),
           NEW s \in Slots, NEW sw, NEW state, NEW gen, NEW input,
           Becomes(sv, sw, s, state, gen, input, sv.queue),
           \/ /\ gen = sv.cs[s].gen
              /\ sv.cs[s].state \in Responding => state \in Responding
           \/ gen = sv.cs[s].gen + 1,
           \/ state = sv.cs[s].state /\ input = sv.cs[s].input
           \/ /\ sv.cs[s].state # "QUEUED" /\ state # "QUEUED"
              /\ state = "IDLE" => ~find(input)
    PROVE  Good(sw, nt, bl, k, kn, lo)
<1>0. /\ Tables(sv) /\ IsServer(sv) /\ IsNet(nt) /\ bl \in Seq(Conns) /\ Links(sv, nt, bl, k)
      /\ Handles(sv, kn) /\ Queue(sv, lo)
  BY DEF Good, Tables
<1>1. /\ Touched(sv, sw, s) /\ sw.cs[s].state = state /\ sw.cs[s].gen = gen
      /\ sw.cs[s].input = input /\ sw.queue = sv.queue
  BY DEF Becomes
<1>2. Tables(sw)
  BY <1>0, <1>1, TouchTables
<1>3. Links(sw, nt, bl, k)
  BY <1>0, <1>1, TouchLinks
<1>4. Handles(sw, kn)
  BY <1>0, <1>1, TouchHandles
<1>5. Queue(sw, lo)
  BY <1>0, <1>1, TouchQueue
<1> QED BY <1>0, <1>2, <1>3, <1>4, <1>5 DEF Good

(* It is put in the queue. *)
LEMMA GoodPush ==
    ASSUME NEW sv, NEW nt, NEW bl, NEW k, NEW kn, NEW lo, Good(sv, nt, bl, k, kn, lo),
           NEW s \in Slots, NEW sw, NEW gen, NEW input,
           Becomes(sv, sw, s, "QUEUED", gen, input, Append(sv.queue, s)),
           sv.cs[s].state # "QUEUED", find(input),
           \/ gen = sv.cs[s].gen /\ sv.cs[s].state \notin Responding
           \/ gen = sv.cs[s].gen + 1
    PROVE  Good(sw, nt, bl, k, kn, lo)
<1>0. /\ Tables(sv) /\ IsServer(sv) /\ IsNet(nt) /\ bl \in Seq(Conns) /\ Links(sv, nt, bl, k)
      /\ Handles(sv, kn) /\ Queue(sv, lo)
  BY DEF Good, Tables
<1>1. /\ Touched(sv, sw, s) /\ sw.cs[s].state = "QUEUED" /\ sw.cs[s].gen = gen
      /\ sw.cs[s].input = input /\ sw.queue = Append(sv.queue, s)
  BY DEF Becomes
<1>2. Tables(sw)
  BY <1>0, <1>1, TouchTables
<1>3. Links(sw, nt, bl, k)
  BY <1>0, <1>1, TouchLinks
<1>4. Handles(sw, kn)
  BY <1>0, <1>1, TouchHandles
<1>5. Queue(sw, lo)
  BY <1>0, <1>1, TouchPush
<1> QED BY <1>0, <1>2, <1>3, <1>4, <1>5 DEF Good

(* The sockets do not come and go. *)
LEMMA GoodNet ==
    ASSUME NEW sv, NEW nt, NEW bl, NEW k \in Nat, NEW kn, NEW lo, Good(sv, nt, bl, k, kn, lo),
           NEW nw, IsNet(nw), \A c \in Conns : nw[c].open = nt[c].open
    PROVE  Good(sv, nw, bl, k, kn, lo)
<1>0. /\ Tables(sv) /\ bl \in Seq(Conns) /\ Links(sv, nt, bl, k)
      /\ Handles(sv, kn) /\ Queue(sv, lo)
  BY DEF Good
<1>1. \A i \in 1 .. Len(sv.ps) : sv.ps[i].fd \in Conns
  <2>1. sv.ps \in Seq(Entries)
    BY <1>0 DEF Tables, IsServer
  <2>2. \A i \in 1 .. Len(sv.ps) : sv.ps[i] \in Entries
    BY <2>1
  <2> QED BY <2>2 DEF Entries
<1>2. \A i \in k + 1 .. Len(bl) : bl[i] \in Conns
  BY <1>0
<1>3. Links(sv, nw, bl, k)
  BY <1>0, <1>1, <1>2 DEF Links
<1> QED BY <1>0, <1>3 DEF Good

LEMMA ConnectStep ==
    ASSUME HttpInv, NEW c \in Conns, Connect(c)
    PROVE  HttpInv'
<1>0. Running /\ Good(server, net, backlog, 0, known, lost)
  BY DEF HttpInv, Running, Connect, PeerStep
<1>1. /\ net[c].open = "no" /\ net' = [net EXCEPT ![c].open = "yes"]
      /\ backlog' = Append(backlog, c)
      /\ UNCHANGED <<server, pc, turn, known, lost>>
  BY DEF Connect, PeerStep, ghosts
<1>2. /\ Tables(server) /\ IsNet(net) /\ backlog \in Seq(Conns) /\ Links(server, net, backlog, 0)
      /\ Handles(server, known) /\ Queue(server, lost)
  BY <1>0 DEF Good
<1>3. IsNet(net') /\ net'[c].open = "yes" /\ \A d \in Conns : d # c => net'[d] = net[d]
  BY <1>1, <1>2 DEF IsNet
<1>4. PICK n \in Nat : n = Len(backlog)
  BY <1>2
<1>5. /\ backlog' \in Seq(Conns) /\ Len(backlog') = n + 1 /\ backlog'[n + 1] = c
      /\ \A i \in 1 .. n : backlog'[i] = backlog[i] /\ backlog[i] \in Conns
  BY <1>1, <1>2, <1>4, AppendProperties
<1>6. \A i \in 1 .. Len(server.ps) : server.ps[i].fd \in Conns
  <2>1. server.ps \in Seq(Entries)
    BY <1>2 DEF Tables, IsServer
  <2>2. \A i \in 1 .. Len(server.ps) : server.ps[i] \in Entries
    BY <2>1
  <2> QED BY <2>2 DEF Entries
<1>7. /\ \A i \in 1 .. Len(server.ps) : /\ net[server.ps[i].fd].open = "yes"
                                        /\ ~Waits(backlog, 0, server.ps[i].fd)
      /\ \A i, j \in 1 .. Len(server.ps) : server.ps[i].fd = server.ps[j].fd => i = j
      /\ \A d \in Conns : net[d].open = "yes" =>
             Waits(backlog, 0, d) \/ \E i \in 1 .. Len(server.ps) : server.ps[i].fd = d
      /\ \A i \in 1 .. n : net[backlog[i]].open = "yes"
      /\ \A i, j \in 1 .. n : backlog[i] = backlog[j] => i = j
  BY <1>2, <1>4 DEF Links
<1>8. \A d : Waits(backlog', 0, d) <=> d = c \/ Waits(backlog, 0, d)
  <2> SUFFICES ASSUME NEW d PROVE Waits(backlog', 0, d) <=> d = c \/ Waits(backlog, 0, d)
    OBVIOUS
  <2>1. Waits(backlog', 0, d) <=> \E i \in 1 .. n + 1 : backlog'[i] = d
    BY <1>5 DEF Waits
  <2>2. Waits(backlog, 0, d) <=> \E i \in 1 .. n : backlog[i] = d
    BY <1>4 DEF Waits
  <2> QED BY <1>5, <2>1, <2>2
<1>9. \A i \in 1 .. Len(server.ps) : server.ps[i].fd # c
  BY <1>1, <1>7
<1>10. \A i \in 1 .. n : backlog[i] # c
  BY <1>1, <1>7
<1>11. Links(server, net', backlog', 0)
  <2>1. \A i \in 1 .. Len(server.ps) : /\ net'[server.ps[i].fd].open = "yes"
                                       /\ ~Waits(backlog', 0, server.ps[i].fd)
    BY <1>3, <1>6, <1>7, <1>8, <1>9
  <2>2. \A d \in Conns : net'[d].open = "yes" =>
             Waits(backlog', 0, d) \/ \E i \in 1 .. Len(server.ps) : server.ps[i].fd = d
    BY <1>3, <1>7, <1>8
  <2>3. ASSUME NEW i \in 1 .. n + 1 PROVE net'[backlog'[i]].open = "yes"
    <3>1. CASE i = n + 1
      BY <1>3, <1>5, <3>1
    <3>2. CASE i \in 1 .. n
      BY <1>3, <1>5, <1>7, <1>10, <3>2
    <3> QED BY <3>1, <3>2
  <2>4. ASSUME NEW i \in 1 .. n + 1, NEW j \in 1 .. n + 1, backlog'[i] = backlog'[j]
        PROVE  i = j
    <3>1. CASE i \in 1 .. n /\ j \in 1 .. n
      BY <1>5, <1>7, <2>4, <3>1
    <3>2. CASE i = n + 1 /\ j \in 1 .. n
      BY <1>5, <1>10, <2>4, <3>2
    <3>3. CASE j = n + 1 /\ i \in 1 .. n
      BY <1>5, <1>10, <2>4, <3>3
    <3> QED BY <3>1, <3>2, <3>3
  <2> QED BY <1>5, <1>7, <2>1, <2>2, <2>3, <2>4 DEF Links
<1>12. Good(server, net', backlog', 0, known, lost)
  BY <1>2, <1>3, <1>5, <1>11 DEF Good
<1> QED BY <1>1, <1>12 DEF HttpInv, Running

LEMMA DeliverStep ==
    ASSUME HttpInv, NEW c \in Conns, Deliver(c)
    PROVE  HttpInv'
<1>0. Running /\ Good(server, net, backlog, 0, known, lost)
  BY DEF HttpInv, Running, Deliver, PeerStep
<1>1. /\ net' = [net EXCEPT ![c].pending = Append(@, Head(net[c].script)), ![c].script = Tail(@)]
      /\ UNCHANGED <<server, pc, turn, backlog, known, lost>>
  BY DEF Deliver, PeerStep, ghosts
<1>2. IsNet(net') /\ \A d \in Conns : net'[d].open = net[d].open
  BY <1>0, <1>1 DEF Good, IsNet
<1>3. Good(server, net', backlog, 0, known, lost)
  BY <1>0, <1>2, GoodNet
<1> QED BY <1>1, <1>3 DEF HttpInv, Running

LEMMA LeaveStep ==
    ASSUME HttpInv, NEW c \in Conns, Leave(c)
    PROVE  HttpInv'
<1>0. Running /\ Good(server, net, backlog, 0, known, lost)
  BY DEF HttpInv, Running, Leave, PeerStep
<1>1. /\ net' = [net EXCEPT ![c].fin = TRUE]
      /\ UNCHANGED <<server, pc, turn, backlog, known, lost>>
  BY DEF Leave, PeerStep, ghosts
<1>2. IsNet(net') /\ \A d \in Conns : net'[d].open = net[d].open
  BY <1>0, <1>1 DEF Good, IsNet
<1>3. Good(server, net', backlog, 0, known, lost)
  BY <1>0, <1>2, GoodNet
<1> QED BY <1>1, <1>3 DEF HttpInv, Running

(* poll only sets flags in ps. *)
LEMMA PolledGood ==
    ASSUME Good(server, net, backlog, 0, known, lost)
    PROVE  LET sv == [server EXCEPT !.ps = [i \in DOMAIN server.ps |-> Polled(server.ps[i])]]
           IN  /\ Good(sv, net, backlog, 0, known, lost)
               /\ sv.queue = server.queue /\ sv.pis = server.pis
<1> DEFINE ps == [i \in DOMAIN server.ps |-> Polled(server.ps[i])]
           sv == [server EXCEPT !.ps = ps]
<1>0. /\ Tables(server) /\ IsServer(server) /\ IsNet(net) /\ backlog \in Seq(Conns)
      /\ Links(server, net, backlog, 0) /\ Handles(server, known) /\ Queue(server, lost)
  BY DEF Good, Tables
<1>1. PICK n \in Nat : n = Len(server.ps) /\ DOMAIN server.ps = 1 .. n
  BY <1>0 DEF IsServer
<1>2. \A i \in 1 .. n : server.ps[i] \in Entries
  BY <1>0, <1>1 DEF IsServer
<1>3. \A e \in Entries : Polled(e) \in Entries /\ Polled(e).fd = e.fd
  BY <1>0 DEF Entries, Polled, IsNet
<1>4. ps \in Seq(Entries) /\ Len(ps) = n /\ \A i \in 1 .. n : ps[i].fd = server.ps[i].fd
  <2>1. ps \in [1 .. n -> Entries]
    BY <1>1, <1>2, <1>3
  <2>2. ps \in Seq(Entries) /\ Len(ps) = n
    BY <2>1
  <2> QED BY <1>1, <1>2, <1>3, <2>2
<1> HIDE DEF ps
<1>5. /\ sv.ps = ps /\ sv.cs = server.cs /\ sv.pis = server.pis /\ sv.free = server.free
      /\ sv.queue = server.queue /\ DOMAIN sv = DOMAIN server
  BY <1>0 DEF IsServer
<1> HIDE DEF sv
<1>6. IsServer(sv)
  BY <1>0, <1>4, <1>5 DEF IsServer
<1>7. Tables(sv)
  <2>1. Len(sv.ps) = Len(sv.pis) /\ Len(sv.pis) <= MAX_CLIENTS
    BY <1>0, <1>1, <1>4, <1>5 DEF Tables
  <2> QED BY <1>0, <1>5, <1>6, <2>1 DEF Tables
<1>8. Links(sv, net, backlog, 0)
  <2>1. Len(sv.ps) = Len(server.ps) /\ \A i \in 1 .. Len(server.ps) : sv.ps[i].fd = server.ps[i].fd
    BY <1>1, <1>4, <1>5
  <2> QED BY <1>0, <2>1 DEF Links
<1>9. Handles(sv, known)
  BY <1>0, <1>5 DEF Handles
<1>10. Queue(sv, lost)
  BY <1>0, <1>5 DEF Queue
<1> QED BY <1>0, <1>5, <1>7, <1>8, <1>9, <1>10 DEF Good, sv, ps

(* The rest of the backlog *)
LEMMA RestLinks ==
    ASSUME NEW sv, NEW nt, NEW bl, NEW K \in Nat, K <= Len(bl), NEW kn, NEW lo,
           Good(sv, nt, bl, K, kn, lo)
    PROVE  Good(sv, nt, SubSeq(bl, K + 1, Len(bl)), 0, kn, lo)
<1>0. bl \in Seq(Conns) /\ Links(sv, nt, bl, K)
  BY DEF Good
<1>1. PICK len \in Nat : len = Len(bl)
  BY <1>0
<1>2. PICK rest : rest = SubSeq(bl, K + 1, len)
  OBVIOUS
<1>3. /\ rest \in Seq(Conns) /\ Len(rest) = len - K
      /\ \A i \in 1 .. len - K : rest[i] = bl[K + i]
  <2>1. K \in Int /\ len \in Int /\ K + 1 \in Int /\ K <= len /\ len = Len(bl)
    BY <1>1
  <2>2. /\ SubSeq(bl, K + 1, len) \in Seq(Conns)
        /\ Len(SubSeq(bl, K + 1, len)) = len - K
        /\ \A i \in 1 .. len - K : SubSeq(bl, K + 1, len)[i] = bl[K + i]
    BY <1>0, <2>1
  <2> QED BY <1>2, <2>2
<1>4. /\ \A i \in 1 .. len - K : K + i \in K + 1 .. len
      /\ \A j \in K + 1 .. len : j - K \in 1 .. len - K /\ K + (j - K) = j
  BY <1>1
<1>5. \A c : Waits(rest, 0, c) <=> Waits(bl, K, c)
  <2> SUFFICES ASSUME NEW c PROVE Waits(rest, 0, c) <=> Waits(bl, K, c)
    OBVIOUS
  <2>1. Waits(rest, 0, c) <=> \E i \in 1 .. len - K : rest[i] = c
    BY <1>3 DEF Waits
  <2>2. Waits(bl, K, c) <=> \E j \in K + 1 .. len : bl[j] = c
    BY <1>1 DEF Waits
  <2> QED BY <1>3, <1>4, <2>1, <2>2
<1>6. /\ \A i \in 1 .. len - K : nt[rest[i]].open = "yes"
      /\ \A i, j \in 1 .. len - K : rest[i] = rest[j] => i = j
  <2>1. /\ \A i \in K + 1 .. len : nt[bl[i]].open = "yes"
        /\ \A i, j \in K + 1 .. len : bl[i] = bl[j] => i = j
    BY <1>0, <1>1 DEF Links
  <2>2. \A i, j \in 1 .. len - K : K + i = K + j => i = j
    BY <1>1
  <2> QED BY <1>3, <1>4, <2>1, <2>2
<1>7. Links(sv, nt, rest, 0)
  <2>1. 0 + 1 .. Len(rest) = 1 .. len - K
    BY <1>3
  <2> QED BY <1>0, <1>5, <1>6, <2>1 DEF Links
<1> QED BY <1>1, <1>2, <1>3, <1>7 DEF Good

LEMMA PollStep ==
    ASSUME HttpInv, Poll
    PROVE  HttpInv'
<1>0. Good(server, net, backlog, 0, known, lost) /\ server.queue = <<>>
  BY DEF HttpInv, Running, Poll
<1> DEFINE sv == [server EXCEPT !.ps = [i \in DOMAIN server.ps |-> Polled(server.ps[i])]]
<1>1. /\ server' = AcceptLoop(sv)
      /\ backlog' = SubSeq(backlog, Accepted + 1, Len(backlog))
      /\ pc' = "polling" /\ turn' = 1 /\ UNCHANGED <<net, known, lost>>
  BY DEF Poll, ghosts
<1>2. /\ Good(sv, net, backlog, 0, known, lost)
      /\ sv.queue = <<>> /\ Len(sv.pis) = Len(server.pis)
  BY <1>0, PolledGood
<1> HIDE DEF sv
<1>3. /\ Accepted \in Nat /\ Accepted <= Len(backlog)
      /\ Good(server', net, backlog, Accepted, known, lost)
      /\ server'.queue = <<>>
  BY <1>1, <1>2, AcceptLoopGood
<1>4. Good(server', net', backlog', 0, known', lost')
  BY <1>1, <1>3, RestLinks
<1>5. \A r \in Slots : server'.cs[r].state # "QUEUED"
  <2>1. Queue(server', lost)
    BY <1>3 DEF Good
  <2>2. 1 .. Len(server'.queue) = {}
    BY <1>3
  <2> QED BY <2>1, <2>2 DEF Queue
<1>6. Loop(server', 1)
  <2>1. server'.pis \in Seq(Slots)
    BY <1>3 DEF Good, Tables, IsServer
  <2>2. \A i \in 1 .. Len(server'.pis) : server'.pis[i] \in Slots
    BY <2>1
  <2> QED BY <1>5, <2>2 DEF Loop
<1> QED BY <1>1, <1>4, <1>6 DEF HttpInv, Running
(* socket_input leaves everything in order, and may queue its client. *)
LEMMA InputGood ==
    ASSUME NEW sv, NEW nt, NEW bl, NEW k, NEW kn, NEW lo, Good(sv, nt, bl, k, kn, lo),
           NEW s \in Slots, sv.cs[s].state # "FREE", sv.cs[s].state # "QUEUED", NEW arrived
    PROVE  LET sw == socket_input(sv, s, arrived)
           IN  /\ Good(sw, nt, bl, k, kn, lo)
               /\ Touched(sv, sw, s)
               /\ sw.cs[s].gen = sv.cs[s].gen
<1> DEFINE input == sv.cs[s].input \o arrived
           found == sv.cs[s].state = "IDLE" /\ find(input)
           sw == socket_input(sv, s, arrived)
<1>0. Tables(sv)
  BY DEF Good
<1>1. Becomes(sv, sw, s, IF found THEN "QUEUED" ELSE sv.cs[s].state, sv.cs[s].gen, input,
              IF found THEN Append(sv.queue, s) ELSE sv.queue)
  BY <1>0, SocketInput
<1>2. Touched(sv, sw, s) /\ sw.cs[s].gen = sv.cs[s].gen
  BY <1>1 DEF Becomes
<1> HIDE DEF sw, input
<1>3. CASE found
  <2>1. Becomes(sv, sw, s, "QUEUED", sv.cs[s].gen, input, Append(sv.queue, s))
    BY <1>1, <1>3
  <2>2. sv.cs[s].state \notin Responding /\ find(input)
    BY <1>3 DEF Responding
  <2>3. Good(sw, nt, bl, k, kn, lo)
    BY <2>1, <2>2, GoodPush
  <2> QED BY <1>2, <2>3 DEF sw
<1>4. CASE ~found
  <2>1. Becomes(sv, sw, s, sv.cs[s].state, sv.cs[s].gen, input, sv.queue)
    BY <1>1, <1>4
  <2>2. sv.cs[s].state = "IDLE" => ~find(input)
    BY <1>4
  <2> HIDE DEF found
  <2>3. Good(sw, nt, bl, k, kn, lo)
    BY <2>1, <2>2, GoodStays, Zenon
  <2> QED BY <1>2, <2>3 DEF sw
<1> QED BY <1>3, <1>4

(* The client of the loop's turn is closed, and its socket. *)
LEMMA CloseGood ==
    ASSUME NEW sv, NEW nt, NEW bl, NEW kn, NEW lo, Good(sv, nt, bl, 0, kn, lo),
           NEW s \in Slots, sv.cs[s].state # "FREE", sv.cs[s].gen + 1 # GenLimit,
           NEW c, c = sv.ps[sv.cs[s].pitem].fd,
           NEW lw, lo \subseteq lw, sv.cs[s].state = "QUEUED" => s \in lw
    PROVE  Good(close_client(sv, s), [nt EXCEPT ![c] = Closed(@)], bl, 0, kn, lw)
<1>0. /\ Tables(sv) /\ IsServer(sv) /\ IsNet(nt) /\ bl \in Seq(Conns) /\ Links(sv, nt, bl, 0)
      /\ Handles(sv, kn) /\ Queue(sv, lo)
  BY DEF Good, Tables
<1>1. PICK sw : sw = close_client(sv, s)
  OBVIOUS
<1>2. Closes(sv, sw, s)
  BY <1>0, <1>1, CloseEffect
<1>3. c \in Conns
  <2>1. sv.ps[sv.cs[s].pitem] \in Entries
    BY <1>0, LivePlace
  <2> QED BY <2>1 DEF Entries
<1> DEFINE nw == [nt EXCEPT ![c] = Closed(@)]
<1>5. ClosedNet(nt, nw, c)
  BY <1>0, <1>3, ClosedNetIs, Zenon
<1> HIDE DEF nw
<1>6. Tables(sw)
  BY <1>0, <1>2, CloseTables
<1>7. Links(sw, nw, bl, 0)
  BY <1>0, <1>2, <1>5, CloseLinks
<1>8. Handles(sw, kn)
  BY <1>0, <1>2, CloseHandles
<1>9. Queue(sw, lw)
  BY <1>0, <1>2, CloseQueue
<1>10. Good(sw, nw, bl, 0, kn, lw)
  BY <1>0, <1>5, <1>6, <1>7, <1>8, <1>9 DEF Good, ClosedNet
<1> QED BY <1>1, <1>10, Zenon DEF nw

LEMMA ClientTurnStep ==
    ASSUME HttpInv, NoWrap, ClientTurn
    PROVE  HttpInv'
<1> DEFINE s == server.pis[turn]
           c == server.ps[turn].fd
           evs == server.ps[turn]
           gone == evs.in /\ net[c].fin
           arrived == IF evs.in THEN net[c].pending ELSE <<>>
           sv == IF evs.in THEN socket_input(server, s, arrived) ELSE server
           limit == Limit(sv.cs[s])
           Close == /\ server' = close_client(sv, s)
                    /\ lost' = IF sv.cs[s].state = "QUEUED" THEN lost \cup {s} ELSE lost
                    /\ UNCHANGED <<turn, early>>
<1>0. /\ Good(server, net, backlog, 0, known, lost) /\ Loop(server, turn)
      /\ pc = "polling" /\ turn <= Ncs(server) /\ UNCHANGED <<pc, backlog, known>>
  BY Zenon DEF HttpInv, Running, ClientTurn
<1>1. Tables(server) /\ IsServer(server) /\ IsNet(net) /\ turn \in 1 .. Len(server.pis)
      /\ Len(server.pis) = Len(server.ps)
  BY <1>0 DEF Good, Tables, IsServer, Loop, Ncs
<1>2. /\ s \in Slots /\ server.cs[s].pitem = turn /\ server.cs[s].state # "FREE"
  BY <1>1, InPis
<1>3. \A i \in turn .. Len(server.pis) : server.cs[server.pis[i]].state # "QUEUED"
  BY <1>0 DEF Loop
<1>4. server.cs[s].state # "QUEUED"
  BY <1>1, <1>3
<1>5. server.cs[s].gen + 1 # GenLimit
  BY <1>2 DEF NoWrap
<1>6. c \in Conns
  <2>0. server.ps \in Seq(Entries) /\ turn \in 1 .. Len(server.ps)
    BY <1>1 DEF IsServer
  <2>1. evs \in Entries
    BY <2>0
  <2> QED BY <2>1 DEF Entries
<1>7. /\ Good(sv, net, backlog, 0, known, lost)
      /\ Touched(server, sv, s) /\ sv.cs[s].gen = server.cs[s].gen
  <2>1. CASE evs.in
    BY <1>0, <1>2, <1>4, <2>1, InputGood
  <2>2. CASE ~evs.in
    BY <1>0, <1>1, <1>2, <2>2 DEF Touched
  <2> QED BY <2>1, <2>2, Zenon
<1>8. \/ /\ gone /\ net' = [net EXCEPT ![c] = Closed(@)]
         /\ server' = close_client(server, s) /\ UNCHANGED <<turn, early, lost>>
      \/ net' = [net EXCEPT ![c] = Closed(@)] /\ Close
      \/ \E n : /\ net' = [net EXCEPT ![c].pending = IF evs.in THEN <<>> ELSE @,
                                      ![c].got = @ \o SubSeq(sv.cs[s].output, 1, n)]
                /\ server' = IF evs.out THEN socket_output(sv, s, n) ELSE sv
                /\ turn' = turn + 1 /\ UNCHANGED lost
  BY Zenon DEF ClientTurn
<1> HIDE DEF s, c, evs, gone, arrived, sv, limit
<1>9. /\ Tables(sv) /\ sv.pis = server.pis /\ sv.cs[s].state # "FREE"
      /\ sv.cs[s].gen + 1 # GenLimit /\ sv.cs[s].pitem = turn
      /\ sv.ps[turn].fd = c
      /\ \A i \in turn + 1 .. Len(sv.pis) : sv.cs[sv.pis[i]].state # "QUEUED"
  <2>1. /\ Tables(sv) /\ sv.pis = server.pis /\ sv.cs[s].state # "FREE"
        /\ sv.cs[s].gen + 1 # GenLimit /\ sv.cs[s].pitem = turn
    BY <1>2, <1>5, <1>7 DEF Good, Touched
  <2>2. sv.ps[turn].fd = c
    BY <1>1, <1>7 DEF Touched, c
  <2>3. ASSUME NEW i \in turn + 1 .. Len(sv.pis) PROVE sv.cs[sv.pis[i]].state # "QUEUED"
    <3>1. i \in 1 .. Len(server.pis) /\ i \in turn .. Len(server.pis) /\ i # turn
      BY <1>1, <2>1, <2>3
    <3>2. server.pis[i] \in Slots /\ server.pis[i] # s
      BY <1>1, <1>2, <3>1, InPis
    <3>3. sv.cs[server.pis[i]] = server.cs[server.pis[i]]
      BY <1>7, <3>2 DEF Touched
    <3> QED BY <1>3, <2>1, <3>1, <3>3
  <2> QED BY <2>1, <2>2, <2>3
<1>10. CASE /\ gone /\ net' = [net EXCEPT ![c] = Closed(@)]
            /\ server' = close_client(server, s) /\ UNCHANGED <<turn, early, lost>>
  <2>1. c = server.ps[server.cs[s].pitem].fd
    BY <1>2 DEF c
  <2>2. Good(server', net', backlog, 0, known, lost)
    BY <1>0, <1>2, <1>4, <1>5, <1>10, <2>1, CloseGood
  <2>3. Closes(server, server', s)
    BY <1>1, <1>2, <1>5, <1>10, CloseEffect
  <2>4. \A i \in turn + 1 .. Len(server.pis) : server.cs[server.pis[i]].state # "QUEUED"
    <3>1. \A i \in turn + 1 .. Len(server.pis) : i \in turn .. Len(server.pis)
      BY <1>1
    <3> QED BY <1>3, <3>1
  <2>5. Loop(server', turn)
    BY <1>1, <1>2, <2>3, <2>4, CloseLoop DEF s
  <2> QED BY <1>0, <1>10, <2>2, <2>5 DEF HttpInv, Running
<1>11. CASE net' = [net EXCEPT ![c] = Closed(@)] /\ Close
  <2>1. c = sv.ps[sv.cs[s].pitem].fd
    BY <1>9
  <2>2. lost \subseteq lost' /\ (sv.cs[s].state = "QUEUED" => s \in lost')
    BY <1>11
  <2>3. Good(server', net', backlog, 0, known, lost')
    BY <1>2, <1>7, <1>9, <1>11, <2>1, <2>2, CloseGood
  <2>4. Closes(sv, server', s)
    BY <1>2, <1>9, <1>11, CloseEffect
  <2>5. turn \in 1 .. Len(sv.pis) /\ s = sv.pis[turn]
    BY <1>1, <1>9 DEF s
  <2>6. Loop(server', turn)
    BY <1>2, <1>9, <2>4, <2>5, CloseLoop
  <2> QED BY <1>0, <1>11, <2>3, <2>6 DEF HttpInv, Running
<1>12. CASE \E n : /\ net' = [net EXCEPT ![c].pending = IF evs.in THEN <<>> ELSE @,
                                         ![c].got = @ \o SubSeq(sv.cs[s].output, 1, n)]
                   /\ server' = IF evs.out THEN socket_output(sv, s, n) ELSE sv
                   /\ turn' = turn + 1 /\ UNCHANGED lost
  <2>1. PICK n : /\ net' = [net EXCEPT ![c].pending = IF evs.in THEN <<>> ELSE @,
                                       ![c].got = @ \o SubSeq(sv.cs[s].output, 1, n)]
                 /\ server' = IF evs.out THEN socket_output(sv, s, n) ELSE sv
                 /\ turn' = turn + 1 /\ UNCHANGED lost
    BY <1>12
  <2>2. IsNet(net') /\ \A d \in Conns : net'[d].open = net[d].open
    BY <1>1, <1>6, <2>1 DEF IsNet
  <2>3. Good(sv, net', backlog, 0, known, lost)
    BY <1>7, <2>2, GoodNet
  <2>4. Good(server', net', backlog, 0, known, lost) /\ Touched(sv, server', s)
        /\ server'.cs[s].state = sv.cs[s].state
    <3>1. CASE evs.out
      <4>1. Becomes(sv, server', s, sv.cs[s].state, sv.cs[s].gen, sv.cs[s].input, sv.queue)
        BY <1>2, <1>9, <2>1, <3>1, SocketOutput
      <4>2. Good(server', net', backlog, 0, known, lost)
        BY <1>2, <2>3, <4>1, GoodStays
      <4> QED BY <4>1, <4>2 DEF Becomes
    <3>2. CASE ~evs.out
      BY <1>9, <2>1, <2>3, <3>2 DEF Touched, Tables
    <3> QED BY <3>1, <3>2
  <2>5. Loop(server', turn + 1)
    <3>1. server'.pis = sv.pis /\ \A r \in Slots : server'.cs[r].state = sv.cs[r].state
      BY <2>4 DEF Touched
    <3>2. \A i \in turn + 1 .. Len(sv.pis) : sv.pis[i] \in Slots
      BY <1>1, <1>9, InPis
    <3>3. turn + 1 \in Nat \ {0}
      BY <1>1
    <3> QED BY <1>9, <3>1, <3>2, <3>3 DEF Loop
  <2> QED BY <1>0, <2>1, <2>4, <2>5 DEF HttpInv, Running
<1> QED BY <1>8, <1>10, <1>11, <1>12, Zenon
(* The first of the queue is taken out. *)
LEMMA PopGood ==
    ASSUME Good(server, net, backlog, 0, known, lost), server.queue # <<>>,
           NEW s, s = Head(server.queue)
    PROVE  LET sv == [server EXCEPT !.queue = Tail(@), !.cs[s].state = "POPPED"]
           IN  /\ s \in Slots
               /\ sv.cs[s].input = server.cs[s].input /\ sv.cs[s].gen = server.cs[s].gen
               /\ \/ s \in lost /\ ~find(server.cs[s].input)
                  \/ /\ server.cs[s].state = "QUEUED"
                     /\ Good(sv, net, backlog, 0, known, lost)
                     /\ sv.cs[s].state = "POPPED"
<1> DEFINE sv == [server EXCEPT !.queue = Tail(@), !.cs[s].state = "POPPED"]
<1>0. /\ Tables(server) /\ IsServer(server) /\ IsNet(net) /\ backlog \in Seq(Conns)
      /\ Links(server, net, backlog, 0) /\ Handles(server, known) /\ Queue(server, lost)
  BY DEF Good, Tables
<1>1. /\ server.queue \in Seq(Slots) /\ 1 \in 1 .. Len(server.queue)
      /\ s = server.queue[1] /\ s \in Slots /\ Tail(server.queue) \in Seq(Slots)
  <2>1. server.queue \in Seq(Slots)
    BY <1>0 DEF IsServer
  <2> QED BY <2>1, EmptySeq, HeadTailProperties
<1>2. InQueue(server.cs[s], s, lost)
  BY <1>0, <1>1 DEF Queue
<1>3. sv.ps = server.ps /\ sv.pis = server.pis /\ sv.free = server.free
      /\ sv.queue = Tail(server.queue) /\ DOMAIN sv = {"cs", "ps", "pis", "free", "queue"}
  BY <1>0 DEF IsServer
<1>4. /\ DOMAIN sv.cs = Slots
      /\ \A r \in Slots : DOMAIN sv.cs[r] = ClientFields /\ sv.cs[r].gen \in Nat
      /\ \A r \in Slots : r # s => sv.cs[r] = server.cs[r]
      /\ sv.cs[s].pitem = server.cs[s].pitem /\ sv.cs[s].state = "POPPED"
      /\ sv.cs[s].gen = server.cs[s].gen /\ sv.cs[s].input = server.cs[s].input
  BY <1>0, <1>1 DEF IsServer, ClientFields
<1> HIDE DEF sv
<1>5. IsServer(sv)
  BY <1>0, <1>1, <1>3, <1>4 DEF IsServer
<1>6. CASE server.cs[s].state = "QUEUED"
  <2>1. Touched(server, sv, s)
    BY <1>3, <1>4, <1>5, <1>6 DEF Touched
  <2>2. Tables(sv)
    BY <1>0, <1>1, <2>1, TouchTables
  <2>3. Links(sv, net, backlog, 0)
    BY <1>0, <1>1, <2>1, TouchLinks
  <2>4. server.cs[s].state \notin Responding
    BY <1>6 DEF Responding
  <2>5. Handles(sv, known)
    BY <1>0, <1>1, <1>4, <2>1, <2>4, TouchHandles
  <2>6. Queue(sv, lost)
    <3>1. sv.cs[s].state \notin {"QUEUED", "IDLE"}
      BY <1>4
    <3> QED BY <1>0, <1>1, <1>3, <2>1, <3>1, TouchPop
  <2>7. Good(sv, net, backlog, 0, known, lost)
    BY <1>0, <2>2, <2>3, <2>5, <2>6 DEF Good
  <2> QED BY <1>1, <1>4, <1>6, <2>7 DEF sv
<1>7. CASE server.cs[s].state # "QUEUED"
  <2>1. s \in lost /\ ~find(server.cs[s].input)
    BY <1>2, <1>7 DEF InQueue
  <2> QED BY <1>1, <1>4, <2>1 DEF sv
<1> QED BY <1>6, <1>7

(* The next request, and the handle the caller gets *)
LEMMA RequestGood ==
    ASSUME NEW sv, NEW nt, NEW bl, NEW kn, NEW lo, Good(sv, nt, bl, 0, kn, lo),
           NEW s \in Slots, sv.cs[s].state = "POPPED", NEW minor, NEW total,
           NEW h, h.idx = s, h.gen = sv.cs[s].gen
    PROVE  Good([sv EXCEPT !.cs[s].state = "STATUS", !.cs[s].minor = minor,
                           !.cs[s].connheader = -1, !.cs[s].request_length = total],
                nt, bl, 0, kn \cup {h}, lo)
<1> DEFINE sw == [sv EXCEPT !.cs[s].state = "STATUS", !.cs[s].minor = minor,
                            !.cs[s].connheader = -1, !.cs[s].request_length = total]
<1>0. IsServer(sv)
  BY DEF Good, Tables
<1>1. sw.ps = sv.ps /\ sw.pis = sv.pis /\ sw.free = sv.free
      /\ sw.queue = sv.queue /\ DOMAIN sw = {"cs", "ps", "pis", "free", "queue"}
  BY <1>0 DEF IsServer
<1>2. /\ DOMAIN sw.cs = Slots
      /\ \A r \in Slots : DOMAIN sw.cs[r] = ClientFields /\ sw.cs[r].gen \in Nat
      /\ \A r \in Slots : r # s => sw.cs[r] = sv.cs[r]
      /\ sw.cs[s].pitem = sv.cs[s].pitem /\ sw.cs[s].state = "STATUS"
      /\ sw.cs[s].gen = sv.cs[s].gen /\ sw.cs[s].input = sv.cs[s].input
  BY <1>0 DEF IsServer, ClientFields
<1> HIDE DEF sw
<1>3. IsServer(sw)
  BY <1>0, <1>1, <1>2 DEF IsServer
<1>4. Becomes(sv, sw, s, "STATUS", sv.cs[s].gen, sv.cs[s].input, sv.queue)
  BY <1>1, <1>2, <1>3 DEF Becomes, Touched
<1>5. "STATUS" \in Responding
  BY DEF Responding
<1>6. Good(sw, nt, bl, 0, kn, lo)
  BY <1>4, <1>5, GoodStays
<1>7. Handles(sw, kn \cup {h})
  <2> SUFFICES ASSUME NEW g \in kn \cup {h}
               PROVE  /\ g.idx \in Slots /\ g.gen \in Nat /\ g.gen <= sw.cs[g.idx].gen
                      /\ g.gen = sw.cs[g.idx].gen => sw.cs[g.idx].state \in Responding
    BY DEF Handles
  <2>1. CASE g \in kn
    BY <1>6, <2>1 DEF Good, Handles
  <2>2. CASE g = h
    <3>1. sv.cs[s].gen \in Nat
      BY <1>0 DEF IsServer
    <3> QED BY <1>2, <1>5, <2>2, <3>1
  <2> QED BY <2>1, <2>2
<1> QED BY <1>6, <1>7 DEF Good, sw

LEMMA PopStep ==
    ASSUME HttpInv, PopClient
    PROVE  HttpInv'
<1> DEFINE s == Head(server.queue)
           sv == [server EXCEPT !.queue = Tail(@), !.cs[s].state = "POPPED"]
           input == sv.cs[s].input
           head == Head(input)
           c == Fd(sv, s)
           h == [conn |-> c, r |-> hist[c].popped + 1, idx |-> s, gen |-> sv.cs[s].gen]
           total == 1 + head.len
<1>0. /\ Good(server, net, backlog, 0, known, lost) /\ server.queue # <<>> /\ pc = "waiting"
      /\ UNCHANGED <<turn, net, backlog, lost>>
  BY Zenon DEF HttpInv, Running, PopClient
<1>1. \/ ~find(input) /\ pc' = "aborted"
      \/ /\ find(input)
         /\ \/ /\ server' = send_basic_response_and_close(sv, s, h)
               /\ UNCHANGED <<pc, known>>
            \/ server' = sv /\ UNCHANGED <<pc, known>>
            \/ /\ server' = [sv EXCEPT !.cs[s].state = "STATUS", !.cs[s].minor = head.minor,
                                       !.cs[s].connheader = -1, !.cs[s].request_length = total]
               /\ known' = known \cup {h}
               /\ pc' = "caller"
  BY Zenon DEF PopClient
<1>2. /\ s \in Slots
      /\ input = server.cs[s].input /\ sv.cs[s].gen = server.cs[s].gen
      /\ \/ s \in lost /\ ~find(server.cs[s].input)
         \/ /\ server.cs[s].state = "QUEUED"
            /\ Good(sv, net, backlog, 0, known, lost)
            /\ sv.cs[s].state = "POPPED"
  BY <1>0, PopGood
<1>3. h.idx = s /\ h.gen = sv.cs[s].gen
  OBVIOUS
<1> HIDE DEF s, sv, input, head, c, h, total
<1>4. CASE ~find(input) /\ pc' = "aborted"
  <2>1. s \in lost \/ lost # {}
    <3>1. CASE s \in lost
      BY <3>1
    <3>2. CASE server.cs[s].state = "QUEUED" /\ s \notin lost
      <4>1. Queue(server, lost) /\ server.queue \in Seq(Slots)
        BY <1>0 DEF Good, Tables, IsServer
      <4>2. 1 \in 1 .. Len(server.queue) /\ s = server.queue[1]
        BY <1>0, <4>1, EmptySeq, HeadTailProperties DEF s
      <4>3. InQueue(server.cs[s], s, lost)
        BY <4>1, <4>2 DEF Queue
      <4> QED BY <1>2, <1>4, <3>2, <4>3 DEF InQueue
    <3> QED BY <1>2, <3>1, <3>2
  <2>2. lost' # {}
    BY <1>0, <2>1
  <2> QED BY <1>4, <2>2 DEF HttpInv, Running
<1>5. CASE /\ find(input)
           /\ \/ /\ server' = send_basic_response_and_close(sv, s, h)
                 /\ UNCHANGED <<pc, known>>
              \/ server' = sv /\ UNCHANGED <<pc, known>>
              \/ /\ server' = [sv EXCEPT !.cs[s].state = "STATUS", !.cs[s].minor = head.minor,
                                         !.cs[s].connheader = -1, !.cs[s].request_length = total]
                 /\ known' = known \cup {h}
                 /\ pc' = "caller"
  <2>0. Good(sv, net, backlog, 0, known, lost) /\ sv.cs[s].state = "POPPED" /\ Tables(sv)
    BY <1>2, <1>5 DEF Good
  <2>1. CASE /\ server' = send_basic_response_and_close(sv, s, h)
             /\ UNCHANGED <<pc, known>>
    <3>1. Becomes(sv, server', s, "CLOSE", sv.cs[s].gen, sv.cs[s].input, sv.queue)
      BY <1>2, <2>0, <2>1, AppendAndSet DEF send_basic_response_and_close
    <3>2. sv.cs[s].state \notin Responding
      BY <2>0 DEF Responding
    <3>3. Good(server', net, backlog, 0, known, lost)
      BY <1>2, <2>0, <3>1, <3>2, GoodStays
    <3> QED BY <1>0, <2>1, <3>3 DEF HttpInv, Running
  <2>2. CASE server' = sv /\ UNCHANGED <<pc, known>>
    BY <1>0, <2>0, <2>2 DEF HttpInv, Running
  <2>3. CASE /\ server' = [sv EXCEPT !.cs[s].state = "STATUS", !.cs[s].minor = head.minor,
                                     !.cs[s].connheader = -1, !.cs[s].request_length = total]
             /\ known' = known \cup {h}
             /\ pc' = "caller"
    <3>1. Good(server', net, backlog, 0, known', lost)
      <4>1. Good([sv EXCEPT !.cs[s].state = "STATUS", !.cs[s].minor = head.minor,
                            !.cs[s].connheader = -1, !.cs[s].request_length = total],
                 net, backlog, 0, known \cup {h}, lost)
        BY <1>2, <1>3, <2>0, RequestGood
      <4> QED BY <2>3, <4>1
    <3> QED BY <1>0, <2>3, <3>1 DEF HttpInv, Running
  <2> QED BY <1>5, <2>1, <2>2, <2>3, Zenon
<1> QED BY <1>1, <1>4, <1>5, Zenon
(* A handle that resolves *)
LEMMA Resolves ==
    ASSUME HttpInv, NEW h \in known, Respond(h)
    PROVE  LET s == client_from_handle(h)
           IN  /\ s \in Slots /\ server.cs[s].state \in Responding
               /\ server.cs[s].state \notin {"FREE", "QUEUED", "IDLE"}
               /\ pc = "caller" /\ Good(server, net, backlog, 0, known, lost)
               /\ Tables(server)
               /\ UNCHANGED <<pc, turn, net, backlog, known, lost>>
<1>1. /\ pc = "caller" /\ client_from_handle(h) # NoSlot
      /\ UNCHANGED <<pc, turn, net, backlog, known, lost>>
  BY DEF Respond
<1>2. Good(server, net, backlog, 0, known, lost) /\ Handles(server, known) /\ Tables(server)
  BY <1>1 DEF HttpInv, Running, Good
<1>3. client_from_handle(h) = h.idx /\ server.cs[h.idx].gen = h.gen
  BY <1>1 DEF client_from_handle
<1>4. h.idx \in Slots /\ server.cs[h.idx].state \in Responding
  BY <1>2, <1>3 DEF Handles
<1> QED BY <1>1, <1>2, <1>3, <1>4 DEF Responding

LEMMA SetStatusStep ==
    ASSUME HttpInv, NEW h \in known, http_server_set_status(h)
    PROVE  HttpInv'
<1>1. PICK s : s = client_from_handle(h)
  OBVIOUS
<1>2. Respond(h) /\ server' = WithStatus(server, s, h)
  BY <1>1 DEF http_server_set_status
<1>3. /\ s \in Slots /\ server.cs[s].state \in Responding
      /\ server.cs[s].state \notin {"FREE", "QUEUED", "IDLE"}
      /\ pc = "caller" /\ Good(server, net, backlog, 0, known, lost) /\ Tables(server)
      /\ UNCHANGED <<pc, turn, net, backlog, known, lost>>
  BY <1>1, <1>2, Resolves
<1>4. Becomes(server, server', s, "HEADER", server.cs[s].gen, server.cs[s].input, server.queue)
  BY <1>2, <1>3, AppendAndSet DEF WithStatus
<1>5. "HEADER" \in Responding
  BY DEF Responding
<1>6. Good(server', net, backlog, 0, known, lost)
  BY <1>3, <1>4, <1>5, GoodStays
<1> QED BY <1>3, <1>6 DEF HttpInv, Running

LEMMA AppendHeaderStep ==
    ASSUME HttpInv, NEW h \in known, http_server_append_header(h)
    PROVE  HttpInv'
<1>1. PICK s : s = client_from_handle(h)
  OBVIOUS
<1>2. Respond(h) /\ server' = append_output(server, s, <<Part(h, "header", 0)>>)
  BY <1>1 DEF http_server_append_header
<1>3. /\ s \in Slots /\ server.cs[s].state \in Responding
      /\ server.cs[s].state \notin {"FREE", "QUEUED", "IDLE"}
      /\ pc = "caller" /\ Good(server, net, backlog, 0, known, lost) /\ Tables(server)
      /\ UNCHANGED <<pc, turn, net, backlog, known, lost>>
  BY <1>1, <1>2, Resolves
<1>4. Becomes(server, server', s, server.cs[s].state, server.cs[s].gen,
              server.cs[s].input, server.queue)
  BY <1>2, <1>3, AppendOutput
<1>5. Good(server', net, backlog, 0, known, lost)
  BY <1>3, <1>4, GoodStays
<1> QED BY <1>3, <1>5 DEF HttpInv, Running

LEMMA AppendContentStep ==
    ASSUME HttpInv, NEW h \in known, http_server_append_content(h)
    PROVE  HttpInv'
<1>1. PICK s : s = client_from_handle(h)
  OBVIOUS
<1>2. PICK sv : sv = InContent(server, s, h)
  OBVIOUS
<1>3. /\ Respond(h) /\ sv.cs[s].state = "CONTENT"
      /\ server' = append_output(sv, s, <<Part(h, "content", 0)>>)
  BY <1>1, <1>2 DEF http_server_append_content
<1>4. /\ s \in Slots /\ server.cs[s].state \in Responding
      /\ server.cs[s].state \notin {"FREE", "QUEUED", "IDLE"}
      /\ pc = "caller" /\ Good(server, net, backlog, 0, known, lost) /\ Tables(server)
      /\ UNCHANGED <<pc, turn, net, backlog, known, lost>>
  BY <1>1, <1>3, Resolves
<1>5. "CONTENT" \in Responding
  BY DEF Responding
<1>6. Becomes(server, sv, s, "CONTENT", server.cs[s].gen, server.cs[s].input, server.queue)
  <2>1. Becomes(server, sv, s,
                IF server.cs[s].state = "HEADER" THEN "CONTENT" ELSE server.cs[s].state,
                server.cs[s].gen, server.cs[s].input, server.queue)
    BY <1>2, <1>4, ContentBegins
  <2> QED BY <1>3, <2>1 DEF Becomes
<1>7. Good(sv, net, backlog, 0, known, lost)
  BY <1>4, <1>5, <1>6, GoodStays
<1>8. Tables(sv)
  BY <1>7 DEF Good
<1>9. Becomes(sv, server', s, sv.cs[s].state, sv.cs[s].gen, sv.cs[s].input, sv.queue)
  BY <1>3, <1>4, <1>8, AppendOutput
<1>10. Good(server', net, backlog, 0, known, lost)
  BY <1>4, <1>7, <1>9, GoodStays
<1> QED BY <1>4, <1>10 DEF HttpInv, Running

LEMMA SendResponseStep ==
    ASSUME HttpInv, NoWrap, NEW h \in known, http_server_send_response(h)
    PROVE  HttpInv'
<1>1. PICK s : s = client_from_handle(h)
  OBVIOUS
<1>2. PICK status :
        status = IF server.cs[s].state = "STATUS" THEN WithStatus(server, s, h) ELSE server
  OBVIOUS
<1>3. PICK content : content = InContent(status, s, h)
  OBVIOUS
<1>4. /\ Respond(h)
      /\ content.cs[s].state = "CONTENT" => server' = AfterResponse(Finished(content, s), s)
  BY <1>1, <1>2, <1>3 DEF http_server_send_response
<1>5. /\ s \in Slots /\ server.cs[s].state \in Responding
      /\ server.cs[s].state \notin {"FREE", "QUEUED", "IDLE"}
      /\ pc = "caller" /\ Good(server, net, backlog, 0, known, lost) /\ Tables(server)
      /\ UNCHANGED <<pc, turn, net, backlog, known, lost>>
  BY <1>1, <1>4, Resolves
<1>6. "HEADER" \in Responding /\ "CONTENT" \in Responding
  BY DEF Responding
<1>7. /\ Good(status, net, backlog, 0, known, lost) /\ Tables(status)
      /\ status.cs[s].state \in {"HEADER", "CONTENT"} /\ status.cs[s].gen = server.cs[s].gen
  <2>1. CASE server.cs[s].state = "STATUS"
    <3>1. Becomes(server, status, s, "HEADER", server.cs[s].gen, server.cs[s].input, server.queue)
      BY <1>2, <1>5, <2>1, AppendAndSet DEF WithStatus
    <3>2. Good(status, net, backlog, 0, known, lost)
      BY <1>5, <1>6, <3>1, GoodStays
    <3> QED BY <3>1, <3>2 DEF Becomes, Good
  <2>2. CASE server.cs[s].state # "STATUS"
    BY <1>2, <1>5, <2>2 DEF Responding
  <2> QED BY <2>1, <2>2
<1>8. /\ Good(content, net, backlog, 0, known, lost) /\ Tables(content)
      /\ content.cs[s].state = "CONTENT" /\ content.cs[s].gen = server.cs[s].gen
  <2>1. Becomes(status, content, s,
                IF status.cs[s].state = "HEADER" THEN "CONTENT" ELSE status.cs[s].state,
                status.cs[s].gen, status.cs[s].input, status.queue)
    BY <1>3, <1>5, <1>7, ContentBegins
  <2>2. Becomes(status, content, s, "CONTENT",
                status.cs[s].gen, status.cs[s].input, status.queue)
    BY <1>7, <2>1
  <2>3. Good(content, net, backlog, 0, known, lost)
    BY <1>5, <1>6, <1>7, <2>2, GoodStays
  <2> QED BY <1>7, <2>2, <2>3 DEF Becomes, Good
<1>9. PICK fin : fin = Finished(content, s)
  OBVIOUS
<1>10. /\ Good(fin, net, backlog, 0, known, lost) /\ Tables(fin)
       /\ fin.cs[s].state = "CONTENT" /\ fin.cs[s].gen + 1 # GenLimit
  <2>1. PICK input :
          Becomes(content, fin, s, content.cs[s].state, content.cs[s].gen, input, content.queue)
    BY <1>5, <1>8, <1>9, ResponseFinished
  <2>2. Good(fin, net, backlog, 0, known, lost)
    BY <1>5, <1>8, <2>1, GoodStays
  <2>3. fin.cs[s].gen = server.cs[s].gen
    BY <1>8, <2>1 DEF Becomes
  <2> QED BY <1>5, <1>8, <2>1, <2>2, <2>3 DEF Becomes, Good, NoWrap
<1> DEFINE input == fin.cs[s].input
           queued == fin.cs[s].keepalive /\ find(input)
<1>11. Becomes(fin, server', s,
               IF ~fin.cs[s].keepalive THEN "CLOSE" ELSE IF queued THEN "QUEUED" ELSE "IDLE",
               fin.cs[s].gen + 1, input, IF queued THEN Append(fin.queue, s) ELSE fin.queue)
  BY <1>4, <1>5, <1>8, <1>9, <1>10, ResponseOver
<1> HIDE DEF input
<1>12. Good(server', net, backlog, 0, known, lost)
  <2>1. CASE queued
    <3>1. Becomes(fin, server', s, "QUEUED", fin.cs[s].gen + 1, input, Append(fin.queue, s))
      BY <1>11, <2>1
    <3> QED BY <1>5, <1>10, <2>1, <3>1, GoodPush
  <2>2. CASE ~queued
    <3>1. PICK state :
             /\ Becomes(fin, server', s, state, fin.cs[s].gen + 1, input, fin.queue)
             /\ state # "QUEUED" /\ (state = "IDLE" => ~find(input))
      BY <1>11, <2>2
    <3> QED BY <1>5, <1>10, <3>1, GoodStays
  <2> QED BY <2>1, <2>2
<1> QED BY <1>5, <1>12 DEF HttpInv, Running

LEMMA HttpInit == Init => HttpInv
<1> SUFFICES ASSUME Init PROVE HttpInv
  OBVIOUS
<1>1. PICK b \in BOOLEAN : server =
         [cs |-> [s \in Slots |->
                    [gen |-> 0, state |-> "FREE", pitem |-> 0, input |-> <<>>,
                     output |-> <<>>, num_served |-> 0, minor |-> 0,
                     connheader |-> -1, content_length_offset |-> 0,
                     content_offset |-> 0, request_length |-> 0, keepalive |-> b]],
          ps |-> <<>>, pis |-> <<>>,
          free |-> [i \in Slots |-> MAX_CLIENTS - (i + 1)],
          queue |-> <<>>]
  BY DEF Init
<1>2. pc = "caller" /\ backlog = <<>> /\ known = {}
  BY DEF Init
<1>3. IsNet(net) /\ \A c \in Conns : net[c].open = "no"
  <2>1. PICK script :
          net = [c \in Conns |-> [open |-> "no", script |-> script[c],
                                  pending |-> <<>>, fin |-> FALSE, got |-> <<>>]]
    BY Zenon DEF Init
  <2> QED BY <2>1 DEF IsNet
<1>4. /\ server.ps = <<>> /\ server.pis = <<>> /\ server.queue = <<>>
      /\ server.free = [i \in Slots |-> MAX_CLIENTS - (i + 1)]
      /\ DOMAIN server = {"cs", "ps", "pis", "free", "queue"} /\ DOMAIN server.cs = Slots
      /\ \A s \in Slots : /\ DOMAIN server.cs[s] = ClientFields /\ server.cs[s].gen = 0
                          /\ server.cs[s].state = "FREE"
  BY <1>1 DEF ClientFields
<1>5. \A i \in Slots : MAX_CLIENTS - (i + 1) \in Slots
  BY HttpAssumption DEF Slots
<1>6. IsServer(server)
  BY <1>4, <1>5 DEF IsServer
<1>7. Len(server.pis) = 0 /\ Len(server.ps) = 0 /\ Len(server.queue) = 0
      /\ 0 .. MAX_CLIENTS - Len(server.pis) - 1 = Slots /\ 0 <= MAX_CLIENTS
  BY <1>4, HttpAssumption DEF Slots
<1>8. Tables(server)
  <2>1. \A i \in Slots : server.free[i] \in Slots
    BY <1>4, <1>5
  <2>2. \A i, j \in Slots : server.free[i] = server.free[j] => i = j
    BY <1>4, HttpAssumption DEF Slots
  <2>3. ASSUME NEW s \in Slots PROVE \E i \in Slots : server.free[i] = s
    <3>1. MAX_CLIENTS - (s + 1) \in Slots
      BY <1>5
    <3>2. server.free[MAX_CLIENTS - (s + 1)] = s
      <4>1. server.free[MAX_CLIENTS - (s + 1)] = MAX_CLIENTS - ((MAX_CLIENTS - (s + 1)) + 1)
        BY <1>4, <3>1
      <4> QED BY <4>1, HttpAssumption DEF Slots
    <3> QED BY <3>1, <3>2
  <2>4. 1 .. 0 = {}
    OBVIOUS
  <2> QED BY <1>4, <1>6, <1>7, <2>1, <2>2, <2>3, <2>4 DEF Tables
<1>9. Links(server, net, backlog, 0)
  <2>1. Len(backlog) = 0
    BY <1>2
  <2> QED BY <1>3, <1>7, <2>1 DEF Links
<1>10. Handles(server, known)
  BY <1>2 DEF Handles
<1>11. Queue(server, lost)
  BY <1>4, <1>7 DEF Queue
<1>12. backlog \in Seq(Conns)
  BY <1>2
<1> QED BY <1>2, <1>3, <1>8, <1>9, <1>10, <1>11, <1>12 DEF HttpInv, Running, Good

LEMMA HttpStep ==
    HttpInv /\ NoWrap /\ [Next]_vars => HttpInv'
<1> SUFFICES ASSUME HttpInv, NoWrap, [Next]_vars PROVE HttpInv'
  OBVIOUS
<1>1. CASE \E c \in Conns : Connect(c) \/ Deliver(c) \/ Leave(c)
  BY <1>1, ConnectStep, DeliverStep, LeaveStep
<1>2. CASE Poll
  BY <1>2, PollStep
<1>3. CASE ClientTurn
  BY <1>3, ClientTurnStep
<1>4. CASE IoDone
  BY <1>4 DEF IoDone, HttpInv, Running, ghosts
<1>5. CASE http_server_wait_request
  BY <1>5 DEF http_server_wait_request, HttpInv, Running, ghosts
<1>6. CASE PopClient
  BY <1>6, PopStep
<1>7. CASE \E h \in known :
             \/ http_server_set_status(h)
             \/ http_server_append_header(h)
             \/ http_server_append_content(h)
             \/ http_server_send_response(h)
  <2>1. PICK h \in known :
             \/ http_server_set_status(h)
             \/ http_server_append_header(h)
             \/ http_server_append_content(h)
             \/ http_server_send_response(h)
    BY <1>7
  <2>2. CASE http_server_set_status(h)
    BY <2>2, SetStatusStep
  <2>3. CASE http_server_append_header(h)
    BY <2>3, AppendHeaderStep
  <2>4. CASE http_server_append_content(h)
    BY <2>4, AppendContentStep
  <2>5. CASE http_server_send_response(h)
    BY <2>5, SendResponseStep
  <2> QED BY <2>1, <2>2, <2>3, <2>4, <2>5
<1>8. CASE http_server_free
  BY <1>8 DEF http_server_free, HttpInv, Running
<1>9. CASE UNCHANGED vars
  BY <1>9 DEF vars, ghosts, HttpInv, Running
<1> QED BY <1>1, <1>2, <1>3, <1>4, <1>5, <1>6, <1>7, <1>8, <1>9 DEF Next

(* The invariant holds for as long as no generation comes around. *)
THEOREM HttpInvariant == Spec /\ []NoWrap => []HttpInv
<1>1. Init => HttpInv
  BY HttpInit
<1>2. HttpInv /\ NoWrap /\ [Next]_vars => HttpInv'
  BY HttpStep
<1> QED BY <1>1, <1>2, PTL DEF Spec
-----------------------------------------------------------------------------
(* What follows from it *)
LEMMA HttpTables == HttpInv => TablesAgree
<1> SUFFICES ASSUME HttpInv, Running PROVE TablesAgree
  BY DEF TablesAgree, Running
<1> DEFINE n == Len(server.pis)
           m == MAX_CLIENTS - n
<1>0. /\ Tables(server) /\ IsServer(server) /\ backlog \in Seq(Conns)
      /\ Links(server, net, backlog, 0)
  BY DEF HttpInv, Good, Tables
<1>1. /\ n \in Nat /\ m \in Nat /\ Ncs(server) = n /\ Len(server.ps) = n
      /\ DOMAIN server.pis = 1 .. n /\ DOMAIN server.ps = 1 .. n
  BY <1>0, HttpAssumption DEF Tables, IsServer, Ncs
<1>2. \A i \in 1 .. n : /\ server.pis[i] \in Slots /\ server.cs[server.pis[i]].pitem = i
                        /\ server.cs[server.pis[i]].state # "FREE"
  BY <1>0, InPis
<1>3. /\ \A i \in 0 .. m - 1 : server.cs[server.free[i]].state = "FREE"
      /\ \A i, j \in 0 .. m - 1 : server.free[i] = server.free[j] => i = j
      /\ \A s \in Slots : \/ \E i \in 1 .. n : server.pis[i] = s
                          \/ \E i \in 0 .. m - 1 : server.free[i] = s
  BY <1>0 DEF Tables
<1>4. \A i \in 0 .. m - 1 : server.free[i] \in Slots
  <2>1. 0 .. m - 1 \subseteq Slots
    BY <1>1, HttpAssumption DEF Slots
  <2>2. server.free \in [Slots -> Slots]
    BY <1>0 DEF IsServer
  <2> QED BY <2>1, <2>2
<1>5. /\ FreeSlots = {server.free[i] : i \in 0 .. m - 1}
      /\ Live = {s \in Slots : \E i \in 1 .. n : server.pis[i] = s}
  BY <1>1 DEF FreeSlots, Live
<1> HIDE DEF n, m
<1>6. IsInjective(server.pis)
  BY <1>1, <1>2 DEF IsInjective
<1>7. Live \cap FreeSlots = {} /\ Live \cup FreeSlots = Slots
  BY <1>2, <1>3, <1>4, <1>5
<1>8. \A s \in Slots : server.cs[s].state = "FREE" <=> s \in FreeSlots
  BY <1>2, <1>3, <1>5
<1>9. Cardinality(FreeSlots) = m
  <2> DEFINE f == [i \in 0 .. m - 1 |-> server.free[i]]
  <2>1. f \in Bijection(0 .. m - 1, FreeSlots)
    BY <1>3, <1>5 DEF Bijection, Injection, Surjection, IsInjective
  <2>2. IsFiniteSet(0 .. m - 1) /\ Cardinality(0 .. m - 1) = m
    <3>1. 0 \in Int /\ m - 1 \in Int
      BY <1>1
    <3>2. /\ IsFiniteSet(0 .. m - 1)
          /\ Cardinality(0 .. m - 1) = IF 0 > m - 1 THEN 0 ELSE (m - 1) - 0 + 1
      BY <3>1, FS_Interval
    <3> QED BY <1>1, <3>2
  <2> HIDE DEF f
  <2>3. ExistsBijection(0 .. m - 1, FreeSlots)
    BY <2>1 DEF ExistsBijection
  <2> QED BY <2>2, <2>3, FS_Bijection
<1>10. ASSUME NEW c \in Conns, c \notin ToSet(backlog), net[c].open = "yes"
       PROVE  Cardinality({i \in DOMAIN server.ps : server.ps[i].fd = c}) = 1
  <2>1. ~Waits(backlog, 0, c)
    <3> SUFFICES ASSUME NEW j \in 0 + 1 .. Len(backlog), backlog[j] = c PROVE FALSE
      BY DEF Waits
    <3>1. j \in DOMAIN backlog
      BY <1>0
    <3> QED BY <1>10, <3>1 DEF ToSet
  <2>2. PICK j \in 1 .. n : server.ps[j].fd = c
    BY <1>0, <1>1, <1>10, <2>1 DEF Links
  <2>3. \A i \in 1 .. n : server.ps[i].fd = c => i = j
    BY <1>0, <1>1, <2>2 DEF Links
  <2>4. {i \in DOMAIN server.ps : server.ps[i].fd = c} = {j}
    BY <1>1, <2>2, <2>3
  <2> QED BY <2>4, FS_Singleton
<1> QED BY <1>1, <1>2, <1>6, <1>7, <1>8, <1>9, <1>10 DEF TablesAgree, m

LEMMA HttpQueue == HttpInv => QueueFaithful
<1> SUFFICES ASSUME HttpInv PROVE QueueFaithful
  OBVIOUS
<1>1. pc = "aborted" => lost # {}
  BY DEF HttpInv
<1>2. ASSUME pc # "aborted" /\ pc # "freed"
      PROVE  /\ IsInjective(server.queue)
             /\ \A s \in ToSet(server.queue) :
                   \/ server.cs[s].state = "QUEUED" /\ find(server.cs[s].input)
                   \/ s \in lost
             /\ \A s \in Slots : server.cs[s].state = "QUEUED" => s \in ToSet(server.queue)
             /\ \A s \in Slots : server.cs[s].state = "IDLE" => ~find(server.cs[s].input)
  <2>1. Queue(server, lost) /\ server.queue \in Seq(Slots)
    BY <1>2 DEF HttpInv, Running, Good, Tables, IsServer
  <2>2. DOMAIN server.queue = 1 .. Len(server.queue)
    BY <2>1
  <2>3. IsInjective(server.queue)
    BY <2>1, <2>2 DEF Queue, IsInjective
  <2>4. \A s \in ToSet(server.queue) :
           \/ server.cs[s].state = "QUEUED" /\ find(server.cs[s].input)
           \/ s \in lost
    BY <2>1, <2>2 DEF Queue, InQueue, ToSet
  <2>5. \A s \in Slots : server.cs[s].state = "QUEUED" => s \in ToSet(server.queue)
    BY <2>1, <2>2 DEF Queue, ToSet
  <2>6. \A s \in Slots : server.cs[s].state = "IDLE" => ~find(server.cs[s].input)
    BY <2>1 DEF Queue
  <2> QED BY <2>3, <2>4, <2>5, <2>6
<1> QED BY <1>1, <1>2 DEF QueueFaithful

(* For any number of client structures, any connections and any input,     *)
(* the tables of http/server.c agree whatever is accepted, answered and    *)
(* closed, as long as no generation comes around to its first value.       *)
THEOREM ServerTables == Spec /\ []NoWrap => []TablesAgree
BY HttpInvariant, HttpTables, PTL

(* Under the same condition the queue of http_server_wait_request holds    *)
(* the clients in C_QUEUED, each once, and besides only clients that were  *)
(* closed in the turn that queued them; no idle client has a whole head.   *)
THEOREM ServerQueue == Spec /\ []NoWrap => []QueueFaithful
BY HttpInvariant, HttpQueue, PTL
=============================================================================
