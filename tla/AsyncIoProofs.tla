--------------------------- MODULE AsyncIoProofs ---------------------------
(***************************************************************************)
(* Proofs about AsyncIo, for any number of resources and operations, and   *)
(* any order in which the system completes requests.                       *)
(***************************************************************************)
EXTENDS AsyncIo, FiniteSetTheorems, SequenceTheorems, TLAPS

Handle == [idx : Nat, gen : Nat]
Resource == [type : {"VOID", "FILE", "SOCKET"}, pending : Int, gen : Nat, fd : Int,
             callback : [idx : Int, gen : Nat]]
OpTypes == {"RECV", "SEND", "ACCEPT"}
Operation == [type : OpTypes \cup {"VOID"}, res : Res \cup {NoRes}, user : Nat,
              accepted : Int]
Entry == [op : Ops, fd : Int, does : {"read", "write", "accept"}, n : Nat,
          reports : BOOLEAN]
Completion == [op : Ops, n : Nat, ok : BOOLEAN, num : Nat]

(* The types.  The last conjunct bounds the events by the calls: a call    *)
(* becomes a queued entry or a request, then a completion, then an event.  *)
AsyncTypes ==
    /\ platform \in {"linux", "windows"}
    /\ res \in [Res -> Resource]
    /\ ops \in [Ops -> Operation]
    /\ sq \in Seq(Entry) /\ cq \in Seq(Completion)
    /\ flight \in SUBSET Entry /\ IsFiniteSet(flight)
    /\ fds \in SUBSET Nat /\ IsFiniteSet(fds)
    /\ opens \in 0 .. MaxOpens /\ starts \in 0 .. MaxStarts
    /\ handles \in SUBSET [handle : Handle, fd : Int, kind : {"FILE", "LISTENER", "CONN", "STRAY"}]
    /\ shut \in SUBSET Handle
    /\ begun \in Seq([handle : Handle, type : OpTypes]) /\ Len(begun) = starts
    /\ ended \in Seq(Nat)
    /\ Len(ended) + Len(cq) + Len(sq) + Cardinality(flight) <= starts

InUse(o) == ops[o].type # "VOID"

(* A descriptor has one owner: a resource, or, on Windows, the accept that *)
(* created the socket.                                                     *)
Descriptors ==
    /\ \A r \in Res : IF res[r].type = "VOID" THEN res[r].fd = NoFd ELSE res[r].fd \in fds
    /\ \A q, r \in Res : q # r /\ res[q].fd = res[r].fd => res[q].type = "VOID"
    /\ Windows =>
        /\ \A o \in Ops : ops[o].type = "ACCEPT" =>
              ops[o].accepted \in fds /\ \A r \in Res : res[r].fd # ops[o].accepted
        /\ \A o, p \in Ops :
              o # p /\ ops[o].type = "ACCEPT" /\ ops[p].type = "ACCEPT" =>
                  ops[o].accepted # ops[p].accepted

(* A closed handle is of an earlier generation of its slot, and the others *)
(* are of the current one.  A slot has been closed less often than         *)
(* resources were opened, by a call or by an event.                        *)
Generations ==
    /\ \A r \in Res : res[r].gen + (IF res[r].type = "VOID" THEN 0 ELSE 1) <= opens + Len(ended)
    /\ \A s \in shut : s.idx \in Res /\ s.gen < res[s.idx].gen
    /\ \A h \in handles : h.kind # "STRAY" =>
          /\ h.handle.idx \in Res
          /\ h.handle.gen <= res[h.handle.idx].gen
          /\ h.handle.gen < res[h.handle.idx].gen => h.handle \in shut
          /\ h.handle.gen = res[h.handle.idx].gen =>
                res[h.handle.idx].type # "VOID" /\ res[h.handle.idx].fd = h.fd

(* The loop of close_internal ends inside the array, come what may. *)
CountsCovered == \A r \in Res : res[r].pending <= Cardinality(UsedBy(r))

(* The structures in use and the requests of the system correspond one to  *)
(* one.                                                                    *)
Correspondence ==
    /\ sq = <<>>
    /\ \A f \in flight : InUse(f.op) /\ ops[f.op].user = f.n
    /\ \A i \in 1 .. Len(cq) : InUse(cq[i].op) /\ ops[cq[i].op].user = cq[i].n
    /\ \A f, g \in flight : f.op = g.op => f = g
    /\ \A i, j \in 1 .. Len(cq) : cq[i].op = cq[j].op => i = j
    /\ \A f \in flight, i \in 1 .. Len(cq) : f.op # cq[i].op
    /\ \A o \in Ops : InUse(o) =>
          (\E f \in flight : f.op = o) \/ (\E i \in 1 .. Len(cq) : cq[i].op = o)

(* A resource counts exactly its operations, an unused one has none. *)
CountsExact ==
    /\ \A r \in Res : res[r].pending = Cardinality(UsedBy(r))
    /\ \A r \in Res : res[r].type = "VOID" => res[r].pending = 0
    /\ \A o \in Ops : InUse(o) => ops[o].res \in Res

(* A structure in use holds what its call asked for, and no event has told *)
(* of it yet.                                                              *)
Requests ==
    /\ \A o \in Ops : InUse(o) =>
          /\ ops[o].user \in 1 .. starts
          /\ \A i \in 1 .. Len(ended) : ended[i] # ops[o].user
          /\ begun[ops[o].user] = [handle |-> handle_from_res(ops[o].res), type |-> ops[o].type]
    /\ \A o, p \in Ops : o # p /\ InUse(o) /\ InUse(p) => ops[o].user # ops[p].user
    /\ \A i \in 1 .. Len(ended) : ended[i] \in 1 .. starts
    /\ \A r \in Res : res[r].callback \in {NoCallback, handle_from_res(r)}

(* What every step preserves: some of it always, the rest until the        *)
(* context is spoiled or freed.                                            *)
Clean == ~spoiled /\ Running
IndInv ==
    /\ AsyncTypes
    /\ CountsCovered
    /\ Clean => Descriptors /\ Generations
    /\ Clean => Correspondence /\ CountsExact
    /\ Clean => Requests
    /\ EventsMatch
    /\ ~spoiled => status # "crashed"
-----------------------------------------------------------------------------
(* A set of naturals that is not empty has a least element. *)
LEMMA MinNat ==
    ASSUME NEW S \in SUBSET Nat, S # {}
    PROVE  Min(S) \in S
<1> DEFINE R == {ss \in Nat \X Nat : ss[1] < ss[2]}
<1>1. R = OpToRel(<, Nat)
  BY Zenon DEF OpToRel
<1>2. IsWellFoundedOn(R, Nat)
  BY <1>1, NatLessThanWellFounded, Zenon
<1> HIDE DEF R
<1>3. PICK x \in S : \A y \in S : ~(<<y, x>> \in R)
  BY <1>2, WFMin, Zenon
<1>4. ASSUME NEW y \in S PROVE x <= y
  <2>1. ~(y < x)
    <3>1. <<y, x>> \in Nat \X Nat /\ <<y, x>>[1] = y /\ <<y, x>>[2] = x
      OBVIOUS
    <3> QED BY <1>3, <3>1 DEF R
  <2> QED BY <2>1
<1> QED BY <1>4 DEF Min

(* The system's new descriptor is one that is not open: among one more     *)
(* than there are open descriptors, one is free.                           *)
LEMMA NewFdFresh ==
    ASSUME fds \in SUBSET Nat, IsFiniteSet(fds)
    PROVE  NewFd \in Nat /\ NewFd \notin fds
<1> DEFINE n == Cardinality(fds)
           I == FirstFd .. FirstFd + n
<1>1. n \in Nat /\ FirstFd \in Nat
  BY FS_CardinalityType, AsyncAssumption
<1>2. IsFiniteSet(I) /\ Cardinality(I) = n + 1
  BY <1>1, FS_Interval
<1>3. I \ fds # {}
  <2> SUFFICES ASSUME I \in SUBSET fds PROVE FALSE
    OBVIOUS
  <2>1. Cardinality(I) <= n
    BY FS_Subset
  <2> HIDE DEF n, I
  <2> QED BY <1>1, <1>2, <2>1
<1>4. I \ fds \in SUBSET Nat
  BY <1>1
<1>5. Min(I \ fds) \in I \ fds
  BY <1>3, <1>4, MinNat
<1> QED BY <1>4, <1>5 DEF NewFd

(* find_unused_res and find_unused_op find an unused structure if there is *)
(* one.                                                                    *)
LEMMA UnusedFound ==
    /\ UnusedRes # {} => find_unused_res \in Res /\ res[find_unused_res].type = "VOID"
    /\ UnusedOps # {} => find_unused_op \in Ops /\ ops[find_unused_op].type = "VOID"
<1>1. UnusedRes \in SUBSET Nat /\ UnusedOps \in SUBSET Nat
  BY AsyncAssumption DEF UnusedRes, UnusedOps, Res, Ops
<1>2. UnusedRes # {} => find_unused_res \in UnusedRes
  BY <1>1, MinNat DEF find_unused_res
<1>3. UnusedOps # {} => find_unused_op \in UnusedOps
  BY <1>1, MinNat DEF find_unused_op
<1> QED BY <1>2, <1>3 DEF UnusedRes, UnusedOps

(* A handle names its slot, in its generation, or nothing. *)
LEMMA HandleNames ==
    ASSUME NEW h \in Handle, res_from_handle(h) # NoRes
    PROVE  /\ res_from_handle(h) \in Res
           /\ h.idx = res_from_handle(h) /\ h.gen = res[res_from_handle(h)].gen
           /\ h = handle_from_res(res_from_handle(h))
<1>1. h.idx \in Nat /\ h = [idx |-> h.idx, gen |-> h.gen]
  BY DEF Handle
<1>2. h.idx < MaxRes /\ res[h.idx].gen = h.gen /\ res_from_handle(h) = h.idx
  BY DEF res_from_handle
<1>3. h.idx \in Res
  BY <1>1, <1>2, AsyncAssumption DEF Res
<1> QED BY <1>1, <1>2, <1>3 DEF handle_from_res

(* No resource has the index NoRes. *)
LEMMA NoResIsNone == NoRes \notin Res
  BY AsyncAssumption DEF NoRes, Res
-----------------------------------------------------------------------------
(* What the actions do, slot by slot *)

(* Slot r, which is unused, is opened with descriptor fd, which is new. *)
OpensFresh(type, kind, r, fd) ==
    /\ fd \notin fds /\ res[r].type = "VOID" /\ Running
    /\ res' \in [Res -> Resource]
    /\ \A q \in Res : q # r => res'[q] = res[q]
    /\ res'[r].type = type /\ res'[r].fd = fd /\ res'[r].pending = 0
    /\ res'[r].gen = res[r].gen /\ res'[r].callback = res[r].callback
    /\ fds' = fds \cup {fd}
    /\ handles' = handles \cup
          {[handle |-> handle_from_res(r), fd |-> fd, kind |-> kind]}
    /\ opens' = opens + 1 /\ opens < MaxOpens
    /\ UNCHANGED <<platform, ops, sq, flight, cq, starts, shut, begun, spoiled,
                   ev, ended, status>>

(* Opening takes an unused slot and a fresh descriptor; the generation of  *)
(* the slot and its callback stay.                                         *)
LEMMA OpenEffect ==
    ASSUME AsyncTypes, NEW type \in {"FILE", "SOCKET"}, NEW kind \in {"FILE", "LISTENER"},
           Open(type, kind)
    PROVE  \E r \in Res, fd \in Nat : OpensFresh(type, kind, r, fd)
<1> DEFINE r == find_unused_res
           fd == NewFd
<1>1. r \in Res /\ res[r].type = "VOID"
  BY UnusedFound DEF Open
<1>2. fd \in Nat /\ fd \notin fds
  BY NewFdFresh DEF AsyncTypes
<1>3. /\ res' = [res EXCEPT ![r] = [res[r] EXCEPT !.type = type, !.pending = 0, !.fd = fd]]
      /\ fds' = fds \cup {fd}
      /\ handles' = handles \cup {[handle |-> handle_from_res(r), fd |-> fd, kind |-> kind]}
      /\ opens' = opens + 1 /\ opens < MaxOpens /\ Running
      /\ UNCHANGED <<platform, ops, sq, flight, cq, starts, shut, begun, spoiled, ev, ended, status>>
  BY DEF Open, Opened, system, events
<1> HIDE DEF r, fd
<1>4. res[r] \in Resource
  BY <1>1 DEF AsyncTypes
<1>5. [res[r] EXCEPT !.type = type, !.pending = 0, !.fd = fd] \in Resource
  <2>1. fd \in Int /\ type \in {"VOID", "FILE", "SOCKET"} /\ 0 \in Int
    BY <1>2
  <2> QED BY <1>4, <2>1 DEF Resource
<1>6. /\ res' \in [Res -> Resource]
      /\ \A q \in Res : q # r => res'[q] = res[q]
      /\ res'[r] = [res[r] EXCEPT !.type = type, !.pending = 0, !.fd = fd]
  BY <1>1, <1>3, <1>5 DEF AsyncTypes
<1>7. /\ res'[r].type = type /\ res'[r].fd = fd /\ res'[r].pending = 0
      /\ res'[r].gen = res[r].gen /\ res'[r].callback = res[r].callback
  BY <1>4, <1>6 DEF Resource
<1> QED BY <1>1, <1>2, <1>3, <1>6, <1>7 DEF OpensFresh

(* The entry of a call has its type, and names the structure and the call. *)
LEMMA SqeType ==
    ASSUME AsyncTypes, NEW h \in handles, NEW type \in OpTypes, Startable(h, type)
    PROVE  LET sqe == SqeOf(h, type, find_unused_op)
           IN  sqe \in Entry /\ sqe.op = find_unused_op /\ sqe.n = starts + 1
<1> DEFINE r == res_from_handle(h.handle)
           op == find_unused_op
           sqe == SqeOf(h, type, op)
<1>1. r \in Res
  <2>1. h.handle \in Handle
    BY DEF AsyncTypes
  <2> QED BY <2>1, HandleNames DEF Startable
<1>2. op \in Ops
  BY UnusedFound DEF Startable
<1>3. starts + 1 \in Nat
  BY AsyncAssumption DEF AsyncTypes
<1>4. res[r].fd \in Int
  <2>1. res[r] \in Resource
    BY <1>1 DEF AsyncTypes
  <2> QED BY <2>1 DEF Resource
<1>5. Request(type) \in {"read", "write", "accept"}
  <2>1. CASE type = "RECV"
    BY <2>1 DEF Request
  <2>2. CASE type = "SEND"
    BY <2>2 DEF Request
  <2>3. CASE type = "ACCEPT"
    BY <2>3 DEF Request
  <2> QED BY <2>1, <2>2, <2>3 DEF OpTypes
<1>6. sqe = [op |-> op, fd |-> res[r].fd, does |-> Request(type), n |-> starts + 1,
             reports |-> Linux \/ res[r].fd \in port]
  BY DEF SqeOf
<1>7. (Linux \/ res[r].fd \in port) \in BOOLEAN
  OBVIOUS
<1> HIDE DEF r, op, sqe
<1>8. sqe \in Entry /\ sqe.op = op /\ sqe.n = starts + 1
  BY <1>2, <1>3, <1>4, <1>5, <1>6, <1>7, Zenon DEF Entry
<1> QED BY <1>8 DEF sqe, op

(* Structure op, which is unused, begins an operation on slot r.  The      *)
(* system gets the entry of it or, if an earlier call failed, an older one. *)
Begins(h, type, r, op, acc, sqe) ==
    /\ r = res_from_handle(h.handle) /\ h.handle = handle_from_res(r) /\ Running
    /\ ops[op].type = "VOID"
    /\ res' \in [Res -> Resource]
    /\ \A q \in Res : q # r => res'[q] = res[q]
    /\ res'[r].pending = res[r].pending + 1
    /\ res'[r].type = res[r].type /\ res'[r].fd = res[r].fd
    /\ res'[r].gen = res[r].gen /\ res'[r].callback = res[r].callback
    /\ ops' = [ops EXCEPT ![op] = [type |-> type, res |-> r, user |-> starts + 1,
                                   accepted |-> acc]]
    /\ ops' \in [Ops -> Operation]
    /\ sqe.op = op /\ sqe.n = starts + 1
    /\ \/ /\ sq = <<>> /\ sq' = <<>>
          /\ flight' = flight \cup {sqe}
       \/ /\ sq # <<>> /\ sq' = Tail(Append(sq, sqe))
          /\ flight' = flight \cup {Head(sq)}
       \/ /\ sq' = sq
          /\ flight' = flight \cup {sqe}
    /\ \/ /\ Windows /\ type = "ACCEPT"
          /\ acc \in Nat /\ acc \notin fds /\ fds' = fds \cup {acc}
       \/ /\ ~(Windows /\ type = "ACCEPT")
          /\ fds' = fds
    /\ starts' = starts + 1 /\ starts < MaxStarts
    /\ begun' = Append(begun, [handle |-> h.handle, type |-> type])
    /\ (~spoiled' => ~spoiled /\ h.kind # "STRAY")
    /\ UNCHANGED <<platform, cq, opens, handles, shut, ev, ended, status>>

(* A call that the system takes uses an unused structure, counts on its    *)
(* resource and sends the oldest entry; an accept on Windows creates a     *)
(* socket.                                                                 *)
LEMMA StartEffect ==
    ASSUME AsyncTypes, NEW h \in handles, NEW type \in OpTypes, Start(h, type)
    PROVE  \E r \in Res, op \in Ops, acc \in Int, sqe \in Entry : Begins(h, type, r, op, acc, sqe)
<1> DEFINE r == res_from_handle(h.handle)
           op == find_unused_op
           acceptor == Windows /\ type = "ACCEPT"
           acc == IF acceptor THEN NewFd ELSE ops[op].accepted
           sqe == SqeOf(h, type, op)
<1>0. h.handle \in Handle
  BY DEF AsyncTypes
<1>1. r \in Res /\ h.handle = handle_from_res(r)
  BY <1>0, HandleNames DEF Start, Startable
<1>2. op \in Ops /\ ops[op].type = "VOID"
  BY UnusedFound DEF Start, Startable
<1>3. NewFd \in Nat /\ NewFd \notin fds
  BY NewFdFresh DEF AsyncTypes
<1>4. /\ res' = [res EXCEPT ![r] = [res[r] EXCEPT !.pending = res[r].pending + 1]]
      /\ ops' = [ops EXCEPT ![op] = [type |-> type, res |-> r, user |-> starts + 1,
                                     accepted |-> acc]]
      /\ fds' = IF acceptor THEN fds \cup {NewFd} ELSE fds
      /\ starts' = starts + 1 /\ starts < MaxStarts /\ Running
      /\ begun' = Append(begun, [handle |-> h.handle, type |-> type])
      /\ UNCHANGED <<platform, cq, opens, handles, shut, ev, ended, status>>
  BY DEF Start, Startable, Attempt, StartedOp, events
<1>5. ~spoiled' => ~spoiled /\ h.kind # "STRAY"
  BY DEF Start
<1>6. sqe \in Entry /\ sqe.op = op /\ sqe.n = starts + 1
  BY SqeType, Zenon DEF Start
<1>7. \/ sq = <<>> /\ sq' = <<>> /\ flight' = flight \cup {sqe}
      \/ sq # <<>> /\ sq' = Tail(Append(sq, sqe)) /\ flight' = flight \cup {Head(sq)}
      \/ sq' = sq /\ flight' = flight \cup {sqe}
  <2>1. CASE Linux
    <3>1. flight' = flight \cup {Head(Append(sq, sqe))} /\ sq' = Tail(Append(sq, sqe))
      BY <2>1 DEF Start, start_uring_op
    <3> HIDE DEF sqe
    <3>2. sq = <<>> => Head(Append(sq, sqe)) = sqe /\ Tail(Append(sq, sqe)) = <<>>
      BY <1>6
    <3>3. sq # <<>> => Head(Append(sq, sqe)) = Head(sq)
      BY <1>6 DEF AsyncTypes
    <3> QED BY <3>1, <3>2, <3>3
  <2>2. CASE ~Linux
    BY <2>2 DEF Start, StartWindows
  <2> QED BY <2>1, <2>2
<1>8. acc \in Int
  BY <1>2, <1>3 DEF AsyncTypes, Operation
<1> HIDE DEF r, op, sqe
<1>9. /\ res' \in [Res -> Resource]
      /\ \A q \in Res : q # r => res'[q] = res[q]
      /\ res'[r].pending = res[r].pending + 1
      /\ res'[r].type = res[r].type /\ res'[r].fd = res[r].fd
      /\ res'[r].gen = res[r].gen /\ res'[r].callback = res[r].callback
  <2>1. res[r] \in Resource
    BY <1>1 DEF AsyncTypes
  <2>2. [res[r] EXCEPT !.pending = res[r].pending + 1] \in Resource
    BY <2>1 DEF Resource
  <2>3. res'[r] = [res[r] EXCEPT !.pending = res[r].pending + 1]
    BY <1>1, <1>4 DEF AsyncTypes
  <2> QED BY <1>1, <1>4, <2>1, <2>2, <2>3 DEF AsyncTypes, Resource
<1>10. ops' \in [Ops -> Operation]
  <2> HIDE DEF acc
  <2>1. [type |-> type, res |-> r, user |-> starts + 1, accepted |-> acc] \in Operation
    BY <1>1, <1>8 DEF AsyncTypes, Operation
  <2> QED BY <1>2, <1>4, <2>1 DEF AsyncTypes
<1>11. \/ Windows /\ type = "ACCEPT" /\ acc \in Nat /\ acc \notin fds /\ fds' = fds \cup {acc}
       \/ ~(Windows /\ type = "ACCEPT") /\ fds' = fds
  BY <1>3, <1>4
<1> HIDE DEF acc
<1> QED BY <1>1, <1>2, <1>4, <1>5, <1>6, <1>7, <1>8, <1>9, <1>10, <1>11 DEF r, Begins
-----------------------------------------------------------------------------
(* The operations in use on a resource are finitely many, and a set of     *)
(* them has a cardinality.                                                 *)
LEMMA UsedFinite ==
    ASSUME NEW r
    PROVE  /\ IsFiniteSet(UsedBy(r)) /\ Cardinality(UsedBy(r)) \in Nat
           /\ \A o \in Ops : Cardinality({p \in UsedBy(r) : p < o}) \in Nat
<1>1. IsFiniteSet(Ops)
  BY FS_Interval, AsyncAssumption DEF Ops
<1>2. UsedBy(r) \in SUBSET Ops
  BY DEF UsedBy
<1>3. IsFiniteSet(UsedBy(r))
  BY <1>1, <1>2, FS_Subset
<1>4. \A o \in Ops : IsFiniteSet({p \in UsedBy(r) : p < o})
  BY <1>3, FS_Subset
<1> QED BY <1>3, <1>4, FS_CardinalityType

(* A slot that is in a generation has the handle of that generation. *)
LEMMA HandleType ==
    ASSUME AsyncTypes, NEW r \in Res
    PROVE  handle_from_res(r) \in Handle /\ res[r] \in Resource /\ res[r].gen \in Nat
<1>1. res[r] \in Resource
  BY DEF AsyncTypes
<1>2. res[r].gen \in Nat
  BY <1>1 DEF Resource
<1>3. r \in Nat
  BY AsyncAssumption DEF Res
<1> QED BY <1>1, <1>2, <1>3 DEF handle_from_res, Handle

(* Opening a resource preserves the invariant: slot and descriptor are     *)
(* nobody's.                                                               *)
LEMMA OpenKeepsIndInv ==
    ASSUME IndInv, NEW type \in {"FILE", "SOCKET"}, NEW kind \in {"FILE", "LISTENER"},
           Open(type, kind)
    PROVE  IndInv'
<1>0. AsyncTypes /\ CountsCovered
  BY DEF IndInv
<1>1. PICK r \in Res, fd \in Nat : OpensFresh(type, kind, r, fd)
  BY <1>0, OpenEffect
<1> USE DEF OpensFresh
<1>2. handle_from_res(r) \in Handle
  BY <1>0, HandleType
<1>3. AsyncTypes'
  <2>1. IsFiniteSet(fds')
    BY <1>0, <1>1, FS_AddElement DEF AsyncTypes
  <2>2. opens' \in 0 .. MaxOpens
    BY <1>0, <1>1, AsyncAssumption DEF AsyncTypes
  <2>3. handles' \in SUBSET [handle : Handle, fd : Int, kind : {"FILE", "LISTENER", "CONN", "STRAY"}]
    BY <1>0, <1>1, <1>2 DEF AsyncTypes
  <2> QED BY <1>0, <1>1, <2>1, <2>2, <2>3 DEF AsyncTypes
<1>4. /\ \A q \in Res : UsedBy(q)' = UsedBy(q) /\ handle_from_res(q)' = handle_from_res(q)
      /\ \A q \in Res : res'[q].gen = res[q].gen /\ res'[q].callback = res[q].callback
      /\ \A o \in Ops : InUse(o)' = InUse(o)
      /\ Clean' = Clean
  BY <1>1 DEF UsedBy, handle_from_res, InUse, Clean, Running
<1>5. CountsCovered'
  <2> SUFFICES ASSUME NEW q \in Res PROVE res'[q].pending <= Cardinality(UsedBy(q)')
    BY DEF CountsCovered
  <2>1. CASE q = r
    BY <1>1, <1>4, <2>1, UsedFinite
  <2>2. CASE q # r
    BY <1>0, <1>1, <1>4, <2>2 DEF CountsCovered
  <2> QED BY <2>1, <2>2
<1>6. ASSUME Clean PROVE Descriptors' /\ Generations' /\ Correspondence' /\ CountsExact' /\ Requests'
  <2>1. Descriptors /\ Generations /\ Correspondence /\ CountsExact /\ Requests
    BY <1>6 DEF IndInv
  <2>2. Descriptors'
    <3>1. \A q \in Res : IF res'[q].type = "VOID" THEN res'[q].fd = NoFd ELSE res'[q].fd \in fds'
      BY <1>1, <2>1 DEF Descriptors
    <3>2. \A q \in Res : res[q].fd # fd
      BY <1>1, <2>1 DEF Descriptors, NoFd
    <3>3. \A p, q \in Res : p # q /\ res'[p].fd = res'[q].fd => res'[p].type = "VOID"
      BY <1>1, <2>1, <3>2 DEF Descriptors
    <3>4. ASSUME Windows', NEW o \in Ops, ops'[o].type = "ACCEPT"
          PROVE  ops'[o].accepted \in fds' /\ \A q \in Res : res'[q].fd # ops'[o].accepted
      BY <1>1, <2>1, <3>4 DEF Descriptors, Windows
    <3>5. ASSUME Windows'
          PROVE  \A o, p \in Ops :
                    o # p /\ ops'[o].type = "ACCEPT" /\ ops'[p].type = "ACCEPT" =>
                        ops'[o].accepted # ops'[p].accepted
      BY <1>1, <2>1, <3>5 DEF Descriptors, Windows
    <3> QED BY <3>1, <3>3, <3>4, <3>5 DEF Descriptors
  <2>3. Generations'
    <3>1. \A q \in Res : res'[q].gen + (IF res'[q].type = "VOID" THEN 0 ELSE 1) <= opens' + Len(ended')
      <4> SUFFICES ASSUME NEW q \in Res
                   PROVE res'[q].gen + (IF res'[q].type = "VOID" THEN 0 ELSE 1) <= opens' + Len(ended')
        OBVIOUS
      <4>1. res[q].gen \in Nat /\ opens \in Nat /\ Len(ended) \in Nat
        BY <1>0, HandleType, AsyncAssumption DEF AsyncTypes
      <4>2. res[q].gen + (IF res[q].type = "VOID" THEN 0 ELSE 1) <= opens + Len(ended)
        BY <2>1 DEF Generations
      <4>3. CASE q = r
        BY <1>1, <4>1, <4>2, <4>3
      <4>4. CASE q # r
        BY <1>1, <4>1, <4>2, <4>4
      <4> QED BY <4>3, <4>4
    <3>2. \A s \in shut' : s.idx \in Res /\ s.gen < res'[s.idx].gen
      BY <1>1, <1>4, <2>1 DEF Generations
    <3>3. ASSUME NEW h \in handles', h.kind # "STRAY"
          PROVE  /\ h.handle.idx \in Res
                 /\ h.handle.gen <= res'[h.handle.idx].gen
                 /\ h.handle.gen < res'[h.handle.idx].gen => h.handle \in shut'
                 /\ h.handle.gen = res'[h.handle.idx].gen =>
                       res'[h.handle.idx].type # "VOID" /\ res'[h.handle.idx].fd = h.fd
      <4>1. CASE h \in handles
        BY <1>1, <1>4, <2>1, <3>3, <4>1 DEF Generations
      <4>2. CASE h = [handle |-> handle_from_res(r), fd |-> fd, kind |-> kind]
        <5>1. h.handle.idx = r /\ h.handle.gen = res[r].gen /\ h.fd = fd
          BY <4>2 DEF handle_from_res
        <5>2. res[r].gen \in Nat
          BY <1>0, HandleType
        <5> QED BY <1>1, <5>1, <5>2
      <4> QED BY <1>1, <4>1, <4>2
    <3> QED BY <3>1, <3>2, <3>3 DEF Generations
  <2>4. Correspondence'
    BY <1>1, <2>1 DEF Correspondence, InUse
  <2>5. CountsExact'
    BY <1>1, <1>4, <2>1 DEF CountsExact
  <2>6. Requests'
    BY <1>0, <1>1, <1>4, <2>1 DEF Requests, CountsExact, InUse
  <2> QED BY <2>2, <2>3, <2>4, <2>5, <2>6
<1>7. EventsMatch' /\ (~spoiled' => status' # "crashed")
  BY <1>1 DEF IndInv, EventsMatch
<1> QED BY <1>3, <1>4, <1>5, <1>6, <1>7 DEF IndInv

(* Setting a callback preserves it: the callback is the handle of the slot.  *)
LEMMA SetCallbackKeepsIndInv ==
    ASSUME IndInv, NEW h \in handles, io_set_callback(h)
    PROVE  IndInv'
<1>0. AsyncTypes /\ CountsCovered /\ h.handle \in Handle
  BY DEF IndInv, AsyncTypes
<1>1. /\ Running /\ res_from_handle(h.handle) # NoRes
      /\ UNCHANGED <<platform, ops, sq, flight, cq, fds, port, opens, starts, fails, handles, shut,
                     begun, ev, ended, status>>
      /\ ~spoiled' => ~spoiled
  BY DEF io_set_callback, system, counters, events
<1>2. PICK r \in Res : r = res_from_handle(h.handle) /\ h.handle = handle_from_res(r)
  BY <1>0, <1>1, HandleNames
<1>3. /\ res' \in [Res -> Resource]
      /\ \A q \in Res : q # r => res'[q] = res[q]
      /\ res'[r].callback = h.handle /\ res'[r].type = res[r].type /\ res'[r].fd = res[r].fd
      /\ res'[r].gen = res[r].gen /\ res'[r].pending = res[r].pending
  <2>1. res' = [res EXCEPT ![r] = [res[r] EXCEPT !.callback = h.handle]]
    BY <1>2 DEF io_set_callback
  <2>2. res[r] \in Resource
    BY <1>0 DEF AsyncTypes
  <2>3. h.handle \in [idx : Int, gen : Nat]
    BY <1>0 DEF Handle
  <2>4. [res[r] EXCEPT !.callback = h.handle] \in Resource
    BY <2>2, <2>3 DEF Resource
  <2>5. res'[r] = [res[r] EXCEPT !.callback = h.handle]
    BY <1>0, <2>1 DEF AsyncTypes
  <2> QED BY <1>0, <2>1, <2>2, <2>4, <2>5 DEF AsyncTypes, Resource
<1>4. \A q \in Res : /\ res'[q].type = res[q].type /\ res'[q].fd = res[q].fd
                     /\ res'[q].gen = res[q].gen /\ res'[q].pending = res[q].pending
  BY <1>3
<1>5. /\ \A q \in Res : UsedBy(q)' = UsedBy(q) /\ handle_from_res(q)' = handle_from_res(q)
      /\ \A o \in Ops : InUse(o)' = InUse(o)
      /\ Clean' => Clean
  BY <1>1, <1>4 DEF UsedBy, handle_from_res, InUse, Clean, Running
<1>6. AsyncTypes'
  BY <1>0, <1>1, <1>3 DEF AsyncTypes
<1>7. CountsCovered'
  BY <1>0, <1>4, <1>5 DEF CountsCovered
<1>8. ASSUME Clean' PROVE Descriptors' /\ Generations' /\ Correspondence' /\ CountsExact' /\ Requests'
  <2>1. Descriptors /\ Generations /\ Correspondence /\ CountsExact /\ Requests
    BY <1>5, <1>8 DEF IndInv
  <2>2. Descriptors'
    BY <1>1, <1>4, <2>1 DEF Descriptors, Windows
  <2>3. Generations'
    BY <1>1, <1>4, <2>1 DEF Generations
  <2>4. Correspondence'
    BY <1>1, <2>1 DEF Correspondence, InUse
  <2>5. CountsExact'
    BY <1>1, <1>4, <1>5, <2>1 DEF CountsExact
  <2>6. Requests'
    BY <1>0, <1>1, <1>2, <1>3, <1>5, <2>1 DEF Requests, CountsExact, InUse
  <2> QED BY <2>2, <2>3, <2>4, <2>5, <2>6
<1>9. EventsMatch' /\ (~spoiled' => status' # "crashed")
  BY <1>1 DEF IndInv, EventsMatch
<1> QED BY <1>5, <1>6, <1>7, <1>8, <1>9 DEF IndInv

(* A call that the system refuses spoils the context, and leaves an entry  *)
(* in the queue.                                                           *)
LEMMA StartFailsKeepsIndInv ==
    ASSUME IndInv, NEW h \in handles, NEW type \in OpTypes, StartFails(h, type)
    PROVE  IndInv'
<1> DEFINE sqe == SqeOf(h, type, find_unused_op)
<1>0. AsyncTypes /\ CountsCovered
  BY DEF IndInv
<1>1. /\ sq' = Append(sq, sqe) /\ spoiled' = TRUE
      /\ starts' = starts + 1 /\ starts < MaxStarts
      /\ begun' = Append(begun, [handle |-> h.handle, type |-> type])
      /\ UNCHANGED <<platform, res, ops, cq, flight, fds, opens, handles, shut, ev, ended, status>>
  BY DEF StartFails, Startable, start_uring_opFails, Attempt, events
<1>2. sqe \in Entry
  BY <1>0, SqeType, Zenon DEF StartFails
<1> HIDE DEF sqe
<1>3. AsyncTypes'
  <2>1. sq' \in Seq(Entry) /\ Len(sq') = Len(sq) + 1 /\ Len(sq) \in Nat
    BY <1>0, <1>1, <1>2 DEF AsyncTypes
  <2>2. [handle |-> h.handle, type |-> type] \in [handle : Handle, type : OpTypes]
    BY <1>0 DEF AsyncTypes
  <2>3. begun' \in Seq([handle : Handle, type : OpTypes]) /\ Len(begun') = starts'
    BY <1>0, <1>1, <2>2 DEF AsyncTypes
  <2>4. starts' \in 0 .. MaxStarts
    BY <1>0, <1>1, AsyncAssumption DEF AsyncTypes
  <2>5. Cardinality(flight) \in Nat /\ Len(ended) \in Nat /\ Len(cq) \in Nat
    BY <1>0, FS_CardinalityType DEF AsyncTypes
  <2>6. Len(ended') + Len(cq') + Len(sq') + Cardinality(flight') <= starts'
    BY <1>0, <1>1, <2>1, <2>5, AsyncAssumption DEF AsyncTypes
  <2> QED BY <1>0, <1>1, <2>1, <2>3, <2>4, <2>6 DEF AsyncTypes
<1>4. CountsCovered'
  BY <1>0, <1>1 DEF CountsCovered, UsedBy
<1> QED BY <1>1, <1>3, <1>4 DEF IndInv, Clean, EventsMatch

(* The system completes a request.                                         *)
LEMMA CompleteKeepsIndInv ==
    ASSUME IndInv, NEW f \in flight, NEW ok \in BOOLEAN, Complete(f, ok)
    PROVE  IndInv'
<1>0. AsyncTypes /\ CountsCovered /\ f \in Entry
  BY DEF IndInv, AsyncTypes
<1>1. /\ Running /\ flight' = flight \ {f}
      /\ UNCHANGED <<platform, res, ops, sq, port, opens, starts, fails, handles, shut,
                     begun, spoiled, ev, ended, status>>
  BY DEF Complete, counters, ghosts, events
<1>2. NewFd \in Nat /\ NewFd \notin fds
  BY <1>0, NewFdFresh DEF AsyncTypes
<1>3. PICK num \in Nat : cq' = Append(cq, [op |-> f.op, n |-> f.n, ok |-> ok, num |-> num])
  BY <1>2 DEF Complete
<1>4. fds \subseteq fds' /\ fds' \in SUBSET Nat /\ IsFiniteSet(fds')
  <2>1. fds' = fds \/ fds' = fds \cup {NewFd}
    BY DEF Complete
  <2>2. IsFiniteSet(fds \cup {NewFd}) /\ IsFiniteSet(fds) /\ fds \in SUBSET Nat
    BY <1>0, FS_AddElement DEF AsyncTypes
  <2> QED BY <1>2, <2>1, <2>2
<1> DEFINE c == [op |-> f.op, n |-> f.n, ok |-> ok, num |-> num]
<1>5. c \in Completion /\ c.op = f.op /\ c.n = f.n
  BY <1>0 DEF Entry, Completion
<1> HIDE DEF c
<1>6. /\ cq' \in Seq(Completion) /\ Len(cq') = Len(cq) + 1 /\ cq'[Len(cq) + 1] = c
      /\ \A i \in 1 .. Len(cq) : cq'[i] = cq[i]
      /\ Len(cq) \in Nat
  BY <1>0, <1>3, <1>5 DEF AsyncTypes, c
<1>7. AsyncTypes'
  <2>1. IsFiniteSet(flight') /\ Cardinality(flight') = Cardinality(flight) - 1
    BY <1>0, <1>1, FS_RemoveElement DEF AsyncTypes
  <2>2. Cardinality(flight) \in Nat /\ Len(ended) \in Nat /\ Len(sq) \in Nat
    BY <1>0, FS_CardinalityType DEF AsyncTypes
  <2>3. Len(ended') + Len(cq') + Len(sq') + Cardinality(flight') <= starts'
    BY <1>0, <1>1, <1>6, <2>1, <2>2, AsyncAssumption DEF AsyncTypes
  <2>4. flight' \in SUBSET Entry
    BY <1>0, <1>1 DEF AsyncTypes
  <2> QED BY <1>0, <1>1, <1>4, <1>6, <2>1, <2>3, <2>4 DEF AsyncTypes
<1>8. /\ \A q \in Res : UsedBy(q)' = UsedBy(q) /\ handle_from_res(q)' = handle_from_res(q)
      /\ \A o \in Ops : InUse(o)' = InUse(o)
      /\ Clean' = Clean
  BY <1>1 DEF UsedBy, handle_from_res, InUse, Clean, Running
<1>9. CountsCovered'
  BY <1>0, <1>1, <1>8 DEF CountsCovered
<1>10. ASSUME Clean PROVE Descriptors' /\ Generations' /\ Correspondence' /\ CountsExact' /\ Requests'
  <2>1. Descriptors /\ Generations /\ Correspondence /\ CountsExact /\ Requests
    BY <1>10 DEF IndInv
  <2>2. Descriptors'
    BY <1>1, <1>4, <2>1 DEF Descriptors, Windows
  <2>3. Generations'
    BY <1>1, <2>1 DEF Generations
  <2>4. Correspondence'
    <3>1. sq' = <<>>
      BY <1>1, <2>1 DEF Correspondence
    <3>2. \A g \in flight' : ops'[g.op].type # "VOID" /\ ops'[g.op].user = g.n
      BY <1>1, <2>1 DEF Correspondence, InUse
    <3>3. ASSUME NEW i \in 1 .. Len(cq')
          PROVE  ops'[cq'[i].op].type # "VOID" /\ ops'[cq'[i].op].user = cq'[i].n
      <4>1. CASE i = Len(cq) + 1
        BY <1>1, <1>5, <1>6, <2>1, <4>1 DEF Correspondence, InUse
      <4>2. CASE i # Len(cq) + 1
        <5>1. i \in 1 .. Len(cq)
          BY <1>6, <4>2
        <5> QED BY <1>1, <1>6, <2>1, <5>1 DEF Correspondence, InUse
      <4> QED BY <4>1, <4>2
    <3>4. \A g, k \in flight' : g.op = k.op => g = k
      BY <1>1, <2>1 DEF Correspondence
    <3>5. ASSUME NEW i \in 1 .. Len(cq'), NEW j \in 1 .. Len(cq'), cq'[i].op = cq'[j].op
          PROVE  i = j
      <4>1. (i \in 1 .. Len(cq) \/ i = Len(cq) + 1) /\ (j \in 1 .. Len(cq) \/ j = Len(cq) + 1)
        BY <1>6
      <4>2. CASE i \in 1 .. Len(cq) /\ j \in 1 .. Len(cq)
        BY <1>6, <2>1, <3>5, <4>2 DEF Correspondence
      <4>3. \A k \in 1 .. Len(cq) : cq'[k].op # c.op
        BY <1>5, <1>6, <2>1 DEF Correspondence
      <4> QED BY <1>6, <3>5, <4>1, <4>2, <4>3
    <3>6. ASSUME NEW g \in flight', NEW i \in 1 .. Len(cq') PROVE g.op # cq'[i].op
      <4>1. CASE i = Len(cq) + 1
        BY <1>1, <1>5, <1>6, <2>1, <4>1 DEF Correspondence
      <4>2. CASE i \in 1 .. Len(cq)
        BY <1>1, <1>6, <2>1, <4>2 DEF Correspondence
      <4> QED BY <1>6, <4>1, <4>2
    <3>7. ASSUME NEW o \in Ops, ops'[o].type # "VOID"
          PROVE  (\E g \in flight' : g.op = o) \/ (\E i \in 1 .. Len(cq') : cq'[i].op = o)
      <4>1. (\E g \in flight : g.op = o) \/ (\E i \in 1 .. Len(cq) : cq[i].op = o)
        BY <1>1, <2>1, <3>7 DEF Correspondence, InUse
      <4>2. CASE f.op = o
        <5>1. Len(cq) + 1 \in 1 .. Len(cq')
          BY <1>6
        <5> QED BY <1>5, <1>6, <4>2, <5>1
      <4>3. CASE f.op # o
        <5>1. \A i \in 1 .. Len(cq) : i \in 1 .. Len(cq')
          BY <1>6
        <5> QED BY <1>1, <1>6, <4>1, <4>3, <5>1
      <4> QED BY <4>2, <4>3
    <3> QED BY <3>1, <3>2, <3>3, <3>4, <3>5, <3>6, <3>7 DEF Correspondence, InUse
  <2>5. CountsExact'
    BY <1>1, <1>8, <2>1 DEF CountsExact
  <2>6. Requests'
    BY <1>1, <1>8, <2>1 DEF Requests, CountsExact, InUse
  <2> QED BY <2>2, <2>3, <2>4, <2>5, <2>6
<1>11. EventsMatch' /\ (~spoiled' => status' # "crashed")
  BY <1>1 DEF IndInv, EventsMatch
<1> QED BY <1>7, <1>8, <1>9, <1>10, <1>11 DEF IndInv

(* Starting an operation preserves the invariant: the structure was in no  *)
(* use, so that no request of the system names it.                         *)
LEMMA StartKeepsIndInv ==
    ASSUME IndInv, NEW h \in handles, NEW type \in OpTypes, Start(h, type)
    PROVE  IndInv'
<1>0. AsyncTypes /\ CountsCovered
  BY DEF IndInv
<1>1. PICK r \in Res, op \in Ops, acc \in Int, sqe \in Entry : Begins(h, type, r, op, acc, sqe)
  BY <1>0, StartEffect
<1> USE DEF Begins
<1>a. /\ starts' = starts + 1 /\ starts < MaxStarts /\ platform' = platform /\ cq' = cq
      /\ opens' = opens /\ handles' = handles /\ shut' = shut /\ ev' = ev /\ ended' = ended
      /\ status' = status
  BY <1>1
<1>b. /\ \A q \in Res : q # r => res'[q] = res[q]
      /\ res'[r].pending = res[r].pending + 1
  BY <1>1
<1>2. starts \in Nat /\ MaxStarts \in Nat
  BY <1>0, AsyncAssumption DEF AsyncTypes
<1>3. /\ begun' \in Seq([handle : Handle, type : OpTypes]) /\ Len(begun') = starts'
      /\ begun'[starts + 1] = [handle |-> handle_from_res(r), type |-> type]
      /\ \A i \in 1 .. starts : begun'[i] = begun[i]
  <2>1. [handle |-> h.handle, type |-> type] \in [handle : Handle, type : OpTypes]
    BY <1>0 DEF AsyncTypes
  <2>2. begun \in Seq([handle : Handle, type : OpTypes]) /\ Len(begun) = starts
    BY <1>0 DEF AsyncTypes
  <2> QED BY <1>1, <2>1, <2>2
<1>4. AsyncTypes'
  <2>1. /\ sq' \in Seq(Entry) /\ flight' \in SUBSET Entry /\ IsFiniteSet(flight')
        /\ Len(sq') + Cardinality(flight') <= Len(sq) + Cardinality(flight) + 1
    <3>1. sq \in Seq(Entry) /\ Len(sq) \in Nat /\ flight \in SUBSET Entry
      BY <1>0 DEF AsyncTypes
    <3>2. ASSUME NEW e PROVE /\ IsFiniteSet(flight \cup {e})
                             /\ Cardinality(flight \cup {e}) <= Cardinality(flight) + 1
                             /\ Cardinality(flight) \in Nat /\ Cardinality(flight \cup {e}) \in Nat
      <4>1. IsFiniteSet(flight)
        BY <1>0 DEF AsyncTypes
      <4>2. IsFiniteSet(flight \cup {e})
        BY <4>1, FS_AddElement
      <4>3. \/ Cardinality(flight \cup {e}) = Cardinality(flight)
            \/ Cardinality(flight \cup {e}) = Cardinality(flight) + 1
        BY <4>1, FS_AddElement
      <4>4. Cardinality(flight) \in Nat /\ Cardinality(flight \cup {e}) \in Nat
        BY <4>1, <4>2, FS_CardinalityType
      <4> QED BY <4>2, <4>3, <4>4
    <3>3. CASE sq # <<>> /\ sq' = Tail(Append(sq, sqe)) /\ flight' = flight \cup {Head(sq)}
      <4>1. sq' \in Seq(Entry) /\ Len(sq') = Len(sq) /\ Head(sq) \in Entry
        <5>1. sqe \in Entry /\ sq # <<>> /\ sq' = Tail(Append(sq, sqe))
          BY <1>1, <3>3
        <5>2. Append(sq, sqe) \in Seq(Entry) /\ Append(sq, sqe) # <<>> /\ Len(Append(sq, sqe)) = Len(sq) + 1
          BY <3>1, <5>1
        <5>3. Tail(Append(sq, sqe)) \in Seq(Entry) /\ Len(Tail(Append(sq, sqe))) = Len(sq)
          BY <3>1, <5>2
        <5>4. Head(sq) \in Entry
          BY <3>1, <5>1
        <5> QED BY <5>1, <5>3, <5>4
      <4>2. flight' \in SUBSET Entry
        BY <3>1, <3>3, <4>1
      <4>3. /\ IsFiniteSet(flight') /\ Cardinality(flight') <= Cardinality(flight) + 1
            /\ Cardinality(flight) \in Nat /\ Cardinality(flight') \in Nat
        BY <3>2, <3>3
      <4> QED BY <3>1, <4>1, <4>2, <4>3
    <3>4. CASE sq' = sq /\ flight' = flight \cup {sqe}
      <4>1. sq' = sq /\ flight' \in SUBSET Entry
        BY <3>1, <3>4
      <4>2. /\ IsFiniteSet(flight') /\ Cardinality(flight') <= Cardinality(flight) + 1
            /\ Cardinality(flight) \in Nat /\ Cardinality(flight') \in Nat
        BY <3>2, <3>4
      <4> QED BY <3>1, <4>1, <4>2
    <3> QED BY <1>1, <3>3, <3>4
  <2>2. Cardinality(flight) \in Nat /\ Len(ended) \in Nat /\ Len(cq) \in Nat /\ Len(sq) \in Nat
    BY <1>0, FS_CardinalityType DEF AsyncTypes
  <2>3. Cardinality(flight') \in Nat /\ Len(sq') \in Nat
    BY <2>1, FS_CardinalityType
  <2>4. Len(ended') + Len(cq') + Len(sq') + Cardinality(flight') <= starts'
    BY <1>0, <1>1, <1>2, <2>1, <2>2, <2>3 DEF AsyncTypes
  <2>5. fds' \in SUBSET Nat /\ IsFiniteSet(fds')
    <3>1. IsFiniteSet(fds \cup {acc})
      BY <1>0, FS_AddElement DEF AsyncTypes
    <3> QED BY <1>0, <1>1, <3>1 DEF AsyncTypes
  <2>6. starts' \in 0 .. MaxStarts
    BY <1>1, <1>2
  <2> QED BY <1>0, <1>1, <1>3, <2>1, <2>4, <2>5, <2>6 DEF AsyncTypes
<1>5. /\ \A o \in Ops : o # op => ops'[o] = ops[o]
      /\ ops'[op] = [type |-> type, res |-> r, user |-> starts + 1, accepted |-> acc]
      /\ ops'[op].type = type /\ ops'[op].res = r /\ ops'[op].user = starts + 1
      /\ ops'[op].accepted = acc /\ type # "VOID"
  BY <1>0, <1>1 DEF AsyncTypes, OpTypes
<1>6. \A q \in Res : /\ res'[q].type = res[q].type /\ res'[q].fd = res[q].fd
                     /\ res'[q].gen = res[q].gen /\ res'[q].callback = res[q].callback
                     /\ handle_from_res(q)' = handle_from_res(q)
  BY <1>1 DEF handle_from_res
<1>7. \A q \in Res : q # r => UsedBy(q)' = UsedBy(q)
  BY <1>1, <1>5 DEF UsedBy
<1>8. UsedBy(r)' = UsedBy(r) \cup {op} /\ op \notin UsedBy(r)
  BY <1>1, <1>5 DEF UsedBy
<1>9. Cardinality(UsedBy(r)') = Cardinality(UsedBy(r)) + 1
  BY <1>8, UsedFinite, FS_AddElement
<1>10. \A q \in Res : Cardinality(UsedBy(q)) \in Nat /\ res[q].pending \in Int
  BY <1>0, UsedFinite, HandleType DEF Resource
<1>11. CountsCovered'
  <2> SUFFICES ASSUME NEW q \in Res PROVE res'[q].pending <= Cardinality(UsedBy(q)')
    BY DEF CountsCovered
  <2>1. res[q].pending <= Cardinality(UsedBy(q))
    BY <1>0 DEF CountsCovered
  <2>2. CASE q = r
    BY <1>b, <1>9, <1>10, <2>1, <2>2
  <2>3. CASE q # r
    BY <1>1, <1>7, <2>1, <2>3
  <2> QED BY <2>2, <2>3
<1>12. ASSUME Clean' PROVE Descriptors' /\ Generations' /\ Correspondence' /\ CountsExact' /\ Requests'
  <2>0. Clean /\ h.kind # "STRAY"
    BY <1>1, <1>12 DEF Clean, Running
  <2>1. Descriptors /\ Generations /\ Correspondence /\ CountsExact /\ Requests
    BY <2>0 DEF IndInv
  <2>2. Descriptors'
    <3>1. \A q \in Res : IF res'[q].type = "VOID" THEN res'[q].fd = NoFd ELSE res'[q].fd \in fds'
      BY <1>1, <1>6, <2>1 DEF Descriptors
    <3>2. \A p, q \in Res : p # q /\ res'[p].fd = res'[q].fd => res'[p].type = "VOID"
      BY <1>6, <2>1 DEF Descriptors
    <3>3. ASSUME Windows' PROVE Windows /\ (type = "ACCEPT" => acc \in Nat /\ acc \notin fds /\ acc \in fds')
      BY <1>1, <3>3 DEF Windows
    <3>4. ASSUME Windows', NEW o \in Ops, ops'[o].type = "ACCEPT"
          PROVE  ops'[o].accepted \in fds' /\ \A q \in Res : res'[q].fd # ops'[o].accepted
      <4>1. CASE o = op
        <5>1. acc \in Nat /\ acc \notin fds /\ acc \in fds' /\ ops'[o].accepted = acc
          BY <1>5, <3>3, <3>4, <4>1
        <5>2. \A q \in Res : res[q].fd # acc
          BY <2>1, <5>1 DEF Descriptors, NoFd
        <5> QED BY <1>6, <5>1, <5>2
      <4>2. CASE o # op
        BY <1>1, <1>5, <1>6, <2>1, <3>3, <3>4, <4>2 DEF Descriptors
      <4> QED BY <4>1, <4>2
    <3>5. ASSUME Windows', NEW o \in Ops, NEW p \in Ops, o # p,
                 ops'[o].type = "ACCEPT", ops'[p].type = "ACCEPT"
          PROVE  ops'[o].accepted # ops'[p].accepted
      <4>1. \A x \in Ops : x # op /\ ops'[x].type = "ACCEPT" => ops'[x].accepted \in fds
        BY <1>5, <2>1, <3>3, <3>5 DEF Descriptors
      <4>2. ops'[op].type = "ACCEPT" => ops'[op].accepted \notin fds
        BY <1>5, <3>3, <3>5
      <4>3. CASE o # op /\ p # op
        BY <1>5, <2>1, <3>3, <3>5, <4>3 DEF Descriptors
      <4> QED BY <3>5, <4>1, <4>2, <4>3
    <3> QED BY <3>1, <3>2, <3>4, <3>5 DEF Descriptors
  <2>3. Generations'
    BY <1>a, <1>6, <2>1 DEF Generations
  <2>4. Correspondence'
    <3>1. sq' = <<>> /\ flight' = flight \cup {sqe} /\ cq' = cq
      BY <1>1, <2>1 DEF Correspondence
    <3>2. \A g \in flight : g.op \in Ops /\ g.op # op
      BY <1>0, <1>1, <2>1 DEF Correspondence, InUse, AsyncTypes, Entry
    <3>3. \A i \in 1 .. Len(cq) : cq[i].op \in Ops /\ cq[i].op # op
      <4>1. \A i \in 1 .. Len(cq) : cq[i].op \in Ops
        <5>1. cq \in Seq(Completion)
          BY <1>0 DEF AsyncTypes
        <5>2. \A i \in 1 .. Len(cq) : cq[i] \in Completion
          BY <5>1
        <5> QED BY <5>2 DEF Completion
      <4>2. ops[op].type = "VOID"
        BY <1>1
      <4> QED BY <2>1, <4>1, <4>2 DEF Correspondence, InUse
    <3>4. \A g \in flight' : ops'[g.op].type # "VOID" /\ ops'[g.op].user = g.n
      BY <1>1, <1>5, <2>1, <3>1, <3>2 DEF Correspondence, InUse
    <3>5. \A i \in 1 .. Len(cq') : ops'[cq'[i].op].type # "VOID" /\ ops'[cq'[i].op].user = cq'[i].n
      BY <1>5, <2>1, <3>1, <3>3 DEF Correspondence, InUse
    <3>6. \A g, k \in flight' : g.op = k.op => g = k
      BY <1>1, <2>1, <3>1, <3>2 DEF Correspondence
    <3>7. \A i, j \in 1 .. Len(cq') : cq'[i].op = cq'[j].op => i = j
      BY <2>1, <3>1 DEF Correspondence
    <3>8. \A g \in flight', i \in 1 .. Len(cq') : g.op # cq'[i].op
      BY <1>1, <2>1, <3>1, <3>3 DEF Correspondence
    <3>9. ASSUME NEW o \in Ops, ops'[o].type # "VOID"
          PROVE  (\E g \in flight' : g.op = o) \/ (\E i \in 1 .. Len(cq') : cq'[i].op = o)
      BY <1>1, <1>5, <2>1, <3>1, <3>9 DEF Correspondence, InUse
    <3> QED BY <3>1, <3>4, <3>5, <3>6, <3>7, <3>8, <3>9 DEF Correspondence, InUse
  <2>5. CountsExact'
    <3>1. \A q \in Res : res'[q].pending = Cardinality(UsedBy(q)')
      BY <1>1, <1>7, <1>9, <2>1 DEF CountsExact
    <3>2. res[r].type # "VOID"
      <4>1. h.handle.idx = r /\ h.handle.gen = res[r].gen
        BY <1>1 DEF handle_from_res
      <4> QED BY <2>0, <2>1, <4>1 DEF Generations
    <3>3. \A q \in Res : res'[q].type = "VOID" => res'[q].pending = 0
      BY <1>1, <1>6, <2>1, <3>2 DEF CountsExact
    <3>4. \A o \in Ops : ops'[o].type # "VOID" => ops'[o].res \in Res
      BY <1>5, <2>1 DEF CountsExact, InUse
    <3> QED BY <3>1, <3>3, <3>4 DEF CountsExact, InUse
  <2>6. Requests'
    <3>1. ASSUME NEW o \in Ops, ops'[o].type # "VOID"
          PROVE  /\ ops'[o].user \in 1 .. starts'
                 /\ \A i \in 1 .. Len(ended') : ended'[i] # ops'[o].user
                 /\ begun'[ops'[o].user] =
                      [handle |-> [idx |-> ops'[o].res, gen |-> res'[ops'[o].res].gen],
                       type |-> ops'[o].type]
      <4>1. CASE o = op
        <5>1. \A i \in 1 .. Len(ended) : ended[i] # starts + 1
          BY <1>2, <2>1 DEF Requests
        <5>2. starts + 1 \in 1 .. starts'
          BY <1>1, <1>2
        <5>3. begun'[starts + 1] = [handle |-> [idx |-> r, gen |-> res'[r].gen], type |-> type]
          BY <1>3, <1>6 DEF handle_from_res
        <5> QED BY <1>a, <1>5, <4>1, <5>1, <5>2, <5>3
      <4>2. CASE o # op
        <5>1. /\ ops[o].user \in 1 .. starts /\ ops[o].res \in Res
              /\ \A i \in 1 .. Len(ended) : ended[i] # ops[o].user
              /\ begun[ops[o].user] = [handle |-> handle_from_res(ops[o].res), type |-> ops[o].type]
          BY <1>5, <2>1, <3>1, <4>2 DEF Requests, CountsExact, InUse
        <5>2. ops[o].user \in 1 .. starts'
          BY <1>1, <1>2, <5>1
        <5>3. ops'[o] = ops[o] /\ ended' = ended
          BY <1>a, <1>5, <4>2
        <5>5. begun'[ops[o].user] = begun[ops[o].user]
          BY <1>3, <5>1
        <5>6. ops'[o].res = ops[o].res /\ ops'[o].user = ops[o].user /\ ops'[o].type = ops[o].type
          BY <5>3
        <5>7. begun[ops[o].user] =
                 [handle |-> [idx |-> ops[o].res, gen |-> res'[ops[o].res].gen], type |-> ops[o].type]
          BY <1>6, <5>1 DEF handle_from_res
        <5>8. begun'[ops'[o].user] =
                 [handle |-> [idx |-> ops'[o].res, gen |-> res'[ops'[o].res].gen], type |-> ops'[o].type]
          BY <5>5, <5>6, <5>7
        <5> QED BY <5>1, <5>2, <5>3, <5>6, <5>8
      <4> QED BY <4>1, <4>2
    <3>2. \A o \in Ops : o # op /\ ops'[o].type # "VOID" => ops'[o].user # starts + 1
      <4> SUFFICES ASSUME NEW o \in Ops, o # op, ops'[o].type # "VOID" PROVE ops'[o].user # starts + 1
        OBVIOUS
      <4>1. ops'[o] = ops[o]
        BY <1>5
      <4>2. ops[o].user \in 1 .. starts
        BY <2>1, <4>1 DEF Requests, InUse
      <4> QED BY <1>2, <4>1, <4>2
    <3>3. \A o, p \in Ops : o # p /\ ops'[o].type # "VOID" /\ ops'[p].type # "VOID"
                                => ops'[o].user # ops'[p].user
      BY <1>5, <2>1, <3>2 DEF Requests, InUse
    <3>4. \A i \in 1 .. Len(ended') : ended'[i] \in 1 .. starts'
      BY <1>1, <1>2, <2>1 DEF Requests
    <3>5. \A q \in Res : res'[q].callback \in {NoCallback, handle_from_res(q)'}
      BY <1>6, <2>1 DEF Requests
    <3> QED BY <3>1, <3>3, <3>4, <3>5, Zenon DEF Requests, InUse, handle_from_res
  <2> QED BY <2>2, <2>3, <2>4, <2>5, <2>6
<1>13. EventsMatch'
  <2> SUFFICES ASSUME ~spoiled', ended' # <<>>
               PROVE  /\ IsInjective(ended') /\ ev'.user \in DOMAIN begun'
                      /\ begun'[ev'.user] = [handle |-> ev'.handle, type |-> ev'.optype]
                      /\ ev'.to \in {NoCallback, ev'.handle}
    BY DEF EventsMatch
  <2>1. /\ IsInjective(ended) /\ ev.user \in DOMAIN begun
        /\ begun[ev.user] = [handle |-> ev.handle, type |-> ev.optype]
        /\ ev.to \in {NoCallback, ev.handle}
    BY <1>1 DEF IndInv, EventsMatch
  <2>2. DOMAIN begun = 1 .. starts /\ DOMAIN begun' = 1 .. starts + 1
    BY <1>0, <1>1, <1>3 DEF AsyncTypes
  <2>3. ev.user \in 1 .. starts /\ ev.user \in 1 .. starts + 1
    BY <1>2, <2>1, <2>2
  <2>4. ev' = ev /\ ended' = ended
    BY <1>1
  <2> QED BY <1>3, <2>1, <2>2, <2>3, <2>4, Zenon
<1>14. ~spoiled' => status' # "crashed"
  BY <1>1 DEF IndInv
<1> QED BY <1>4, <1>11, <1>12, <1>13, <1>14 DEF IndInv

(* Closing clears the slots and moves them to their next generation; the   *)
(* operations it marks are on those resources.                             *)
LEMMA CloseEffect ==
    ASSUME AsyncTypes, NEW rs \in SUBSET Res, close_internal(rs)
    PROVE  /\ res' \in [Res -> Resource] /\ ops' \in [Ops -> Operation]
           /\ fds' = fds \ {res[r].fd : r \in rs} /\ fds' \in SUBSET Nat /\ IsFiniteSet(fds')
           /\ \A q \in Res \ rs : res'[q] = res[q] /\ UsedBy(q)' = UsedBy(q)
           /\ \A q \in rs : /\ res'[q].type = "VOID" /\ res'[q].pending = 0
                            /\ res'[q].fd = NoFd /\ res'[q].callback = NoCallback
                            /\ res'[q].gen = NextGen(res[q].gen)
           /\ \A o \in Ops : (\E r \in rs : o \in Marked(r)) \/ ops'[o] = ops[o]
<1>1. /\ res' = [r \in Res |->
                   IF r \in rs
                   THEN [clear_res(res[r]) EXCEPT !.gen = NextGen(res[r].gen)]
                   ELSE res[r]]
      /\ ops' = [o \in Ops |-> IF \E r \in rs : o \in Marked(r)
                               THEN [ops[o] EXCEPT !.type = "VOID", !.res = NoRes]
                               ELSE ops[o]]
      /\ fds' = fds \ {res[r].fd : r \in rs}
  BY DEF close_internal
<1>2. ASSUME NEW q \in rs
      PROVE  /\ res'[q] \in Resource
             /\ res'[q].type = "VOID" /\ res'[q].pending = 0
             /\ res'[q].fd = NoFd /\ res'[q].callback = NoCallback
             /\ res'[q].gen = NextGen(res[q].gen)
  <2>1. q \in Res /\ res[q] \in Resource /\ res[q].gen \in Nat
    BY HandleType
  <2>2. NextGen(res[q].gen) \in Nat
    BY <2>1 DEF NextGen
  <2>3. res'[q] = [clear_res(res[q]) EXCEPT !.gen = NextGen(res[q].gen)]
    BY <1>1, <2>1
  <2>4. res[q] = [type |-> res[q].type, pending |-> res[q].pending, gen |-> res[q].gen,
                  fd |-> res[q].fd, callback |-> res[q].callback]
    BY <2>1 DEF Resource
  <2>5. res'[q] = [type |-> "VOID", pending |-> 0, gen |-> NextGen(res[q].gen),
                   fd |-> NoFd, callback |-> NoCallback]
    BY <2>3, <2>4 DEF clear_res
  <2>6. NoFd \in Int /\ NoCallback \in [idx : Int, gen : Nat]
    BY DEF NoFd, NoCallback
  <2> HIDE DEF NextGen
  <2> QED BY <2>2, <2>5, <2>6 DEF Resource
<1>3. \A q \in Res \ rs : res'[q] = res[q]
  BY <1>1
<1>4. \A q \in Res : res'[q] \in Resource
  BY <1>2, <1>3 DEF AsyncTypes
<1>5. res' \in [Res -> Resource]
  BY <1>1, <1>4
<1>6. ASSUME NEW o \in Ops
      PROVE  /\ ops'[o] \in Operation
             /\ \/ \E r \in rs : o \in Marked(r) /\ ops'[o].type = "VOID"
                \/ ops'[o] = ops[o]
  <2>1. ops[o] \in Operation
    BY DEF AsyncTypes
  <2>2. [ops[o] EXCEPT !.type = "VOID", !.res = NoRes] \in Operation
    BY <2>1 DEF Operation
  <2>3. [ops[o] EXCEPT !.type = "VOID", !.res = NoRes].type = "VOID"
    BY <2>1 DEF Operation
  <2> QED BY <1>1, <2>1, <2>2, <2>3
<1>7. ops' \in [Ops -> Operation]
  BY <1>1, <1>6
<1>8. ASSUME NEW q \in Res \ rs PROVE UsedBy(q)' = UsedBy(q)
  <2>1. ASSUME NEW o \in UsedBy(q), NEW r \in rs PROVE o \notin Marked(r)
    BY <2>1 DEF UsedBy, Marked
  <2>2. \A o \in Ops : ops'[o].type # "VOID" => ops'[o] = ops[o]
    BY <1>6
  <2>3. \A o \in UsedBy(q) : o \in Ops /\ ops'[o] = ops[o]
    BY <1>6, <2>1 DEF UsedBy
  <2> QED BY <2>2, <2>3 DEF UsedBy
<1>9. fds' \in SUBSET Nat /\ IsFiniteSet(fds')
  <2>1. fds' \in SUBSET fds
    BY <1>1
  <2>2. fds \in SUBSET Nat /\ IsFiniteSet(fds)
    BY DEF AsyncTypes
  <2> QED BY <2>1, <2>2, FS_Subset
<1> QED BY <1>1, <1>2, <1>3, <1>5, <1>6, <1>7, <1>8, <1>9

(* Closing keeps every count covered. *)
LEMMA CloseKeepsCounts ==
    ASSUME AsyncTypes, CountsCovered, NEW rs \in SUBSET Res, close_internal(rs)
    PROVE  CountsCovered'
<1> SUFFICES ASSUME NEW q \in Res PROVE res'[q].pending <= Cardinality(UsedBy(q)')
  BY DEF CountsCovered
<1>1. CASE q \in rs
  <2>1. res'[q].pending = 0
    BY <1>1, CloseEffect
  <2>2. IsFiniteSet(UsedBy(q)')
    <3>1. UsedBy(q)' \in SUBSET Ops
      BY DEF UsedBy
    <3>2. IsFiniteSet(Ops)
      BY FS_Interval, AsyncAssumption DEF Ops
    <3> QED BY <3>1, <3>2, FS_Subset
  <2>3. Cardinality(UsedBy(q)') \in Nat
    BY <2>2, FS_CardinalityType
  <2> QED BY <2>1, <2>3
<1>2. CASE q \notin rs
  <2>1. res'[q] = res[q] /\ UsedBy(q)' = UsedBy(q)
    BY <1>2, CloseEffect
  <2> QED BY <2>1 DEF CountsCovered
<1> QED BY <1>1, <1>2

(* io_free preserves the invariant: nothing is promised afterwards. *)
LEMMA FreeKeepsIndInv ==
    ASSUME IndInv, io_free
    PROVE  IndInv'
<1>0. AsyncTypes /\ CountsCovered
  BY DEF IndInv
<1> DEFINE rs == Res \ UnusedRes
<1>1. /\ close_internal(rs) /\ status' = "freed" /\ rs \in SUBSET Res
      /\ UNCHANGED <<platform, sq, flight, cq, opens, starts, handles, shut, begun, spoiled, ev, ended>>
  BY DEF io_free, system, counters, ghosts, events
<1> HIDE DEF rs
<1>2. CountsCovered'
  BY <1>0, <1>1, CloseKeepsCounts
<1>3. /\ res' \in [Res -> Resource] /\ ops' \in [Ops -> Operation]
      /\ fds' \in SUBSET Nat /\ IsFiniteSet(fds')
  BY <1>0, <1>1, CloseEffect
<1>4. AsyncTypes'
  BY <1>0, <1>1, <1>3 DEF AsyncTypes
<1>5. ~Clean' /\ status' # "crashed"
  BY <1>1 DEF Clean, Running
<1>6. EventsMatch'
  BY <1>1 DEF IndInv, EventsMatch
<1> QED BY <1>2, <1>4, <1>5, <1>6 DEF IndInv

(* io_close preserves the invariant: unless it spoils the context, nothing *)
(* is under way on the resource, and its slot was closed less often than   *)
(* generations can tell apart.                                             *)
LEMMA CloseKeepsIndInv ==
    ASSUME IndInv, NEW h \in handles, io_close(h)
    PROVE  IndInv'
<1>0. AsyncTypes /\ CountsCovered /\ h.handle \in Handle
  BY DEF IndInv, AsyncTypes
<1>1. /\ res_from_handle(h.handle) # NoRes /\ Running
      /\ close_internal({res_from_handle(h.handle)})
      /\ shut' = shut \cup {h.handle}
      /\ ~spoiled' => ~spoiled /\ ~Spoiling(h)
      /\ platform' = platform /\ sq' = sq /\ flight' = flight /\ cq' = cq /\ opens' = opens
      /\ starts' = starts /\ handles' = handles /\ begun' = begun /\ ev' = ev /\ ended' = ended
      /\ status' = status
  BY DEF io_close, system, counters, events
<1>2. PICK r \in Res : r = res_from_handle(h.handle) /\ h.handle = handle_from_res(r)
  BY <1>0, <1>1, HandleNames
<1>3. close_internal({r}) /\ {r} \in SUBSET Res
  BY <1>1, <1>2
<1>4. CountsCovered'
  BY <1>0, <1>3, CloseKeepsCounts
<1>5. /\ res' \in [Res -> Resource] /\ ops' \in [Ops -> Operation]
      /\ fds' = fds \ {res[r].fd} /\ fds' \in SUBSET Nat /\ IsFiniteSet(fds')
      /\ \A q \in Res : q # r => res'[q] = res[q] /\ UsedBy(q)' = UsedBy(q)
      /\ res'[r].type = "VOID" /\ res'[r].pending = 0
      /\ res'[r].fd = NoFd /\ res'[r].callback = NoCallback
      /\ res'[r].gen = NextGen(res[r].gen)
      /\ \A o \in Ops : o \in Marked(r) \/ ops'[o] = ops[o]
  <2>1. {res[q].fd : q \in {r}} = {res[r].fd}
    OBVIOUS
  <2> QED BY <1>0, <1>3, <2>1, CloseEffect
<1>6. AsyncTypes'
  BY <1>0, <1>1, <1>5 DEF AsyncTypes
<1>7. ASSUME Clean' PROVE Descriptors' /\ Generations' /\ Correspondence' /\ CountsExact' /\ Requests'
  <2>0. Clean /\ h.kind # "STRAY" /\ ~(res[r].pending > 0)
    BY <1>1, <1>2, <1>7 DEF Clean, Running, Spoiling
  <2>1. Descriptors /\ Generations /\ Correspondence /\ CountsExact /\ Requests
    BY <2>0 DEF IndInv
  <2>2. UsedBy(r) = {} /\ res[r].pending = 0
    <3>1. Cardinality(UsedBy(r)) \in Nat /\ IsFiniteSet(UsedBy(r))
      BY UsedFinite
    <3>2. res[r].pending = Cardinality(UsedBy(r))
      BY <2>1 DEF CountsExact
    <3>3. Cardinality(UsedBy(r)) = 0
      BY <2>0, <3>1, <3>2
    <3> QED BY <3>1, <3>2, <3>3, FS_EmptySet
  <2>3. ops' = ops
    <3>1. Marked(r) = {}
      BY <2>2 DEF Marked
    <3>2. \A o \in Ops : ops'[o] = ops[o]
      BY <1>5, <3>1
    <3>3. ops \in [Ops -> Operation] /\ ops' \in [Ops -> Operation]
      BY <1>0, <1>5 DEF AsyncTypes
    <3> QED BY <3>2, <3>3
  <2>4. UsedBy(r)' = {}
    BY <2>2, <2>3 DEF UsedBy
  <2>5. h.handle.idx = r /\ h.handle.gen = res[r].gen
    BY <1>2 DEF handle_from_res
  <2>6. res[r].type # "VOID" /\ res[r].gen \in Nat
    BY <1>0, <2>0, <2>1, <2>5, HandleType DEF Generations
  <2>7. /\ res'[r].gen = res[r].gen + 1 /\ res[r].gen + 1 <= opens + Len(ended)
    <3>1. opens \in 0 .. MaxOpens /\ Len(ended) \in Nat /\ starts \in 0 .. MaxStarts
      BY <1>0 DEF AsyncTypes
    <3>2. Len(ended) <= starts
      <4>1. Len(cq) \in Nat /\ Len(sq) \in Nat /\ Cardinality(flight) \in Nat
        BY <1>0, FS_CardinalityType DEF AsyncTypes
      <4>2. Len(ended) + Len(cq) + Len(sq) + Cardinality(flight) <= starts
        BY <1>0 DEF AsyncTypes
      <4> QED BY <3>1, <4>1, <4>2, AsyncAssumption
    <3>3. res[r].gen + 1 <= opens + Len(ended)
      BY <2>1, <2>6 DEF Generations
    <3>4. res[r].gen + 1 # GenLimit
      BY <2>6, <3>1, <3>2, <3>3, AsyncAssumption
    <3> QED BY <1>5, <3>3, <3>4 DEF NextGen
  <2>8. Descriptors'
    <3>1. \A q \in Res : IF res'[q].type = "VOID" THEN res'[q].fd = NoFd ELSE res'[q].fd \in fds'
      BY <1>5, <2>1, <2>6 DEF Descriptors
    <3>2. \A q \in Res : q # r /\ res'[q].type # "VOID" => res'[q].fd # NoFd
      BY <1>0, <1>5, <2>1 DEF Descriptors, AsyncTypes, NoFd
    <3>3. \A p, q \in Res : p # q /\ res'[p].fd = res'[q].fd => res'[p].type = "VOID"
      BY <1>5, <2>1, <3>2 DEF Descriptors
    <3>4. ASSUME Windows', NEW o \in Ops, ops'[o].type = "ACCEPT"
          PROVE  ops'[o].accepted \in fds' /\ \A q \in Res : res'[q].fd # ops'[o].accepted
      <4>1. /\ ops[o].accepted \in fds /\ \A q \in Res : res[q].fd # ops[o].accepted
        BY <1>1, <2>1, <2>3, <3>4 DEF Descriptors, Windows
      <4>2. ops[o].accepted # NoFd
        BY <1>0, <4>1 DEF AsyncTypes, NoFd
      <4> QED BY <1>5, <2>3, <4>1, <4>2
    <3>5. ASSUME Windows'
          PROVE  \A o, p \in Ops :
                    o # p /\ ops'[o].type = "ACCEPT" /\ ops'[p].type = "ACCEPT" =>
                        ops'[o].accepted # ops'[p].accepted
      BY <1>1, <2>1, <2>3, <3>5 DEF Descriptors, Windows
    <3> QED BY <3>1, <3>3, <3>4, <3>5 DEF Descriptors
  <2>9. Generations'
    <3>0. \A q \in Res : res[q].gen \in Nat
      BY <1>0, HandleType
    <3>1. \A q \in Res : res'[q].gen + (IF res'[q].type = "VOID" THEN 0 ELSE 1) <= opens' + Len(ended')
      <4> SUFFICES ASSUME NEW q \in Res
                   PROVE res'[q].gen + (IF res'[q].type = "VOID" THEN 0 ELSE 1) <= opens' + Len(ended')
        OBVIOUS
      <4>1. CASE q = r
        BY <1>1, <1>5, <2>6, <2>7, <4>1
      <4>2. CASE q # r
        BY <1>1, <1>5, <2>1, <4>2 DEF Generations
      <4> QED BY <4>1, <4>2
    <3>2. ASSUME NEW s \in shut' PROVE s.idx \in Res /\ s.gen < res'[s.idx].gen
      <4>1. CASE s = h.handle
        BY <2>5, <2>6, <2>7, <4>1
      <4>2. CASE s \in shut
        <5>1. s.idx \in Res /\ s.gen < res[s.idx].gen /\ s.gen \in Nat
          BY <1>0, <2>1, <4>2 DEF Generations, AsyncTypes, Handle
        <5>2. CASE s.idx = r
          BY <2>6, <2>7, <5>1, <5>2
        <5>3. CASE s.idx # r
          BY <1>5, <5>1, <5>3
        <5> QED BY <5>2, <5>3
      <4> QED BY <1>1, <4>1, <4>2
    <3>3. ASSUME NEW g \in handles', g.kind # "STRAY"
          PROVE  /\ g.handle.idx \in Res
                 /\ g.handle.gen <= res'[g.handle.idx].gen
                 /\ g.handle.gen < res'[g.handle.idx].gen => g.handle \in shut'
                 /\ g.handle.gen = res'[g.handle.idx].gen =>
                       res'[g.handle.idx].type # "VOID" /\ res'[g.handle.idx].fd = g.fd
      <4>1. /\ g.handle.idx \in Res
            /\ g.handle.gen <= res[g.handle.idx].gen
            /\ g.handle.gen < res[g.handle.idx].gen => g.handle \in shut
            /\ g.handle.gen = res[g.handle.idx].gen =>
                  res[g.handle.idx].type # "VOID" /\ res[g.handle.idx].fd = g.fd
        BY <1>1, <2>1, <3>3 DEF Generations
      <4>2. g.handle \in Handle /\ g.handle.gen \in Nat
        BY <1>0, <1>1, <3>3 DEF AsyncTypes, Handle
      <4>3. CASE g.handle.idx = r
        <5>1. g.handle.gen < res'[r].gen
          BY <2>6, <2>7, <4>1, <4>2, <4>3
        <5>2. g.handle \in shut'
          <6>1. CASE g.handle.gen = res[r].gen
            <7>1. g.handle = h.handle
              BY <1>0, <2>5, <4>2, <4>3, <6>1 DEF Handle
            <7> QED BY <1>1, <7>1
          <6>2. CASE g.handle.gen # res[r].gen
            BY <1>1, <2>6, <4>1, <4>2, <4>3, <6>2
          <6> QED BY <6>1, <6>2
        <5> QED BY <2>6, <2>7, <4>1, <4>2, <4>3, <5>1, <5>2
      <4>4. CASE g.handle.idx # r
        BY <1>1, <1>5, <4>1, <4>4
      <4> QED BY <4>3, <4>4
    <3> QED BY <3>1, <3>2, <3>3 DEF Generations
  <2>10. Correspondence'
    BY <1>1, <2>1, <2>3 DEF Correspondence, InUse
  <2>11. CountsExact'
    <3>1. Cardinality(UsedBy(r)') = 0
      BY <2>4, FS_EmptySet
    <3> QED BY <1>5, <2>1, <2>3, <3>1 DEF CountsExact, InUse
  <2>12. Requests'
    <3>1. \A o \in Ops : ops[o].type # "VOID" => ops[o].res \in Res /\ ops[o].res # r
      BY <2>1, <2>2 DEF CountsExact, UsedBy, InUse
    <3>2. ASSUME NEW o \in Ops, ops[o].type # "VOID"
          PROVE  /\ ops[o].user \in 1 .. starts
                 /\ \A i \in 1 .. Len(ended) : ended[i] # ops[o].user
                 /\ begun[ops[o].user] =
                      [handle |-> [idx |-> ops[o].res, gen |-> res'[ops[o].res].gen],
                       type |-> ops[o].type]
      <4>1. res'[ops[o].res] = res[ops[o].res]
        BY <1>5, <3>1, <3>2
      <4> QED BY <2>1, <3>2, <4>1 DEF Requests, InUse, handle_from_res
    <3>3. \A o, p \in Ops : o # p /\ ops[o].type # "VOID" /\ ops[p].type # "VOID"
                                => ops[o].user # ops[p].user
      BY <2>1 DEF Requests, InUse
    <3>4. \A i \in 1 .. Len(ended) : ended[i] \in 1 .. starts
      BY <2>1 DEF Requests
    <3>5. \A q \in Res : res'[q].callback \in {NoCallback, [idx |-> q, gen |-> res'[q].gen]}
      <4> SUFFICES ASSUME NEW q \in Res
                   PROVE  res'[q].callback \in {NoCallback, [idx |-> q, gen |-> res'[q].gen]}
        OBVIOUS
      <4>1. CASE q = r
        BY <1>5, <4>1
      <4>2. CASE q # r
        BY <1>5, <2>1, <4>2 DEF Requests, handle_from_res
      <4> QED BY <4>1, <4>2
    <3> QED BY <1>1, <2>3, <3>2, <3>3, <3>4, <3>5 DEF Requests, InUse, handle_from_res
  <2> QED BY <2>8, <2>9, <2>10, <2>11, <2>12
<1>8. EventsMatch' /\ (~spoiled' => status' # "crashed")
  BY <1>1 DEF IndInv, EventsMatch
<1> QED BY <1>4, <1>6, <1>7, <1>8 DEF IndInv

(* What io_wait does with the operation of a completion c and its          *)
(* resource r: it reports the operation, releases it and counts down.      *)
Reported(c, r) ==
    /\ r \in Res /\ res[r].pending > 0 /\ status' = status
    /\ ops' \in [Ops -> Operation] /\ ops'[c.op].type = "VOID"
    /\ \A o \in Ops : o # c.op => ops'[o] = ops[o]
    /\ ended' = Append(ended, ops[c.op].user)
    /\ ev'.user = ops[c.op].user /\ ev'.optype = ops[c.op].type
    /\ ev'.handle = handle_from_res(r) /\ ev'.to = res[r].callback
    /\ res' \in [Res -> Resource]
    /\ \A q \in Res : res'[q].gen = res[q].gen /\ res'[q].callback = res[q].callback

(* The completion opens nothing; on Windows it may close the socket of an  *)
(* accept, on Linux the caller gets a number that is no handle.            *)
OpensNothing(c, r) ==
    /\ \A q \in Res : /\ q # r => res'[q].pending = res[q].pending
                      /\ res'[q].type = res[q].type /\ res'[q].fd = res[q].fd
    /\ res'[r].pending = res[r].pending - 1
    /\ \/ handles' = handles
       \/ \E num \in Nat : handles' = handles \cup
             {[handle |-> [idx |-> num, gen |-> 0], fd |-> num, kind |-> "STRAY"]}
    /\ \/ fds' = fds
       \/ Windows /\ ops[c.op].type = "ACCEPT" /\ fds' = fds \ {ops[c.op].accepted}

(* On Windows, the completion of an accept opens slot s with the socket;   *)
(* in a spoiled context that may be the slot of the listener.              *)
OpensSlot(c, r, s) ==
    /\ Windows /\ ops[c.op].type = "ACCEPT" /\ res[s].type = "VOID"
    /\ \A q \in Res : q # s => res'[q].type = res[q].type /\ res'[q].fd = res[q].fd
    /\ \A q \in Res : q # s /\ q # r => res'[q].pending = res[q].pending
    /\ res'[s].type = "SOCKET" /\ res'[s].fd = ops[c.op].accepted
    /\ IF s = r THEN res'[s].pending = -1
       ELSE res'[s].pending = 0 /\ res'[r].pending = res[r].pending - 1
    /\ handles' = handles \cup
          {[handle |-> handle_from_res(s), fd |-> ops[c.op].accepted, kind |-> "CONN"]}
    /\ fds' = fds

(* io_wait takes the oldest completion, and fails unless it finds the      *)
(* resource and an operation pending there.                                *)
LEMMA WaitEffect ==
    ASSUME AsyncTypes, io_wait
    PROVE  \E c \in Completion, r \in Res \cup {NoRes} :
      /\ Running /\ cq # <<>> /\ c = Head(cq) /\ cq' = Tail(cq) /\ r = ops[c.op].res
      /\ UNCHANGED <<platform, sq, flight, opens, starts, shut, begun, spoiled>>
      /\ \/ /\ ~(r # NoRes /\ res[r].pending > 0)
            /\ status' = "crashed"
            /\ UNCHANGED <<res, ops, fds, handles, ev, ended>>
         \/ Reported(c, r) /\ (OpensNothing(c, r) \/ \E s \in Res : OpensSlot(c, r, s))
<1> DEFINE c == Head(cq)
           op == c.op
           o == ops[op]
           r == o.res
<1>1. /\ Running /\ cq # <<>> /\ cq' = Tail(cq)
      /\ UNCHANGED <<platform, sq, flight, opens, starts, shut, begun, spoiled>>
      /\ IF r # NoRes /\ res[r].pending > 0
         THEN (IF Linux THEN TakeLinux(c, o) ELSE TakeWindows(c, o)) /\ status' = status
         ELSE status' = "crashed" /\ UNCHANGED <<res, ops, fds, handles, ev, ended>>
  BY DEF io_wait, counters, events
<1>2. c \in Completion /\ op \in Ops
  <2>1. cq \in Seq(Completion) /\ cq # <<>>
    BY <1>1 DEF AsyncTypes
  <2>2. c \in Completion
    BY <2>1
  <2> QED BY <2>2 DEF Completion
<1>3. o \in Operation /\ r \in Res \cup {NoRes} /\ o.accepted \in Int
  BY <1>2 DEF AsyncTypes, Operation
<1> HIDE DEF c
<1>4. CASE ~(r # NoRes /\ res[r].pending > 0)
  BY <1>1, <1>2, <1>3, <1>4 DEF c
<1>5. CASE r # NoRes /\ res[r].pending > 0
  <2>1. r \in Res /\ res[r].pending > 0 /\ status' = status
    BY <1>1, <1>3, <1>5
  <2>2. PICK e : Report(op, o, e)
    <3>1. CASE Linux
      BY <1>1, <1>5, <3>1 DEF TakeLinux
    <3>2. CASE ~Linux
      BY <1>1, <1>5, <3>2 DEF TakeWindows
    <3> QED BY <3>1, <3>2
  <2>3. /\ ops' \in [Ops -> Operation] /\ ops'[op].type = "VOID"
        /\ \A p \in Ops : p # op => ops'[p] = ops[p]
    <3>1. ops' = [ops EXCEPT ![op] = [o EXCEPT !.type = "VOID"]]
      BY <2>2 DEF Report, ReleaseOp
    <3>2. [o EXCEPT !.type = "VOID"] \in Operation /\ [o EXCEPT !.type = "VOID"].type = "VOID"
      BY <1>3 DEF Operation
    <3>3. ops \in [Ops -> Operation]
      BY DEF AsyncTypes
    <3> HIDE DEF op, o
    <3> QED BY <1>2, <3>1, <3>2, <3>3
  <2>4. /\ ended' = Append(ended, o.user)
        /\ ev'.user = o.user /\ ev'.optype = o.type
        /\ ev'.handle = handle_from_res(r) /\ ev'.to = res[r].callback
    BY <2>2 DEF Report
  <2>5. res \in [Res -> Resource] /\ res[r] \in Resource /\ res[r].pending \in Int
    BY <2>1 DEF AsyncTypes, Resource
  <2> DEFINE accepted == ~Linux /\ c.ok /\ o.type = "ACCEPT" /\ UnusedRes # {}
  <2>6. CASE ~accepted
    <3>1. /\ res' = [res EXCEPT ![r] = [res[r] EXCEPT !.pending = res[r].pending - 1]]
          /\ \/ handles' = handles
             \/ handles' = handles \cup
                   {[handle |-> [idx |-> c.num, gen |-> 0], fd |-> c.num, kind |-> "STRAY"]}
          /\ \/ fds' = fds
             \/ Windows /\ o.type = "ACCEPT" /\ fds' = fds \ {o.accepted}
      <4>1. CASE Linux
        BY <1>1, <1>5, <4>1 DEF TakeLinux
      <4>2. CASE ~Linux
        <5>1. Windows
          BY <4>2 DEF Windows, Linux, AsyncTypes
        <5> QED BY <1>1, <1>5, <2>6, <4>2, <5>1 DEF TakeWindows
      <4> QED BY <4>1, <4>2
    <3>2. c.num \in Nat
      BY <1>2 DEF Completion
    <3> HIDE DEF r, o, op, accepted
    <3>3. [res[r] EXCEPT !.pending = res[r].pending - 1] \in Resource
      BY <2>5 DEF Resource
    <3>4. /\ res' \in [Res -> Resource]
          /\ \A q \in Res : q # r => res'[q] = res[q]
          /\ res'[r] = [res[r] EXCEPT !.pending = res[r].pending - 1]
      BY <2>1, <2>5, <3>1, <3>3
    <3>5. /\ res'[r].pending = res[r].pending - 1 /\ res'[r].type = res[r].type
          /\ res'[r].fd = res[r].fd /\ res'[r].gen = res[r].gen
          /\ res'[r].callback = res[r].callback
      BY <2>5, <3>4 DEF Resource
    <3>6. /\ \A q \in Res : res'[q].gen = res[q].gen /\ res'[q].callback = res[q].callback
          /\ \A q \in Res : /\ q # r => res'[q].pending = res[q].pending
                            /\ res'[q].type = res[q].type /\ res'[q].fd = res[q].fd
          /\ res'[r].pending = res[r].pending - 1
      BY <3>4, <3>5
    <3>7. \/ handles' = handles
          \/ \E num \in Nat : handles' = handles \cup
                {[handle |-> [idx |-> num, gen |-> 0], fd |-> num, kind |-> "STRAY"]}
      BY <3>1, <3>2
    <3>8. Reported(c, r)
      BY <2>1, <2>3, <2>4, <3>4, <3>6 DEF Reported, r, o, op
    <3>9. OpensNothing(c, r)
      BY <3>1, <3>6, <3>7 DEF OpensNothing, o, op
    <3> QED BY <1>1, <1>2, <1>3, <3>8, <3>9 DEF r, o, op, c
  <2>7. CASE accepted
    <3> DEFINE s == find_unused_res
               mid == [res EXCEPT ![s] = [res[s] EXCEPT !.type = "SOCKET", !.pending = 0,
                                                        !.fd = o.accepted]]
    <3>1. s \in Res /\ res[s].type = "VOID" /\ Windows
      BY <2>7, UnusedFound DEF Windows, Linux, AsyncTypes
    <3>2. /\ res' = [mid EXCEPT ![r] = [mid[r] EXCEPT !.pending = mid[r].pending - 1]]
          /\ handles' = handles \cup
                {[handle |-> handle_from_res(s), fd |-> o.accepted, kind |-> "CONN"]}
          /\ fds' = fds
      BY <1>1, <1>5, <2>7 DEF TakeWindows, Opened
    <3> HIDE DEF s
    <3>3. [res[s] EXCEPT !.type = "SOCKET", !.pending = 0, !.fd = o.accepted] \in Resource
      <4>1. res[s] \in Resource /\ "SOCKET" \in {"VOID", "FILE", "SOCKET"} /\ 0 \in Int
        BY <2>5, <3>1
      <4> QED BY <1>3, <4>1 DEF Resource
    <3>4. /\ mid \in [Res -> Resource]
          /\ \A q \in Res : q # s => mid[q] = res[q]
          /\ mid[s] = [res[s] EXCEPT !.type = "SOCKET", !.pending = 0, !.fd = o.accepted]
      BY <2>5, <3>1, <3>3
    <3>5. /\ mid[s].type = "SOCKET" /\ mid[s].pending = 0 /\ mid[s].fd = o.accepted
          /\ mid[s].gen = res[s].gen /\ mid[s].callback = res[s].callback
      <4>1. res[s] \in Resource
        BY <2>5, <3>1
      <4> QED BY <3>4, <4>1 DEF Resource
    <3> HIDE DEF mid, r, o, op, accepted
    <3>6. mid[r] \in Resource /\ mid[r].pending \in Int
      BY <2>1, <3>4 DEF Resource
    <3>7. [mid[r] EXCEPT !.pending = mid[r].pending - 1] \in Resource
      BY <3>6 DEF Resource
    <3>8. /\ res' \in [Res -> Resource]
          /\ \A q \in Res : q # r => res'[q] = mid[q]
          /\ res'[r] = [mid[r] EXCEPT !.pending = mid[r].pending - 1]
      BY <2>1, <3>2, <3>4, <3>7
    <3>9. /\ res'[r].pending = mid[r].pending - 1 /\ res'[r].type = mid[r].type
          /\ res'[r].fd = mid[r].fd /\ res'[r].gen = mid[r].gen
          /\ res'[r].callback = mid[r].callback
      BY <3>6, <3>8 DEF Resource
    <3>10. \A q \in Res : res'[q].gen = res[q].gen /\ res'[q].callback = res[q].callback
      <4> SUFFICES ASSUME NEW q \in Res
                   PROVE  res'[q].gen = res[q].gen /\ res'[q].callback = res[q].callback
        OBVIOUS
      <4>1. res'[q].gen = mid[q].gen /\ res'[q].callback = mid[q].callback
        BY <3>8, <3>9
      <4>2. mid[q].gen = res[q].gen /\ mid[q].callback = res[q].callback
        BY <3>4, <3>5
      <4> QED BY <4>1, <4>2
    <3>11. /\ \A q \in Res : q # s => res'[q].type = res[q].type /\ res'[q].fd = res[q].fd
           /\ \A q \in Res : q # s /\ q # r => res'[q].pending = res[q].pending
           /\ res'[s].type = "SOCKET" /\ res'[s].fd = o.accepted
      BY <3>1, <3>4, <3>5, <3>8, <3>9
    <3>12. IF s = r THEN res'[s].pending = -1
           ELSE res'[s].pending = 0 /\ res'[r].pending = res[r].pending - 1
      <4>1. CASE s = r
        BY <3>5, <3>9, <4>1
      <4>2. CASE s # r
        BY <2>1, <3>1, <3>4, <3>5, <3>8, <3>9, <4>2
      <4> QED BY <4>1, <4>2
    <3>13. o.type = "ACCEPT"
      BY <2>7 DEF accepted
    <3>14. Reported(c, r)
      BY <2>1, <2>3, <2>4, <3>8, <3>10 DEF Reported, r, o, op
    <3>15. OpensSlot(c, r, s)
      BY <3>1, <3>2, <3>11, <3>12, <3>13 DEF OpensSlot, o, op
    <3> QED BY <1>1, <1>2, <1>3, <3>1, <3>14, <3>15 DEF r, o, op, c
  <2> QED BY <2>6, <2>7
<1> QED BY <1>4, <1>5

(* io_wait preserves the invariant.  Until the context is spoiled it does  *)
(* not fail: the structure of a completion is in use, so its resource      *)
(* counts at least one operation.                                          *)
LEMMA WaitKeepsIndInv ==
    ASSUME IndInv, io_wait
    PROVE  IndInv'
<1>0. AsyncTypes /\ CountsCovered
  BY DEF IndInv
<1>1. PICK c \in Completion, r \in Res \cup {NoRes} :
        /\ Running /\ cq # <<>> /\ c = Head(cq) /\ cq' = Tail(cq) /\ r = ops[c.op].res
        /\ UNCHANGED <<platform, sq, flight, opens, starts, shut, begun, spoiled>>
        /\ \/ /\ ~(r # NoRes /\ res[r].pending > 0)
              /\ status' = "crashed"
              /\ UNCHANGED <<res, ops, fds, handles, ev, ended>>
           \/ Reported(c, r) /\ (OpensNothing(c, r) \/ \E s \in Res : OpensSlot(c, r, s))
  BY <1>0, WaitEffect
<1>2. PICK op \in Ops : op = c.op
  BY DEF Completion
<1>3. /\ cq \in Seq(Completion) /\ Len(cq) \in Nat \ {0} /\ cq[1] = c
      /\ cq' \in Seq(Completion) /\ Len(cq') = Len(cq) - 1
      /\ \A i \in 1 .. Len(cq') : i + 1 \in 1 .. Len(cq) /\ cq'[i] = cq[i + 1]
  <2>1. cq \in Seq(Completion) /\ cq # <<>> /\ cq' = Tail(cq) /\ c = Head(cq)
    BY <1>0, <1>1 DEF AsyncTypes
  <2>2. Len(cq) \in Nat \ {0} /\ cq[1] = c
    BY <2>1
  <2>3. cq' \in Seq(Completion) /\ Len(cq') = Len(cq) - 1
    BY <2>1
  <2>4. \A i \in 1 .. Len(cq') : i + 1 \in 1 .. Len(cq) /\ cq'[i] = cq[i + 1]
    BY <2>1, <2>2, <2>3
  <2> QED BY <2>1, <2>2, <2>3, <2>4
<1>4. /\ platform' = platform /\ sq' = sq /\ flight' = flight /\ opens' = opens
      /\ starts' = starts /\ shut' = shut /\ begun' = begun /\ spoiled' = spoiled /\ Running
  BY <1>1
<1>5. /\ starts \in Nat /\ Len(ended) \in Nat /\ Len(sq) \in Nat /\ Cardinality(flight) \in Nat
      /\ Len(ended) + Len(cq) + Len(sq) + Cardinality(flight) <= starts
  BY <1>0, FS_CardinalityType, AsyncAssumption DEF AsyncTypes
<1>6. ASSUME Clean
      PROVE  /\ r \in Res /\ res[r].pending > 0 /\ ops[op].type # "VOID"
             /\ op \in UsedBy(r) /\ res[r].pending = Cardinality(UsedBy(r))
  <2>1. Correspondence /\ CountsExact
    BY <1>6 DEF IndInv
  <2>2. ops[op].type # "VOID"
    <3>1. 1 \in 1 .. Len(cq)
      BY <1>3
    <3> QED BY <1>2, <1>3, <2>1, <3>1 DEF Correspondence, InUse
  <2>3. r \in Res /\ op \in UsedBy(r) /\ res[r].pending = Cardinality(UsedBy(r))
    BY <1>1, <1>2, <2>1, <2>2 DEF CountsExact, InUse, UsedBy
  <2>4. Cardinality(UsedBy(r)) \in Nat /\ IsFiniteSet(UsedBy(r))
    BY UsedFinite
  <2>5. Cardinality(UsedBy(r)) # 0
    BY <2>3, <2>4, FS_EmptySet
  <2> QED BY <2>2, <2>3, <2>4, <2>5
<1>7. CASE status' = "crashed" /\ UNCHANGED <<res, ops, fds, handles, ev, ended>>
           /\ ~(r # NoRes /\ res[r].pending > 0)
  <2>1. ~Clean
    BY <1>6, <1>7, NoResIsNone
  <2>2. spoiled' /\ ~Clean'
    BY <1>4, <1>7, <2>1 DEF Clean, Running
  <2>3. AsyncTypes'
    <3>1. Len(ended') + Len(cq') + Len(sq') + Cardinality(flight') <= starts'
      BY <1>3, <1>4, <1>5, <1>7
    <3> QED BY <1>0, <1>3, <1>4, <1>7, <3>1 DEF AsyncTypes
  <2>4. CountsCovered'
    BY <1>0, <1>7 DEF CountsCovered, UsedBy
  <2> QED BY <2>2, <2>3, <2>4 DEF IndInv, EventsMatch
<1>8. CASE Reported(c, r) /\ (OpensNothing(c, r) \/ \E s \in Res : OpensSlot(c, r, s))
  <2>1. /\ r \in Res /\ res[r].pending > 0 /\ status' = status
        /\ ops' \in [Ops -> Operation] /\ ops'[op].type = "VOID"
        /\ \A o \in Ops : o # op => ops'[o] = ops[o]
        /\ res' \in [Res -> Resource]
        /\ \A q \in Res : res'[q].gen = res[q].gen /\ res'[q].callback = res[q].callback
        /\ r = ops[op].res
    BY <1>1, <1>2, <1>8 DEF Reported
  <2>2. /\ ended' = Append(ended, ops[op].user)
        /\ ev'.user = ops[op].user /\ ev'.optype = ops[op].type
        /\ ev'.handle = handle_from_res(r) /\ ev'.to = res[r].callback
    BY <1>2, <1>8 DEF Reported
  <2>3. /\ ended \in Seq(Nat) /\ ended' \in Seq(Nat) /\ Len(ended') = Len(ended) + 1
        /\ ended'[Len(ended) + 1] = ops[op].user
        /\ \A i \in 1 .. Len(ended) : ended'[i] = ended[i]
    <3>1. ops[op].user \in Nat
      BY <1>0 DEF AsyncTypes, Operation
    <3> QED BY <1>0, <2>2, <3>1 DEF AsyncTypes
  <2>4. \A q \in Res : res[q].pending \in Int /\ res[q].gen \in Nat /\ res'[q].pending \in Int
    BY <1>0, <2>1 DEF AsyncTypes, Resource
  <2>5. /\ res'[r].pending <= res[r].pending - 1
        /\ \A q \in Res : q # r => res'[q].pending = res[q].pending \/ res'[q].pending = 0
    <3>1. CASE OpensNothing(c, r)
      BY <2>1, <2>4, <3>1 DEF OpensNothing
    <3>2. ASSUME NEW s \in Res, OpensSlot(c, r, s)
          PROVE  /\ res'[r].pending <= res[r].pending - 1
                 /\ \A q \in Res : q # r => res'[q].pending = res[q].pending \/ res'[q].pending = 0
      BY <2>1, <2>4, <3>2 DEF OpensSlot
    <3> QED BY <1>8, <3>1, <3>2
  <2>6. /\ UsedBy(r)' = UsedBy(r) \ {op}
        /\ \A q \in Res : q # r => UsedBy(q)' = UsedBy(q)
    BY <2>1 DEF UsedBy
  <2>7. /\ Cardinality(UsedBy(r)') \in Nat
        /\ Cardinality(UsedBy(r)') >= Cardinality(UsedBy(r)) - 1
        /\ op \in UsedBy(r) => Cardinality(UsedBy(r)') = Cardinality(UsedBy(r)) - 1
    <3>1. IsFiniteSet(UsedBy(r)) /\ Cardinality(UsedBy(r)) \in Nat
      BY UsedFinite
    <3>2. CASE op \in UsedBy(r)
      <4>1. /\ IsFiniteSet(UsedBy(r) \ {op})
            /\ Cardinality(UsedBy(r) \ {op}) = Cardinality(UsedBy(r)) - 1
        BY <3>1, <3>2, FS_RemoveElement
      <4>2. Cardinality(UsedBy(r) \ {op}) \in Nat
        BY <4>1, FS_CardinalityType
      <4> QED BY <2>6, <3>1, <4>1, <4>2
    <3>3. CASE op \notin UsedBy(r)
      <4>1. UsedBy(r) \ {op} = UsedBy(r)
        BY <3>3
      <4>2. UsedBy(r)' = UsedBy(r)
        BY <2>6, <4>1
      <4> QED BY <3>1, <3>3, <4>2
    <3> QED BY <3>2, <3>3
  <2>8. CountsCovered'
    <3> SUFFICES ASSUME NEW q \in Res PROVE res'[q].pending <= Cardinality(UsedBy(q)')
      BY DEF CountsCovered
    <3>1. res[q].pending <= Cardinality(UsedBy(q)) /\ Cardinality(UsedBy(q)) \in Nat
      BY <1>0, UsedFinite DEF CountsCovered
    <3>2. CASE q = r
      BY <2>4, <2>5, <2>7, <3>1, <3>2
    <3>3. CASE q # r
      BY <2>4, <2>5, <2>6, <3>1, <3>3
    <3> QED BY <3>2, <3>3
  <2>9. AsyncTypes'
    <3>1. Len(ended') + Len(cq') + Len(sq') + Cardinality(flight') <= starts'
      BY <1>3, <1>4, <1>5, <2>3
    <3>2. fds' \in SUBSET Nat /\ IsFiniteSet(fds')
      <4>1. fds' \in SUBSET fds
        BY <1>8 DEF OpensNothing, OpensSlot
      <4>2. fds \in SUBSET Nat /\ IsFiniteSet(fds)
        BY <1>0 DEF AsyncTypes
      <4> QED BY <4>1, <4>2, FS_Subset
    <3>3. handles' \in SUBSET [handle : Handle, fd : Int, kind : {"FILE", "LISTENER", "CONN", "STRAY"}]
      <4> DEFINE H == [handle : Handle, fd : Int, kind : {"FILE", "LISTENER", "CONN", "STRAY"}]
      <4>1. handles \in SUBSET H
        BY <1>0 DEF AsyncTypes
      <4>2. \A num \in Nat : [handle |-> [idx |-> num, gen |-> 0], fd |-> num, kind |-> "STRAY"] \in H
        BY DEF Handle
      <4>3. ops[op].accepted \in Int
        BY <1>0 DEF AsyncTypes, Operation
      <4>4. \A s \in Res : handle_from_res(s) \in Handle
        BY <1>0, HandleType
      <4>5. \A s \in Res : [handle |-> handle_from_res(s), fd |-> ops[op].accepted, kind |-> "CONN"] \in H
        BY <4>3, <4>4
      <4> HIDE DEF H
      <4>6. handles' \in SUBSET H
        BY <1>2, <1>8, <4>1, <4>2, <4>5 DEF OpensNothing, OpensSlot
      <4> QED BY <4>6 DEF H
    <3> QED BY <1>0, <1>3, <1>4, <2>1, <2>3, <3>1, <3>2, <3>3 DEF AsyncTypes
  <2>10. Clean' = Clean
    BY <1>4, <2>1 DEF Clean, Running
  <2>11. ASSUME Clean PROVE Correspondence' /\ CountsExact' /\ Requests'
    <3>0. Correspondence /\ CountsExact /\ Requests /\ op \in UsedBy(r) /\ ops[op].type # "VOID"
      BY <1>6, <2>11 DEF IndInv
    <3>1. Correspondence'
      <4>1. \A f \in flight : f.op \in Ops /\ f.op # op
        <5>1. \A f \in flight : f.op \in Ops
          BY <1>0 DEF AsyncTypes, Entry
        <5>2. 1 \in 1 .. Len(cq)
          BY <1>3
        <5> QED BY <1>2, <1>3, <3>0, <5>1, <5>2 DEF Correspondence
      <4>2. ASSUME NEW i \in 1 .. Len(cq') PROVE cq'[i].op \in Ops /\ cq'[i].op # op
        <5>1. i + 1 \in 1 .. Len(cq) /\ 1 \in 1 .. Len(cq) /\ i + 1 # 1 /\ cq'[i] = cq[i + 1]
          BY <1>3
        <5>2. cq'[i] \in Completion
          BY <1>3
        <5> QED BY <1>2, <1>3, <3>0, <5>1, <5>2 DEF Correspondence, Completion
      <4>3. \A f \in flight' : ops'[f.op].type # "VOID" /\ ops'[f.op].user = f.n
        BY <1>4, <2>1, <3>0, <4>1 DEF Correspondence, InUse
      <4>4. ASSUME NEW i \in 1 .. Len(cq')
            PROVE  ops'[cq'[i].op].type # "VOID" /\ ops'[cq'[i].op].user = cq'[i].n
        <5>1. ops'[cq'[i].op] = ops[cq'[i].op] /\ i + 1 \in 1 .. Len(cq) /\ cq'[i] = cq[i + 1]
          BY <1>3, <2>1, <4>2
        <5> QED BY <3>0, <5>1 DEF Correspondence, InUse
      <4>5. ASSUME NEW i \in 1 .. Len(cq'), NEW j \in 1 .. Len(cq'), cq'[i].op = cq'[j].op
            PROVE  i = j
        <5>1. i + 1 = j + 1
          <6>1. i + 1 \in 1 .. Len(cq) /\ j + 1 \in 1 .. Len(cq) /\ cq[i + 1].op = cq[j + 1].op
            BY <1>3, <4>5
          <6> QED BY <3>0, <6>1 DEF Correspondence
        <5> QED BY <5>1
      <4>6. \A f \in flight', i \in 1 .. Len(cq') : f.op # cq'[i].op
        BY <1>3, <1>4, <3>0 DEF Correspondence
      <4>7. ASSUME NEW o \in Ops, ops'[o].type # "VOID"
            PROVE  (\E f \in flight' : f.op = o) \/ (\E i \in 1 .. Len(cq') : cq'[i].op = o)
        <5>1. o # op /\ ops[o].type # "VOID"
          BY <2>1, <4>7
        <5>2. ASSUME NEW i \in 1 .. Len(cq), cq[i].op = o
              PROVE  \E j \in 1 .. Len(cq') : cq'[j].op = o
          <6>1. i # 1
            BY <1>2, <1>3, <5>1, <5>2
          <6>2. i - 1 \in 1 .. Len(cq') /\ (i - 1) + 1 = i
            BY <1>3, <6>1
          <6>3. cq'[i - 1] = cq[i]
            BY <1>3, <6>2
          <6> QED BY <5>2, <6>2, <6>3
        <5> QED BY <1>4, <3>0, <5>1, <5>2 DEF Correspondence, InUse
      <4> QED BY <1>4, <3>0, <4>3, <4>4, <4>5, <4>6, <4>7 DEF Correspondence, InUse
    <3>2. \A s \in Res : OpensSlot(c, r, s) => s # r
      BY <2>1, <2>4, <3>0 DEF OpensSlot, CountsExact
    <3>3. res'[r].pending = res[r].pending - 1
      BY <1>8, <3>2 DEF OpensNothing, OpensSlot
    <3>4. CountsExact'
      <4>1. ASSUME NEW q \in Res PROVE res'[q].pending = Cardinality(UsedBy(q)')
        <5>1. res[q].pending = Cardinality(UsedBy(q))
          BY <3>0 DEF CountsExact
        <5>2. CASE q = r
          BY <2>7, <3>0, <3>3, <5>1, <5>2
        <5>3. CASE q # r
          <6>1. res'[q].pending = res[q].pending
            <7>1. CASE OpensNothing(c, r)
              BY <5>3, <7>1 DEF OpensNothing
            <7>2. ASSUME NEW s \in Res, OpensSlot(c, r, s) PROVE res'[q].pending = res[q].pending
              BY <3>0, <3>2, <5>3, <7>2 DEF OpensSlot, CountsExact
            <7> QED BY <1>8, <7>1, <7>2
          <6> QED BY <2>6, <5>1, <5>3, <6>1
        <5> QED BY <5>2, <5>3
      <4>2. res[r].type # "VOID"
        BY <2>1, <2>4, <3>0 DEF CountsExact
      <4>3. ASSUME NEW q \in Res, res'[q].type = "VOID" PROVE res'[q].pending = 0
        <5>1. CASE OpensNothing(c, r)
          BY <3>0, <4>2, <4>3, <5>1 DEF OpensNothing, CountsExact
        <5>2. ASSUME NEW s \in Res, OpensSlot(c, r, s) PROVE res'[q].pending = 0
          BY <3>0, <4>2, <4>3, <5>2 DEF OpensSlot, CountsExact
        <5> QED BY <1>8, <5>1, <5>2
      <4>4. \A o \in Ops : ops'[o].type # "VOID" => ops'[o].res \in Res
        BY <2>1, <3>0 DEF CountsExact, InUse
      <4> QED BY <4>1, <4>3, <4>4 DEF CountsExact, InUse
    <3>5. Requests'
      <4>1. ASSUME NEW o \in Ops, ops'[o].type # "VOID"
            PROVE  /\ ops'[o].user \in 1 .. starts'
                   /\ \A i \in 1 .. Len(ended') : ended'[i] # ops'[o].user
                   /\ begun'[ops'[o].user] =
                        [handle |-> [idx |-> ops'[o].res, gen |-> res'[ops'[o].res].gen],
                         type |-> ops'[o].type]
        <5>1. o # op /\ ops'[o] = ops[o] /\ ops[o].type # "VOID"
          BY <2>1, <4>1
        <5>2. /\ ops[o].user \in 1 .. starts /\ ops[o].res \in Res
              /\ \A i \in 1 .. Len(ended) : ended[i] # ops[o].user
              /\ begun[ops[o].user] =
                   [handle |-> [idx |-> ops[o].res, gen |-> res[ops[o].res].gen], type |-> ops[o].type]
          BY <3>0, <5>1 DEF Requests, CountsExact, InUse, handle_from_res
        <5>3. ops[op].user # ops[o].user
          BY <3>0, <5>1 DEF Requests, InUse
        <5>4. ASSUME NEW i \in 1 .. Len(ended') PROVE ended'[i] # ops[o].user
          <6>1. i \in 1 .. Len(ended) \/ i = Len(ended) + 1
            BY <1>5, <2>3
          <6> QED BY <2>3, <5>2, <5>3, <6>1
        <5>5. res'[ops[o].res].gen = res[ops[o].res].gen
          BY <2>1, <5>2
        <5> QED BY <1>4, <5>1, <5>2, <5>4, <5>5
      <4>2. \A o, p \in Ops : o # p /\ ops'[o].type # "VOID" /\ ops'[p].type # "VOID"
                                  => ops'[o].user # ops'[p].user
        BY <2>1, <3>0 DEF Requests, InUse
      <4>3. ASSUME NEW i \in 1 .. Len(ended') PROVE ended'[i] \in 1 .. starts'
        <5>1. i \in 1 .. Len(ended) \/ i = Len(ended) + 1
          BY <1>5, <2>3
        <5>2. ops[op].user \in 1 .. starts
          BY <3>0 DEF Requests, InUse
        <5> QED BY <1>4, <2>3, <3>0, <5>1, <5>2 DEF Requests
      <4>4. \A q \in Res : res'[q].callback \in {NoCallback, [idx |-> q, gen |-> res'[q].gen]}
        BY <2>1, <3>0 DEF Requests, handle_from_res
      <4> QED BY <4>1, <4>2, <4>3, <4>4, Zenon DEF Requests, InUse, handle_from_res
    <3> QED BY <3>1, <3>4, <3>5
  <2>12. ASSUME Clean PROVE Descriptors'
    <3>0. Descriptors /\ ops[op].type # "VOID"
      BY <1>6, <2>12 DEF IndInv
    <3> DEFINE a == ops[op].accepted
    <3>1. \A o \in Ops : ops'[o].type # "VOID" => o # op /\ ops'[o] = ops[o]
      BY <2>1
    <3>2. ASSUME Windows', ops[op].type = "ACCEPT"
          PROVE  /\ a \in fds /\ \A q \in Res : res[q].fd # a
                 /\ \A o \in Ops : ops'[o].type = "ACCEPT" => ops'[o].accepted # a
      BY <1>4, <3>0, <3>1, <3>2 DEF Descriptors, Windows
    <3>3. ASSUME Windows', NEW o \in Ops, ops'[o].type = "ACCEPT"
          PROVE  ops'[o].accepted \in fds /\ \A q \in Res : res[q].fd # ops'[o].accepted
      BY <1>4, <3>0, <3>1, <3>3 DEF Descriptors, Windows
    <3>4. ASSUME Windows', NEW o \in Ops, NEW p \in Ops, o # p,
                 ops'[o].type = "ACCEPT", ops'[p].type = "ACCEPT"
          PROVE  ops'[o].accepted # ops'[p].accepted
      BY <1>4, <3>0, <3>1, <3>4 DEF Descriptors, Windows
    <3>5. CASE OpensNothing(c, r)
      <4>1. /\ \A q \in Res : res'[q].type = res[q].type /\ res'[q].fd = res[q].fd
            /\ fds' = fds \/ (Windows' /\ ops[op].type = "ACCEPT" /\ fds' = fds \ {a})
        BY <1>2, <1>4, <3>5 DEF OpensNothing, Windows
      <4> HIDE DEF a
      <4>2. \A q \in Res : IF res'[q].type = "VOID" THEN res'[q].fd = NoFd ELSE res'[q].fd \in fds'
        BY <3>0, <3>2, <4>1 DEF Descriptors
      <4>3. \A p, q \in Res : p # q /\ res'[p].fd = res'[q].fd => res'[p].type = "VOID"
        BY <3>0, <4>1 DEF Descriptors
      <4>4. ASSUME Windows', NEW o \in Ops, ops'[o].type = "ACCEPT"
            PROVE  ops'[o].accepted \in fds' /\ \A q \in Res : res'[q].fd # ops'[o].accepted
        BY <3>2, <3>3, <4>1, <4>4
      <4> QED BY <3>4, <4>2, <4>3, <4>4 DEF Descriptors
    <3>6. ASSUME NEW s \in Res, OpensSlot(c, r, s) PROVE Descriptors'
      <4>1. /\ Windows' /\ ops[op].type = "ACCEPT" /\ fds' = fds
            /\ \A q \in Res : q # s => res'[q].type = res[q].type /\ res'[q].fd = res[q].fd
            /\ res'[s].type = "SOCKET" /\ res'[s].fd = a
        BY <1>2, <1>4, <3>6 DEF OpensSlot, Windows
      <4> HIDE DEF a
      <4>2. \A q \in Res : IF res'[q].type = "VOID" THEN res'[q].fd = NoFd ELSE res'[q].fd \in fds'
        BY <3>0, <3>2, <4>1 DEF Descriptors
      <4>3. \A p, q \in Res : p # q /\ res'[p].fd = res'[q].fd => res'[p].type = "VOID"
        BY <3>0, <3>2, <4>1 DEF Descriptors
      <4>4. ASSUME NEW o \in Ops, ops'[o].type = "ACCEPT"
            PROVE  ops'[o].accepted \in fds' /\ \A q \in Res : res'[q].fd # ops'[o].accepted
        BY <3>2, <3>3, <4>1, <4>4
      <4> QED BY <3>4, <4>2, <4>3, <4>4 DEF Descriptors
    <3> QED BY <1>8, <3>5, <3>6
  <2>13. ASSUME Clean PROVE Generations'
    <3>0. Generations
      BY <2>13 DEF IndInv
    <3>1. opens \in Nat /\ opens' = opens /\ Len(ended') = Len(ended) + 1 /\ shut' = shut
      BY <1>0, <1>4, <2>3, AsyncAssumption DEF AsyncTypes
    <3>2. ASSUME NEW q \in Res
          PROVE  res'[q].gen + (IF res'[q].type = "VOID" THEN 0 ELSE 1) <= opens' + Len(ended')
      <4>1. res[q].gen + (IF res[q].type = "VOID" THEN 0 ELSE 1) <= opens + Len(ended)
        BY <3>0 DEF Generations
      <4>2. res'[q].gen = res[q].gen /\ res[q].gen \in Nat
        BY <2>1, <2>4
      <4>3. res[q].gen <= opens + Len(ended)
        BY <1>5, <3>1, <4>1, <4>2
      <4> QED BY <1>5, <3>1, <4>2, <4>3
    <3>3. \A s \in shut' : s.idx \in Res /\ s.gen < res'[s.idx].gen
      BY <2>1, <3>0, <3>1 DEF Generations
    <3>4. ASSUME NEW g \in handles', g.kind # "STRAY"
          PROVE  /\ g.handle.idx \in Res
                 /\ g.handle.gen <= res'[g.handle.idx].gen
                 /\ g.handle.gen < res'[g.handle.idx].gen => g.handle \in shut'
                 /\ g.handle.gen = res'[g.handle.idx].gen =>
                       res'[g.handle.idx].type # "VOID" /\ res'[g.handle.idx].fd = g.fd
      <4>1. CASE g \in handles
        <5>1. /\ g.handle.idx \in Res
              /\ g.handle.gen <= res[g.handle.idx].gen
              /\ g.handle.gen < res[g.handle.idx].gen => g.handle \in shut
              /\ g.handle.gen = res[g.handle.idx].gen =>
                    res[g.handle.idx].type # "VOID" /\ res[g.handle.idx].fd = g.fd
          BY <3>0, <3>4, <4>1 DEF Generations
        <5>2. res[g.handle.idx].type # "VOID" =>
                 /\ res'[g.handle.idx].type = res[g.handle.idx].type
                 /\ res'[g.handle.idx].fd = res[g.handle.idx].fd
          BY <1>8, <5>1 DEF OpensNothing, OpensSlot
        <5> QED BY <2>1, <3>1, <5>1, <5>2
      <4>2. CASE g \notin handles
        <5>1. PICK s \in Res :
                 /\ OpensSlot(c, r, s)
                 /\ g = [handle |-> handle_from_res(s), fd |-> ops[op].accepted, kind |-> "CONN"]
          BY <1>2, <1>8, <3>4, <4>2 DEF OpensNothing, OpensSlot
        <5>2. g.handle.idx = s /\ g.handle.gen = res[s].gen /\ g.fd = ops[op].accepted
          BY <5>1 DEF handle_from_res
        <5>3. res'[s].gen = res[s].gen /\ res[s].gen \in Nat
              /\ res'[s].type # "VOID" /\ res'[s].fd = ops[op].accepted
          BY <1>2, <2>1, <2>4, <5>1 DEF OpensSlot
        <5> QED BY <5>2, <5>3
      <4> QED BY <4>1, <4>2
    <3> QED BY <3>2, <3>3, <3>4 DEF Generations
  <2>14. EventsMatch'
    <3> SUFFICES ASSUME ~spoiled'
                 PROVE  /\ IsInjective(ended') /\ ev'.user \in DOMAIN begun'
                        /\ begun'[ev'.user] = [handle |-> ev'.handle, type |-> ev'.optype]
                        /\ ev'.to \in {NoCallback, ev'.handle}
      BY DEF EventsMatch
    <3>1. Clean
      BY <1>4 DEF Clean
    <3>2. Requests /\ EventsMatch /\ ops[op].type # "VOID"
      BY <1>6, <3>1 DEF IndInv
    <3>3. /\ ops[op].user \in 1 .. starts
          /\ \A i \in 1 .. Len(ended) : ended[i] # ops[op].user
          /\ begun[ops[op].user] = [handle |-> handle_from_res(r), type |-> ops[op].type]
          /\ res[r].callback \in {NoCallback, handle_from_res(r)}
      BY <2>1, <3>2 DEF Requests, InUse
    <3>4. \A i, j \in 1 .. Len(ended) : ended[i] = ended[j] => i = j
      <4>1. CASE ended = <<>>
        BY <4>1
      <4>2. CASE ended # <<>>
        <5>1. IsInjective(ended) /\ DOMAIN ended = 1 .. Len(ended)
          BY <2>3, <3>1, <3>2, <4>2 DEF EventsMatch, Clean
        <5> QED BY <5>1 DEF IsInjective
      <4> QED BY <4>1, <4>2
    <3>5. IsInjective(ended')
      <4>1. DOMAIN ended' = 1 .. Len(ended')
        BY <2>3
      <4>2. ASSUME NEW i \in 1 .. Len(ended'), NEW j \in 1 .. Len(ended'), ended'[i] = ended'[j]
            PROVE  i = j
        <5>1. /\ i \in 1 .. Len(ended) \/ i = Len(ended) + 1
              /\ j \in 1 .. Len(ended) \/ j = Len(ended) + 1
          BY <1>5, <2>3
        <5> QED BY <2>3, <3>3, <3>4, <4>2, <5>1
      <4> QED BY <4>1, <4>2 DEF IsInjective
    <3>6. DOMAIN begun' = 1 .. starts
      BY <1>0, <1>4 DEF AsyncTypes
    <3> QED BY <1>4, <2>2, <3>3, <3>5, <3>6
  <2>15. ~spoiled' => status' # "crashed"
    BY <1>4, <2>1 DEF Running
  <2> QED BY <2>8, <2>9, <2>10, <2>11, <2>12, <2>13, <2>14, <2>15 DEF IndInv
<1> QED BY <1>1, <1>7, <1>8
-----------------------------------------------------------------------------
(* io_init establishes the invariant. *)
LEMMA InitIndInv == Init => IndInv
<1> SUFFICES ASSUME Init PROVE IndInv
  OBVIOUS
<1>1. /\ Cardinality({}) = 0 /\ IsFiniteSet({})
  BY FS_EmptySet
<1>2. \A r \in Res : /\ res[r] = [type |-> "VOID", pending |-> 0, gen |-> 0,
                                  fd |-> NoFd, callback |-> NoCallback]
                     /\ UsedBy(r) = {}
  BY DEF Init, UsedBy
<1>3. \A o \in Ops : ops[o].type = "VOID"
  BY DEF Init
<1>4. AsyncTypes
  <2>1. [type |-> "VOID", pending |-> 0, gen |-> 0, fd |-> NoFd, callback |-> NoCallback] \in Resource
    BY DEF Resource, NoFd, NoCallback
  <2>2. [type |-> "VOID", res |-> NoRes, user |-> 0, accepted |-> NoFd] \in Operation
    BY DEF Operation, NoFd
  <2>3. res \in [Res -> Resource] /\ ops \in [Ops -> Operation]
    BY <2>1, <2>2 DEF Init
  <2>4. /\ sq \in Seq(Entry) /\ cq \in Seq(Completion)
        /\ begun \in Seq([handle : Handle, type : OpTypes]) /\ ended \in Seq(Nat)
        /\ Len(begun) = 0 /\ Len(ended) = 0 /\ Len(sq) = 0 /\ Len(cq) = 0
    BY DEF Init
  <2>5. opens \in 0 .. MaxOpens /\ starts \in 0 .. MaxStarts
    BY AsyncAssumption DEF Init
  <2> QED BY <1>1, <2>3, <2>4, <2>5 DEF Init, AsyncTypes
<1>5. CountsCovered
  BY <1>1, <1>2 DEF CountsCovered
<1>6. Descriptors
  BY <1>2, <1>3 DEF Descriptors
<1>7. Generations
  BY <1>2 DEF Generations, Init
<1>8. Correspondence
  BY <1>3 DEF Correspondence, Init, InUse
<1>9. CountsExact
  BY <1>1, <1>2, <1>3 DEF CountsExact, InUse
<1>10. Requests
  BY <1>2, <1>3 DEF Requests, Init, InUse
<1>11. EventsMatch /\ status # "crashed"
  BY DEF Init, EventsMatch
<1> QED BY <1>4, <1>5, <1>6, <1>7, <1>8, <1>9, <1>10, <1>11 DEF IndInv

(* Every call, every completion and every event preserves the invariant. *)
LEMMA NextIndInv == IndInv /\ [Next]_vars => IndInv'
<1> SUFFICES ASSUME IndInv, [Next]_vars PROVE IndInv'
  OBVIOUS
<1>1. CASE io_open_file
  BY <1>1, OpenKeepsIndInv DEF io_open_file
<1>2. CASE io_start_server
  BY <1>2, OpenKeepsIndInv DEF io_start_server
<1>3. ASSUME NEW h \in handles, io_set_callback(h) PROVE IndInv'
  BY <1>3, SetCallbackKeepsIndInv
<1>4. ASSUME NEW h \in handles, NEW type \in OpTypes, Start(h, type) PROVE IndInv'
  BY <1>4, StartKeepsIndInv
<1>5. ASSUME NEW h \in handles, NEW type \in OpTypes, StartFails(h, type) PROVE IndInv'
  BY <1>5, StartFailsKeepsIndInv
<1>6. ASSUME NEW f \in flight, NEW ok \in BOOLEAN, Complete(f, ok) PROVE IndInv'
  BY <1>6, CompleteKeepsIndInv
<1>7. CASE io_wait
  BY <1>7, WaitKeepsIndInv
<1>8. ASSUME NEW h \in handles, io_close(h) PROVE IndInv'
  BY <1>8, CloseKeepsIndInv
<1>9. CASE io_free
  BY <1>9, FreeKeepsIndInv
<1>10. CASE UNCHANGED vars
  <2>1. UNCHANGED <<platform, res, ops, sq, flight, cq, fds, opens, starts, handles, shut,
                    begun, spoiled, ev, ended, status>>
    BY <1>10 DEF vars, system, counters, ghosts, events
  <2>2. AsyncTypes' = AsyncTypes /\ EventsMatch' = EventsMatch
    BY <2>1 DEF AsyncTypes, EventsMatch
  <2>3. /\ CountsCovered' = CountsCovered /\ Descriptors' = Descriptors
        /\ Generations' = Generations /\ Correspondence' = Correspondence
    BY <2>1 DEF CountsCovered, UsedBy, Descriptors, Windows, Generations, Correspondence, InUse
  <2>4. CountsExact' = CountsExact /\ Requests' = Requests /\ Clean' = Clean
    BY <2>1 DEF CountsExact, UsedBy, InUse, Requests, handle_from_res, Clean, Running
  <2> QED BY <2>1, <2>2, <2>3, <2>4 DEF IndInv
<1> QED BY <1>1, <1>2, <1>3, <1>4, <1>5, <1>6, <1>7, <1>8, <1>9, <1>10 DEF Next, OpTypes

(* The inductive invariant holds in every state: what the calls, the       *)
(* completions and the events of io_wait keep true together.               *)
THEOREM IndInvInvariant == Spec => []IndInv
  BY InitIndInv, NextIndInv, PTL DEF Spec

(* An injective image of a finite set has as many elements. *)
LEMMA ImageCardinality ==
    ASSUME NEW S, IsFiniteSet(S), NEW F, F = [x \in S |-> F[x]],
           \A x, y \in S : F[x] = F[y] => x = y
    PROVE  /\ IsFiniteSet({F[x] : x \in S})
           /\ Cardinality({F[x] : x \in S}) = Cardinality(S)
<1> DEFINE T == {F[x] : x \in S}
<1>1. F \in [S -> T]
  OBVIOUS
<1>2. F \in Bijection(S, T)
  <2>1. F \in Injection(S, T)
    BY <1>1 DEF Injection, IsInjective
  <2>2. F \in Surjection(S, T)
    BY <1>1 DEF Surjection
  <2> QED BY <2>1, <2>2 DEF Bijection
<1>3. ExistsBijection(S, T)
  BY <1>2 DEF ExistsBijection
<1> QED BY <1>3, FS_Bijection

(* The requests and the completions are all of different structures.  *)
LEMMA PostedCount ==
    ASSUME AsyncTypes, Correspondence
    PROVE  Cardinality(Posted) = Cardinality(flight) + Len(cq)
<1> DEFINE A == {[op |-> f.op, n |-> f.n] : f \in flight}
           F == [f \in flight |-> [op |-> f.op, n |-> f.n]]
           I == 1 .. Len(cq)
           B == {[op |-> cq[i].op, n |-> cq[i].n] : i \in I}
           G == [i \in I |-> [op |-> cq[i].op, n |-> cq[i].n]]
<1>1. IsFiniteSet(A) /\ Cardinality(A) = Cardinality(flight)
  <2>1. \A f, g \in flight : F[f] = F[g] => f = g
    BY DEF Correspondence
  <2>2. A = {F[f] : f \in flight} /\ F = [f \in flight |-> F[f]]
    OBVIOUS
  <2>3. IsFiniteSet(flight)
    BY DEF AsyncTypes
  <2> HIDE DEF F, A
  <2> QED BY <2>1, <2>2, <2>3, ImageCardinality
<1>2. IsFiniteSet(B) /\ Cardinality(B) = Len(cq)
  <2>1. \A i, j \in I : G[i] = G[j] => i = j
    BY DEF Correspondence
  <2>2. B = {G[i] : i \in I} /\ G = [i \in I |-> G[i]]
    OBVIOUS
  <2>3. Len(cq) \in Nat
    BY DEF AsyncTypes
  <2>4. IsFiniteSet(I) /\ Cardinality(I) = Len(cq)
    <3>1. ASSUME NEW n \in Nat
          PROVE  IsFiniteSet(1 .. n) /\ Cardinality(1 .. n) = n
      <4>1. /\ IsFiniteSet(1 .. n)
            /\ Cardinality(1 .. n) = IF 1 > n THEN 0 ELSE n - 1 + 1
        BY FS_Interval
      <4> QED BY <4>1
    <3> QED BY <2>3, <3>1
  <2> HIDE DEF G, B, I
  <2> QED BY <2>1, <2>2, <2>4, ImageCardinality
<1>3. A \cap B = {}
  BY DEF Correspondence
<1>4. Posted = A \cup B
  <2>1. DOMAIN cq = I
    BY DEF AsyncTypes
  <2> QED BY <2>1 DEF Posted
<1> HIDE DEF A, B
<1>5. Cardinality(A \cap B) = 0
  BY <1>3, FS_EmptySet
<1>6. Cardinality(A \cup B) = Cardinality(A) + Cardinality(B) - Cardinality(A \cap B)
  BY <1>1, <1>2, FS_Union
<1>7. Cardinality(flight) \in Nat /\ Len(cq) \in Nat
  BY FS_CardinalityType DEF AsyncTypes
<1> QED BY <1>1, <1>2, <1>4, <1>5, <1>6, <1>7

(* A resource never counts more operations than are in use on it, so the   *)
(* loop of close_internal ends inside the array; and until the context is  *)
(* spoiled, structures in use, requests and counts agree and io_wait finds *)
(* what it asserts.                                                        *)
THEOREM OperationsAccounted == Spec => []OpsAccounted
<1>1. IndInv => OpsAccounted
  <2> SUFFICES ASSUME IndInv PROVE OpsAccounted
    OBVIOUS
  <2>1. \A r \in Res : res[r].pending <= Cardinality(UsedBy(r))
    BY DEF IndInv, CountsCovered
  <2>2. ~spoiled => status # "crashed"
    BY DEF IndInv
  <2>3. ASSUME ~spoiled, Running
        PROVE  /\ {[op |-> o, n |-> ops[o].user] : o \in Ops \ UnusedOps} = Posted
               /\ Cardinality(Posted) = Cardinality(flight) + Len(cq)
               /\ sq = <<>>
               /\ \A r \in Res : res[r].pending = Cardinality(UsedBy(r))
    <3>1. AsyncTypes /\ Correspondence /\ CountsExact
      BY <2>3 DEF IndInv, Clean
    <3>2. Cardinality(Posted) = Cardinality(flight) + Len(cq)
      BY <3>1, PostedCount
    <3>3. sq = <<>> /\ \A r \in Res : res[r].pending = Cardinality(UsedBy(r))
      BY <3>1 DEF Correspondence, CountsExact
    <3>4. DOMAIN cq = 1 .. Len(cq)
      BY <3>1 DEF AsyncTypes
    <3>5. (\A f \in flight : f.op \in Ops) /\ (\A i \in 1 .. Len(cq) : cq[i].op \in Ops)
      <4>1. \A f \in flight : f.op \in Ops
        BY <3>1 DEF AsyncTypes, Entry
      <4>2. cq \in Seq(Completion)
        BY <3>1 DEF AsyncTypes
      <4>3. \A i \in 1 .. Len(cq) : cq[i] \in Completion
        BY <4>2
      <4> QED BY <4>1, <4>3 DEF Completion
    <3>6. ASSUME NEW o \in Ops \ UnusedOps PROVE [op |-> o, n |-> ops[o].user] \in Posted
      <4>1. InUse(o)
        BY <3>6 DEF InUse, UnusedOps
      <4>2. (\E f \in flight : f.op = o) \/ (\E i \in 1 .. Len(cq) : cq[i].op = o)
        BY <3>1, <4>1 DEF Correspondence
      <4> QED BY <3>1, <3>4, <4>2 DEF Correspondence, Posted
    <3>7. ASSUME NEW x \in Posted
          PROVE  x \in {[op |-> o, n |-> ops[o].user] : o \in Ops \ UnusedOps}
      <4>1. CASE \E f \in flight : x = [op |-> f.op, n |-> f.n]
        BY <3>1, <3>5, <4>1 DEF Correspondence, InUse, UnusedOps
      <4>2. CASE \E i \in 1 .. Len(cq) : x = [op |-> cq[i].op, n |-> cq[i].n]
        BY <3>1, <3>5, <4>2 DEF Correspondence, InUse, UnusedOps
      <4> QED BY <3>4, <4>1, <4>2 DEF Posted
    <3> QED BY <3>2, <3>3, <3>6, <3>7
  <2> QED BY <2>1, <2>2, <2>3 DEF OpsAccounted
<1> QED BY <1>1, IndInvInvariant, PTL

(* A handle names its own descriptor until it is closed and nothing        *)
(* afterwards, whatever took its slot, until the context is spoiled.       *)
THEOREM HandlesAreFaithful == Spec => []HandlesFaithful
<1>1. IndInv => HandlesFaithful
  <2> SUFFICES ASSUME IndInv, ~spoiled, Running, NEW h \in handles, h.kind # "STRAY"
               PROVE  LET r == res_from_handle(h.handle)
                      IN  /\ (r = NoRes) = (h.handle \in shut)
                          /\ r # NoRes =>
                               /\ res[r].fd = h.fd /\ h.fd \in fds
                               /\ \A q \in Res \ {r} : res[q].fd # h.fd
    BY DEF HandlesFaithful
  <2>1. AsyncTypes /\ Descriptors /\ Generations
    BY DEF IndInv, Clean
  <2>2. PICK i \in Res : i = h.handle.idx
    BY <2>1 DEF Generations
  <2>3. /\ h.handle.gen <= res[i].gen
        /\ h.handle.gen < res[i].gen => h.handle \in shut
        /\ h.handle.gen = res[i].gen => res[i].type # "VOID" /\ res[i].fd = h.fd
        /\ h.handle \in shut => h.handle.gen < res[i].gen
    BY <2>1, <2>2 DEF Generations
  <2>4. h.handle.gen \in Nat /\ res[i].gen \in Nat /\ i < MaxRes
    BY <2>1, HandleType, AsyncAssumption DEF AsyncTypes, Handle, Res
  <2>5. res_from_handle(h.handle) = IF res[i].gen = h.handle.gen THEN i ELSE NoRes
    BY <2>2, <2>4 DEF res_from_handle
  <2>6. i # NoRes
    BY NoResIsNone
  <2>7. CASE h.handle.gen = res[i].gen
    <3>1. res_from_handle(h.handle) = i /\ h.handle \notin shut
      BY <2>3, <2>4, <2>5, <2>7
    <3>2. res[i].fd = h.fd /\ h.fd \in fds
      BY <2>1, <2>3, <2>7 DEF Descriptors
    <3>3. \A q \in Res \ {i} : res[q].fd # h.fd
      BY <2>1, <2>3, <2>7, <3>2 DEF Descriptors
    <3> QED BY <2>6, <3>1, <3>2, <3>3
  <2>8. CASE h.handle.gen # res[i].gen
    BY <2>3, <2>4, <2>5, <2>8
  <2> QED BY <2>7, <2>8
<1> QED BY <1>1, IndInvInvariant, PTL

(* Until the context is spoiled, an event of io_wait is for one operation  *)
(* that was started and had no event before, and says what it was.         *)
THEOREM EventsAreMatched == Spec => []EventsMatch
<1>1. IndInv => EventsMatch
  BY DEF IndInv
<1> QED BY <1>1, IndInvInvariant, PTL
=============================================================================
