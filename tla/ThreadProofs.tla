---------------------------- MODULE ThreadProofs ----------------------------
(***************************************************************************)
(* Proofs about the two modules of thread/: Semaphore, for any finite      *)
(* number of threads, any counts and any number of signals, and            *)
(* ThreadPool, for any finite number of callers and workers, any max_jobs  *)
(* and any number of jobs.                                                 *)
(*                                                                         *)
(* The pool's invariant, PoolInv, comes in parts: where the structures     *)
(* are (FreeList, Owned, Total), which job each one holds (Numbered,       *)
(* ToRun, Ids), what the counters count (Counted, Promised, Enough), and   *)
(* how the ring is filled (Window, StopsLast).  A step is first described  *)
(* field by field, as its effect; then each part is shown to be kept by    *)
(* the steps of a caller, of a worker and of the owner.                    *)
(***************************************************************************)
EXTENDS Semaphore, ThreadPool, ArithmeticLemmas, FiniteSetTheorems, TLAPS
-----------------------------------------------------------------------------
(* The semaphore *)

(* The inductive invariant behind TypeOK and NotOversold. *)
SafeInv == TypeOK /\ Balance

(* A new semaphore satisfies the invariant. *)
LEMMA SafeInit == Init => SafeInv
  BY CountAssumption, SMT DEF Init, SafeInv, TypeOK, Balance, Asleep

(* Every step of semaphore_wait and semaphore_signal keeps it. *)
LEMMA SafeNext == SafeInv /\ [Next]_vars => SafeInv'
<1> SUFFICES ASSUME SafeInv, [Next]_vars PROVE SafeInv'
  OBVIOUS
<1> USE DEF SafeInv, TypeOK, Balance, Goto, thread, ghosts, Asleep
<1>1. ASSUME NEW t \in Threads, NEW n \in Counts, NEW b \in BOOLEAN, semaphore_wait(t, n, b)
      PROVE  SafeInv'
  BY <1>1, CountAssumption DEF semaphore_wait
<1>2. ASSUME NEW t \in Threads, Loop(t)
      PROVE  SafeInv'
  <2>1. CASE count >= need[t]
    BY <1>2, <2>1 DEF Loop
  <2>2. CASE ~(count >= need[t])
    BY <1>2, <2>2 DEF Loop
  <2> QED BY <2>1, <2>2
<1>3. ASSUME NEW t \in Threads, TimePasses(t)
      PROVE  SafeInv'
  BY <1>3 DEF TimePasses
<1>4. ASSUME NEW t \in Threads, TimeOut(t)
      PROVE  SafeInv'
  BY <1>4 DEF TimeOut
<1>5. ASSUME NEW t \in Threads, SpuriousWakeup(t)
      PROVE  SafeInv'
  BY <1>5 DEF SpuriousWakeup
<1>6. ASSUME NEW n \in Counts, semaphore_signal(n)
      PROVE  SafeInv'
  BY <1>6, CountAssumption DEF semaphore_signal
<1>7. CASE UNCHANGED vars
  BY <1>7 DEF vars
<1> QED BY <1>1, <1>2, <1>3, <1>4, <1>5, <1>6, <1>7 DEF Next

(* The count is what was there, was signalled and was not taken, and is    *)
(* not negative once a wait has succeeded.                                 *)
THEOREM SafeInvariant == Spec => []SafeInv
<1> QED BY SafeInit, SafeNext, PTL DEF Spec

(* The semaphore's variables keep their types in every behaviour, and a    *)
(* negative count is never below what semaphore_create was given.          *)
THEOREM TypeCorrect == Spec => []TypeOK
<1>1. SafeInv => TypeOK
  BY DEF SafeInv
<1> QED BY <1>1, SafeInvariant, PTL

(* semaphore_wait hands out no unit that was neither there at first nor    *)
(* signalled, whoever is woken, late, or ahead of those who were woken.    *)
THEOREM NeverOversold == Spec => []NotOversold
<1>1. SafeInv => NotOversold
  BY DEF SafeInv, TypeOK, Balance, NotOversold
<1> QED BY <1>1, SafeInvariant, PTL
-----------------------------------------------------------------------------
(* Units of one: the invariant behind NoStuckWaiter.  The argument counts  *)
(* the threads that are awake: a signal that adds a unit wakes one more,   *)
(* one that takes a unit leaves with it, and a thread only falls asleep    *)
(* when there is no unit.                                                  *)
WakeInv == SafeInv /\ EnoughAwake

(* The awake threads can be counted. *)
LEMMA AwakeFinite == IsFiniteSet(Awake) /\ Cardinality(Awake) \in Nat
<1>1. Awake \in SUBSET Threads
  BY DEF Awake
<1>2. IsFiniteSet(Awake)
  BY <1>1, CountAssumption, FS_Subset
<1> QED BY <1>2, FS_CardinalityType

(* A thread that starts its loop is one more awake, one that leaves one    *)
(* less.                                                                   *)
LEMMA AwakeOneMore ==
    ASSUME NEW t \in Threads, TypeOK, pc[t] # "loop", Goto(t, "loop")
    PROVE  Cardinality(Awake') = Cardinality(Awake) + 1
<1>1. Awake' = Awake \cup {t} /\ t \notin Awake
  BY DEF Awake, Goto, TypeOK
<1> QED BY <1>1, AwakeFinite, FS_AddElement

(* A thread that falls asleep, or leaves the loop, makes it one less. *)
LEMMA AwakeOneLess ==
    ASSUME NEW t \in Threads, NEW l, TypeOK, pc[t] = "loop", l # "loop", Goto(t, l)
    PROVE  Cardinality(Awake') = Cardinality(Awake) - 1
<1>1. Awake' = Awake \ {t} /\ t \in Awake
  BY DEF Awake, Goto, TypeOK
<1> QED BY <1>1, AwakeFinite, FS_RemoveElement

(* Their number only depends on who is in the loop. *)
LEMMA AwakeSame ==
    ASSUME \A t \in Threads : (pc'[t] = "loop") = (pc[t] = "loop")
    PROVE  Cardinality(Awake') = Cardinality(Awake)
<1>1. Awake' = Awake
  BY DEF Awake
<1> QED BY <1>1

(* Nobody sleeps at first. *)
LEMMA WakeInit == Init => WakeInv
  BY SafeInit DEF WakeInv, EnoughAwake, Init, Asleep

(* Every step keeps enough threads awake. *)
LEMMA WakeNext ==
    ASSUME Counts = {1}, WakeInv, [Next]_vars
    PROVE  EnoughAwake'
<1> USE DEF WakeInv, SafeInv
<1>a. /\ count \in Int /\ Cardinality(Awake) \in Nat
      /\ pc \in [Threads -> {"idle", "loop"} \cup Asleep]
      /\ need \in [Threads -> Nat]
  BY AwakeFinite DEF TypeOK
<1>1. ASSUME NEW t \in Threads, NEW n \in Counts, NEW b \in BOOLEAN, semaphore_wait(t, n, b)
      PROVE  EnoughAwake'
  <2>1. Cardinality(Awake') = Cardinality(Awake) + 1
    BY <1>1, AwakeOneMore DEF semaphore_wait
  <2>2. \A u \in Threads : pc'[u] # "idle" => need'[u] = 1
    BY <1>1, <1>a DEF semaphore_wait, EnoughAwake, Goto
  <2>3. (\E u \in Threads : pc'[u] \in Asleep) => \E u \in Threads : pc[u] \in Asleep
    BY <1>1, <1>a DEF semaphore_wait, Goto, Asleep
  <2>4. count' = count
    BY <1>1 DEF semaphore_wait
  <2> QED BY <2>1, <2>2, <2>3, <2>4, <1>a DEF EnoughAwake
<1>2. ASSUME NEW t \in Threads, Loop(t)
      PROVE  EnoughAwake'
  <2>1. need[t] = 1 /\ pc[t] = "loop"
    BY <1>2 DEF Loop, EnoughAwake
  <2>2. \A u \in Threads : pc'[u] # "idle" => need'[u] = 1
    BY <1>2, <1>a, <2>1 DEF Loop, EnoughAwake, Goto, thread
  <2>3. CASE count >= need[t]
    <3>1. Cardinality(Awake') = Cardinality(Awake) - 1
      BY <1>2, <2>1, <2>3, AwakeOneLess DEF Loop
    <3>2. (\E u \in Threads : pc'[u] \in Asleep) => \E u \in Threads : pc[u] \in Asleep
      BY <1>2, <1>a, <2>3 DEF Loop, Goto, Asleep
    <3>3. count' = count - 1
      BY <1>2, <2>1, <2>3 DEF Loop
    <3> QED BY <2>2, <3>1, <3>2, <3>3, <1>a DEF EnoughAwake
  <2>4. CASE ~(count >= need[t])
    <3>1. count' = count /\ count <= 0
      BY <1>2, <1>a, <2>1, <2>4 DEF Loop
    <3>2. Cardinality(Awake') \in Nat
      <4>1. Awake' \in SUBSET Threads
        BY DEF Awake
      <4> QED BY <4>1, CountAssumption, FS_Subset, FS_CardinalityType
    <3> QED BY <2>2, <3>1, <3>2, <1>a DEF EnoughAwake
  <2> QED BY <2>3, <2>4
<1>3. ASSUME NEW t \in Threads, TimePasses(t)
      PROVE  EnoughAwake'
  BY <1>3, AwakeSame DEF TimePasses, EnoughAwake
<1>4. ASSUME NEW t \in Threads, TimeOut(t)
      PROVE  EnoughAwake'
  <2>1. Cardinality(Awake') = Cardinality(Awake)
    BY <1>4, <1>a, AwakeSame DEF TimeOut, Goto
  <2> QED BY <1>4, <1>a, <2>1 DEF TimeOut, EnoughAwake, Goto, thread, Asleep
<1>5. ASSUME NEW t \in Threads, SpuriousWakeup(t)
      PROVE  EnoughAwake'
  <2>1. Cardinality(Awake') = Cardinality(Awake) + 1
    BY <1>5, AwakeOneMore DEF SpuriousWakeup, Asleep
  <2>2. \A u \in Threads : pc'[u] # "idle" => need'[u] = 1
    BY <1>5, <1>a DEF SpuriousWakeup, EnoughAwake, Goto, thread, Asleep
  <2>3. (\E u \in Threads : pc[u] \in Asleep) /\ count' = count
    BY <1>5 DEF SpuriousWakeup
  <2> QED BY <2>1, <2>2, <2>3, <1>a DEF EnoughAwake
<1>6. ASSUME NEW n \in Counts, semaphore_signal(n)
      PROVE  EnoughAwake'
  <2> DEFINE sleeping == {t \in Threads : pc[t] \in Asleep}
  <2>1. n = 1 /\ count' = count + 1 /\ need' = need
    BY <1>6 DEF semaphore_signal, thread
  <2>2. CASE count + n > 0 /\ sleeping # {}
    <3>1. PICK t \in sleeping : Goto(t, "loop")
      BY <1>6, <2>2 DEF semaphore_signal
    <3>2. Cardinality(Awake') = Cardinality(Awake) + 1
      BY <3>1, AwakeOneMore DEF Asleep
    <3>3. \A u \in Threads : pc'[u] # "idle" => need'[u] = 1
      BY <1>a, <2>1, <3>1 DEF EnoughAwake, Goto, Asleep
    <3> QED BY <1>a, <2>1, <3>1, <3>2, <3>3 DEF EnoughAwake
  <2>3. CASE ~(count + n > 0 /\ sleeping # {})
    <3>1. pc' = pc
      BY <1>6, <2>3 DEF semaphore_signal
    <3>2. Cardinality(Awake') = Cardinality(Awake)
      BY <3>1, AwakeSame
    <3> QED BY <1>a, <2>1, <2>3, <3>1, <3>2 DEF EnoughAwake
  <2> QED BY <2>2, <2>3
<1>7. CASE UNCHANGED vars
  BY <1>7, AwakeSame DEF vars, EnoughAwake
<1> QED BY <1>1, <1>2, <1>3, <1>4, <1>5, <1>6, <1>7 DEF Next

(* When wait and signal are called with one unit, no thread sleeps through *)
(* an available unit, although semaphore_signal wakes one waiter only, for *)
(* any number of waiters, time-outs and wake-ups without reason.           *)
THEOREM WaitersAreServed ==
    ASSUME Counts = {1}
    PROVE  Spec => []NoStuckWaiter
<1>1. WakeInv /\ [Next]_vars => WakeInv'
  BY WakeNext, SafeNext DEF WakeInv
<1>2. WakeInv => NoStuckWaiter
  <2> SUFFICES ASSUME WakeInv, NEW t \in Threads, pc[t] \in Asleep, need[t] <= count
               PROVE  \E u \in Threads : pc[u] = "loop"
    BY DEF NoStuckWaiter
  <2>1. need[t] = 1 /\ count <= Cardinality(Awake) /\ count \in Int
    BY DEF WakeInv, EnoughAwake, SafeInv, TypeOK, Asleep
  <2>2. Awake # {}
    BY <2>1, FS_EmptySet
  <2> QED BY <2>2 DEF Awake
<1> QED BY <1>1, <1>2, WakeInit, PTL DEF Spec
-----------------------------------------------------------------------------
(* The thread pool: its invariant *)

(* Nothing has gone wrong so far, except that two callers may have pushed  *)
(* at once, or a signal been lost.                                         *)
Clean == Damage = {} /\ "overrun" \notin mishap

CallerPC == {"idle", "take", "exchange", "init", "acquire", "write", "signal", "await",
             "free", "link", "push", "complete", "uncount"}
WorkerPC == {"wait", "claim", "run", "free", "push", "complete", "stopped"}
OwnerPC == {"idle", "acquire", "write", "signal", "join", "freed"}

Index == Places \cup {Null}
JobRecord == [gen : Nat, next : Index, done : BOOLEAN, join : BOOLEAN, sem : Nat,
              inst : Instances \cup {0}]
Locals == [job : Index, old : Index, new : Index, place : Places,
           join : BOOLEAN, inst : Instances \cup {0}, turn : Nat]

Controls ==
    /\ at \in [Agents -> CallerPC \cup WorkerPC \cup OwnerPC]
    /\ \A c \in Callers : at[c] \in CallerPC
    /\ \A w \in Workers : at[w] \in WorkerPC
    /\ at[Owner] \in OwnerPC

PoolTypes ==
    /\ jobs \in [Places -> JobRecord]
    /\ freeHead \in Index
    /\ ring \in [head : Places, tail : Places, temp : Places, cells : [Places -> Index]]
    /\ pending \in Nat /\ complete \in Nat /\ joinable \in Int
    /\ loc \in [Agents -> Locals] /\ Controls
    /\ ids \in [Instances -> [gen : Nat, idx : Places] \cup {NoId}]
    /\ created \in 0 .. MaxJobs
    /\ ran \in [Instances \cup {0} -> Nat]
    /\ unread \subseteq Places

(* The labels at which a caller or worker has a structure of its own *)
Holding == {"init", "acquire", "write", "run", "free", "link", "push"}
Holds(p) == p \in Callers \cup Workers /\ at[p] \in Holding

(* A thread that works on a structure has one. *)
HaveJobs ==
    /\ \A p \in Agents : Holds(p) => loc[p].job \in Places
    /\ \A c \in Callers : at[c] \in {"signal", "await"} => loc[c].job \in Places

(* The free list as a stack of n structures *)
Stacked(f, n, head, structures) ==
    /\ \A i, j \in 1 .. n : f[i] = f[j] => i = j
    /\ head = IF n = 0 THEN Null ELSE f[n]
    /\ \A i \in 1 .. n : structures[f[i]].next = IF i = 1 THEN Null ELSE f[i - 1]

IsStack(head, structures) ==
    \E n \in Nat, f \in [Nat -> Places] : Stacked(f, n, head, structures)

FreeList ==
    /\ IsStack(freeHead, jobs)
    /\ Cardinality(FreeJobs) = complete + Cardinality(Holders({"exchange", "complete"}))

(* A structure is in one place only. *)
Owned ==
    /\ \A p \in Agents : Holds(p) =>
          /\ loc[p].job \notin FreeJobs
          /\ \A r \in unread : ring.cells[r] # loc[p].job
          /\ \A q \in Agents : Holds(q) /\ loc[q].job = loc[p].job => p = q
          /\ at[p] = "push" => jobs[loc[p].job].next = loc[p].old
    /\ \A r \in unread :
          /\ ring.cells[r] \notin FreeJobs
          /\ \A s \in unread : ring.cells[r] = ring.cells[s] => r = s \/ ring.cells[r] = Null

(* A caller whose job has a number and no id *)
Creating(c) ==
    \/ at[c] \in {"take", "exchange", "init", "acquire", "write", "signal", "link"}
    \/ at[c] \in {"push", "complete"} /\ ids[loc[c].inst] = NoId

(* A job has one structure at most, for good. *)
Numbered ==
    /\ \A i \in Places :
          /\ jobs[i].inst \in 0 .. created
          /\ \A j \in Places : jobs[i].inst = jobs[j].inst => i = j \/ jobs[i].inst = 0
    /\ \A c \in Callers : at[c] # "idle" => loc[c].inst \in 1 .. created
    /\ \A c \in Callers : Creating(c) =>
          /\ ids[loc[c].inst] = NoId
          /\ \A d \in Callers : Creating(d) /\ loc[c].inst = loc[d].inst => c = d
    /\ \A c \in Callers : at[c] \in {"take", "exchange", "init"} =>
          /\ ran[loc[c].inst] = 0
          /\ \A i \in Places : jobs[i].inst # loc[c].inst
    /\ \A k \in Instances : ran[k] <= 1 /\ (k > created => ids[k] = NoId /\ ran[k] = 0)
    /\ \A c \in Callers : at[c] \in {"await", "free", "uncount"} => ids[loc[c].inst] # NoId

(* A structure whose job is still to be run *)
Fresh(i) ==
    /\ jobs[i].inst \in Instances
    /\ ran[jobs[i].inst] = 0
    /\ ~ jobs[i].done
    /\ jobs[i].join => jobs[i].sem = 0

ToRun ==
    /\ \A r \in unread : ring.cells[r] # Null => Fresh(ring.cells[r])
    /\ \A w \in Workers : at[w] = "run" => Fresh(loc[w].job)
    /\ \A c \in Callers : at[c] \in {"acquire", "write"} =>
          /\ Fresh(loc[c].job)
          /\ jobs[loc[c].job].inst = loc[c].inst
          /\ jobs[loc[c].job].join = loc[c].join

(* The id of job k reaches structure i, or its creator is about to have it. *)
Reaches(k, i) == ids[k] # NoId /\ ids[k].idx = i /\ ids[k].gen = jobs[i].gen
Owed(c, k, i) == at[c] = "signal" /\ loc[c].join /\ loc[c].inst = k /\ loc[c].job = i
Named(k, i) == Reaches(k, i) \/ \E c \in Callers : Owed(c, k, i)

Waiter(c) == c \in Callers /\ at[c] = "free"
Running(w, i) == at[w] = "run" /\ loc[w].job = i

NamedJob(k, i) ==
    /\ jobs[i].inst = k
    /\ jobs[i].join
    /\ i \notin FreeJobs
    /\ \A p \in Agents : Holds(p) /\ loc[p].job = i => at[p] = "run" \/ Waiter(p)
    /\ jobs[i].done =>
          /\ ran[k] = 1
          /\ jobs[i].sem = 1 \/ \E c \in Callers : Waiter(c) /\ loc[c].job = i
    /\ ~ jobs[i].done =>
          /\ jobs[i].sem = 0
          /\ \/ \E r \in unread : ring.cells[r] = i
             \/ \E w \in Workers : Running(w, i)

Gens == \A k \in Instances : ids[k] # NoId => ids[k].gen <= jobs[ids[k].idx].gen
Names == \A k \in Instances, i \in Places : Named(k, i) => NamedJob(k, i)
Awaits ==
    \A c \in Callers : at[c] \in {"await", "free"} =>
        /\ Reaches(loc[c].inst, loc[c].job)
        /\ \A d \in Callers : at[d] \in {"await", "free"} /\ loc[d].inst = loc[c].inst => c = d
Waits == \A c \in Callers : Waiter(c) => jobs[loc[c].job].done /\ jobs[loc[c].job].sem = 0
Ids == Gens /\ Names /\ Awaits /\ Waits

(* No structure is lost: while a joinable job is in the ring or being run, *)
(* there is an id for it, so that it is not lost when the worker leaves it. *)
Placed(i) ==
    \/ i \in FreeJobs
    \/ \E p \in Agents : Holds(p) /\ loc[p].job = i
    \/ \E r \in unread : ring.cells[r] = i
    \/ \E k \in Instances : Named(k, i)
Claimable(i) ==
    \/ \E r \in unread : ring.cells[r] = i
    \/ \E w \in Workers : Running(w, i)
Total ==
    \A i \in Places :
        /\ Placed(i)
        /\ jobs[i].join /\ Claimable(i) => \E k \in Instances : Named(k, i)

(* Joinable jobs: not yet with an id, with one, and no longer *)
Joining == {c \in Agents : at[c] \in {"acquire", "write", "signal"} /\ loc[c].join}
Valid == {k \in Instances : get_job_data(ids[k]) # Null}
Leaving == {c \in Callers : at[c] \in {"push", "complete", "uncount"} /\ ids[loc[c].inst] # NoId}
Counted == joinable = Cardinality(Joining) + Cardinality(Valid) + Cardinality(Leaving)

OwnerAlone ==
    /\ at[Owner] # "idle" => \A c \in Callers : at[c] = "idle"
    /\ loc[Owner].join = FALSE

(* How far place r is from place h, and the place that is n from it *)
Offset(h, r) == IF r >= h THEN r - h ELSE r - h + Slots
Ahead(h, n) == IF h + n < Slots THEN h + n ELSE h + n - Slots

(* A place that was acquired and not popped *)
Pushed(r) == r \in unread \/ \E p \in Agents : at[p] = "write" /\ loc[p].place = r

(* The places that were acquired and not popped are the n from the ring's  *)
(* head to temp; without overlap the last one alone may be unwritten.      *)
Windowed(n) ==
    /\ ring.temp = Ahead(ring.head, n)
    /\ \A r \in Places : Offset(ring.head, r) < n <=> Pushed(r)
    /\ \A p \in Agents : at[p] = "write" =>
          /\ loc[p].place \notin unread
          /\ \A q \in Agents : at[q] = "write" /\ loc[q].place = loc[p].place => p = q
    /\ at[Owner] = "write" => Offset(ring.head, loc[Owner].place) = n - 1
    /\ "overlap" \notin mishap => \A p \in Agents : at[p] = "write" =>
          /\ Offset(ring.head, loc[p].place) = n - 1
          /\ \A q \in Agents : at[q] = "write" => p = q
Window == \E n \in 0 .. Slots : Windowed(n)

(* The -1s come last. *)
StopsLast ==
    /\ at[Owner] = "idle" => \A r \in unread : ring.cells[r] # Null
    /\ at[Owner] = "idle" => \A w \in Workers : at[w] # "stopped"
    /\ \A r, s \in unread : ring.cells[r] = Null /\ ring.cells[s] # Null =>
          Offset(ring.head, s) < Offset(ring.head, r)
    /\ \A w \in Workers : at[w] = "stopped" => \A r \in unread : ring.cells[r] = Null
    /\ at[Owner] = "freed" => \A w \in Workers : at[w] = "stopped"

(* The owner counts the workers off once as it writes their -1s, and once  *)
(* as it signals.                                                          *)
W == Cardinality(Workers)
Turns ==
    /\ loc[Owner].turn < W
    /\ at[Owner] \notin {"acquire", "write", "signal"} => loc[Owner].turn = 0

(* The -1s in the ring that were not signalled, and the signals to come *)
OwnerWrote ==
    CASE at[Owner] \in {"acquire", "write"} -> loc[Owner].turn
      [] at[Owner] = "signal" -> W - loc[Owner].turn
      [] OTHER -> 0
OwnerSignals ==
    CASE at[Owner] \in {"idle", "acquire", "write"} -> W
      [] at[Owner] = "signal" -> W - loc[Owner].turn
      [] OTHER -> 0

(* How many threads are about to move the ring's head, how many are about  *)
(* to signal a job, and how many have stopped                              *)
NumberAt(threads, l) == Cardinality({p \in threads : at[p] = l})
Claiming == NumberAt(Workers, "claim")
Signalling == NumberAt(Callers, "signal")
Stopped == NumberAt(Workers, "stopped")

(* The places that hold a job, not a -1 *)
JobsIn(places, cells) == {r \in places : cells[r] # Null}
JobsLeft == Cardinality(JobsIn(unread, ring.cells))

(* No more pops are under way, or have been signalled, than were pushed.   *)
Promised == pending + Claiming + Signalling + OwnerWrote <= Cardinality(unread)

(* The signals, given and to come, are enough for the jobs in the ring and *)
(* for the workers that have not stopped.                                  *)
Enough ==
    "lost" \notin mishap =>
        (W - Stopped) + JobsLeft <= pending + Claiming + Signalling + OwnerSignals

(* This holds when the ring was overrun, too.  Where stale memory has been *)
(* popped, somebody is about to work on it.                                *)
EnoughUnlessDamage ==
    Damage = {} \/ (\A p \in Agents : at[p] \notin {"run", "init"}) => Enough

(* No -1 is in the ring, or about to be popped, before the pool is freed.  *)
NoStopYet ==
    at[Owner] = "idle" =>
        /\ \A r \in Places : ring.cells[r] # Null
        /\ \A w \in Workers : at[w] # "stopped" /\ (at[w] = "claim" => loc[w].job # Null)

(* Who has suffered from stale memory is at work on it. *)
DamageShown ==
    Damage # {} => at[Owner] # "idle" \/ \E p \in Agents : at[p] \in {"run", "init"}

(* Without two pushes at once nothing unwritten is popped, and the ring is *)
(* not overrun before the pool is freed.                                   *)
UnwrittenBlamed == "unwritten" \in mishap => mishap \cap {"overlap", "overrun"} # {}
OverrunBlamed == "overrun" \in mishap => at[Owner] # "idle" \/ Damage # {}

(* What holds while nothing has gone wrong, and what holds always *)
CleanInv == /\ FreeList /\ Owned /\ Numbered /\ ToRun /\ Ids /\ Total /\ Counted
            /\ Window /\ StopsLast /\ Promised

PoolInv == /\ PoolTypes /\ HaveJobs /\ OwnerAlone /\ Turns
           /\ NoStopYet /\ DamageShown /\ UnwrittenBlamed /\ OverrunBlamed
           /\ EnoughUnlessDamage
           /\ Clean => CleanInv
-----------------------------------------------------------------------------
(* The free list *)

(* What one reaches from the head of a stack is what is on it. *)
LEMMA StackReach ==
    ASSUME NEW n \in Nat, NEW f \in [Nat -> Places], NEW h, NEW s, Stacked(f, n, h, s)
    PROVE  ReachableFrom(h, s) = {f[i] : i \in 1 .. n}
<1> DEFINE R == {f[i] : i \in 1 .. n}
<1>0. Null \notin Places
  BY PoolAssumption DEF Null, Places
<1>1. ASSUME NEW j \in ReachableFrom(h, s) PROVE j \in R
  <2>1. R \in SUBSET Places
    OBVIOUS
  <2>2. h \in R \cup {Null}
    BY DEF Stacked
  <2>3. ASSUME NEW i \in 1 .. n PROVE s[f[i]].next \in R \cup {Null}
    <3>1. CASE i = 1
      BY <3>1 DEF Stacked
    <3>2. CASE i # 1
      <4>1. i - 1 \in 1 .. n /\ s[f[i]].next = f[i - 1]
        BY <3>2 DEF Stacked
      <4> QED BY <4>1
    <3> QED BY <3>1, <3>2
  <2>4. \A i \in R : s[i].next \in R \cup {Null}
    BY <2>3
  <2> HIDE DEF R
  <2> QED BY <2>1, <2>2, <2>4 DEF ReachableFrom
<1>2. ASSUME NEW m \in 1 .. n PROVE f[m] \in ReachableFrom(h, s)
  <2>1. SUFFICES ASSUME NEW S \in SUBSET Places, h \in S \cup {Null},
                        \A j \in S : s[j].next \in S \cup {Null}, f[m] \notin S
                 PROVE  FALSE
    BY DEF ReachableFrom
  <2> DEFINE T == {d \in Nat : d < n /\ f[n - d] \notin S}
  <2>2. n - m \in T
    <3>1. n - (n - m) = m /\ n - m \in Nat /\ n - m < n
      OBVIOUS
    <3> QED BY <2>1, <3>1
  <2>3. PICK d \in T : \A e \in T : d <= e
    <3>1. T \subseteq Nat /\ T # {}
      BY <2>2
    <3> HIDE DEF T
    <3> QED BY <3>1, LeastNatural
  <2>4. d \in Nat /\ d < n /\ f[n - d] \notin S
    BY <2>3
  <2>5. CASE d = 0
    <3>1. n # 0 /\ h = f[n] /\ f[n] \in Places /\ n - d = n
      BY <2>4, <2>5 DEF Stacked
    <3> QED BY <3>1, <2>1, <2>4, <1>0
  <2>6. CASE d # 0
    <3>1. d - 1 \notin T /\ d - 1 \in Nat /\ d - 1 < n /\ n - d + 1 \in 1 .. n /\ n - d \in 1 .. n
      BY <2>3, <2>4, <2>6
    <3>2. f[n - (d - 1)] \in S
      BY <3>1
    <3>3. n - (d - 1) = n - d + 1 /\ (n - d + 1) - 1 = n - d /\ n - d + 1 # 1
      BY <2>4, <2>6
    <3>4. s[f[n - d + 1]].next = f[n - d]
      BY <3>1, <3>3 DEF Stacked
    <3>5. f[n - d] \in Places
      BY <3>1
    <3> QED BY <3>2, <3>3, <3>4, <3>5, <2>1, <2>4, <1>0
  <2> QED BY <2>5, <2>6
<1> QED BY <1>1, <1>2

(* The head of the list is on it, and there is none if the list is empty.  *)
LEMMA StackHead ==
    ASSUME NEW h, NEW s, IsStack(h, s)
    PROVE  /\ ReachableFrom(h, s) \subseteq Places
           /\ h # Null => h \in ReachableFrom(h, s)
           /\ h = Null => ReachableFrom(h, s) = {}
<1>1. PICK n \in Nat, f \in [Nat -> Places] : Stacked(f, n, h, s)
  BY DEF IsStack
<1>2. ReachableFrom(h, s) = {f[i] : i \in 1 .. n}
  BY <1>1, StackReach
<1>3. Null \notin Places
  BY PoolAssumption DEF Null, Places
<1>4. CASE n = 0
  BY <1>1, <1>2, <1>4 DEF Stacked
<1>5. CASE n # 0
  <2>1. n \in 1 .. n /\ h = f[n] /\ f[n] \in Places
    BY <1>1, <1>5 DEF Stacked
  <2> QED BY <1>2, <1>3, <2>1
<1> QED BY <1>4, <1>5

(* A change of what is not on the list leaves the list alone. *)
LEMMA StackSame ==
    ASSUME NEW h, NEW s, NEW t, IsStack(h, s),
           \A i \in ReachableFrom(h, s) : t[i].next = s[i].next
    PROVE  IsStack(h, t) /\ ReachableFrom(h, t) = ReachableFrom(h, s)
<1>1. PICK n \in Nat, f \in [Nat -> Places] : Stacked(f, n, h, s)
  BY DEF IsStack
<1>2. ReachableFrom(h, s) = {f[i] : i \in 1 .. n}
  BY <1>1, StackReach
<1>3. Stacked(f, n, h, t)
  BY <1>1, <1>2 DEF Stacked
<1>4. ReachableFrom(h, t) = {f[i] : i \in 1 .. n}
  BY <1>3, StackReach
<1> QED BY <1>2, <1>3, <1>4 DEF IsStack

(* A structure that was not on the list and is linked to its head becomes  *)
(* the head.                                                               *)
LEMMA StackPush ==
    ASSUME NEW h, NEW s, IsStack(h, s), NEW j \in Places, j \notin ReachableFrom(h, s),
           s[j].next = h
    PROVE  IsStack(j, s) /\ ReachableFrom(j, s) = ReachableFrom(h, s) \cup {j}
<1>1. PICK n \in Nat, f \in [Nat -> Places] : Stacked(f, n, h, s)
  BY DEF IsStack
<1>2. ReachableFrom(h, s) = {f[i] : i \in 1 .. n}
  BY <1>1, StackReach
<1> DEFINE g == [f EXCEPT ![n + 1] = j]
<1>3. g \in [Nat -> Places] /\ g[n + 1] = j /\ \A i \in 1 .. n : g[i] = f[i]
  OBVIOUS
<1> HIDE DEF g
<1>4. Stacked(g, n + 1, j, s)
  <2>1. ASSUME NEW a \in 1 .. n + 1, NEW b \in 1 .. n + 1, g[a] = g[b] PROVE a = b
    <3>1. \A i \in 1 .. n : g[i] # j
      BY <1>2, <1>3
    <3> QED BY <1>1, <1>3, <2>1, <3>1 DEF Stacked
  <2>2. ASSUME NEW i \in 1 .. n + 1 PROVE s[g[i]].next = IF i = 1 THEN Null ELSE g[i - 1]
    <3>1. CASE i = n + 1
      <4>1. CASE n = 0
        BY <1>1, <1>3, <3>1, <4>1 DEF Stacked
      <4>2. CASE n # 0
        <5>1. n \in 1 .. n /\ h = f[n] /\ i - 1 = n /\ i # 1
          BY <1>1, <3>1, <4>2 DEF Stacked
        <5> QED BY <1>3, <3>1, <5>1
      <4> QED BY <4>1, <4>2
    <3>2. CASE i # n + 1
      <4>1. i \in 1 .. n /\ (i # 1 => i - 1 \in 1 .. n)
        BY <3>2
      <4> QED BY <1>1, <1>3, <4>1 DEF Stacked
    <3> QED BY <3>1, <3>2
  <2> QED BY <1>3, <2>1, <2>2 DEF Stacked
<1>5. ReachableFrom(j, s) = {g[i] : i \in 1 .. n + 1}
  <2>1. n + 1 \in Nat
    OBVIOUS
  <2> QED BY <1>3, <1>4, <2>1, StackReach
<1>6. {g[i] : i \in 1 .. n + 1} = {f[i] : i \in 1 .. n} \cup {j}
  <2>1. \A i \in 1 .. n : i \in 1 .. n + 1
    OBVIOUS
  <2>2. n + 1 \in 1 .. n + 1 /\ \A i \in 1 .. n + 1 : i = n + 1 \/ i \in 1 .. n
    OBVIOUS
  <2> QED BY <1>3, <2>1, <2>2
<1>7. IsStack(j, s)
  <2>1. n + 1 \in Nat
    OBVIOUS
  <2> QED BY <1>3, <1>4, <2>1 DEF IsStack
<1> QED BY <1>2, <1>5, <1>6, <1>7

(* Without its head the list goes on with the head's successor. *)
LEMMA StackPop ==
    ASSUME NEW h, NEW s, IsStack(h, s), h # Null
    PROVE  /\ IsStack(s[h].next, s)
           /\ ReachableFrom(s[h].next, s) = ReachableFrom(h, s) \ {h}
<1>1. PICK n \in Nat, f \in [Nat -> Places] : Stacked(f, n, h, s)
  BY DEF IsStack
<1>2. ReachableFrom(h, s) = {f[i] : i \in 1 .. n}
  BY <1>1, StackReach
<1>3. n # 0 /\ h = f[n] /\ n \in 1 .. n /\ n - 1 \in Nat
  BY <1>1 DEF Stacked
<1>4. Stacked(f, n - 1, s[h].next, s)
  BY <1>1, <1>3 DEF Stacked
<1>5. ReachableFrom(s[h].next, s) = {f[i] : i \in 1 .. n - 1}
  BY <1>3, <1>4, StackReach
<1>6. {f[i] : i \in 1 .. n - 1} = {f[i] : i \in 1 .. n} \ {f[n]}
  <2>1. \A i \in 1 .. n - 1 : i \in 1 .. n /\ i # n
    BY <1>3
  <2>2. \A i \in 1 .. n : i = n \/ i \in 1 .. n - 1
    BY <1>3
  <2>3. \A i \in 1 .. n - 1 : f[i] # f[n]
    BY <1>1, <1>3, <2>1 DEF Stacked
  <2> QED BY <2>1, <2>2, <2>3
<1> QED BY <1>2, <1>3, <1>4, <1>5, <1>6 DEF IsStack
-----------------------------------------------------------------------------
(* What each step does, field by field *)

(* p goes to l, and the other threads stay where they are. *)
Alone(p, l) ==
    /\ at'[p] = l
    /\ \A q \in Agents \ {p} : at'[q] = at[q] /\ loc'[q] = loc[q]

OnlyJob(i) == \A j \in Places \ {i} : jobs'[j] = jobs[j]

SameCreation(p) == loc'[p].inst = loc[p].inst /\ loc'[p].join = loc[p].join

CreateEffect(c, join) ==
    /\ at[c] = "idle" /\ at[Owner] = "idle"
    /\ Alone(c, "take")
    /\ loc'[c].inst = created + 1 /\ loc'[c].join = join
    /\ created < MaxJobs /\ created' = created + 1
    /\ UNCHANGED <<jobs, freeHead, ring, unread, mishap, pending, complete, joinable, ids, ran>>

TakeEffect(c) ==
    /\ at[c] = "take"
    /\ Alone(c, "exchange")
    /\ SameCreation(c)
    /\ complete > 0 /\ complete' = complete - 1
    /\ UNCHANGED <<jobs, freeHead, ring, unread, mishap, pending, joinable, ids, created, ran>>

RetryEffect(c) ==
    /\ at[c] = "exchange"
    /\ Alone(c, "exchange")
    /\ SameCreation(c)
    /\ UNCHANGED <<jobs, freeHead, ring, unread, mishap, pending, complete, joinable,
                   ids, created, ran>>

PopEffect(c) ==
    /\ at[c] = "exchange"
    /\ Alone(c, "init")
    /\ SameCreation(c)
    /\ loc'[c].job = freeHead
    /\ \/ freeHead' = jobs[freeHead].next /\ mishap' = mishap
       \/ mishap' = mishap \cup {"aba"}
    /\ UNCHANGED <<jobs, ring, unread, pending, complete, joinable, ids, created, ran>>

InitEffect(c) ==
    LET j == loc[c].job
    IN  /\ at[c] = "init"
        /\ Alone(c, "acquire") /\ loc'[c] = loc[c]
        /\ OnlyJob(j)
        /\ jobs'[j].gen = jobs[j].gen /\ jobs'[j].next = jobs[j].next
        /\ ~ jobs'[j].done
        /\ jobs'[j].join = loc[c].join
        /\ jobs'[j].inst = loc[c].inst
        /\ loc[c].join => jobs'[j].sem = 0
        /\ joinable' = IF loc[c].join THEN joinable + 1 ELSE joinable
        /\ UNCHANGED <<freeHead, ring, unread, mishap, pending, complete, ids, created, ran>>

FailEffect(c) ==
    LET j == loc[c].job
    IN  /\ at[c] = "init"
        /\ Alone(c, "link") /\ loc'[c] = loc[c]
        /\ OnlyJob(j)
        /\ jobs'[j].gen = jobs[j].gen /\ jobs'[j].next = jobs[j].next
        /\ jobs'[j].inst = loc[c].inst
        /\ UNCHANGED <<freeHead, ring, unread, mishap, pending, complete, joinable,
                       ids, created, ran>>

SignalEffect(c) ==
    LET j == loc[c].job
        k == loc[c].inst
    IN  /\ at[c] = "signal"
        /\ Alone(c, "idle")
        /\ \/ pending' = pending + 1 /\ mishap' = mishap
           \/ pending' = pending /\ mishap' = mishap \cup {"lost"}
        /\ \A m \in Instances \ {k} : ids'[m] = ids[m]
        /\ IF loc[c].join /\ k \in Instances
           THEN ids'[k] # NoId /\ ids'[k].gen = jobs[j].gen /\ ids'[k].idx = j
           ELSE ids' = ids
        /\ UNCHANGED <<jobs, freeHead, ring, unread, complete, joinable, created, ran>>

WaitEffect(c, k) ==
    /\ at[c] = "idle" /\ at[Owner] = "idle"
    /\ \A d \in Callers : at[d] \in {"await", "free"} => loc[d].inst # k
    /\ Alone(c, "await")
    /\ loc'[c].inst = k /\ loc'[c].job \in Places
    /\ Reaches(k, loc'[c].job)
    /\ UNCHANGED <<jobs, freeHead, ring, unread, mishap, pending, complete, joinable,
                   ids, created, ran>>

AwaitEffect(c) ==
    LET j == loc[c].job
    IN  /\ at[c] = "await"
        /\ Alone(c, "free") /\ loc'[c] = loc[c]
        /\ OnlyJob(j)
        /\ jobs[j].sem > 0 /\ jobs'[j].sem = jobs[j].sem - 1
        /\ jobs'[j].gen = jobs[j].gen /\ jobs'[j].next = jobs[j].next
        /\ jobs'[j].done = jobs[j].done /\ jobs'[j].join = jobs[j].join
        /\ jobs'[j].inst = jobs[j].inst
        /\ UNCHANGED <<freeHead, ring, unread, mishap, pending, complete, joinable,
                       ids, created, ran>>

LinkEffect(p) ==
    LET j == loc[p].job
    IN  /\ Alone(p, "push")
        /\ SameCreation(p)
        /\ loc'[p].job = j /\ loc'[p].old = freeHead
        /\ OnlyJob(j)
        /\ jobs'[j].next = freeHead
        /\ jobs'[j].done = jobs[j].done /\ jobs'[j].join = jobs[j].join
        /\ jobs'[j].sem = jobs[j].sem /\ jobs'[j].inst = jobs[j].inst
        /\ UNCHANGED <<freeHead, ring, unread, mishap, pending, complete, joinable,
                       ids, created, ran>>

FreeEffect(p) == at[p] = "free" /\ LinkEffect(p) /\ jobs'[loc[p].job].gen = jobs[loc[p].job].gen + 1
ReturnEffect(p) == at[p] = "link" /\ LinkEffect(p) /\ jobs'[loc[p].job].gen = jobs[loc[p].job].gen
RelinkEffect(p) == at[p] = "push" /\ LinkEffect(p) /\ jobs'[loc[p].job].gen = jobs[loc[p].job].gen

PushEffect(p) ==
    /\ at[p] = "push"
    /\ Alone(p, "complete") /\ loc'[p] = loc[p]
    /\ freeHead = loc[p].old /\ freeHead' = loc[p].job
    /\ UNCHANGED <<jobs, ring, unread, mishap, pending, complete, joinable, ids, created, ran>>

CompleteEffect(p) ==
    /\ at[p] = "complete"
    /\ \/ p \in Workers /\ Alone(p, "wait")
       \/ p \in Callers /\ ids[loc[p].inst] # NoId /\ Alone(p, "uncount") /\ loc'[p] = loc[p]
       \/ p \in Callers /\ ids[loc[p].inst] = NoId /\ Alone(p, "idle")
    /\ complete' = complete + 1
    /\ UNCHANGED <<jobs, freeHead, ring, unread, mishap, pending, joinable, ids, created, ran>>

UncountEffect(c) ==
    /\ at[c] = "uncount"
    /\ Alone(c, "idle")
    /\ joinable' = joinable - 1
    /\ UNCHANGED <<jobs, freeHead, ring, unread, mishap, pending, complete, ids, created, ran>>

(* The place after r *)
After(r) == IF r + 1 < Slots THEN r + 1 ELSE 0

AcquireEffect(p) ==
    /\ at[p] = "acquire"
    /\ Alone(p, "write")
    /\ SameCreation(p) /\ loc'[p].job = loc[p].job /\ loc'[p].turn = loc[p].turn
    /\ loc'[p].place = ring.temp
    /\ ring'.head = ring.head /\ ring'.cells = ring.cells /\ ring'.temp = After(ring.temp)
    /\ unread' = unread \ {ring.temp}
    /\ mishap \subseteq mishap'
    /\ mishap' \subseteq mishap \cup {"overrun", "overlap"}
    /\ "overrun" \in mishap' => "overrun" \in mishap \/ ring.temp \in unread
    /\ ring.temp \in unread => "overrun" \in mishap'
    /\ "overlap" \notin mishap' => \A q \in Agents : at[q] # "write"
    /\ UNCHANGED <<jobs, freeHead, pending, complete, joinable, ids, created, ran>>

(* What a write does to the ring *)
StoreEffect(p, x) ==
    /\ at[p] = "write"
    /\ ring'.head = ring.head /\ ring'.temp = ring.temp
    /\ ring'.cells[loc[p].place] = x
    /\ \A r \in Places \ {loc[p].place} : ring'.cells[r] = ring.cells[r]
    /\ unread' = unread \cup {loc[p].place}
    /\ UNCHANGED <<jobs, freeHead, mishap, pending, complete, joinable, ids, created, ran>>

WriteEffect(c) ==
    /\ StoreEffect(c, loc[c].job)
    /\ Alone(c, "signal")
    /\ SameCreation(c) /\ loc'[c].job = loc[c].job

StopEffect ==
    /\ StoreEffect(Owner, Null)
    /\ \/ /\ loc[Owner].turn < Cardinality(Workers) - 1
          /\ Alone(Owner, "acquire")
          /\ loc'[Owner].turn = loc[Owner].turn + 1
       \/ /\ ~(loc[Owner].turn < Cardinality(Workers) - 1)
          /\ Alone(Owner, "signal")
          /\ loc'[Owner].turn = 0
    /\ loc'[Owner].join = loc[Owner].join

PendingEffect(w) ==
    /\ at[w] = "wait"
    /\ Alone(w, "claim") /\ loc'[w].job = ring.cells[ring.head]
    /\ pending > 0 /\ pending' = pending - 1
    /\ UNCHANGED <<jobs, freeHead, ring, unread, mishap, complete, joinable, ids, created, ran>>

ReadAgainEffect(w) ==
    /\ at[w] = "claim"
    /\ Alone(w, "claim") /\ loc'[w].job = ring.cells[ring.head]
    /\ UNCHANGED <<jobs, freeHead, ring, unread, mishap, pending, complete, joinable,
                   ids, created, ran>>

ClaimEffect(w) ==
    /\ at[w] = "claim"
    /\ Alone(w, IF loc[w].job = Null THEN "stopped" ELSE "run")
    /\ loc'[w].job = loc[w].job
    /\ ring'.head = After(ring.head) /\ ring'.cells = ring.cells /\ ring'.temp = ring.temp
    /\ unread' = unread \ {ring.head}
    /\ \/ /\ mishap' = mishap
          /\ ring.head \in unread /\ ring.cells[ring.head] = loc[w].job
       \/ mishap' = mishap \cup {"unwritten"} /\ ring.head \notin unread
       \/ mishap' = mishap \cup {"stale"}
    /\ UNCHANGED <<jobs, freeHead, pending, complete, joinable, ids, created, ran>>

RunEffect(w) ==
    LET j == loc[w].job
    IN  /\ at[w] = "run"
        /\ ran'[jobs[j].inst] = ran[jobs[j].inst] + 1
        /\ \A k \in (Instances \cup {0}) \ {jobs[j].inst} : ran'[k] = ran[k]
        /\ \/ /\ jobs[j].join
              /\ Alone(w, "wait")
              /\ OnlyJob(j)
              /\ jobs'[j].done /\ jobs'[j].sem = jobs[j].sem + 1
              /\ jobs'[j].gen = jobs[j].gen /\ jobs'[j].next = jobs[j].next
              /\ jobs'[j].join = jobs[j].join /\ jobs'[j].inst = jobs[j].inst
           \/ ~ jobs[j].join /\ Alone(w, "free") /\ loc'[w] = loc[w] /\ jobs' = jobs
        /\ UNCHANGED <<freeHead, ring, unread, mishap, pending, complete, joinable,
                       ids, created>>

QuitEffect ==
    /\ at[Owner] = "idle"
    /\ \A c \in Callers : at[c] = "idle"
    /\ Alone(Owner, "acquire") /\ loc'[Owner] = loc[Owner]
    /\ UNCHANGED <<jobs, freeHead, ring, unread, mishap, pending, complete, joinable,
                   ids, created, ran>>

SignalWorkersEffect ==
    /\ at[Owner] = "signal"
    /\ \/ /\ loc[Owner].turn < Cardinality(Workers) - 1
          /\ Alone(Owner, "signal")
          /\ loc'[Owner].turn = loc[Owner].turn + 1
       \/ /\ ~(loc[Owner].turn < Cardinality(Workers) - 1)
          /\ Alone(Owner, "join")
          /\ loc'[Owner].turn = 0
    /\ loc'[Owner].join = loc[Owner].join
    /\ \/ pending' = pending + 1 /\ mishap' = mishap
       \/ pending' = pending /\ mishap' = mishap \cup {"lost"}
    /\ UNCHANGED <<jobs, freeHead, ring, unread, complete, joinable, ids, created, ran>>

JoinEffect ==
    /\ at[Owner] = "join"
    /\ \A w \in Workers : at[w] = "stopped"
    /\ Alone(Owner, "freed") /\ loc'[Owner] = loc[Owner]
    /\ UNCHANGED <<jobs, freeHead, ring, unread, mishap, pending, complete, joinable,
                   ids, created, ran>>
-----------------------------------------------------------------------------
(* The threads are distinct, and -1 is no structure. *)
LEMMA AgentFacts ==
    /\ Callers \subseteq Agents /\ Workers \subseteq Agents /\ Owner \in Agents
    /\ Callers \cap Workers = {}
    /\ Owner \notin Callers /\ Owner \notin Workers
    /\ Agents = Callers \cup Workers \cup {Owner}
    /\ Null \notin Places /\ 0 \notin Instances
    /\ 0 \in Places
  BY PoolAssumption DEF Agents, Null, Places, Instances

(* A thread moves. *)
LEMMA AtStep ==
    ASSUME Controls, NEW p \in Agents, NEW l, Moves(p, l),
           p \in Callers => l \in CallerPC,
           p \in Workers => l \in WorkerPC,
           p = Owner => l \in OwnerPC
    PROVE  /\ Controls'
           /\ at'[p] = l
           /\ \A q \in Agents \ {p} : at'[q] = at[q]
  BY AgentFacts DEF Controls, Moves

(* A thread that works on a structure after a step has one. *)
LEMMA HaveStep ==
    ASSUME HaveJobs, NEW p \in Agents, NEW l, Alone(p, l),
           l \in Holding \cup {"signal", "await"} => p = Owner \/ loc'[p].job \in Places
    PROVE  HaveJobs'
  BY AgentFacts DEF HaveJobs, Holds, Holding, Alone

(* create_job takes a number and goes to wait for a structure. *)
LEMMA CreateStep ==
    ASSUME PoolTypes, HaveJobs, NEW c \in Callers, NEW join \in BOOLEAN, create_job(c, join)
    PROVE  PoolTypes' /\ HaveJobs' /\ CreateEffect(c, join)
<1>1. c \in Agents /\ loc \in [Agents -> Locals] /\ Controls /\ created \in 0 .. MaxJobs
  BY AgentFacts DEF PoolTypes
<1>2. /\ created < MaxJobs /\ created' = created + 1
      /\ loc' = [loc EXCEPT ![c].join = join, ![c].inst = created + 1]
      /\ Moves(c, "take") /\ at[c] = "idle" /\ at[Owner] = "idle"
      /\ UNCHANGED <<jobs, freeHead, ring, unread, mishap, pending, complete, joinable, ids, ran>>
  BY DEF create_job, list, queue, counts
<1>3. created + 1 \in Instances \cup {0} /\ created' \in 0 .. MaxJobs
  BY <1>1, <1>2, PoolAssumption DEF Instances
<1>4. /\ loc' \in [Agents -> Locals]
      /\ loc'[c].inst = created + 1 /\ loc'[c].join = join
      /\ \A q \in Agents \ {c} : loc'[q] = loc[q]
  BY <1>1, <1>2, <1>3 DEF Locals
<1>5. Controls' /\ at'[c] = "take" /\ \A q \in Agents \ {c} : at'[q] = at[q]
  <2>1. "take" \in CallerPC
    BY DEF CallerPC
  <2> QED BY <1>1, <1>2, <2>1, AtStep, AgentFacts
<1>6. CreateEffect(c, join)
  BY <1>2, <1>4, <1>5 DEF CreateEffect, Alone
<1>7. PoolTypes'
  BY <1>2, <1>3, <1>4, <1>5 DEF PoolTypes
<1>8. HaveJobs'
  <2>1. Alone(c, "take")
    BY <1>6 DEF CreateEffect
  <2> QED BY <1>1, <2>1, HaveStep DEF Holding
<1> QED BY <1>6, <1>7, <1>8

(* A caller that was let through by complete reads the head of the list. *)
LEMMA TakeStep ==
    ASSUME PoolTypes, HaveJobs, NEW c \in Callers, freeHead # Null, TakeSlot(c)
    PROVE  PoolTypes' /\ HaveJobs' /\ TakeEffect(c)
<1>1. /\ c \in Agents /\ loc \in [Agents -> Locals] /\ Controls /\ complete \in Nat
      /\ freeHead \in Places /\ jobs \in [Places -> JobRecord]
  BY AgentFacts DEF PoolTypes, Index
<1>2. PICK x \in Index : x = jobs[freeHead].next
  BY <1>1 DEF JobRecord
<1>3. freeHead \in Index
  BY <1>1 DEF Index
<1>4. /\ at[c] = "take" /\ complete > 0 /\ complete' = complete - 1
      /\ loc' = [loc EXCEPT ![c].old = freeHead, ![c].new = x]
      /\ Moves(c, "exchange")
      /\ UNCHANGED <<jobs, freeHead, ring, unread, mishap, pending, joinable, ids, created, ran>>
  BY <1>2 DEF TakeSlot, PopRead, list, queue, history
<1>5. /\ loc' \in [Agents -> Locals] /\ SameCreation(c)
      /\ \A q \in Agents \ {c} : loc'[q] = loc[q]
  BY <1>1, <1>3, <1>4 DEF Locals, SameCreation
<1>6. Controls' /\ at'[c] = "exchange" /\ \A q \in Agents \ {c} : at'[q] = at[q]
  <2>1. "exchange" \in CallerPC
    BY DEF CallerPC
  <2> QED BY <1>1, <1>4, <2>1, AtStep, AgentFacts
<1>7. TakeEffect(c)
  BY <1>4, <1>5, <1>6 DEF TakeEffect, Alone
<1>8. complete' \in Nat
  BY <1>1, <1>4
<1>9. PoolTypes'
  BY <1>4, <1>5, <1>6, <1>8 DEF PoolTypes
<1>10. HaveJobs'
  <2>1. Alone(c, "exchange")
    BY <1>7 DEF TakeEffect
  <2> QED BY <1>1, <2>1, HaveStep DEF Holding
<1> QED BY <1>7, <1>9, <1>10

(* The exchange of free_list_pop takes the head, or its reads are          *)
(* repeated.                                                               *)
LEMMA PopStep ==
    ASSUME PoolTypes, HaveJobs, NEW c \in Callers, freeHead # Null, PopExchange(c)
    PROVE  PoolTypes' /\ HaveJobs' /\ (RetryEffect(c) \/ PopEffect(c))
<1>1. /\ c \in Agents /\ loc \in [Agents -> Locals] /\ Controls
      /\ freeHead \in Places /\ jobs \in [Places -> JobRecord]
  BY AgentFacts DEF PoolTypes, Index
<1>2. PICK x \in Index : x = jobs[freeHead].next
  BY <1>1 DEF JobRecord
<1>3. freeHead \in Index /\ Null \in Index /\ loc[c].new \in Index
  BY <1>1 DEF Index, Locals
<1>4. /\ at[c] = "exchange"
      /\ UNCHANGED <<jobs, ring, unread, pending, complete, joinable, ids, created, ran>>
  BY DEF PopExchange, counts, history
<1>5. CASE freeHead = loc[c].old
  <2>1. /\ freeHead' = loc[c].new
        /\ loc' = [loc EXCEPT ![c].job = freeHead, ![c].old = Null, ![c].new = Null]
        /\ Suffers(IF loc[c].new # x THEN {"aba"} ELSE {})
        /\ Moves(c, "init")
    BY <1>2, <1>5 DEF PopExchange
  <2>2. \/ freeHead' = jobs[freeHead].next /\ mishap' = mishap
        \/ mishap' = mishap \cup {"aba"}
    BY <1>2, <2>1 DEF Suffers
  <2>3. /\ loc' \in [Agents -> Locals] /\ SameCreation(c) /\ loc'[c].job = freeHead
        /\ \A q \in Agents \ {c} : loc'[q] = loc[q]
    BY <1>1, <1>3, <2>1, ZenonT(40) DEF Locals, SameCreation
  <2>4. Controls' /\ at'[c] = "init" /\ \A q \in Agents \ {c} : at'[q] = at[q]
    <3>1. "init" \in CallerPC
      BY DEF CallerPC
    <3> QED BY <1>1, <2>1, <3>1, AtStep, AgentFacts
  <2>5. PopEffect(c)
    BY <1>4, <2>2, <2>3, <2>4 DEF PopEffect, Alone
  <2>6. PoolTypes'
    BY <1>3, <1>4, <2>1, <2>3, <2>4 DEF PoolTypes
  <2>7. HaveJobs'
    <3>1. Alone(c, "init") /\ loc'[c].job \in Places
      BY <1>1, <2>5 DEF PopEffect
    <3> QED BY <1>1, <3>1, HaveStep
  <2> QED BY <2>5, <2>6, <2>7
<1>6. CASE freeHead # loc[c].old
  <2>1. /\ loc' = [loc EXCEPT ![c].old = freeHead, ![c].new = x]
        /\ Moves(c, "exchange")
        /\ UNCHANGED <<freeHead, mishap>>
    BY <1>2, <1>6 DEF PopExchange, PopRead
  <2>2. /\ loc' \in [Agents -> Locals] /\ SameCreation(c)
        /\ \A q \in Agents \ {c} : loc'[q] = loc[q]
    BY <1>1, <1>3, <2>1 DEF Locals, SameCreation
  <2>3. Controls' /\ at'[c] = "exchange" /\ \A q \in Agents \ {c} : at'[q] = at[q]
    <3>1. "exchange" \in CallerPC
      BY DEF CallerPC
    <3> QED BY <1>1, <2>1, <3>1, AtStep, AgentFacts
  <2>4. RetryEffect(c)
    BY <1>4, <2>1, <2>2, <2>3 DEF RetryEffect, Alone
  <2>5. PoolTypes'
    BY <1>4, <2>1, <2>2, <2>3 DEF PoolTypes
  <2>6. HaveJobs'
    <3>1. Alone(c, "exchange")
      BY <2>4 DEF RetryEffect
    <3> QED BY <1>1, <3>1, HaveStep DEF Holding
  <2> QED BY <2>4, <2>5, <2>6
<1> QED BY <1>5, <1>6

(* The caller fills the structure it has popped. *)
LEMMA InitStep ==
    ASSUME PoolTypes, HaveJobs, NEW c \in Callers, InitJob(c)
    PROVE  PoolTypes' /\ HaveJobs' /\ InitEffect(c)
<1>1. /\ c \in Agents /\ loc \in [Agents -> Locals] /\ Controls /\ at[c] = "init"
      /\ jobs \in [Places -> JobRecord] /\ joinable \in Int
  BY AgentFacts DEF PoolTypes, InitJob
<1>2. loc[c].job \in Places
  BY <1>1 DEF HaveJobs, Holds, Holding
<1>3. PICK j \in Places : j = loc[c].job
  BY <1>2
<1>4. PICK b \in BOOLEAN : b = loc[c].join
  BY <1>1 DEF Locals
<1>5. PICK k \in Instances \cup {0} : k = loc[c].inst
  BY <1>1 DEF Locals
<1>6. PICK y \in Nat : y = IF b THEN 0 ELSE jobs[j].sem
  BY <1>1 DEF JobRecord
<1>9. /\ jobs' = [jobs EXCEPT ![j].done = FALSE, ![j].join = b, ![j].inst = k, ![j].sem = y]
      /\ joinable' = IF b THEN joinable + 1 ELSE joinable
      /\ Moves(c, "acquire")
      /\ UNCHANGED <<freeHead, ring, unread, mishap, pending, complete, ids, created, ran, loc>>
  BY <1>3, <1>4, <1>5, <1>6 DEF InitJob, queue, history
<1>10. /\ jobs' \in [Places -> JobRecord] /\ OnlyJob(j)
       /\ jobs'[j].gen = jobs[j].gen /\ jobs'[j].next = jobs[j].next /\ ~ jobs'[j].done
       /\ jobs'[j].join = b /\ jobs'[j].inst = k /\ jobs'[j].sem = y
  BY <1>1, <1>9, ZenonT(40) DEF JobRecord, OnlyJob
<1>11. Controls' /\ at'[c] = "acquire" /\ \A p \in Agents \ {c} : at'[p] = at[p]
  <2>1. "acquire" \in CallerPC
    BY DEF CallerPC
  <2> QED BY <1>1, <1>9, <2>1, AtStep, AgentFacts
<1>12. InitEffect(c)
  BY <1>1, <1>3, <1>4, <1>5, <1>6, <1>9, <1>10, <1>11 DEF InitEffect, Alone
<1>13. PoolTypes'
  <2>1. joinable' \in Int
    BY <1>1, <1>9
  <2> QED BY <1>9, <1>10, <1>11, <2>1 DEF PoolTypes
<1>14. HaveJobs'
  <2>1. Alone(c, "acquire") /\ loc'[c].job \in Places
    BY <1>2, <1>9, <1>12 DEF InitEffect
  <2> QED BY <1>1, <2>1, HaveStep
<1> QED BY <1>12, <1>13, <1>14

(* The semaphore of a joinable job cannot be had. *)
LEMMA FailStep ==
    ASSUME PoolTypes, HaveJobs, NEW c \in Callers, InitFails(c)
    PROVE  PoolTypes' /\ HaveJobs' /\ FailEffect(c)
<1>1. /\ c \in Agents /\ loc \in [Agents -> Locals] /\ Controls /\ at[c] = "init"
      /\ jobs \in [Places -> JobRecord]
  BY AgentFacts DEF PoolTypes, InitFails
<1>2. loc[c].job \in Places
  BY <1>1 DEF HaveJobs, Holds, Holding
<1>3. PICK j \in Places : j = loc[c].job
  BY <1>2
<1>5. PICK k \in Instances \cup {0} : k = loc[c].inst
  BY <1>1 DEF Locals
<1>6. /\ jobs' = [jobs EXCEPT ![j] = [@ EXCEPT !.done = FALSE, !.join = TRUE, !.inst = k]]
      /\ Moves(c, "link")
      /\ UNCHANGED <<freeHead, ring, unread, mishap, pending, complete, joinable,
                     ids, created, ran, loc>>
  BY <1>3, <1>5 DEF InitFails, queue, counts, history
<1>7. /\ jobs' \in [Places -> JobRecord]
      /\ OnlyJob(j)
      /\ jobs'[j].gen = jobs[j].gen /\ jobs'[j].next = jobs[j].next
      /\ jobs'[j].inst = k
  BY <1>1, <1>6 DEF JobRecord, OnlyJob
<1>8. Controls' /\ at'[c] = "link" /\ \A q \in Agents \ {c} : at'[q] = at[q]
  <2>1. "link" \in CallerPC
    BY DEF CallerPC
  <2> QED BY <1>1, <1>6, <2>1, AtStep, AgentFacts
<1>9. FailEffect(c)
  BY <1>1, <1>3, <1>5, <1>6, <1>7, <1>8 DEF FailEffect, Alone
<1>10. PoolTypes'
  BY <1>6, <1>7, <1>8 DEF PoolTypes
<1>11. HaveJobs'
  <2>1. Alone(c, "link") /\ loc'[c].job \in Places
    BY <1>2, <1>6, <1>9 DEF FailEffect
  <2> QED BY <1>1, <2>1, HaveStep
<1> QED BY <1>9, <1>10, <1>11

(* The last step of create_job signals pending and returns the id. *)
LEMMA SignalStep ==
    ASSUME PoolTypes, HaveJobs, NEW c \in Callers, SignalPending(c)
    PROVE  PoolTypes' /\ HaveJobs' /\ SignalEffect(c)
<1>1. /\ c \in Agents /\ loc \in [Agents -> Locals] /\ Controls /\ at[c] = "signal"
      /\ jobs \in [Places -> JobRecord] /\ pending \in Nat /\ c # Owner
      /\ ids \in [Instances -> [gen : Nat, idx : Places] \cup {NoId}]
  BY AgentFacts DEF PoolTypes, SignalPending
<1>2. PICK j \in Places : j = loc[c].job
  BY <1>1 DEF HaveJobs
<1>3. PICK k \in Instances \cup {0} : k = loc[c].inst
  BY <1>1 DEF Locals
<1>4. PICK g \in Nat : g = jobs[j].gen
  BY <1>1 DEF JobRecord
<1>5. PICK id \in [gen : Nat, idx : Places] : id = [gen |-> g, idx |-> j]
  OBVIOUS
<1>6. id # NoId /\ id.gen = g /\ id.idx = j
  BY <1>5 DEF NoId
<1>7. /\ AddPending
      /\ ids' = IF loc[c].join THEN [ids EXCEPT ![k] = id] ELSE ids
      /\ loc' = [loc EXCEPT ![c] = NoLocals]
      /\ Moves(c, "idle")
      /\ UNCHANGED <<jobs, freeHead, ring, unread, complete, joinable, created, ran>>
  BY <1>2, <1>3, <1>4, <1>5 DEF SignalPending, list
<1>8. /\ ids' \in [Instances -> [gen : Nat, idx : Places] \cup {NoId}]
      /\ \A m \in Instances \ {k} : ids'[m] = ids[m]
      /\ loc[c].join /\ k \in Instances => ids'[k] = id
      /\ ~(loc[c].join /\ k \in Instances) => ids' = ids
  <2>1. CASE loc[c].join
    <3>1. ids' = [ids EXCEPT ![k] = id]
      BY <1>7, <2>1
    <3> QED BY <1>1, <2>1, <3>1
  <2>2. CASE ~ loc[c].join
    BY <1>1, <1>7, <2>2
  <2> QED BY <2>1, <2>2
<1>9. /\ pending' \in Nat
      /\ \/ pending' = pending + 1 /\ mishap' = mishap
         \/ pending' = pending /\ mishap' = mishap \cup {"lost"}
  <2>1. \/ pending' = pending + 1 /\ mishap' = mishap
        \/ pending' = pending /\ mishap' = mishap \cup {"lost"}
    BY <1>7, Zenon DEF AddPending, Suffers
  <2>2. pending \in Nat
    BY <1>1
  <2> QED BY <2>1, <2>2
<1>10. loc' \in [Agents -> Locals] /\ \A q \in Agents \ {c} : loc'[q] = loc[q]
  <2>1. NoLocals \in Locals
    BY AgentFacts DEF NoLocals, Locals, Index
  <2> QED BY <1>1, <1>7, <2>1
<1>11. Controls' /\ at'[c] = "idle" /\ \A q \in Agents \ {c} : at'[q] = at[q]
  <2>1. "idle" \in CallerPC
    BY DEF CallerPC
  <2> QED BY <1>1, <1>7, <2>1, AtStep, AgentFacts
<1>12. Alone(c, "idle")
  BY <1>10, <1>11 DEF Alone
<1>13. SignalEffect(c)
  <2>1. IF loc[c].join /\ k \in Instances
        THEN ids'[k] # NoId /\ ids'[k].gen = jobs[j].gen /\ ids'[k].idx = j
        ELSE ids' = ids
    BY <1>4, <1>6, <1>8
  <2> QED BY <1>1, <1>2, <1>3, <1>7, <1>8, <1>9, <1>12, <2>1 DEF SignalEffect
<1>14. PoolTypes'
  BY <1>7, <1>8, <1>9, <1>10, <1>11 DEF PoolTypes
<1>15. HaveJobs'
  BY <1>1, <1>12, HaveStep DEF Holding
<1> QED BY <1>13, <1>14, <1>15

(* A wait begins with an id whose generation is that of its structure. *)
LEMMA WaitStep ==
    ASSUME PoolTypes, HaveJobs, NEW c \in Callers, NEW k \in Instances,
           basic_thread_pool_wait(c, k)
    PROVE  PoolTypes' /\ HaveJobs' /\ WaitEffect(c, k)
<1>1. /\ c \in Agents /\ loc \in [Agents -> Locals] /\ Controls
      /\ ids[k] \in [gen : Nat, idx : Places] \cup {NoId}
  BY AgentFacts DEF PoolTypes
<1>2. PICK i \in Places : i = get_job_data(ids[k]) /\ Reaches(k, i)
  BY <1>1 DEF basic_thread_pool_wait, get_job_data, Reaches
<1>3. /\ at[c] = "idle" /\ at[Owner] = "idle"
      /\ \A d \in Callers : at[d] \in {"await", "free"} => loc[d].inst # k
      /\ loc' = [loc EXCEPT ![c].job = i, ![c].inst = k]
      /\ Moves(c, "await")
      /\ UNCHANGED <<jobs, freeHead, ring, unread, mishap, pending, complete, joinable,
                     ids, created, ran>>
  BY <1>2 DEF basic_thread_pool_wait, list, queue, counts, history
<1>4. i \in Index
  BY DEF Index
<1>5. /\ loc' \in [Agents -> Locals]
      /\ loc'[c].job = i /\ loc'[c].inst = k
      /\ \A q \in Agents \ {c} : loc'[q] = loc[q]
  BY <1>1, <1>3, <1>4 DEF Locals
<1>6. Controls' /\ at'[c] = "await" /\ \A q \in Agents \ {c} : at'[q] = at[q]
  <2>1. "await" \in CallerPC
    BY DEF CallerPC
  <2> QED BY <1>1, <1>3, <2>1, AtStep, AgentFacts
<1>7. WaitEffect(c, k)
  BY <1>2, <1>3, <1>5, <1>6 DEF WaitEffect, Alone
<1>8. PoolTypes'
  BY <1>3, <1>5, <1>6 DEF PoolTypes
<1>9. HaveJobs'
  <2>1. Alone(c, "await") /\ loc'[c].job \in Places
    BY <1>7 DEF WaitEffect
  <2> QED BY <1>1, <2>1, HaveStep
<1> QED BY <1>7, <1>8, <1>9

(* The job a caller waits for is done. *)
LEMMA AwaitStep ==
    ASSUME PoolTypes, HaveJobs, NEW c \in Callers, AwaitJob(c)
    PROVE  PoolTypes' /\ HaveJobs' /\ AwaitEffect(c)
<1>1. /\ c \in Agents /\ Controls /\ at[c] = "await" /\ jobs \in [Places -> JobRecord]
  BY AgentFacts DEF PoolTypes, AwaitJob
<1>2. PICK j \in Places : j = loc[c].job
  BY <1>1 DEF HaveJobs
<1>3. jobs[j].sem \in Nat
  BY <1>1 DEF JobRecord
<1>4. PICK y \in Nat : y = jobs[j].sem - 1 /\ jobs[j].sem > 0
  <2>1. jobs[j].sem > 0
    BY <1>2 DEF AwaitJob
  <2>2. jobs[j].sem - 1 \in Nat
    BY <1>3, <2>1
  <2> QED BY <2>1, <2>2
<1>5. /\ jobs' = [jobs EXCEPT ![j].sem = y]
      /\ Moves(c, "free")
      /\ UNCHANGED <<freeHead, ring, unread, mishap, pending, complete, joinable,
                     ids, created, ran, loc>>
  BY <1>2, <1>4 DEF AwaitJob, queue, counts, history
<1>6. /\ jobs' \in [Places -> JobRecord] /\ OnlyJob(j)
      /\ jobs'[j].sem = y
      /\ jobs'[j].gen = jobs[j].gen /\ jobs'[j].next = jobs[j].next
      /\ jobs'[j].done = jobs[j].done /\ jobs'[j].join = jobs[j].join
      /\ jobs'[j].inst = jobs[j].inst
  BY <1>1, <1>5 DEF JobRecord, OnlyJob
<1>7. Controls' /\ at'[c] = "free" /\ \A q \in Agents \ {c} : at'[q] = at[q]
  <2>1. "free" \in CallerPC
    BY DEF CallerPC
  <2> QED BY <1>1, <1>5, <2>1, AtStep, AgentFacts
<1>8. AwaitEffect(c)
  BY <1>1, <1>2, <1>4, <1>5, <1>6, <1>7 DEF AwaitEffect, Alone
<1>9. PoolTypes'
  BY <1>5, <1>6, <1>7 DEF PoolTypes
<1>10. HaveJobs'
  <2>1. Alone(c, "free") /\ loc'[c].job \in Places
    BY <1>2, <1>5, <1>8 DEF AwaitEffect
  <2> QED BY <1>1, <2>1, HaveStep
<1> QED BY <1>8, <1>9, <1>10

(* free_list_push up to the exchange *)
LEMMA LinkStep ==
    ASSUME PoolTypes, HaveJobs, NEW p \in Callers \cup Workers, Holds(p),
           NEW g \in Nat, LinkJob(p, g),
           UNCHANGED <<freeHead, queue, counts, history>>
    PROVE  /\ PoolTypes' /\ HaveJobs' /\ LinkEffect(p)
           /\ jobs'[loc[p].job].gen = g
<1>1. /\ p \in Agents /\ loc \in [Agents -> Locals] /\ Controls
      /\ jobs \in [Places -> JobRecord] /\ freeHead \in Index
  BY AgentFacts DEF PoolTypes
<1>2. PICK j \in Places : j = loc[p].job
  BY <1>1 DEF HaveJobs
<1>3. /\ loc' = [loc EXCEPT ![p].old = freeHead]
      /\ jobs' = [jobs EXCEPT ![j].next = freeHead, ![j].gen = g]
      /\ Moves(p, "push")
  BY <1>2 DEF LinkJob
<1>4. /\ jobs' \in [Places -> JobRecord] /\ OnlyJob(j)
      /\ jobs'[j].next = freeHead /\ jobs'[j].gen = g
      /\ jobs'[j].done = jobs[j].done /\ jobs'[j].join = jobs[j].join
      /\ jobs'[j].sem = jobs[j].sem /\ jobs'[j].inst = jobs[j].inst
  BY <1>1, <1>3 DEF JobRecord, OnlyJob
<1>5. /\ loc' \in [Agents -> Locals] /\ SameCreation(p)
      /\ loc'[p].job = loc[p].job /\ loc'[p].old = freeHead
      /\ \A q \in Agents \ {p} : loc'[q] = loc[q]
  BY <1>1, <1>3 DEF Locals, SameCreation
<1>6. Controls' /\ at'[p] = "push" /\ \A q \in Agents \ {p} : at'[q] = at[q]
  <2>1. "push" \in CallerPC /\ "push" \in WorkerPC
    BY DEF CallerPC, WorkerPC
  <2> QED BY <1>1, <1>3, <2>1, AtStep, AgentFacts
<1>7. UNCHANGED <<freeHead, ring, unread, mishap, pending, complete, joinable,
                  ids, created, ran>>
  BY DEF queue, counts, history
<1>8. LinkEffect(p)
  BY <1>2, <1>4, <1>5, <1>6, <1>7 DEF LinkEffect, Alone
<1>9. PoolTypes'
  BY <1>4, <1>5, <1>6, <1>7 DEF PoolTypes
<1>10. HaveJobs'
  <2>1. Alone(p, "push") /\ loc'[p].job \in Places
    BY <1>2, <1>5, <1>8 DEF LinkEffect
  <2> QED BY <1>1, <2>1, HaveStep
<1> QED BY <1>2, <1>4, <1>8, <1>9, <1>10

(* free_job makes the ids of the structure stale and links it. *)
LEMMA FreeStep ==
    ASSUME PoolTypes, HaveJobs, NEW p \in Callers \cup Workers, FreeJob(p)
    PROVE  PoolTypes' /\ HaveJobs' /\ FreeEffect(p)
<1>1. p \in Agents /\ at[p] = "free" /\ jobs \in [Places -> JobRecord]
  BY AgentFacts DEF PoolTypes, FreeJob
<1>2. Holds(p)
  BY <1>1 DEF Holds, Holding
<1>3. PICK g \in Nat : g = jobs[loc[p].job].gen + 1
  <2>1. loc[p].job \in Places
    BY <1>1, <1>2 DEF HaveJobs
  <2>2. jobs[loc[p].job].gen \in Nat
    BY <1>1, <2>1 DEF JobRecord
  <2> QED BY <2>2
<1>4. LinkJob(p, g) /\ UNCHANGED <<freeHead, queue, counts, history>>
  BY <1>3 DEF FreeJob
<1> QED BY <1>1, <1>2, <1>3, <1>4, LinkStep DEF FreeEffect

(* A structure whose semaphore could not be had is linked again. *)
LEMMA ReturnStep ==
    ASSUME PoolTypes, HaveJobs, NEW c \in Callers, ReturnJob(c)
    PROVE  PoolTypes' /\ HaveJobs' /\ ReturnEffect(c)
<1>1. c \in Agents /\ at[c] = "link" /\ jobs \in [Places -> JobRecord]
  BY AgentFacts DEF PoolTypes, ReturnJob
<1>2. Holds(c)
  BY <1>1 DEF Holds, Holding
<1>3. PICK g \in Nat : g = jobs[loc[c].job].gen
  <2>1. loc[c].job \in Places
    BY <1>1, <1>2 DEF HaveJobs
  <2> QED BY <1>1, <2>1 DEF JobRecord
<1>4. LinkJob(c, g) /\ UNCHANGED <<freeHead, queue, counts, history>>
  BY <1>3 DEF ReturnJob
<1> QED BY <1>1, <1>2, <1>3, <1>4, LinkStep DEF ReturnEffect

(* The exchange of free_list_push, or another try *)
LEMMA PushStep ==
    ASSUME PoolTypes, HaveJobs, NEW p \in Callers \cup Workers, PushExchange(p)
    PROVE  PoolTypes' /\ HaveJobs' /\ (RelinkEffect(p) \/ PushEffect(p))
<1>1. p \in Agents /\ at[p] = "push" /\ jobs \in [Places -> JobRecord] /\ Controls
  BY AgentFacts DEF PoolTypes, PushExchange
<1>2. Holds(p)
  BY <1>1 DEF Holds, Holding
<1>3. loc[p].job \in Places
  BY <1>1, <1>2 DEF HaveJobs
<1>4. PICK g \in Nat : g = jobs[loc[p].job].gen
  BY <1>1, <1>3 DEF JobRecord
<1>5. CASE freeHead = loc[p].old
  <2>1. /\ freeHead' = loc[p].job /\ Moves(p, "complete")
        /\ UNCHANGED <<jobs, loc, ring, unread, mishap, pending, complete, joinable,
                       ids, created, ran>>
    BY <1>5 DEF PushExchange, queue, counts, history
  <2>2. Controls' /\ at'[p] = "complete" /\ \A q \in Agents \ {p} : at'[q] = at[q]
    <3>1. "complete" \in CallerPC /\ "complete" \in WorkerPC
      BY DEF CallerPC, WorkerPC
    <3> QED BY <1>1, <2>1, <3>1, AtStep, AgentFacts
  <2>3. PushEffect(p)
    BY <1>1, <1>5, <2>1, <2>2 DEF PushEffect, Alone
  <2>4. PoolTypes'
    BY <1>3, <2>1, <2>2 DEF PoolTypes, Index
  <2>5. HaveJobs'
    <3>1. Alone(p, "complete")
      BY <2>3 DEF PushEffect
    <3> QED BY <1>1, <3>1, HaveStep DEF Holding
  <2> QED BY <2>3, <2>4, <2>5
<1>6. CASE freeHead # loc[p].old
  <2>1. LinkJob(p, g) /\ UNCHANGED <<freeHead, queue, counts, history>>
    BY <1>4, <1>6 DEF PushExchange
  <2> QED BY <1>1, <1>2, <1>4, <2>1, LinkStep DEF RelinkEffect
<1> QED BY <1>5, <1>6

(* complete is signalled once the structure is on the list. *)
LEMMA CompleteStep ==
    ASSUME PoolTypes, HaveJobs, NEW p \in Callers \cup Workers, SignalComplete(p)
    PROVE  PoolTypes' /\ HaveJobs' /\ CompleteEffect(p)
<1> DEFINE waited == p \in Callers /\ ids[loc[p].inst] # NoId
<1>1. /\ p \in Agents /\ at[p] = "complete" /\ loc \in [Agents -> Locals] /\ Controls
      /\ complete \in Nat
  BY AgentFacts DEF PoolTypes, SignalComplete
<1>2. /\ complete' = complete + 1
      /\ loc' = [loc EXCEPT ![p] = IF waited THEN @ ELSE NoLocals]
      /\ Moves(p, IF p \in Workers THEN "wait" ELSE IF waited THEN "uncount" ELSE "idle")
      /\ UNCHANGED <<jobs, freeHead, ring, unread, mishap, pending, joinable, ids, created, ran>>
  BY DEF SignalComplete, list, queue, history
<1>3. NoLocals \in Locals
  BY AgentFacts DEF NoLocals, Locals, Index
<1>4. /\ loc' \in [Agents -> Locals]
      /\ waited => loc'[p] = loc[p]
      /\ \A q \in Agents \ {p} : loc'[q] = loc[q]
  BY <1>1, <1>2, <1>3
<1> DEFINE l == IF p \in Workers THEN "wait" ELSE IF waited THEN "uncount" ELSE "idle"
<1>5. Controls' /\ at'[p] = l /\ \A q \in Agents \ {p} : at'[q] = at[q]
  <2>1. (p \in Callers => l \in CallerPC) /\ (p \in Workers => l \in WorkerPC)
    BY AgentFacts DEF CallerPC, WorkerPC
  <2>2. Moves(p, l)
    BY <1>2
  <2> HIDE DEF l
  <2> QED BY <1>1, <2>1, <2>2, AtStep, AgentFacts
<1>6. Alone(p, l)
  BY <1>4, <1>5 DEF Alone
<1>7. CompleteEffect(p)
  BY <1>1, <1>2, <1>4, <1>6, AgentFacts DEF CompleteEffect
<1>8. PoolTypes'
  <2>1. complete' \in Nat
    BY <1>1, <1>2
  <2> QED BY <1>2, <1>4, <1>5, <2>1 DEF PoolTypes
<1>9. HaveJobs'
  <2>1. l \notin Holding \cup {"signal", "await"}
    BY DEF Holding
  <2> HIDE DEF l
  <2> QED BY <1>1, <1>6, <2>1, HaveStep
<1> QED BY <1>7, <1>8, <1>9

(* A wait counts its job off. *)
LEMMA UncountStep ==
    ASSUME PoolTypes, HaveJobs, NEW c \in Callers, Uncount(c)
    PROVE  PoolTypes' /\ HaveJobs' /\ UncountEffect(c)
<1>1. /\ c \in Agents /\ at[c] = "uncount" /\ loc \in [Agents -> Locals] /\ Controls
      /\ joinable \in Int
  BY AgentFacts DEF PoolTypes, Uncount
<1>2. /\ joinable' = joinable - 1
      /\ loc' = [loc EXCEPT ![c] = NoLocals]
      /\ Moves(c, "idle")
      /\ UNCHANGED <<jobs, freeHead, ring, unread, mishap, pending, complete, ids, created, ran>>
  BY DEF Uncount, list, queue, history
<1>3. loc' \in [Agents -> Locals] /\ \A q \in Agents \ {c} : loc'[q] = loc[q]
  <2>1. NoLocals \in Locals
    BY AgentFacts DEF NoLocals, Locals, Index
  <2> QED BY <1>1, <1>2, <2>1
<1>4. Controls' /\ at'[c] = "idle" /\ \A q \in Agents \ {c} : at'[q] = at[q]
  <2>1. "idle" \in CallerPC
    BY DEF CallerPC
  <2> QED BY <1>1, <1>2, <2>1, AtStep, AgentFacts
<1>5. Alone(c, "idle")
  BY <1>3, <1>4 DEF Alone
<1>6. UncountEffect(c)
  BY <1>1, <1>2, <1>5 DEF UncountEffect
<1>7. PoolTypes'
  <2>1. joinable' \in Int
    BY <1>1, <1>2
  <2> QED BY <1>2, <1>3, <1>4, <2>1 DEF PoolTypes
<1>8. HaveJobs'
  BY <1>1, <1>5, HaveStep DEF Holding
<1> QED BY <1>6, <1>7, <1>8

(* A place and the one after it *)
LEMMA AfterType ==
    ASSUME NEW r \in Places
    PROVE  (r + 1) % Slots = After(r) /\ After(r) \in Places
<1>1. Slots \in Nat \ {0} /\ r \in 0 .. Slots - 1
  BY PoolAssumption DEF Places
<1>2. CASE r + 1 < Slots
  <2>1. (Slots * 0 + (r + 1)) % Slots = r + 1
    <3>1. r + 1 \in 0 .. Slots - 1
      BY <1>1, <1>2
    <3> QED BY <1>1, <3>1, ModUnique
  <2>2. Slots * 0 + (r + 1) = r + 1
    BY <1>1
  <2> QED BY <1>1, <1>2, <2>1, <2>2 DEF After, Places
<1>3. CASE ~(r + 1 < Slots)
  <2>1. (Slots * 1 + 0) % Slots = 0
    <3>1. 0 \in 0 .. Slots - 1
      BY <1>1
    <3> QED BY <1>1, <3>1, ModUnique
  <2>2. Slots * 1 + 0 = r + 1
    BY <1>1, <1>3
  <2> QED BY <1>1, <1>3, <2>1, <2>2 DEF After, Places
<1> QED BY <1>2, <1>3

(* A place of the ring is acquired, by a caller or by the owner. *)
LEMMA AcquireStep ==
    ASSUME PoolTypes, HaveJobs, NEW p \in Callers \cup {Owner}, AcquirePlace(p)
    PROVE  PoolTypes' /\ HaveJobs' /\ AcquireEffect(p)
<1>1. /\ p \in Agents /\ at[p] = "acquire" /\ loc \in [Agents -> Locals] /\ Controls
      /\ ring \in [head : Places, tail : Places, temp : Places, cells : [Places -> Index]]
      /\ unread \subseteq Places
  BY AgentFacts DEF PoolTypes, AcquirePlace
<1>2. PICK t \in Places : t = ring.temp
  BY <1>1
<1>3. PICK u \in Places : u = (t + 1) % Slots /\ u = After(t)
  BY AfterType
<1>4. /\ loc' = [loc EXCEPT ![p].place = t]
      /\ ring' = [ring EXCEPT !.temp = u]
      /\ unread' = unread \ {t}
      /\ Moves(p, "write")
      /\ UNCHANGED <<jobs, freeHead, pending, complete, joinable, ids, created, ran>>
  BY <1>2, <1>3 DEF AcquirePlace, list, counts, history
<1>5. mishap' = mishap \cup ((IF t \in unread THEN {"overrun"} ELSE {}) \cup
                             (IF \E q \in Agents : at[q] = "write" THEN {"overlap"} ELSE {}))
  BY <1>2 DEF AcquirePlace, Suffers
<1>6. /\ ring' \in [head : Places, tail : Places, temp : Places, cells : [Places -> Index]]
      /\ ring'.head = ring.head /\ ring'.cells = ring.cells /\ ring'.temp = u
  BY <1>1, <1>4
<1>7. /\ loc' \in [Agents -> Locals] /\ SameCreation(p)
      /\ loc'[p].job = loc[p].job /\ loc'[p].turn = loc[p].turn /\ loc'[p].place = t
      /\ \A q \in Agents \ {p} : loc'[q] = loc[q]
  BY <1>1, <1>4 DEF Locals, SameCreation
<1>8. Controls' /\ at'[p] = "write" /\ \A q \in Agents \ {p} : at'[q] = at[q]
  <2>1. "write" \in CallerPC /\ "write" \in OwnerPC
    BY DEF CallerPC, OwnerPC
  <2> QED BY <1>1, <1>4, <2>1, AtStep, AgentFacts
<1>9. Alone(p, "write")
  BY <1>7, <1>8 DEF Alone
<1>10. /\ mishap \subseteq mishap'
       /\ mishap' \subseteq mishap \cup {"overrun", "overlap"}
       /\ "overrun" \in mishap' => "overrun" \in mishap \/ t \in unread
       /\ t \in unread => "overrun" \in mishap'
       /\ "overlap" \notin mishap' => \A q \in Agents : at[q] # "write"
  BY <1>5
<1>11. AcquireEffect(p)
  BY <1>1, <1>2, <1>3, <1>4, <1>6, <1>7, <1>9, <1>10 DEF AcquireEffect
<1>12. PoolTypes'
  <2>1. unread' \subseteq Places
    BY <1>1, <1>4
  <2> QED BY <1>4, <1>6, <1>7, <1>8, <2>1 DEF PoolTypes
<1>13. HaveJobs'
  <2>1. p = Owner \/ loc'[p].job \in Places
    BY <1>1, <1>7 DEF HaveJobs, Holds, Holding
  <2> QED BY <1>1, <1>9, <2>1, HaveStep
<1> QED BY <1>11, <1>12, <1>13

(* What a write to the ring has in common for callers and the owner *)
LEMMA StoreStep ==
    ASSUME PoolTypes, NEW p \in Agents, NEW x \in Index, WriteCell(p),
           x = IF p = Owner THEN Null ELSE loc[p].job
    PROVE  /\ StoreEffect(p, x)
           /\ ring' \in [head : Places, tail : Places, temp : Places, cells : [Places -> Index]]
           /\ unread' \subseteq Places
<1>1. /\ at[p] = "write" /\ loc \in [Agents -> Locals]
      /\ ring \in [head : Places, tail : Places, temp : Places, cells : [Places -> Index]]
      /\ unread \subseteq Places
  BY DEF PoolTypes, WriteCell
<1>2. PICK r \in Places : r = loc[p].place
  BY <1>1 DEF Locals
<1>3. PICK u \in Places : u = (ring.tail + 1) % Slots
  BY <1>1, AfterType
<1>4. /\ ring' = [ring EXCEPT !.cells[r] = x, !.tail = u]
      /\ unread' = unread \cup {r}
      /\ UNCHANGED <<jobs, freeHead, mishap, pending, complete, joinable, ids, created, ran>>
  BY <1>2, <1>3 DEF WriteCell, list, counts, history
<1>5. /\ ring' \in [head : Places, tail : Places, temp : Places, cells : [Places -> Index]]
      /\ ring'.head = ring.head /\ ring'.temp = ring.temp
      /\ ring'.cells[r] = x
      /\ \A s \in Places \ {r} : ring'.cells[s] = ring.cells[s]
  BY <1>1, <1>4
<1> QED BY <1>1, <1>2, <1>4, <1>5 DEF StoreEffect

(* A caller writes its job into its place. *)
LEMMA WriteStep ==
    ASSUME PoolTypes, HaveJobs, NEW c \in Callers, WriteCell(c)
    PROVE  PoolTypes' /\ HaveJobs' /\ WriteEffect(c)
<1>1. /\ c \in Agents /\ c # Owner /\ at[c] = "write" /\ loc \in [Agents -> Locals] /\ Controls
  BY AgentFacts DEF PoolTypes, WriteCell
<1>2. loc[c].job \in Places /\ 0 \in Places /\ 0 \in Nat
  BY <1>1, AgentFacts DEF HaveJobs, Holds, Holding
<1>3. PICK x \in Index : x = loc[c].job
  BY <1>2 DEF Index
<1>4. /\ StoreEffect(c, loc[c].job) /\ unread' \subseteq Places
      /\ ring' \in [head : Places, tail : Places, temp : Places, cells : [Places -> Index]]
  BY <1>1, <1>3, StoreStep
<1>5. loc' = [loc EXCEPT ![c].place = 0, ![c].turn = 0] /\ Moves(c, "signal")
  BY <1>1 DEF WriteCell
<1>6. /\ loc' \in [Agents -> Locals] /\ SameCreation(c) /\ loc'[c].job = loc[c].job
      /\ \A q \in Agents \ {c} : loc'[q] = loc[q]
  BY <1>1, <1>2, <1>5 DEF Locals, SameCreation
<1>7. Controls' /\ at'[c] = "signal" /\ \A q \in Agents \ {c} : at'[q] = at[q]
  <2>1. "signal" \in CallerPC
    BY DEF CallerPC
  <2> QED BY <1>1, <1>5, <2>1, AtStep, AgentFacts
<1>8. Alone(c, "signal")
  BY <1>6, <1>7 DEF Alone
<1>9. WriteEffect(c)
  BY <1>4, <1>6, <1>8 DEF WriteEffect
<1>10. PoolTypes'
  BY <1>4, <1>6, <1>7 DEF PoolTypes, StoreEffect
<1>11. HaveJobs'
  BY <1>1, <1>2, <1>6, <1>8, HaveStep
<1> QED BY <1>9, <1>10, <1>11

(* The owner writes a -1, and goes on to the next worker or to the         *)
(* signals.                                                                *)
LEMMA StopStep ==
    ASSUME PoolTypes, HaveJobs, WriteCell(Owner)
    PROVE  PoolTypes' /\ HaveJobs' /\ StopEffect
<1>1. Owner \in Agents /\ loc \in [Agents -> Locals] /\ Controls
  BY AgentFacts DEF PoolTypes
<1>2. Null \in Index /\ 0 \in Places /\ 0 \in Nat /\ loc[Owner].turn \in Nat
  BY <1>1, AgentFacts DEF Index, Locals
<1>3. /\ StoreEffect(Owner, Null) /\ unread' \subseteq Places
      /\ ring' \in [head : Places, tail : Places, temp : Places, cells : [Places -> Index]]
  BY <1>1, <1>2, StoreStep
<1> DEFINE again == loc[Owner].turn < Cardinality(Workers) - 1
           l == IF again THEN "acquire" ELSE "signal"
<1>4. PICK n \in Nat : n = IF again THEN loc[Owner].turn + 1 ELSE 0
  <2>1. (IF again THEN loc[Owner].turn + 1 ELSE 0) \in Nat
    BY <1>2
  <2> QED BY <2>1
<1>5. /\ loc' = [loc EXCEPT ![Owner].place = 0, ![Owner].turn = n]
      /\ Moves(Owner, l)
  BY <1>4 DEF WriteCell
<1>6. /\ loc' \in [Agents -> Locals]
      /\ loc'[Owner].join = loc[Owner].join /\ loc'[Owner].turn = n
      /\ \A q \in Agents \ {Owner} : loc'[q] = loc[q]
  BY <1>1, <1>2, <1>5 DEF Locals
<1>7. Controls' /\ at'[Owner] = l /\ \A q \in Agents \ {Owner} : at'[q] = at[q]
  <2>1. l \in OwnerPC
    BY DEF OwnerPC
  <2> HIDE DEF l
  <2> QED BY <1>1, <1>5, <2>1, AtStep, AgentFacts
<1>8. Alone(Owner, l)
  BY <1>6, <1>7 DEF Alone
<1>9. StopEffect
  <2>1. CASE again
    BY <2>1, <1>3, <1>4, <1>6, <1>8 DEF StopEffect
  <2>2. CASE ~ again
    BY <2>2, <1>3, <1>4, <1>6, <1>8 DEF StopEffect
  <2> QED BY <2>1, <2>2
<1>10. PoolTypes'
  BY <1>3, <1>6, <1>7 DEF PoolTypes, StoreEffect
<1>11. HaveJobs'
  <2> HIDE DEF l
  <2> QED BY <1>1, <1>8, HaveStep
<1> QED BY <1>9, <1>10, <1>11

(* The copy of a cell into a worker's locals *)
LEMMA ReadStep ==
    ASSUME PoolTypes, HaveJobs, NEW w \in Workers, ReadCell(w)
    PROVE  /\ loc' \in [Agents -> Locals] /\ Controls' /\ HaveJobs' /\ Alone(w, "claim")
           /\ loc'[w].job = ring.cells[ring.head]
<1>1. /\ w \in Agents /\ loc \in [Agents -> Locals] /\ Controls
      /\ ring \in [head : Places, tail : Places, temp : Places, cells : [Places -> Index]]
  BY AgentFacts DEF PoolTypes
<1>2. PICK h \in Index : h = ring.head
  BY <1>1 DEF Index
<1>3. PICK x \in Index : x = ring.cells[ring.head]
  BY <1>1
<1>4. loc' = [loc EXCEPT ![w].old = h, ![w].job = x] /\ Moves(w, "claim")
  BY <1>2, <1>3 DEF ReadCell
<1>5. loc' \in [Agents -> Locals] /\ loc'[w].job = x /\ \A q \in Agents \ {w} : loc'[q] = loc[q]
  BY <1>1, <1>4 DEF Locals
<1>6. Controls' /\ at'[w] = "claim" /\ \A q \in Agents \ {w} : at'[q] = at[q]
  <2>1. "claim" \in WorkerPC
    BY DEF WorkerPC
  <2> QED BY <1>1, <1>4, <2>1, AtStep, AgentFacts
<1>7. Alone(w, "claim")
  BY <1>5, <1>6 DEF Alone
<1>8. HaveJobs'
  BY <1>1, <1>7, HaveStep DEF Holding
<1> QED BY <1>3, <1>5, <1>6, <1>7, <1>8

(* A worker is let through by pending and copies the item at the head. *)
LEMMA PendingStep ==
    ASSUME PoolTypes, HaveJobs, NEW w \in Workers, WaitPending(w)
    PROVE  PoolTypes' /\ HaveJobs' /\ PendingEffect(w)
<1>1. /\ at[w] = "wait" /\ pending > 0 /\ pending' = pending - 1 /\ ReadCell(w)
      /\ UNCHANGED <<jobs, freeHead, ring, unread, mishap, complete, joinable, ids, created, ran>>
  BY DEF WaitPending, list, queue, history
<1>2. /\ loc' \in [Agents -> Locals] /\ Controls' /\ HaveJobs' /\ Alone(w, "claim")
      /\ loc'[w].job = ring.cells[ring.head]
  BY <1>1, ReadStep
<1>3. PoolTypes'
  <2>1. pending' \in Nat
    BY <1>1 DEF PoolTypes
  <2> QED BY <1>1, <1>2, <2>1 DEF PoolTypes
<1> QED BY <1>1, <1>2, <1>3 DEF PendingEffect

(* A worker moves the head past the item it has copied, or copies again. *)
LEMMA ClaimStep ==
    ASSUME PoolTypes, HaveJobs, NEW w \in Workers, ClaimCell(w)
    PROVE  PoolTypes' /\ HaveJobs' /\ (ReadAgainEffect(w) \/ ClaimEffect(w))
<1>1. /\ w \in Agents /\ loc \in [Agents -> Locals] /\ Controls /\ at[w] = "claim"
      /\ ring \in [head : Places, tail : Places, temp : Places, cells : [Places -> Index]]
      /\ unread \subseteq Places
      /\ UNCHANGED <<jobs, freeHead, pending, complete, joinable, ids, created, ran>>
  BY AgentFacts DEF PoolTypes, ClaimCell, list, counts, history
<1>2. CASE ring.head = loc[w].old
  <2>1. PICK h \in Places : h = ring.head
    BY <1>1
  <2>2. PICK u \in Places : u = (h + 1) % Slots /\ u = After(h)
    BY AfterType
  <2> DEFINE l == IF loc[w].job = Null THEN "stopped" ELSE "run"
  <2>3. /\ ring' = [ring EXCEPT !.head = u]
        /\ unread' = unread \ {h}
        /\ loc' = [loc EXCEPT ![w].old = Null]
        /\ Moves(w, l)
    BY <1>2, <2>1, <2>2 DEF ClaimCell
  <2>4. mishap' = mishap \cup (IF h \notin unread THEN {"unwritten"}
                               ELSE IF ring.cells[h] # loc[w].job THEN {"stale"} ELSE {})
    BY <1>2, <2>1 DEF ClaimCell, Suffers
  <2>5. \/ mishap' = mishap /\ h \in unread /\ ring.cells[h] = loc[w].job
        \/ mishap' = mishap \cup {"unwritten"} /\ h \notin unread
        \/ mishap' = mishap \cup {"stale"}
    BY <2>4
  <2>6. /\ ring' \in [head : Places, tail : Places, temp : Places, cells : [Places -> Index]]
        /\ ring'.head = u /\ ring'.cells = ring.cells /\ ring'.temp = ring.temp
    BY <1>1, <2>3
  <2>7. /\ loc' \in [Agents -> Locals] /\ loc'[w].job = loc[w].job
        /\ \A q \in Agents \ {w} : loc'[q] = loc[q]
    <3>1. Null \in Index
      BY DEF Index
    <3> QED BY <1>1, <2>3, <3>1 DEF Locals
  <2>8. Controls' /\ at'[w] = l /\ \A q \in Agents \ {w} : at'[q] = at[q]
    <3>1. l \in WorkerPC
      BY DEF WorkerPC
    <3> HIDE DEF l
    <3> QED BY <1>1, <2>3, <3>1, AtStep, AgentFacts
  <2>9. Alone(w, l)
    BY <2>7, <2>8 DEF Alone
  <2>10. ClaimEffect(w)
    BY <1>1, <2>1, <2>2, <2>3, <2>5, <2>6, <2>7, <2>9 DEF ClaimEffect
  <2>11. PoolTypes'
    <3>1. unread' \subseteq Places
      BY <1>1, <2>3
    <3> QED BY <1>1, <2>6, <2>7, <2>8, <3>1 DEF PoolTypes
  <2>12. HaveJobs'
    <3>1. l \in Holding \cup {"signal", "await"} => loc'[w].job \in Places
      BY <1>1, <2>7 DEF Holding, Locals, Index
    <3> HIDE DEF l
    <3> QED BY <1>1, <2>9, <3>1, HaveStep
  <2> QED BY <2>10, <2>11, <2>12
<1>3. CASE ring.head # loc[w].old
  <2>1. ReadCell(w) /\ UNCHANGED <<ring, unread, mishap>>
    BY <1>3 DEF ClaimCell, queue
  <2>2. /\ loc' \in [Agents -> Locals] /\ Controls' /\ HaveJobs' /\ Alone(w, "claim")
        /\ loc'[w].job = ring.cells[ring.head]
    BY <2>1, ReadStep
  <2>3. PoolTypes'
    BY <1>1, <2>1, <2>2 DEF PoolTypes
  <2>4. ReadAgainEffect(w)
    BY <1>1, <2>1, <2>2 DEF ReadAgainEffect
  <2> QED BY <2>2, <2>3, <2>4
<1> QED BY <1>2, <1>3

(* A worker runs a job, and tells its caller or frees the structure. *)
LEMMA RunStep ==
    ASSUME PoolTypes, HaveJobs, NEW w \in Workers, RunJob(w)
    PROVE  PoolTypes' /\ HaveJobs' /\ RunEffect(w)
<1>1. /\ w \in Agents /\ loc \in [Agents -> Locals] /\ Controls /\ at[w] = "run"
      /\ jobs \in [Places -> JobRecord] /\ ran \in [Instances \cup {0} -> Nat]
      /\ UNCHANGED <<freeHead, ring, unread, mishap, pending, complete, joinable,
                     ids, created>>
  BY AgentFacts DEF PoolTypes, RunJob, queue, counts
<1>2. PICK j \in Places : j = loc[w].job
  BY <1>1 DEF HaveJobs, Holds, Holding
<1>3. PICK k \in Instances \cup {0} : k = jobs[j].inst
  BY <1>1 DEF JobRecord
<1>4. PICK n \in Nat : n = ran[k] + 1
  <2>1. ran[k] \in Nat
    BY <1>1
  <2> QED BY <2>1
<1>5. ran' = [ran EXCEPT ![k] = n]
  BY <1>2, <1>3, <1>4 DEF RunJob
<1>6. /\ ran' \in [Instances \cup {0} -> Nat]
      /\ ran'[k] = ran[k] + 1
      /\ \A m \in (Instances \cup {0}) \ {k} : ran'[m] = ran[m]
  BY <1>1, <1>4, <1>5
<1>7. CASE jobs[j].join
  <2>1. PICK y \in Nat : y = jobs[j].sem + 1
    <3>1. jobs[j].sem \in Nat
      BY <1>1 DEF JobRecord
    <3> QED BY <3>1
  <2>2. /\ jobs' = [jobs EXCEPT ![j].done = TRUE, ![j].sem = y]
        /\ loc' = [loc EXCEPT ![w] = NoLocals]
        /\ Moves(w, "wait")
    BY <1>2, <1>7, <2>1 DEF RunJob
  <2>3. /\ jobs' \in [Places -> JobRecord] /\ OnlyJob(j)
        /\ jobs'[j].done /\ jobs'[j].sem = y
        /\ jobs'[j].gen = jobs[j].gen /\ jobs'[j].next = jobs[j].next
        /\ jobs'[j].join = jobs[j].join /\ jobs'[j].inst = jobs[j].inst
    BY <1>1, <2>2 DEF JobRecord, OnlyJob
  <2>4. loc' \in [Agents -> Locals] /\ \A q \in Agents \ {w} : loc'[q] = loc[q]
    <3>1. NoLocals \in Locals
      BY AgentFacts DEF NoLocals, Locals, Index
    <3> QED BY <1>1, <2>2, <3>1
  <2>5. Controls' /\ at'[w] = "wait" /\ \A q \in Agents \ {w} : at'[q] = at[q]
    <3>1. "wait" \in WorkerPC
      BY DEF WorkerPC
    <3> QED BY <1>1, <2>2, <3>1, AtStep, AgentFacts
  <2>6. Alone(w, "wait")
    BY <2>4, <2>5 DEF Alone
  <2>7. RunEffect(w)
    BY <1>1, <1>2, <1>3, <1>6, <1>7, <2>1, <2>3, <2>6 DEF RunEffect
  <2>8. PoolTypes'
    BY <1>1, <1>6, <2>3, <2>4, <2>5 DEF PoolTypes
  <2>9. HaveJobs'
    BY <1>1, <2>6, HaveStep DEF Holding
  <2> QED BY <2>7, <2>8, <2>9
<1>8. CASE ~ jobs[j].join
  <2>1. Moves(w, "free") /\ UNCHANGED <<jobs, loc>>
    BY <1>2, <1>8 DEF RunJob
  <2>2. Controls' /\ at'[w] = "free" /\ \A q \in Agents \ {w} : at'[q] = at[q]
    <3>1. "free" \in WorkerPC
      BY DEF WorkerPC
    <3> QED BY <1>1, <2>1, <3>1, AtStep, AgentFacts
  <2>3. Alone(w, "free")
    BY <2>1, <2>2 DEF Alone
  <2>4. RunEffect(w)
    BY <1>1, <1>2, <1>3, <1>6, <1>8, <2>1, <2>3 DEF RunEffect
  <2>5. PoolTypes'
    BY <1>1, <1>6, <2>1, <2>2 DEF PoolTypes
  <2>6. HaveJobs'
    BY <1>1, <1>2, <2>1, <2>3, HaveStep
  <2> QED BY <2>4, <2>5, <2>6
<1> QED BY <1>7, <1>8

(* job_system_free starts when nobody else is in the pool. *)
LEMMA QuitStep ==
    ASSUME PoolTypes, HaveJobs, job_system_free
    PROVE  PoolTypes' /\ HaveJobs' /\ QuitEffect
<1>1. Owner \in Agents /\ Controls
  BY AgentFacts DEF PoolTypes
<1>2. /\ at[Owner] = "idle" /\ Moves(Owner, "acquire") /\ \A c \in Callers : at[c] = "idle"
      /\ UNCHANGED <<jobs, freeHead, ring, unread, mishap, pending, complete, joinable,
                     ids, created, ran, loc>>
  BY DEF job_system_free, list, queue, counts, history
<1>3. Controls' /\ at'[Owner] = "acquire" /\ \A q \in Agents \ {Owner} : at'[q] = at[q]
  <2>1. "acquire" \in OwnerPC
    BY DEF OwnerPC
  <2> QED BY <1>1, <1>2, <2>1, AtStep, AgentFacts
<1>4. Alone(Owner, "acquire")
  BY <1>2, <1>3 DEF Alone
<1>5. PoolTypes'
  BY <1>2, <1>3 DEF PoolTypes
<1>6. HaveJobs'
  BY <1>1, <1>4, HaveStep
<1> QED BY <1>2, <1>4, <1>5, <1>6 DEF QuitEffect

(* The owner signals pending once per worker. *)
LEMMA SignalWorkersStep ==
    ASSUME PoolTypes, HaveJobs, SignalWorkers
    PROVE  PoolTypes' /\ HaveJobs' /\ SignalWorkersEffect
<1>1. /\ Owner \in Agents /\ loc \in [Agents -> Locals] /\ Controls /\ pending \in Nat
      /\ at[Owner] = "signal" /\ AddPending
      /\ UNCHANGED <<jobs, freeHead, ring, unread, complete, joinable, ids, created, ran>>
  BY AgentFacts DEF PoolTypes, SignalWorkers, list, history
<1>2. 0 \in Nat /\ loc[Owner].turn \in Nat
  BY <1>1 DEF Locals
<1> DEFINE again == loc[Owner].turn < Cardinality(Workers) - 1
           l == IF again THEN "signal" ELSE "join"
<1>3. PICK n \in Nat : n = IF again THEN loc[Owner].turn + 1 ELSE 0
  <2>1. (IF again THEN loc[Owner].turn + 1 ELSE 0) \in Nat
    BY <1>2
  <2> QED BY <2>1
<1>4. loc' = [loc EXCEPT ![Owner].turn = n] /\ Moves(Owner, l)
  BY <1>3 DEF SignalWorkers
<1>5. /\ loc' \in [Agents -> Locals]
      /\ loc'[Owner].join = loc[Owner].join /\ loc'[Owner].turn = n
      /\ \A q \in Agents \ {Owner} : loc'[q] = loc[q]
  BY <1>1, <1>2, <1>4 DEF Locals
<1>6. Controls' /\ at'[Owner] = l /\ \A q \in Agents \ {Owner} : at'[q] = at[q]
  <2>1. l \in OwnerPC
    BY DEF OwnerPC
  <2> HIDE DEF l
  <2> QED BY <1>1, <1>4, <2>1, AtStep, AgentFacts
<1>7. Alone(Owner, l)
  BY <1>5, <1>6 DEF Alone
<1>8. /\ pending' \in Nat
      /\ \/ pending' = pending + 1 /\ mishap' = mishap
         \/ pending' = pending /\ mishap' = mishap \cup {"lost"}
  BY <1>1 DEF AddPending, Suffers
<1>9. SignalWorkersEffect
  <2>1. CASE again
    BY <2>1, <1>1, <1>3, <1>5, <1>7, <1>8 DEF SignalWorkersEffect
  <2>2. CASE ~ again
    BY <2>2, <1>1, <1>3, <1>5, <1>7, <1>8 DEF SignalWorkersEffect
  <2> QED BY <2>1, <2>2
<1>10. PoolTypes'
  BY <1>1, <1>5, <1>6, <1>8 DEF PoolTypes
<1>11. HaveJobs'
  <2> HIDE DEF l
  <2> QED BY <1>1, <1>7, HaveStep
<1> QED BY <1>9, <1>10, <1>11

(* The owner has joined the workers. *)
LEMMA JoinStep ==
    ASSUME PoolTypes, HaveJobs, JoinWorkers
    PROVE  PoolTypes' /\ HaveJobs' /\ JoinEffect
<1>1. Owner \in Agents /\ Controls
  BY AgentFacts DEF PoolTypes
<1>2. /\ at[Owner] = "join" /\ Moves(Owner, "freed") /\ \A w \in Workers : at[w] = "stopped"
      /\ UNCHANGED <<jobs, freeHead, ring, unread, mishap, pending, complete, joinable,
                     ids, created, ran, loc>>
  BY DEF JoinWorkers, list, queue, counts, history
<1>3. Controls' /\ at'[Owner] = "freed" /\ \A q \in Agents \ {Owner} : at'[q] = at[q]
  <2>1. "freed" \in OwnerPC
    BY DEF OwnerPC
  <2> QED BY <1>1, <1>2, <2>1, AtStep, AgentFacts
<1>4. Alone(Owner, "freed")
  BY <1>2, <1>3 DEF Alone
<1>5. PoolTypes'
  BY <1>2, <1>3 DEF PoolTypes
<1>6. HaveJobs'
  BY <1>1, <1>4, HaveStep
<1> QED BY <1>2, <1>4, <1>5, <1>6 DEF JoinEffect
-----------------------------------------------------------------------------
(* Two sets that differ in whether p is in them *)
LEMMA CountOne ==
    ASSUME NEW U, IsFiniteSet(U), NEW S \in SUBSET U, NEW T \in SUBSET U, NEW p \in U,
           \A x \in U : x # p => (x \in S <=> x \in T)
    PROVE  /\ Cardinality(S) \in Nat /\ Cardinality(T) \in Nat
           /\ (p \in S <=> p \in T) => Cardinality(T) = Cardinality(S)
           /\ p \notin S /\ p \in T => Cardinality(T) = Cardinality(S) + 1
           /\ p \in S /\ p \notin T => Cardinality(T) = Cardinality(S) - 1
<1>1. IsFiniteSet(S) /\ IsFiniteSet(T)
  BY FS_Subset
<1>2. Cardinality(S) \in Nat /\ Cardinality(T) \in Nat
  BY <1>1, FS_CardinalityType
<1>3. (p \in S <=> p \in T) => T = S
  OBVIOUS
<1>4. ASSUME p \notin S, p \in T PROVE Cardinality(T) = Cardinality(S) + 1
  <2>1. T = S \cup {p}
    BY <1>4
  <2> QED BY <1>1, <1>4, <2>1, FS_AddElement
<1>5. ASSUME p \in S, p \notin T PROVE Cardinality(T) = Cardinality(S) - 1
  <2>1. T = S \ {p}
    BY <1>5
  <2> QED BY <1>1, <1>5, <2>1, FS_RemoveElement
<1> QED BY <1>2, <1>3, <1>4, <1>5

(* There are finitely many threads, places and jobs. *)
LEMMA FiniteAgents ==
    IsFiniteSet(Agents) /\ IsFiniteSet(Callers) /\ IsFiniteSet(Workers) /\ IsFiniteSet(Places)
    /\ IsFiniteSet(Instances)
<1>1. IsFiniteSet(Callers \cup Workers)
  BY PoolAssumption, FS_Union
<1>2. IsFiniteSet({Owner})
  BY FS_Singleton
<1>3. IsFiniteSet(Agents)
  BY <1>1, <1>2, FS_Union DEF Agents
<1>4. IsFiniteSet(Places)
  BY PoolAssumption, FS_Interval DEF Places
<1>5. IsFiniteSet(Instances)
  BY PoolAssumption, FS_Interval DEF Instances
<1> QED BY <1>3, <1>4, <1>5, PoolAssumption

(* How the number of threads at some labels changes when one moves *)
LEMMA HoldersStep ==
    ASSUME NEW p \in Agents, NEW l, Alone(p, l), NEW L
    PROVE  /\ Cardinality(Holders(L)) \in Nat /\ Cardinality(Holders(L)') \in Nat
           /\ (at[p] \in L <=> l \in L) => Cardinality(Holders(L)') = Cardinality(Holders(L))
           /\ at[p] \notin L /\ l \in L => Cardinality(Holders(L)') = Cardinality(Holders(L)) + 1
           /\ at[p] \in L /\ l \notin L => Cardinality(Holders(L)') = Cardinality(Holders(L)) - 1
<1> DEFINE S == Holders(L)
           T == Holders(L)'
<1>1. /\ S \in SUBSET Agents /\ T \in SUBSET Agents
      /\ \A x \in Agents : x # p => (x \in S <=> x \in T)
      /\ p \in S <=> at[p] \in L
      /\ p \in T <=> l \in L
  BY DEF Holders, Alone
<1>2. IsFiniteSet(Agents)
  BY FiniteAgents
<1> HIDE DEF S, T
<1>3. /\ Cardinality(S) \in Nat /\ Cardinality(T) \in Nat
      /\ (p \in S <=> p \in T) => Cardinality(T) = Cardinality(S)
      /\ p \notin S /\ p \in T => Cardinality(T) = Cardinality(S) + 1
      /\ p \in S /\ p \notin T => Cardinality(T) = Cardinality(S) - 1
  BY <1>1, <1>2, CountOne
<1> QED BY <1>1, <1>3 DEF S, T

(* A list that is counted has a head when a caller is after one of its     *)
(* structures.                                                             *)
LEMMA HasHead ==
    ASSUME PoolTypes, FreeList, NEW c \in Callers,
           at[c] = "exchange" \/ complete > 0
    PROVE  freeHead # Null
<1>1. SUFFICES ASSUME freeHead = Null PROVE FALSE
  OBVIOUS
<1>2. FreeJobs = {}
  BY <1>1, StackHead DEF FreeList, FreeJobs
<1>3. Cardinality(FreeJobs) = 0
  BY <1>2, FS_EmptySet
<1> DEFINE S == Holders({"exchange", "complete"})
<1>4. IsFiniteSet(S)
  BY FiniteAgents, FS_Subset DEF Holders
<1>5. Cardinality(S) \in Nat /\ (Cardinality(S) = 0 => S = {})
  BY <1>4, FS_CardinalityType, FS_EmptySet
<1>6. complete + Cardinality(S) = 0 /\ complete \in Nat
  BY <1>3 DEF FreeList, PoolTypes
<1>7. complete = 0 /\ S = {}
  <2> HIDE DEF S
  <2> QED BY <1>5, <1>6
<1>8. at[c] = "exchange" => c \in S
  BY AgentFacts DEF Holders
<1> QED BY <1>7, <1>8

(* What the steps do to the free list *)
ListSame == IsStack(freeHead, jobs)' /\ FreeJobs' = FreeJobs

(* A step that leaves the links of the list alone leaves the list alone. *)
LEMMA ListKept ==
    ASSUME IsStack(freeHead, jobs), freeHead' = freeHead,
           \A i \in FreeJobs : jobs'[i].next = jobs[i].next
    PROVE  ListSame
<1>1. IsStack(freeHead, jobs') /\ ReachableFrom(freeHead, jobs') = ReachableFrom(freeHead, jobs)
  BY StackSame DEF FreeJobs
<1> QED BY <1>1 DEF ListSame, FreeJobs

(* The list consists of structures of the pool. *)
LEMMA FreeSubset ==
    ASSUME FreeList
    PROVE  FreeJobs \subseteq Places
  BY StackHead DEF FreeList, FreeJobs

(* A step that changes one structure's fields, but not its link *)
LEMMA ListKeptInit ==
    ASSUME FreeList, NEW c \in Callers, HaveJobs,
           InitEffect(c) \/ FailEffect(c) \/ AwaitEffect(c)
    PROVE  ListSame
<1>1. freeHead' = freeHead /\ \A i \in Places : jobs'[i].next = jobs[i].next
  <2>1. CASE InitEffect(c)
    BY <2>1 DEF InitEffect, OnlyJob
  <2>2. CASE FailEffect(c)
    BY <2>2 DEF FailEffect, OnlyJob
  <2>3. CASE AwaitEffect(c)
    BY <2>3 DEF AwaitEffect, OnlyJob
  <2> QED BY <2>1, <2>2, <2>3
<1> QED BY <1>1, FreeSubset, ListKept DEF FreeList

(* A step that changes no link keeps the list. *)
LEMMA ListKeptRun ==
    ASSUME FreeList, NEW w \in Workers, RunEffect(w)
    PROVE  ListSame
<1>1. freeHead' = freeHead /\ \A i \in Places : jobs'[i].next = jobs[i].next
  BY DEF RunEffect, OnlyJob
<1> QED BY <1>1, FreeSubset, ListKept DEF FreeList

(* Linking a structure that is not on the list *)
LEMMA ListKeptLink ==
    ASSUME FreeList, Owned, NEW p \in Callers \cup Workers, Holds(p), LinkEffect(p)
    PROVE  ListSame
<1>1. loc[p].job \notin FreeJobs
  BY AgentFacts DEF Owned
<1>2. freeHead' = freeHead /\ \A i \in FreeJobs : jobs'[i].next = jobs[i].next
  BY <1>1, FreeSubset DEF LinkEffect, OnlyJob
<1> QED BY <1>2, ListKept DEF FreeList

(* The exchange of free_list_push adds its structure to the list. *)
LEMMA ListPushed ==
    ASSUME FreeList, Owned, HaveJobs, NEW p \in Callers \cup Workers, PushEffect(p)
    PROVE  /\ IsStack(freeHead, jobs)' /\ FreeJobs' = FreeJobs \cup {loc[p].job}
           /\ loc[p].job \in Places /\ loc[p].job \notin FreeJobs
<1>1. Holds(p) /\ p \in Agents
  BY AgentFacts DEF PushEffect, Holds, Holding
<1>2. loc[p].job \in Places /\ loc[p].job \notin FreeJobs /\ jobs[loc[p].job].next = freeHead
  BY <1>1 DEF Owned, HaveJobs, PushEffect
<1>3. /\ IsStack(loc[p].job, jobs)
      /\ ReachableFrom(loc[p].job, jobs) = ReachableFrom(freeHead, jobs) \cup {loc[p].job}
  BY <1>2, StackPush DEF FreeList, FreeJobs
<1>4. freeHead' = loc[p].job /\ jobs' = jobs
  BY DEF PushEffect
<1> QED BY <1>2, <1>3, <1>4 DEF FreeJobs

(* The exchange of free_list_pop takes the head off the list. *)
LEMMA ListPopped ==
    ASSUME FreeList, NEW c \in Callers, PopEffect(c), Clean', freeHead # Null
    PROVE  /\ IsStack(freeHead, jobs)' /\ FreeJobs' = FreeJobs \ {freeHead}
           /\ freeHead \in FreeJobs
<1>1. freeHead' = jobs[freeHead].next /\ jobs' = jobs
  BY DEF PopEffect, Clean, Damage
<1>2. /\ IsStack(jobs[freeHead].next, jobs)
      /\ ReachableFrom(jobs[freeHead].next, jobs) = ReachableFrom(freeHead, jobs) \ {freeHead}
      /\ freeHead \in ReachableFrom(freeHead, jobs)
  BY StackPop, StackHead DEF FreeList
<1> QED BY <1>1, <1>2 DEF FreeJobs
-----------------------------------------------------------------------------
(* Every step is one of these. *)
CallerEffect(c) ==
    \/ \E join \in BOOLEAN : CreateEffect(c, join)
    \/ TakeEffect(c) \/ RetryEffect(c) \/ PopEffect(c)
    \/ InitEffect(c) \/ FailEffect(c)
    \/ AcquireEffect(c) \/ WriteEffect(c) \/ SignalEffect(c)
    \/ \E k \in Instances : WaitEffect(c, k)
    \/ AwaitEffect(c) \/ FreeEffect(c) \/ ReturnEffect(c)
    \/ RelinkEffect(c) \/ PushEffect(c) \/ CompleteEffect(c) \/ UncountEffect(c)

WorkerEffect(w) ==
    \/ PendingEffect(w) \/ ReadAgainEffect(w) \/ ClaimEffect(w) \/ RunEffect(w)
    \/ FreeEffect(w) \/ RelinkEffect(w) \/ PushEffect(w) \/ CompleteEffect(w)

OwnerEffect ==
    QuitEffect \/ AcquireEffect(Owner) \/ StopEffect \/ SignalWorkersEffect \/ JoinEffect

PoolEffect ==
    \/ \E c \in Callers : CallerEffect(c)
    \/ \E w \in Workers : WorkerEffect(w)
    \/ OwnerEffect

(* Every step of the specification does what its effect says. *)
LEMMA PoolEffects ==
    ASSUME PoolTypes, HaveJobs, PoolNext,
           \A c \in Callers : at[c] = "exchange" \/ (at[c] = "take" /\ complete > 0) => freeHead # Null
    PROVE  PoolTypes' /\ HaveJobs' /\ Damage = {} /\ PoolEffect
<1>1. ASSUME NEW c \in Callers, NEW join \in BOOLEAN, create_job(c, join)
      PROVE  PoolTypes' /\ HaveJobs' /\ CallerEffect(c)
  BY <1>1, CreateStep DEF CallerEffect
<1>2. ASSUME NEW c \in Callers, NEW k \in Instances, basic_thread_pool_wait(c, k)
      PROVE  PoolTypes' /\ HaveJobs' /\ CallerEffect(c)
  BY <1>2, WaitStep DEF CallerEffect
<1>3. ASSUME NEW c \in Callers, CallerStep(c)
      PROVE  PoolTypes' /\ HaveJobs' /\ CallerEffect(c)
  <2>1. ASSUME TakeSlot(c) PROVE PoolTypes' /\ HaveJobs' /\ TakeEffect(c)
    <3>1. freeHead # Null
      BY <2>1 DEF TakeSlot
    <3> QED BY <2>1, <3>1, TakeStep
  <2>2. ASSUME PopExchange(c)
        PROVE  PoolTypes' /\ HaveJobs' /\ (RetryEffect(c) \/ PopEffect(c))
    <3>1. freeHead # Null
      BY <2>2 DEF PopExchange
    <3> QED BY <2>2, <3>1, PopStep
  <2>3. ASSUME InitJob(c) PROVE PoolTypes' /\ HaveJobs' /\ InitEffect(c)
    BY <2>3, InitStep
  <2>4. ASSUME InitFails(c) PROVE PoolTypes' /\ HaveJobs' /\ FailEffect(c)
    BY <2>4, FailStep
  <2>5. ASSUME AcquirePlace(c) PROVE PoolTypes' /\ HaveJobs' /\ AcquireEffect(c)
    BY <2>5, AcquireStep
  <2>6. ASSUME WriteCell(c) PROVE PoolTypes' /\ HaveJobs' /\ WriteEffect(c)
    BY <2>6, WriteStep
  <2>7. ASSUME SignalPending(c) PROVE PoolTypes' /\ HaveJobs' /\ SignalEffect(c)
    BY <2>7, SignalStep
  <2>8. ASSUME AwaitJob(c) PROVE PoolTypes' /\ HaveJobs' /\ AwaitEffect(c)
    BY <2>8, AwaitStep
  <2>9. ASSUME FreeJob(c) PROVE PoolTypes' /\ HaveJobs' /\ FreeEffect(c)
    BY <2>9, FreeStep
  <2>10. ASSUME ReturnJob(c) PROVE PoolTypes' /\ HaveJobs' /\ ReturnEffect(c)
    BY <2>10, ReturnStep
  <2>11. ASSUME PushExchange(c)
         PROVE  PoolTypes' /\ HaveJobs' /\ (RelinkEffect(c) \/ PushEffect(c))
    BY <2>11, PushStep
  <2>12. ASSUME SignalComplete(c) PROVE PoolTypes' /\ HaveJobs' /\ CompleteEffect(c)
    BY <2>12, CompleteStep
  <2>13. ASSUME Uncount(c) PROVE PoolTypes' /\ HaveJobs' /\ UncountEffect(c)
    BY <2>13, UncountStep
  <2> QED BY <1>3, <2>1, <2>2, <2>3, <2>4, <2>5, <2>6, <2>7, <2>8, <2>9, <2>10, <2>11, <2>12,
             <2>13, Zenon DEF CallerStep, CallerEffect
<1>4. ASSUME NEW w \in Workers, WorkerStep(w)
      PROVE  PoolTypes' /\ HaveJobs' /\ WorkerEffect(w)
  <2>1. ASSUME WaitPending(w) PROVE PoolTypes' /\ HaveJobs' /\ PendingEffect(w)
    BY <2>1, PendingStep
  <2>2. ASSUME ClaimCell(w)
        PROVE  PoolTypes' /\ HaveJobs' /\ (ReadAgainEffect(w) \/ ClaimEffect(w))
    BY <2>2, ClaimStep
  <2>3. ASSUME RunJob(w) PROVE PoolTypes' /\ HaveJobs' /\ RunEffect(w)
    BY <2>3, RunStep
  <2>4. ASSUME FreeJob(w) PROVE PoolTypes' /\ HaveJobs' /\ FreeEffect(w)
    BY <2>4, FreeStep
  <2>5. ASSUME PushExchange(w)
        PROVE  PoolTypes' /\ HaveJobs' /\ (RelinkEffect(w) \/ PushEffect(w))
    BY <2>5, PushStep
  <2>6. ASSUME SignalComplete(w) PROVE PoolTypes' /\ HaveJobs' /\ CompleteEffect(w)
    BY <2>6, CompleteStep
  <2> QED BY <1>4, <2>1, <2>2, <2>3, <2>4, <2>5, <2>6, Zenon DEF WorkerStep, WorkerEffect
<1>5. ASSUME job_system_free \/ OwnerStep
      PROVE  PoolTypes' /\ HaveJobs' /\ OwnerEffect
  <2>1. ASSUME job_system_free PROVE PoolTypes' /\ HaveJobs' /\ QuitEffect
    BY <2>1, QuitStep
  <2>2. ASSUME AcquirePlace(Owner) PROVE PoolTypes' /\ HaveJobs' /\ AcquireEffect(Owner)
    BY <2>2, AcquireStep
  <2>3. ASSUME WriteCell(Owner) PROVE PoolTypes' /\ HaveJobs' /\ StopEffect
    BY <2>3, StopStep
  <2>4. ASSUME SignalWorkers PROVE PoolTypes' /\ HaveJobs' /\ SignalWorkersEffect
    BY <2>4, SignalWorkersStep
  <2>5. ASSUME JoinWorkers PROVE PoolTypes' /\ HaveJobs' /\ JoinEffect
    BY <2>5, JoinStep
  <2> QED BY <1>5, <2>1, <2>2, <2>3, <2>4, <2>5, Zenon DEF OwnerStep, OwnerEffect
<1>6. Damage = {}
  BY Zenon DEF PoolNext, CallerStep, WorkerStep, OwnerStep
<1>7. PoolTypes' /\ HaveJobs' /\ PoolEffect
  BY <1>1, <1>2, <1>3, <1>4, <1>5, Zenon DEF PoolNext, PoolEffect
<1> QED BY <1>6, <1>7

(* A step in which the list stays and nobody takes or gives a structure *)
LEMMA FreeListQuiet ==
    ASSUME FreeList, ListSame, NEW p \in Agents, NEW l, Alone(p, l), complete' = complete,
           at[p] \in {"exchange", "complete"} <=> l \in {"exchange", "complete"}
    PROVE  FreeList'
<1>1. Cardinality(Holders({"exchange", "complete"})') = Cardinality(Holders({"exchange", "complete"}))
  BY HoldersStep
<1> QED BY <1>1 DEF FreeList, ListSame

(* A step of a caller keeps the free list and what complete says of it. *)
LEMMA FreeListCaller ==
    ASSUME PoolTypes, HaveJobs, FreeList, Owned, Clean', NEW c \in Callers, CallerEffect(c)
    PROVE  FreeList' /\ (ListSame \/ PopEffect(c) \/ PushEffect(c))
<1>0. c \in Agents /\ IsStack(freeHead, jobs) /\ complete \in Nat /\ Cardinality(FreeJobs) \in Nat
      /\ IsFiniteSet(FreeJobs)
  BY AgentFacts, FreeSubset, FiniteAgents, FS_Subset, FS_CardinalityType DEF FreeList, PoolTypes
<1>1. freeHead' = freeHead /\ jobs' = jobs => ListSame
  BY <1>0, ListKept
<1> DEFINE L == {"exchange", "complete"}
<1>2. ASSUME NEW join \in BOOLEAN, CreateEffect(c, join) PROVE FreeList' /\ ListSame
  BY <1>0, <1>1, <1>2, FreeListQuiet DEF CreateEffect
<1>3. ASSUME TakeEffect(c) PROVE FreeList' /\ ListSame
  <2>1. ListSame /\ Alone(c, "exchange") /\ at[c] = "take" /\ complete' = complete - 1
    BY <1>1, <1>3 DEF TakeEffect
  <2>2. /\ Cardinality(Holders(L)) \in Nat
        /\ Cardinality(Holders(L)') = Cardinality(Holders(L)) + 1
    BY <1>0, <2>1, HoldersStep
  <2> QED BY <1>0, <2>1, <2>2 DEF FreeList, ListSame
<1>4. ASSUME RetryEffect(c) PROVE FreeList' /\ ListSame
  BY <1>0, <1>1, <1>4, FreeListQuiet DEF RetryEffect
<1>5. ASSUME PopEffect(c) PROVE FreeList'
  <2>1. at[c] = "exchange" /\ Alone(c, "init") /\ complete' = complete
    BY <1>5 DEF PopEffect
  <2>2. freeHead # Null
    BY <2>1, HasHead
  <2>3. /\ IsStack(freeHead, jobs)' /\ FreeJobs' = FreeJobs \ {freeHead}
        /\ freeHead \in FreeJobs
    BY <1>5, <2>2, ListPopped
  <2>4. Cardinality(FreeJobs') = Cardinality(FreeJobs) - 1
    BY <1>0, <2>3, FS_RemoveElement
  <2>5. /\ Cardinality(Holders(L)) \in Nat
        /\ Cardinality(Holders(L)') = Cardinality(Holders(L)) - 1
    BY <1>0, <2>1, HoldersStep
  <2> QED BY <1>0, <2>1, <2>3, <2>4, <2>5 DEF FreeList
<1>6. ASSUME InitEffect(c) \/ FailEffect(c) \/ AwaitEffect(c) PROVE FreeList' /\ ListSame
  <2>1. ListSame
    BY <1>6, ListKeptInit
  <2>2. CASE InitEffect(c)
    BY <1>0, <2>1, <2>2, FreeListQuiet DEF InitEffect
  <2>3. CASE FailEffect(c)
    BY <1>0, <2>1, <2>3, FreeListQuiet DEF FailEffect
  <2>4. CASE AwaitEffect(c)
    BY <1>0, <2>1, <2>4, FreeListQuiet DEF AwaitEffect
  <2> QED BY <1>6, <2>1, <2>2, <2>3, <2>4
<1>7. ASSUME AcquireEffect(c) PROVE FreeList' /\ ListSame
  BY <1>0, <1>1, <1>7, FreeListQuiet DEF AcquireEffect
<1>8. ASSUME WriteEffect(c) PROVE FreeList' /\ ListSame
  BY <1>0, <1>1, <1>8, FreeListQuiet DEF WriteEffect, StoreEffect
<1>9. ASSUME SignalEffect(c) PROVE FreeList' /\ ListSame
  BY <1>0, <1>1, <1>9, FreeListQuiet DEF SignalEffect
<1>10. ASSUME NEW k \in Instances, WaitEffect(c, k) PROVE FreeList' /\ ListSame
  BY <1>0, <1>1, <1>10, FreeListQuiet DEF WaitEffect
<1>11. ASSUME FreeEffect(c) \/ ReturnEffect(c) \/ RelinkEffect(c) PROVE FreeList' /\ ListSame
  <2>1. /\ LinkEffect(c) /\ at[c] \in {"free", "link", "push"}
        /\ Holds(c)
    BY <1>11 DEF FreeEffect, ReturnEffect, RelinkEffect, Holds, Holding
  <2>2. ListSame
    BY <2>1, ListKeptLink
  <2> QED BY <1>0, <2>1, <2>2, FreeListQuiet DEF LinkEffect
<1>12. ASSUME PushEffect(c) PROVE FreeList'
  <2>1. at[c] = "push" /\ Alone(c, "complete") /\ complete' = complete
    BY <1>12 DEF PushEffect
  <2>2. /\ IsStack(freeHead, jobs)' /\ FreeJobs' = FreeJobs \cup {loc[c].job}
        /\ loc[c].job \notin FreeJobs
    BY <1>12, ListPushed
  <2>3. Cardinality(FreeJobs') = Cardinality(FreeJobs) + 1
    BY <1>0, <2>2, FS_AddElement
  <2>4. /\ Cardinality(Holders(L)) \in Nat
        /\ Cardinality(Holders(L)') = Cardinality(Holders(L)) + 1
    BY <1>0, <2>1, HoldersStep
  <2> QED BY <1>0, <2>1, <2>2, <2>3, <2>4 DEF FreeList
<1>13. ASSUME CompleteEffect(c) PROVE FreeList' /\ ListSame
  <2>1. ListSame /\ at[c] = "complete" /\ complete' = complete + 1
    BY <1>1, <1>13 DEF CompleteEffect
  <2>2. PICK l : Alone(c, l) /\ l \notin L
    BY <1>13 DEF CompleteEffect
  <2>3. /\ Cardinality(Holders(L)) \in Nat
        /\ Cardinality(Holders(L)') = Cardinality(Holders(L)) - 1
    BY <1>0, <2>1, <2>2, HoldersStep
  <2> QED BY <1>0, <2>1, <2>3 DEF FreeList, ListSame
<1>14. ASSUME UncountEffect(c) PROVE FreeList' /\ ListSame
  BY <1>0, <1>1, <1>14, FreeListQuiet DEF UncountEffect
<1> QED BY <1>2, <1>3, <1>4, <1>5, <1>6, <1>7, <1>8, <1>9, <1>10, <1>11, <1>12, <1>13, <1>14, Zenon
        DEF CallerEffect

(* A step of a worker keeps the free list and what complete says of it. *)
LEMMA FreeListWorker ==
    ASSUME PoolTypes, HaveJobs, FreeList, Owned, Clean', NEW w \in Workers, WorkerEffect(w)
    PROVE  FreeList' /\ (ListSame \/ PushEffect(w))
<1>0. w \in Agents /\ IsStack(freeHead, jobs) /\ complete \in Nat /\ Cardinality(FreeJobs) \in Nat
      /\ IsFiniteSet(FreeJobs)
  BY AgentFacts, FreeSubset, FiniteAgents, FS_Subset, FS_CardinalityType DEF FreeList, PoolTypes
<1>1. freeHead' = freeHead /\ jobs' = jobs => ListSame
  BY <1>0, ListKept
<1> DEFINE L == {"exchange", "complete"}
<1>2. ASSUME PendingEffect(w) PROVE FreeList' /\ ListSame
  BY <1>0, <1>1, <1>2, FreeListQuiet DEF PendingEffect
<1>3. ASSUME ReadAgainEffect(w) PROVE FreeList' /\ ListSame
  BY <1>0, <1>1, <1>3, FreeListQuiet DEF ReadAgainEffect
<1>4. ASSUME ClaimEffect(w) PROVE FreeList' /\ ListSame
  <2>1. PICK l : Alone(w, l) /\ l \notin L
    BY <1>4 DEF ClaimEffect
  <2> QED BY <1>0, <1>1, <1>4, <2>1, FreeListQuiet DEF ClaimEffect
<1>5. ASSUME RunEffect(w) PROVE FreeList' /\ ListSame
  <2>1. ListSame
    BY <1>5, ListKeptRun
  <2>2. PICK l : Alone(w, l) /\ l \notin L
    BY <1>5 DEF RunEffect
  <2> QED BY <1>0, <1>5, <2>1, <2>2, FreeListQuiet DEF RunEffect
<1>6. ASSUME FreeEffect(w) \/ RelinkEffect(w) PROVE FreeList' /\ ListSame
  <2>1. /\ LinkEffect(w) /\ at[w] \in {"free", "push"}
        /\ Holds(w)
    BY <1>6 DEF FreeEffect, RelinkEffect, Holds, Holding
  <2>2. ListSame
    BY <2>1, ListKeptLink
  <2> QED BY <1>0, <2>1, <2>2, FreeListQuiet DEF LinkEffect
<1>7. ASSUME PushEffect(w) PROVE FreeList'
  <2>1. at[w] = "push" /\ Alone(w, "complete") /\ complete' = complete
    BY <1>7 DEF PushEffect
  <2>2. /\ IsStack(freeHead, jobs)' /\ FreeJobs' = FreeJobs \cup {loc[w].job}
        /\ loc[w].job \notin FreeJobs
    BY <1>7, ListPushed
  <2>3. Cardinality(FreeJobs') = Cardinality(FreeJobs) + 1
    BY <1>0, <2>2, FS_AddElement
  <2>4. /\ Cardinality(Holders(L)) \in Nat
        /\ Cardinality(Holders(L)') = Cardinality(Holders(L)) + 1
    BY <1>0, <2>1, HoldersStep
  <2> QED BY <1>0, <2>1, <2>2, <2>3, <2>4 DEF FreeList
<1>8. ASSUME CompleteEffect(w) PROVE FreeList' /\ ListSame
  <2>1. ListSame /\ at[w] = "complete" /\ complete' = complete + 1
    BY <1>1, <1>8 DEF CompleteEffect
  <2>2. PICK l : Alone(w, l) /\ l \notin L
    BY <1>8 DEF CompleteEffect
  <2>3. /\ Cardinality(Holders(L)) \in Nat
        /\ Cardinality(Holders(L)') = Cardinality(Holders(L)) - 1
    BY <1>0, <2>1, <2>2, HoldersStep
  <2> QED BY <1>0, <2>1, <2>3 DEF FreeList, ListSame
<1> QED BY <1>2, <1>3, <1>4, <1>5, <1>6, <1>7, <1>8, Zenon DEF WorkerEffect

(* A step of the owner keeps the free list and what complete says of it. *)
LEMMA FreeListOwner ==
    ASSUME PoolTypes, FreeList, OwnerEffect
    PROVE  FreeList' /\ ListSame
<1>0. Owner \in Agents /\ IsStack(freeHead, jobs)
  BY AgentFacts DEF FreeList
<1>1. freeHead' = freeHead /\ jobs' = jobs => ListSame
  BY <1>0, ListKept
<1>2. PICK l : Alone(Owner, l) /\ l \notin {"exchange", "complete"}
  BY DEF OwnerEffect, QuitEffect, AcquireEffect, StopEffect, SignalWorkersEffect, JoinEffect
<1>3. at[Owner] \notin {"exchange", "complete"}
  BY DEF PoolTypes, Controls, OwnerPC
<1>4. freeHead' = freeHead /\ jobs' = jobs /\ complete' = complete
  BY DEF OwnerEffect, QuitEffect, AcquireEffect, StopEffect, StoreEffect, SignalWorkersEffect,
         JoinEffect
<1> QED BY <1>0, <1>1, <1>2, <1>3, <1>4, FreeListQuiet
-----------------------------------------------------------------------------
(* A structure is in one place only. *)

(* p holds after the step what it held before it, if anything. *)
HoldsOn(p) ==
    at'[p] \in Holding =>
        /\ at[p] \in Holding /\ loc'[p].job = loc[p].job
        /\ at'[p] = "push" => at[p] = "push" /\ loc'[p].old = loc[p].old

(* A step that moves no structure from one holder to another *)
LEMMA OwnedQuiet ==
    ASSUME Owned, ListSame, HaveJobs, NEW p \in Agents, NEW l, Alone(p, l),
           p = Owner \/ HoldsOn(p),
           unread' \subseteq unread, \A r \in unread' : ring'.cells[r] = ring.cells[r],
           \A i \in Places : jobs'[i].next = jobs[i].next
    PROVE  Owned'
<1>1. \A q \in Agents : Holds(q)' =>
        /\ Holds(q) /\ loc'[q].job = loc[q].job /\ loc[q].job \in Places
        /\ at'[q] = "push" => at[q] = "push" /\ loc'[q].old = loc[q].old
  BY AgentFacts DEF HaveJobs, Holds, HoldsOn, Alone
<1>2. FreeJobs' = FreeJobs
  BY DEF ListSame
<1>3. ASSUME NEW q \in Agents, Holds(q)'
      PROVE  /\ loc'[q].job \notin FreeJobs'
             /\ \A r \in unread' : ring'.cells[r] # loc'[q].job
             /\ \A s \in Agents : Holds(s)' /\ loc'[s].job = loc'[q].job => q = s
             /\ at'[q] = "push" => jobs'[loc'[q].job].next = loc'[q].old
  BY <1>1, <1>2, <1>3 DEF Owned
<1>4. ASSUME NEW r \in unread'
      PROVE  /\ ring'.cells[r] \notin FreeJobs'
             /\ \A s \in unread' : ring'.cells[r] = ring'.cells[s] => r = s \/ ring'.cells[r] = Null
  BY <1>2 DEF Owned
<1> QED BY <1>3, <1>4 DEF Owned

(* A caller that is busy has the number of a job. *)
LEMMA InstTypes ==
    ASSUME PoolTypes, Numbered, NEW c \in Callers, at[c] # "idle"
    PROVE  loc[c].inst \in Instances /\ loc[c].inst <= created
<1>1. loc[c].inst \in 1 .. created /\ created \in 0 .. MaxJobs
  BY DEF Numbered, PoolTypes
<1> QED BY <1>1, PoolAssumption DEF Instances

(* A job that can be awaited has been run; nobody holds its structure. *)
LEMMA AwaitAlone ==
    ASSUME PoolTypes, HaveJobs, Numbered, ToRun, Ids, NEW c \in Callers, AwaitEffect(c)
    PROVE  /\ loc[c].job \in Places /\ loc[c].inst \in Instances
           /\ NamedJob(loc[c].inst, loc[c].job)
           /\ jobs[loc[c].job].done
           /\ \A r \in unread : ring.cells[r] # loc[c].job
           /\ \A q \in Agents : Holds(q) => loc[q].job # loc[c].job
<1>1. PICK j \in Places : j = loc[c].job
  BY DEF HaveJobs, AwaitEffect
<1>2. PICK k \in Instances : k = loc[c].inst /\ NamedJob(k, j)
  <2>1. Reaches(loc[c].inst, loc[c].job)
    BY DEF Ids, Awaits, AwaitEffect
  <2>2. loc[c].inst \in Instances
    BY InstTypes DEF AwaitEffect
  <2> QED BY <1>1, <2>1, <2>2 DEF Ids, Names, Named
<1>3. jobs[j].done /\ jobs[j].sem > 0
  BY <1>1, <1>2 DEF NamedJob, AwaitEffect
<1>4. \A r \in unread : ring.cells[r] # j
  BY <1>3, AgentFacts DEF ToRun, Fresh
<1>5. ASSUME NEW q \in Agents, Holds(q), loc[q].job = j PROVE FALSE
  <2>1. at[q] = "run" \/ Waiter(q)
    BY <1>2, <1>5 DEF NamedJob
  <2>2. CASE at[q] = "run"
    <3>1. q \in Workers
      BY <2>2, AgentFacts DEF PoolTypes, Controls, CallerPC, OwnerPC
    <3> QED BY <1>3, <1>5, <2>2, <3>1 DEF ToRun, Fresh
  <2>3. CASE Waiter(q)
    BY <1>3, <1>5, <2>3 DEF Ids, Waits, Waiter
  <2> QED BY <2>1, <2>2, <2>3
<1> QED BY <1>1, <1>2, <1>3, <1>4, <1>5

(* A step of a caller keeps the structures apart. *)
LEMMA OwnedCaller ==
    ASSUME PoolTypes, HaveJobs, FreeList, Owned, Numbered, ToRun, Ids, Clean',
           NEW c \in Callers, CallerEffect(c)
    PROVE  Owned'
<1>0. c \in Agents /\ c # Owner
  BY AgentFacts
<1>1. ListSame \/ PopEffect(c) \/ PushEffect(c)
  BY FreeListCaller
<1>2. ASSUME NEW join \in BOOLEAN, CreateEffect(c, join) PROVE Owned'
  <2>1. ListSame /\ Alone(c, "take") /\ HoldsOn(c)
    BY <1>0, <1>1, <1>2 DEF CreateEffect, PopEffect, PushEffect, Alone, HoldsOn, Holding
  <2> QED BY <1>0, <1>2, <2>1, OwnedQuiet DEF CreateEffect
<1>3. ASSUME TakeEffect(c) PROVE Owned'
  <2>1. ListSame /\ Alone(c, "exchange") /\ HoldsOn(c)
    BY <1>0, <1>1, <1>3 DEF TakeEffect, PopEffect, PushEffect, Alone, HoldsOn, Holding
  <2> QED BY <1>0, <1>3, <2>1, OwnedQuiet DEF TakeEffect
<1>4. ASSUME RetryEffect(c) PROVE Owned'
  <2>1. ListSame /\ Alone(c, "exchange") /\ HoldsOn(c)
    BY <1>0, <1>1, <1>4 DEF RetryEffect, PopEffect, PushEffect, Alone, HoldsOn, Holding
  <2> QED BY <1>0, <1>4, <2>1, OwnedQuiet DEF RetryEffect
<1>5. ASSUME InitEffect(c) PROVE Owned'
  <2>1. ListSame /\ Alone(c, "acquire") /\ HoldsOn(c)
    BY <1>0, <1>1, <1>5 DEF InitEffect, PopEffect, PushEffect, Alone, HoldsOn, Holding
  <2>2. \A i \in Places : jobs'[i].next = jobs[i].next
    BY <1>5 DEF InitEffect, OnlyJob
  <2> QED BY <1>0, <1>5, <2>1, <2>2, OwnedQuiet DEF InitEffect
<1>6. ASSUME FailEffect(c) PROVE Owned'
  <2>1. ListSame /\ Alone(c, "link") /\ HoldsOn(c)
    BY <1>0, <1>1, <1>6 DEF FailEffect, PopEffect, PushEffect, Alone, HoldsOn, Holding
  <2>2. \A i \in Places : jobs'[i].next = jobs[i].next
    BY <1>6 DEF FailEffect, OnlyJob
  <2> QED BY <1>0, <1>6, <2>1, <2>2, OwnedQuiet DEF FailEffect
<1>7. ASSUME AcquireEffect(c) PROVE Owned'
  <2>1. ListSame /\ Alone(c, "write") /\ HoldsOn(c)
    BY <1>0, <1>1, <1>7 DEF AcquireEffect, PopEffect, PushEffect, Alone, HoldsOn, Holding
  <2>2. unread' \subseteq unread /\ \A r \in unread' : ring'.cells[r] = ring.cells[r]
    BY <1>7 DEF AcquireEffect
  <2> QED BY <1>0, <1>7, <2>1, <2>2, OwnedQuiet DEF AcquireEffect
<1>8. ASSUME SignalEffect(c) PROVE Owned'
  <2>1. ListSame /\ Alone(c, "idle") /\ HoldsOn(c)
    BY <1>0, <1>1, <1>8 DEF SignalEffect, PopEffect, PushEffect, Alone, HoldsOn, Holding
  <2> QED BY <1>0, <1>8, <2>1, OwnedQuiet DEF SignalEffect
<1>9. ASSUME NEW k \in Instances, WaitEffect(c, k) PROVE Owned'
  <2>1. ListSame /\ Alone(c, "await") /\ HoldsOn(c)
    BY <1>0, <1>1, <1>9 DEF WaitEffect, PopEffect, PushEffect, Alone, HoldsOn, Holding
  <2> QED BY <1>0, <1>9, <2>1, OwnedQuiet DEF WaitEffect
<1>10. ASSUME CompleteEffect(c) PROVE Owned'
  <2>1. ListSame /\ HoldsOn(c)
    BY <1>0, <1>1, <1>10 DEF CompleteEffect, PopEffect, PushEffect, Alone, HoldsOn, Holding
  <2>2. PICK l : Alone(c, l)
    BY <1>10 DEF CompleteEffect
  <2> QED BY <1>0, <1>10, <2>1, <2>2, OwnedQuiet DEF CompleteEffect
<1>11. ASSUME UncountEffect(c) PROVE Owned'
  <2>1. ListSame /\ Alone(c, "idle") /\ HoldsOn(c)
    BY <1>0, <1>1, <1>11 DEF UncountEffect, PopEffect, PushEffect, Alone, HoldsOn, Holding
  <2> QED BY <1>0, <1>11, <2>1, OwnedQuiet DEF UncountEffect
<1>12. ASSUME PopEffect(c) PROVE Owned'
  <2>1. at[c] = "exchange" /\ freeHead # Null
    BY <1>12, HasHead DEF PopEffect
  <2>2. FreeJobs' = FreeJobs \ {freeHead} /\ freeHead \in FreeJobs
    BY <1>12, <2>1, ListPopped
  <2>3. /\ at'[c] = "init" /\ loc'[c].job = freeHead /\ jobs' = jobs /\ unread' = unread
        /\ ring' = ring
        /\ \A q \in Agents \ {c} : at'[q] = at[q] /\ loc'[q] = loc[q]
    BY <1>12 DEF PopEffect, Alone
  <2> QED BY <1>0, <2>1, <2>2, <2>3 DEF Owned, Holds, Holding
<1>13. ASSUME PushEffect(c) PROVE Owned'
  <2>1. FreeJobs' = FreeJobs \cup {loc[c].job} /\ loc[c].job \in Places
    BY <1>13, ListPushed
  <2>2. /\ at[c] = "push" /\ at'[c] = "complete" /\ jobs' = jobs /\ unread' = unread
        /\ ring' = ring
        /\ \A q \in Agents \ {c} : at'[q] = at[q] /\ loc'[q] = loc[q]
    BY <1>13 DEF PushEffect, Alone
  <2> QED BY <1>0, <2>1, <2>2 DEF Owned, Holds, Holding
<1>14. ASSUME WriteEffect(c) PROVE Owned'
  <2>1. FreeJobs' = FreeJobs
    BY <1>1, <1>14 DEF WriteEffect, StoreEffect, PopEffect, PushEffect, ListSame
  <2>2. /\ at[c] = "write" /\ at'[c] = "signal" /\ jobs' = jobs
        /\ unread' = unread \cup {loc[c].place}
        /\ ring'.cells[loc[c].place] = loc[c].job
        /\ \A r \in unread : r # loc[c].place => ring'.cells[r] = ring.cells[r]
        /\ \A q \in Agents \ {c} : at'[q] = at[q] /\ loc'[q] = loc[q]
    BY <1>14 DEF WriteEffect, StoreEffect, Alone, PoolTypes
  <2>3. Holds(c)
    BY <2>2 DEF Holds, Holding
  <2>4. \A q \in Agents : Holds(q)' => Holds(q) /\ q # c /\ at'[q] = at[q] /\ loc'[q] = loc[q]
    BY <1>0, <2>2 DEF Holds, Holding
  <2>5. ASSUME NEW q \in Agents, Holds(q)'
        PROVE  /\ loc'[q].job \notin FreeJobs'
               /\ \A r \in unread' : ring'.cells[r] # loc'[q].job
               /\ \A s \in Agents : Holds(s)' /\ loc'[s].job = loc'[q].job => q = s
               /\ at'[q] = "push" => jobs'[loc'[q].job].next = loc'[q].old
    BY <1>0, <2>1, <2>2, <2>3, <2>4, <2>5 DEF Owned
  <2>6. ASSUME NEW r \in unread'
        PROVE  /\ ring'.cells[r] \notin FreeJobs'
               /\ \A s \in unread' : ring'.cells[r] = ring'.cells[s] => r = s \/ ring'.cells[r] = Null
    BY <1>0, <2>1, <2>2, <2>3 DEF Owned
  <2> QED BY <2>5, <2>6 DEF Owned
<1>15. ASSUME FreeEffect(c) \/ ReturnEffect(c) \/ RelinkEffect(c) PROVE Owned'
  <2>1. LinkEffect(c) /\ Holds(c)
    BY <1>15 DEF FreeEffect, ReturnEffect, RelinkEffect, Holds, Holding
  <2>2. FreeJobs' = FreeJobs
    BY <2>1, ListKeptLink DEF ListSame
  <2> QED BY <1>0, <2>1, <2>2 DEF Owned, Holds, Holding, HaveJobs, LinkEffect, Alone, OnlyJob
<1>16. ASSUME AwaitEffect(c) PROVE Owned'
  <2>1. FreeJobs' = FreeJobs
    BY <1>1, <1>16 DEF AwaitEffect, PopEffect, PushEffect, ListSame
  <2>2. PICK j \in Places : j = loc[c].job
    BY <1>16, AwaitAlone
  <2>3. NamedJob(loc[c].inst, j)
    BY <1>16, <2>2, AwaitAlone
  <2>5. \A r \in unread : ring.cells[r] # j
    BY <1>16, <2>2, AwaitAlone
  <2>6. \A q \in Agents : Holds(q) => loc[q].job # j
    BY <1>16, <2>2, AwaitAlone
  <2>7. j \notin FreeJobs
    BY <2>3 DEF NamedJob
  <2>8. /\ at'[c] = "free" /\ loc'[c] = loc[c] /\ unread' = unread /\ ring' = ring
        /\ \A q \in Agents \ {c} : at'[q] = at[q] /\ loc'[q] = loc[q]
        /\ \A i \in Places : jobs'[i].next = jobs[i].next
    BY <1>16 DEF AwaitEffect, Alone, OnlyJob
  <2> QED BY <1>0, <2>1, <2>2, <2>5, <2>6, <2>7, <2>8 DEF Owned, Holds, Holding, HaveJobs
<1> QED BY <1>2, <1>3, <1>4, <1>5, <1>6, <1>7, <1>8, <1>9, <1>10, <1>11, <1>12, <1>13, <1>14,
           <1>15, <1>16, Zenon DEF CallerEffect

(* A step of a worker keeps the structures apart. *)
LEMMA OwnedWorker ==
    ASSUME PoolTypes, HaveJobs, FreeList, Owned, Clean', NEW w \in Workers, WorkerEffect(w)
    PROVE  Owned'
<1>0. w \in Agents /\ w # Owner
  BY AgentFacts
<1>1. ListSame \/ PushEffect(w)
  BY FreeListWorker
<1>2. ASSUME PendingEffect(w) PROVE Owned'
  <2>1. ListSame /\ Alone(w, "claim") /\ HoldsOn(w)
    BY <1>0, <1>1, <1>2 DEF PendingEffect, PushEffect, Alone, HoldsOn, Holding
  <2> QED BY <1>0, <1>2, <2>1, OwnedQuiet DEF PendingEffect
<1>3. ASSUME ReadAgainEffect(w) PROVE Owned'
  <2>1. ListSame /\ Alone(w, "claim") /\ HoldsOn(w)
    BY <1>0, <1>1, <1>3 DEF ReadAgainEffect, PushEffect, Alone, HoldsOn, Holding
  <2> QED BY <1>0, <1>3, <2>1, OwnedQuiet DEF ReadAgainEffect
<1>4. ASSUME ClaimEffect(w) PROVE Owned'
  <2>1. FreeJobs' = FreeJobs
    BY <1>1, <1>4 DEF ClaimEffect, PushEffect, ListSame
  <2>2. ring.head \in unread /\ ring.cells[ring.head] = loc[w].job
    BY <1>4 DEF ClaimEffect, Clean, Damage
  <2>3. /\ at[w] = "claim" /\ at'[w] = IF loc[w].job = Null THEN "stopped" ELSE "run"
        /\ loc'[w].job = loc[w].job /\ jobs' = jobs
        /\ unread' = unread \ {ring.head} /\ ring'.cells = ring.cells
        /\ \A q \in Agents \ {w} : at'[q] = at[q] /\ loc'[q] = loc[q]
    BY <1>4 DEF ClaimEffect, Alone
  <2>4. \A q \in Agents : Holds(q)' /\ q # w => Holds(q) /\ at'[q] = at[q] /\ loc'[q] = loc[q]
    BY <2>3 DEF Holds
  <2>5. Holds(w)' => loc[w].job # Null /\ at'[w] = "run"
    BY <2>3 DEF Holds, Holding
  <2>6. ASSUME NEW q \in Agents, Holds(q)'
        PROVE  /\ loc'[q].job \notin FreeJobs'
               /\ \A r \in unread' : ring'.cells[r] # loc'[q].job
               /\ \A s \in Agents : Holds(s)' /\ loc'[s].job = loc'[q].job => q = s
               /\ at'[q] = "push" => jobs'[loc'[q].job].next = loc'[q].old
    BY <1>0, <2>1, <2>2, <2>3, <2>4, <2>5, <2>6 DEF Owned
  <2>7. ASSUME NEW r \in unread'
        PROVE  /\ ring'.cells[r] \notin FreeJobs'
               /\ \A s \in unread' : ring'.cells[r] = ring'.cells[s] => r = s \/ ring'.cells[r] = Null
    BY <2>1, <2>3 DEF Owned
  <2> QED BY <2>6, <2>7 DEF Owned
<1>5. ASSUME RunEffect(w) PROVE Owned'
  <2>1. ListSame /\ HoldsOn(w)
    BY <1>0, <1>1, <1>5 DEF RunEffect, PushEffect, Alone, HoldsOn, Holding
  <2>2. PICK l : Alone(w, l)
    BY <1>5 DEF RunEffect
  <2>3. \A i \in Places : jobs'[i].next = jobs[i].next
    BY <1>5 DEF RunEffect, OnlyJob
  <2> QED BY <1>0, <1>5, <2>1, <2>2, <2>3, OwnedQuiet DEF RunEffect
<1>6. ASSUME FreeEffect(w) \/ RelinkEffect(w) PROVE Owned'
  <2>1. LinkEffect(w) /\ Holds(w)
    BY <1>6 DEF FreeEffect, RelinkEffect, Holds, Holding
  <2>2. FreeJobs' = FreeJobs
    BY <2>1, ListKeptLink DEF ListSame
  <2> QED BY <1>0, <2>1, <2>2 DEF Owned, Holds, Holding, HaveJobs, LinkEffect, Alone, OnlyJob
<1>7. ASSUME PushEffect(w) PROVE Owned'
  <2>1. FreeJobs' = FreeJobs \cup {loc[w].job} /\ loc[w].job \in Places
    BY <1>7, ListPushed
  <2>2. /\ at[w] = "push" /\ at'[w] = "complete" /\ jobs' = jobs /\ unread' = unread
        /\ ring' = ring
        /\ \A q \in Agents \ {w} : at'[q] = at[q] /\ loc'[q] = loc[q]
    BY <1>7 DEF PushEffect, Alone
  <2> QED BY <1>0, <2>1, <2>2 DEF Owned, Holds, Holding
<1>8. ASSUME CompleteEffect(w) PROVE Owned'
  <2>1. ListSame /\ HoldsOn(w)
    BY <1>0, <1>1, <1>8, AgentFacts DEF CompleteEffect, PushEffect, Alone, HoldsOn, Holding
  <2>2. PICK l : Alone(w, l)
    BY <1>8 DEF CompleteEffect
  <2> QED BY <1>0, <1>8, <2>1, <2>2, OwnedQuiet DEF CompleteEffect
<1> QED BY <1>2, <1>3, <1>4, <1>5, <1>6, <1>7, <1>8, Zenon DEF WorkerEffect

(* A step of the owner keeps the structures apart. *)
LEMMA OwnedOwner ==
    ASSUME PoolTypes, HaveJobs, FreeList, Owned, OwnerEffect
    PROVE  Owned'
<1>0. Owner \in Agents
  BY AgentFacts
<1>1. ListSame
  BY FreeListOwner
<1>2. CASE QuitEffect
  BY <1>0, <1>1, <1>2, OwnedQuiet DEF QuitEffect
<1>3. CASE AcquireEffect(Owner)
  <2>1. unread' \subseteq unread /\ \A r \in unread' : ring'.cells[r] = ring.cells[r]
    BY <1>3 DEF AcquireEffect
  <2> QED BY <1>0, <1>1, <1>3, <2>1, OwnedQuiet DEF AcquireEffect
<1>4. CASE SignalWorkersEffect
  <2>1. PICK l : Alone(Owner, l)
    BY <1>4 DEF SignalWorkersEffect
  <2> QED BY <1>0, <1>1, <1>4, <2>1, OwnedQuiet DEF SignalWorkersEffect
<1>5. CASE JoinEffect
  BY <1>0, <1>1, <1>5, OwnedQuiet DEF JoinEffect
<1>6. CASE StopEffect
  <2>1. FreeJobs' = FreeJobs /\ Null \notin FreeJobs
    BY <1>1, FreeSubset, AgentFacts DEF ListSame
  <2>2. /\ jobs' = jobs
        /\ unread' = unread \cup {loc[Owner].place}
        /\ ring'.cells[loc[Owner].place] = Null
        /\ \A r \in unread : r # loc[Owner].place => ring'.cells[r] = ring.cells[r]
        /\ \A q \in Agents \ {Owner} : at'[q] = at[q] /\ loc'[q] = loc[q]
    BY <1>6 DEF StopEffect, StoreEffect, Alone, PoolTypes
  <2>3. \A q \in Agents : Holds(q)' =>
          Holds(q) /\ at'[q] = at[q] /\ loc'[q] = loc[q] /\ loc[q].job # Null
    BY <1>0, <2>2, AgentFacts DEF Holds, HaveJobs
  <2>4. ASSUME NEW q \in Agents, Holds(q)'
        PROVE  /\ loc'[q].job \notin FreeJobs'
               /\ \A r \in unread' : ring'.cells[r] # loc'[q].job
               /\ \A s \in Agents : Holds(s)' /\ loc'[s].job = loc'[q].job => q = s
               /\ at'[q] = "push" => jobs'[loc'[q].job].next = loc'[q].old
    BY <2>1, <2>2, <2>3, <2>4 DEF Owned
  <2>5. ASSUME NEW r \in unread'
        PROVE  /\ ring'.cells[r] \notin FreeJobs'
               /\ \A s \in unread' : ring'.cells[r] = ring'.cells[s] => r = s \/ ring'.cells[r] = Null
    BY <2>1, <2>2 DEF Owned
  <2> QED BY <2>4, <2>5 DEF Owned
<1> QED BY <1>2, <1>3, <1>4, <1>5, <1>6 DEF OwnerEffect
-----------------------------------------------------------------------------
(* A job has one structure at most. *)

(* A step that gives no number, no id and no structure to a job *)
LEMMA NumberedQuiet ==
    ASSUME PoolTypes, Numbered, NEW p \in Agents, NEW l, Alone(p, l),
           created' = created, ids' = ids, ran' = ran,
           \A i \in Places : jobs'[i].inst = jobs[i].inst,
           p \in Callers =>
              \/ l = "idle"
              \/ /\ at[p] # "idle" /\ loc'[p].inst = loc[p].inst
                 /\ Creating(p)' => Creating(p)
                 /\ l \in {"take", "exchange", "init"} => at[p] \in {"take", "exchange", "init"}
                 /\ l \in {"await", "free", "uncount"} => ids[loc[p].inst] # NoId
    PROVE  Numbered'
<1>1. \A c \in Callers : c # p => at'[c] = at[c] /\ loc'[c] = loc[c]
  BY AgentFacts DEF Alone
<1>2. at'[p] = l
  BY DEF Alone
<1>3. \A c \in Callers : c # p => (Creating(c)' <=> Creating(c))
  BY <1>1 DEF Creating
<1>4. p \in Callers /\ l = "idle" => ~ Creating(p)'
  BY <1>2 DEF Creating
<1>5. \A c \in Callers : Creating(c)' => Creating(c) /\ loc'[c].inst = loc[c].inst
  BY <1>1, <1>3, <1>4
<1>6. ASSUME NEW i \in Places
      PROVE  /\ jobs'[i].inst \in 0 .. created'
             /\ \A j \in Places : jobs'[i].inst = jobs'[j].inst => i = j \/ jobs'[i].inst = 0
  BY DEF Numbered
<1>7. ASSUME NEW c \in Callers
      PROVE  at'[c] # "idle" => loc'[c].inst \in 1 .. created'
  BY <1>1, <1>2 DEF Numbered
<1>8. ASSUME NEW c \in Callers, Creating(c)'
      PROVE  /\ ids'[loc'[c].inst] = NoId
             /\ \A d \in Callers : Creating(d)' /\ loc'[c].inst = loc'[d].inst => c = d
  BY <1>5, <1>8 DEF Numbered
<1>9. ASSUME NEW c \in Callers, at'[c] \in {"take", "exchange", "init"}
      PROVE  /\ ran'[loc'[c].inst] = 0
             /\ \A i \in Places : jobs'[i].inst # loc'[c].inst
  <2>1. at[c] \in {"take", "exchange", "init"} /\ loc'[c].inst = loc[c].inst
    BY <1>1, <1>2, <1>9
  <2> QED BY <2>1 DEF Numbered
<1>10. ASSUME NEW c \in Callers, at'[c] \in {"await", "free", "uncount"}
       PROVE  ids'[loc'[c].inst] # NoId
  <2>1. CASE c # p
    BY <1>1, <1>10, <2>1 DEF Numbered
  <2>2. CASE c = p
    BY <1>2, <1>10, <2>2
  <2> QED BY <2>1, <2>2
<1>11. \A k \in Instances : ran'[k] <= 1 /\ (k > created' => ids'[k] = NoId /\ ran'[k] = 0)
  BY DEF Numbered
<1> QED BY <1>6, <1>7, <1>8, <1>9, <1>10, <1>11 DEF Numbered

(* A step of a caller keeps the numbers of the jobs apart. *)
LEMMA NumberedCaller ==
    ASSUME PoolTypes, HaveJobs, Numbered, NEW c \in Callers, CallerEffect(c)
    PROVE  Numbered'
<1>0. c \in Agents /\ created \in 0 .. MaxJobs /\ created \in Int /\ MaxJobs \in Nat
  BY AgentFacts, PoolAssumption DEF PoolTypes
<1>2. ASSUME NEW join \in BOOLEAN, CreateEffect(c, join) PROVE Numbered'
  <2>1. PICK k \in Instances : k = created + 1
    <3>1. created < MaxJobs
      BY <1>2 DEF CreateEffect
    <3>2. created + 1 \in Instances
      BY <1>0, <3>1 DEF Instances
    <3> QED BY <3>2
  <2>2. /\ at[c] = "idle" /\ at'[c] = "take" /\ loc'[c].inst = k /\ created' = k
        /\ ids' = ids /\ ran' = ran /\ jobs' = jobs
        /\ \A d \in Callers : d # c => at'[d] = at[d] /\ loc'[d] = loc[d]
    BY <1>2, <2>1, AgentFacts DEF CreateEffect, Alone
  <2>3. k > created /\ ids[k] = NoId /\ ran[k] = 0 /\ k \in 1 .. k /\ k \in Nat
    <3>1. k > created
      BY <1>0, <2>1
    <3> QED BY <1>0, <2>1, <3>1 DEF Numbered
  <2>4. \A d \in Callers : d # c => (Creating(d)' <=> Creating(d)) /\ loc'[d].inst = loc[d].inst
    BY <2>2 DEF Creating
  <2>5. \A d \in Callers : at[d] # "idle" => loc[d].inst # k /\ loc[d].inst \in 1 .. k
    BY <1>0, <2>1 DEF Numbered
  <2>6. \A i \in Places : jobs[i].inst # k /\ jobs[i].inst \in 0 .. k
    BY <1>0, <2>1 DEF Numbered
  <2>7. ASSUME NEW i \in Places
        PROVE  /\ jobs'[i].inst \in 0 .. created'
               /\ \A j \in Places : jobs'[i].inst = jobs'[j].inst => i = j \/ jobs'[i].inst = 0
    BY <2>2, <2>6 DEF Numbered
  <2>8. ASSUME NEW d \in Callers
        PROVE  at'[d] # "idle" => loc'[d].inst \in 1 .. created'
    BY <2>2, <2>3, <2>5
  <2>9. ASSUME NEW d \in Callers, Creating(d)'
        PROVE  /\ ids'[loc'[d].inst] = NoId
               /\ \A e \in Callers : Creating(e)' /\ loc'[d].inst = loc'[e].inst => d = e
    <3>1. \A e \in Callers : Creating(e) => at[e] # "idle"
      BY DEF Creating
    <3> QED BY <2>2, <2>3, <2>4, <2>5, <2>9, <3>1 DEF Numbered
  <2>10. ASSUME NEW d \in Callers, at'[d] \in {"take", "exchange", "init"}
         PROVE  /\ ran'[loc'[d].inst] = 0
                /\ \A i \in Places : jobs'[i].inst # loc'[d].inst
    <3>1. CASE d = c
      BY <2>2, <2>3, <2>6, <3>1
    <3>2. CASE d # c
      BY <2>2, <2>10, <3>2 DEF Numbered
    <3> QED BY <3>1, <3>2
  <2>11. ASSUME NEW d \in Callers, at'[d] \in {"await", "free", "uncount"}
         PROVE  ids'[loc'[d].inst] # NoId
    BY <2>2, <2>11 DEF Numbered
  <2>12. \A m \in Instances : ran'[m] <= 1 /\ (m > created' => ids'[m] = NoId /\ ran'[m] = 0)
    <3>1. \A m \in Instances : m \in Int
      BY DEF Instances
    <3> QED BY <1>0, <2>1, <2>2, <3>1 DEF Numbered
  <2> QED BY <2>7, <2>8, <2>9, <2>10, <2>11, <2>12 DEF Numbered
<1>3. ASSUME TakeEffect(c) \/ RetryEffect(c) PROVE Numbered'
  <2>1. /\ Alone(c, "exchange") /\ at[c] \in {"take", "exchange"} /\ SameCreation(c)
        /\ UNCHANGED <<jobs, created, ids, ran>>
    BY <1>3 DEF TakeEffect, RetryEffect
  <2> QED BY <1>0, <2>1, NumberedQuiet DEF SameCreation, Creating
<1>4. ASSUME PopEffect(c) PROVE Numbered'
  <2>1. /\ Alone(c, "init") /\ at[c] = "exchange" /\ SameCreation(c)
        /\ UNCHANGED <<jobs, created, ids, ran>>
    BY <1>4 DEF PopEffect
  <2> QED BY <1>0, <2>1, NumberedQuiet DEF SameCreation, Creating
<1>5. ASSUME InitEffect(c) \/ FailEffect(c) PROVE Numbered'
  <2>1. PICK j \in Places : j = loc[c].job
    BY <1>0, <1>5 DEF HaveJobs, InitEffect, FailEffect, Holds, Holding
  <2>2. /\ at[c] = "init" /\ at'[c] \in {"acquire", "link"} /\ loc'[c] = loc[c]
        /\ \A d \in Callers : d # c => at'[d] = at[d] /\ loc'[d] = loc[d]
        /\ jobs'[j].inst = loc[c].inst
        /\ \A i \in Places : i # j => jobs'[i] = jobs[i]
        /\ UNCHANGED <<created, ids, ran>>
    BY <1>5, <2>1, AgentFacts DEF InitEffect, FailEffect, Alone, OnlyJob
  <2>3. loc[c].inst \in 1 .. created /\ loc[c].inst \in 0 .. created /\ Creating(c)
    <3>1. loc[c].inst \in 1 .. created
      BY <2>2 DEF Numbered
    <3> QED BY <1>0, <2>2, <3>1 DEF Creating
  <2>4. \A d \in Callers : (Creating(d)' <=> Creating(d)) /\ loc'[d].inst = loc[d].inst
    BY <2>2, <2>3 DEF Creating
  <2>5. \A i \in Places : jobs[i].inst # loc[c].inst
    BY <2>2 DEF Numbered
  <2>6. ASSUME NEW i \in Places
        PROVE  /\ jobs'[i].inst \in 0 .. created'
               /\ \A m \in Places : jobs'[i].inst = jobs'[m].inst => i = m \/ jobs'[i].inst = 0
    BY <2>2, <2>3, <2>5 DEF Numbered
  <2>7. ASSUME NEW d \in Callers
        PROVE  at'[d] # "idle" => loc'[d].inst \in 1 .. created'
    BY <2>2, <2>3 DEF Numbered
  <2>8. ASSUME NEW d \in Callers, Creating(d)'
        PROVE  /\ ids'[loc'[d].inst] = NoId
               /\ \A e \in Callers : Creating(e)' /\ loc'[d].inst = loc'[e].inst => d = e
    BY <2>2, <2>4, <2>8 DEF Numbered
  <2>9. ASSUME NEW d \in Callers, at'[d] \in {"take", "exchange", "init"}
        PROVE  /\ ran'[loc'[d].inst] = 0
               /\ \A i \in Places : jobs'[i].inst # loc'[d].inst
    <3>1. d # c /\ at[d] \in {"take", "exchange", "init"} /\ loc'[d] = loc[d]
      BY <2>2, <2>9
    <3>2. Creating(d) /\ loc[d].inst # loc[c].inst
      BY <2>3, <3>1 DEF Creating, Numbered
    <3> QED BY <2>2, <3>1, <3>2 DEF Numbered
  <2>10. ASSUME NEW d \in Callers, at'[d] \in {"await", "free", "uncount"}
         PROVE  ids'[loc'[d].inst] # NoId
    BY <2>2, <2>10 DEF Numbered
  <2>11. \A m \in Instances : ran'[m] <= 1 /\ (m > created' => ids'[m] = NoId /\ ran'[m] = 0)
    BY <2>2 DEF Numbered
  <2> QED BY <2>6, <2>7, <2>8, <2>9, <2>10, <2>11 DEF Numbered
<1>6. ASSUME AcquireEffect(c) PROVE Numbered'
  <2>1. /\ Alone(c, "write") /\ at[c] = "acquire" /\ SameCreation(c)
        /\ UNCHANGED <<jobs, created, ids, ran>>
    BY <1>6 DEF AcquireEffect
  <2> QED BY <1>0, <2>1, NumberedQuiet DEF SameCreation, Creating
<1>7. ASSUME WriteEffect(c) PROVE Numbered'
  <2>1. /\ Alone(c, "signal") /\ at[c] = "write" /\ SameCreation(c)
        /\ UNCHANGED <<jobs, created, ids, ran>>
    BY <1>7 DEF WriteEffect, StoreEffect
  <2> QED BY <1>0, <2>1, NumberedQuiet DEF SameCreation, Creating
<1>8. ASSUME SignalEffect(c) PROVE Numbered'
  <2>1. PICK k \in Instances : k = loc[c].inst /\ k <= created
    BY <1>8, InstTypes DEF SignalEffect
  <2>2. /\ at[c] = "signal" /\ at'[c] = "idle"
        /\ \A d \in Callers : d # c => at'[d] = at[d] /\ loc'[d] = loc[d]
        /\ UNCHANGED <<jobs, created, ran>>
    BY <1>8, AgentFacts DEF SignalEffect, Alone
  <2>3. /\ \A m \in Instances : m # k => ids'[m] = ids[m]
        /\ ids'[k] = ids[k] \/ ids'[k] # NoId
    BY <1>8, <2>1 DEF SignalEffect
  <2>4. Creating(c) /\ ~ Creating(c)'
    BY <2>2 DEF Creating
  <2>5. \A d \in Callers : at[d] # "idle" => loc[d].inst \in Instances
    BY InstTypes
  <2>6. \A d \in Callers : Creating(d)' => Creating(d) /\ d # c /\ loc'[d].inst = loc[d].inst
    BY <2>2, <2>3, <2>4, <2>5 DEF Creating
  <2>7. \A d \in Callers : Creating(d) /\ d # c => loc[d].inst \in Instances /\ loc[d].inst # k
    BY <2>1, <2>4, <2>5 DEF Creating, Numbered
  <2>8. ASSUME NEW d \in Callers
        PROVE  at'[d] # "idle" => loc'[d].inst \in 1 .. created'
    BY <2>2 DEF Numbered
  <2>9. ASSUME NEW d \in Callers, Creating(d)'
        PROVE  /\ ids'[loc'[d].inst] = NoId
               /\ \A e \in Callers : Creating(e)' /\ loc'[d].inst = loc'[e].inst => d = e
    BY <2>3, <2>6, <2>7, <2>9 DEF Numbered
  <2>10. ASSUME NEW d \in Callers, at'[d] \in {"take", "exchange", "init"}
         PROVE  /\ ran'[loc'[d].inst] = 0
                /\ \A i \in Places : jobs'[i].inst # loc'[d].inst
    BY <2>2, <2>10 DEF Numbered
  <2>11. ASSUME NEW d \in Callers, at'[d] \in {"await", "free", "uncount"}
         PROVE  ids'[loc'[d].inst] # NoId
    <3>1. d # c /\ at[d] \in {"await", "free", "uncount"} /\ loc'[d] = loc[d]
      BY <2>2, <2>11
    <3>2. ids[loc[d].inst] # NoId /\ loc[d].inst \in Instances
      BY <2>5, <3>1 DEF Numbered
    <3> QED BY <2>3, <3>1, <3>2
  <2>12. \A m \in Instances : ran'[m] <= 1 /\ (m > created' => ids'[m] = NoId /\ ran'[m] = 0)
    <3>1. k \in Int /\ ~(k > created)
      BY <1>0, <2>1 DEF Instances
    <3> QED BY <2>2, <2>3, <3>1 DEF Numbered
  <2>13. ASSUME NEW i \in Places
         PROVE  /\ jobs'[i].inst \in 0 .. created'
                /\ \A j \in Places : jobs'[i].inst = jobs'[j].inst => i = j \/ jobs'[i].inst = 0
    BY <2>2 DEF Numbered
  <2> QED BY <2>8, <2>9, <2>10, <2>11, <2>12, <2>13 DEF Numbered
<1>9. ASSUME NEW k \in Instances, WaitEffect(c, k) PROVE Numbered'
  <2>1. /\ at[c] = "idle" /\ at'[c] = "await" /\ loc'[c].inst = k /\ ids[k] # NoId
        /\ \A d \in Callers : d # c => at'[d] = at[d] /\ loc'[d] = loc[d]
        /\ UNCHANGED <<jobs, created, ids, ran>>
    BY <1>9, AgentFacts DEF WaitEffect, Alone, Reaches
  <2>2. k \in 1 .. created
    <3>1. ~(k > created) /\ k \in 1 .. MaxJobs
      BY <2>1 DEF Numbered, Instances
    <3> QED BY <1>0, <3>1
  <2>3. \A d \in Callers : Creating(d)' => Creating(d) /\ d # c /\ loc'[d].inst = loc[d].inst
    BY <2>1 DEF Creating
  <2> QED BY <2>1, <2>2, <2>3 DEF Numbered
<1>10. ASSUME AwaitEffect(c) PROVE Numbered'
  <2>1. /\ Alone(c, "free") /\ at[c] = "await" /\ loc'[c] = loc[c]
        /\ UNCHANGED <<created, ids, ran>>
        /\ \A i \in Places : jobs'[i].inst = jobs[i].inst
    BY <1>10 DEF AwaitEffect, OnlyJob
  <2>2. ids[loc[c].inst] # NoId /\ ~ Creating(c)'
    BY <2>1 DEF Numbered, Creating, Alone
  <2> QED BY <1>0, <2>1, <2>2, NumberedQuiet
<1>11. ASSUME FreeEffect(c) \/ ReturnEffect(c) \/ RelinkEffect(c) PROVE Numbered'
  <2>1. /\ Alone(c, "push") /\ at[c] \in {"free", "link", "push"} /\ SameCreation(c)
        /\ UNCHANGED <<created, ids, ran>>
        /\ \A i \in Places : jobs'[i].inst = jobs[i].inst
    BY <1>11 DEF FreeEffect, ReturnEffect, RelinkEffect, LinkEffect, OnlyJob
  <2>2. Creating(c)' => Creating(c)
    BY <2>1 DEF Numbered, Creating, Alone, SameCreation
  <2> QED BY <1>0, <2>1, <2>2, NumberedQuiet DEF SameCreation
<1>12. ASSUME PushEffect(c) PROVE Numbered'
  <2>1. /\ Alone(c, "complete") /\ at[c] = "push" /\ loc'[c] = loc[c]
        /\ UNCHANGED <<jobs, created, ids, ran>>
    BY <1>12 DEF PushEffect
  <2>2. Creating(c)' => Creating(c)
    BY <2>1 DEF Creating, Alone
  <2> QED BY <1>0, <2>1, <2>2, NumberedQuiet
<1>13. ASSUME CompleteEffect(c) PROVE Numbered'
  <2>1. at[c] = "complete" /\ UNCHANGED <<jobs, created, ids, ran>> /\ c \notin Workers
    BY <1>13, AgentFacts DEF CompleteEffect
  <2>2. CASE ids[loc[c].inst] # NoId
    <3>1. Alone(c, "uncount") /\ loc'[c] = loc[c] /\ ~ Creating(c)'
      BY <1>13, <2>1, <2>2 DEF CompleteEffect, Creating, Alone
    <3> QED BY <1>0, <2>1, <2>2, <3>1, NumberedQuiet
  <2>3. CASE ids[loc[c].inst] = NoId
    <3>1. Alone(c, "idle")
      BY <1>13, <2>1, <2>3 DEF CompleteEffect
    <3> QED BY <1>0, <2>1, <3>1, NumberedQuiet
  <2> QED BY <2>2, <2>3
<1>14. ASSUME UncountEffect(c) PROVE Numbered'
  <2>1. Alone(c, "idle") /\ UNCHANGED <<jobs, created, ids, ran>>
    BY <1>14 DEF UncountEffect
  <2> QED BY <1>0, <2>1, NumberedQuiet
<1> QED BY <1>2, <1>3, <1>4, <1>5, <1>6, <1>7, <1>8, <1>9, <1>10, <1>11, <1>12, <1>13, <1>14, Zenon
        DEF CallerEffect

(* A step of a worker keeps the numbers of the jobs apart. *)
LEMMA NumberedWorker ==
    ASSUME PoolTypes, HaveJobs, Numbered, ToRun, NEW w \in Workers, WorkerEffect(w)
    PROVE  Numbered'
<1>0. w \in Agents /\ w \notin Callers
  BY AgentFacts
<1>1. CASE RunEffect(w)
  <2>1. PICK j \in Places : j = loc[w].job /\ Fresh(j)
    BY <1>0, <1>1 DEF HaveJobs, RunEffect, Holds, Holding, ToRun
  <2>2. PICK k \in Instances : k = jobs[j].inst /\ ran[k] = 0
    BY <2>1 DEF Fresh
  <2>3. /\ \A d \in Callers : at'[d] = at[d] /\ loc'[d] = loc[d]
        /\ \A i \in Places : jobs'[i].inst = jobs[i].inst
        /\ ran'[k] = 1 /\ \A m \in Instances : m # k => ran'[m] = ran[m]
        /\ UNCHANGED <<created, ids>>
    <3>1. \A d \in Callers : at'[d] = at[d] /\ loc'[d] = loc[d]
      BY <1>0, <1>1, AgentFacts DEF RunEffect, Alone
    <3>2. \A i \in Places : jobs'[i].inst = jobs[i].inst
      BY <1>1 DEF RunEffect, OnlyJob
    <3>3. ran'[k] = 1 /\ \A m \in Instances : m # k => ran'[m] = ran[m]
      BY <1>1, <2>1, <2>2 DEF RunEffect
    <3> QED BY <1>1, <3>1, <3>2, <3>3 DEF RunEffect
  <2>4. \A d \in Callers : Creating(d)' <=> Creating(d)
    BY <2>3 DEF Creating
  <2>5. \A d \in Callers : at[d] \in {"take", "exchange", "init"} =>
           loc[d].inst \in Instances /\ loc[d].inst # k
    BY <2>1, <2>2, InstTypes DEF Numbered
  <2>6. k <= created /\ ~(k > created)
    <3>1. k \in 0 .. created /\ created \in 0 .. MaxJobs
      BY <2>2 DEF Numbered, PoolTypes
    <3> QED BY <3>1, PoolAssumption
  <2>7. \A m \in Instances : ran'[m] <= 1 /\ (m > created' => ids'[m] = NoId /\ ran'[m] = 0)
    BY <2>3, <2>6 DEF Numbered
  <2>8. ASSUME NEW d \in Callers, at'[d] \in {"take", "exchange", "init"}
        PROVE  /\ ran'[loc'[d].inst] = 0
               /\ \A i \in Places : jobs'[i].inst # loc'[d].inst
    BY <2>3, <2>5, <2>8 DEF Numbered
  <2> QED BY <2>3, <2>4, <2>7, <2>8 DEF Numbered
<1>2. CASE ~ RunEffect(w)
  <2>1. PICK l : Alone(w, l)
    BY <1>2 DEF WorkerEffect, PendingEffect, ReadAgainEffect, ClaimEffect, FreeEffect,
                RelinkEffect, LinkEffect, PushEffect, CompleteEffect
  <2>2. UNCHANGED <<created, ids, ran>>
    BY <1>2 DEF WorkerEffect, PendingEffect, ReadAgainEffect, ClaimEffect, FreeEffect,
                RelinkEffect, LinkEffect, PushEffect, CompleteEffect
  <2>3. \A i \in Places : jobs'[i].inst = jobs[i].inst
    BY <1>2 DEF WorkerEffect, PendingEffect, ReadAgainEffect, ClaimEffect, FreeEffect,
                RelinkEffect, LinkEffect, PushEffect, CompleteEffect, OnlyJob
  <2> QED BY <1>0, <2>1, <2>2, <2>3, NumberedQuiet
<1> QED BY <1>1, <1>2

(* A step of the owner keeps the numbers of the jobs apart. *)
LEMMA NumberedOwner ==
    ASSUME PoolTypes, Numbered, OwnerEffect
    PROVE  Numbered'
<1>1. Owner \in Agents /\ Owner \notin Callers
  BY AgentFacts
<1>2. PICK l : Alone(Owner, l)
  BY DEF OwnerEffect, QuitEffect, AcquireEffect, StopEffect, SignalWorkersEffect, JoinEffect
<1>3. UNCHANGED <<jobs, created, ids, ran>>
  BY DEF OwnerEffect, QuitEffect, AcquireEffect, StopEffect, StoreEffect, SignalWorkersEffect,
         JoinEffect
<1> QED BY <1>1, <1>2, <1>3, NumberedQuiet

-----------------------------------------------------------------------------
(* What is in the ring, or with a worker about to run it, is still to be run. *)

FreshNext(i) ==
    /\ jobs'[i].inst \in Instances
    /\ ran'[jobs'[i].inst] = 0
    /\ ~ jobs'[i].done
    /\ jobs'[i].join => jobs'[i].sem = 0

(* A step that changes no structure that is to be run, but for j *)
LEMMA ToRunQuiet ==
    ASSUME PoolTypes, HaveJobs, ToRun, NEW p \in Agents, NEW l, Alone(p, l), NEW j,
           \A i \in Places : i # j /\ Fresh(i) =>
              FreshNext(i) /\ jobs'[i].inst = jobs[i].inst /\ jobs'[i].join = jobs[i].join,
           \A q \in Agents : q # p /\ Holds(q) => loc[q].job # j,
           \A r \in unread' : ring'.cells[r] # Null =>
              \/ r \in unread /\ ring'.cells[r] = ring.cells[r] /\ ring.cells[r] # j
              \/ FreshNext(ring'.cells[r]),
           p \in Workers /\ l = "run" => FreshNext(loc'[p].job),
           p \in Callers /\ l \in {"acquire", "write"} =>
              /\ FreshNext(loc'[p].job)
              /\ jobs'[loc'[p].job].inst = loc'[p].inst
              /\ jobs'[loc'[p].job].join = loc'[p].join
    PROVE  ToRun'
<1>1. \A q \in Agents : q # p => at'[q] = at[q] /\ loc'[q] = loc[q]
  BY DEF Alone
<1>2. at'[p] = l
  BY DEF Alone
<1>3. ASSUME NEW r \in unread', ring'.cells[r] # Null PROVE FreshNext(ring'.cells[r])
  <2>1. CASE r \in unread /\ ring'.cells[r] = ring.cells[r] /\ ring.cells[r] # j
    <3>1. Fresh(ring.cells[r]) /\ ring.cells[r] \in Places
      BY <1>3, <2>1 DEF ToRun, PoolTypes, Index
    <3> QED BY <2>1, <3>1
  <2> QED BY <1>3, <2>1
<1>4. ASSUME NEW w \in Workers, at'[w] = "run" PROVE FreshNext(loc'[w].job)
  <2>1. CASE w # p
    <3>1. w \in Agents /\ at[w] = "run" /\ loc'[w] = loc[w]
      BY <1>1, <1>4, <2>1, AgentFacts
    <3>2. Holds(w) /\ loc[w].job \in Places /\ Fresh(loc[w].job)
      BY <3>1 DEF Holds, Holding, HaveJobs, ToRun
    <3> QED BY <2>1, <3>1, <3>2
  <2> QED BY <1>2, <1>4, <2>1
<1>5. ASSUME NEW c \in Callers, at'[c] \in {"acquire", "write"}
      PROVE  /\ FreshNext(loc'[c].job)
             /\ jobs'[loc'[c].job].inst = loc'[c].inst
             /\ jobs'[loc'[c].job].join = loc'[c].join
  <2>1. CASE c # p
    <3>1. c \in Agents /\ at[c] \in {"acquire", "write"} /\ loc'[c] = loc[c]
      BY <1>1, <1>5, <2>1, AgentFacts
    <3>2. /\ Holds(c) /\ loc[c].job \in Places /\ Fresh(loc[c].job)
          /\ jobs[loc[c].job].inst = loc[c].inst /\ jobs[loc[c].job].join = loc[c].join
      BY <3>1 DEF Holds, Holding, HaveJobs, ToRun
    <3> QED BY <2>1, <3>1, <3>2
  <2> QED BY <1>2, <1>5, <2>1
<1> QED BY <1>3, <1>4, <1>5 DEF ToRun, Fresh, FreshNext

(* A step that changes no structure but perhaps the ring *)
LEMMA ToRunRing ==
    ASSUME PoolTypes, HaveJobs, ToRun, NEW p \in Agents, NEW l, Alone(p, l),
           UNCHANGED <<jobs, ran>>,
           \A r \in unread' : ring'.cells[r] # Null =>
              \/ r \in unread /\ ring'.cells[r] = ring.cells[r]
              \/ FreshNext(ring'.cells[r]),
           p \in Workers /\ l = "run" => FreshNext(loc'[p].job),
           p \in Callers /\ l \in {"acquire", "write"} =>
              /\ FreshNext(loc'[p].job)
              /\ jobs'[loc'[p].job].inst = loc'[p].inst
              /\ jobs'[loc'[p].job].join = loc'[p].join
    PROVE  ToRun'
<1>1. \A i \in Places : (FreshNext(i) <=> Fresh(i)) /\ jobs'[i] = jobs[i]
  BY DEF Fresh, FreshNext
<1>2. \A r \in unread' : ring'.cells[r] # Null =>
         \/ r \in unread /\ ring'.cells[r] = ring.cells[r] /\ ring.cells[r] # Null
         \/ FreshNext(ring'.cells[r])
  OBVIOUS
<1>3. \A i \in Places : i # Null /\ Fresh(i) =>
         FreshNext(i) /\ jobs'[i].inst = jobs[i].inst /\ jobs'[i].join = jobs[i].join
  BY <1>1
<1>4. \A q \in Agents : q # p /\ Holds(q) => loc[q].job # Null
  BY AgentFacts DEF HaveJobs
<1> QED BY <1>2, <1>3, <1>4, ToRunQuiet

(* A step that changes no structure *)
LEMMA ToRunSame ==
    ASSUME PoolTypes, HaveJobs, ToRun, NEW p \in Agents, NEW l, Alone(p, l),
           UNCHANGED <<jobs, ran, ring, unread>>, l \notin {"run", "acquire", "write"} \/ p = Owner
    PROVE  ToRun'
<1>1. \A r \in unread' : ring'.cells[r] # Null =>
         r \in unread /\ ring'.cells[r] = ring.cells[r]
  OBVIOUS
<1>2. /\ ~(p \in Workers /\ l = "run")
      /\ ~(p \in Callers /\ l \in {"acquire", "write"})
  BY AgentFacts
<1> QED BY <1>1, <1>2, ToRunRing

(* A step of a caller keeps the jobs that are to be run fresh. *)
LEMMA ToRunCaller ==
    ASSUME PoolTypes, HaveJobs, Owned, Numbered, ToRun, Ids, NEW c \in Callers, CallerEffect(c)
    PROVE  ToRun'
<1>0. c \in Agents /\ c \notin Workers /\ Null \notin Places
  BY AgentFacts
<1>2. ASSUME jobs' = jobs, ran' = ran, NEW i \in Places, Fresh(i)
      PROVE  FreshNext(i) /\ jobs'[i].inst = jobs[i].inst /\ jobs'[i].join = jobs[i].join
  BY <1>2 DEF Fresh, FreshNext
<1>3. ASSUME NEW join \in BOOLEAN, CreateEffect(c, join) PROVE ToRun'
  BY <1>0, <1>3, ToRunSame DEF CreateEffect
<1>4. ASSUME TakeEffect(c) \/ RetryEffect(c) PROVE ToRun'
  BY <1>0, <1>4, ToRunSame DEF TakeEffect, RetryEffect
<1>5. ASSUME PopEffect(c) PROVE ToRun'
  BY <1>0, <1>5, ToRunSame DEF PopEffect
<1>6. ASSUME SignalEffect(c) PROVE ToRun'
  BY <1>0, <1>6, ToRunSame DEF SignalEffect
<1>7. ASSUME NEW k \in Instances, WaitEffect(c, k) PROVE ToRun'
  BY <1>0, <1>7, ToRunSame DEF WaitEffect
<1>8. ASSUME PushEffect(c) PROVE ToRun'
  BY <1>0, <1>8, ToRunSame DEF PushEffect
<1>9. ASSUME CompleteEffect(c) PROVE ToRun'
  <2>1. PICK l : Alone(c, l) /\ l \notin {"run", "acquire", "write"}
    BY <1>9 DEF CompleteEffect
  <2> QED BY <1>0, <1>9, <2>1, ToRunSame DEF CompleteEffect
<1>10. ASSUME UncountEffect(c) PROVE ToRun'
  BY <1>0, <1>10, ToRunSame DEF UncountEffect
<1>11. ASSUME InitEffect(c) PROVE ToRun'
  <2>1. Alone(c, "acquire") /\ Holds(c) /\ loc'[c] = loc[c]
    BY <1>11 DEF InitEffect, Holds, Holding
  <2>2. PICK j \in Places : j = loc[c].job
    BY <1>0, <2>1 DEF HaveJobs
  <2>3. /\ \A q \in Agents : q # c /\ Holds(q) => loc[q].job # j
        /\ \A r \in unread : ring.cells[r] # j
    BY <1>0, <2>1, <2>2 DEF Owned
  <2>4. \A i \in Places : i # j /\ Fresh(i) =>
           FreshNext(i) /\ jobs'[i].inst = jobs[i].inst /\ jobs'[i].join = jobs[i].join
    BY <1>11, <2>2 DEF InitEffect, OnlyJob, Fresh, FreshNext
  <2>5. loc[c].inst \in Instances /\ ran[loc[c].inst] = 0
    BY <1>11, InstTypes DEF InitEffect, Numbered
  <2>6. FreshNext(j) /\ jobs'[j].inst = loc[c].inst /\ jobs'[j].join = loc[c].join
    BY <1>11, <2>2, <2>5 DEF InitEffect, FreshNext
  <2>7. \A r \in unread' : r \in unread /\ ring'.cells[r] = ring.cells[r] /\ ring.cells[r] # j
    BY <1>11, <2>3 DEF InitEffect
  <2>8. /\ FreshNext(loc'[c].job)
        /\ jobs'[loc'[c].job].inst = loc'[c].inst
        /\ jobs'[loc'[c].job].join = loc'[c].join
    BY <2>1, <2>2, <2>6
  <2> QED BY <1>0, <2>1, <2>3, <2>4, <2>7, <2>8, ToRunQuiet
<1>12. ASSUME FailEffect(c) PROVE ToRun'
  <2>1. Alone(c, "link") /\ Holds(c)
    BY <1>12 DEF FailEffect, Holds, Holding
  <2>2. PICK j \in Places : j = loc[c].job
    BY <1>0, <2>1 DEF HaveJobs
  <2>3. /\ \A q \in Agents : q # c /\ Holds(q) => loc[q].job # j
        /\ \A r \in unread : ring.cells[r] # j
    BY <1>0, <2>1, <2>2 DEF Owned
  <2>4. \A i \in Places : i # j /\ Fresh(i) =>
           FreshNext(i) /\ jobs'[i].inst = jobs[i].inst /\ jobs'[i].join = jobs[i].join
    BY <1>12, <2>2 DEF FailEffect, OnlyJob, Fresh, FreshNext
  <2>5. \A r \in unread' : r \in unread /\ ring'.cells[r] = ring.cells[r] /\ ring.cells[r] # j
    BY <1>12, <2>3 DEF FailEffect
  <2> QED BY <1>0, <2>1, <2>3, <2>4, <2>5, ToRunQuiet
<1>13. ASSUME AwaitEffect(c) PROVE ToRun'
  <2>1. Alone(c, "free")
    BY <1>13 DEF AwaitEffect
  <2>2. PICK j \in Places : j = loc[c].job
    BY <1>13, AwaitAlone
  <2>3. /\ \A q \in Agents : q # c /\ Holds(q) => loc[q].job # j
        /\ \A r \in unread : ring.cells[r] # j
    BY <1>13, <2>2, AwaitAlone
  <2>4. \A i \in Places : i # j /\ Fresh(i) =>
           FreshNext(i) /\ jobs'[i].inst = jobs[i].inst /\ jobs'[i].join = jobs[i].join
    BY <1>13, <2>2 DEF AwaitEffect, OnlyJob, Fresh, FreshNext
  <2>5. \A r \in unread' : r \in unread /\ ring'.cells[r] = ring.cells[r] /\ ring.cells[r] # j
    BY <1>13, <2>3 DEF AwaitEffect
  <2> QED BY <1>0, <2>1, <2>3, <2>4, <2>5, ToRunQuiet
<1>14. ASSUME FreeEffect(c) \/ ReturnEffect(c) \/ RelinkEffect(c) PROVE ToRun'
  <2>1. LinkEffect(c) /\ Holds(c) /\ Alone(c, "push")
    BY <1>14 DEF FreeEffect, ReturnEffect, RelinkEffect, LinkEffect, Holds, Holding
  <2>2. PICK j \in Places : j = loc[c].job
    BY <1>0, <2>1 DEF HaveJobs
  <2>3. /\ \A q \in Agents : q # c /\ Holds(q) => loc[q].job # j
        /\ \A r \in unread : ring.cells[r] # j
    BY <1>0, <2>1, <2>2 DEF Owned
  <2>4. \A i \in Places : i # j /\ Fresh(i) =>
           FreshNext(i) /\ jobs'[i].inst = jobs[i].inst /\ jobs'[i].join = jobs[i].join
    BY <2>1, <2>2 DEF LinkEffect, OnlyJob, Fresh, FreshNext
  <2>5. \A r \in unread' : r \in unread /\ ring'.cells[r] = ring.cells[r] /\ ring.cells[r] # j
    BY <2>1, <2>3 DEF LinkEffect
  <2> QED BY <1>0, <2>1, <2>3, <2>4, <2>5, ToRunQuiet
<1>15. ASSUME AcquireEffect(c) PROVE ToRun'
  <2>1. /\ Alone(c, "write") /\ at[c] = "acquire" /\ jobs' = jobs /\ ran' = ran
        /\ loc'[c].job = loc[c].job /\ loc'[c].inst = loc[c].inst /\ loc'[c].join = loc[c].join
    BY <1>15 DEF AcquireEffect, SameCreation
  <2>2. PICK j \in Places : j = loc[c].job
    BY <1>0, <2>1 DEF HaveJobs, Holds, Holding
  <2>3. Fresh(j) /\ jobs[j].inst = loc[c].inst /\ jobs[j].join = loc[c].join
    BY <2>1, <2>2 DEF ToRun
  <2>4. FreshNext(j) /\ jobs'[j].inst = loc[c].inst /\ jobs'[j].join = loc[c].join
    BY <1>2, <2>1, <2>3
  <2>5. \A r \in unread' : ring'.cells[r] # Null =>
           r \in unread /\ ring'.cells[r] = ring.cells[r]
    BY <1>15 DEF AcquireEffect
  <2>7. /\ FreshNext(loc'[c].job)
        /\ jobs'[loc'[c].job].inst = loc'[c].inst
        /\ jobs'[loc'[c].job].join = loc'[c].join
    BY <2>1, <2>2, <2>4
  <2> QED BY <1>0, <2>1, <2>5, <2>7, ToRunRing
<1>16. ASSUME WriteEffect(c) PROVE ToRun'
  <2>1. /\ Alone(c, "signal") /\ at[c] = "write" /\ jobs' = jobs /\ ran' = ran
        /\ unread' = unread \cup {loc[c].place}
        /\ ring'.cells[loc[c].place] = loc[c].job
        /\ \A r \in unread : r # loc[c].place => ring'.cells[r] = ring.cells[r]
    BY <1>16 DEF WriteEffect, StoreEffect, PoolTypes
  <2>2. PICK j \in Places : j = loc[c].job
    BY <1>0, <2>1 DEF HaveJobs, Holds, Holding
  <2>3. FreshNext(j)
    BY <1>2, <2>1, <2>2 DEF ToRun
  <2>4. \A r \in unread' : ring'.cells[r] # Null =>
           \/ r \in unread /\ ring'.cells[r] = ring.cells[r]
           \/ FreshNext(ring'.cells[r])
    BY <2>1, <2>2, <2>3
  <2> QED BY <1>0, <2>1, <2>4, ToRunRing
<1> QED BY <1>3, <1>4, <1>5, <1>6, <1>7, <1>8, <1>9, <1>10, <1>11, <1>12, <1>13, <1>14, <1>15,
           <1>16, Zenon DEF CallerEffect

(* A step of a worker keeps the jobs that are to be run fresh. *)
LEMMA ToRunWorker ==
    ASSUME PoolTypes, HaveJobs, Owned, Numbered, ToRun, Clean', NEW w \in Workers, WorkerEffect(w)
    PROVE  ToRun'
<1>0. w \in Agents /\ w \notin Callers /\ Null \notin Places
  BY AgentFacts
<1>2. ASSUME jobs' = jobs, ran' = ran, NEW i \in Places, Fresh(i)
      PROVE  FreshNext(i) /\ jobs'[i].inst = jobs[i].inst /\ jobs'[i].join = jobs[i].join
  BY <1>2 DEF Fresh, FreshNext
<1>3. ASSUME PendingEffect(w) \/ ReadAgainEffect(w) PROVE ToRun'
  BY <1>0, <1>3, ToRunSame DEF PendingEffect, ReadAgainEffect
<1>4. ASSUME PushEffect(w) PROVE ToRun'
  BY <1>0, <1>4, ToRunSame DEF PushEffect
<1>5. ASSUME CompleteEffect(w) PROVE ToRun'
  <2>1. PICK l : Alone(w, l) /\ l \notin {"run", "acquire", "write"}
    BY <1>5 DEF CompleteEffect
  <2> QED BY <1>0, <1>5, <2>1, ToRunSame DEF CompleteEffect
<1>6. ASSUME FreeEffect(w) \/ RelinkEffect(w) PROVE ToRun'
  <2>1. LinkEffect(w) /\ Holds(w) /\ Alone(w, "push")
    BY <1>6 DEF FreeEffect, RelinkEffect, LinkEffect, Holds, Holding
  <2>2. PICK j \in Places : j = loc[w].job
    BY <1>0, <2>1 DEF HaveJobs
  <2>3. /\ \A q \in Agents : q # w /\ Holds(q) => loc[q].job # j
        /\ \A r \in unread : ring.cells[r] # j
    BY <1>0, <2>1, <2>2 DEF Owned
  <2>4. \A i \in Places : i # j /\ Fresh(i) =>
           FreshNext(i) /\ jobs'[i].inst = jobs[i].inst /\ jobs'[i].join = jobs[i].join
    BY <2>1, <2>2 DEF LinkEffect, OnlyJob, Fresh, FreshNext
  <2>5. \A r \in unread' : r \in unread /\ ring'.cells[r] = ring.cells[r] /\ ring.cells[r] # j
    BY <2>1, <2>3 DEF LinkEffect
  <2> QED BY <1>0, <2>1, <2>3, <2>4, <2>5, ToRunQuiet
<1>7. ASSUME ClaimEffect(w) PROVE ToRun'
  <2>1. PICK l : l = IF loc[w].job = Null THEN "stopped" ELSE "run"
    OBVIOUS
  <2>2. /\ Alone(w, l) /\ jobs' = jobs /\ ran' = ran /\ loc'[w].job = loc[w].job
        /\ ring.head \in unread /\ ring.cells[ring.head] = loc[w].job
        /\ unread' \subseteq unread /\ ring'.cells = ring.cells
    BY <1>7, <2>1 DEF ClaimEffect, Clean, Damage
  <2>3. l = "run" => FreshNext(loc'[w].job)
    <3>1. SUFFICES ASSUME l = "run" PROVE FreshNext(loc[w].job)
      BY <2>2
    <3>2. loc[w].job # Null /\ loc[w].job \in Index
      BY <1>0, <2>1, <3>1 DEF PoolTypes, Locals
    <3>3. Fresh(loc[w].job)
      BY <2>2, <3>2 DEF ToRun
    <3> QED BY <1>2, <2>2, <3>2, <3>3 DEF Index
  <2>4. \A r \in unread' : ring'.cells[r] # Null =>
           r \in unread /\ ring'.cells[r] = ring.cells[r]
    BY <2>2
  <2> HIDE <2>1
  <2> QED BY <1>0, <2>2, <2>3, <2>4, ToRunRing
<1>8. ASSUME RunEffect(w) PROVE ToRun'
  <2>1. PICK j \in Places : j = loc[w].job /\ Fresh(j)
    BY <1>0, <1>8 DEF HaveJobs, RunEffect, Holds, Holding, ToRun
  <2>2. PICK l : Alone(w, l) /\ l \notin {"run", "acquire", "write"}
    BY <1>8 DEF RunEffect
  <2>3. /\ \A q \in Agents : q # w /\ Holds(q) => loc[q].job # j
        /\ \A r \in unread : ring.cells[r] # j
    BY <1>0, <1>8, <2>1 DEF Owned, Holds, Holding, RunEffect
  <2>4. ASSUME NEW i \in Places, i # j, Fresh(i)
        PROVE  FreshNext(i) /\ jobs'[i].inst = jobs[i].inst /\ jobs'[i].join = jobs[i].join
    <3>1. jobs'[i] = jobs[i]
      BY <1>8, <2>1, <2>4 DEF RunEffect, OnlyJob
    <3>2. jobs[i].inst \in Instances /\ jobs[i].inst # jobs[j].inst
      BY <2>1, <2>4, AgentFacts DEF Fresh, Numbered
    <3>3. ran'[jobs[i].inst] = ran[jobs[i].inst]
      BY <1>8, <2>1, <3>2 DEF RunEffect
    <3> QED BY <2>4, <3>1, <3>3 DEF Fresh, FreshNext
  <2>5. \A r \in unread' : r \in unread /\ ring'.cells[r] = ring.cells[r] /\ ring.cells[r] # j
    BY <1>8, <2>3 DEF RunEffect
  <2> QED BY <1>0, <2>2, <2>3, <2>4, <2>5, ToRunQuiet
<1> QED BY <1>3, <1>4, <1>5, <1>6, <1>7, <1>8, Zenon DEF WorkerEffect

(* A step of the owner keeps the jobs that are to be run fresh. *)
LEMMA ToRunOwner ==
    ASSUME PoolTypes, HaveJobs, ToRun, OwnerEffect
    PROVE  ToRun'
<1>0. Owner \in Agents /\ Owner \notin Callers /\ Owner \notin Workers /\ Null \notin Places
  BY AgentFacts
<1>2. PICK l : Alone(Owner, l)
  BY DEF OwnerEffect, QuitEffect, AcquireEffect, StopEffect, SignalWorkersEffect, JoinEffect
<1>3. UNCHANGED <<jobs, ran>>
  BY DEF OwnerEffect, QuitEffect, AcquireEffect, StopEffect, StoreEffect, SignalWorkersEffect,
         JoinEffect
<1>5. \A r \in unread' : ring'.cells[r] # Null =>
         r \in unread /\ ring'.cells[r] = ring.cells[r]
  BY DEF OwnerEffect, QuitEffect, AcquireEffect, StopEffect, StoreEffect, SignalWorkersEffect,
         JoinEffect, PoolTypes
<1> QED BY <1>0, <1>2, <1>3, <1>5, ToRunRing
-----------------------------------------------------------------------------
(* An id reaches the structure of its own job, or none. *)

(* A step in which p deals with structure j only: the other names stay good. *)
LEMMA NamesStep ==
    ASSUME PoolTypes, HaveJobs, Names, NEW p \in Agents, NEW l, Alone(p, l), NEW j, ids' = ids,
           \A i \in Places : i # j => jobs'[i] = jobs[i] /\ (i \in FreeJobs' => i \in FreeJobs),
           \A i \in Places : i # j /\ jobs[i].inst \in Instances =>
              ran'[jobs[i].inst] = ran[jobs[i].inst],
           \A r \in unread : ring.cells[r] # j => r \in unread' /\ ring'.cells[r] = ring.cells[r],
           p # Owner /\ at[p] \in Holding => loc[p].job = j,
           p # Owner /\ l \in Holding \cup {"signal"} => loc'[p].job = j,
           \A k \in Instances : j \in Places /\ Named(k, j)' => NamedJob(k, j)'
    PROVE  Names'
<1>1. SUFFICES ASSUME NEW k \in Instances, NEW i \in Places, i # j, Named(k, i)'
               PROVE  NamedJob(k, i)'
  BY DEF Names
<1>2. /\ at'[p] = l /\ \A q \in Agents : q # p => at'[q] = at[q] /\ loc'[q] = loc[q]
      /\ jobs'[i] = jobs[i] /\ (i \in FreeJobs' => i \in FreeJobs)
  BY <1>1 DEF Alone
<1>3. Named(k, i)
  <2>1. CASE Reaches(k, i)'
    BY <1>2, <2>1 DEF Named, Reaches
  <2>2. CASE ~ Reaches(k, i)'
    <3>1. PICK c \in Callers : Owed(c, k, i)'
      BY <1>1, <2>2 DEF Named
    <3>2. c # p /\ c \in Agents
      BY <1>1, <1>2, <3>1, AgentFacts DEF Owed
    <3>3. Owed(c, k, i)
      BY <1>2, <3>1, <3>2 DEF Owed
    <3> QED BY <3>3 DEF Named
  <2> QED BY <2>1, <2>2
<1>4. NamedJob(k, i)
  BY <1>3 DEF Names
<1>5. jobs[i].inst = k /\ jobs[i].join /\ i \notin FreeJobs' /\ ran'[k] = ran[k]
  BY <1>1, <1>2, <1>4 DEF NamedJob
<1>6. ASSUME NEW q \in Agents, Holds(q)', loc'[q].job = i PROVE at'[q] = "run" \/ Waiter(q)'
  <2>1. q # p
    BY <1>1, <1>2, <1>6, AgentFacts DEF Holds
  <2>2. at'[q] = at[q] /\ loc'[q] = loc[q] /\ Holds(q)
    BY <1>2, <1>6, <2>1 DEF Holds
  <2>3. at[q] = "run" \/ Waiter(q)
    BY <1>4, <1>6, <2>2 DEF NamedJob
  <2> QED BY <2>2, <2>3 DEF Waiter
<1>7. ASSUME jobs[i].done
      PROVE  /\ ran'[k] = 1
             /\ jobs[i].sem = 1 \/ \E c \in Callers : Waiter(c)' /\ loc'[c].job = i
  <2>1. CASE jobs[i].sem = 1
    BY <1>4, <1>5, <1>7, <2>1 DEF NamedJob
  <2>2. CASE jobs[i].sem # 1
    <3>1. PICK c \in Callers : Waiter(c) /\ loc[c].job = i
      BY <1>4, <1>7, <2>2 DEF NamedJob
    <3>2. c # p /\ c \in Agents
      BY <1>1, <3>1, AgentFacts DEF Waiter, Holding
    <3>3. Waiter(c)' /\ loc'[c].job = i
      BY <1>2, <3>1, <3>2 DEF Waiter
    <3> QED BY <1>4, <1>5, <1>7, <3>3 DEF NamedJob
  <2> QED BY <2>1, <2>2
<1>8. ASSUME ~ jobs[i].done
      PROVE  /\ jobs[i].sem = 0
             /\ \/ \E r \in unread' : ring'.cells[r] = i
                \/ \E w \in Workers : Running(w, i)'
  <2>1. CASE \E r \in unread : ring.cells[r] = i
    BY <1>1, <1>4, <1>8, <2>1 DEF NamedJob
  <2>2. CASE ~ \E r \in unread : ring.cells[r] = i
    <3>1. PICK w \in Workers : Running(w, i)
      BY <1>4, <1>8, <2>2 DEF NamedJob
    <3>2. w # p /\ w \in Agents
      BY <1>1, <3>1, AgentFacts DEF Running, Holding
    <3>3. Running(w, i)'
      BY <1>2, <3>1, <3>2 DEF Running
    <3> QED BY <1>4, <1>8, <3>3 DEF NamedJob
  <2> QED BY <2>1, <2>2
<1> QED BY <1>2, <1>5, <1>6, <1>7, <1>8 DEF NamedJob

(* A structure that a thread is setting up or freeing has no name. *)
LEMMA Unnamed ==
    ASSUME Names, NEW p \in Agents, Holds(p), at[p] # "run", ~ Waiter(p), loc[p].job \in Places
    PROVE  \A k \in Instances : ~ Named(k, loc[p].job)
  BY DEF Names, NamedJob

(* ... and gets none from a step that gives out no id. *)
LEMMA StaysUnnamed ==
    ASSUME PoolTypes, Gens, NEW p \in Agents, NEW l, Alone(p, l), NEW j \in Places, ids' = ids,
           \A k \in Instances : ~ Named(k, j) \/ jobs'[j].gen > jobs[j].gen,
           \A k \in Instances, c \in Callers : ~ Owed(c, k, j),
           jobs[j].gen <= jobs'[j].gen, jobs'[j].gen \in Nat,
           p \in Callers /\ l = "signal" => ~ loc'[p].join
    PROVE  \A k \in Instances : ~ Named(k, j)'
<1>1. SUFFICES ASSUME NEW k \in Instances, Named(k, j)' PROVE FALSE
  OBVIOUS
<1>2. ASSUME NEW c \in Callers, Owed(c, k, j)' PROVE FALSE
  <2>1. c # p /\ c \in Agents
    BY <1>2, AgentFacts DEF Owed, Alone
  <2>2. Owed(c, k, j)
    BY <1>2, <2>1 DEF Owed, Alone
  <2> QED BY <2>2
<1>3. Reaches(k, j)'
  BY <1>1, <1>2 DEF Named
<1>4. ids[k] # NoId /\ ids[k].idx = j /\ ids[k].gen = jobs'[j].gen /\ ids[k].gen <= jobs[j].gen
  BY <1>3 DEF Reaches, Gens
<1>5. jobs[j].gen \in Nat
  BY DEF PoolTypes, JobRecord
<1>6. jobs'[j].gen = jobs[j].gen
  BY <1>4, <1>5
<1>7. Named(k, j)
  BY <1>4, <1>6 DEF Named, Reaches
<1> QED BY <1>5, <1>6, <1>7

(* A step in which p deals with structure j only, and gives out no id *)
LEMMA IdsStep ==
    ASSUME PoolTypes, PoolTypes', HaveJobs, Ids, NEW p \in Agents, NEW l, Alone(p, l), NEW j,
           ids' = ids, Names',
           \A i \in Places : i # j => jobs'[i] = jobs[i],
           j \in Places => jobs[j].gen <= jobs'[j].gen,
           \A d \in Callers : d # p /\ at[d] \in {"await", "free"} => loc[d].job # j,
           p \in Callers /\ l \in {"await", "free"} =>
              /\ Reaches(loc[p].inst, loc[p].job)'
              /\ \A d \in Callers : d # p /\ at[d] \in {"await", "free"} => loc[d].inst # loc'[p].inst,
           p \in Callers /\ l = "free" => jobs'[loc'[p].job].done /\ jobs'[loc'[p].job].sem = 0
    PROVE  Ids'
<1>1. at'[p] = l /\ \A q \in Agents : q # p => at'[q] = at[q] /\ loc'[q] = loc[q]
  BY DEF Alone
<1>2. Gens'
  <2>1. SUFFICES ASSUME NEW k \in Instances, ids[k] # NoId
                 PROVE  ids[k].gen <= jobs'[ids[k].idx].gen
    BY DEF Gens
  <2>2. PICK i \in Places, g \in Nat : i = ids[k].idx /\ g = ids[k].gen
    BY <2>1 DEF PoolTypes
  <2>3. PICK a \in Nat, b \in Nat : a = jobs[i].gen /\ b = jobs'[i].gen
    <3>1. jobs[i].gen \in Nat /\ jobs'[i].gen \in Nat
      BY DEF PoolTypes, JobRecord
    <3> QED BY <3>1
  <2>4. g <= a /\ a <= b
    BY <2>1, <2>2, <2>3 DEF Ids, Gens
  <2> QED BY <2>2, <2>3, <2>4
<1>3. Awaits'
  <2>1. SUFFICES ASSUME NEW c \in Callers, at'[c] \in {"await", "free"}
                 PROVE  /\ Reaches(loc[c].inst, loc[c].job)'
                        /\ \A d \in Callers : at'[d] \in {"await", "free"} /\ loc'[d].inst = loc'[c].inst
                              => c = d
    BY DEF Awaits
  <2>2. \A d \in Callers : d # p => at'[d] = at[d] /\ loc'[d] = loc[d]
    BY <1>1, AgentFacts
  <2>3. CASE c = p
    BY <1>1, <2>1, <2>2, <2>3
  <2>4. CASE c # p
    <3>1. at[c] \in {"await", "free"} /\ loc'[c] = loc[c] /\ loc[c].job # j
      BY <2>1, <2>2, <2>4
    <3>2. Reaches(loc[c].inst, loc[c].job)
      BY <3>1 DEF Ids, Awaits
    <3>3. loc[c].job \in Places
      BY <3>1, AgentFacts DEF HaveJobs, Holds, Holding
    <3>4. Reaches(loc[c].inst, loc[c].job)'
      BY <3>1, <3>2, <3>3 DEF Reaches
    <3>5. ASSUME NEW d \in Callers, at'[d] \in {"await", "free"}, loc'[d].inst = loc'[c].inst
          PROVE  c = d
      <4>1. CASE d = p
        BY <1>1, <3>1, <3>5, <4>1, <2>4
      <4>2. CASE d # p
        BY <2>2, <3>1, <3>5, <4>2 DEF Ids, Awaits
      <4> QED BY <4>1, <4>2
    <3> QED BY <3>4, <3>5
  <2> QED BY <2>3, <2>4
<1>4. Waits'
  <2>1. SUFFICES ASSUME NEW c \in Callers, at'[c] = "free"
                 PROVE  jobs'[loc'[c].job].done /\ jobs'[loc'[c].job].sem = 0
    BY DEF Waits, Waiter
  <2>2. CASE c = p
    BY <1>1, <2>1, <2>2
  <2>3. CASE c # p
    <3>1. at[c] = "free" /\ loc'[c] = loc[c] /\ loc[c].job # j
      BY <1>1, <2>1, <2>3, AgentFacts
    <3>2. loc[c].job \in Places
      BY <3>1, AgentFacts DEF HaveJobs, Holds, Holding
    <3> QED BY <3>1, <3>2 DEF Ids, Waits, Waiter
  <2> QED BY <2>2, <2>3
<1> QED BY <1>2, <1>3, <1>4 DEF Ids

(* A step that leaves the structures alone and neither takes nor gives one *)
LEMMA IdsSame ==
    ASSUME PoolTypes, PoolTypes', HaveJobs, Ids, NEW p \in Agents, NEW l, Alone(p, l),
           UNCHANGED <<jobs, ids, ran>>, FreeJobs' = FreeJobs,
           p = Owner \/ at[p] \notin Holding,
           p = Owner \/ l \notin Holding \cup {"signal", "await"},
           \A r \in unread : r \in unread' /\ ring'.cells[r] = ring.cells[r]
    PROVE  Ids'
<1>0. Null \notin Places /\ Owner \notin Callers
  BY AgentFacts
<1>1. \A k \in Instances : Null \in Places /\ Named(k, Null)' => NamedJob(k, Null)'
  BY <1>0
<1>2. \A r \in unread : ring.cells[r] # Null => r \in unread' /\ ring'.cells[r] = ring.cells[r]
  OBVIOUS
<1>3. \A i \in Places : i # Null => jobs'[i] = jobs[i] /\ (i \in FreeJobs' => i \in FreeJobs)
  OBVIOUS
<1>4. \A i \in Places : i # Null /\ jobs[i].inst \in Instances =>
         ran'[jobs[i].inst] = ran[jobs[i].inst]
  OBVIOUS
<1>5. p # Owner /\ at[p] \in Holding => loc[p].job = Null
  OBVIOUS
<1>6. p # Owner /\ l \in Holding \cup {"signal"} => loc'[p].job = Null
  OBVIOUS
<1>7. Names'
  BY <1>1, <1>2, <1>3, <1>4, <1>5, <1>6, NamesStep DEF Ids
<1>8. \A d \in Callers : d # p /\ at[d] \in {"await", "free"} => loc[d].job # Null
  BY <1>0, AgentFacts DEF HaveJobs, Holds, Holding
<1>9. ~(p \in Callers /\ l \in {"await", "free"})
  BY <1>0 DEF Holding
<1>10. \A i \in Places : i # Null => jobs'[i] = jobs[i]
  OBVIOUS
<1> QED BY <1>0, <1>7, <1>8, <1>9, <1>10, IdsStep

(* A step in which p deals with a structure that has no name *)
LEMMA IdsHeld ==
    ASSUME PoolTypes, PoolTypes', HaveJobs, Numbered, Ids,
           NEW p \in Callers \cup Workers, NEW l, Alone(p, l), NEW j \in Places, ids' = ids,
           \A k \in Instances : ~ Named(k, j),
           \A i \in Places : i # j => jobs'[i] = jobs[i] /\ (i \in FreeJobs' => i \in FreeJobs),
           \A i \in Places : i # j /\ jobs[i].inst \in Instances =>
              ran'[jobs[i].inst] = ran[jobs[i].inst],
           \A r \in unread : ring.cells[r] # j => r \in unread' /\ ring'.cells[r] = ring.cells[r],
           jobs[j].gen <= jobs'[j].gen,
           at[p] \in Holding => loc[p].job = j,
           l \in Holding \cup {"signal"} => loc'[p].job = j,
           p \in Callers => l \notin {"await", "free"},
           p \in Callers /\ l = "signal" => ~ loc'[p].join
    PROVE  Ids'
<1>0. p \in Agents /\ p # Owner
  BY AgentFacts
<1>1. jobs'[j].gen \in Nat
  BY DEF PoolTypes, JobRecord
<1>2. \A k \in Instances, c \in Callers : ~ Owed(c, k, j)
  BY DEF Named
<1>3. \A k \in Instances : ~ Named(k, j) \/ jobs'[j].gen > jobs[j].gen
  OBVIOUS
<1>4. \A k \in Instances : ~ Named(k, j)'
  BY <1>0, <1>1, <1>2, <1>3, StaysUnnamed DEF Ids
<1>5. \A k \in Instances : j \in Places /\ Named(k, j)' => NamedJob(k, j)'
  BY <1>4
<1>6. Names'
  BY <1>0, <1>5, NamesStep DEF Ids
<1>7. ASSUME NEW d \in Callers, d # p, at[d] \in {"await", "free"} PROVE loc[d].job # j
  <2>1. loc[d].inst \in Instances /\ Reaches(loc[d].inst, loc[d].job)
    BY <1>7, InstTypes DEF Ids, Awaits
  <2> QED BY <2>1 DEF Named
<1>8. \A i \in Places : i # j => jobs'[i] = jobs[i]
  OBVIOUS
<1>9. ~(p \in Callers /\ l \in {"await", "free"})
  OBVIOUS
<1>10. \A d \in Callers : d # p /\ at[d] \in {"await", "free"} => loc[d].job # j
  BY <1>7
<1>11. ~(p \in Callers /\ l = "free")
  OBVIOUS
<1> QED BY <1>0, <1>6, <1>8, <1>9, <1>10, <1>11, IdsStep

(* A place that is being written is nobody else's. *)
LEMMA WriteApart ==
    ASSUME Window, NEW p \in Agents, at[p] = "write"
    PROVE  /\ loc[p].place \notin unread
           /\ \A q \in Agents : at[q] = "write" /\ loc[q].place = loc[p].place => p = q
  BY DEF Window, Windowed

(* A free structure has no name. *)
LEMMA FreeUnnamed ==
    ASSUME Names, NEW j \in FreeJobs, j \in Places
    PROVE  \A k \in Instances : ~ Named(k, j)
  BY DEF Names, NamedJob

(* A caller that deals with a structure before it has an id *)
LEMMA IdsSetup ==
    ASSUME PoolTypes, PoolTypes', HaveJobs, FreeList, Owned, Numbered, Ids, Clean',
           NEW c \in Callers,
           \/ PopEffect(c) \/ InitEffect(c) \/ FailEffect(c) \/ AcquireEffect(c)
           \/ ReturnEffect(c) \/ RelinkEffect(c) \/ PushEffect(c)
    PROVE  Ids'
<1>0. c \in Agents /\ c \in Callers \cup Workers /\ Names
  BY AgentFacts DEF Ids
<1>1. ASSUME PopEffect(c) PROVE Ids'
  <2>1. freeHead # Null
    BY <1>1, HasHead DEF PopEffect
  <2>2. FreeJobs' = FreeJobs \ {freeHead} /\ freeHead \in FreeJobs
    BY <1>1, <2>1, ListPopped
  <2>3. PICK j \in Places : j = freeHead
    BY <2>2, FreeSubset
  <2>4. \A k \in Instances : ~ Named(k, j)
    BY <1>0, <2>2, <2>3, FreeUnnamed
  <2>5. /\ Alone(c, "init") /\ at[c] = "exchange" /\ loc'[c].job = j
        /\ UNCHANGED <<jobs, ran, ids, ring, unread>>
    BY <1>1, <2>3 DEF PopEffect
  <2>6. jobs[j].gen <= jobs'[j].gen
    BY <2>5 DEF PoolTypes, JobRecord
  <2> QED BY <1>0, <2>2, <2>4, <2>5, <2>6, IdsHeld DEF Holding
<1>2. ASSUME at[c] \in Holding \ {"free"}
      PROVE  /\ loc[c].job \in Places
             /\ loc[c].job \notin FreeJobs
             /\ \A k \in Instances : ~ Named(k, loc[c].job)
  <2>1. Holds(c) /\ at[c] # "run" /\ ~ Waiter(c)
    BY <1>2 DEF Holds, Waiter, PoolTypes, Controls, CallerPC
  <2>2. loc[c].job \in Places /\ loc[c].job \notin FreeJobs
    BY <1>0, <2>1 DEF HaveJobs, Owned
  <2> QED BY <1>0, <2>1, <2>2, Unnamed
<1>3. ASSUME InitEffect(c) \/ FailEffect(c) PROVE Ids'
  <2>1. FreeJobs' = FreeJobs
    BY <1>3, ListKeptInit DEF ListSame
  <2>2. PICK l : Alone(c, l) /\ l \in {"acquire", "link"}
    BY <1>3 DEF InitEffect, FailEffect
  <2>3. at[c] = "init" /\ loc'[c] = loc[c] /\ UNCHANGED <<ran, ids, ring, unread>>
    BY <1>3 DEF InitEffect, FailEffect
  <2>4. PICK j \in Places : j = loc[c].job /\ \A k \in Instances : ~ Named(k, j)
    BY <1>2, <2>3 DEF Holding
  <2>5. \A i \in Places : i # j => jobs'[i] = jobs[i]
    BY <1>3, <2>4 DEF InitEffect, FailEffect, OnlyJob
  <2>6. jobs[j].gen <= jobs'[j].gen
    <3>1. jobs'[j].gen = jobs[j].gen /\ jobs[j].gen \in Nat
      BY <1>3, <2>4 DEF InitEffect, FailEffect, PoolTypes, JobRecord
    <3> QED BY <3>1
  <2> QED BY <1>0, <2>1, <2>2, <2>3, <2>4, <2>5, <2>6, IdsHeld DEF Holding
<1>4. ASSUME AcquireEffect(c) PROVE Ids'
  <2>1. FreeJobs' = FreeJobs
    BY <1>4, FreeListCaller DEF CallerEffect, ListSame, AcquireEffect, PopEffect, PushEffect
  <2>2. /\ Alone(c, "write") /\ at[c] = "acquire" /\ loc'[c].job = loc[c].job
        /\ UNCHANGED <<jobs, ran, ids>>
        /\ unread' = unread /\ ring'.cells = ring.cells
    BY <1>4 DEF AcquireEffect, Clean
  <2>3. PICK j \in Places : j = loc[c].job /\ \A k \in Instances : ~ Named(k, j)
    BY <1>2, <2>2 DEF Holding
  <2>4. jobs[j].gen <= jobs'[j].gen
    BY <2>2 DEF PoolTypes, JobRecord
  <2> QED BY <1>0, <2>1, <2>2, <2>3, <2>4, IdsHeld DEF Holding
<1>5. ASSUME ReturnEffect(c) \/ RelinkEffect(c) PROVE Ids'
  <2>1. LinkEffect(c) /\ at[c] \in {"link", "push"} /\ Holds(c)
        /\ jobs'[loc[c].job].gen = jobs[loc[c].job].gen
    BY <1>5 DEF ReturnEffect, RelinkEffect, Holds, Holding
  <2>2. FreeJobs' = FreeJobs
    BY <1>0, <2>1, ListKeptLink DEF ListSame
  <2>3. /\ Alone(c, "push") /\ loc'[c].job = loc[c].job
        /\ UNCHANGED <<ran, ids, ring, unread>>
    BY <2>1 DEF LinkEffect
  <2>4. PICK j \in Places : j = loc[c].job /\ \A k \in Instances : ~ Named(k, j)
    BY <1>2, <2>1 DEF Holding
  <2>5. \A i \in Places : i # j => jobs'[i] = jobs[i]
    BY <2>1, <2>4 DEF LinkEffect, OnlyJob
  <2>6. jobs[j].gen <= jobs'[j].gen
    <3>1. jobs'[j].gen = jobs[j].gen /\ jobs[j].gen \in Nat
      BY <2>1, <2>4 DEF PoolTypes, JobRecord
    <3> QED BY <3>1
  <2> QED BY <1>0, <2>1, <2>2, <2>3, <2>4, <2>5, <2>6, IdsHeld DEF Holding
<1>6. ASSUME PushEffect(c) PROVE Ids'
  <2>1. FreeJobs' = FreeJobs \cup {loc[c].job}
    BY <1>0, <1>6, ListPushed
  <2>2. /\ Alone(c, "complete") /\ at[c] = "push" /\ UNCHANGED <<jobs, ran, ids, ring, unread>>
    BY <1>6 DEF PushEffect
  <2>3. PICK j \in Places : j = loc[c].job /\ \A k \in Instances : ~ Named(k, j)
    BY <1>2, <2>2 DEF Holding
  <2>4. jobs[j].gen <= jobs'[j].gen
    BY <2>2 DEF PoolTypes, JobRecord
  <2> QED BY <1>0, <2>1, <2>2, <2>3, <2>4, IdsHeld DEF Holding
<1> QED BY <1>1, <1>3, <1>4, <1>5, <1>6

(* A job gets its name when its index is in the ring. *)
LEMMA IdsWrite ==
    ASSUME PoolTypes, PoolTypes', HaveJobs, FreeList, Owned, Numbered, ToRun, Ids, Window, Clean',
           NEW c \in Callers, WriteEffect(c)
    PROVE  Ids'
<1>0. c \in Agents /\ c \in Callers \cup Workers /\ Names /\ c # Owner
  BY AgentFacts DEF Ids
<1>1. FreeJobs' = FreeJobs
  BY FreeListCaller DEF CallerEffect, ListSame, WriteEffect, StoreEffect, PopEffect, PushEffect
<1>2. /\ Alone(c, "signal") /\ at[c] = "write"
      /\ loc'[c].job = loc[c].job /\ loc'[c].inst = loc[c].inst /\ loc'[c].join = loc[c].join
      /\ UNCHANGED <<jobs, ran, ids>>
      /\ unread' = unread \cup {loc[c].place}
      /\ ring'.cells[loc[c].place] = loc[c].job
      /\ \A r \in unread : r # loc[c].place => ring'.cells[r] = ring.cells[r]
  BY DEF WriteEffect, StoreEffect, SameCreation, PoolTypes
<1>3. loc[c].place \notin unread
  BY <1>0, <1>2, WriteApart
<1>4. \A r \in unread : r \in unread' /\ ring'.cells[r] = ring.cells[r]
  BY <1>2, <1>3
<1>5. Holds(c) /\ at[c] # "run" /\ ~ Waiter(c)
  BY <1>2 DEF Holds, Holding, Waiter
<1>6. PICK j \in Places : j = loc[c].job
  BY <1>0, <1>5 DEF HaveJobs
<1>7. \A k \in Instances : ~ Named(k, j)
  BY <1>0, <1>5, <1>6, Unnamed
<1>8. jobs[j].gen <= jobs'[j].gen
  BY <1>2 DEF PoolTypes, JobRecord
<1>9. CASE ~ loc[c].join
  BY <1>0, <1>1, <1>2, <1>4, <1>6, <1>7, <1>8, <1>9, IdsHeld DEF Holding
<1>10. CASE loc[c].join
  <2>1. /\ Fresh(j) /\ jobs[j].inst = loc[c].inst /\ jobs[j].join
        /\ j \notin FreeJobs
        /\ \A q \in Agents : Holds(q) /\ loc[q].job = j => q = c
    BY <1>0, <1>2, <1>5, <1>6, <1>10 DEF ToRun, Owned
  <2>2. ASSUME NEW k \in Instances, Named(k, j)' PROVE NamedJob(k, j)'
    <3>1. \A q \in Agents : q # c => at'[q] = at[q] /\ loc'[q] = loc[q]
      BY <1>2 DEF Alone
    <3>2. ~ Reaches(k, j)'
      BY <1>2, <1>7 DEF Named, Reaches
    <3>3. PICK d \in Callers : Owed(d, k, j)'
      BY <2>2, <3>2 DEF Named
    <3>4. d = c
      <4>1. SUFFICES ASSUME d # c PROVE FALSE
        OBVIOUS
      <4>2. Owed(d, k, j)
        BY <3>1, <3>3, <4>1, AgentFacts DEF Owed
      <4> QED BY <1>7, <4>2 DEF Named
    <3>5. jobs[j].inst = k
      BY <1>2, <2>1, <3>3, <3>4 DEF Owed
    <3>6. ASSUME NEW q \in Agents, Holds(q)' PROVE loc'[q].job # j
      <4>1. q # c
        BY <1>2, <3>6 DEF Holds, Holding, Alone
      <4> QED BY <2>1, <3>1, <3>6, <4>1 DEF Holds
    <3>7. ~ jobs[j].done /\ jobs[j].sem = 0
      BY <2>1 DEF Fresh
    <3>8. \E r \in unread' : ring'.cells[r] = j
      BY <1>2, <1>6
    <3> QED BY <1>1, <1>2, <2>1, <3>5, <3>6, <3>7, <3>8 DEF NamedJob
  <2>3. \A k \in Instances : j \in Places /\ Named(k, j)' => NamedJob(k, j)'
    BY <2>2
  <2>4. \A i \in Places : i # j => jobs'[i] = jobs[i] /\ (i \in FreeJobs' => i \in FreeJobs)
    BY <1>1, <1>2
  <2>5. Names'
    BY <1>0, <1>2, <1>4, <1>6, <2>3, <2>4, NamesStep DEF Holding
  <2>6. ASSUME NEW d \in Callers, at[d] \in {"await", "free"} PROVE loc[d].job # j
    <3>1. loc[d].inst \in Instances /\ Reaches(loc[d].inst, loc[d].job)
      BY <2>6, InstTypes DEF Ids, Awaits
    <3> QED BY <1>7, <3>1 DEF Named
  <2>7. \A i \in Places : i # j => jobs'[i] = jobs[i]
    BY <1>2
  <2>8. \A d \in Callers : d # c /\ at[d] \in {"await", "free"} => loc[d].job # j
    BY <2>6
  <2>9. Alone(c, "signal") /\ ids' = ids
    BY <1>2
  <2> QED BY <1>0, <1>8, <2>5, <2>7, <2>8, <2>9, IdsStep
<1> QED BY <1>9, <1>10

(* The caller has its id. *)
LEMMA IdsSignal ==
    ASSUME PoolTypes, HaveJobs, FreeList, Owned, Numbered, Ids, Clean',
           NEW c \in Callers, SignalEffect(c)
    PROVE  Ids'
<1>0. c \in Agents /\ c \in Callers \cup Workers /\ c # Owner
  BY AgentFacts
<1>1. FreeJobs' = FreeJobs
  BY FreeListCaller DEF CallerEffect, ListSame, SignalEffect, PopEffect, PushEffect
<1>2. /\ at[c] = "signal" /\ at'[c] = "idle"
      /\ \A q \in Agents : q # c => at'[q] = at[q] /\ loc'[q] = loc[q]
      /\ UNCHANGED <<jobs, ran, ring, unread>>
  BY DEF SignalEffect, Alone
<1>3. PICK j \in Places : j = loc[c].job
  BY <1>2 DEF HaveJobs
<1>4. PICK k \in Instances : k = loc[c].inst /\ ids[k] = NoId
  <2>1. loc[c].inst \in Instances
    BY <1>2, InstTypes
  <2>2. Creating(c)
    BY <1>2 DEF Creating
  <2> QED BY <2>1, <2>2 DEF Numbered
<1>5. /\ \A m \in Instances : m # k => ids'[m] = ids[m]
      /\ IF loc[c].join THEN ids'[k] # NoId /\ ids'[k].gen = jobs[j].gen /\ ids'[k].idx = j
                        ELSE ids' = ids
  BY <1>3, <1>4 DEF SignalEffect
<1>6. \A m \in Instances, i \in Places : Reaches(m, i)' => Reaches(m, i) \/ Owed(c, m, i)
  BY <1>2, <1>3, <1>4, <1>5 DEF Reaches, Owed
<1>7. \A m \in Instances, i \in Places, d \in Callers : Owed(d, m, i)' => Owed(d, m, i)
  BY <1>2, AgentFacts DEF Owed
<1>8. Gens'
  <2>1. jobs[j].gen \in Nat
    BY DEF PoolTypes, JobRecord
  <2> QED BY <1>2, <1>5, <2>1 DEF Ids, Gens
<1>9. \A q \in Agents : Holds(q)' <=> Holds(q)
  BY <1>2 DEF Holds, Holding
<1>10. Names'
  <2>1. SUFFICES ASSUME NEW m \in Instances, NEW i \in Places, Named(m, i)'
                 PROVE  NamedJob(m, i)'
    BY DEF Names
  <2>2. Named(m, i)
    BY <1>6, <1>7, <2>1 DEF Named
  <2>3. NamedJob(m, i)
    BY <2>2 DEF Ids, Names
  <2>4. \A q \in Agents : Holds(q)' => q # c /\ at'[q] = at[q] /\ loc'[q] = loc[q]
    BY <1>2, <1>9 DEF Holds, Holding
  <2>5. \A d \in Callers : Waiter(d) => Waiter(d)' /\ loc'[d].job = loc[d].job
    BY <1>2, AgentFacts DEF Waiter
  <2>6. \A w \in Workers : Running(w, i) => Running(w, i)'
    BY <1>2, AgentFacts DEF Running
  <2>7. \A q \in Agents : Holds(q)' /\ loc'[q].job = i => at'[q] = "run" \/ Waiter(q)'
    BY <1>9, <2>3, <2>4 DEF NamedJob, Waiter
  <2> QED BY <1>1, <1>2, <2>3, <2>5, <2>6, <2>7 DEF NamedJob
<1>11. Awaits'
  <2>1. SUFFICES ASSUME NEW d \in Callers, at'[d] \in {"await", "free"}
                 PROVE  /\ Reaches(loc[d].inst, loc[d].job)'
                        /\ \A e \in Callers : at'[e] \in {"await", "free"} /\ loc'[e].inst = loc'[d].inst
                              => d = e
    BY DEF Awaits
  <2>2. \A e \in Callers : at'[e] \in {"await", "free"} =>
           at[e] \in {"await", "free"} /\ loc'[e] = loc[e]
    BY <1>2, AgentFacts
  <2>3. /\ Reaches(loc[d].inst, loc[d].job)
        /\ \A e \in Callers : at[e] \in {"await", "free"} /\ loc[e].inst = loc[d].inst => d = e
    BY <2>1, <2>2 DEF Ids, Awaits
  <2>4. loc[d].inst \in Instances /\ loc[d].inst # k
    BY <1>4, <2>1, <2>2, <2>3, InstTypes DEF Reaches
  <2>5. Reaches(loc[d].inst, loc[d].job)'
    BY <1>2, <1>5, <2>1, <2>2, <2>3, <2>4 DEF Reaches
  <2> QED BY <2>1, <2>2, <2>3, <2>5
<1>12. Waits'
  BY <1>2, AgentFacts DEF Ids, Waits, Waiter
<1> QED BY <1>8, <1>10, <1>11, <1>12 DEF Ids

(* A caller starts to wait for a job that its id reaches. *)
LEMMA IdsWait ==
    ASSUME PoolTypes, PoolTypes', HaveJobs, FreeList, Ids, FreeJobs' = FreeJobs,
           NEW c \in Callers, NEW k \in Instances, WaitEffect(c, k)
    PROVE  Ids'
<1>0. c \in Agents /\ c # Owner /\ Null \notin Places
  BY AgentFacts
<1>1. /\ at[c] = "idle" /\ Alone(c, "await") /\ UNCHANGED <<jobs, ids, ran, ring, unread>>
      /\ loc'[c].inst = k /\ Reaches(k, loc'[c].job)
      /\ \A d \in Callers : at[d] \in {"await", "free"} => loc[d].inst # k
  BY DEF WaitEffect
<1>2. \A m \in Instances : Null \in Places /\ Named(m, Null)' => NamedJob(m, Null)'
  BY <1>0
<1>3. \A r \in unread : ring.cells[r] # Null => r \in unread' /\ ring'.cells[r] = ring.cells[r]
  BY <1>1
<1>4. \A i \in Places : i # Null => jobs'[i] = jobs[i] /\ (i \in FreeJobs' => i \in FreeJobs)
  BY <1>1
<1>5. \A i \in Places : i # Null /\ jobs[i].inst \in Instances =>
         ran'[jobs[i].inst] = ran[jobs[i].inst]
  BY <1>1
<1>6. "await" \notin Holding \cup {"signal"} /\ at[c] \notin Holding
  BY <1>1 DEF Holding
<1>7. ids' = ids /\ Alone(c, "await") /\ Names
  BY <1>1 DEF Ids
<1>8. Names'
  BY <1>0, <1>2, <1>3, <1>4, <1>5, <1>6, <1>7, NamesStep
<1>9. \A d \in Callers : d # c /\ at[d] \in {"await", "free"} => loc[d].job # Null
  BY <1>0, AgentFacts DEF HaveJobs, Holds, Holding
<1>10. Reaches(loc[c].inst, loc[c].job)'
  BY <1>1 DEF Reaches
<1>11. \A d \in Callers : d # c /\ at[d] \in {"await", "free"} => loc[d].inst # loc'[c].inst
  BY <1>1
<1>12. \A i \in Places : i # Null => jobs'[i] = jobs[i]
  BY <1>1
<1> QED BY <1>0, <1>7, <1>8, <1>9, <1>10, <1>11, <1>12, IdsStep

(* The wait is over. *)
LEMMA IdsAwait ==
    ASSUME PoolTypes, PoolTypes', HaveJobs, FreeList, Numbered, ToRun, Ids, FreeJobs' = FreeJobs,
           NEW c \in Callers, AwaitEffect(c)
    PROVE  Ids'
<1>0. c \in Agents /\ c # Owner /\ Names
  BY AgentFacts DEF Ids
<1>1. PICK j \in Places : j = loc[c].job
  BY AwaitAlone
<1>2. PICK k \in Instances : k = loc[c].inst /\ NamedJob(k, j) /\ jobs[j].done
  BY <1>1, AwaitAlone
<1>3. /\ at[c] = "await" /\ Alone(c, "free") /\ loc'[c] = loc[c] /\ UNCHANGED <<ids, ran, ring, unread>>
      /\ \A i \in Places : i # j => jobs'[i] = jobs[i]
      /\ jobs[j].sem > 0 /\ jobs'[j].sem = jobs[j].sem - 1
      /\ jobs'[j].gen = jobs[j].gen /\ jobs'[j].inst = jobs[j].inst
      /\ jobs'[j].done = jobs[j].done /\ jobs'[j].join = jobs[j].join
  BY <1>1 DEF AwaitEffect, OnlyJob
<1>4. \A q \in Agents : Holds(q) => loc[q].job # j
  BY <1>1, AwaitAlone
<1>5. jobs'[j].sem = 0
  <2>1. ~ \E d \in Callers : Waiter(d) /\ loc[d].job = j
    BY <1>4, AgentFacts DEF Waiter, Holds, Holding
  <2>2. jobs[j].sem = 1
    BY <1>2, <2>1 DEF NamedJob
  <2> QED BY <1>3, <2>2
<1>6. \A q \in Agents : q # c => at'[q] = at[q] /\ loc'[q] = loc[q]
  BY <1>3 DEF Alone
<1>7. at'[c] = "free"
  BY <1>3 DEF Alone
<1>8. ASSUME NEW m \in Instances, Named(m, j)' PROVE NamedJob(m, j)'
  <2>1. Named(m, j)
    <3>1. CASE Reaches(m, j)'
      BY <1>3, <3>1 DEF Named, Reaches
    <3>2. CASE ~ Reaches(m, j)'
      <4>1. PICK d \in Callers : Owed(d, m, j)'
        BY <1>8, <3>2 DEF Named
      <4>2. Owed(d, m, j)
        BY <1>6, <1>7, <4>1, AgentFacts DEF Owed
      <4> QED BY <4>2 DEF Named
    <3> QED BY <3>1, <3>2
  <2>2. NamedJob(m, j)
    BY <1>0, <2>1 DEF Names
  <2>3. \A q \in Agents : Holds(q)' /\ loc'[q].job = j => q = c
    BY <1>4, <1>6 DEF Holds
  <2>4. Waiter(c)' /\ loc'[c].job = j
    BY <1>1, <1>3, <1>7 DEF Waiter
  <2> QED BY <1>2, <1>3, <2>2, <2>3, <2>4 DEF NamedJob
<1>9. \A m \in Instances : j \in Places /\ Named(m, j)' => NamedJob(m, j)'
  BY <1>8
<1>10. \A i \in Places : i # j => jobs'[i] = jobs[i] /\ (i \in FreeJobs' => i \in FreeJobs)
  BY <1>3
<1>11. Names'
  BY <1>0, <1>1, <1>3, <1>9, <1>10, NamesStep DEF Holding
<1>12. ASSUME NEW d \in Callers, d # c, at[d] \in {"await", "free"}
       PROVE  loc[d].job # j /\ loc[d].inst # loc'[c].inst
  <2>1. Reaches(loc[d].inst, loc[d].job) /\ loc[d].inst # loc[c].inst /\ loc[d].inst \in Instances
    BY <1>3, <1>12, InstTypes DEF Ids, Awaits
  <2>2. loc[d].job = j => jobs[j].inst = loc[d].inst
    BY <1>0, <2>1 DEF Named, Names, NamedJob
  <2> QED BY <1>2, <1>3, <2>1, <2>2 DEF NamedJob
<1>13. Reaches(loc[c].inst, loc[c].job)'
  <2>1. Reaches(loc[c].inst, loc[c].job)
    BY <1>3 DEF Ids, Awaits
  <2> QED BY <1>1, <1>3, <2>1 DEF Reaches
<1>14. jobs'[loc'[c].job].done /\ jobs'[loc'[c].job].sem = 0
  BY <1>1, <1>2, <1>3, <1>5
<1>15. jobs[j].gen <= jobs'[j].gen
  <2>1. jobs[j].gen \in Nat
    BY DEF PoolTypes, JobRecord
  <2> QED BY <1>3, <2>1
<1>16. /\ \A d \in Callers : d # c /\ at[d] \in {"await", "free"} => loc[d].job # j
       /\ \A d \in Callers : d # c /\ at[d] \in {"await", "free"} => loc[d].inst # loc'[c].inst
       /\ \A i \in Places : i # j => jobs'[i] = jobs[i]
       /\ Alone(c, "free") /\ ids' = ids
  BY <1>3, <1>12
<1> QED BY <1>0, <1>11, <1>13, <1>14, <1>15, <1>16, IdsStep

(* free_job takes the name away. *)
LEMMA IdsFree ==
    ASSUME PoolTypes, PoolTypes', HaveJobs, FreeList, Owned, Numbered, Ids,
           NEW p \in Callers \cup Workers, FreeEffect(p)
    PROVE  Ids'
<1>0. p \in Agents /\ p # Owner /\ Names
  BY AgentFacts DEF Ids
<1>1. at[p] = "free" /\ Holds(p) /\ LinkEffect(p) /\ Alone(p, "push")
  BY DEF FreeEffect, LinkEffect, Holds, Holding
<1>2. FreeJobs' = FreeJobs
  BY <1>0, <1>1, ListKeptLink DEF ListSame
<1>3. PICK j \in Places : j = loc[p].job
  BY <1>0, <1>1 DEF HaveJobs
<1>4. /\ loc'[p].job = j /\ UNCHANGED <<ids, ran, ring, unread>>
      /\ \A i \in Places : i # j => jobs'[i] = jobs[i]
      /\ jobs'[j].gen = jobs[j].gen + 1
  BY <1>1, <1>3 DEF FreeEffect, LinkEffect, OnlyJob
<1>5. jobs[j].gen \in Nat /\ jobs'[j].gen \in Nat /\ jobs'[j].gen > jobs[j].gen
      /\ jobs[j].gen <= jobs'[j].gen
  <2>1. jobs[j].gen \in Nat
    BY DEF PoolTypes, JobRecord
  <2> QED BY <1>4, <2>1
<1>6. \A k \in Instances, c \in Callers : ~ Owed(c, k, j)
  <2>1. SUFFICES ASSUME NEW k \in Instances, NEW c \in Callers, Owed(c, k, j) PROVE FALSE
    OBVIOUS
  <2>2. NamedJob(k, j) /\ ids[k] = NoId
    <3>1. Creating(c)
      BY <2>1 DEF Owed, Creating
    <3> QED BY <1>0, <2>1, <3>1 DEF Named, Names, Numbered, Owed
  <2>3. CASE p \in Callers
    <3>1. Reaches(loc[p].inst, j) /\ loc[p].inst \in Instances
      BY <1>1, <1>3, <2>3, InstTypes DEF Ids, Awaits
    <3>2. NamedJob(loc[p].inst, j)
      BY <1>0, <3>1 DEF Named, Names
    <3> QED BY <2>2, <3>1, <3>2 DEF NamedJob, Reaches
  <2>4. CASE p \in Workers
    BY <1>0, <1>1, <1>3, <2>2, <2>4, AgentFacts DEF NamedJob, Waiter
  <2> QED BY <2>3, <2>4
<1>7. \A k \in Instances : ~ Named(k, j)'
  BY <1>0, <1>1, <1>4, <1>5, <1>6, StaysUnnamed DEF Ids
<1>8. \A k \in Instances : j \in Places /\ Named(k, j)' => NamedJob(k, j)'
  BY <1>7
<1>9. \A i \in Places : i # j => jobs'[i] = jobs[i] /\ (i \in FreeJobs' => i \in FreeJobs)
  BY <1>2, <1>4
<1>10. Names'
  BY <1>0, <1>1, <1>3, <1>4, <1>8, <1>9, NamesStep DEF Holding
<1>11. ASSUME NEW d \in Callers, d # p, at[d] \in {"await", "free"} PROVE loc[d].job # j
  <2>1. SUFFICES ASSUME loc[d].job = j PROVE FALSE
    OBVIOUS
  <2>2. NamedJob(loc[d].inst, j) /\ loc[d].inst \in Instances
    BY <1>0, <1>11, <2>1, InstTypes DEF Ids, Awaits, Named, Names
  <2>3. CASE p \in Callers
    <3>1. NamedJob(loc[p].inst, j)
      BY <1>0, <1>1, <1>3, <2>3, InstTypes DEF Ids, Awaits, Named, Names
    <3>2. loc[p].inst = loc[d].inst
      BY <2>2, <3>1 DEF NamedJob
    <3> QED BY <1>1, <1>11, <2>3, <3>2 DEF Ids, Awaits
  <2>4. CASE p \in Workers
    BY <1>0, <1>1, <1>3, <2>2, <2>4, AgentFacts DEF NamedJob, Waiter
  <2> QED BY <2>3, <2>4
<1>12. /\ \A d \in Callers : d # p /\ at[d] \in {"await", "free"} => loc[d].job # j
       /\ \A i \in Places : i # j => jobs'[i] = jobs[i]
       /\ ids' = ids
  BY <1>4, <1>11
<1> QED BY <1>0, <1>1, <1>5, <1>10, <1>12, IdsStep

(* A step of a caller keeps the ids true. *)
LEMMA IdsCaller ==
    ASSUME PoolTypes, PoolTypes', HaveJobs, FreeList, Owned, Numbered, ToRun, Ids, Window, Clean',
           NEW c \in Callers, CallerEffect(c)
    PROVE  Ids'
<1>0. c \in Agents /\ c \in Callers \cup Workers /\ c # Owner
  BY AgentFacts
<1>1. FreeJobs' = FreeJobs \/ PopEffect(c) \/ PushEffect(c)
  BY FreeListCaller DEF ListSame
<1>2. ASSUME NEW join \in BOOLEAN, CreateEffect(c, join) PROVE Ids'
  <2>1. FreeJobs' = FreeJobs
    BY <1>1, <1>2 DEF CreateEffect, PopEffect, PushEffect
  <2> QED BY <1>0, <1>2, <2>1, IdsSame DEF CreateEffect, Holding
<1>3. ASSUME TakeEffect(c) \/ RetryEffect(c) PROVE Ids'
  <2>1. FreeJobs' = FreeJobs
    BY <1>3 DEF TakeEffect, RetryEffect, FreeJobs
  <2> QED BY <1>0, <1>3, <2>1, IdsSame DEF TakeEffect, RetryEffect, Holding
<1>4. ASSUME CompleteEffect(c) PROVE Ids'
  <2>1. FreeJobs' = FreeJobs
    BY <1>1, <1>4 DEF CompleteEffect, PopEffect, PushEffect
  <2>2. PICK l : Alone(c, l) /\ l \in {"wait", "uncount", "idle"}
    BY <1>4 DEF CompleteEffect
  <2> QED BY <1>0, <1>4, <2>1, <2>2, IdsSame DEF CompleteEffect, Holding
<1>5. ASSUME UncountEffect(c) PROVE Ids'
  <2>1. FreeJobs' = FreeJobs
    BY <1>1, <1>5 DEF UncountEffect, PopEffect, PushEffect
  <2> QED BY <1>0, <1>5, <2>1, IdsSame DEF UncountEffect, Holding
<1>6. ASSUME NEW k \in Instances, WaitEffect(c, k) PROVE Ids'
  <2>1. FreeJobs' = FreeJobs
    BY <1>1, <1>6 DEF WaitEffect, PopEffect, PushEffect
  <2> QED BY <1>6, <2>1, IdsWait
<1>7. ASSUME AwaitEffect(c) PROVE Ids'
  <2>1. FreeJobs' = FreeJobs
    BY <1>1, <1>7 DEF AwaitEffect, PopEffect, PushEffect
  <2> QED BY <1>7, <2>1, IdsAwait
<1>8. ASSUME PopEffect(c) \/ InitEffect(c) \/ FailEffect(c) \/ AcquireEffect(c)
             \/ ReturnEffect(c) \/ RelinkEffect(c) \/ PushEffect(c)
      PROVE  Ids'
  BY <1>8, IdsSetup
<1>9. ASSUME FreeEffect(c) PROVE Ids'
  BY <1>0, <1>9, IdsFree
<1>10. ASSUME WriteEffect(c) PROVE Ids'
  BY <1>10, IdsWrite
<1>11. ASSUME SignalEffect(c) PROVE Ids'
  BY <1>11, IdsSignal
<1> QED BY <1>2, <1>3, <1>4, <1>5, <1>6, <1>7, <1>8, <1>9, <1>10, <1>11, Zenon DEF CallerEffect

(* A worker has run the job. *)
LEMMA IdsRun ==
    ASSUME PoolTypes, PoolTypes', HaveJobs, FreeList, Owned, Numbered, ToRun, Ids,
           NEW w \in Workers, RunEffect(w)
    PROVE  Ids'
<1>0. w \in Agents /\ w \in Callers \cup Workers /\ w # Owner /\ w \notin Callers /\ Names
  BY AgentFacts DEF Ids
<1>1. FreeJobs' = FreeJobs
  BY ListKeptRun DEF ListSame
<1>2. PICK j \in Places : j = loc[w].job /\ Fresh(j)
  BY <1>0 DEF HaveJobs, RunEffect, Holds, Holding, ToRun
<1>3. PICK m \in Instances : m = jobs[j].inst /\ ran[m] = 0
  BY <1>2 DEF Fresh
<1>4. at[w] = "run" /\ UNCHANGED <<ids, ring, unread>> /\ ran'[m] = 1
  BY <1>2, <1>3 DEF RunEffect
<1>5. ASSUME NEW i \in Places, i # j
      PROVE  /\ jobs'[i] = jobs[i]
             /\ jobs[i].inst \in Instances => ran'[jobs[i].inst] = ran[jobs[i].inst]
  <2>1. jobs'[i] = jobs[i]
    BY <1>2, <1>5 DEF RunEffect, OnlyJob
  <2>2. jobs[i].inst # jobs[j].inst \/ jobs[i].inst = 0
    BY <1>5 DEF Numbered
  <2>3. jobs[i].inst \in Instances => jobs[i].inst # m
    BY <1>3, <2>2, AgentFacts
  <2> QED BY <1>2, <1>3, <2>1, <2>3 DEF RunEffect
<1>6. /\ \A i \in Places : i # j => jobs'[i] = jobs[i] /\ (i \in FreeJobs' => i \in FreeJobs)
      /\ \A i \in Places : i # j /\ jobs[i].inst \in Instances =>
              ran'[jobs[i].inst] = ran[jobs[i].inst]
      /\ \A r \in unread : ring.cells[r] # j => r \in unread' /\ ring'.cells[r] = ring.cells[r]
  BY <1>1, <1>4, <1>5
<1>7. CASE ~ jobs[j].join
  <2>1. Alone(w, "free") /\ loc'[w] = loc[w] /\ jobs' = jobs
    BY <1>2, <1>7 DEF RunEffect
  <2>2. \A k \in Instances : ~ Named(k, j)
    BY <1>0, <1>7 DEF Names, NamedJob
  <2>3. jobs[j].gen <= jobs'[j].gen
    BY <2>1 DEF PoolTypes, JobRecord
  <2> QED BY <1>0, <1>2, <1>4, <1>6, <2>1, <2>2, <2>3, IdsHeld DEF Holding
<1>8. CASE jobs[j].join
  <2>1. /\ Alone(w, "wait")
        /\ jobs'[j].done /\ jobs'[j].sem = jobs[j].sem + 1 /\ jobs'[j].gen = jobs[j].gen
        /\ jobs'[j].join /\ jobs'[j].inst = jobs[j].inst
    BY <1>2, <1>8 DEF RunEffect
  <2>2. jobs'[j].sem = 1
    BY <1>2, <1>8, <2>1 DEF Fresh
  <2>3. /\ at'[w] = "wait" /\ \A q \in Agents : q # w => at'[q] = at[q] /\ loc'[q] = loc[q]
    BY <2>1 DEF Alone
  <2>4. \A q \in Agents : Holds(q) /\ loc[q].job = j => q = w
    BY <1>0, <1>2, <1>4 DEF Owned, Holds, Holding
  <2>5. ASSUME NEW k \in Instances, Named(k, j)' PROVE NamedJob(k, j)'
    <3>1. Named(k, j)
      <4>1. CASE Reaches(k, j)'
        BY <1>4, <2>1, <4>1 DEF Named, Reaches
      <4>2. CASE ~ Reaches(k, j)'
        <5>1. PICK d \in Callers : Owed(d, k, j)'
          BY <2>5, <4>2 DEF Named
        <5>2. Owed(d, k, j)
          BY <2>3, <5>1, AgentFacts DEF Owed
        <5> QED BY <5>2 DEF Named
      <4> QED BY <4>1, <4>2
    <3>2. NamedJob(k, j)
      BY <1>0, <3>1 DEF Names
    <3>3. \A q \in Agents : Holds(q)' => loc'[q].job # j
      BY <2>3, <2>4 DEF Holds, Holding
    <3>4. k = m
      BY <1>3, <3>2 DEF NamedJob
    <3> QED BY <1>1, <1>4, <2>1, <2>2, <3>2, <3>3, <3>4 DEF NamedJob
  <2>6. \A k \in Instances : j \in Places /\ Named(k, j)' => NamedJob(k, j)'
    BY <2>5
  <2>7. Names'
    BY <1>0, <1>2, <1>4, <1>6, <2>1, <2>6, NamesStep DEF Holding
  <2>8. Gens'
    <3>1. \A i \in Places : jobs'[i].gen = jobs[i].gen
      BY <1>5, <2>1
    <3>2. \A k \in Instances : ids[k] # NoId => ids[k].idx \in Places
      BY DEF PoolTypes
    <3> QED BY <1>4, <3>1, <3>2 DEF Ids, Gens
  <2>9. Awaits'
    <3>1. \A d \in Callers : at'[d] = at[d] /\ loc'[d] = loc[d]
      BY <1>0, <2>3, AgentFacts
    <3>2. \A d \in Callers : at[d] \in {"await", "free"} => loc[d].job \in Places
      BY AgentFacts DEF HaveJobs, Holds, Holding
    <3>3. \A d \in Callers : at[d] \in {"await", "free"} => Reaches(loc[d].inst, loc[d].job)'
      BY <1>4, <1>5, <2>1, <3>1, <3>2 DEF Ids, Awaits, Reaches
    <3> QED BY <3>1, <3>3 DEF Ids, Awaits
  <2>10. Waits'
    <3>1. SUFFICES ASSUME NEW d \in Callers, Waiter(d)'
                   PROVE  jobs'[loc'[d].job].done /\ jobs'[loc'[d].job].sem = 0
      BY DEF Waits
    <3>2. Waiter(d) /\ loc'[d] = loc[d] /\ d \in Agents /\ d # w
      BY <1>0, <2>3, <3>1, AgentFacts DEF Waiter
    <3>3. Holds(d) /\ loc[d].job \in Places /\ loc[d].job # j
      BY <2>4, <3>2 DEF Waiter, Holds, Holding, HaveJobs
    <3> QED BY <1>5, <3>2, <3>3 DEF Ids, Waits
  <2> QED BY <2>7, <2>8, <2>9, <2>10 DEF Ids
<1> QED BY <1>7, <1>8

(* A worker has a job's index. *)
LEMMA IdsClaim ==
    ASSUME PoolTypes, PoolTypes', HaveJobs, FreeList, Owned, Numbered, ToRun, Ids, Clean',
           NEW w \in Workers, ClaimEffect(w)
    PROVE  Ids'
<1>0. w \in Agents /\ w # Owner /\ w \notin Callers /\ Names /\ Null \notin Places
  BY AgentFacts DEF Ids
<1>1. PICK l : l = IF loc[w].job = Null THEN "stopped" ELSE "run"
  OBVIOUS
<1>2. /\ at[w] = "claim" /\ Alone(w, l) /\ loc'[w].job = loc[w].job
      /\ UNCHANGED <<jobs, ids, ran, freeHead>>
      /\ ring.head \in unread /\ ring.cells[ring.head] = loc[w].job
      /\ unread' = unread \ {ring.head} /\ ring'.cells = ring.cells
  BY <1>1 DEF ClaimEffect, Clean, Damage
<1>3. FreeJobs' = FreeJobs
  BY <1>2 DEF FreeJobs
<1>4. PICK j : j = loc[w].job
  OBVIOUS
<1>5. \A r \in unread : ring.cells[r] # j => r \in unread' /\ ring'.cells[r] = ring.cells[r]
  BY <1>2, <1>4
<1>6. at'[w] = l /\ \A q \in Agents : q # w => at'[q] = at[q] /\ loc'[q] = loc[q]
  BY <1>2 DEF Alone
<1>7. ASSUME NEW k \in Instances, j \in Places, Named(k, j)' PROVE NamedJob(k, j)'
  <2>1. l = "run"
    BY <1>0, <1>1, <1>4, <1>7
  <2>2. Named(k, j)
    <3>1. CASE Reaches(k, j)'
      BY <1>2, <3>1 DEF Named, Reaches
    <3>2. CASE ~ Reaches(k, j)'
      <4>1. PICK d \in Callers : Owed(d, k, j)'
        BY <1>7, <3>2 DEF Named
      <4>2. Owed(d, k, j)
        BY <1>0, <1>6, <4>1, AgentFacts DEF Owed
      <4> QED BY <4>2 DEF Named
    <3> QED BY <3>1, <3>2
  <2>3. NamedJob(k, j)
    BY <1>0, <1>7, <2>2 DEF Names
  <2>4. Fresh(j)
    BY <1>0, <1>2, <1>4, <1>7 DEF ToRun
  <2>5. Running(w, j)'
    BY <1>2, <1>4, <1>6, <2>1 DEF Running
  <2>6. \A q \in Agents : Holds(q) => loc[q].job # j
    BY <1>2, <1>4 DEF Owned
  <2>7. \A q \in Agents : Holds(q)' /\ loc'[q].job = j => q = w
    BY <1>6, <2>6 DEF Holds
  <2>8. \A q \in Agents : Holds(q)' /\ loc'[q].job = j => at'[q] = "run"
    BY <1>6, <2>1, <2>7
  <2>9. ~ jobs[j].done
    BY <2>4 DEF Fresh
  <2> QED BY <1>2, <1>3, <2>3, <2>5, <2>8, <2>9 DEF NamedJob
<1>8. \A k \in Instances : j \in Places /\ Named(k, j)' => NamedJob(k, j)'
  BY <1>7
<1>9. \A i \in Places : i # j => jobs'[i] = jobs[i] /\ (i \in FreeJobs' => i \in FreeJobs)
  BY <1>2, <1>3
<1>10. at[w] \notin Holding /\ loc'[w].job = j /\ Alone(w, l) /\ ids' = ids
  BY <1>2, <1>4 DEF Holding
<1>11. \A i \in Places : i # j /\ jobs[i].inst \in Instances =>
         ran'[jobs[i].inst] = ran[jobs[i].inst]
  BY <1>2
<1> HIDE <1>1, <1>4
<1>12. Names'
  BY <1>0, <1>5, <1>8, <1>9, <1>10, <1>11, NamesStep
<1>13. \A d \in Callers : at'[d] = at[d] /\ loc'[d] = loc[d]
  BY <1>0, <1>6, AgentFacts
<1>14. Gens' /\ Waits'
  BY <1>2, <1>13 DEF Ids, Gens, Waits, Waiter
<1>15. Awaits'
  <2>1. \A d \in Callers : at[d] \in {"await", "free"} => Reaches(loc[d].inst, loc[d].job)'
    BY <1>2, <1>13 DEF Ids, Awaits, Reaches
  <2> QED BY <1>13, <2>1 DEF Ids, Awaits
<1> QED BY <1>12, <1>14, <1>15 DEF Ids

(* A step of a worker keeps the ids true. *)
LEMMA IdsWorker ==
    ASSUME PoolTypes, PoolTypes', HaveJobs, FreeList, Owned, Numbered, ToRun, Ids, Clean',
           NEW w \in Workers, WorkerEffect(w)
    PROVE  Ids'
<1>0. w \in Agents /\ w \in Callers \cup Workers /\ w # Owner /\ w \notin Callers /\ Names
  BY AgentFacts DEF Ids
<1>1. ASSUME PendingEffect(w) \/ ReadAgainEffect(w) PROVE Ids'
  <2>1. FreeJobs' = FreeJobs
    BY <1>1 DEF PendingEffect, ReadAgainEffect, FreeJobs
  <2> QED BY <1>0, <1>1, <2>1, IdsSame DEF PendingEffect, ReadAgainEffect, Holding
<1>2. ASSUME CompleteEffect(w) PROVE Ids'
  <2>1. FreeJobs' = FreeJobs
    BY <1>2 DEF CompleteEffect, FreeJobs
  <2>2. Alone(w, "wait")
    BY <1>0, <1>2 DEF CompleteEffect
  <2> QED BY <1>0, <1>2, <2>1, <2>2, IdsSame DEF CompleteEffect, Holding
<1>3. ASSUME at[w] \in {"free", "push"}
      PROVE  /\ loc[w].job \in Places
             /\ \A k \in Instances : ~ Named(k, loc[w].job)
  <2>1. Holds(w) /\ at[w] # "run" /\ ~ Waiter(w)
    BY <1>0, <1>3 DEF Holds, Holding, Waiter
  <2>2. loc[w].job \in Places
    BY <1>0, <2>1 DEF HaveJobs
  <2> QED BY <1>0, <2>1, <2>2, Unnamed
<1>4. ASSUME RelinkEffect(w) PROVE Ids'
  <2>1. LinkEffect(w) /\ at[w] = "push" /\ Holds(w)
        /\ jobs'[loc[w].job].gen = jobs[loc[w].job].gen
    BY <1>4 DEF RelinkEffect, Holds, Holding
  <2>2. FreeJobs' = FreeJobs
    BY <1>0, <2>1, ListKeptLink DEF ListSame
  <2>3. /\ Alone(w, "push") /\ loc'[w].job = loc[w].job
        /\ UNCHANGED <<ran, ids, ring, unread>>
    BY <2>1 DEF LinkEffect
  <2>4. PICK j \in Places : j = loc[w].job /\ \A k \in Instances : ~ Named(k, j)
    BY <1>3, <2>1
  <2>5. \A i \in Places : i # j => jobs'[i] = jobs[i]
    BY <2>1, <2>4 DEF LinkEffect, OnlyJob
  <2>6. jobs[j].gen <= jobs'[j].gen
    <3>1. jobs'[j].gen = jobs[j].gen /\ jobs[j].gen \in Nat
      BY <2>1, <2>4 DEF PoolTypes, JobRecord
    <3> QED BY <3>1
  <2> QED BY <1>0, <2>1, <2>2, <2>3, <2>4, <2>5, <2>6, IdsHeld DEF Holding
<1>5. ASSUME PushEffect(w) PROVE Ids'
  <2>1. FreeJobs' = FreeJobs \cup {loc[w].job}
    BY <1>0, <1>5, ListPushed
  <2>2. /\ Alone(w, "complete") /\ at[w] = "push" /\ UNCHANGED <<jobs, ran, ids, ring, unread>>
    BY <1>5 DEF PushEffect
  <2>3. PICK j \in Places : j = loc[w].job /\ \A k \in Instances : ~ Named(k, j)
    BY <1>3, <2>2
  <2>4. jobs[j].gen <= jobs'[j].gen
    BY <2>2 DEF PoolTypes, JobRecord
  <2> QED BY <1>0, <2>1, <2>2, <2>3, <2>4, IdsHeld DEF Holding
<1>6. ASSUME FreeEffect(w) PROVE Ids'
  BY <1>0, <1>6, IdsFree
<1>7. ASSUME ClaimEffect(w) PROVE Ids'
  BY <1>7, IdsClaim
<1>8. ASSUME RunEffect(w) PROVE Ids'
  BY <1>8, IdsRun
<1> QED BY <1>1, <1>2, <1>4, <1>5, <1>6, <1>7, <1>8, Zenon DEF WorkerEffect

(* A step of the owner keeps the ids true. *)
LEMMA IdsOwner ==
    ASSUME PoolTypes, PoolTypes', HaveJobs, FreeList, Ids, Window, Clean', OwnerEffect
    PROVE  Ids'
<1>0. Owner \in Agents
  BY AgentFacts
<1>1. PICK l : Alone(Owner, l)
  BY DEF OwnerEffect, QuitEffect, AcquireEffect, StopEffect, SignalWorkersEffect, JoinEffect
<1>2. UNCHANGED <<jobs, ids, ran>> /\ FreeJobs' = FreeJobs
  <2>1. FreeJobs' = FreeJobs
    BY FreeListOwner DEF ListSame
  <2> QED BY <2>1 DEF OwnerEffect, QuitEffect, AcquireEffect, StopEffect, StoreEffect,
                      SignalWorkersEffect, JoinEffect
<1>3. \A r \in unread : r \in unread' /\ ring'.cells[r] = ring.cells[r]
  <2>1. CASE AcquireEffect(Owner)
    BY <2>1 DEF AcquireEffect, Clean
  <2>2. CASE StopEffect
    <3>1. loc[Owner].place \notin unread
      BY <1>0, <2>2, WriteApart DEF StopEffect, StoreEffect
    <3> QED BY <2>2, <3>1 DEF StopEffect, StoreEffect, PoolTypes
  <2>3. CASE QuitEffect \/ SignalWorkersEffect \/ JoinEffect
    BY <2>3 DEF QuitEffect, SignalWorkersEffect, JoinEffect
  <2> QED BY <2>1, <2>2, <2>3 DEF OwnerEffect
<1> QED BY <1>0, <1>1, <1>2, <1>3, IdsSame
-----------------------------------------------------------------------------
(* No structure is lost. *)

(* A step in which p deals with structure j only, and gives out no id *)
LEMMA TotalStep ==
    ASSUME PoolTypes, Total, NEW p \in Agents, NEW l, Alone(p, l), NEW j, ids' = ids,
           \A i \in Places : i # j => jobs'[i] = jobs[i] /\ (i \in FreeJobs => i \in FreeJobs'),
           \A r \in unread : ring.cells[r] # j => r \in unread' /\ ring'.cells[r] = ring.cells[r],
           \A r \in unread' : \/ r \in unread /\ ring'.cells[r] = ring.cells[r]
                              \/ ring'.cells[r] \in {j, Null},
           p # Owner /\ at[p] \in Holding => loc[p].job = j,
           p # Owner /\ l = "run" => loc'[p].job = j,
           p # Owner => at[p] # "signal",
           j \in Places => /\ Placed(j)'
                           /\ (jobs[j].join /\ Claimable(j))' => \E k \in Instances : Named(k, j)'
    PROVE  Total'
<1>1. SUFFICES ASSUME NEW i \in Places, i # j
               PROVE  /\ Placed(i)'
                      /\ (jobs[i].join /\ Claimable(i))' => \E k \in Instances : Named(k, i)'
  BY DEF Total
<1>2. /\ at'[p] = l /\ \A q \in Agents : q # p => at'[q] = at[q] /\ loc'[q] = loc[q]
      /\ jobs'[i] = jobs[i] /\ (i \in FreeJobs => i \in FreeJobs')
  BY <1>1 DEF Alone
<1>3. ASSUME NEW k \in Instances, Named(k, i) PROVE Named(k, i)'
  <2>1. CASE Reaches(k, i)
    BY <1>2, <2>1 DEF Named, Reaches
  <2>2. CASE ~ Reaches(k, i)
    <3>1. PICK c \in Callers : Owed(c, k, i)
      BY <1>3, <2>2 DEF Named
    <3>2. c # p /\ c \in Agents
      BY <3>1, AgentFacts DEF Owed
    <3>3. Owed(c, k, i)'
      BY <1>2, <3>1, <3>2 DEF Owed
    <3> QED BY <3>3 DEF Named
  <2> QED BY <2>1, <2>2
<1>4. ASSUME NEW q \in Agents, Holds(q), loc[q].job = i PROVE Holds(q)' /\ loc'[q].job = i
  BY <1>1, <1>2, <1>4, AgentFacts DEF Holds
<1>5. ASSUME NEW r \in unread, ring.cells[r] = i PROVE r \in unread' /\ ring'.cells[r] = i
  BY <1>1, <1>5
<1>6. Placed(i)
  BY DEF Total
<1>7. Placed(i)'
  BY <1>2, <1>3, <1>4, <1>5, <1>6 DEF Placed
<1>8. ASSUME Claimable(i)' PROVE Claimable(i)
  <2>1. CASE \E r \in unread' : ring'.cells[r] = i
    BY <1>1, <2>1, AgentFacts DEF Claimable
  <2>2. CASE ~ \E r \in unread' : ring'.cells[r] = i
    <3>1. PICK w \in Workers : Running(w, i)'
      BY <1>8, <2>2 DEF Claimable
    <3>2. w # p
      BY <1>1, <1>2, <3>1, AgentFacts DEF Running
    <3>3. Running(w, i)
      BY <1>2, <3>1, <3>2, AgentFacts DEF Running
    <3> QED BY <3>3 DEF Claimable
  <2> QED BY <2>1, <2>2
<1>9. jobs[i].join /\ Claimable(i) => \E k \in Instances : Named(k, i)
  BY DEF Total
<1> QED BY <1>2, <1>3, <1>7, <1>8, <1>9

(* A structure that a thread is setting up or freeing after the step *)
LEMMA TotalHeld ==
    ASSUME Owned', NEW p \in Callers \cup Workers, NEW j, loc'[p].job = j,
           at'[p] \in Holding, at'[p] # "run"
    PROVE  Placed(j)' /\ ~ Claimable(j)'
<1>1. Holds(p)' /\ p \in Agents
  BY AgentFacts DEF Holds
<1>2. \A r \in unread' : ring'.cells[r] # j
  BY <1>1 DEF Owned
<1>3. ASSUME NEW w \in Workers, Running(w, j)' PROVE FALSE
  <2>1. Holds(w)' /\ w \in Agents /\ loc'[w].job = loc'[p].job /\ w # p
    BY <1>3, AgentFacts DEF Running, Holds, Holding
  <2> QED BY <1>1, <2>1 DEF Owned
<1> QED BY <1>1, <1>2, <1>3 DEF Placed, Claimable

(* A step that leaves the structures alone and neither takes nor gives one *)
LEMMA TotalSame ==
    ASSUME PoolTypes, Total, NEW p \in Agents, NEW l, Alone(p, l),
           UNCHANGED <<jobs, ids>>, FreeJobs' = FreeJobs,
           p = Owner \/ (at[p] \notin Holding \cup {"signal"} /\ l # "run"),
           \A r \in unread : r \in unread' /\ ring'.cells[r] = ring.cells[r],
           \A r \in unread' : \/ r \in unread /\ ring'.cells[r] = ring.cells[r]
                              \/ ring'.cells[r] = Null
    PROVE  Total'
<1>1. Null \notin Places
  BY AgentFacts
<1>2. \A r \in unread : ring.cells[r] # Null => r \in unread' /\ ring'.cells[r] = ring.cells[r]
  OBVIOUS
<1>3. \A i \in Places : i # Null => jobs'[i] = jobs[i] /\ (i \in FreeJobs => i \in FreeJobs')
  OBVIOUS
<1>4. \A r \in unread' : \/ r \in unread /\ ring'.cells[r] = ring.cells[r]
                         \/ ring'.cells[r] \in {Null, Null}
  OBVIOUS
<1>5. /\ ~(p # Owner /\ at[p] \in Holding) /\ ~(p # Owner /\ l = "run")
      /\ p # Owner => at[p] # "signal"
  OBVIOUS
<1> QED BY <1>1, <1>2, <1>3, <1>4, <1>5, TotalStep

(* A step in which p has j before and has it, or not, after *)
LEMMA TotalMoved ==
    ASSUME PoolTypes, Total, Owned', NEW p \in Callers \cup Workers, NEW l, Alone(p, l), NEW j \in Places,
           ids' = ids,
           \A i \in Places : i # j => jobs'[i] = jobs[i] /\ (i \in FreeJobs => i \in FreeJobs'),
           unread' = unread /\ ring'.cells = ring.cells,
           at[p] \in Holding => loc[p].job = j,
           at[p] # "signal",
           l \in Holding \ {"run"}, loc'[p].job = j
    PROVE  Total'
<1>1. p \in Agents /\ p # Owner /\ at'[p] = l
  BY AgentFacts DEF Alone
<1>2. Placed(j)' /\ ~ Claimable(j)'
  BY <1>1, TotalHeld
<1>3. /\ Placed(j)'
      /\ (jobs[j].join /\ Claimable(j))' => \E k \in Instances : Named(k, j)'
  BY <1>2
<1>4. \A r \in unread' : \/ r \in unread /\ ring'.cells[r] = ring.cells[r]
                         \/ ring'.cells[r] \in {j, Null}
  OBVIOUS
<1>5. \A r \in unread : ring.cells[r] # j => r \in unread' /\ ring'.cells[r] = ring.cells[r]
  OBVIOUS
<1> QED BY <1>1, <1>3, <1>4, <1>5, TotalStep

(* A step of a caller keeps every structure accounted for. *)
LEMMA TotalCaller ==
    ASSUME PoolTypes, PoolTypes', HaveJobs, FreeList, Owned, Owned', Numbered, ToRun, Ids, Total,
           Window, Clean', NEW c \in Callers, CallerEffect(c)
    PROVE  Total'
<1>0. c \in Agents /\ c \in Callers \cup Workers /\ c # Owner
  BY AgentFacts
<1>1. FreeJobs' = FreeJobs \/ PopEffect(c) \/ PushEffect(c)
  BY FreeListCaller DEF ListSame
<1>2. ASSUME NEW join \in BOOLEAN, CreateEffect(c, join) PROVE Total'
  <2>1. FreeJobs' = FreeJobs
    BY <1>1, <1>2 DEF CreateEffect, PopEffect, PushEffect
  <2> QED BY <1>0, <1>2, <2>1, TotalSame DEF CreateEffect, Holding
<1>3. ASSUME TakeEffect(c) \/ RetryEffect(c) PROVE Total'
  <2>1. FreeJobs' = FreeJobs
    BY <1>3 DEF TakeEffect, RetryEffect, FreeJobs
  <2> QED BY <1>0, <1>3, <2>1, TotalSame DEF TakeEffect, RetryEffect, Holding
<1>4. ASSUME CompleteEffect(c) PROVE Total'
  <2>1. FreeJobs' = FreeJobs
    BY <1>1, <1>4 DEF CompleteEffect, PopEffect, PushEffect
  <2>2. PICK l : Alone(c, l) /\ l \in {"wait", "uncount", "idle"}
    BY <1>4 DEF CompleteEffect
  <2> QED BY <1>0, <1>4, <2>1, <2>2, TotalSame DEF CompleteEffect, Holding
<1>5. ASSUME UncountEffect(c) PROVE Total'
  <2>1. FreeJobs' = FreeJobs
    BY <1>1, <1>5 DEF UncountEffect, PopEffect, PushEffect
  <2> QED BY <1>0, <1>5, <2>1, TotalSame DEF UncountEffect, Holding
<1>6. ASSUME NEW k \in Instances, WaitEffect(c, k) PROVE Total'
  <2>1. FreeJobs' = FreeJobs
    BY <1>1, <1>6 DEF WaitEffect, PopEffect, PushEffect
  <2> QED BY <1>0, <1>6, <2>1, TotalSame DEF WaitEffect, Holding
<1>7. ASSUME AwaitEffect(c) PROVE Total'
  <2>1. FreeJobs' = FreeJobs
    BY <1>1, <1>7 DEF AwaitEffect, PopEffect, PushEffect
  <2>2. PICK j \in Places : j = loc[c].job
    BY <1>7, AwaitAlone
  <2>3. \A i \in Places : i # j => jobs'[i] = jobs[i]
    BY <1>7, <2>2 DEF AwaitEffect, OnlyJob
  <2> QED BY <1>0, <1>7, <2>1, <2>2, <2>3, TotalMoved DEF AwaitEffect, Holding
<1>8. ASSUME PopEffect(c) PROVE Total'
  <2>1. freeHead # Null
    BY <1>8, HasHead DEF PopEffect
  <2>2. FreeJobs' = FreeJobs \ {freeHead} /\ freeHead \in FreeJobs
    BY <1>8, <2>1, ListPopped
  <2>3. PICK j \in Places : j = freeHead
    BY <2>2, FreeSubset
  <2> QED BY <1>0, <1>8, <2>2, <2>3, TotalMoved DEF PopEffect, Holding
<1>9. ASSUME at[c] \in Holding PROVE loc[c].job \in Places
  BY <1>0, <1>9 DEF HaveJobs, Holds
<1>10. ASSUME InitEffect(c) \/ FailEffect(c) PROVE Total'
  <2>1. FreeJobs' = FreeJobs
    BY <1>10, ListKeptInit DEF ListSame
  <2>2. PICK l : Alone(c, l) /\ l \in {"acquire", "link"}
    BY <1>10 DEF InitEffect, FailEffect
  <2>3. at[c] = "init" /\ loc'[c] = loc[c] /\ UNCHANGED <<ids, ring, unread>>
    BY <1>10 DEF InitEffect, FailEffect
  <2>4. PICK j \in Places : j = loc[c].job
    BY <1>9, <2>3 DEF Holding
  <2>5. \A i \in Places : i # j => jobs'[i] = jobs[i]
    BY <1>10, <2>4 DEF InitEffect, FailEffect, OnlyJob
  <2> QED BY <1>0, <2>1, <2>2, <2>3, <2>4, <2>5, TotalMoved DEF Holding
<1>11. ASSUME AcquireEffect(c) PROVE Total'
  <2>1. FreeJobs' = FreeJobs
    BY <1>1, <1>11 DEF AcquireEffect, PopEffect, PushEffect
  <2>2. /\ Alone(c, "write") /\ at[c] = "acquire" /\ loc'[c].job = loc[c].job
        /\ UNCHANGED <<jobs, ids>> /\ unread' = unread /\ ring'.cells = ring.cells
    BY <1>11 DEF AcquireEffect, Clean
  <2>3. PICK j \in Places : j = loc[c].job
    BY <1>9, <2>2 DEF Holding
  <2> QED BY <1>0, <2>1, <2>2, <2>3, TotalMoved DEF Holding
<1>12. ASSUME FreeEffect(c) \/ ReturnEffect(c) \/ RelinkEffect(c) PROVE Total'
  <2>1. LinkEffect(c) /\ at[c] \in {"free", "link", "push"} /\ Holds(c)
    BY <1>12 DEF FreeEffect, ReturnEffect, RelinkEffect, Holds, Holding
  <2>2. FreeJobs' = FreeJobs
    BY <1>0, <2>1, ListKeptLink DEF ListSame
  <2>3. Alone(c, "push") /\ loc'[c].job = loc[c].job /\ UNCHANGED <<ids, ring, unread>>
    BY <2>1 DEF LinkEffect
  <2>4. PICK j \in Places : j = loc[c].job
    BY <1>9, <2>1 DEF Holding
  <2>5. \A i \in Places : i # j => jobs'[i] = jobs[i]
    BY <2>1, <2>4 DEF LinkEffect, OnlyJob
  <2> QED BY <1>0, <2>1, <2>2, <2>3, <2>4, <2>5, TotalMoved DEF Holding
<1>13. ASSUME PushEffect(c) PROVE Total'
  <2>1. FreeJobs' = FreeJobs \cup {loc[c].job}
    BY <1>0, <1>13, ListPushed
  <2>2. /\ Alone(c, "complete") /\ at[c] = "push" /\ UNCHANGED <<jobs, ids, ring, unread>>
    BY <1>13 DEF PushEffect
  <2>3. PICK j \in Places : j = loc[c].job
    BY <1>9, <2>2 DEF Holding
  <2>4. Placed(j)'
    BY <2>1, <2>3 DEF Placed
  <2>5. ~ Claimable(j)'
    <3>1. \A r \in unread' : ring'.cells[r] # j
      BY <2>1, <2>3 DEF Owned
    <3>2. ASSUME NEW w \in Workers, Running(w, j)' PROVE FALSE
      <4>1. Holds(w)' /\ w \in Agents /\ loc'[w].job \in FreeJobs'
        BY <2>1, <2>3, <3>2, AgentFacts DEF Running, Holds, Holding
      <4> QED BY <4>1 DEF Owned
    <3> QED BY <3>1, <3>2 DEF Claimable
  <2>6. Placed(j)' /\ ((jobs[j].join /\ Claimable(j))' => \E k \in Instances : Named(k, j)')
    BY <2>4, <2>5
  <2> QED BY <1>0, <2>1, <2>2, <2>3, <2>6, TotalStep
<1>14. ASSUME WriteEffect(c) PROVE Total'
  <2>1. FreeJobs' = FreeJobs
    BY <1>1, <1>14 DEF WriteEffect, StoreEffect, PopEffect, PushEffect
  <2>2. /\ Alone(c, "signal") /\ at[c] = "write"
        /\ loc'[c].job = loc[c].job /\ loc'[c].inst = loc[c].inst /\ loc'[c].join = loc[c].join
        /\ UNCHANGED <<jobs, ids>>
        /\ unread' = unread \cup {loc[c].place}
        /\ ring'.cells[loc[c].place] = loc[c].job
        /\ \A r \in unread : r # loc[c].place => ring'.cells[r] = ring.cells[r]
    BY <1>14 DEF WriteEffect, StoreEffect, SameCreation, PoolTypes
  <2>3. loc[c].place \notin unread
    BY <1>0, <2>2, WriteApart
  <2>4. PICK j \in Places : j = loc[c].job
    BY <1>9, <2>2 DEF Holding
  <2>5. Placed(j)'
    BY <2>2, <2>4 DEF Placed
  <2>6. jobs'[j].join => \E k \in Instances : Named(k, j)'
    <3>1. SUFFICES ASSUME jobs'[j].join PROVE \E k \in Instances : Named(k, j)'
      OBVIOUS
    <3>2. loc[c].join
      BY <2>2, <2>4, <3>1 DEF ToRun
    <3>3. PICK k \in Instances : k = loc[c].inst
      BY <2>2, InstTypes
    <3>4. Owed(c, k, j)'
      BY <2>2, <2>4, <3>2, <3>3 DEF Owed, Alone
    <3> QED BY <3>4 DEF Named
  <2>7. Placed(j)' /\ ((jobs[j].join /\ Claimable(j))' => \E k \in Instances : Named(k, j)')
    BY <2>5, <2>6
  <2>8. \A r \in unread' : \/ r \in unread /\ ring'.cells[r] = ring.cells[r]
                           \/ ring'.cells[r] \in {j, Null}
    BY <2>2, <2>4
  <2>9. \A r \in unread : ring.cells[r] # j => r \in unread' /\ ring'.cells[r] = ring.cells[r]
    BY <2>2, <2>3
  <2>10. \A i \in Places : i # j => jobs'[i] = jobs[i] /\ (i \in FreeJobs => i \in FreeJobs')
    BY <2>1, <2>2
  <2> QED BY <1>0, <2>2, <2>4, <2>7, <2>8, <2>9, <2>10, TotalStep
<1>15. ASSUME SignalEffect(c) PROVE Total'
  <2>1. FreeJobs' = FreeJobs
    BY <1>1, <1>15 DEF SignalEffect, PopEffect, PushEffect
  <2>2. /\ at[c] = "signal" /\ at'[c] = "idle"
        /\ \A q \in Agents : q # c => at'[q] = at[q] /\ loc'[q] = loc[q]
        /\ UNCHANGED <<jobs, ring, unread>>
    BY <1>15 DEF SignalEffect, Alone
  <2>3. PICK k \in Instances : k = loc[c].inst /\ ids[k] = NoId
    <3>1. loc[c].inst \in Instances /\ Creating(c)
      BY <2>2, InstTypes DEF Creating
    <3> QED BY <3>1 DEF Numbered
  <2>4. ASSUME NEW m \in Instances, NEW i \in Places, Named(m, i) PROVE Named(m, i)'
    <3>1. CASE Owed(c, m, i)
      <4>1. Reaches(m, i)'
        BY <1>15, <2>2, <2>3, <3>1 DEF SignalEffect, Owed, Reaches
      <4> QED BY <4>1 DEF Named
    <3>2. CASE Reaches(m, i)
      <4>1. Reaches(m, i)'
        BY <1>15, <2>2, <2>3, <3>2 DEF SignalEffect, Reaches
      <4> QED BY <4>1 DEF Named
    <3>3. CASE \E d \in Callers : d # c /\ Owed(d, m, i)
      <4>1. PICK d \in Callers : d # c /\ Owed(d, m, i)
        BY <3>3
      <4>2. Owed(d, m, i)'
        BY <2>2, <4>1, AgentFacts DEF Owed
      <4> QED BY <4>2 DEF Named
    <3> QED BY <2>4, <3>1, <3>2, <3>3 DEF Named
  <2>5. \A q \in Agents : Holds(q) => Holds(q)' /\ loc'[q].job = loc[q].job
    BY <2>2 DEF Holds, Holding
  <2>6. \A i \in Places : Claimable(i)' => Claimable(i)
    <3>1. \A w \in Workers, i \in Places : Running(w, i)' => Running(w, i)
      BY <1>0, <2>2, AgentFacts DEF Running
    <3> QED BY <2>2, <3>1 DEF Claimable
  <2>7. \A i \in Places : Placed(i) => Placed(i)'
    BY <2>1, <2>2, <2>4, <2>5 DEF Placed
  <2> QED BY <2>2, <2>4, <2>6, <2>7 DEF Total
<1> QED BY <1>2, <1>3, <1>4, <1>5, <1>6, <1>7, <1>8, <1>10, <1>11, <1>12, <1>13, <1>14, <1>15, Zenon
        DEF CallerEffect

(* A step of a worker keeps every structure accounted for. *)
LEMMA TotalWorker ==
    ASSUME PoolTypes, PoolTypes', HaveJobs, FreeList, Owned, Owned', Numbered, ToRun, Ids, Total,
           Clean', NEW w \in Workers, WorkerEffect(w)
    PROVE  Total'
<1>0. w \in Agents /\ w \in Callers \cup Workers /\ w # Owner /\ w \notin Callers
  BY AgentFacts
<1>1. ASSUME PendingEffect(w) \/ ReadAgainEffect(w) PROVE Total'
  <2>1. FreeJobs' = FreeJobs
    BY <1>1 DEF PendingEffect, ReadAgainEffect, FreeJobs
  <2> QED BY <1>0, <1>1, <2>1, TotalSame DEF PendingEffect, ReadAgainEffect, Holding
<1>2. ASSUME CompleteEffect(w) PROVE Total'
  <2>1. FreeJobs' = FreeJobs
    BY <1>2 DEF CompleteEffect, FreeJobs
  <2>2. Alone(w, "wait")
    BY <1>0, <1>2 DEF CompleteEffect
  <2> QED BY <1>0, <1>2, <2>1, <2>2, TotalSame DEF CompleteEffect, Holding
<1>3. ASSUME at[w] \in Holding PROVE loc[w].job \in Places
  BY <1>0, <1>3 DEF HaveJobs, Holds
<1>4. ASSUME FreeEffect(w) \/ RelinkEffect(w) PROVE Total'
  <2>1. LinkEffect(w) /\ at[w] \in {"free", "push"} /\ Holds(w)
    BY <1>4 DEF FreeEffect, RelinkEffect, Holds, Holding
  <2>2. FreeJobs' = FreeJobs
    BY <1>0, <2>1, ListKeptLink DEF ListSame
  <2>3. Alone(w, "push") /\ loc'[w].job = loc[w].job /\ UNCHANGED <<ids, ring, unread>>
    BY <2>1 DEF LinkEffect
  <2>4. PICK j \in Places : j = loc[w].job
    BY <1>3, <2>1 DEF Holding
  <2>5. \A i \in Places : i # j => jobs'[i] = jobs[i]
    BY <2>1, <2>4 DEF LinkEffect, OnlyJob
  <2> QED BY <1>0, <2>1, <2>2, <2>3, <2>4, <2>5, TotalMoved DEF Holding
<1>5. ASSUME PushEffect(w) PROVE Total'
  <2>1. FreeJobs' = FreeJobs \cup {loc[w].job}
    BY <1>0, <1>5, ListPushed
  <2>2. /\ Alone(w, "complete") /\ at[w] = "push" /\ UNCHANGED <<jobs, ids, ring, unread>>
    BY <1>5 DEF PushEffect
  <2>3. PICK j \in Places : j = loc[w].job
    BY <1>3, <2>2 DEF Holding
  <2>4. Placed(j)'
    BY <2>1, <2>3 DEF Placed
  <2>5. ~ Claimable(j)'
    <3>1. \A r \in unread' : ring'.cells[r] # j
      BY <2>1, <2>3 DEF Owned
    <3>2. ASSUME NEW v \in Workers, Running(v, j)' PROVE FALSE
      <4>1. Holds(v)' /\ v \in Agents /\ loc'[v].job \in FreeJobs'
        BY <2>1, <2>3, <3>2, AgentFacts DEF Running, Holds, Holding
      <4> QED BY <4>1 DEF Owned
    <3> QED BY <3>1, <3>2 DEF Claimable
  <2>6. Placed(j)' /\ ((jobs[j].join /\ Claimable(j))' => \E k \in Instances : Named(k, j)')
    BY <2>4, <2>5
  <2> QED BY <1>0, <2>1, <2>2, <2>3, <2>6, TotalStep
<1>6. ASSUME NEW k \in Instances, NEW j \in Places, Named(k, j), jobs'[j].gen = jobs[j].gen,
             ids' = ids, \A d \in Callers : at'[d] = at[d] /\ loc'[d] = loc[d]
      PROVE  Named(k, j)'
  <2>1. \A d \in Callers : Owed(d, k, j) => Owed(d, k, j)'
    BY <1>6 DEF Owed
  <2>2. Reaches(k, j) => Reaches(k, j)'
    BY <1>6 DEF Reaches
  <2> QED BY <1>6, <2>1, <2>2 DEF Named
<1>7. ASSUME ClaimEffect(w) PROVE Total'
  <2>1. PICK l : l = IF loc[w].job = Null THEN "stopped" ELSE "run"
    OBVIOUS
  <2>2. /\ at[w] = "claim" /\ Alone(w, l) /\ loc'[w].job = loc[w].job
        /\ UNCHANGED <<jobs, ids, freeHead>>
        /\ ring.head \in unread /\ ring.cells[ring.head] = loc[w].job
        /\ unread' = unread \ {ring.head} /\ ring'.cells = ring.cells
    BY <1>7, <2>1 DEF ClaimEffect, Clean, Damage
  <2>3. FreeJobs' = FreeJobs
    BY <2>2 DEF FreeJobs
  <2>4. PICK j : j = loc[w].job
    OBVIOUS
  <2>5. ASSUME j \in Places
        PROVE  /\ Placed(j)'
               /\ (jobs[j].join /\ Claimable(j))' => \E k \in Instances : Named(k, j)'
    <3>1. at'[w] = "run"
      BY <2>1, <2>2, <2>4, <2>5, AgentFacts DEF Alone
    <3>2. Placed(j)'
      BY <1>0, <2>2, <2>4, <3>1 DEF Placed, Holds, Holding
    <3>3. jobs[j].join => \E k \in Instances : Named(k, j)
      BY <2>2, <2>4, <2>5 DEF Total, Claimable
    <3>4. \A d \in Callers : at'[d] = at[d] /\ loc'[d] = loc[d]
      BY <1>0, <2>2, AgentFacts DEF Alone
    <3>5. jobs[j].join => \E k \in Instances : Named(k, j)'
      BY <1>6, <2>2, <2>5, <3>3, <3>4
    <3> QED BY <2>2, <3>2, <3>5
  <2>6. \A r \in unread : ring.cells[r] # j => r \in unread' /\ ring'.cells[r] = ring.cells[r]
    BY <2>2, <2>4
  <2>7. \A r \in unread' : \/ r \in unread /\ ring'.cells[r] = ring.cells[r]
                           \/ ring'.cells[r] \in {j, Null}
    BY <2>2
  <2>8. \A i \in Places : i # j => jobs'[i] = jobs[i] /\ (i \in FreeJobs => i \in FreeJobs')
    BY <2>2, <2>3
  <2>9. at[w] \notin Holding /\ at[w] # "signal" /\ loc'[w].job = j /\ Alone(w, l) /\ ids' = ids
    BY <2>2, <2>4 DEF Holding
  <2> HIDE <2>1, <2>4
  <2> QED BY <1>0, <2>5, <2>6, <2>7, <2>8, <2>9, TotalStep
<1>8. ASSUME RunEffect(w) PROVE Total'
  <2>1. FreeJobs' = FreeJobs
    BY <1>8, ListKeptRun DEF ListSame
  <2>2. at[w] = "run" /\ UNCHANGED <<ids, ring, unread>>
    BY <1>8 DEF RunEffect
  <2>3. PICK j \in Places : j = loc[w].job
    BY <1>3, <2>2 DEF Holding
  <2>4. \A i \in Places : i # j => jobs'[i] = jobs[i]
    BY <1>8, <2>3 DEF RunEffect, OnlyJob
  <2>5. CASE ~ jobs[j].join
    <3>1. Alone(w, "free") /\ loc'[w] = loc[w]
      BY <1>8, <2>3, <2>5 DEF RunEffect
    <3> QED BY <1>0, <2>1, <2>2, <2>3, <2>4, <3>1, TotalMoved DEF Holding
  <2>6. CASE jobs[j].join
    <3>1. Alone(w, "wait") /\ jobs'[j].gen = jobs[j].gen
      BY <1>8, <2>3, <2>6 DEF RunEffect
    <3>2. PICK k \in Instances : Named(k, j)
      <4>1. Claimable(j)
        BY <2>2, <2>3 DEF Claimable, Running
      <4> QED BY <2>6, <4>1 DEF Total
    <3>3. \A d \in Callers : at'[d] = at[d] /\ loc'[d] = loc[d]
      BY <1>0, <3>1, AgentFacts DEF Alone
    <3>4. Named(k, j)'
      BY <1>6, <2>2, <3>1, <3>2, <3>3
    <3>5. Placed(j)' /\ ((jobs[j].join /\ Claimable(j))' => \E m \in Instances : Named(m, j)')
      BY <3>4 DEF Placed
    <3>6. \A i \in Places : i # j => jobs'[i] = jobs[i] /\ (i \in FreeJobs => i \in FreeJobs')
      BY <2>1, <2>4
    <3> QED BY <1>0, <2>2, <2>3, <3>1, <3>5, <3>6, TotalStep DEF Holding
  <2> QED BY <2>5, <2>6
<1> QED BY <1>1, <1>2, <1>4, <1>5, <1>7, <1>8, Zenon DEF WorkerEffect

(* A step of the owner keeps every structure accounted for. *)
LEMMA TotalOwner ==
    ASSUME PoolTypes, FreeList, Total, Window, Clean', OwnerEffect
    PROVE  Total'
<1>0. Owner \in Agents
  BY AgentFacts
<1>1. PICK l : Alone(Owner, l)
  BY DEF OwnerEffect, QuitEffect, AcquireEffect, StopEffect, SignalWorkersEffect, JoinEffect
<1>2. UNCHANGED <<jobs, ids>> /\ FreeJobs' = FreeJobs
  <2>1. FreeJobs' = FreeJobs
    BY FreeListOwner DEF ListSame
  <2> QED BY <2>1 DEF OwnerEffect, QuitEffect, AcquireEffect, StopEffect, StoreEffect,
                      SignalWorkersEffect, JoinEffect
<1>3. /\ \A r \in unread : r \in unread' /\ ring'.cells[r] = ring.cells[r]
      /\ \A r \in unread' : \/ r \in unread /\ ring'.cells[r] = ring.cells[r]
                            \/ ring'.cells[r] = Null
  <2>1. CASE AcquireEffect(Owner)
    BY <2>1 DEF AcquireEffect, Clean
  <2>2. CASE StopEffect
    <3>1. loc[Owner].place \notin unread
      BY <1>0, <2>2, WriteApart DEF StopEffect, StoreEffect
    <3> QED BY <2>2, <3>1 DEF StopEffect, StoreEffect, PoolTypes
  <2>3. CASE QuitEffect \/ SignalWorkersEffect \/ JoinEffect
    BY <2>3 DEF QuitEffect, SignalWorkersEffect, JoinEffect
  <2> QED BY <2>1, <2>2, <2>3 DEF OwnerEffect
<1> QED BY <1>0, <1>1, <1>2, <1>3, TotalSame
-----------------------------------------------------------------------------
(* joinable counts the joinable jobs. *)

(* One more or one less of them *)
LEMMA JoiningCount ==
    ASSUME NEW p \in Agents, NEW l, Alone(p, l)
    PROVE  /\ Cardinality(Joining) \in Nat /\ Cardinality(Joining') \in Nat
           /\ (p \in Joining <=> p \in Joining') => Cardinality(Joining') = Cardinality(Joining)
           /\ p \notin Joining /\ p \in Joining' => Cardinality(Joining') = Cardinality(Joining) + 1
           /\ p \in Joining /\ p \notin Joining' => Cardinality(Joining') = Cardinality(Joining) - 1
<1>1. /\ Joining \in SUBSET Agents /\ Joining' \in SUBSET Agents
      /\ \A x \in Agents : x # p => (x \in Joining <=> x \in Joining')
  BY DEF Joining, Alone
<1>2. IsFiniteSet(Agents)
  BY FiniteAgents
<1> QED BY <1>1, <1>2, CountOne

(* ... and of those who are giving a joinable job's structure back *)
LEMMA LeavingCount ==
    ASSUME NEW p \in Callers, \A x \in Callers : x # p => (x \in Leaving <=> x \in Leaving')
    PROVE  /\ Cardinality(Leaving) \in Nat /\ Cardinality(Leaving') \in Nat
           /\ (p \in Leaving <=> p \in Leaving') => Cardinality(Leaving') = Cardinality(Leaving)
           /\ p \notin Leaving /\ p \in Leaving' => Cardinality(Leaving') = Cardinality(Leaving) + 1
           /\ p \in Leaving /\ p \notin Leaving' => Cardinality(Leaving') = Cardinality(Leaving) - 1
<1>1. Leaving \in SUBSET Callers /\ Leaving' \in SUBSET Callers
  BY DEF Leaving
<1>2. IsFiniteSet(Callers)
  BY FiniteAgents
<1> QED BY <1>1, <1>2, CountOne

(* ... and of ids that name a job *)
LEMMA ValidCount ==
    ASSUME NEW k \in Instances, \A x \in Instances : x # k => (x \in Valid <=> x \in Valid')
    PROVE  /\ Cardinality(Valid) \in Nat /\ Cardinality(Valid') \in Nat
           /\ (k \in Valid <=> k \in Valid') => Cardinality(Valid') = Cardinality(Valid)
           /\ k \notin Valid /\ k \in Valid' => Cardinality(Valid') = Cardinality(Valid) + 1
           /\ k \in Valid /\ k \notin Valid' => Cardinality(Valid') = Cardinality(Valid) - 1
<1>1. Valid \in SUBSET Instances /\ Valid' \in SUBSET Instances
  BY DEF Valid
<1>2. IsFiniteSet(Instances)
  BY FiniteAgents
<1> QED BY <1>1, <1>2, CountOne

(* The three parts of joinable are numbers. *)
LEMMA CountTypes ==
    /\ Cardinality(Joining) \in Nat /\ Cardinality(Valid) \in Nat /\ Cardinality(Leaving) \in Nat
    /\ Cardinality(Joining') \in Nat /\ Cardinality(Valid') \in Nat /\ Cardinality(Leaving') \in Nat
<1>1. /\ Joining \in SUBSET Agents /\ Valid \in SUBSET Instances /\ Leaving \in SUBSET Callers
      /\ Joining' \in SUBSET Agents /\ Valid' \in SUBSET Instances /\ Leaving' \in SUBSET Callers
  BY DEF Joining, Valid, Leaving
<1> QED BY <1>1, FiniteAgents, FS_Subset, FS_CardinalityType

(* An id is valid while it reaches a structure. *)
LEMMA ValidIff ==
    ASSUME PoolTypes
    PROVE  \A k \in Instances : k \in Valid <=> ids[k] # NoId /\ Reaches(k, ids[k].idx)
<1>1. \A k \in Instances : ids[k] # NoId => ids[k].idx # Null
  BY AgentFacts DEF PoolTypes
<1> QED BY <1>1 DEF Valid, get_job_data, Reaches

(* The same after a step *)
LEMMA ValidNext ==
    ASSUME PoolTypes'
    PROVE  \A k \in Instances : k \in Valid' <=> ids'[k] # NoId /\ jobs'[ids'[k].idx].gen = ids'[k].gen
<1>1. \A k \in Instances : ids'[k] # NoId => ids'[k].idx # Null
  BY AgentFacts DEF PoolTypes
<1> QED BY <1>1 DEF Valid, get_job_data

(* No step but free_job changes what a structure's ids are worth. *)
LEMMA ValidSame ==
    ASSUME PoolTypes, ids' = ids, \A i \in Places : jobs'[i].gen = jobs[i].gen
    PROVE  Valid' = Valid
<1>1. \A k \in Instances : ids[k] # NoId => ids[k].idx \in Places
  BY DEF PoolTypes
<1> QED BY <1>1 DEF Valid, get_job_data

(* A step that concerns no joinable job *)
LEMMA CountedQuiet ==
    ASSUME Counted, NEW p \in Agents, NEW l, Alone(p, l), joinable' = joinable, ids' = ids,
           Valid' = Valid, p \in Joining <=> p \in Joining',
           p \in Callers => (p \in Leaving <=> p \in Leaving')
    PROVE  Counted'
<1>1. Cardinality(Joining') = Cardinality(Joining)
  BY JoiningCount
<1>2. \A x \in Callers : x # p => (x \in Leaving <=> x \in Leaving')
  BY AgentFacts DEF Leaving, Alone
<1>3. Leaving' = Leaving
  <2>1. Leaving \subseteq Callers /\ Leaving' \subseteq Callers
    BY DEF Leaving
  <2> QED BY <1>2, <2>1
<1> QED BY <1>1, <1>3 DEF Counted

(* A step of a caller keeps joinable true. *)
LEMMA CountedCaller ==
    ASSUME PoolTypes, PoolTypes', HaveJobs, Numbered, Ids, Counted, NEW c \in Callers, CallerEffect(c)
    PROVE  Counted'
<1>0. c \in Agents /\ joinable \in Int
  BY AgentFacts DEF PoolTypes
<1>1. ASSUME ids' = ids, jobs' = jobs PROVE Valid' = Valid
  BY <1>1, ValidSame
<1>2. ASSUME NEW join \in BOOLEAN, CreateEffect(c, join) PROVE Counted'
  <2>1. /\ Alone(c, "take") /\ at[c] = "idle" /\ ids' = ids /\ joinable' = joinable /\ Valid' = Valid
    BY <1>1, <1>2 DEF CreateEffect
  <2>2. (c \in Joining <=> c \in Joining') /\ (c \in Leaving <=> c \in Leaving')
    BY <2>1 DEF Joining, Leaving, Alone
  <2> QED BY <1>0, <2>1, <2>2, CountedQuiet
<1>3. ASSUME TakeEffect(c) \/ RetryEffect(c) PROVE Counted'
  <2>1. /\ Alone(c, "exchange") /\ at[c] \in {"take", "exchange"} /\ ids' = ids
        /\ joinable' = joinable /\ Valid' = Valid
    BY <1>1, <1>3 DEF TakeEffect, RetryEffect
  <2>2. (c \in Joining <=> c \in Joining') /\ (c \in Leaving <=> c \in Leaving')
    BY <2>1 DEF Joining, Leaving, Alone
  <2> QED BY <1>0, <2>1, <2>2, CountedQuiet
<1>4. ASSUME PopEffect(c) PROVE Counted'
  <2>1. /\ Alone(c, "init") /\ at[c] = "exchange" /\ ids' = ids
        /\ joinable' = joinable /\ Valid' = Valid
    BY <1>1, <1>4 DEF PopEffect
  <2>2. (c \in Joining <=> c \in Joining') /\ (c \in Leaving <=> c \in Leaving')
    BY <2>1 DEF Joining, Leaving, Alone
  <2> QED BY <1>0, <2>1, <2>2, CountedQuiet
<1>5. ASSUME InitEffect(c) PROVE Counted'
  <2>1. /\ Alone(c, "acquire") /\ at[c] = "init" /\ ids' = ids /\ loc'[c] = loc[c]
        /\ joinable' = IF loc[c].join THEN joinable + 1 ELSE joinable
    BY <1>5 DEF InitEffect
  <2>2. Valid' = Valid
    <3>1. \A i \in Places : jobs'[i].gen = jobs[i].gen
      BY <1>5 DEF InitEffect, OnlyJob
    <3> QED BY <2>1, <3>1, ValidSame
  <2>3. /\ c \notin Joining /\ (c \in Joining' <=> loc[c].join)
        /\ c \in Leaving <=> c \in Leaving'
    BY <1>0, <2>1 DEF Joining, Leaving, Alone
  <2>4. CASE ~ loc[c].join
    BY <1>0, <2>1, <2>2, <2>3, <2>4, CountedQuiet
  <2>5. CASE loc[c].join
    <3>1. \A x \in Callers : x \in Leaving <=> x \in Leaving'
      BY <2>1, <2>3, AgentFacts DEF Leaving, Alone
    <3>2. Leaving' = Leaving
      <4>1. Leaving \subseteq Callers /\ Leaving' \subseteq Callers
        BY DEF Leaving
      <4> QED BY <3>1, <4>1
    <3>3. Cardinality(Joining') = Cardinality(Joining) + 1
      BY <1>0, <2>1, <2>3, <2>5, JoiningCount
    <3> QED BY <1>0, <2>1, <2>2, <2>5, <3>2, <3>3, CountTypes DEF Counted
  <2> QED BY <2>4, <2>5
<1>6. ASSUME FailEffect(c) PROVE Counted'
  <2>1. Alone(c, "link") /\ at[c] = "init" /\ ids' = ids /\ joinable' = joinable
    BY <1>6 DEF FailEffect
  <2>2. Valid' = Valid
    <3>1. \A i \in Places : jobs'[i].gen = jobs[i].gen
      BY <1>6 DEF FailEffect, OnlyJob
    <3> QED BY <2>1, <3>1, ValidSame
  <2>3. (c \in Joining <=> c \in Joining') /\ (c \in Leaving <=> c \in Leaving')
    BY <2>1 DEF Joining, Leaving, Alone
  <2> QED BY <1>0, <2>1, <2>2, <2>3, CountedQuiet
<1>7. ASSUME AcquireEffect(c) PROVE Counted'
  <2>1. /\ Alone(c, "write") /\ at[c] = "acquire" /\ ids' = ids
        /\ joinable' = joinable /\ Valid' = Valid /\ loc'[c].join = loc[c].join
    BY <1>1, <1>7 DEF AcquireEffect, SameCreation
  <2>2. (c \in Joining <=> c \in Joining') /\ (c \in Leaving <=> c \in Leaving')
    BY <1>0, <2>1 DEF Joining, Leaving, Alone
  <2> QED BY <1>0, <2>1, <2>2, CountedQuiet
<1>8. ASSUME WriteEffect(c) PROVE Counted'
  <2>1. /\ Alone(c, "signal") /\ at[c] = "write" /\ ids' = ids
        /\ joinable' = joinable /\ Valid' = Valid /\ loc'[c].join = loc[c].join
    BY <1>1, <1>8 DEF WriteEffect, StoreEffect, SameCreation
  <2>2. (c \in Joining <=> c \in Joining') /\ (c \in Leaving <=> c \in Leaving')
    BY <1>0, <2>1 DEF Joining, Leaving, Alone
  <2> QED BY <1>0, <2>1, <2>2, CountedQuiet
<1>9. ASSUME SignalEffect(c) PROVE Counted'
  <2>1. /\ Alone(c, "idle") /\ at[c] = "signal" /\ joinable' = joinable /\ jobs' = jobs
    BY <1>9 DEF SignalEffect
  <2>2. PICK k \in Instances : k = loc[c].inst /\ ids[k] = NoId
    <3>1. loc[c].inst \in Instances /\ Creating(c)
      BY <2>1, InstTypes DEF Creating
    <3> QED BY <3>1 DEF Numbered
  <2>3. /\ c \in Joining <=> loc[c].join
        /\ c \notin Joining' /\ c \notin Leaving /\ c \notin Leaving'
    BY <1>0, <2>1 DEF Joining, Leaving, Alone
  <2>4. CASE ~ loc[c].join
    <3>1. ids' = ids
      BY <1>9, <2>4 DEF SignalEffect
    <3> QED BY <1>0, <1>1, <2>1, <2>3, <2>4, <3>1, CountedQuiet
  <2>5. CASE loc[c].join
    <3>1. Cardinality(Joining') = Cardinality(Joining) - 1
      BY <1>0, <2>1, <2>3, <2>5, JoiningCount
    <3>2. PICK j \in Places : j = loc[c].job
      BY <2>1 DEF HaveJobs
    <3>3. /\ \A m \in Instances : m # k => ids'[m] = ids[m]
          /\ ids'[k] # NoId /\ ids'[k].gen = jobs[j].gen /\ ids'[k].idx = j
      BY <1>9, <2>2, <2>5, <3>2 DEF SignalEffect
    <3>4. k \notin Valid /\ k \in Valid' /\ \A m \in Instances : m # k => (m \in Valid <=> m \in Valid')
      <4>1. k \notin Valid
        BY <2>2, ValidIff
      <4>2. k \in Valid'
        BY <2>1, <3>3, ValidNext
      <4>3. \A m \in Instances : m # k => (m \in Valid <=> m \in Valid')
        BY <2>1, <3>3, ValidNext, ValidIff DEF Reaches
      <4> QED BY <4>1, <4>2, <4>3
    <3>5. Cardinality(Valid') = Cardinality(Valid) + 1
      BY <3>4, ValidCount
    <3>6. ASSUME NEW x \in Callers, x # c PROVE x \in Leaving <=> x \in Leaving'
      <4>1. at'[x] = at[x] /\ loc'[x] = loc[x]
        BY <2>1, <3>6, AgentFacts DEF Alone
      <4>2. CASE at[x] \notin {"push", "complete", "uncount"}
        BY <4>1, <4>2 DEF Leaving
      <4>3. CASE at[x] \in {"push", "complete", "uncount"}
        <5>1. loc[x].inst \in Instances
          BY <4>3, InstTypes
        <5>2. loc[x].inst # k
          <6>1. SUFFICES ASSUME loc[x].inst = k PROVE FALSE
            OBVIOUS
          <6>2. at[x] # "uncount"
            BY <2>2, <4>3, <6>1 DEF Numbered
          <6>3. Creating(x) /\ Creating(c)
            BY <2>1, <2>2, <4>3, <6>1, <6>2 DEF Creating
          <6> QED BY <2>2, <3>6, <6>1, <6>3 DEF Numbered
        <5> QED BY <3>3, <4>1, <5>1, <5>2 DEF Leaving
      <4> QED BY <4>2, <4>3
    <3>7. Cardinality(Leaving') = Cardinality(Leaving)
      BY <2>3, <3>6, LeavingCount
    <3> QED BY <1>0, <2>1, <3>1, <3>5, <3>7, CountTypes DEF Counted
  <2> QED BY <2>4, <2>5
<1>10. ASSUME NEW k \in Instances, WaitEffect(c, k) PROVE Counted'
  <2>1. /\ Alone(c, "await") /\ at[c] = "idle" /\ ids' = ids /\ joinable' = joinable /\ Valid' = Valid
    BY <1>1, <1>10 DEF WaitEffect
  <2>2. (c \in Joining <=> c \in Joining') /\ (c \in Leaving <=> c \in Leaving')
    BY <2>1 DEF Joining, Leaving, Alone
  <2> QED BY <1>0, <2>1, <2>2, CountedQuiet
<1>11. ASSUME AwaitEffect(c) PROVE Counted'
  <2>1. Alone(c, "free") /\ at[c] = "await" /\ ids' = ids /\ joinable' = joinable
    BY <1>11 DEF AwaitEffect
  <2>2. Valid' = Valid
    <3>1. \A i \in Places : jobs'[i].gen = jobs[i].gen
      BY <1>11 DEF AwaitEffect, OnlyJob
    <3> QED BY <2>1, <3>1, ValidSame
  <2>3. (c \in Joining <=> c \in Joining') /\ (c \in Leaving <=> c \in Leaving')
    BY <2>1 DEF Joining, Leaving, Alone
  <2> QED BY <1>0, <2>1, <2>2, <2>3, CountedQuiet
<1>12. ASSUME FreeEffect(c) PROVE Counted'
  <2>1. /\ Alone(c, "push") /\ at[c] = "free" /\ ids' = ids /\ joinable' = joinable
        /\ loc'[c].inst = loc[c].inst
    BY <1>12 DEF FreeEffect, LinkEffect, SameCreation
  <2>2. PICK j \in Places : j = loc[c].job
    BY <1>0, <2>1 DEF HaveJobs, Holds, Holding
  <2>3. PICK k \in Instances : k = loc[c].inst /\ Reaches(k, j)
    BY <2>1, <2>2, InstTypes DEF Ids, Awaits
  <2>4. jobs[j].inst = k
    BY <2>3 DEF Ids, Names, Named, NamedJob
  <2>5. /\ jobs'[j].gen = jobs[j].gen + 1 /\ jobs[j].gen \in Nat
        /\ \A i \in Places : i # j => jobs'[i] = jobs[i]
    BY <1>12, <2>2 DEF FreeEffect, LinkEffect, OnlyJob, PoolTypes, JobRecord
  <2>6. k \in Valid /\ k \notin Valid'
    <3>1. ids[k] # NoId /\ ids[k].idx = j /\ ids[k].gen = jobs[j].gen
      BY <2>3 DEF Reaches
    <3>2. jobs'[j].gen # jobs[j].gen
      BY <2>5
    <3> QED BY <2>1, <2>3, <3>1, <3>2, ValidIff, ValidNext
  <2>7. ASSUME NEW m \in Instances, m # k PROVE m \in Valid <=> m \in Valid'
    <3>1. CASE ids[m] = NoId
      BY <2>1, <3>1, ValidIff, ValidNext
    <3>2. CASE ids[m] # NoId /\ ids[m].idx # j
      <4>1. ids[m].idx \in Places
        BY <3>2 DEF PoolTypes
      <4> QED BY <2>1, <2>5, <3>2, <4>1, ValidIff, ValidNext DEF Reaches
    <3>3. CASE ids[m] # NoId /\ ids[m].idx = j
      <4>1. ids[m].gen # jobs[j].gen
        <5>1. SUFFICES ASSUME Reaches(m, j) PROVE FALSE
          BY <3>3 DEF Reaches
        <5>2. jobs[j].inst = m
          BY <5>1 DEF Ids, Names, Named, NamedJob
        <5> QED BY <2>4, <2>7, <5>2
      <4>2. ids[m].gen <= jobs[j].gen /\ ids[m].gen \in Nat
        BY <3>3 DEF Ids, Gens, PoolTypes
      <4>3. ids[m].gen # jobs'[j].gen
        BY <2>5, <4>2
      <4> QED BY <2>1, <3>3, <4>1, <4>3, ValidIff, ValidNext DEF Reaches
    <3> QED BY <3>1, <3>2, <3>3
  <2>8. Cardinality(Valid') = Cardinality(Valid) - 1
    BY <2>6, <2>7, ValidCount
  <2>9. c \notin Joining /\ c \notin Joining'
    BY <2>1 DEF Joining, Alone
  <2>10. Cardinality(Joining') = Cardinality(Joining)
    BY <1>0, <2>1, <2>9, JoiningCount
  <2>11. c \notin Leaving /\ c \in Leaving' /\ \A x \in Callers : x # c => (x \in Leaving <=> x \in Leaving')
    <3>1. c \notin Leaving
      BY <2>1 DEF Leaving
    <3>2. c \in Leaving'
      BY <2>1, <2>3 DEF Leaving, Alone, Reaches
    <3>3. \A x \in Callers : x # c => (x \in Leaving <=> x \in Leaving')
      BY <2>1, AgentFacts DEF Leaving, Alone
    <3> QED BY <3>1, <3>2, <3>3
  <2>12. Cardinality(Leaving') = Cardinality(Leaving) + 1
    BY <2>11, LeavingCount
  <2> QED BY <1>0, <2>1, <2>8, <2>10, <2>12, CountTypes DEF Counted
<1>13. ASSUME ReturnEffect(c) \/ RelinkEffect(c) PROVE Counted'
  <2>1. /\ Alone(c, "push") /\ at[c] \in {"link", "push"} /\ ids' = ids /\ joinable' = joinable
        /\ loc'[c].inst = loc[c].inst /\ LinkEffect(c)
        /\ jobs'[loc[c].job].gen = jobs[loc[c].job].gen
    BY <1>13 DEF ReturnEffect, RelinkEffect, LinkEffect, SameCreation
  <2>2. Valid' = Valid
    <3>1. \A i \in Places : jobs'[i].gen = jobs[i].gen
      BY <2>1 DEF LinkEffect, OnlyJob
    <3> QED BY <2>1, <3>1, ValidSame
  <2>3. at[c] = "link" => ids[loc[c].inst] = NoId
    BY DEF Numbered, Creating
  <2>4. (c \in Joining <=> c \in Joining') /\ (c \in Leaving <=> c \in Leaving')
    BY <2>1, <2>3 DEF Joining, Leaving, Alone
  <2> QED BY <1>0, <2>1, <2>2, <2>4, CountedQuiet
<1>14. ASSUME PushEffect(c) PROVE Counted'
  <2>1. /\ Alone(c, "complete") /\ at[c] = "push" /\ ids' = ids /\ joinable' = joinable
        /\ loc'[c] = loc[c] /\ Valid' = Valid
    BY <1>1, <1>14 DEF PushEffect
  <2>2. (c \in Joining <=> c \in Joining') /\ (c \in Leaving <=> c \in Leaving')
    BY <2>1 DEF Joining, Leaving, Alone
  <2> QED BY <1>0, <2>1, <2>2, CountedQuiet
<1>15. ASSUME CompleteEffect(c) PROVE Counted'
  <2>1. at[c] = "complete" /\ ids' = ids /\ joinable' = joinable /\ Valid' = Valid /\ c \notin Workers
    BY <1>1, <1>15, AgentFacts DEF CompleteEffect
  <2>2. CASE ids[loc[c].inst] # NoId
    <3>1. Alone(c, "uncount") /\ loc'[c] = loc[c]
      BY <1>15, <2>1, <2>2 DEF CompleteEffect
    <3>2. (c \in Joining <=> c \in Joining') /\ (c \in Leaving <=> c \in Leaving')
      BY <2>1, <3>1 DEF Joining, Leaving, Alone
    <3> QED BY <1>0, <2>1, <3>1, <3>2, CountedQuiet
  <2>3. CASE ids[loc[c].inst] = NoId
    <3>1. Alone(c, "idle")
      BY <1>15, <2>1, <2>3 DEF CompleteEffect
    <3>2. (c \in Joining <=> c \in Joining') /\ (c \in Leaving <=> c \in Leaving')
      BY <2>1, <2>3, <3>1 DEF Joining, Leaving, Alone
    <3> QED BY <1>0, <2>1, <3>1, <3>2, CountedQuiet
  <2> QED BY <2>2, <2>3
<1>16. ASSUME UncountEffect(c) PROVE Counted'
  <2>1. /\ Alone(c, "idle") /\ at[c] = "uncount" /\ ids' = ids /\ joinable' = joinable - 1
        /\ Valid' = Valid
    BY <1>1, <1>16 DEF UncountEffect
  <2>2. c \notin Joining /\ c \notin Joining'
    BY <2>1 DEF Joining, Alone
  <2>3. Cardinality(Joining') = Cardinality(Joining)
    BY <1>0, <2>1, <2>2, JoiningCount
  <2>4. c \in Leaving /\ c \notin Leaving' /\ \A x \in Callers : x # c => (x \in Leaving <=> x \in Leaving')
    BY <2>1, AgentFacts DEF Leaving, Alone, Numbered
  <2>5. Cardinality(Leaving') = Cardinality(Leaving) - 1
    BY <2>4, LeavingCount
  <2> QED BY <1>0, <2>1, <2>3, <2>5, CountTypes DEF Counted
<1> QED BY <1>2, <1>3, <1>4, <1>5, <1>6, <1>7, <1>8, <1>9, <1>10, <1>11, <1>12, <1>13, <1>14, <1>15,
           <1>16, Zenon DEF CallerEffect

(* A step of a worker keeps joinable true. *)
LEMMA CountedWorker ==
    ASSUME PoolTypes, PoolTypes', HaveJobs, Numbered, Ids, Counted, NEW w \in Workers, WorkerEffect(w)
    PROVE  Counted'
<1>0. w \in Agents /\ w \notin Callers
  BY AgentFacts
<1>1. PICK l : Alone(w, l) /\ l \notin {"acquire", "write", "signal"}
  BY DEF WorkerEffect, PendingEffect, ReadAgainEffect, ClaimEffect, RunEffect, FreeEffect,
         RelinkEffect, LinkEffect, PushEffect, CompleteEffect
<1>2. ids' = ids /\ joinable' = joinable
  BY DEF WorkerEffect, PendingEffect, ReadAgainEffect, ClaimEffect, RunEffect, FreeEffect,
         RelinkEffect, LinkEffect, PushEffect, CompleteEffect
<1>3. w \in Joining <=> w \in Joining'
  BY <1>1 DEF Joining, Alone, PoolTypes, Controls, WorkerPC
<1>4. Valid' = Valid
  <2>1. CASE ~ FreeEffect(w)
    <3>1. \A i \in Places : jobs'[i].gen = jobs[i].gen
      BY <2>1 DEF WorkerEffect, PendingEffect, ReadAgainEffect, ClaimEffect, RunEffect,
                  RelinkEffect, LinkEffect, PushEffect, CompleteEffect, OnlyJob
    <3> QED BY <1>2, <3>1, ValidSame
  <2>2. CASE FreeEffect(w)
    <3>1. at[w] = "free" /\ Holds(w)
      BY <2>2 DEF FreeEffect, Holds, Holding
    <3>2. PICK j \in Places : j = loc[w].job
      BY <1>0, <3>1 DEF HaveJobs
    <3>3. /\ jobs'[j].gen = jobs[j].gen + 1 /\ jobs[j].gen \in Nat
          /\ \A i \in Places : i # j => jobs'[i] = jobs[i]
      BY <2>2, <3>2 DEF FreeEffect, LinkEffect, OnlyJob, PoolTypes, JobRecord
    <3>4. \A k \in Instances : ~ Named(k, j)
      BY <1>0, <3>1, <3>2, Unnamed DEF Ids, Waiter
    <3>5. ASSUME NEW m \in Instances PROVE m \in Valid <=> m \in Valid'
      <4>1. CASE ids[m] = NoId
        BY <1>2, <4>1, ValidIff, ValidNext
      <4>2. CASE ids[m] # NoId /\ ids[m].idx # j
        <5>1. ids[m].idx \in Places
          BY <4>2 DEF PoolTypes
        <5> QED BY <1>2, <3>3, <4>2, <5>1, ValidIff, ValidNext DEF Reaches
      <4>3. CASE ids[m] # NoId /\ ids[m].idx = j
        <5>1. ids[m].gen # jobs[j].gen
          BY <3>4, <4>3 DEF Reaches, Named
        <5>2. ids[m].gen <= jobs[j].gen /\ ids[m].gen \in Nat
          BY <4>3 DEF Ids, Gens, PoolTypes
        <5>3. ids[m].gen # jobs'[j].gen
          BY <3>3, <5>2
        <5> QED BY <1>2, <4>3, <5>1, <5>3, ValidIff, ValidNext DEF Reaches
      <4> QED BY <4>1, <4>2, <4>3
    <3>6. Valid \subseteq Instances /\ Valid' \subseteq Instances
      BY DEF Valid
    <3> QED BY <3>5, <3>6
  <2> QED BY <2>1, <2>2
<1> QED BY <1>0, <1>1, <1>2, <1>3, <1>4, CountedQuiet

(* A step of the owner keeps joinable true. *)
LEMMA CountedOwner ==
    ASSUME PoolTypes, OwnerAlone, Counted, OwnerEffect
    PROVE  Counted'
<1>0. Owner \in Agents /\ Owner \notin Callers
  BY AgentFacts
<1>1. PICK l : Alone(Owner, l)
  BY DEF OwnerEffect, QuitEffect, AcquireEffect, StopEffect, SignalWorkersEffect, JoinEffect
<1>2. ids' = ids /\ joinable' = joinable /\ jobs' = jobs /\ loc'[Owner].join = FALSE
  BY DEF OwnerEffect, QuitEffect, AcquireEffect, StopEffect, StoreEffect, SignalWorkersEffect,
         JoinEffect, SameCreation, OwnerAlone
<1>3. Owner \notin Joining /\ Owner \notin Joining'
  BY <1>2 DEF Joining, OwnerAlone
<1>4. Valid' = Valid
  BY <1>2, ValidSame
<1> QED BY <1>0, <1>1, <1>2, <1>3, <1>4, CountedQuiet
-----------------------------------------------------------------------------
(* job_system_free has the pool to itself. *)

(* No caller is in the pool once it is being freed. *)
LEMMA CallerOpen ==
    ASSUME OwnerAlone, NEW c \in Callers, CallerEffect(c)
    PROVE  at[Owner] = "idle"
<1>1. at[c] # "idle" \/ at[Owner] = "idle"
  BY DEF CallerEffect, CreateEffect, TakeEffect, RetryEffect, PopEffect, InitEffect, FailEffect,
         AcquireEffect, WriteEffect, StoreEffect, SignalEffect, WaitEffect, AwaitEffect, FreeEffect,
         ReturnEffect, RelinkEffect, PushEffect, CompleteEffect, UncountEffect
<1> QED BY <1>1 DEF OwnerAlone

(* A step moves one thread. *)
LEMMA CallerMoves ==
    ASSUME NEW c \in Callers, CallerEffect(c)
    PROVE  \E l : Alone(c, l)
  BY DEF CallerEffect, CreateEffect, TakeEffect, RetryEffect, PopEffect, InitEffect, FailEffect,
         AcquireEffect, WriteEffect, SignalEffect, WaitEffect, AwaitEffect, FreeEffect, LinkEffect,
         ReturnEffect, RelinkEffect, PushEffect, CompleteEffect, UncountEffect

(* The same for a worker *)
LEMMA WorkerMoves ==
    ASSUME NEW w \in Workers, WorkerEffect(w)
    PROVE  \E l : Alone(w, l)
  BY DEF WorkerEffect, PendingEffect, ReadAgainEffect, ClaimEffect, RunEffect, FreeEffect,
         RelinkEffect, LinkEffect, PushEffect, CompleteEffect

(* No step lets a caller in while the pool is being freed. *)
LEMMA AloneStep ==
    ASSUME PoolTypes, OwnerAlone, Turns, PoolEffect
    PROVE  OwnerAlone' /\ Turns'
<1>0. Owner \in Agents /\ W \in Nat /\ loc[Owner].turn \in Nat /\ W # 0
  <2>1. Cardinality(Workers) \in Nat /\ Cardinality(Workers) # 0
    BY PoolAssumption, FS_CardinalityType, FS_EmptySet
  <2>2. Owner \in Agents /\ loc[Owner].turn \in Nat
    BY AgentFacts DEF PoolTypes, Locals
  <2> QED BY <2>1, <2>2 DEF W
<1>1. ASSUME NEW c \in Callers, CallerEffect(c) PROVE OwnerAlone' /\ Turns'
  <2>1. at[Owner] = "idle"
    BY <1>1, CallerOpen
  <2>2. at'[Owner] = at[Owner] /\ loc'[Owner] = loc[Owner]
    BY <1>1, CallerMoves, AgentFacts DEF Alone
  <2> QED BY <2>1, <2>2 DEF OwnerAlone, Turns
<1>2. ASSUME NEW w \in Workers, WorkerEffect(w) PROVE OwnerAlone' /\ Turns'
  <2>1. \A q \in Agents : q # w => at'[q] = at[q] /\ loc'[q] = loc[q]
    BY <1>2, WorkerMoves DEF Alone
  <2> QED BY <2>1, AgentFacts DEF OwnerAlone, Turns
<1>3. ASSUME OwnerEffect PROVE OwnerAlone'
  <2>1. \A c \in Callers : at'[c] = at[c]
    BY <1>3, AgentFacts DEF OwnerEffect, QuitEffect, AcquireEffect, StopEffect,
                            SignalWorkersEffect, JoinEffect, Alone
  <2>2. loc'[Owner].join = loc[Owner].join
    BY <1>3 DEF OwnerEffect, QuitEffect, AcquireEffect, StopEffect, SignalWorkersEffect,
                JoinEffect, SameCreation
  <2>3. \A c \in Callers : at[c] = "idle"
    BY <1>3 DEF OwnerEffect, QuitEffect, AcquireEffect, StopEffect, StoreEffect,
                SignalWorkersEffect, JoinEffect, OwnerAlone
  <2> QED BY <2>1, <2>2, <2>3 DEF OwnerAlone
<1>4. ASSUME OwnerEffect PROVE Turns'
  <2>1. CASE QuitEffect
    BY <1>0, <2>1 DEF QuitEffect, Turns, Alone
  <2>2. CASE AcquireEffect(Owner)
    BY <1>0, <2>2 DEF AcquireEffect, Turns, Alone
  <2>3. CASE StopEffect
    BY <1>0, <2>3 DEF StopEffect, Turns, Alone, W
  <2>4. CASE SignalWorkersEffect
    BY <1>0, <2>4 DEF SignalWorkersEffect, Turns, Alone, W
  <2>5. CASE JoinEffect
    BY <1>0, <2>5 DEF JoinEffect, Turns, Alone
  <2> QED BY <1>4, <2>1, <2>2, <2>3, <2>4, <2>5 DEF OwnerEffect
<1> QED BY <1>1, <1>2, <1>3, <1>4 DEF PoolEffect
-----------------------------------------------------------------------------
(* The ring *)

(* Offsets are a renumbering of the places. *)
LEMMA OffsetFacts ==
    ASSUME NEW h \in Places, NEW r \in Places
    PROVE  /\ Offset(h, r) \in 0 .. Slots - 1
           /\ Offset(h, h) = 0
           /\ \A s \in Places : Offset(h, r) = Offset(h, s) => r = s
<1>1. h \in Nat /\ r \in Nat /\ h < Slots /\ r < Slots /\ Slots \in Nat
      /\ \A s \in Places : s \in Nat /\ s < Slots
  BY PoolAssumption DEF Places
<1> QED BY <1>1 DEF Offset

(* The place n from the head is n from the head, and the next one n + 1. *)
LEMMA OffsetTemp ==
    ASSUME NEW h \in Places, NEW n \in 0 .. Slots, n < Slots
    PROVE  /\ Offset(h, Ahead(h, n)) = n /\ Ahead(h, n) \in Places
           /\ After(Ahead(h, n)) = Ahead(h, n + 1)
           /\ n + 1 \in 0 .. Slots
<1>1. h \in Nat /\ h < Slots /\ Slots \in Nat /\ n \in Nat
  BY PoolAssumption DEF Places
<1> QED BY <1>1 DEF Offset, Ahead, After, Places

(* When the head moves on, every other place comes one nearer to it. *)
LEMMA OffsetNext ==
    ASSUME NEW h \in Places
    PROVE  /\ After(h) \in Places
           /\ \A r \in Places : r # h => Offset(After(h), r) = Offset(h, r) - 1
           /\ Offset(After(h), h) = Slots - 1
           /\ \A n \in 1 .. Slots : Ahead(h, n) = Ahead(After(h), n - 1)
<1>1. h \in Nat /\ h < Slots /\ Slots \in Nat
      /\ \A r \in Places : r \in Nat /\ r < Slots
  BY PoolAssumption DEF Places
<1>2. After(h) \in Places
  BY <1>1 DEF After, Places
<1>3. CASE h + 1 < Slots
  BY <1>1, <1>2, <1>3 DEF Offset, Ahead, After
<1>4. CASE ~(h + 1 < Slots)
  BY <1>1, <1>2, <1>4 DEF Offset, Ahead, After
<1> QED BY <1>2, <1>3, <1>4

(* A step that neither acquires, nor writes, nor pops *)
LEMMA WindowQuiet ==
    ASSUME Window, NEW p \in Agents, NEW l, Alone(p, l), at[p] # "write", l # "write",
           ring'.head = ring.head, ring'.temp = ring.temp, unread' = unread, mishap \subseteq mishap'
    PROVE  Window'
<1>1. PICK n \in 0 .. Slots : Windowed(n)
  BY DEF Window
<1>2. \A q \in Agents : (at'[q] = "write" <=> at[q] = "write")
                        /\ (at[q] = "write" => loc'[q] = loc[q])
  BY DEF Alone
<1>3. \A r \in Places : Pushed(r)' <=> Pushed(r)
  BY <1>2 DEF Pushed
<1>4. Owner \in Agents
  BY AgentFacts
<1>5. Windowed(n)'
  BY <1>1, <1>2, <1>3, <1>4 DEF Windowed
<1> QED BY <1>5 DEF Window

(* A structure that fills place r, or is about to *)
Fills(j, r) ==
    \/ r \in unread /\ ring.cells[r] = j
    \/ r \notin unread /\ \E q \in Callers : at[q] = "write" /\ loc[q].place = r /\ loc[q].job = j

(* A caller with a structure of its own finds room for it in the ring: the *)
(* places that are taken hold other structures, each its own.              *)
LEMMA RingHasRoom ==
    ASSUME PoolTypes, HaveJobs, Owned, StopsLast, at[Owner] = "idle",
           NEW c \in Callers, at[c] = "acquire"
    PROVE  \E r \in Places : ~ Pushed(r)
<1>0. c \in Agents /\ Holds(c)
  BY AgentFacts DEF Holds, Holding
<1>1. PICK m \in Places : m = loc[c].job
  BY <1>0 DEF HaveJobs
<1>2. SUFFICES ASSUME \A r \in Places : Pushed(r) PROVE FALSE
  OBVIOUS
<1> DEFINE T == Places \ {m}
           f == [r \in Places |-> CHOOSE j \in T : Fills(j, r)]
<1>3. ASSUME NEW r \in Places PROVE \E j \in T : Fills(j, r)
  <2>1. CASE r \in unread
    <3>1. ring.cells[r] \in Index /\ ring.cells[r] # Null /\ ring.cells[r] # m
      BY <1>0, <1>1, <2>1 DEF PoolTypes, StopsLast, Owned
    <3> QED BY <2>1, <3>1 DEF Index, Fills
  <2>2. CASE r \notin unread
    <3>1. PICK q \in Agents : at[q] = "write" /\ loc[q].place = r
      BY <1>2, <2>2 DEF Pushed
    <3>2. q \in Callers
      BY <3>1, AgentFacts DEF PoolTypes, Controls, WorkerPC
    <3>3. Holds(q) /\ q # c
      BY <3>1, <3>2 DEF Holds, Holding
    <3>4. loc[q].job \in Places /\ loc[q].job # m
      BY <1>0, <1>1, <3>3 DEF HaveJobs, Owned
    <3> QED BY <2>2, <3>1, <3>2, <3>4 DEF Fills
  <2> QED BY <2>1, <2>2
<1>4. \A r \in Places : f[r] \in T /\ Fills(f[r], r)
  BY <1>3
<1>5. f \in [Places -> T]
  BY <1>4
<1>6. IsFiniteSet(Places) /\ IsFiniteSet(T) /\ Cardinality(T) < Cardinality(Places)
  <2>1. IsFiniteSet(Places)
    BY FiniteAgents
  <2>2. IsFiniteSet(T) /\ Cardinality(T) = Cardinality(Places) - 1
    BY <2>1, FS_RemoveElement
  <2>3. Cardinality(Places) \in Nat
    BY <2>1, FS_CardinalityType
  <2> QED BY <2>1, <2>2, <2>3
<1> HIDE DEF T, f
<1>7. PICK x \in Places, y \in Places : x # y /\ f[x] = f[y]
  BY <1>5, <1>6, FS_PigeonHole
<1>8. PICK j \in Places : Fills(j, x) /\ Fills(j, y)
  BY <1>4, <1>7 DEF T
<1>9. \A q \in Callers : at[q] = "write" => Holds(q) /\ q \in Agents
  BY AgentFacts DEF Holds, Holding
<1>10. j # Null
  BY AgentFacts
<1>11. CASE x \in unread /\ y \in unread
  BY <1>7, <1>8, <1>10, <1>11 DEF Fills, Owned
<1>12. CASE x \notin unread /\ y \notin unread
  <2>1. PICK q \in Callers, d \in Callers :
            /\ at[q] = "write" /\ loc[q].place = x /\ loc[q].job = j
            /\ at[d] = "write" /\ loc[d].place = y /\ loc[d].job = j
    BY <1>8, <1>12 DEF Fills
  <2>2. q = d
    BY <1>9, <2>1 DEF Owned
  <2> QED BY <1>7, <2>1, <2>2
<1>13. ASSUME NEW u \in Places, NEW v \in Places, u \in unread, v \notin unread,
              Fills(j, u), Fills(j, v)
       PROVE  FALSE
  <2>1. PICK q \in Callers : at[q] = "write" /\ loc[q].job = j
    BY <1>13 DEF Fills
  <2>2. ring.cells[u] # j
    BY <1>9, <1>13, <2>1 DEF Owned
  <2> QED BY <1>13, <2>2 DEF Fills
<1> QED BY <1>8, <1>11, <1>12, <1>13

(* A place is acquired. *)
LEMMA WindowAcquire ==
    ASSUME PoolTypes, Window, NEW p \in Agents, AcquireEffect(p),
           ring.temp \notin unread, \E r \in Places : ~ Pushed(r),
           p # Owner => at[Owner] = "idle"
    PROVE  Window'
<1>1. PICK n \in 0 .. Slots : Windowed(n)
  BY DEF Window
<1>2. PICK h \in Places : h = ring.head
  BY DEF PoolTypes
<1>3. n < Slots /\ Slots \in Nat /\ n \in Nat
  <2>1. PICK r \in Places : ~ Pushed(r)
    OBVIOUS
  <2>2. ~(Offset(h, r) < n)
    BY <1>1, <1>2, <2>1 DEF Windowed
  <2>3. Offset(h, r) \in 0 .. Slots - 1
    BY OffsetFacts
  <2> HIDE DEF Offset
  <2> QED BY <2>2, <2>3, PoolAssumption
<1>4. PICK t \in Places : t = ring.temp
  BY DEF PoolTypes
<1>5. t = Ahead(h, n) /\ Offset(h, t) = n /\ After(t) = Ahead(h, n + 1) /\ n + 1 \in 0 .. Slots
  BY <1>1, <1>2, <1>3, <1>4, OffsetTemp DEF Windowed
<1>6. ~ Pushed(t)
  <2>1. Offset(h, t) < n <=> Pushed(t)
    BY <1>1, <1>2 DEF Windowed
  <2> QED BY <1>3, <1>5, <2>1
<1>7. /\ at'[p] = "write" /\ loc'[p].place = t /\ at[p] = "acquire"
      /\ \A q \in Agents : q # p => at'[q] = at[q] /\ loc'[q] = loc[q]
      /\ ring'.head = h /\ ring'.temp = After(t) /\ unread' = unread
  BY <1>2, <1>4 DEF AcquireEffect, Alone
<1>8. \A r \in Places : Pushed(r)' <=> Pushed(r) \/ r = t
  BY <1>7 DEF Pushed
<1>9. ring'.temp = Ahead(h, n + 1)
  BY <1>5, <1>7
<1>10. ASSUME NEW r \in Places PROVE Offset(h, r) < n + 1 <=> Pushed(r)'
  <2>1. Offset(h, r) < n <=> Pushed(r)
    BY <1>1, <1>2 DEF Windowed
  <2>2. Offset(h, r) = n <=> r = t
    BY <1>5, OffsetFacts
  <2>3. Offset(h, r) \in 0 .. Slots - 1
    BY OffsetFacts
  <2>4. Offset(h, r) < n + 1 <=> Offset(h, r) < n \/ Offset(h, r) = n
    <3> HIDE DEF Offset
    <3> QED BY <1>3, <2>3
  <2> QED BY <1>8, <2>1, <2>2, <2>4
<1>11. ASSUME NEW q \in Agents, at'[q] = "write"
       PROVE  /\ loc'[q].place \notin unread'
              /\ \A s \in Agents : at'[s] = "write" /\ loc'[s].place = loc'[q].place => q = s
  <2>1. \A s \in Agents : s # p /\ at'[s] = "write" =>
            at[s] = "write" /\ loc'[s].place = loc[s].place /\ loc[s].place # t
    BY <1>6, <1>7 DEF Pushed
  <2>2. \A s \in Agents : s # p /\ at'[s] = "write" => loc[s].place \notin unread
    BY <1>1, <2>1 DEF Windowed
  <2>3. t \notin unread
    BY <1>4
  <2>4. loc'[q].place \notin unread'
    BY <1>7, <1>11, <2>1, <2>2, <2>3
  <2>5. ASSUME NEW s \in Agents, at'[s] = "write", loc'[s].place = loc'[q].place PROVE q = s
    <3>1. CASE s = p \/ q = p
      BY <1>7, <1>11, <2>1, <2>5, <3>1
    <3>2. CASE s # p /\ q # p
      <4>1. at[s] = "write" /\ at[q] = "write" /\ loc[s].place = loc[q].place
        BY <1>11, <2>1, <2>5, <3>2
      <4> QED BY <1>1, <4>1 DEF Windowed
    <3> QED BY <3>1, <3>2
  <2> QED BY <2>4, <2>5
<1>12. n + 1 - 1 = n
  BY <1>3
<1>13. at'[Owner] = "write" => Offset(h, loc'[Owner].place) = n
  <2>1. CASE p = Owner
    BY <1>5, <1>7, <2>1
  <2>2. CASE p # Owner
    BY <1>7, <2>2, AgentFacts
  <2> QED BY <2>1, <2>2
<1>14. ASSUME "overlap" \notin mishap', NEW q \in Agents, at'[q] = "write"
       PROVE  /\ Offset(h, loc'[q].place) = n
              /\ \A s \in Agents : at'[s] = "write" => q = s
  <2>1. \A s \in Agents : at'[s] = "write" => s = p
    BY <1>7, <1>14 DEF AcquireEffect
  <2> QED BY <1>5, <1>7, <1>14, <2>1
<1>15. Windowed(n + 1)'
  <2> HIDE DEF Offset, Ahead, After, Pushed
  <2>1. \A r \in Places : Offset(ring'.head, r) < n + 1 <=> Pushed(r)'
    BY <1>7, <1>10
  <2>2. \A q \in Agents : at'[q] = "write" =>
          /\ loc'[q].place \notin unread'
          /\ \A s \in Agents : at'[s] = "write" /\ loc'[s].place = loc'[q].place => q = s
    BY <1>11
  <2>3. "overlap" \notin mishap' => \A q \in Agents : at'[q] = "write" =>
          /\ Offset(ring'.head, loc'[q].place) = n + 1 - 1
          /\ \A s \in Agents : at'[s] = "write" => q = s
    BY <1>7, <1>12, <1>14
  <2>4. at'[Owner] = "write" => Offset(ring'.head, loc'[Owner].place) = n + 1 - 1
    BY <1>7, <1>12, <1>13
  <2>5. ring'.temp = Ahead(ring'.head, n + 1)
    BY <1>7, <1>9
  <2> QED BY <2>1, <2>2, <2>3, <2>4, <2>5 DEF Windowed
<1> QED BY <1>5, <1>15 DEF Window

(* A place is written. *)
LEMMA WindowStore ==
    ASSUME PoolTypes, Window, NEW p \in Agents, NEW x, StoreEffect(p, x),
           NEW l, Alone(p, l), l # "write"
    PROVE  Window'
<1>1. PICK n \in 0 .. Slots : Windowed(n)
  BY DEF Window
<1>2. PICK t \in Places : t = loc[p].place
  BY DEF PoolTypes, Locals
<1>3. /\ at[p] = "write" /\ at'[p] # "write"
      /\ ring'.head = ring.head /\ ring'.temp = ring.temp /\ mishap' = mishap
      /\ unread' = unread \cup {t}
      /\ \A q \in Agents : q # p => at'[q] = at[q] /\ loc'[q] = loc[q]
  BY <1>2 DEF StoreEffect, Alone
<1>4. \A q \in Agents : at'[q] = "write" =>
          q # p /\ at[q] = "write" /\ loc'[q] = loc[q] /\ loc[q].place # t
  BY <1>1, <1>2, <1>3 DEF Windowed
<1>5. ASSUME NEW r \in Places PROVE Pushed(r)' <=> Pushed(r)
  <2>1. CASE r = t
    BY <1>2, <1>3, <2>1 DEF Pushed
  <2>2. CASE r # t
    BY <1>2, <1>3, <2>2 DEF Pushed
  <2> QED BY <2>1, <2>2
<1>6. \A q \in Agents : at'[q] = "write" => loc'[q].place \notin unread'
  BY <1>1, <1>3, <1>4 DEF Windowed
<1>7. Owner \in Agents
  BY AgentFacts
<1>8. Windowed(n)'
  <2> HIDE DEF Offset, Ahead, Pushed
  <2> QED BY <1>1, <1>3, <1>4, <1>5, <1>6, <1>7 DEF Windowed
<1> QED BY <1>8 DEF Window

(* A place is popped. *)
LEMMA WindowClaim ==
    ASSUME PoolTypes, Window, NEW w \in Workers, ClaimEffect(w), ring.head \in unread,
           mishap \subseteq mishap'
    PROVE  Window'
<1>1. PICK n \in 0 .. Slots : Windowed(n)
  BY DEF Window
<1>2. PICK h \in Places : h = ring.head
  BY DEF PoolTypes
<1>3. /\ ring'.head = After(h) /\ ring'.temp = ring.temp /\ unread' = unread \ {h}
      /\ h \in unread
      /\ \A q \in Agents : (at'[q] = "write" <=> at[q] = "write")
                           /\ (at[q] = "write" => loc'[q] = loc[q])
  BY <1>2 DEF ClaimEffect, Alone
<1>4. n \in 1 .. Slots /\ Slots \in Nat /\ n - 1 \in 0 .. Slots
  <2>1. Offset(h, h) < n
    BY <1>1, <1>2, <1>3 DEF Windowed, Pushed
  <2> QED BY <2>1, OffsetFacts, PoolAssumption
<1>5. ring'.temp = Ahead(ring'.head, n - 1)
  BY <1>1, <1>2, <1>3, <1>4, OffsetNext DEF Windowed
<1>6. \A q \in Agents : at[q] = "write" => loc[q].place # h /\ loc[q].place \in Places
  BY <1>1, <1>3 DEF Windowed, PoolTypes, Locals
<1>7. ASSUME NEW r \in Places PROVE Offset(After(h), r) < n - 1 <=> Pushed(r)'
  <2>1. CASE r = h
    <3>1. ~ Pushed(r)'
      BY <1>3, <1>6, <2>1 DEF Pushed
    <3>2. Offset(After(h), r) = Slots - 1
      BY <2>1, OffsetNext
    <3> QED BY <1>4, <3>1, <3>2
  <2>2. CASE r # h
    <3>1. Pushed(r)' <=> Pushed(r)
      BY <1>3, <2>2 DEF Pushed
    <3>2. Offset(After(h), r) = Offset(h, r) - 1
      BY <2>2, OffsetNext
    <3>3. Offset(h, r) \in 0 .. Slots - 1
      BY OffsetFacts
    <3>4. Offset(h, r) < n <=> Pushed(r)
      BY <1>1, <1>2 DEF Windowed
    <3> HIDE DEF Offset, After
    <3> QED BY <1>4, <3>1, <3>2, <3>3, <3>4
  <2> QED BY <2>1, <2>2
<1>8. ASSUME NEW q \in Agents, at[q] = "write", Offset(h, loc[q].place) = n - 1
      PROVE  Offset(After(h), loc[q].place) = n - 1 - 1
  <2>1. Offset(After(h), loc[q].place) = Offset(h, loc[q].place) - 1
    BY <1>6, <1>8, OffsetNext
  <2> QED BY <1>8, <2>1
<1>9. Owner \in Agents
  BY AgentFacts
<1>10. Windowed(n - 1)'
  <2> HIDE DEF Offset, Ahead, After, Pushed
  <2>1. \A r \in Places : Offset(ring'.head, r) < n - 1 <=> Pushed(r)'
    BY <1>3, <1>7
  <2>2. \A q \in Agents : at'[q] = "write" =>
          /\ loc'[q].place \notin unread'
          /\ \A s \in Agents : at'[s] = "write" /\ loc'[s].place = loc'[q].place => q = s
    BY <1>1, <1>3 DEF Windowed
  <2>3. "overlap" \notin mishap' => \A q \in Agents : at'[q] = "write" =>
          /\ Offset(ring'.head, loc'[q].place) = n - 1 - 1
          /\ \A s \in Agents : at'[s] = "write" => q = s
    BY <1>1, <1>2, <1>3, <1>8 DEF Windowed
  <2>4. at'[Owner] = "write" => Offset(ring'.head, loc'[Owner].place) = n - 1 - 1
    BY <1>1, <1>2, <1>3, <1>8, <1>9 DEF Windowed
  <2> QED BY <1>5, <2>1, <2>2, <2>3, <2>4 DEF Windowed
<1> QED BY <1>4, <1>10 DEF Window

(* The place that comes next is free when there is room. *)
LEMMA TempFree ==
    ASSUME PoolTypes, Window, \E r \in Places : ~ Pushed(r)
    PROVE  ~ Pushed(ring.temp)
<1>1. PICK n \in 0 .. Slots : Windowed(n)
  BY DEF Window
<1>2. PICK h \in Places : h = ring.head
  BY DEF PoolTypes
<1>3. PICK r \in Places : ~ Pushed(r)
  OBVIOUS
<1>4. ~(Offset(h, r) < n) /\ Offset(h, r) \in 0 .. Slots - 1
  BY <1>1, <1>2, <1>3, OffsetFacts DEF Windowed
<1>5. n < Slots /\ n \in Nat
  <2> HIDE DEF Offset
  <2> QED BY <1>4, PoolAssumption
<1>6. ring.temp \in Places /\ Offset(h, ring.temp) = n
  BY <1>1, <1>2, <1>5, OffsetTemp DEF Windowed
<1>7. Offset(h, ring.temp) < n <=> Pushed(ring.temp)
  BY <1>1, <1>2, <1>6 DEF Windowed
<1> QED BY <1>5, <1>6, <1>7

(* What the steps of a thread do that neither push nor pop *)
Aside(p, l) ==
    /\ Alone(p, l) /\ at[p] # "write" /\ l # "write"
    /\ ring' = ring /\ unread' = unread
    /\ mishap \subseteq mishap'
    /\ mishap' \subseteq mishap \cup {"aba", "lost"}

(* ... and leave the semaphore pending alone *)
Unsignalled(c, l) == at[c] # "signal" /\ l # "signal" /\ pending' = pending

(* The steps of a caller, but for the push itself, are such steps. *)
LEMMA CallerAside ==
    ASSUME NEW c \in Callers, CallerEffect(c), ~ AcquireEffect(c), ~ WriteEffect(c)
    PROVE  \E l : /\ Aside(c, l)
                  /\ SignalEffect(c) \/ Unsignalled(c, l)
<1>1. CASE \E join \in BOOLEAN : CreateEffect(c, join)
  BY <1>1 DEF CreateEffect, Aside, Unsignalled
<1>2. CASE TakeEffect(c) \/ RetryEffect(c)
  BY <1>2 DEF TakeEffect, RetryEffect, Aside, Unsignalled
<1>3. CASE PopEffect(c)
  <2>1. Alone(c, "init") /\ at[c] = "exchange" /\ ring' = ring /\ unread' = unread
        /\ mishap \subseteq mishap' /\ mishap' \subseteq mishap \cup {"aba"}
    BY <1>3 DEF PopEffect
  <2>2. Aside(c, "init") /\ Unsignalled(c, "init")
    BY <1>3, <2>1 DEF PopEffect, Aside, Unsignalled
  <2> QED BY <2>2
<1>4. CASE InitEffect(c) \/ FailEffect(c) \/ AwaitEffect(c)
  BY <1>4 DEF InitEffect, FailEffect, AwaitEffect, Aside, Unsignalled
<1>5. CASE SignalEffect(c)
  <2>1. Alone(c, "idle") /\ at[c] = "signal" /\ ring' = ring /\ unread' = unread
        /\ mishap \subseteq mishap' /\ mishap' \subseteq mishap \cup {"lost"}
    BY <1>5 DEF SignalEffect
  <2>2. Aside(c, "idle")
    BY <2>1 DEF Aside
  <2> QED BY <1>5, <2>2
<1>6. CASE \E k \in Instances : WaitEffect(c, k)
  BY <1>6 DEF WaitEffect, Aside, Unsignalled
<1>7. CASE FreeEffect(c) \/ ReturnEffect(c) \/ RelinkEffect(c)
  BY <1>7 DEF FreeEffect, ReturnEffect, RelinkEffect, LinkEffect, Aside, Unsignalled
<1>8. CASE PushEffect(c) \/ UncountEffect(c)
  BY <1>8 DEF PushEffect, UncountEffect, Aside, Unsignalled
<1>9. CASE CompleteEffect(c)
  BY <1>9 DEF CompleteEffect, Aside, Unsignalled
<1> QED BY <1>1, <1>2, <1>3, <1>4, <1>5, <1>6, <1>7, <1>8, <1>9 DEF CallerEffect

(* So are those of a worker, but for the pop, *)
LEMMA WorkerAside ==
    ASSUME NEW w \in Workers, WorkerEffect(w), ~ ClaimEffect(w)
    PROVE  \E l : Aside(w, l) /\ mishap' = mishap /\ l # "stopped" /\ at[w] # "stopped"
<1>1. CASE PendingEffect(w) \/ ReadAgainEffect(w)
  BY <1>1 DEF PendingEffect, ReadAgainEffect, Aside
<1>2. CASE RunEffect(w)
  BY <1>2 DEF RunEffect, Aside
<1>3. CASE FreeEffect(w) \/ RelinkEffect(w)
  BY <1>3 DEF FreeEffect, RelinkEffect, LinkEffect, Aside
<1>4. CASE PushEffect(w)
  BY <1>4 DEF PushEffect, Aside
<1>5. CASE CompleteEffect(w)
  BY <1>5 DEF CompleteEffect, Aside
<1> QED BY <1>1, <1>2, <1>3, <1>4, <1>5 DEF WorkerEffect

(* and those of the owner, but for its pushes. *)
LEMMA OwnerAside ==
    ASSUME OwnerEffect, ~ AcquireEffect(Owner), ~ StopEffect
    PROVE  \E l : Aside(Owner, l)
<1>1. CASE QuitEffect \/ JoinEffect
  BY <1>1 DEF QuitEffect, JoinEffect, Aside
<1>2. CASE SignalWorkersEffect
  BY <1>2 DEF SignalWorkersEffect, Aside
<1> QED BY <1>1, <1>2 DEF OwnerEffect

(* A step of a caller keeps the window, and overruns nothing. *)
LEMMA WindowCaller ==
    ASSUME PoolTypes, HaveJobs, Owned, StopsLast, OwnerAlone, Window,
           NEW c \in Callers, CallerEffect(c)
    PROVE  Window' /\ ("overrun" \in mishap' => "overrun" \in mishap)
<1>0. c \in Agents /\ c # Owner /\ at[Owner] = "idle"
  BY AgentFacts, CallerOpen
<1>1. CASE AcquireEffect(c)
  <2>1. \E r \in Places : ~ Pushed(r)
    BY <1>0, <1>1, RingHasRoom DEF AcquireEffect
  <2>2. ring.temp \notin unread
    BY <2>1, TempFree DEF Pushed
  <2>3. Window'
    BY <1>0, <1>1, <2>1, <2>2, WindowAcquire
  <2> QED BY <1>1, <2>2, <2>3 DEF AcquireEffect
<1>2. CASE WriteEffect(c)
  <2>1. StoreEffect(c, loc[c].job) /\ Alone(c, "signal")
    BY <1>2 DEF WriteEffect
  <2>2. Window'
    BY <1>0, <2>1, WindowStore
  <2> QED BY <2>1, <2>2 DEF StoreEffect
<1>3. CASE ~ AcquireEffect(c) /\ ~ WriteEffect(c)
  <2>1. PICK l : Aside(c, l)
    BY <1>3, CallerAside
  <2>2. Window'
    BY <1>0, <2>1, WindowQuiet DEF Aside
  <2> QED BY <2>1, <2>2 DEF Aside
<1> QED BY <1>1, <1>2, <1>3

(* A pop moves the window on when what it pops was written. *)
LEMMA WindowWorker ==
    ASSUME PoolTypes, Window, NEW w \in Workers, WorkerEffect(w), Clean'
    PROVE  Window'
<1>0. w \in Agents
  BY AgentFacts
<1>1. CASE ClaimEffect(w)
  <2>1. ring.head \in unread /\ mishap' = mishap
    BY <1>1 DEF ClaimEffect, Clean, Damage
  <2> QED BY <1>1, <2>1, WindowClaim
<1>2. CASE ~ ClaimEffect(w)
  <2>1. PICK l : Aside(w, l)
    BY <1>2, WorkerAside
  <2> QED BY <1>0, <2>1, WindowQuiet DEF Aside
<1> QED BY <1>1, <1>2

(* The -1s are pushed as the jobs are, unless they overrun the ring. *)
LEMMA WindowOwner ==
    ASSUME PoolTypes, OwnerAlone, Window, OwnerEffect, Clean'
    PROVE  Window'
<1>0. Owner \in Agents
  BY AgentFacts
<1>1. CASE AcquireEffect(Owner)
  <2>1. ring.temp \notin unread
    BY <1>1 DEF AcquireEffect, Clean
  <2>2. \A q \in Agents : at[q] # "write"
    BY <1>1, AgentFacts DEF AcquireEffect, OwnerAlone, PoolTypes, Controls, WorkerPC
  <2>3. ring.temp \in Places /\ ~ Pushed(ring.temp)
    BY <2>1, <2>2 DEF Pushed, PoolTypes
  <2> QED BY <1>0, <1>1, <2>1, <2>3, WindowAcquire
<1>2. CASE StopEffect
  <2>1. PICK l : StoreEffect(Owner, Null) /\ Alone(Owner, l) /\ l # "write"
    BY <1>2 DEF StopEffect
  <2> QED BY <1>0, <2>1, WindowStore
<1>3. CASE ~ AcquireEffect(Owner) /\ ~ StopEffect
  <2>1. PICK l : Aside(Owner, l)
    BY <1>3, OwnerAside
  <2> QED BY <1>0, <2>1, WindowQuiet DEF Aside
<1> QED BY <1>1, <1>2, <1>3

-----------------------------------------------------------------------------
(* The -1s come last. *)

(* A step that neither pushes nor pops *)
LEMMA StopsQuiet ==
    ASSUME StopsLast, NEW p \in Agents, NEW l, Alone(p, l),
           p \in Workers => at[p] # "stopped" /\ l # "stopped",
           p = Owner => l # "idle" /\ (l = "freed" => \A w \in Workers : at[w] = "stopped"),
           ring'.head = ring.head, ring'.cells = ring.cells, unread' \subseteq unread
    PROVE  StopsLast'
<1>1. \A w \in Workers : at'[w] = "stopped" => at[w] = "stopped"
  BY AgentFacts DEF Alone
<1>2. at'[Owner] = "idle" => at[Owner] = "idle"
  BY AgentFacts DEF Alone
<1>3. at'[Owner] = "freed" => \A w \in Workers : at'[w] = "stopped"
  <2>1. CASE p = Owner
    BY <2>1, AgentFacts DEF Alone
  <2>2. CASE p # Owner
    BY <2>2, AgentFacts DEF Alone, StopsLast
  <2> QED BY <2>1, <2>2
<1> QED BY <1>1, <1>2, <1>3 DEF StopsLast

(* Callers push jobs only, and only before the first -1. *)
LEMMA StopsCaller ==
    ASSUME PoolTypes, HaveJobs, OwnerAlone, StopsLast, NEW c \in Callers, CallerEffect(c)
    PROVE  StopsLast'
<1>0. c \in Agents /\ c # Owner /\ c \notin Workers /\ at[Owner] = "idle"
  BY AgentFacts, CallerOpen
<1>1. CASE AcquireEffect(c)
  <2>1. /\ Alone(c, "write") /\ ring'.head = ring.head /\ ring'.cells = ring.cells
        /\ unread' \subseteq unread
    BY <1>1 DEF AcquireEffect
  <2> QED BY <1>0, <2>1, StopsQuiet
<1>2. CASE WriteEffect(c)
  <2>1. PICK t \in Places : t = loc[c].place
    BY <1>0 DEF PoolTypes, Locals
  <2>2. /\ Alone(c, "signal") /\ unread' = unread \cup {t} /\ at[c] = "write"
        /\ ring'.cells[t] = loc[c].job
        /\ \A r \in Places : r # t => ring'.cells[r] = ring.cells[r]
    BY <1>2, <2>1 DEF WriteEffect, StoreEffect
  <2>3. ring'.cells[t] # Null
    BY <1>0, <2>2, AgentFacts DEF HaveJobs, Holds, Holding
  <2>4. \A r \in unread' : ring'.cells[r] # Null
    BY <1>0, <2>2, <2>3 DEF StopsLast, PoolTypes
  <2>5. at'[Owner] = "idle" /\ \A w \in Workers : at'[w] # "stopped"
    BY <1>0, <2>2, AgentFacts DEF StopsLast, Alone
  <2> QED BY <2>4, <2>5 DEF StopsLast
<1>3. CASE ~ AcquireEffect(c) /\ ~ WriteEffect(c)
  <2>1. PICK l : Aside(c, l)
    BY <1>3, CallerAside
  <2> QED BY <1>0, <2>1, StopsQuiet DEF Aside
<1> QED BY <1>1, <1>2, <1>3

(* A worker that pops a -1 leaves no job behind in the ring. *)
LEMMA StopsWorker ==
    ASSUME PoolTypes, StopsLast, NEW w \in Workers, WorkerEffect(w), Clean'
    PROVE  StopsLast'
<1>0. w \in Agents /\ w # Owner
  BY AgentFacts
<1>1. CASE ClaimEffect(w)
  <2>1. PICK h \in Places : h = ring.head
    BY DEF PoolTypes
  <2>2. /\ h \in unread /\ ring.cells[h] = loc[w].job
        /\ ring'.head = After(h) /\ ring'.cells = ring.cells /\ unread' = unread \ {h}
        /\ at[w] = "claim"
        /\ at'[w] = IF loc[w].job = Null THEN "stopped" ELSE "run"
        /\ \A q \in Agents : q # w => at'[q] = at[q]
    BY <1>1, <2>1 DEF ClaimEffect, Clean, Damage, Alone
  <2>3. at'[Owner] = at[Owner] /\ at[Owner] # "freed"
    BY <1>0, <2>2, AgentFacts DEF StopsLast
  <2>4. at'[Owner] = "idle" => \A r \in unread' : ring'.cells[r] # Null
    BY <2>2, <2>3 DEF StopsLast
  <2>5. at'[Owner] = "idle" => \A x \in Workers : at'[x] # "stopped"
    <3>1. at'[Owner] = "idle" => loc[w].job # Null
      BY <2>2, <2>3 DEF StopsLast
    <3> QED BY <2>2, <2>3, <3>1, AgentFacts DEF StopsLast
  <2>6. ASSUME NEW r \in unread', NEW s \in unread', ring'.cells[r] = Null, ring'.cells[s] # Null
        PROVE  Offset(ring'.head, s) < Offset(ring'.head, r)
    <3>1. r \in Places /\ s \in Places /\ r # h /\ s # h /\ r \in unread /\ s \in unread
      BY <2>2 DEF PoolTypes
    <3>2. Offset(h, s) < Offset(h, r)
      BY <2>1, <2>2, <2>6, <3>1 DEF StopsLast
    <3>3. Offset(After(h), s) = Offset(h, s) - 1 /\ Offset(After(h), r) = Offset(h, r) - 1
      BY <3>1, OffsetNext
    <3>4. Offset(h, s) \in Int /\ Offset(h, r) \in Int
      BY <3>1, OffsetFacts
    <3> HIDE DEF Offset, After
    <3> QED BY <2>2, <3>2, <3>3, <3>4
  <2>7. ASSUME loc[w].job = Null PROVE \A s \in unread : ring.cells[s] = Null
    <3>1. SUFFICES ASSUME NEW s \in unread, ring.cells[s] # Null PROVE FALSE
      OBVIOUS
    <3>2. Offset(h, s) < Offset(h, h) /\ s \in Places
      BY <2>1, <2>2, <2>7, <3>1 DEF StopsLast, PoolTypes
    <3>3. Offset(h, s) \in 0 .. Slots - 1 /\ Offset(h, h) = 0
      BY <3>2, OffsetFacts
    <3> HIDE DEF Offset
    <3> QED BY <3>2, <3>3
  <2>8. \A x \in Workers : at'[x] = "stopped" => \A r \in unread' : ring'.cells[r] = Null
    <3>1. CASE loc[w].job = Null
      BY <2>2, <2>7, <3>1
    <3>2. CASE loc[w].job # Null
      BY <2>2, <3>2, AgentFacts DEF StopsLast
    <3> QED BY <3>1, <3>2
  <2> HIDE DEF Offset
  <2> QED BY <2>3, <2>4, <2>5, <2>6, <2>8 DEF StopsLast
<1>2. CASE ~ ClaimEffect(w)
  <2>1. PICK l : Aside(w, l) /\ l # "stopped" /\ at[w] # "stopped"
    BY <1>2, WorkerAside
  <2> QED BY <1>0, <2>1, StopsQuiet DEF Aside
<1> QED BY <1>1, <1>2

(* A -1 goes behind everything that is in the ring. *)
LEMMA StopsOwner ==
    ASSUME PoolTypes, OwnerAlone, Window, StopsLast, OwnerEffect
    PROVE  StopsLast'
<1>0. Owner \in Agents /\ Owner \notin Workers
  BY AgentFacts
<1>1. CASE AcquireEffect(Owner)
  <2>1. /\ Alone(Owner, "write") /\ ring'.head = ring.head /\ ring'.cells = ring.cells
        /\ unread' \subseteq unread
    BY <1>1 DEF AcquireEffect
  <2> QED BY <1>0, <2>1, StopsQuiet
<1>2. CASE StopEffect
  <2>1. PICK t \in Places : t = loc[Owner].place
    BY <1>0 DEF PoolTypes, Locals
  <2>2. /\ unread' = unread \cup {t} /\ at[Owner] = "write"
        /\ at'[Owner] \in {"acquire", "signal"}
        /\ \A w \in Workers : at'[w] = at[w]
        /\ ring'.head = ring.head /\ ring'.cells[t] = Null
        /\ \A r \in Places : r # t => ring'.cells[r] = ring.cells[r]
    BY <1>0, <1>2, <2>1, AgentFacts DEF StopEffect, StoreEffect, Alone
  <2>3. PICK n \in 0 .. Slots : Windowed(n)
    BY DEF Window
  <2>4. PICK h \in Places : h = ring.head
    BY DEF PoolTypes
  <2>5. Offset(h, t) = n - 1 /\ n \in Nat
    BY <2>1, <2>2, <2>3, <2>4, PoolAssumption DEF Windowed
  <2>6. ASSUME NEW s \in unread, s # t PROVE Offset(h, s) < Offset(h, t)
    <3>1. s \in Places
      BY DEF PoolTypes
    <3>2. Offset(h, s) < n
      BY <2>3, <2>4, <3>1 DEF Windowed, Pushed
    <3>3. Offset(h, s) \in Nat /\ Offset(h, s) # Offset(h, t)
      <4>1. Offset(h, s) = Offset(h, t) => s = t
        BY <3>1, OffsetFacts
      <4>2. Offset(h, s) \in 0 .. Slots - 1
        BY <3>1, OffsetFacts
      <4> HIDE DEF Offset
      <4> QED BY <2>6, <4>1, <4>2
    <3> HIDE DEF Offset
    <3> QED BY <2>5, <3>2, <3>3
  <2>7. ASSUME NEW r \in unread', NEW s \in unread', ring'.cells[r] = Null, ring'.cells[s] # Null
        PROVE  Offset(ring'.head, s) < Offset(ring'.head, r)
    <3>1. s \in Places /\ r \in Places /\ s \in unread /\ s # t /\ ring.cells[s] # Null
      BY <2>2, <2>7 DEF PoolTypes
    <3>2. CASE r = t
      BY <2>2, <2>4, <2>6, <3>1, <3>2
    <3>3. CASE r # t
      BY <2>2, <2>7, <3>1, <3>3 DEF StopsLast
    <3> QED BY <3>2, <3>3
  <2>8. \A w \in Workers : at'[w] = "stopped" => \A r \in unread' : ring'.cells[r] = Null
    BY <2>2 DEF StopsLast, PoolTypes
  <2> HIDE DEF Offset
  <2> QED BY <2>2, <2>7, <2>8 DEF StopsLast
<1>3. CASE ~ AcquireEffect(Owner) /\ ~ StopEffect
  <2>1. PICK l : Alone(Owner, l) /\ l # "idle" /\ (l = "freed" => \A w \in Workers : at[w] = "stopped")
    BY <1>3 DEF OwnerEffect, QuitEffect, SignalWorkersEffect, JoinEffect
  <2>2. ring' = ring /\ unread' = unread
    BY <1>3 DEF OwnerEffect, QuitEffect, SignalWorkersEffect, JoinEffect
  <2> QED BY <1>0, <2>1, <2>2, StopsQuiet
<1> QED BY <1>1, <1>2, <1>3
-----------------------------------------------------------------------------
(* Signals and pops *)

(* How the number of threads of a kind at a label changes when one moves *)
LEMMA LabelStep ==
    ASSUME NEW U \in SUBSET Agents, NEW p \in Agents, NEW l, Alone(p, l), NEW m
    PROVE  /\ NumberAt(U, m) \in Nat /\ NumberAt(U, m)' \in Nat
           /\ p \notin U \/ (at[p] = m <=> l = m) => NumberAt(U, m)' = NumberAt(U, m)
           /\ p \in U /\ at[p] # m /\ l = m => NumberAt(U, m)' = NumberAt(U, m) + 1
           /\ p \in U /\ at[p] = m /\ l # m => NumberAt(U, m)' = NumberAt(U, m) - 1
<1> DEFINE S == {x \in U : at[x] = m}
           T == {x \in U : at'[x] = m}
<1>1. /\ S \in SUBSET Agents /\ T \in SUBSET Agents
      /\ \A x \in Agents : x # p => (x \in S <=> x \in T)
      /\ p \in S <=> p \in U /\ at[p] = m
      /\ p \in T <=> p \in U /\ l = m
  BY DEF Alone
<1>2. IsFiniteSet(Agents)
  BY FiniteAgents
<1> HIDE DEF S, T
<1>3. /\ Cardinality(S) \in Nat /\ Cardinality(T) \in Nat
      /\ (p \in S <=> p \in T) => Cardinality(T) = Cardinality(S)
      /\ p \notin S /\ p \in T => Cardinality(T) = Cardinality(S) + 1
      /\ p \in S /\ p \notin T => Cardinality(T) = Cardinality(S) - 1
  BY <1>1, <1>2, CountOne
<1> QED BY <1>1, <1>3 DEF S, T, NumberAt

(* The three numbers of threads that matter to the signals *)
LEMMA ThreadCounts ==
    ASSUME NEW p \in Agents, NEW l, Alone(p, l)
    PROVE  /\ Claiming \in Nat /\ Signalling \in Nat /\ Stopped \in Nat
           /\ Claiming' \in Nat /\ Signalling' \in Nat /\ Stopped' \in Nat
           /\ p \notin Workers => Claiming' = Claiming /\ Stopped' = Stopped
           /\ p \in Workers =>
                /\ (at[p] = "claim" <=> l = "claim") => Claiming' = Claiming
                /\ at[p] # "claim" /\ l = "claim" => Claiming' = Claiming + 1
                /\ at[p] = "claim" /\ l # "claim" => Claiming' = Claiming - 1
                /\ (at[p] = "stopped" <=> l = "stopped") => Stopped' = Stopped
                /\ at[p] # "stopped" /\ l = "stopped" => Stopped' = Stopped + 1
           /\ p \notin Callers => Signalling' = Signalling
           /\ p \in Callers =>
                /\ (at[p] = "signal" <=> l = "signal") => Signalling' = Signalling
                /\ at[p] # "signal" /\ l = "signal" => Signalling' = Signalling + 1
                /\ at[p] = "signal" /\ l # "signal" => Signalling' = Signalling - 1
<1>1. Workers \in SUBSET Agents /\ Callers \in SUBSET Agents
  BY AgentFacts
<1>2. /\ Claiming \in Nat /\ Claiming' \in Nat
      /\ p \notin Workers \/ (at[p] = "claim" <=> l = "claim") => Claiming' = Claiming
      /\ p \in Workers /\ at[p] # "claim" /\ l = "claim" => Claiming' = Claiming + 1
      /\ p \in Workers /\ at[p] = "claim" /\ l # "claim" => Claiming' = Claiming - 1
  BY <1>1, LabelStep DEF Claiming
<1>3. /\ Stopped \in Nat /\ Stopped' \in Nat
      /\ p \notin Workers \/ (at[p] = "stopped" <=> l = "stopped") => Stopped' = Stopped
      /\ p \in Workers /\ at[p] # "stopped" /\ l = "stopped" => Stopped' = Stopped + 1
  BY <1>1, LabelStep DEF Stopped
<1>4. /\ Signalling \in Nat /\ Signalling' \in Nat
      /\ p \notin Callers \/ (at[p] = "signal" <=> l = "signal") => Signalling' = Signalling
      /\ p \in Callers /\ at[p] # "signal" /\ l = "signal" => Signalling' = Signalling + 1
      /\ p \in Callers /\ at[p] = "signal" /\ l # "signal" => Signalling' = Signalling - 1
  BY <1>1, LabelStep DEF Signalling
<1> QED BY <1>2, <1>3, <1>4

(* What is counted is finite. *)
LEMMA TallyTypes ==
    ASSUME PoolTypes, Turns
    PROVE  /\ W \in Nat /\ W # 0 /\ loc[Owner].turn \in Nat /\ pending \in Nat
           /\ OwnerWrote \in Nat /\ OwnerSignals \in Nat
           /\ IsFiniteSet(unread) /\ Cardinality(unread) \in Nat
           /\ JobsLeft \in Nat /\ IsFiniteSet(JobsIn(unread, ring.cells))
<1>1. W \in Nat /\ W # 0
  <2>1. Cardinality(Workers) \in Nat /\ Cardinality(Workers) # 0
    BY PoolAssumption, FS_CardinalityType, FS_EmptySet
  <2> QED BY <2>1 DEF W
<1>2. loc[Owner].turn \in Nat /\ pending \in Nat
  BY AgentFacts DEF PoolTypes, Locals
<1>3. loc[Owner].turn < W
  BY DEF Turns
<1>4. OwnerWrote \in Nat /\ OwnerSignals \in Nat
  BY <1>1, <1>2, <1>3 DEF OwnerWrote, OwnerSignals
<1>5. IsFiniteSet(unread) /\ Cardinality(unread) \in Nat
  BY FiniteAgents, FS_Subset, FS_CardinalityType DEF PoolTypes
<1>6. JobsIn(unread, ring.cells) \subseteq unread
  BY DEF JobsIn
<1>7. IsFiniteSet(JobsIn(unread, ring.cells)) /\ JobsLeft \in Nat
  BY <1>5, <1>6, FS_Subset, FS_CardinalityType DEF JobsLeft
<1> QED BY <1>1, <1>2, <1>4, <1>5, <1>7

(* The owner's part does not change when another thread moves. *)
LEMMA OwnerTally ==
    ASSUME NEW p \in Agents, p # Owner, NEW l, Alone(p, l)
    PROVE  OwnerWrote' = OwnerWrote /\ OwnerSignals' = OwnerSignals
<1>1. at'[Owner] = at[Owner] /\ loc'[Owner] = loc[Owner] /\ W' = W
  BY AgentFacts DEF Alone, W
<1> QED BY <1>1 DEF OwnerWrote, OwnerSignals

(* A place that is written was not readable before. *)
LEMMA StoreCount ==
    ASSUME PoolTypes, Window, NEW p \in Agents, NEW x, StoreEffect(p, x)
    PROVE  Cardinality(unread') = Cardinality(unread) + 1 /\ Cardinality(unread) \in Nat
<1>1. IsFiniteSet(unread)
  BY FiniteAgents, FS_Subset DEF PoolTypes
<1>2. loc[p].place \notin unread /\ unread' = unread \cup {loc[p].place}
  BY DEF Window, Windowed, StoreEffect
<1> QED BY <1>1, <1>2, FS_AddElement, FS_CardinalityType

(* A step of a caller keeps the pops within the pushes. *)
LEMMA PromisedCaller ==
    ASSUME PoolTypes, PoolTypes', Turns, Window, Promised, NEW c \in Callers, CallerEffect(c), Clean'
    PROVE  Promised'
<1>0. c \in Agents /\ c # Owner /\ c \notin Workers
  BY AgentFacts
<1>1. CASE AcquireEffect(c)
  <2>1. Alone(c, "write") /\ at[c] = "acquire" /\ pending' = pending
    BY <1>1 DEF AcquireEffect
  <2>2. unread' = unread
    BY <1>1 DEF AcquireEffect, Clean
  <2>3. Claiming' = Claiming /\ Signalling' = Signalling /\ OwnerWrote' = OwnerWrote
    BY <1>0, <2>1, ThreadCounts, OwnerTally
  <2> QED BY <2>1, <2>2, <2>3 DEF Promised
<1>2. CASE WriteEffect(c)
  <2>1. /\ Alone(c, "signal") /\ at[c] = "write" /\ pending' = pending
        /\ StoreEffect(c, loc[c].job)
    BY <1>2 DEF WriteEffect, StoreEffect
  <2>2. Cardinality(unread') = Cardinality(unread) + 1
    BY <1>0, <2>1, StoreCount
  <2>3. /\ Claiming' = Claiming /\ Signalling' = Signalling + 1 /\ OwnerWrote' = OwnerWrote
        /\ Claiming \in Nat /\ Signalling \in Nat
    BY <1>0, <2>1, ThreadCounts, OwnerTally
  <2> QED BY <2>1, <2>2, <2>3, TallyTypes DEF Promised
<1>3. CASE SignalEffect(c)
  <2>1. /\ Alone(c, "idle") /\ at[c] = "signal" /\ unread' = unread
        /\ pending' = pending + 1 \/ pending' = pending
    BY <1>3 DEF SignalEffect
  <2>2. /\ Claiming' = Claiming /\ Signalling' = Signalling - 1 /\ OwnerWrote' = OwnerWrote
        /\ Claiming \in Nat /\ Signalling \in Nat
    BY <1>0, <2>1, ThreadCounts, OwnerTally
  <2> QED BY <2>1, <2>2, TallyTypes DEF Promised
<1>4. CASE ~ AcquireEffect(c) /\ ~ WriteEffect(c) /\ ~ SignalEffect(c)
  <2>1. PICK l : Aside(c, l) /\ Unsignalled(c, l)
    BY <1>4, CallerAside
  <2>2. Alone(c, l) /\ at[c] # "signal" /\ l # "signal" /\ pending' = pending /\ unread' = unread
    BY <2>1 DEF Aside, Unsignalled
  <2>3. Claiming' = Claiming /\ Signalling' = Signalling /\ OwnerWrote' = OwnerWrote
    BY <1>0, <2>2, ThreadCounts, OwnerTally
  <2> QED BY <2>2, <2>3 DEF Promised
<1> QED BY <1>1, <1>2, <1>3, <1>4

(* A step of a worker keeps the pops within the pushes. *)
LEMMA PromisedWorker ==
    ASSUME PoolTypes, PoolTypes', Turns, Promised, NEW w \in Workers, WorkerEffect(w), Clean'
    PROVE  Promised'
<1>0. w \in Agents /\ w # Owner /\ w \notin Callers
  BY AgentFacts
<1>1. CASE ClaimEffect(w)
  <2>1. PICK l : Alone(w, l) /\ at[w] = "claim" /\ l \in {"run", "stopped"} /\ pending' = pending
    BY <1>1 DEF ClaimEffect
  <2>2. ring.head \in unread /\ unread' = unread \ {ring.head}
    BY <1>1 DEF ClaimEffect, Clean, Damage
  <2>3. Cardinality(unread') = Cardinality(unread) - 1
    BY <2>2, TallyTypes, FS_RemoveElement
  <2>4. /\ Claiming' = Claiming - 1 /\ Signalling' = Signalling /\ OwnerWrote' = OwnerWrote
        /\ Claiming \in Nat /\ Signalling \in Nat
    BY <1>0, <2>1, ThreadCounts, OwnerTally
  <2> QED BY <2>1, <2>3, <2>4, TallyTypes DEF Promised
<1>2. CASE PendingEffect(w)
  <2>1. Alone(w, "claim") /\ at[w] = "wait" /\ pending' = pending - 1 /\ unread' = unread
    BY <1>2 DEF PendingEffect
  <2>2. /\ Claiming' = Claiming + 1 /\ Signalling' = Signalling /\ OwnerWrote' = OwnerWrote
        /\ Claiming \in Nat /\ Signalling \in Nat
    BY <1>0, <2>1, ThreadCounts, OwnerTally
  <2> QED BY <2>1, <2>2, TallyTypes DEF Promised
<1>3. CASE ~ ClaimEffect(w) /\ ~ PendingEffect(w)
  <2>1. PICK l : Alone(w, l) /\ (at[w] = "claim" <=> l = "claim")
    BY <1>3 DEF WorkerEffect, ReadAgainEffect, RunEffect, FreeEffect, RelinkEffect, LinkEffect,
                PushEffect, CompleteEffect
  <2>2. pending' = pending /\ unread' = unread
    BY <1>3 DEF WorkerEffect, ReadAgainEffect, RunEffect, FreeEffect, RelinkEffect, LinkEffect,
                PushEffect, CompleteEffect
  <2>3. Claiming' = Claiming /\ Signalling' = Signalling /\ OwnerWrote' = OwnerWrote
    BY <1>0, <2>1, ThreadCounts, OwnerTally
  <2> QED BY <2>2, <2>3 DEF Promised
<1> QED BY <1>1, <1>2, <1>3

(* A step of the owner keeps the pops within the pushes. *)
LEMMA PromisedOwner ==
    ASSUME PoolTypes, PoolTypes', Turns, Window, Promised, OwnerEffect, Clean'
    PROVE  Promised'
<1>0. Owner \in Agents /\ Owner \notin Callers /\ Owner \notin Workers /\ W' = W
  BY AgentFacts DEF W
<1>1. PICK l : Alone(Owner, l)
  BY DEF OwnerEffect, QuitEffect, AcquireEffect, StopEffect, SignalWorkersEffect, JoinEffect
<1>2. Claiming' = Claiming /\ Signalling' = Signalling /\ Claiming \in Nat /\ Signalling \in Nat
  BY <1>0, <1>1, ThreadCounts
<1>3. CASE QuitEffect \/ JoinEffect
  <2>1. /\ at[Owner] \notin {"acquire", "write", "signal"} /\ at'[Owner] \in {"acquire", "freed"}
        /\ loc'[Owner] = loc[Owner] /\ pending' = pending /\ unread' = unread
    BY <1>3 DEF QuitEffect, JoinEffect, Alone
  <2>2. OwnerWrote = 0 /\ OwnerWrote' = 0
    BY <1>0, <2>1 DEF OwnerWrote, Turns
  <2> QED BY <1>2, <2>1, <2>2 DEF Promised
<1>4. CASE AcquireEffect(Owner)
  <2>1. /\ at[Owner] = "acquire" /\ at'[Owner] = "write" /\ loc'[Owner].turn = loc[Owner].turn
        /\ pending' = pending
    BY <1>4 DEF AcquireEffect, Alone
  <2>2. unread' = unread
    BY <1>4 DEF AcquireEffect, Clean
  <2>3. OwnerWrote' = OwnerWrote
    BY <2>1 DEF OwnerWrote
  <2> QED BY <1>2, <2>1, <2>2, <2>3 DEF Promised
<1>5. CASE StopEffect
  <2>1. /\ StoreEffect(Owner, Null) /\ at[Owner] = "write" /\ pending' = pending
        /\ \/ at'[Owner] = "acquire" /\ loc'[Owner].turn = loc[Owner].turn + 1
           \/ /\ at'[Owner] = "signal" /\ loc'[Owner].turn = 0
              /\ ~(loc[Owner].turn < W - 1)
    BY <1>5 DEF StopEffect, StoreEffect, Alone, W
  <2>2. Cardinality(unread') = Cardinality(unread) + 1
    BY <1>0, <2>1, StoreCount
  <2>3. OwnerWrote' = OwnerWrote + 1
    BY <1>0, <2>1, TallyTypes DEF OwnerWrote, Turns
  <2> QED BY <1>2, <2>1, <2>2, <2>3, TallyTypes DEF Promised
<1>6. CASE SignalWorkersEffect
  <2>1. /\ at[Owner] = "signal" /\ unread' = unread
        /\ pending' = pending + 1 \/ pending' = pending
        /\ \/ at'[Owner] = "signal" /\ loc'[Owner].turn = loc[Owner].turn + 1
           \/ /\ at'[Owner] = "join" /\ loc'[Owner].turn = 0
              /\ ~(loc[Owner].turn < W - 1)
    BY <1>6 DEF SignalWorkersEffect, Alone, W
  <2>2. OwnerWrote' = OwnerWrote - 1
    BY <1>0, <2>1, TallyTypes DEF OwnerWrote, Turns
  <2> QED BY <1>2, <2>1, <2>2, TallyTypes DEF Promised
<1> QED BY <1>3, <1>4, <1>5, <1>6 DEF OwnerEffect

(* How the number of jobs in the ring may change *)
LEMMA JobsFewer ==
    ASSUME PoolTypes, NEW U, NEW cells, JobsIn(U, cells) \subseteq JobsIn(unread, ring.cells)
    PROVE  Cardinality(JobsIn(U, cells)) \in Nat /\ Cardinality(JobsIn(U, cells)) <= JobsLeft
<1>1. JobsIn(unread, ring.cells) \subseteq Places
  BY DEF JobsIn, PoolTypes
<1>2. IsFiniteSet(JobsIn(unread, ring.cells))
  BY <1>1, FiniteAgents, FS_Subset
<1>3. /\ IsFiniteSet(JobsIn(U, cells))
      /\ Cardinality(JobsIn(U, cells)) <= Cardinality(JobsIn(unread, ring.cells))
  BY <1>2, FS_Subset
<1> QED BY <1>3, FS_CardinalityType DEF JobsLeft

(* A push adds at most one job, and none if it is a -1. *)
LEMMA JobsPushed ==
    ASSUME PoolTypes, NEW p \in Agents, NEW x, StoreEffect(p, x)
    PROVE  /\ JobsLeft' \in Nat /\ JobsLeft \in Nat
           /\ JobsLeft' <= JobsLeft + 1
           /\ x = Null => JobsLeft' <= JobsLeft
<1>1. PICK t \in Places : t = loc[p].place
  BY DEF PoolTypes, Locals
<1>2. /\ ring'.cells[t] = x /\ unread' = unread \cup {t}
      /\ \A r \in Places : r # t => ring'.cells[r] = ring.cells[r]
  BY <1>1 DEF StoreEffect
<1> DEFINE S == JobsIn(unread, ring.cells)
           T == JobsIn(unread', ring'.cells)
<1>3. T \subseteq S \cup {t} /\ (x = Null => T \subseteq S)
  BY <1>2 DEF JobsIn, PoolTypes
<1>4. S \subseteq Places
  BY DEF JobsIn, PoolTypes
<1>5. JobsLeft = Cardinality(S) /\ JobsLeft' = Cardinality(T)
  BY DEF JobsLeft
<1> HIDE DEF S, T
<1>6. IsFiniteSet(S) /\ IsFiniteSet(S \cup {t}) /\ Cardinality(S) \in Nat
      /\ Cardinality(S \cup {t}) <= Cardinality(S) + 1 /\ Cardinality(S \cup {t}) \in Nat
  <2>1. IsFiniteSet(S)
    BY <1>4, FiniteAgents, FS_Subset
  <2>2. Cardinality(S) \in Nat
    BY <2>1, FS_CardinalityType
  <2>3. IsFiniteSet(S \cup {t})
        /\ Cardinality(S \cup {t}) = IF t \in S THEN Cardinality(S) ELSE Cardinality(S) + 1
    BY <2>1, FS_AddElement
  <2> QED BY <2>1, <2>2, <2>3
<1>7. IsFiniteSet(T) /\ Cardinality(T) <= Cardinality(S \cup {t}) /\ Cardinality(T) \in Nat
  BY <1>3, <1>6, FS_Subset, FS_CardinalityType
<1>8. x = Null => Cardinality(T) <= Cardinality(S)
  BY <1>3, <1>6, FS_Subset
<1> QED BY <1>5, <1>6, <1>7, <1>8

(* A pop takes a job away if it pops one. *)
LEMMA JobsPopped ==
    ASSUME PoolTypes, ring'.cells = ring.cells, unread' = unread \ {ring.head}
    PROVE  /\ JobsLeft' \in Nat /\ JobsLeft \in Nat
           /\ JobsLeft' <= JobsLeft
           /\ ring.head \in unread /\ ring.cells[ring.head] # Null => JobsLeft' = JobsLeft - 1
<1> DEFINE S == JobsIn(unread, ring.cells)
           T == JobsIn(unread', ring'.cells)
<1>1. T = S \ {ring.head}
  BY DEF JobsIn
<1>2. S \subseteq Places /\ (ring.head \in unread /\ ring.cells[ring.head] # Null => ring.head \in S)
  BY DEF JobsIn, PoolTypes
<1>3. JobsLeft = Cardinality(S) /\ JobsLeft' = Cardinality(T)
  BY DEF JobsLeft
<1> HIDE DEF S, T
<1>4. IsFiniteSet(S) /\ Cardinality(S) \in Nat
  BY <1>2, FiniteAgents, FS_Subset, FS_CardinalityType
<1>5. /\ IsFiniteSet(T)
      /\ Cardinality(T) = IF ring.head \in S THEN Cardinality(S) - 1 ELSE Cardinality(S)
  BY <1>1, <1>4, FS_RemoveElement
<1>6. Cardinality(T) \in Nat
  BY <1>5, FS_CardinalityType
<1> QED BY <1>2, <1>3, <1>4, <1>5, <1>6

(* A step of a caller keeps the signals enough. *)
LEMMA EnoughCaller ==
    ASSUME PoolTypes, PoolTypes', Turns, Enough, NEW c \in Callers, CallerEffect(c)
    PROVE  Enough'
<1>0. c \in Agents /\ c # Owner /\ c \notin Workers /\ W' = W
  BY AgentFacts DEF W
<1>1. CASE AcquireEffect(c)
  <2>1. /\ Alone(c, "write") /\ at[c] = "acquire" /\ pending' = pending
        /\ mishap \subseteq mishap' /\ ring'.cells = ring.cells /\ unread' \subseteq unread
    BY <1>1 DEF AcquireEffect
  <2>2. JobsIn(unread', ring'.cells) \subseteq JobsIn(unread, ring.cells)
    BY <2>1 DEF JobsIn
  <2>3. JobsLeft' \in Nat /\ JobsLeft' <= JobsLeft
    BY <2>2, JobsFewer DEF JobsLeft
  <2>4. /\ Claiming' = Claiming /\ Signalling' = Signalling /\ OwnerSignals' = OwnerSignals
        /\ Claiming \in Nat /\ Signalling \in Nat /\ Stopped' = Stopped /\ Stopped \in Nat
    BY <1>0, <2>1, ThreadCounts, OwnerTally
  <2> QED BY <1>0, <2>1, <2>3, <2>4, TallyTypes DEF Enough
<1>2. CASE WriteEffect(c)
  <2>1. /\ Alone(c, "signal") /\ at[c] = "write" /\ pending' = pending /\ mishap' = mishap
        /\ StoreEffect(c, loc[c].job)
    BY <1>2 DEF WriteEffect, StoreEffect
  <2>2. JobsLeft' \in Nat /\ JobsLeft' <= JobsLeft + 1
    BY <1>0, <2>1, JobsPushed
  <2>3. /\ Claiming' = Claiming /\ Signalling' = Signalling + 1 /\ OwnerSignals' = OwnerSignals
        /\ Claiming \in Nat /\ Signalling \in Nat /\ Stopped' = Stopped /\ Stopped \in Nat
    BY <1>0, <2>1, ThreadCounts, OwnerTally
  <2> QED BY <1>0, <2>1, <2>2, <2>3, TallyTypes DEF Enough
<1>3. CASE SignalEffect(c)
  <2>1. /\ Alone(c, "idle") /\ at[c] = "signal" /\ unread' = unread /\ ring' = ring
        /\ \/ pending' = pending + 1 /\ mishap' = mishap
           \/ "lost" \in mishap'
    BY <1>3 DEF SignalEffect
  <2>2. /\ Claiming' = Claiming /\ Signalling' = Signalling - 1 /\ OwnerSignals' = OwnerSignals
        /\ Claiming \in Nat /\ Signalling \in Nat /\ Stopped' = Stopped /\ Stopped \in Nat
        /\ JobsLeft' = JobsLeft
    BY <1>0, <2>1, ThreadCounts, OwnerTally DEF JobsLeft
  <2> QED BY <1>0, <2>1, <2>2, TallyTypes DEF Enough
<1>4. CASE ~ AcquireEffect(c) /\ ~ WriteEffect(c) /\ ~ SignalEffect(c)
  <2>1. PICK l : Aside(c, l) /\ Unsignalled(c, l)
    BY <1>4, CallerAside
  <2>2. /\ Alone(c, l) /\ at[c] # "signal" /\ l # "signal" /\ pending' = pending
        /\ unread' = unread /\ ring' = ring /\ mishap \subseteq mishap'
    BY <2>1 DEF Aside, Unsignalled
  <2>3. /\ Claiming' = Claiming /\ Signalling' = Signalling /\ OwnerSignals' = OwnerSignals
        /\ Stopped' = Stopped /\ JobsLeft' = JobsLeft
    BY <1>0, <2>2, ThreadCounts, OwnerTally DEF JobsLeft
  <2> QED BY <1>0, <2>2, <2>3 DEF Enough
<1> QED BY <1>1, <1>2, <1>3, <1>4

(* A step of a worker keeps the signals enough. *)
LEMMA EnoughWorker ==
    ASSUME PoolTypes, PoolTypes', Turns, Enough, NEW w \in Workers, WorkerEffect(w)
    PROVE  EnoughUnlessDamage'
<1>0. w \in Agents /\ w # Owner /\ w \notin Callers /\ W' = W
  BY AgentFacts DEF W
<1>1. CASE ClaimEffect(w)
  <2>1. /\ pending' = pending /\ at[w] = "claim"
        /\ Alone(w, IF loc[w].job = Null THEN "stopped" ELSE "run")
        /\ ring'.cells = ring.cells /\ unread' = unread \ {ring.head} /\ mishap \subseteq mishap'
    BY <1>1 DEF ClaimEffect
  <2>2. /\ JobsLeft' \in Nat /\ JobsLeft \in Nat
        /\ JobsLeft' <= JobsLeft
        /\ ring.head \in unread /\ ring.cells[ring.head] # Null => JobsLeft' = JobsLeft - 1
    BY <2>1, JobsPopped
  <2>3. CASE loc[w].job = Null
    <3>1. Alone(w, "stopped")
      BY <2>1, <2>3
    <3>2. /\ Claiming' = Claiming - 1 /\ Signalling' = Signalling /\ OwnerSignals' = OwnerSignals
          /\ Claiming \in Nat /\ Signalling \in Nat /\ Stopped' = Stopped + 1 /\ Stopped \in Nat
      BY <1>0, <2>1, <3>1, ThreadCounts, OwnerTally
    <3>3. Enough'
      BY <1>0, <2>1, <2>2, <3>2, TallyTypes DEF Enough
    <3> QED BY <3>3 DEF EnoughUnlessDamage
  <2>4. CASE loc[w].job # Null
    <3>1. Alone(w, "run")
      BY <2>1, <2>4
    <3>2. SUFFICES ASSUME Damage' = {} PROVE Enough'
      BY <1>0, <3>1 DEF EnoughUnlessDamage, Alone
    <3>3. ring.head \in unread /\ ring.cells[ring.head] # Null
      BY <1>1, <2>4, <3>2 DEF ClaimEffect, Damage
    <3>4. /\ Claiming' = Claiming - 1 /\ Signalling' = Signalling /\ OwnerSignals' = OwnerSignals
          /\ Claiming \in Nat /\ Signalling \in Nat /\ Stopped' = Stopped /\ Stopped \in Nat
      BY <1>0, <2>1, <3>1, ThreadCounts, OwnerTally
    <3> QED BY <1>0, <2>1, <2>2, <3>3, <3>4, TallyTypes DEF Enough
  <2> QED BY <2>3, <2>4
<1>2. CASE PendingEffect(w)
  <2>1. /\ Alone(w, "claim") /\ at[w] = "wait" /\ pending' = pending - 1
        /\ ring' = ring /\ unread' = unread /\ mishap' = mishap
    BY <1>2 DEF PendingEffect
  <2>2. /\ Claiming' = Claiming + 1 /\ Signalling' = Signalling /\ OwnerSignals' = OwnerSignals
        /\ Claiming \in Nat /\ Signalling \in Nat /\ Stopped' = Stopped /\ Stopped \in Nat
        /\ JobsLeft' = JobsLeft
    BY <1>0, <2>1, ThreadCounts, OwnerTally DEF JobsLeft
  <2>3. Enough'
    BY <1>0, <2>1, <2>2, TallyTypes DEF Enough
  <2> QED BY <2>3 DEF EnoughUnlessDamage
<1>3. CASE ~ ClaimEffect(w) /\ ~ PendingEffect(w)
  <2>1. PICK l : Alone(w, l) /\ (at[w] = "claim" <=> l = "claim") /\ at[w] # "stopped" /\ l # "stopped"
    BY <1>3 DEF WorkerEffect, ReadAgainEffect, RunEffect, FreeEffect, RelinkEffect, LinkEffect,
                PushEffect, CompleteEffect
  <2>2. pending' = pending /\ unread' = unread /\ ring' = ring /\ mishap' = mishap
    BY <1>3 DEF WorkerEffect, ReadAgainEffect, RunEffect, FreeEffect, RelinkEffect, LinkEffect,
                PushEffect, CompleteEffect
  <2>3. /\ Claiming' = Claiming /\ Signalling' = Signalling /\ OwnerSignals' = OwnerSignals
        /\ Stopped' = Stopped /\ JobsLeft' = JobsLeft
    BY <1>0, <2>1, <2>2, ThreadCounts, OwnerTally DEF JobsLeft
  <2>4. Enough'
    BY <1>0, <2>2, <2>3 DEF Enough
  <2> QED BY <2>4 DEF EnoughUnlessDamage
<1> QED BY <1>1, <1>2, <1>3

(* A step of the owner keeps the signals enough. *)
LEMMA EnoughOwner ==
    ASSUME PoolTypes, PoolTypes', Turns, Enough, OwnerEffect
    PROVE  Enough'
<1>0. Owner \in Agents /\ Owner \notin Callers /\ Owner \notin Workers /\ W' = W
  BY AgentFacts DEF W
<1>1. PICK l : Alone(Owner, l)
  BY DEF OwnerEffect, QuitEffect, AcquireEffect, StopEffect, SignalWorkersEffect, JoinEffect
<1>2. /\ Claiming' = Claiming /\ Signalling' = Signalling /\ Claiming \in Nat /\ Signalling \in Nat
      /\ Stopped' = Stopped /\ Stopped \in Nat
  BY <1>0, <1>1, ThreadCounts
<1>3. CASE QuitEffect \/ JoinEffect
  <2>1. /\ \/ at[Owner] = "idle" /\ at'[Owner] = "acquire"
           \/ at[Owner] = "join" /\ at'[Owner] = "freed"
        /\ pending' = pending /\ unread' = unread /\ ring' = ring /\ mishap' = mishap
    BY <1>3 DEF QuitEffect, JoinEffect, Alone
  <2>2. OwnerSignals' = OwnerSignals /\ JobsLeft' = JobsLeft
    BY <1>0, <2>1 DEF OwnerSignals, JobsLeft
  <2> QED BY <1>0, <1>2, <2>1, <2>2 DEF Enough
<1>4. CASE AcquireEffect(Owner)
  <2>1. /\ at[Owner] = "acquire" /\ at'[Owner] = "write" /\ pending' = pending
        /\ mishap \subseteq mishap' /\ ring'.cells = ring.cells /\ unread' \subseteq unread
    BY <1>4 DEF AcquireEffect, Alone
  <2>2. JobsIn(unread', ring'.cells) \subseteq JobsIn(unread, ring.cells)
    BY <2>1 DEF JobsIn
  <2>3. JobsLeft' \in Nat /\ JobsLeft' <= JobsLeft
    BY <2>2, JobsFewer DEF JobsLeft
  <2>4. OwnerSignals' = OwnerSignals
    BY <1>0, <2>1 DEF OwnerSignals
  <2> QED BY <1>0, <1>2, <2>1, <2>3, <2>4, TallyTypes DEF Enough
<1>5. CASE StopEffect
  <2>1. /\ StoreEffect(Owner, Null) /\ at[Owner] = "write" /\ pending' = pending /\ mishap' = mishap
        /\ \/ at'[Owner] = "acquire"
           \/ at'[Owner] = "signal" /\ loc'[Owner].turn = 0
    BY <1>5 DEF StopEffect, StoreEffect, Alone
  <2>2. JobsLeft' \in Nat /\ JobsLeft' <= JobsLeft
    BY <1>0, <2>1, JobsPushed
  <2>3. OwnerSignals' = OwnerSignals
    BY <1>0, <2>1, TallyTypes DEF OwnerSignals
  <2> QED BY <1>0, <1>2, <2>1, <2>2, <2>3, TallyTypes DEF Enough
<1>6. CASE SignalWorkersEffect
  <2>1. /\ at[Owner] = "signal" /\ unread' = unread /\ ring' = ring
        /\ \/ pending' = pending + 1 /\ mishap' = mishap
           \/ "lost" \in mishap'
        /\ \/ at'[Owner] = "signal" /\ loc'[Owner].turn = loc[Owner].turn + 1
           \/ /\ at'[Owner] = "join" /\ loc'[Owner].turn = 0
              /\ ~(loc[Owner].turn < W - 1)
    BY <1>6 DEF SignalWorkersEffect, Alone, W
  <2>2. OwnerSignals' = OwnerSignals - 1 /\ JobsLeft' = JobsLeft
    BY <1>0, <2>1, TallyTypes DEF OwnerSignals, Turns, JobsLeft
  <2> QED BY <1>0, <1>2, <2>1, <2>2, TallyTypes DEF Enough
<1> QED BY <1>3, <1>4, <1>5, <1>6 DEF OwnerEffect
-----------------------------------------------------------------------------
(* What goes wrong, and when *)

(* Before the pool is freed, what is written and copied is a job. *)
LEMMA NoStopStep ==
    ASSUME PoolTypes, HaveJobs, OwnerAlone, NoStopYet, PoolEffect
    PROVE  NoStopYet'
<1>1. ASSUME NEW c \in Callers, CallerEffect(c) PROVE NoStopYet'
  <2>0. c \in Agents /\ c # Owner /\ c \notin Workers /\ at[Owner] = "idle"
    BY <1>1, AgentFacts, CallerOpen
  <2>1. /\ \A r \in Places : ring.cells[r] # Null
        /\ \A w \in Workers : at[w] # "stopped" /\ (at[w] = "claim" => loc[w].job # Null)
    BY <2>0 DEF NoStopYet
  <2>2. \A w \in Workers : at'[w] = at[w] /\ loc'[w] = loc[w]
    BY <1>1, <2>0, CallerMoves, AgentFacts DEF Alone
  <2>3. \A r \in Places : ring'.cells[r] # Null
    <3>1. CASE AcquireEffect(c)
      BY <2>1, <3>1 DEF AcquireEffect
    <3>2. CASE WriteEffect(c)
      <4>1. loc[c].job # Null
        BY <2>0, <3>2, AgentFacts DEF WriteEffect, StoreEffect, HaveJobs, Holds, Holding
      <4> QED BY <2>1, <3>2, <4>1 DEF WriteEffect, StoreEffect
    <3>3. CASE ~ AcquireEffect(c) /\ ~ WriteEffect(c)
      BY <1>1, <2>1, <3>3, CallerAside DEF Aside
    <3> QED BY <3>1, <3>2, <3>3
  <2> QED BY <2>1, <2>2, <2>3 DEF NoStopYet
<1>2. ASSUME NEW w \in Workers, WorkerEffect(w) PROVE NoStopYet'
  <2>0. w \in Agents /\ w # Owner
    BY AgentFacts
  <2>1. /\ \A q \in Agents : q # w => at'[q] = at[q] /\ loc'[q] = loc[q]
        /\ at'[Owner] = at[Owner]
    BY <1>2, <2>0, WorkerMoves, AgentFacts DEF Alone
  <2>2. SUFFICES ASSUME at[Owner] = "idle"
                 PROVE  /\ \A r \in Places : ring'.cells[r] # Null
                        /\ \A x \in Workers : at'[x] # "stopped" /\ (at'[x] = "claim" => loc'[x].job # Null)
    BY <2>1 DEF NoStopYet
  <2>3. /\ \A r \in Places : ring.cells[r] # Null
        /\ \A x \in Workers : at[x] # "stopped" /\ (at[x] = "claim" => loc[x].job # Null)
    BY <2>2 DEF NoStopYet
  <2>4. ring'.cells = ring.cells
    BY <1>2, WorkerAside DEF ClaimEffect, Aside
  <2>5. at'[w] # "stopped" /\ (at'[w] = "claim" => loc'[w].job # Null)
    <3>1. CASE PendingEffect(w) \/ ReadAgainEffect(w)
      <4>1. at'[w] = "claim" /\ loc'[w].job = ring.cells[ring.head] /\ ring.head \in Places
        BY <3>1 DEF PendingEffect, ReadAgainEffect, Alone, PoolTypes
      <4> QED BY <2>3, <4>1
    <3>2. CASE ClaimEffect(w)
      BY <2>3, <3>2 DEF ClaimEffect, Alone
    <3>3. CASE ~ PendingEffect(w) /\ ~ ReadAgainEffect(w) /\ ~ ClaimEffect(w)
      BY <1>2, <3>3 DEF WorkerEffect, RunEffect, FreeEffect, RelinkEffect, LinkEffect, PushEffect,
                        CompleteEffect, Alone
    <3> QED BY <3>1, <3>2, <3>3
  <2> QED BY <2>1, <2>3, <2>4, <2>5, AgentFacts
<1>3. ASSUME OwnerEffect PROVE NoStopYet'
  <2>1. at'[Owner] # "idle"
    BY <1>3 DEF OwnerEffect, QuitEffect, AcquireEffect, StopEffect, SignalWorkersEffect,
                JoinEffect, Alone
  <2> QED BY <2>1 DEF NoStopYet
<1> QED BY <1>1, <1>2, <1>3 DEF PoolEffect

(* What has gone wrong stays wrong, and a pool that is freed stays so. *)
LEMMA MishapsGrow ==
    ASSUME PoolEffect
    PROVE  mishap \subseteq mishap' /\ (at'[Owner] = "idle" => at[Owner] = "idle")
<1>1. ASSUME NEW c \in Callers, CallerEffect(c) PROVE mishap \subseteq mishap' /\ at'[Owner] = at[Owner]
  <2>1. at'[Owner] = at[Owner]
    BY <1>1, CallerMoves, AgentFacts DEF Alone
  <2>2. mishap \subseteq mishap'
    <3>1. CASE AcquireEffect(c) \/ WriteEffect(c)
      BY <3>1 DEF AcquireEffect, WriteEffect, StoreEffect
    <3>2. CASE ~ AcquireEffect(c) /\ ~ WriteEffect(c)
      BY <1>1, <3>2, CallerAside DEF Aside
    <3> QED BY <3>1, <3>2
  <2> QED BY <2>1, <2>2
<1>2. ASSUME NEW w \in Workers, WorkerEffect(w) PROVE mishap \subseteq mishap' /\ at'[Owner] = at[Owner]
  <2>1. at'[Owner] = at[Owner]
    BY <1>2, WorkerMoves, AgentFacts DEF Alone
  <2>2. mishap \subseteq mishap'
    <3>1. CASE ClaimEffect(w)
      BY <3>1 DEF ClaimEffect
    <3>2. CASE ~ ClaimEffect(w)
      BY <1>2, <3>2, WorkerAside
    <3> QED BY <3>1, <3>2
  <2> QED BY <2>1, <2>2
<1>3. ASSUME OwnerEffect PROVE mishap \subseteq mishap' /\ at'[Owner] # "idle"
  <2>1. at'[Owner] # "idle"
    BY <1>3 DEF OwnerEffect, QuitEffect, AcquireEffect, StopEffect, SignalWorkersEffect,
                JoinEffect, Alone
  <2>2. mishap \subseteq mishap'
    BY <1>3 DEF OwnerEffect, QuitEffect, AcquireEffect, StopEffect, StoreEffect,
                SignalWorkersEffect, JoinEffect
  <2> QED BY <2>1, <2>2
<1> QED BY <1>1, <1>2, <1>3 DEF PoolEffect

(* Stale memory is popped by who goes on to work on it. *)
LEMMA DamageStep ==
    ASSUME NoStopYet, Damage = {}, PoolEffect
    PROVE  DamageShown'
<1>1. ASSUME NEW c \in Callers, CallerEffect(c) PROVE DamageShown'
  <2>0. c \in Agents
    BY AgentFacts
  <2>1. CASE PopEffect(c)
    <3>1. at'[c] = "init"
      BY <2>1 DEF PopEffect, Alone
    <3> QED BY <2>0, <3>1 DEF DamageShown
  <2>2. CASE AcquireEffect(c)
    <3>1. Damage' = {}
      BY <2>2 DEF AcquireEffect, Damage
    <3> QED BY <3>1 DEF DamageShown
  <2>3. CASE SignalEffect(c)
    <3>1. Damage' = {}
      BY <2>3 DEF SignalEffect, Damage
    <3> QED BY <3>1 DEF DamageShown
  <2>4. CASE ~ PopEffect(c) /\ ~ AcquireEffect(c) /\ ~ SignalEffect(c)
    <3>1. mishap' = mishap
      BY <1>1, <2>4 DEF CallerEffect, CreateEffect, TakeEffect, RetryEffect, InitEffect, FailEffect,
            WriteEffect, StoreEffect, WaitEffect, AwaitEffect, FreeEffect, LinkEffect,
            ReturnEffect, RelinkEffect, PushEffect, CompleteEffect, UncountEffect
    <3>2. Damage' = {}
      BY <3>1 DEF Damage
    <3> QED BY <3>2 DEF DamageShown
  <2> QED BY <2>1, <2>2, <2>3, <2>4
<1>2. ASSUME NEW w \in Workers, WorkerEffect(w) PROVE DamageShown'
  <2>0. w \in Agents /\ w # Owner /\ Owner \in Agents
    BY AgentFacts
  <2>1. CASE ClaimEffect(w)
    <3>1. /\ at[w] = "claim" /\ at'[w] = (IF loc[w].job = Null THEN "stopped" ELSE "run")
          /\ at'[Owner] = at[Owner]
      BY <2>0, <2>1 DEF ClaimEffect, Alone
    <3>2. CASE loc[w].job = Null
      <4>1. at[Owner] # "idle"
        BY <3>1, <3>2 DEF NoStopYet
      <4> QED BY <3>1, <4>1 DEF DamageShown
    <3>3. CASE loc[w].job # Null
      BY <2>0, <3>1, <3>3 DEF DamageShown
    <3> QED BY <3>2, <3>3
  <2>2. CASE ~ ClaimEffect(w)
    <3>1. mishap' = mishap
      BY <1>2, <2>2, WorkerAside
    <3>2. Damage' = {}
      BY <3>1 DEF Damage
    <3> QED BY <3>2 DEF DamageShown
  <2> QED BY <2>1, <2>2
<1>3. ASSUME OwnerEffect PROVE DamageShown'
  <2>1. at'[Owner] # "idle"
    BY <1>3 DEF OwnerEffect, QuitEffect, AcquireEffect, StopEffect, SignalWorkersEffect,
                JoinEffect, Alone
  <2> QED BY <2>1 DEF DamageShown
<1> QED BY <1>1, <1>2, <1>3 DEF PoolEffect

(* A worker that pops while nobody is half-way through a push finds the    *)
(* head written: what it pops was promised.                                *)
LEMMA HeadWritten ==
    ASSUME PoolTypes, Turns, Window, Promised, "overlap" \notin mishap,
           NEW w \in Workers, at[w] = "claim"
    PROVE  ring.head \in unread
<1>0. w \in Agents
  BY AgentFacts
<1>1. PICK n \in 0 .. Slots : Windowed(n)
  BY DEF Window
<1>2. PICK h \in Places : h = ring.head
  BY DEF PoolTypes
<1>3. unread # {}
  <2> DEFINE S == {x \in Workers : at[x] = "claim"}
  <2>1. IsFiniteSet(S) /\ S # {}
    BY FiniteAgents, FS_Subset
  <2>2. Cardinality(S) \in Nat /\ Cardinality(S) # 0
    <3> HIDE DEF S
    <3> QED BY <2>1, FS_CardinalityType, FS_EmptySet
  <2>3. Claiming = Cardinality(S)
    BY DEF Claiming, NumberAt
  <2>4. Signalling \in Nat
    <3>1. IsFiniteSet({x \in Callers : at[x] = "signal"})
      BY FiniteAgents, FS_Subset
    <3> QED BY <3>1, FS_CardinalityType DEF Signalling, NumberAt
  <2>5. pending \in Nat /\ OwnerWrote \in Nat /\ Cardinality(unread) \in Nat
    BY TallyTypes
  <2> HIDE DEF S
  <2>6. Cardinality(unread) # 0
    BY <2>2, <2>3, <2>4, <2>5 DEF Promised
  <2> QED BY <2>6, FS_EmptySet
<1>4. PICK r \in Places : r \in unread
  BY <1>3 DEF PoolTypes
<1>5. Offset(h, r) < n /\ Offset(h, r) \in 0 .. Slots - 1 /\ Offset(h, h) = 0 /\ n \in Nat
  BY <1>1, <1>2, <1>4, OffsetFacts, PoolAssumption DEF Windowed, Pushed
<1>6. Pushed(h)
  <2>1. Offset(h, h) < n
    <3> HIDE DEF Offset
    <3> QED BY <1>5
  <2> QED BY <1>1, <1>2, <2>1 DEF Windowed
<1>7. SUFFICES ASSUME h \notin unread PROVE FALSE
  BY <1>2
<1>8. PICK q \in Agents : at[q] = "write" /\ loc[q].place = h
  BY <1>6, <1>7 DEF Pushed
<1>9. Offset(h, h) = n - 1
  BY <1>1, <1>2, <1>8 DEF Windowed
<1>10. Offset(h, r) = Offset(h, h)
  <2> HIDE DEF Offset
  <2> QED BY <1>5, <1>9
<1>11. r = h
  BY <1>10, OffsetFacts
<1> QED BY <1>4, <1>7, <1>11

(* Where two pushes at once, or the freeing of the pool, are to blame *)
LEMMA BlameStep ==
    ASSUME PoolTypes, HaveJobs, OwnerAlone, Turns, OverrunBlamed, Damage = {},
           Clean => CleanInv, PoolEffect
    PROVE  UnwrittenBlamed' /\ OverrunBlamed'
<1>0. "unwritten" \notin mishap
  BY DEF Damage
<1>1. CASE "overrun" \in mishap
  <2>1. at[Owner] # "idle"
    BY <1>1 DEF OverrunBlamed
  <2>2. "overrun" \in mishap' /\ at'[Owner] # "idle"
    BY <1>1, <2>1, MishapsGrow
  <2> QED BY <2>2 DEF UnwrittenBlamed, OverrunBlamed
<1>2. CASE "overrun" \notin mishap
  <2>0. Clean /\ Owned /\ StopsLast /\ Window /\ Promised
    BY <1>2 DEF Clean, CleanInv
  <2>1. ASSUME NEW c \in Callers, CallerEffect(c) PROVE UnwrittenBlamed' /\ OverrunBlamed'
    <3>1. "overrun" \notin mishap'
      BY <1>2, <2>0, <2>1, WindowCaller
    <3>2. "unwritten" \notin mishap'
      <4>1. CASE AcquireEffect(c)
        <5>1. mishap' \subseteq mishap \cup {"overrun", "overlap"}
          BY <4>1 DEF AcquireEffect
        <5> QED BY <1>0, <5>1
      <4>2. CASE WriteEffect(c)
        BY <1>0, <4>2 DEF WriteEffect, StoreEffect
      <4>3. CASE ~ AcquireEffect(c) /\ ~ WriteEffect(c)
        <5>1. mishap' \subseteq mishap \cup {"aba", "lost"}
          BY <2>1, <4>3, CallerAside DEF Aside
        <5> QED BY <1>0, <5>1
      <4> QED BY <4>1, <4>2, <4>3
    <3> QED BY <3>1, <3>2 DEF UnwrittenBlamed, OverrunBlamed
  <2>2. ASSUME NEW w \in Workers, WorkerEffect(w) PROVE UnwrittenBlamed' /\ OverrunBlamed'
    <3>1. CASE ClaimEffect(w)
      <4>1. "overrun" \notin mishap'
        BY <1>2, <3>1 DEF ClaimEffect
      <4>2. ASSUME "unwritten" \in mishap' PROVE "overlap" \in mishap'
        <5>1. ring.head \notin unread /\ mishap \subseteq mishap' /\ at[w] = "claim"
          BY <1>0, <3>1, <4>2 DEF ClaimEffect
        <5>2. "overlap" \in mishap
          BY <2>0, <5>1, HeadWritten
        <5> QED BY <5>1, <5>2
      <4> QED BY <4>1, <4>2 DEF UnwrittenBlamed, OverrunBlamed
    <3>2. CASE ~ ClaimEffect(w)
      <4>1. mishap' = mishap
        BY <2>2, <3>2, WorkerAside
      <4> QED BY <1>0, <1>2, <4>1 DEF UnwrittenBlamed, OverrunBlamed
    <3> QED BY <3>1, <3>2
  <2>3. ASSUME OwnerEffect PROVE UnwrittenBlamed' /\ OverrunBlamed'
    <3>1. at'[Owner] # "idle"
      BY <2>3 DEF OwnerEffect, QuitEffect, AcquireEffect, StopEffect, SignalWorkersEffect,
                  JoinEffect, Alone
    <3>2. "unwritten" \notin mishap'
      <4>1. CASE AcquireEffect(Owner)
        <5>1. mishap' \subseteq mishap \cup {"overrun", "overlap"}
          BY <4>1 DEF AcquireEffect
        <5> QED BY <1>0, <5>1
      <4>2. CASE ~ AcquireEffect(Owner)
        <5>1. mishap' \subseteq mishap \cup {"lost"}
          BY <2>3, <4>2 DEF OwnerEffect, QuitEffect, StopEffect, StoreEffect, SignalWorkersEffect,
                            JoinEffect
        <5> QED BY <1>0, <5>1
      <4> QED BY <4>1, <4>2
    <3> QED BY <3>1, <3>2 DEF UnwrittenBlamed, OverrunBlamed
  <2> QED BY <2>1, <2>2, <2>3 DEF PoolEffect
<1> QED BY <1>1, <1>2
-----------------------------------------------------------------------------
(* The invariant *)

(* While nothing has gone wrong, every part of the invariant is kept. *)
LEMMA CleanStep ==
    ASSUME PoolTypes, PoolTypes', HaveJobs, OwnerAlone, Turns, CleanInv, Clean', PoolEffect
    PROVE  CleanInv'
<1>0. /\ FreeList /\ Owned /\ Numbered /\ ToRun /\ Ids /\ Total /\ Counted
      /\ Window /\ StopsLast /\ Promised
  BY DEF CleanInv
<1>1. ASSUME NEW c \in Callers, CallerEffect(c) PROVE CleanInv'
  <2>1. FreeList'
    BY <1>0, <1>1, FreeListCaller
  <2>2. Owned'
    BY <1>0, <1>1, OwnedCaller
  <2>3. Numbered'
    BY <1>0, <1>1, NumberedCaller
  <2>4. ToRun'
    BY <1>0, <1>1, ToRunCaller
  <2>5. Ids'
    BY <1>0, <1>1, IdsCaller
  <2>6. Total'
    BY <1>0, <1>1, <2>2, TotalCaller
  <2>7. Counted'
    BY <1>0, <1>1, CountedCaller
  <2>8. Window'
    BY <1>0, <1>1, WindowCaller
  <2>9. StopsLast'
    BY <1>0, <1>1, StopsCaller
  <2>10. Promised'
    BY <1>0, <1>1, PromisedCaller
  <2> QED BY <2>1, <2>2, <2>3, <2>4, <2>5, <2>6, <2>7, <2>8, <2>9, <2>10 DEF CleanInv
<1>2. ASSUME NEW w \in Workers, WorkerEffect(w) PROVE CleanInv'
  <2>1. FreeList'
    BY <1>0, <1>2, FreeListWorker
  <2>2. Owned'
    BY <1>0, <1>2, OwnedWorker
  <2>3. Numbered'
    BY <1>0, <1>2, NumberedWorker
  <2>4. ToRun'
    BY <1>0, <1>2, ToRunWorker
  <2>5. Ids'
    BY <1>0, <1>2, IdsWorker
  <2>6. Total'
    BY <1>0, <1>2, <2>2, TotalWorker
  <2>7. Counted'
    BY <1>0, <1>2, CountedWorker
  <2>8. Window'
    BY <1>0, <1>2, WindowWorker
  <2>9. StopsLast'
    BY <1>0, <1>2, StopsWorker
  <2>10. Promised'
    BY <1>0, <1>2, PromisedWorker
  <2> QED BY <2>1, <2>2, <2>3, <2>4, <2>5, <2>6, <2>7, <2>8, <2>9, <2>10 DEF CleanInv
<1>3. ASSUME OwnerEffect PROVE CleanInv'
  <2>1. FreeList'
    BY <1>0, <1>3, FreeListOwner
  <2>2. Owned'
    BY <1>0, <1>3, OwnedOwner
  <2>3. Numbered'
    BY <1>0, <1>3, NumberedOwner
  <2>4. ToRun'
    BY <1>0, <1>3, ToRunOwner
  <2>5. Ids'
    BY <1>0, <1>3, IdsOwner
  <2>6. Total'
    BY <1>0, <1>3, <2>2, TotalOwner
  <2>7. Counted'
    BY <1>0, <1>3, CountedOwner
  <2>8. Window'
    BY <1>0, <1>3, WindowOwner
  <2>9. StopsLast'
    BY <1>0, <1>3, StopsOwner
  <2>10. Promised'
    BY <1>0, <1>3, PromisedOwner
  <2> QED BY <2>1, <2>2, <2>3, <2>4, <2>5, <2>6, <2>7, <2>8, <2>9, <2>10 DEF CleanInv
<1> QED BY <1>1, <1>2, <1>3 DEF PoolEffect

(* No step leaves too few signals for the workers and the jobs. *)
LEMMA EnoughStep ==
    ASSUME PoolTypes, PoolTypes', Turns, Enough, PoolEffect
    PROVE  EnoughUnlessDamage'
<1>1. ASSUME NEW c \in Callers, CallerEffect(c) PROVE EnoughUnlessDamage'
  BY <1>1, EnoughCaller DEF EnoughUnlessDamage
<1>2. ASSUME NEW w \in Workers, WorkerEffect(w) PROVE EnoughUnlessDamage'
  BY <1>2, EnoughWorker
<1>3. ASSUME OwnerEffect PROVE EnoughUnlessDamage'
  BY <1>3, EnoughOwner DEF EnoughUnlessDamage
<1> QED BY <1>1, <1>2, <1>3 DEF PoolEffect

(* Every step of the pool keeps the invariant. *)
LEMMA PoolInvStep ==
    ASSUME PoolInv, PoolNext
    PROVE  PoolInv'
<1>0. /\ PoolTypes /\ HaveJobs /\ OwnerAlone /\ Turns
      /\ NoStopYet /\ DamageShown /\ UnwrittenBlamed /\ OverrunBlamed
      /\ EnoughUnlessDamage
      /\ Clean => CleanInv
  BY DEF PoolInv
<1>1. Damage = {}
  BY DEF PoolNext, CallerStep, WorkerStep, OwnerStep
<1>2. ASSUME NEW c \in Callers, at[c] = "exchange" \/ (at[c] = "take" /\ complete > 0)
      PROVE  freeHead # Null
  <2>1. at[Owner] = "idle"
    BY <1>0, <1>2 DEF OwnerAlone
  <2>2. Clean
    BY <1>0, <1>1, <2>1 DEF OverrunBlamed, Clean
  <2> QED BY <1>0, <1>2, <2>2, HasHead DEF CleanInv
<1>3. PoolTypes' /\ HaveJobs' /\ PoolEffect
  BY <1>0, <1>2, PoolEffects
<1>4. OwnerAlone' /\ Turns'
  BY <1>0, <1>3, AloneStep
<1>5. NoStopYet'
  BY <1>0, <1>3, NoStopStep
<1>6. DamageShown'
  BY <1>0, <1>1, <1>3, DamageStep
<1>7. UnwrittenBlamed' /\ OverrunBlamed'
  BY <1>0, <1>1, <1>3, BlameStep
<1>8. EnoughUnlessDamage'
  <2>1. Enough
    BY <1>0, <1>1 DEF EnoughUnlessDamage
  <2> QED BY <1>0, <1>3, <2>1, EnoughStep
<1>9. ASSUME Clean' PROVE CleanInv'
  <2>1. Clean
    BY <1>1, <1>3, <1>9, MishapsGrow DEF Clean
  <2> QED BY <1>0, <1>3, <1>9, <2>1, CleanStep
<1> QED BY <1>3, <1>4, <1>5, <1>6, <1>7, <1>8, <1>9 DEF PoolInv

(* So does a step that changes nothing. *)
LEMMA PoolInvStutter ==
    ASSUME PoolInv, UNCHANGED poolVars
    PROVE  PoolInv'
<1>1. /\ jobs' = jobs /\ freeHead' = freeHead /\ ring' = ring /\ unread' = unread
      /\ mishap' = mishap /\ pending' = pending /\ complete' = complete /\ joinable' = joinable
      /\ ids' = ids /\ created' = created /\ ran' = ran /\ at' = at /\ loc' = loc
  BY DEF poolVars, list, queue, counts, history
<1>2. PoolTypes' <=> PoolTypes
  BY <1>1 DEF PoolTypes, Controls
<1>3. (HaveJobs' <=> HaveJobs) /\ (OwnerAlone' <=> OwnerAlone) /\ (Turns' <=> Turns)
  BY <1>1 DEF HaveJobs, Holds, OwnerAlone, Turns, W
<1>4. /\ NoStopYet' <=> NoStopYet
      /\ DamageShown' <=> DamageShown
      /\ UnwrittenBlamed' <=> UnwrittenBlamed
      /\ OverrunBlamed' <=> OverrunBlamed
  BY <1>1 DEF NoStopYet, DamageShown, UnwrittenBlamed, OverrunBlamed, Damage
<1>5. Clean' <=> Clean
  BY <1>1 DEF Clean, Damage
<1>6. Claiming' = Claiming /\ Signalling' = Signalling /\ Stopped' = Stopped /\ JobsLeft' = JobsLeft
      /\ OwnerWrote' = OwnerWrote /\ OwnerSignals' = OwnerSignals /\ W' = W
  BY <1>1 DEF Claiming, Signalling, Stopped, JobsLeft, NumberAt, OwnerWrote, OwnerSignals, W
<1>7. (EnoughUnlessDamage' <=> EnoughUnlessDamage) /\ (Promised' <=> Promised)
  BY <1>1, <1>6 DEF EnoughUnlessDamage, Enough, Damage, Promised
<1>8. FreeJobs' = FreeJobs /\ (FreeList' <=> FreeList)
  BY <1>1 DEF FreeJobs, FreeList, Holders
<1>9. Owned' <=> Owned
  BY <1>1, <1>8 DEF Owned, Holds
<1>10. Numbered' <=> Numbered
  BY <1>1 DEF Numbered, Creating
<1>11. ToRun' <=> ToRun
  BY <1>1 DEF ToRun, Fresh
<1>12. \A k, i : Named(k, i)' <=> Named(k, i)
  BY <1>1 DEF Named, Reaches, Owed
<1>13. Ids' <=> Ids
  <2>1. Gens' <=> Gens
    BY <1>1 DEF Gens
  <2>2. \A k, i : NamedJob(k, i)' <=> NamedJob(k, i)
    BY <1>1, <1>8 DEF NamedJob, Holds, Waiter, Running
  <2>3. Names' <=> Names
    BY <1>12, <2>2 DEF Names
  <2>4. Awaits' <=> Awaits
    BY <1>1 DEF Awaits, Reaches
  <2>5. Waits' <=> Waits
    BY <1>1 DEF Waits, Waiter
  <2> QED BY <2>1, <2>3, <2>4, <2>5 DEF Ids
<1>14. Total' <=> Total
  <2>1. \A i : (Placed(i)' <=> Placed(i)) /\ (Claimable(i)' <=> Claimable(i))
    BY <1>1, <1>8, <1>12 DEF Placed, Claimable, Holds, Running
  <2> QED BY <1>1, <1>12, <2>1 DEF Total
<1>15. Counted' <=> Counted
  BY <1>1 DEF Counted, Joining, Valid, Leaving, get_job_data
<1>16. Window' <=> Window
  BY <1>1 DEF Window, Windowed, Pushed
<1>17. StopsLast' <=> StopsLast
  BY <1>1 DEF StopsLast
<1>18. CleanInv' <=> CleanInv
  BY <1>7, <1>8, <1>9, <1>10, <1>11, <1>13, <1>14, <1>15, <1>16, <1>17 DEF CleanInv
<1> QED BY <1>2, <1>3, <1>4, <1>5, <1>7, <1>18 DEF PoolInv

(* A new pool satisfies it. *)
LEMMA PoolInvInit ==
    ASSUME PoolInit
    PROVE  PoolInv
<1>0. Slots \in Nat \ {0} /\ MaxJobs \in Nat /\ 0 \in Places /\ Null \notin Places /\ 0 \notin Instances
  BY PoolAssumption, AgentFacts
<1>1. /\ \A p \in Agents : at[p] \in {"wait", "idle"} /\ loc[p] = NoLocals
      /\ \A c \in Callers : at[c] = "idle"
      /\ \A w \in Workers : at[w] = "wait"
      /\ at[Owner] = "idle"
      /\ DOMAIN at = Agents
  BY AgentFacts DEF PoolInit
<1>2. /\ freeHead = 0 /\ unread = {} /\ mishap = {} /\ pending = 0 /\ complete = Slots
      /\ joinable = 0 /\ created = 0
      /\ \A k \in Instances : ids[k] = NoId /\ ran[k] = 0
      /\ ring.head = 0 /\ ring.temp = 0
      /\ \A r \in Places : ring.cells[r] = 0
  BY DEF PoolInit
<1>3. \A i \in Places :
        /\ jobs[i].next = IF i < Slots - 1 THEN i + 1 ELSE Null
        /\ ~ jobs[i].done /\ ~ jobs[i].join /\ jobs[i].sem = 0 /\ jobs[i].inst = 0
  BY DEF PoolInit
<1>4. Damage = {}
  BY <1>2 DEF Damage
<1>5. PoolTypes
  <2>1. ASSUME NEW i \in Places PROVE (IF i < Slots - 1 THEN i + 1 ELSE Null) \in Index
    BY <1>0 DEF Index, Places
  <2>2. jobs \in [Places -> JobRecord]
    BY <2>1 DEF PoolInit, JobRecord
  <2>3. freeHead \in Index /\ ring \in [head : Places, tail : Places, temp : Places, cells : [Places -> Index]]
    BY <1>0 DEF PoolInit, Index
  <2>4. NoLocals \in Locals
    BY <1>0 DEF NoLocals, Locals, Index
  <2>5. loc \in [Agents -> Locals]
    BY <2>4 DEF PoolInit
  <2>6. Controls
    BY <1>1 DEF Controls, PoolInit, CallerPC, WorkerPC, OwnerPC
  <2>7. ids \in [Instances -> [gen : Nat, idx : Places] \cup {NoId}] /\ ran \in [Instances \cup {0} -> Nat]
    BY DEF PoolInit
  <2> QED BY <1>0, <1>2, <2>2, <2>3, <2>5, <2>6, <2>7 DEF PoolTypes
<1>6. \A p \in Agents : ~ Holds(p)
  BY <1>1 DEF Holds, Holding
<1>7. HaveJobs /\ OwnerAlone /\ Turns
  <2>1. loc[Owner].join = FALSE /\ loc[Owner].turn = 0
    BY <1>1, AgentFacts DEF NoLocals
  <2>2. W \in Nat /\ W # 0
    <3>1. Cardinality(Workers) \in Nat /\ Cardinality(Workers) # 0
      BY PoolAssumption, FS_CardinalityType, FS_EmptySet
    <3> QED BY <3>1 DEF W
  <2> QED BY <1>1, <1>6, <2>1, <2>2 DEF HaveJobs, OwnerAlone, Turns
<1>8. NoStopYet /\ DamageShown /\ UnwrittenBlamed /\ OverrunBlamed
  BY <1>0, <1>1, <1>2, <1>4 DEF NoStopYet, DamageShown, UnwrittenBlamed, OverrunBlamed
<1>9. Claiming = 0 /\ Signalling = 0 /\ Stopped = 0 /\ JobsLeft = 0 /\ Cardinality(unread) = 0
  <2>1. /\ {p \in Workers : at[p] = "claim"} = {} /\ {p \in Callers : at[p] = "signal"} = {}
        /\ {p \in Workers : at[p] = "stopped"} = {} /\ JobsIn(unread, ring.cells) = {}
    BY <1>1, <1>2 DEF JobsIn
  <2> QED BY <1>2, <2>1, FS_EmptySet DEF Claiming, Signalling, Stopped, JobsLeft, NumberAt
<1>10. OwnerWrote = 0 /\ OwnerSignals = W /\ W \in Nat
  BY <1>1, <1>5, <1>7, TallyTypes DEF OwnerWrote, OwnerSignals
<1>11. EnoughUnlessDamage /\ Promised
  BY <1>2, <1>9, <1>10 DEF EnoughUnlessDamage, Enough, Promised
<1>12. FreeList
  <2> DEFINE f == [i \in Nat |-> IF i \in 1 .. Slots THEN Slots - i ELSE 0]
  <2>1. /\ f \in [Nat -> Places] /\ \A i \in 1 .. Slots : f[i] = Slots - i /\ f[i] \in Places
    BY <1>0 DEF Places
  <2> HIDE DEF f
  <2>2. Stacked(f, Slots, freeHead, jobs)
    <3>1. \A i, j \in 1 .. Slots : f[i] = f[j] => i = j
      BY <1>0, <2>1
    <3>2. freeHead = f[Slots]
      BY <1>0, <1>2, <2>1
    <3>3. ASSUME NEW i \in 1 .. Slots PROVE jobs[f[i]].next = IF i = 1 THEN Null ELSE f[i - 1]
      <4>1. jobs[f[i]].next = IF f[i] < Slots - 1 THEN f[i] + 1 ELSE Null
        BY <1>3, <2>1
      <4>2. f[i] = Slots - i
        BY <2>1
      <4>3. i # 1 => f[i - 1] = Slots - (i - 1)
        BY <1>0, <2>1
      <4> QED BY <1>0, <4>1, <4>2, <4>3
    <3> QED BY <1>0, <3>1, <3>2, <3>3 DEF Stacked
  <2>3. IsStack(freeHead, jobs)
    BY <1>0, <2>1, <2>2 DEF IsStack
  <2>4. FreeJobs = {f[i] : i \in 1 .. Slots}
    <3>1. Slots \in Nat /\ f \in [Nat -> Places]
      BY <1>0, <2>1
    <3>2. ReachableFrom(freeHead, jobs) = {f[i] : i \in 1 .. Slots}
      BY <2>2, <3>1, StackReach
    <3> QED BY <3>2 DEF FreeJobs
  <2>5. FreeJobs = Places
    <3>1. ASSUME NEW r \in Places PROVE \E i \in 1 .. Slots : f[i] = r
      <4>1. Slots - r \in 1 .. Slots /\ Slots - (Slots - r) = r
        BY <1>0 DEF Places
      <4> QED BY <2>1, <4>1
    <3> QED BY <2>1, <2>4, <3>1
  <2>6. Cardinality(FreeJobs) = Slots
    BY <1>0, <2>5, FS_Interval DEF Places
  <2>7. Cardinality(Holders({"exchange", "complete"})) = 0
    <3>1. Holders({"exchange", "complete"}) = {}
      BY <1>1 DEF Holders
    <3> QED BY <3>1, FS_EmptySet
  <2> QED BY <1>0, <1>2, <2>3, <2>6, <2>7 DEF FreeList
<1>13. FreeJobs = Places
  <2>1. FreeJobs \subseteq Places
    BY DEF FreeJobs, ReachableFrom
  <2>2. Cardinality(FreeJobs) = Slots
    <3>1. Holders({"exchange", "complete"}) = {}
      BY <1>1 DEF Holders
    <3> QED BY <1>0, <1>2, <1>12, <3>1, FS_EmptySet DEF FreeList
  <2>3. IsFiniteSet(Places) /\ Cardinality(Places) = Slots
    BY <1>0, FS_Interval DEF Places
  <2> QED BY <2>1, <2>2, <2>3, FS_Subset
<1>14. Owned
  BY <1>2, <1>6 DEF Owned
<1>15. Numbered
  <2>1. \A c \in Callers : ~ Creating(c)
    BY <1>1 DEF Creating
  <2>2. \A i \in Places : jobs[i].inst = 0 /\ jobs[i].inst \in 0 .. created
    BY <1>2, <1>3
  <2>3. \A k \in Instances : ran[k] <= 1
    BY <1>2
  <2> QED BY <1>1, <1>2, <2>1, <2>2, <2>3 DEF Numbered
<1>16. ToRun
  BY <1>1, <1>2 DEF ToRun
<1>17. Ids
  <2>1. \A k \in Instances, i \in Places : ~ Named(k, i)
    BY <1>1, <1>2 DEF Named, Reaches, Owed
  <2> QED BY <1>1, <1>2, <2>1 DEF Ids, Gens, Names, Awaits, Waits, Waiter
<1>18. Total
  BY <1>3, <1>13 DEF Total, Placed
<1>19. Counted
  <2>1. Joining = {} /\ Leaving = {} /\ Valid = {}
    BY <1>1, <1>2 DEF Joining, Leaving, Valid, get_job_data
  <2> QED BY <1>2, <2>1, FS_EmptySet DEF Counted
<1>20. Window
  <2>1. \A r \in Places : ~ Pushed(r) /\ Offset(0, r) \in Nat
    BY <1>0, <1>1, <1>2, OffsetFacts DEF Pushed
  <2>2. Ahead(0, 0) = 0
    BY <1>0 DEF Ahead
  <2>3. Windowed(0)
    <3> HIDE DEF Offset, Ahead, Pushed
    <3> QED BY <1>1, <1>2, <2>1, <2>2 DEF Windowed
  <2> QED BY <1>0, <2>3 DEF Window
<1>21. StopsLast
  BY <1>1, <1>2 DEF StopsLast
<1>22. CleanInv
  BY <1>11, <1>12, <1>14, <1>15, <1>16, <1>17, <1>18, <1>19, <1>20, <1>21 DEF CleanInv
<1> QED BY <1>5, <1>7, <1>8, <1>11, <1>22 DEF PoolInv

(* What the pool's threads share is as the invariant says at every step.   *)
THEOREM PoolInvariant == PoolSpec => []PoolInv
<1>1. PoolInit => PoolInv
  BY PoolInvInit
<1>2. PoolInv /\ [PoolNext]_poolVars => PoolInv'
  BY PoolInvStep, PoolInvStutter
<1> QED BY <1>1, <1>2, PTL DEF PoolSpec
-----------------------------------------------------------------------------
(* What follows from it *)

(* An id that names a structure names the job it was returned for. *)
LEMMA IdsFromInv ==
    ASSUME PoolInv
    PROVE  IdsFaithful
<1>1. SUFFICES ASSUME Clean, NEW k \in Instances, get_job_data(ids[k]) # Null
               PROVE  /\ jobs[get_job_data(ids[k])].inst = k
                      /\ jobs[get_job_data(ids[k])].done => ran[k] = 1
  BY DEF IdsFaithful, Clean
<1>2. Ids /\ PoolTypes
  BY <1>1 DEF PoolInv, CleanInv
<1>3. PICK i \in Places : i = get_job_data(ids[k]) /\ Reaches(k, i)
  BY <1>1, <1>2, AgentFacts DEF get_job_data, PoolTypes, Reaches
<1>4. NamedJob(k, i)
  BY <1>2, <1>3 DEF Ids, Names, Named
<1> QED BY <1>3, <1>4 DEF NamedJob

(* The counters agree with where the structures are. *)
LEMMA SlotsFromInv ==
    ASSUME PoolInv
    PROVE  SlotsAccounted
<1>1. SUFFICES ASSUME Clean
               PROVE  /\ Cardinality(FreeJobs) =
                            complete + Cardinality(Holders({"exchange", "complete"}))
                      /\ \A p \in Holders({"init", "acquire", "write", "run", "free", "link", "push"})
                                     \ {Owner} :
                            /\ loc[p].job \notin FreeJobs
                            /\ loc[p].job \notin {ring.cells[i] : i \in unread}
                      /\ \A i \in unread : ring.cells[i] \notin FreeJobs
                      /\ joinable =
                            Cardinality({c \in Holders({"acquire", "write", "signal"}) : loc[c].join})
                            + Cardinality({k \in Instances : get_job_data(ids[k]) # Null})
                            + Cardinality({c \in Callers \cap Holders({"push", "complete", "uncount"}) :
                                              ids[loc[c].inst] # NoId})
  BY DEF SlotsAccounted, Clean
<1>2. FreeList /\ Owned /\ Counted
  BY <1>1 DEF PoolInv, CleanInv
<1>3. ASSUME NEW p \in Holders({"init", "acquire", "write", "run", "free", "link", "push"}) \ {Owner}
      PROVE  loc[p].job \notin FreeJobs /\ loc[p].job \notin {ring.cells[i] : i \in unread}
  <2>1. p \in Agents /\ Holds(p)
    BY AgentFacts DEF Holders, Holds, Holding
  <2> QED BY <1>2, <2>1 DEF Owned
<1>4. {c \in Holders({"acquire", "write", "signal"}) : loc[c].join} = Joining
  BY DEF Holders, Joining
<1>5. {c \in Callers \cap Holders({"push", "complete", "uncount"}) : ids[loc[c].inst] # NoId} = Leaving
  BY AgentFacts DEF Holders, Leaving
<1>6. \A i \in unread : ring.cells[i] \notin FreeJobs
  BY <1>2 DEF Owned
<1>7. joinable = Cardinality(Joining) + Cardinality({k \in Instances : get_job_data(ids[k]) # Null})
                 + Cardinality(Leaving)
  BY <1>2 DEF Counted, Valid
<1>8. Cardinality(FreeJobs) = complete + Cardinality(Holders({"exchange", "complete"}))
  BY <1>2 DEF FreeList
<1> QED BY <1>3, <1>4, <1>5, <1>6, <1>7, <1>8

(* No job is run twice, or lost while the ring is not overrun. *)
LEMMA OnceFromInv ==
    ASSUME PoolInv
    PROVE  JobsRunOnce
<1>1. ASSUME Clean
      PROVE  /\ \A k \in Instances : ran[k] <= 1
             /\ \A w \in Workers : at[w] = "run" => ran[jobs[loc[w].job].inst] = 0
             /\ at[Owner] = "freed" => \A i \in unread : ring.cells[i] = Null
  <2>1. Numbered /\ ToRun /\ StopsLast
    BY <1>1 DEF PoolInv, CleanInv
  <2>2. Workers # {}
    BY PoolAssumption
  <2> QED BY <2>1, <2>2 DEF Numbered, ToRun, Fresh, StopsLast
<1>2. UnwrittenBlamed /\ OverrunBlamed
  BY DEF PoolInv
<1> QED BY <1>1, <1>2 DEF JobsRunOnce, Clean, UnwrittenBlamed, OverrunBlamed

(* When every structure is held by a joinable job there are as many ids.   *)
LEMMA AllNamed ==
    ASSUME PoolTypes, Ids, \A i \in Places : \E k \in Instances : Reaches(k, i)
    PROVE  Cardinality(Valid) = Slots
<1> DEFINE f == [i \in Places |-> CHOOSE k \in Instances : Reaches(k, i)]
<1>1. \A i \in Places : f[i] \in Instances /\ Reaches(f[i], i)
  OBVIOUS
<1>2. f \in [Places -> Instances]
  OBVIOUS
<1> HIDE DEF f
<1>3. \A k \in Instances : k \in Valid <=> ids[k] # NoId /\ Reaches(k, ids[k].idx)
  BY ValidIff
<1>4. \A i \in Places : f[i] \in Valid
  BY <1>1, <1>3 DEF Reaches
<1>5. \A i \in Places : \A k \in Instances : Reaches(k, i) => jobs[i].inst = k
  BY DEF Ids, Names, Named, NamedJob
<1>6. ASSUME NEW k \in Valid PROVE \E i \in Places : f[i] = k
  <2>1. k \in Instances
    BY DEF Valid
  <2>2. PICK i \in Places : Reaches(k, i)
    BY <1>3, <2>1 DEF PoolTypes
  <2> QED BY <1>1, <1>5, <2>1, <2>2
<1>7. f \in [Places -> Valid]
  BY <1>2, <1>4
<1>8. \A i, j \in Places : f[i] = f[j] => i = j
  BY <1>1 DEF Reaches
<1>9. ExistsBijection(Places, Valid)
  <2>1. f \in Injection(Places, Valid)
    BY <1>7, <1>8 DEF Injection, IsInjective
  <2>2. f \in Surjection(Places, Valid)
    BY <1>6, <1>7 DEF Surjection
  <2> QED BY <2>1, <2>2 DEF ExistsBijection, Bijection
<1>10. IsFiniteSet(Places) /\ Cardinality(Places) = Slots
  BY PoolAssumption, FS_Interval DEF Places
<1> QED BY <1>9, <1>10, FS_Bijection

(* When all are blocked the signals have been used up: the ring is empty,  *)
(* so a job that is waited for is done, and the structures that are not    *)
(* free are held by ids.                                                   *)
LEMMA NoHangFromInv ==
    ASSUME PoolInv
    PROVE  NoHang
<1>0. /\ PoolTypes /\ HaveJobs /\ OwnerAlone /\ Turns /\ NoStopYet /\ DamageShown
      /\ OverrunBlamed /\ EnoughUnlessDamage /\ (Clean => CleanInv) /\ Controls
  BY DEF PoolInv, PoolTypes
<1>1. SUFFICES ASSUME \A p \in Agents : Blocked(p), "lost" \notin mishap
               PROVE  /\ at[Owner] \in {"idle", "freed"}
                      /\ \A c \in Callers : at[c] # "idle" => at[c] = "take" /\ joinable = Slots
  BY DEF NoHang
<1>2. \A p \in Agents : at[p] \in {"take", "wait", "await", "join", "idle", "stopped", "freed"}
  <2>1. SUFFICES ASSUME NEW p \in Agents
                 PROVE  at[p] \in {"take", "wait", "await", "join", "idle", "stopped", "freed"}
    OBVIOUS
  <2>2. Blocked(p)
    BY <1>1
  <2> QED BY <2>2 DEF Blocked
<1>3. /\ \A p \in Agents : at[p] = "take" => complete = 0
      /\ \A p \in Agents : at[p] = "wait" => pending = 0
      /\ \A p \in Agents : at[p] = "await" => jobs[loc[p].job].sem = 0
      /\ \A p \in Agents : at[p] = "join" => \E w \in Workers : at[w] # "stopped"
  <2>1. ASSUME NEW p \in Agents, at[p] = "take" PROVE complete = 0
    BY <1>1, <2>1 DEF Blocked
  <2>2. ASSUME NEW p \in Agents, at[p] = "wait" PROVE pending = 0
    BY <1>1, <2>2 DEF Blocked
  <2>3. ASSUME NEW p \in Agents, at[p] = "await" PROVE jobs[loc[p].job].sem = 0
    BY <1>1, <2>3 DEF Blocked
  <2>4. ASSUME NEW p \in Agents, at[p] = "join" PROVE \E w \in Workers : at[w] # "stopped"
    BY <1>1, <2>4 DEF Blocked
  <2> QED BY <2>1, <2>2, <2>3, <2>4
<1>4. /\ \A w \in Workers : at[w] \in {"wait", "stopped"}
      /\ \A c \in Callers : at[c] \in {"take", "await", "idle"}
      /\ at[Owner] \in {"join", "idle", "freed"}
  BY <1>0, <1>2, AgentFacts DEF Controls, CallerPC, WorkerPC, OwnerPC
<1>5. Enough
  BY <1>0, <1>2 DEF EnoughUnlessDamage
<1>6. Claiming = 0 /\ Signalling = 0
  <2>1. {p \in Workers : at[p] = "claim"} = {} /\ {p \in Callers : at[p] = "signal"} = {}
    BY <1>4
  <2> QED BY <2>1, FS_EmptySet DEF Claiming, Signalling, NumberAt
<1>7. (W - Stopped) + JobsLeft <= pending + OwnerSignals
  BY <1>0, <1>1, <1>5, <1>6, TallyTypes DEF Enough
<1>8. Stopped \in Nat /\ ((\E w \in Workers : at[w] # "stopped") => Stopped < W)
  <2> DEFINE S == {w \in Workers : at[w] = "stopped"}
  <2>1. IsFiniteSet(Workers) /\ S \in SUBSET Workers
    BY FiniteAgents
  <2>2. Cardinality(S) <= W /\ (W = Cardinality(S) => S = Workers) /\ Cardinality(S) \in Nat /\ W \in Nat
    BY <2>1, FS_Subset, FS_CardinalityType DEF W
  <2>3. Stopped = Cardinality(S)
    BY DEF Stopped, NumberAt
  <2>4. (\E w \in Workers : at[w] # "stopped") => S # Workers
    OBVIOUS
  <2> HIDE DEF S
  <2> QED BY <2>2, <2>3, <2>4
<1>9. at[Owner] # "join"
  <2>1. SUFFICES ASSUME at[Owner] = "join" PROVE FALSE
    OBVIOUS
  <2>2. PICK w \in Workers : at[w] = "wait"
    BY <1>3, <1>4, <2>1, AgentFacts
  <2>3. pending = 0 /\ OwnerSignals = 0 /\ Stopped < W
    BY <1>3, <1>8, <2>1, <2>2, AgentFacts DEF OwnerSignals
  <2> QED BY <1>0, <1>7, <1>8, <2>3, TallyTypes
<1>10. ASSUME NEW c \in Callers, at[c] # "idle" PROVE at[c] = "take" /\ joinable = Slots
  <2>1. at[Owner] = "idle"
    BY <1>0, <1>10 DEF OwnerAlone
  <2>2. Damage = {}
    BY <1>0, <1>2, <2>1 DEF DamageShown
  <2>3. Clean
    BY <1>0, <2>1, <2>2 DEF OverrunBlamed, Clean
  <2>4. FreeList /\ Ids /\ Total /\ Counted
    BY <1>0, <2>3 DEF CleanInv
  <2>5. \A w \in Workers : at[w] = "wait"
    BY <1>0, <1>4, <2>1 DEF NoStopYet
  <2>6. pending = 0 /\ OwnerSignals = W /\ Stopped = 0
    <3>1. Workers # {}
      BY PoolAssumption
    <3>2. pending = 0
      BY <1>3, <2>5, <3>1, AgentFacts
    <3>3. {p \in Workers : at[p] = "stopped"} = {}
      BY <2>5
    <3> QED BY <2>1, <3>2, <3>3, FS_EmptySet DEF OwnerSignals, Stopped, NumberAt
  <2>7. unread = {}
    <3>1. JobsLeft = 0
      BY <1>0, <1>7, <2>6, TallyTypes
    <3>2. JobsIn(unread, ring.cells) = {}
      BY <1>0, <3>1, TallyTypes, FS_EmptySet DEF JobsLeft
    <3>3. \A r \in unread : ring.cells[r] # Null
      BY <1>0, <2>1 DEF NoStopYet, PoolTypes
    <3> QED BY <3>2, <3>3 DEF JobsIn
  <2>8. ASSUME NEW p \in Agents PROVE ~ Holds(p) /\ at[p] \notin {"run", "signal", "free"}
    BY <1>2 DEF Holds, Holding
  <2>9. ASSUME NEW d \in Callers PROVE at[d] # "await"
    <3>1. SUFFICES ASSUME at[d] = "await" PROVE FALSE
      OBVIOUS
    <3>2. PICK i \in Places : i = loc[d].job
      BY <1>0, <3>1 DEF HaveJobs
    <3>3. PICK k : k = loc[d].inst /\ Reaches(k, i)
      BY <2>4, <3>1, <3>2 DEF Ids, Awaits
    <3>4. k \in Instances
      BY <1>0, <2>3, <3>1, <3>3, InstTypes DEF CleanInv
    <3>5. NamedJob(k, i)
      BY <2>4, <3>3, <3>4 DEF Ids, Names, Named
    <3>6. jobs[i].sem = 0
      BY <1>3, <3>1, <3>2, AgentFacts
    <3>7. ~ jobs[i].done
      BY <2>8, <3>5, <3>6, AgentFacts DEF NamedJob, Waiter
    <3> QED BY <2>7, <2>8, <3>5, <3>7, AgentFacts DEF NamedJob, Running
  <2>10. at[c] = "take" /\ complete = 0
    BY <1>3, <1>4, <1>10, <2>9, AgentFacts
  <2>11. FreeJobs = {}
    <3>1. Holders({"exchange", "complete"}) = {}
      BY <1>2 DEF Holders
    <3>2. Cardinality(FreeJobs) = 0
      BY <2>4, <2>10, <3>1, FS_EmptySet DEF FreeList
    <3>3. IsFiniteSet(FreeJobs)
      <4>1. FreeJobs \subseteq Places
        BY DEF FreeJobs, ReachableFrom
      <4> QED BY <4>1, FiniteAgents, FS_Subset
    <3> QED BY <3>2, <3>3, FS_EmptySet
  <2>12. ASSUME NEW i \in Places PROVE \E k \in Instances : Reaches(k, i)
    <3>1. PICK k \in Instances : Named(k, i)
      BY <2>4, <2>7, <2>8, <2>11 DEF Total, Placed
    <3> QED BY <2>8, <3>1, AgentFacts DEF Named, Owed
  <2>13. Cardinality(Valid) = Slots
    BY <1>0, <2>4, <2>12, AllNamed
  <2>14. Joining = {} /\ Leaving = {}
    BY <1>2, <1>4 DEF Joining, Leaving
  <2> QED BY <2>4, <2>10, <2>13, <2>14, FS_EmptySet, PoolAssumption DEF Counted
<1> QED BY <1>4, <1>9, <1>10

(* An id that still names a structure names the job that create_job        *)
(* returned it for, however often the structure was freed and taken again; *)
(* a job counts as done once it has been run.                              *)
THEOREM PoolIdsFaithful == PoolSpec => []IdsFaithful
<1>1. PoolInv => IdsFaithful
  BY IdsFromInv
<1> QED BY <1>1, PoolInvariant, PTL

(* Every structure is in one place, and complete and joinable_count are    *)
(* what the structures and the ids say, at every step of free_list_pop,    *)
(* free_list_push, create_job and basic_thread_pool_wait.                  *)
THEOREM PoolSlotsAccounted == PoolSpec => []SlotsAccounted
<1>1. PoolInv => SlotsAccounted
  BY SlotsFromInv
<1> QED BY <1>1, PoolInvariant, PTL

(* No job is run twice; none is lost by lock_free_queue_try_pop or by the  *)
(* push of create_job while one caller pushes at a time and no pop sleeps  *)
(* for a lap; only job_system_free can overrun the ring.                   *)
THEOREM PoolJobsRunOnce == PoolSpec => []JobsRunOnce
<1>1. PoolInv => JobsRunOnce
  BY OnceFromInv
<1> QED BY <1>1, PoolInvariant, PTL

(* When nobody can go on, nobody waits in vain: neither                    *)
(* basic_thread_pool_wait nor the join of job_system_free, and create_job  *)
(* only while every structure is held by a joinable job.                   *)
THEOREM PoolNoHang == PoolSpec => []NoHang
<1>1. PoolInv => NoHang
  BY NoHangFromInv
<1> QED BY <1>1, PoolInvariant, PTL
=============================================================================
