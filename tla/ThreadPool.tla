----------------------------- MODULE ThreadPool -----------------------------
(***************************************************************************)
(* thread/thread_pool.c: a fixed array of job structures, a lock-free list *)
(* of the free ones, a ring of the indices of the pending ones, and two    *)
(* semaphores: complete counts the free structures, pending the indices in *)
(* the ring.  The ring has no test for full or empty and relies on them.   *)
(*                                                                         *)
(* Callers create jobs and wait for the joinable ones, workers run them,   *)
(* and in the end the owner frees the pool, with jobs pending or not.  An  *)
(* atomic operation, or a write that no other thread can see in between,   *)
(* is one step.  The structures are declared in no file of the repository: *)
(* their fields are those the code uses, joinable_count as atomic as the   *)
(* counters of the ring.                                                   *)
(***************************************************************************)
EXTENDS Integers, FiniteSets

CONSTANTS Callers,   \* threads that create jobs and wait for them
          Workers,   \* the worker threads
          Owner,     \* the thread that calls job_system_free
          Slots,     \* max_jobs
          MaxJobs    \* bound of the model: jobs created

ASSUME PoolAssumption ==
    /\ Slots \in Nat \ {0}
    /\ MaxJobs \in Nat
    /\ IsFiniteSet(Callers)
    /\ IsFiniteSet(Workers) /\ Workers # {}
    /\ Callers \cap Workers = {}
    /\ Owner \notin Callers \cup Workers

Agents == Callers \cup Workers \cup {Owner}

VARIABLES jobs,      \* pool->jobs; inst is the number of the job a structure holds
          freeHead,  \* pool->free_jobs
          ring,      \* pool->queue
          pending, complete, joinable,
          at,        \* control of each thread
          loc,       \* its local variables
          ids,       \* the id that was returned for each joinable job
          created,   \* jobs so far
          ran,       \* how often each one was run
          unread,    \* places of the ring that were written and not popped
          mishap     \* what has gone wrong: see Suffers

list == <<jobs, freeHead>>
queue == <<ring, unread, mishap>>
counts == <<pending, complete, joinable>>
history == <<ids, created, ran>>
poolVars == <<list, queue, counts, history, at, loc>>

Null == -1   \* no job structure; also the index that stops a worker
NoId == [gen |-> -1, idx |-> -1]
Instances == 1 .. MaxJobs   \* 0 is none: a structure that never held a job
Places == 0 .. Slots - 1
NoLocals == [job |-> Null, old |-> Null, new |-> Null, place |-> 0,
             join |-> FALSE, inst |-> 0, turn |-> 0]

Moves(p, l) == at' = [at EXCEPT ![p] = l]

(* What has gone wrong between the threads:                                *)
(*   overlap      a place was acquired while an earlier one was unwritten  *)
(*   unwritten    a place was popped that nobody had written               *)
(*   stale        a place was popped whose copy was a lap old              *)
(*   overrun      a place was acquired that had not been popped            *)
(*   aba          the free list's head was replaced by a stale successor   *)
(*   lost         a signal of pending was lost at its maximum              *)
Suffers(what) == mishap' = mishap \cup what

(* ensure_init.  The last structure's gen is not initialized: 7 stands for *)
(* what the memory holds.  The ring's cells are not initialized either.    *)
PoolInit ==
    /\ jobs = [i \in Places |->
                  [gen |-> IF i < Slots - 1 THEN 0 ELSE 7,
                   next |-> IF i < Slots - 1 THEN i + 1 ELSE Null,
                   done |-> FALSE, join |-> FALSE, sem |-> 0, inst |-> 0]]
    /\ freeHead = 0
    /\ ring = [head |-> 0, tail |-> 0, temp |-> 0, cells |-> [i \in Places |-> 0]]
    /\ pending = 0 /\ complete = Slots /\ joinable = 0
    /\ at = [p \in Agents |-> IF p \in Workers THEN "wait" ELSE "idle"]
    /\ loc = [p \in Agents |-> NoLocals]
    /\ ids = [k \in Instances |-> NoId]
    /\ created = 0
    /\ ran = [k \in Instances \cup {0} |-> 0]
    /\ unread = {}
    /\ mishap = {}

(* tinycsem_signal on pending, whose maximum is Slots: a signal above it   *)
(* may be lost.  The other semaphores stay within theirs.                  *)
AddPending ==
    \/ /\ pending' = pending + 1
       /\ UNCHANGED mishap
    \/ /\ pending >= Slots
       /\ Suffers({"lost"})
       /\ UNCHANGED pending
-----------------------------------------------------------------------------
(* create_job up to the wait for a free structure.  It returns INVALID_JOB *)
(* at once when every structure is held by a joinable job.                 *)
create_job(c, join) ==
    /\ at[c] = "idle" /\ at[Owner] = "idle"
    /\ created < MaxJobs
    /\ joinable # Slots
    /\ created' = created + 1
    /\ loc' = [loc EXCEPT ![c].join = join, ![c].inst = created + 1]
    /\ Moves(c, "take")
    /\ UNCHANGED <<list, queue, counts, ids, ran>>

(* The two reads of free_list_pop.  Between them nothing can happen that   *)
(* the exchange would not notice as well.                                  *)
PopRead(c) ==
    /\ loc' = [loc EXCEPT ![c].old = freeHead, ![c].new = jobs[freeHead].next]
    /\ Moves(c, "exchange")

(* complete was positive, so the list is not empty and has a head to read. *)
TakeSlot(c) ==
    /\ at[c] = "take"
    /\ complete > 0
    /\ complete' = complete - 1
    /\ PopRead(c)
    /\ UNCHANGED <<list, queue, pending, joinable, history>>

(* The exchange of free_list_pop, and the reads of the next try *)
PopExchange(c) ==
    /\ at[c] = "exchange"
    /\ IF freeHead = loc[c].old
       THEN /\ freeHead' = loc[c].new
            /\ loc' = [loc EXCEPT ![c].job = freeHead, ![c].old = Null, ![c].new = Null]
            /\ Suffers(IF loc[c].new # jobs[freeHead].next THEN {"aba"} ELSE {})
            /\ Moves(c, "init")
       ELSE /\ PopRead(c)
            /\ UNCHANGED <<freeHead, mishap>>
    /\ UNCHANGED <<jobs, ring, unread, counts, history>>

InitJob(c) ==
    LET job == loc[c].job
    IN  /\ at[c] = "init"
        /\ jobs' = [jobs EXCEPT ![job].done = FALSE, ![job].join = loc[c].join,
                                ![job].inst = loc[c].inst,
                                ![job].sem = IF loc[c].join THEN 0 ELSE @]
        /\ joinable' = IF loc[c].join THEN joinable + 1 ELSE joinable
        /\ Moves(c, "acquire")
        /\ UNCHANGED <<queue, history, freeHead, pending, complete, loc>>

(* tinycsem_init fails: the structure goes back to the list. *)
InitFails(c) ==
    /\ at[c] = "init"
    /\ loc[c].join
    /\ jobs' = [jobs EXCEPT ![loc[c].job] =
                  [@ EXCEPT !.done = FALSE, !.join = TRUE, !.inst = loc[c].inst]]
    /\ Moves(c, "link")
    /\ UNCHANGED <<queue, counts, history, freeHead, loc>>

(* acquire_push_location.  Nothing keeps the place from holding an index   *)
(* that was not popped: it is then overrun.                                *)
AcquirePlace(p) ==
    /\ at[p] = "acquire"
    /\ loc' = [loc EXCEPT ![p].place = ring.temp]
    /\ ring' = [ring EXCEPT !.temp = (@ + 1) % Slots]
    /\ Suffers((IF ring.temp \in unread THEN {"overrun"} ELSE {}) \cup
               (IF \E q \in Agents : at[q] = "write" THEN {"overlap"} ELSE {}))
    /\ unread' = unread \ {ring.temp}
    /\ Moves(p, "write")
    /\ UNCHANGED <<list, counts, history>>

(* The item is written and release_push_location moves tail, which nobody  *)
(* reads, without waiting for the places before its own.  The owner goes   *)
(* on with the next worker's index.                                        *)
WriteCell(p) ==
    LET again == p = Owner /\ loc[p].turn < Cardinality(Workers) - 1
    IN  /\ at[p] = "write"
        /\ ring' = [ring EXCEPT !.cells[loc[p].place] = IF p = Owner THEN Null ELSE loc[p].job,
                                !.tail = (@ + 1) % Slots]
        /\ unread' = unread \cup {loc[p].place}
        /\ loc' = [loc EXCEPT ![p].place = 0, ![p].turn = IF again THEN @ + 1 ELSE 0]
        /\ Moves(p, IF again THEN "acquire" ELSE "signal")
        /\ UNCHANGED <<list, mishap, counts, history>>

(* The end of create_job: the caller gets the id of a joinable job.  The   *)
(* signal and get_job_id's read of gen are one step: only a wait on this   *)
(* very id changes the gen of a joinable job.                              *)
SignalPending(c) ==
    /\ at[c] = "signal" /\ c # Owner
    /\ AddPending
    /\ ids' = IF loc[c].join
              THEN [ids EXCEPT ![loc[c].inst] = [gen |-> jobs[loc[c].job].gen, idx |-> loc[c].job]]
              ELSE ids
    /\ loc' = [loc EXCEPT ![c] = NoLocals]
    /\ Moves(c, "idle")
    /\ UNCHANGED <<list, ring, complete, joinable, created, ran, unread>>
-----------------------------------------------------------------------------
(* Mutant of get_job_data: the generation is not compared. *)
get_job_dataAnyGen(id) == IF id # NoId THEN id.idx ELSE Null

(* The structure of a job id, if it still has the id's generation *)
get_job_data(id) == IF id # NoId /\ jobs[id.idx].gen = id.gen THEN id.idx ELSE Null

(* basic_thread_pool_wait.  A job is waited for once: a wait with a stale  *)
(* id returns false and changes nothing, two waits at once are misuse.     *)
basic_thread_pool_wait(c, k) ==
    /\ at[c] = "idle" /\ at[Owner] = "idle"
    /\ get_job_data(ids[k]) # Null
    /\ \A d \in Callers : at[d] \in {"await", "free"} => loc[d].inst # k
    /\ loc' = [loc EXCEPT ![c].job = get_job_data(ids[k]), ![c].inst = k]
    /\ Moves(c, "await")
    /\ UNCHANGED <<list, queue, counts, history>>

AwaitJob(c) ==
    /\ at[c] = "await"
    /\ jobs[loc[c].job].sem > 0
    /\ jobs' = [jobs EXCEPT ![loc[c].job].sem = @ - 1]
    /\ Moves(c, "free")
    /\ UNCHANGED <<queue, counts, history, freeHead, loc>>

(* free_list_push: the read of the head, before the exchange *)
LinkJob(p, gen) ==
    /\ loc' = [loc EXCEPT ![p].old = freeHead]
    /\ jobs' = [jobs EXCEPT ![loc[p].job].next = freeHead, ![loc[p].job].gen = gen]
    /\ Moves(p, "push")

(* free_job invalidates the ids of the structure and puts it on the list.  *)
FreeJob(p) ==
    /\ at[p] = "free"
    /\ LinkJob(p, jobs[loc[p].job].gen + 1)
    /\ UNCHANGED <<freeHead, queue, counts, history>>

(* A caller that could not initialize the semaphore only gives it back.    *)
ReturnJob(c) ==
    /\ at[c] = "link"
    /\ LinkJob(c, jobs[loc[c].job].gen)
    /\ UNCHANGED <<freeHead, queue, counts, history>>

(* Mutant of PushExchange: the head is stored, not exchanged. *)
PushExchangeBlind(p) ==
    /\ at[p] = "push"
    /\ freeHead' = loc[p].job
    /\ Moves(p, "complete")
    /\ UNCHANGED <<jobs, loc, queue, counts, history>>

PushExchange(p) ==
    /\ at[p] = "push"
    /\ IF freeHead = loc[p].old
       THEN /\ freeHead' = loc[p].job
            /\ Moves(p, "complete")
            /\ UNCHANGED <<jobs, loc>>
       ELSE /\ LinkJob(p, jobs[loc[p].job].gen)
            /\ UNCHANGED freeHead
    /\ UNCHANGED <<queue, counts, history>>

(* The structure can be had again; a wait counts the job off afterwards.   *)
SignalComplete(p) ==
    LET waited == p \in Callers /\ ids[loc[p].inst] # NoId
    IN  /\ at[p] = "complete"
        /\ complete' = complete + 1
        /\ loc' = [loc EXCEPT ![p] = IF waited THEN @ ELSE NoLocals]
        /\ Moves(p, IF p \in Workers THEN "wait" ELSE IF waited THEN "uncount" ELSE "idle")
        /\ UNCHANGED <<list, queue, pending, joinable, history>>

Uncount(c) ==
    /\ at[c] = "uncount"
    /\ joinable' = joinable - 1
    /\ loc' = [loc EXCEPT ![c] = NoLocals]
    /\ Moves(c, "idle")
    /\ UNCHANGED <<list, queue, pending, complete, history>>
-----------------------------------------------------------------------------
(* lock_free_queue_try_pop copies the item before it moves the head. *)
ReadCell(w) ==
    /\ loc' = [loc EXCEPT ![w].old = ring.head, ![w].job = ring.cells[ring.head]]
    /\ Moves(w, "claim")

WaitPending(w) ==
    /\ at[w] = "wait"
    /\ pending > 0
    /\ pending' = pending - 1
    /\ ReadCell(w)
    /\ UNCHANGED <<list, queue, complete, joinable, history>>

(* Mutant of ClaimCell: the head is stored, not exchanged. *)
ClaimCellBlind(w) ==
    /\ at[w] = "claim"
    /\ ring' = [ring EXCEPT !.head = (loc[w].old + 1) % Slots]
    /\ unread' = unread \ {loc[w].old}
    /\ loc' = [loc EXCEPT ![w].old = Null]
    /\ Moves(w, IF loc[w].job = Null THEN "stopped" ELSE "run")
    /\ UNCHANGED <<list, mishap, counts, history>>

(* The exchange succeeds if head is what it was, be it a lap later.  The   *)
(* copy is not the item when the place had not been written, or has been   *)
(* written again since.                                                    *)
ClaimCell(w) ==
    /\ at[w] = "claim"
    /\ IF ring.head = loc[w].old
       THEN /\ ring' = [ring EXCEPT !.head = (@ + 1) % Slots]
            /\ Suffers(IF ring.head \notin unread THEN {"unwritten"}
                       ELSE IF ring.cells[ring.head] # loc[w].job THEN {"stale"} ELSE {})
            /\ unread' = unread \ {ring.head}
            /\ loc' = [loc EXCEPT ![w].old = Null]
            /\ Moves(w, IF loc[w].job = Null THEN "stopped" ELSE "run")
       ELSE /\ ReadCell(w)
            /\ UNCHANGED queue
    /\ UNCHANGED <<list, counts, history>>

(* The job's function runs.  Its caller is told, or, without one, the      *)
(* worker frees the structure.                                             *)
RunJob(w) ==
    LET job == jobs[loc[w].job]
    IN  /\ at[w] = "run"
        /\ ran' = [ran EXCEPT ![job.inst] = @ + 1]
        /\ IF job.join
           THEN /\ jobs' = [jobs EXCEPT ![loc[w].job].done = TRUE,
                                       ![loc[w].job].sem = @ + 1]
                /\ loc' = [loc EXCEPT ![w] = NoLocals]
                /\ Moves(w, "wait")
           ELSE /\ Moves(w, "free")
                /\ UNCHANGED <<jobs, loc>>
        /\ UNCHANGED <<freeHead, queue, counts, ids, created>>
-----------------------------------------------------------------------------
(* ensure_deinit, when no call is in progress: an index -1 per worker, a   *)
(* signal per worker, then the workers are joined.                         *)
job_system_free ==
    /\ at[Owner] = "idle"
    /\ \A c \in Callers : at[c] = "idle"
    /\ Moves(Owner, "acquire")
    /\ UNCHANGED <<list, queue, counts, history, loc>>

(* Mutant of SignalWorkers: one signal too few. *)
SignalWorkersOneShort ==
    LET again == loc[Owner].turn < Cardinality(Workers) - 2
    IN  /\ at[Owner] = "signal"
        /\ AddPending
        /\ loc' = [loc EXCEPT ![Owner].turn = IF again THEN @ + 1 ELSE 0]
        /\ Moves(Owner, IF again THEN "signal" ELSE "join")
        /\ UNCHANGED <<list, ring, unread, complete, joinable, history>>

SignalWorkers ==
    LET again == loc[Owner].turn < Cardinality(Workers) - 1
    IN  /\ at[Owner] = "signal"
        /\ AddPending
        /\ loc' = [loc EXCEPT ![Owner].turn = IF again THEN @ + 1 ELSE 0]
        /\ Moves(Owner, IF again THEN "signal" ELSE "join")
        /\ UNCHANGED <<list, history, ring, complete, joinable, unread>>

JoinWorkers ==
    /\ at[Owner] = "join"
    /\ \A w \in Workers : at[w] = "stopped"
    /\ Moves(Owner, "freed")
    /\ UNCHANGED <<list, queue, counts, history, loc>>

(* A worker that has popped an index which is not the ring's, or a caller  *)
(* that has taken a structure in use, does what stale memory tells it: the *)
(* model ends there.                                                       *)
Damage == mishap \cap {"unwritten", "stale", "aba"}

CallerStep(c) ==
    /\ Damage = {}
    /\ \/ TakeSlot(c) \/ PopExchange(c) \/ InitJob(c) \/ InitFails(c)
       \/ AcquirePlace(c) \/ WriteCell(c) \/ SignalPending(c)
       \/ AwaitJob(c) \/ FreeJob(c) \/ ReturnJob(c) \/ PushExchange(c)
       \/ SignalComplete(c) \/ Uncount(c)

WorkerStep(w) ==
    /\ Damage = {}
    /\ \/ WaitPending(w) \/ ClaimCell(w) \/ RunJob(w)
       \/ FreeJob(w) \/ PushExchange(w) \/ SignalComplete(w)

OwnerStep ==
    /\ Damage = {}
    /\ \/ AcquirePlace(Owner) \/ WriteCell(Owner)
       \/ SignalWorkers \/ JoinWorkers

PoolNext ==
    \/ \E c \in Callers :
          \/ Damage = {} /\ \E join \in BOOLEAN : create_job(c, join)
          \/ Damage = {} /\ \E k \in Instances : basic_thread_pool_wait(c, k)
          \/ CallerStep(c)
    \/ \E w \in Workers : WorkerStep(w)
    \/ Damage = {} /\ job_system_free
    \/ OwnerStep

PoolSpec == PoolInit /\ [][PoolNext]_poolVars
-----------------------------------------------------------------------------
(* Jobs are run once, by one worker, while their structure is theirs; with *)
(* every worker gone, each accepted job has been run unless the -1s of     *)
(* job_system_free overran it.  What breaks this: two callers that push at *)
(* once, whose places are published out of order (release_push_location    *)
(* does not wait as its comment says), and a pop that sleeps for a lap of  *)
(* the ring.  Otherwise the ring never overruns, as create_job's comment   *)
(* says, except when the pool is freed.                                    *)
JobsRunOnce ==
    /\ Damage = {} /\ "overrun" \notin mishap =>
          /\ \A k \in Instances : ran[k] <= 1
          /\ \A w \in Workers : at[w] = "run" => ran[jobs[loc[w].job].inst] = 0
          /\ at[Owner] = "freed" => \A i \in unread : ring.cells[i] = Null
    /\ "unwritten" \in mishap => mishap \cap {"overlap", "overrun"} # {}
    /\ "overrun" \in mishap => at[Owner] # "idle" \/ Damage # {}

(* The structures that one reaches from head along the links: the least    *)
(* set that holds head and, with a structure, its successor                *)
ReachableFrom(head, structures) ==
    {i \in Places : \A S \in SUBSET Places :
        /\ head \in S \cup {Null}
        /\ \A j \in S : structures[j].next \in S \cup {Null}
        => i \in S}

(* The structures on the free list *)
FreeJobs == ReachableFrom(freeHead, jobs)

Holders(labels) == {p \in Agents : at[p] \in labels}

(* A structure is on the free list, or with one thread, or in one place of *)
(* the ring, or finished and not yet waited for; complete counts the free  *)
(* ones that nobody has a claim to.                                        *)
SlotsAccounted ==
    Damage = {} /\ "overrun" \notin mishap =>
        /\ Cardinality(FreeJobs) =
              complete + Cardinality(Holders({"exchange", "complete"}))
        /\ \A p \in Holders({"init", "acquire", "write", "run", "free", "link", "push"}) \ {Owner} :
              /\ loc[p].job \notin FreeJobs
              /\ loc[p].job \notin {ring.cells[i] : i \in unread}
        /\ \A i \in unread : ring.cells[i] \notin FreeJobs
        /\ joinable =
              Cardinality({c \in Holders({"acquire", "write", "signal"}) : loc[c].join})
              + Cardinality({k \in Instances : get_job_data(ids[k]) # Null})
              + Cardinality({c \in Callers \cap Holders({"push", "complete", "uncount"}) :
                                ids[loc[c].inst] # NoId})

(* An id names its own job as long as it names any, and the job counts as  *)
(* done only once it has been run: the generation keeps an id of an        *)
(* earlier job from reaching the structure's next one.                     *)
IdsFaithful ==
    Damage = {} /\ "overrun" \notin mishap =>
        \A k \in Instances :
            LET i == get_job_data(ids[k])
            IN  i # Null => jobs[i].inst = k /\ (jobs[i].done => ran[k] = 1)

Blocked(p) ==
    CASE at[p] = "take"  -> complete = 0
      [] at[p] = "wait"  -> pending = 0
      [] at[p] = "await" -> jobs[loc[p].job].sem = 0
      [] at[p] = "join"  -> \E w \in Workers : at[w] # "stopped"
      [] OTHER           -> at[p] \in {"idle", "stopped", "freed"}

(* When every thread is blocked or idle nobody waits in vain: no wait for  *)
(* a joinable job, no job_system_free that joins the workers, even if      *)
(* their -1s have overrun the ring, and a create_job only if every         *)
(* structure is held by a joinable job: it was not refused because the     *)
(* last ones came between its test and its wait.  Not so when a signal was *)
(* lost at the maximum of pending.                                         *)
NoHang ==
    (\A p \in Agents : Blocked(p)) /\ "lost" \notin mishap =>
        /\ at[Owner] \in {"idle", "freed"}
        /\ \A c \in Callers :
              at[c] # "idle" => at[c] = "take" /\ joinable = Slots
=============================================================================
