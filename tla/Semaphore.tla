------------------------------ MODULE Semaphore ------------------------------
(***************************************************************************)
(* thread/sync.c: semaphore_t, a counting semaphore made of a mutex and a  *)
(* condition variable, on which a thread waits for several units at once.  *)
(* What runs under the mutex is one step; os_condvar_wait releases it and  *)
(* takes it again when the thread is woken, woken without a reason, or     *)
(* when its time is up.                                                    *)
(***************************************************************************)
EXTENDS Integers, FiniteSets

CONSTANTS Threads,     \* threads that call semaphore_wait
          Counts,      \* what wait and signal are called with
          InitCounts,  \* what semaphore_create is called with
          MaxSignals   \* bound of the model: calls of semaphore_signal

ASSUME CountAssumption ==
    /\ Counts \subseteq Nat \ {0}
    /\ InitCounts \subseteq Int
    /\ IsFiniteSet(Threads)

VARIABLES count,    \* sem->count
          initial,  \* what it was created with
          pc,       \* control of each thread
          need,     \* its count argument
          timed,    \* its timeout_ms is not negative
          late,     \* more than timeout_ms has passed since it called
          signals,  \* calls of semaphore_signal so far
          given,    \* units they added
          taken     \* units the waits took

thread == <<need, timed, late>>
ghosts == <<initial, signals, given, taken>>
vars == <<count, initial, pc, need, timed, late, signals, given, taken>>

Goto(t, l) == pc' = [pc EXCEPT ![t] = l]

Init ==
    /\ initial \in InitCounts
    /\ count = initial
    /\ pc = [t \in Threads |-> "idle"]
    /\ need = [t \in Threads |-> 0]
    /\ timed = [t \in Threads |-> FALSE]
    /\ late = [t \in Threads |-> FALSE]
    /\ signals = 0 /\ given = 0 /\ taken = 0
-----------------------------------------------------------------------------
semaphore_wait(t, n, b) ==
    /\ pc[t] = "idle"
    /\ need' = [need EXCEPT ![t] = n]
    /\ timed' = [timed EXCEPT ![t] = b]
    /\ late' = [late EXCEPT ![t] = FALSE]
    /\ Goto(t, "loop")
    /\ UNCHANGED <<count, ghosts>>

(* Mutant of Loop: the test accepts a count of zero. *)
LoopZeroCounts(t) ==
    /\ pc[t] = "loop"
    /\ IF count >= 0
       THEN /\ count' = count - need[t]
            /\ taken' = taken + need[t]
            /\ Goto(t, "idle")
       ELSE /\ Goto(t, IF timed[t] /\ ~late[t] THEN "asleep_limited" ELSE "asleep")
            /\ UNCHANGED <<count, taken>>
    /\ UNCHANGED <<thread, initial, signals, given>>

(* One turn of the loop, with the mutex held.  remaining_ms is negative    *)
(* without a timeout, and also when more than the timeout has passed: the  *)
(* wait then has no limit.                                                 *)
Loop(t) ==
    /\ pc[t] = "loop"
    /\ IF count >= need[t]
       THEN /\ count' = count - need[t]
            /\ taken' = taken + need[t]
            /\ Goto(t, "idle")
       ELSE /\ Goto(t, IF timed[t] /\ ~late[t] THEN "asleep_limited" ELSE "asleep")
            /\ UNCHANGED <<count, taken>>
    /\ UNCHANGED <<thread, initial, signals, given>>

Asleep == {"asleep", "asleep_limited"}

(* Time goes by for a thread inside a timed wait. *)
TimePasses(t) ==
    /\ pc[t] # "idle"
    /\ timed[t]
    /\ ~late[t]
    /\ late' = [late EXCEPT ![t] = TRUE]
    /\ UNCHANGED <<count, pc, need, timed, ghosts>>

(* os_condvar_wait returns false and so does semaphore_wait, whatever      *)
(* count is by then.                                                       *)
TimeOut(t) ==
    /\ pc[t] = "asleep_limited"
    /\ late[t]
    /\ Goto(t, "idle")
    /\ UNCHANGED <<count, thread, ghosts>>

SpuriousWakeup(t) ==
    /\ pc[t] \in Asleep
    /\ Goto(t, "loop")
    /\ UNCHANGED <<count, thread, ghosts>>

(* Mutant of semaphore_signal: it adds the units and wakes nobody. *)
semaphore_signalSilent(n) ==
    /\ signals < MaxSignals
    /\ signals' = signals + 1
    /\ given' = given + n
    /\ count' = count + n
    /\ UNCHANGED <<pc, thread, initial, taken>>

(* Adds n units and wakes one sleeping thread if any unit is available. *)
semaphore_signal(n) ==
    /\ signals < MaxSignals
    /\ signals' = signals + 1
    /\ given' = given + n
    /\ count' = count + n
    /\ LET sleeping == {t \in Threads : pc[t] \in Asleep}
       IN  IF count + n > 0 /\ sleeping # {}
           THEN \E t \in sleeping : Goto(t, "loop")
           ELSE UNCHANGED pc
    /\ UNCHANGED <<thread, initial, taken>>
-----------------------------------------------------------------------------
Next ==
    \/ \E t \in Threads :
          \/ \E n \in Counts, b \in BOOLEAN : semaphore_wait(t, n, b)
          \/ Loop(t) \/ TimePasses(t) \/ TimeOut(t) \/ SpuriousWakeup(t)
    \/ \E n \in Counts : semaphore_signal(n)

Spec == Init /\ [][Next]_vars
-----------------------------------------------------------------------------
(* The count is an integer, negative only if the semaphore was created     *)
(* negative, and each thread is outside or at a point of semaphore_wait.   *)
TypeOK ==
    /\ count \in Int /\ initial \in Int
    /\ count < 0 => initial <= count
    /\ pc \in [Threads -> {"idle", "loop"} \cup Asleep]
    /\ need \in [Threads -> Nat]
    /\ timed \in [Threads -> BOOLEAN] /\ late \in [Threads -> BOOLEAN]
    /\ signals \in Nat /\ given \in Nat /\ taken \in Nat

(* What count is made of; once a wait has succeeded it is never negative. *)
Balance ==
    /\ count = initial + given - taken
    /\ taken > 0 => count >= 0

(* Never more units are taken than there were at first and were signalled, *)
(* although a woken thread may find its units gone.                        *)
NotOversold == taken > 0 => taken <= initial + given

(* The threads that were woken or have not slept yet. *)
Awake == {t \in Threads : pc[t] = "loop"}

(* Why: with units of one, as long as somebody sleeps at least as many     *)
(* threads are on the way as there are units.                              *)
EnoughAwake ==
    /\ \A t \in Threads : pc[t] # "idle" => need[t] = 1
    /\ (\E t \in Threads : pc[t] \in Asleep) => count <= Cardinality(Awake)

(* With units of one, no thread sleeps through an available unit: whenever *)
(* count is positive, somebody who was woken is on the way to it.          *)
NoStuckWaiter ==
    (\E t \in Threads : pc[t] \in Asleep /\ need[t] <= count)
        => \E u \in Threads : pc[u] = "loop"
=============================================================================
