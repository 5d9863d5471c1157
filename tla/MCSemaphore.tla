---------------------------- MODULE MCSemaphore ----------------------------
(***************************************************************************)
(* Small instances of Semaphore and of ThreadPool for TLC.  They share     *)
(* nothing: a behaviour is about one of them, the subject, and the other   *)
(* stays as it was created.                                                *)
(***************************************************************************)
EXTENDS Semaphore, ThreadPool, TLC

CONSTANTS t1, t2, t3, c1, c2, w1, w2

VARIABLE subject

MCSymmetry ==
    Permutations({t1, t2, t3}) \cup Permutations({c1, c2}) \cup Permutations({w1, w2})

MCInitCounts == {-1, 0, 1}

MCInit ==
    /\ subject \in {"semaphore", "thread pool"}
    /\ Init
    /\ PoolInit
    /\ subject = "thread pool" => initial = 0

MCNext ==
    \/ /\ subject = "semaphore"
       /\ Next
       /\ UNCHANGED <<subject, poolVars>>
    \/ /\ subject = "thread pool"
       /\ PoolNext
       /\ UNCHANGED <<subject, vars>>

MCSpec == MCInit /\ [][MCNext]_<<subject, vars, poolVars>>
=============================================================================
