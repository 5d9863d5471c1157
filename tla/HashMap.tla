------------------------------- MODULE HashMap -------------------------------
(***************************************************************************)
(* hashmap/hash_map.c: an open-addressed hash map behind a mutex.  A       *)
(* removed item leaves a DELETED slot, over which later probes go on; the  *)
(* pool doubles when about 70% of it is USED.  A call holds the mutex from *)
(* its start to its end, so each call is one step.                         *)
(*                                                                         *)
(* A call can also never return: its probe finds no slot to stop at, or it *)
(* locks the mutex a second time on a platform where that blocks.  The     *)
(* mutex then stays locked and every later call waits for it.              *)
(***************************************************************************)
EXTENDS Integers, FiniteSets, FiniteSetsExt

CONSTANTS Keys,
          Values,     \* what is inserted: not 0, by the assert of line 121
          Hash,       \* hashfunc: a number for each key
          PertSteps,  \* shifts by 5 that use up a hash: 13 for its 64 bits
          MinSize,    \* smallest pool: 8
          MaxSize     \* bound of the model: largest pool

ASSUME MapAssumption ==
    /\ Values \subseteq Nat \ {0}
    /\ Hash \in [Keys -> Nat]
    /\ PertSteps \in Nat
    /\ \A k \in Keys : Hash[k] < 32 ^ PertSteps
    /\ \A n \in 0 .. PertSteps : 32 ^ n \in Nat \ {0}
    /\ MinSize \in Nat \ {0}

VARIABLES pool,  \* map->pool, the items 0 .. size - 1
          used,  \* map->used
          ret,   \* what the last call returned
          hung,  \* a call that never returns holds the mutex
          recursive  \* its owner may lock the mutex again: Windows, not Linux

vars == <<pool, used, ret, hung, recursive>>

NoKey == "none"
Item(state, key, value) == [state |-> state, key |-> key, value |-> value]
Unused == Item("unused", NoKey, 0)
Deleted == Item("deleted", NoKey, 0)

Size(p) == Cardinality(DOMAIN p)

(* A power of two: it has no odd divisor but 1. *)
is_pow2(val) == \A d \in 2 .. val : val % d = 0 => d % 2 = 0

(* The smallest one that is not below v *)
next_pow2(v) == CHOOSE p \in v .. 2 * v : is_pow2(p) /\ \A q \in v .. p - 1 : ~is_pow2(q)

EmptyPool(size) == [i \in 0 .. size - 1 |-> Unused]

(* hashmap_create with an init_size up to the smallest one *)
Init ==
    /\ pool = EmptyPool(next_pow2(MinSize))
    /\ used = 0
    /\ ret = 0
    /\ hung = FALSE
    /\ recursive \in BOOLEAN
-----------------------------------------------------------------------------
(* pert after n turns of the loop *)
Pert(k, n) == IF n < PertSteps THEN Hash[k] \div 32 ^ n ELSE 0

(* Mutant of Path: the step is i * 5 without the 1. *)
PathWithoutOne(p, k) ==
    LET last == PertSteps + Size(p)
        slot[n \in 0 .. last] ==
            IF n = 0 THEN Hash[k] % Size(p)
            ELSE (slot[n - 1] * 5 + Pert(k, n)) % Size(p)
    IN  slot

(* The slots a call for key k looks at.  Once pert is zero, the step       *)
(* i * 5 + 1 goes through all slots of the pool, so a probe that does not  *)
(* stop within Size more slots never stops.                                *)
Path(p, k) ==
    LET last == PertSteps + Size(p)
        slot[n \in 0 .. last] ==
            IF n = 0 THEN Hash[k] % Size(p)
            ELSE (slot[n - 1] * 5 + Pert(k, n) + 1) % Size(p)
    IN  slot

(* The places on the path where the loops stop: an UNUSED slot or the key *)
Stops(p, k) ==
    LET path == Path(p, k)
    IN  {n \in DOMAIN path :
            LET item == p[path[n]]
            IN  item.state = "unused" \/ (item.state = "used" /\ item.key = k)}

Endless(p, k) == Stops(p, k) = {}

(* Mutant of Found: the loops stop at a DELETED slot too. *)
FoundTooEarly(p, k) ==
    LET path == Path(p, k)
    IN  path[Min({n \in DOMAIN path : p[path[n]].state # "used" \/ p[path[n]].key = k})]

(* The slot the loops stop at *)
Found(p, k) == Path(p, k)[Min(Stops(p, k))]

(* Where a new item goes: the first slot on the path that is not USED *)
InsertIndex(p, k) ==
    LET path == Path(p, k)
    IN  path[Min({n \in DOMAIN path : p[path[n]].state # "used"})]

(* The second half of hashmap_insert, on a pool and its count *)
Inserted(m, k, v) ==
    LET i == Found(m.pool, k)
    IN  IF m.pool[i].state = "used"
        THEN [m EXCEPT !.pool[i].value = v]
        ELSE [pool |-> [m.pool EXCEPT ![InsertIndex(m.pool, k)] = Item("used", k, v)],
              used |-> m.used + 1]

should_resize == used * 10 >= Size(pool) * 7

(* A pool of the new size, into which the USED items of the old one are    *)
(* inserted from its first slot to its last.  It is at most half full      *)
(* afterwards, so these insertions do not resize again.                    *)
resize(new_size) ==
    LET map[i \in 0 .. Size(pool)] ==
            IF i = 0 THEN [pool |-> EmptyPool(next_pow2(new_size)), used |-> 0]
            ELSE IF pool[i - 1].state = "used"
                 THEN Inserted(map[i - 1], pool[i - 1].key, pool[i - 1].value)
                 ELSE map[i - 1]
    IN  map[Size(pool)]

(* A call that never returns leaves nothing but the mutex locked. *)
Hang ==
    /\ hung' = TRUE
    /\ UNCHANGED <<pool, used, ret, recursive>>

hashmap_insert(k, v) ==
    /\ ~hung
    /\ should_resize => 2 * Size(pool) <= MaxSize
    /\ IF should_resize /\ ~recursive
       THEN Hang
       ELSE LET m == IF should_resize THEN resize(2 * Size(pool))
                                      ELSE [pool |-> pool, used |-> used]
            IN  IF Endless(m.pool, k)
                THEN Hang
                ELSE LET n == Inserted(m, k, v)
                     IN  /\ pool' = n.pool
                         /\ used' = n.used
                         /\ ret' = 0
                         /\ UNCHANGED <<hung, recursive>>

(* Mutant of hashmap_remove: the slot becomes UNUSED. *)
hashmap_removeUnused(k) ==
    /\ ~hung
    /\ IF Endless(pool, k)
       THEN Hang
       ELSE LET i == Found(pool, k)
            IN  /\ IF pool[i].state = "used"
                   THEN /\ pool' = [pool EXCEPT ![i] = Unused]
                        /\ used' = used - 1
                        /\ ret' = 1
                   ELSE /\ ret' = 0
                        /\ UNCHANGED <<pool, used>>
                /\ UNCHANGED <<hung, recursive>>

hashmap_remove(k) ==
    /\ ~hung
    /\ IF Endless(pool, k)
       THEN Hang
       ELSE LET i == Found(pool, k)
            IN  /\ IF pool[i].state = "used"
                   THEN /\ pool' = [pool EXCEPT ![i] = Deleted]
                        /\ used' = used - 1
                        /\ ret' = 1
                   ELSE /\ ret' = 0
                        /\ UNCHANGED <<pool, used>>
                /\ UNCHANGED <<hung, recursive>>

hashmap_select(k) ==
    /\ ~hung
    /\ IF Endless(pool, k)
       THEN Hang
       ELSE /\ ret' = pool[Found(pool, k)].value
            /\ UNCHANGED <<pool, used, hung, recursive>>

hashmap_count ==
    /\ ~hung
    /\ ret' = used
    /\ UNCHANGED <<pool, used, hung, recursive>>

(* Every thread waits for the mutex. *)
Blocked ==
    /\ hung
    /\ UNCHANGED vars

Next ==
    \/ \E k \in Keys :
          \/ \E v \in Values : hashmap_insert(k, v)
          \/ hashmap_remove(k)
          \/ hashmap_select(k)
    \/ hashmap_count
    \/ Blocked

Spec == Init /\ [][Next]_vars
-----------------------------------------------------------------------------
UsedSlots == {i \in DOMAIN pool : pool[i].state = "used"}

(* Each key is in the pool at most once, every key in the pool is where    *)
(* its probe finds it, over the DELETED slots left by removals and after   *)
(* every resize, and map->used counts them.  A call hangs in one of two    *)
(* ways only: it resizes with a mutex that is not recursive, or removals   *)
(* have left no UNUSED slot in the whole pool.                             *)
KeysReachable ==
    /\ used = Cardinality(UsedSlots)
    /\ \A i \in UsedSlots : ~Endless(pool, pool[i].key) /\ Found(pool, pool[i].key) = i
    /\ hung => \/ should_resize /\ ~recursive
               \/ \A i \in DOMAIN pool : pool[i].state # "unused"

(* The value of each key, 0 for a key that is not in the pool *)
Contents ==
    [k \in Keys |-> IF \E i \in UsedSlots : pool[i].key = k
                    THEN pool[CHOOSE i \in UsedSlots : pool[i].key = k].value
                    ELSE 0]

(* What test_hashmap.c compares: the calls that return give the results of *)
(* hash_map_ref.c.                                                         *)
Ref == INSTANCE RefMap WITH map <- Contents

ImplementsRefMap == Ref!Spec
=============================================================================
