-------------------------------- MODULE Buddy --------------------------------
(***************************************************************************)
(* alloc/buddy.c: a buddy allocator over pages of 2^MaxLog2 bytes, split   *)
(* in halves down to blocks of 2^MinLog2 bytes.  The allocator keeps the   *)
(* free blocks of each size in a list, and for each page a tree of bits    *)
(* that says which blocks are allocated; nothing else tells it which       *)
(* blocks exist, so every merge relies on the two agreeing.                *)
(*                                                                         *)
(* A pointer is an offset from alloc->base, which is aligned to a page.    *)
(* The list links live in the free blocks themselves; here a list is the   *)
(* sequence of its blocks, and taking a block out of a list it is not in   *)
(* is the corruption the links would suffer.                               *)
(***************************************************************************)
EXTENDS Integers, Sequences, FiniteSets, SequencesExt

CONSTANTS MinLog2,   \* BUDDY_ALLOC_MIN_BLOCK_LOG2: 4
          MaxLog2,   \* BUDDY_ALLOC_MAX_BLOCK_LOG2: 12
          Memories,  \* what buddy_startup is called with: base and size
          SizeofBuddy, AlignofBuddy, SizeofTree, AlignofTree,
          Lens       \* what buddy_malloc and buddy_free are called with

ASSUME BuddyAssumption ==
    /\ MinLog2 \in Nat /\ MaxLog2 \in Nat /\ MinLog2 <= MaxLog2
    /\ Memories \subseteq [base : Nat, size : Nat]
    /\ {SizeofBuddy, AlignofBuddy, SizeofTree, AlignofTree} \subseteq Nat \ {0}
    /\ Lens \subseteq Nat
    /\ 2 ^ 0 = 1 /\ \A log \in 1 .. MaxLog2 : 2 ^ log = 2 * 2 ^ (log - 1)

VARIABLES memory,  \* the memory the allocator was given
          lists,   \* alloc->lists, by the logarithm of the block size
          trees,   \* alloc->trees: for each page, the indices of the bits set
          live,    \* ghost: the blocks callers hold
          broken   \* an assert failed or a list was corrupted

buddyVars == <<memory, lists, trees, live, broken>>

MAX_BLOCK_SIZE == 2 ^ MaxLog2
Logs == MinLog2 .. MaxLog2
-----------------------------------------------------------------------------
(* buddy_startup: the struct, then a bit tree for each page, then the      *)
(* pages.                                                                  *)
Padding(addr, align) == (0 - addr) % align
(* Mutant of Aligned: the address is rounded down. *)
AlignedDown(addr, align) == addr - (addr % align)

Aligned(addr, align) == addr + Padding(addr, align)

TreesBase == Aligned(Aligned(memory.base, AlignofBuddy) + SizeofBuddy, AlignofTree)
PagesBase(n) == Aligned(TreesBase + n * SizeofTree, MAX_BLOCK_SIZE)
Fit(n) == PagesBase(n) + n * MAX_BLOCK_SIZE <= memory.base + memory.size

(* The loop adds a tree and its page as long as both fit.  Memory too      *)
(* small for the struct makes a NULL allocator, which has no pages either. *)
NumTrees ==
    CHOOSE n \in 0 .. memory.size :
        /\ \A m \in 1 .. n : Fit(m)
        /\ ~Fit(n + 1)

Pages == 0 .. NumTrees - 1

(* A block is its pointer and the logarithm of its length. *)
Block(ptr, log) == [ptr |-> ptr, log |-> log]
Bytes(b) == b.ptr .. b.ptr + 2 ^ b.log - 1
Blocks ==
    {b \in [ptr : 0 .. NumTrees * MAX_BLOCK_SIZE - 1, log : Logs] : b.ptr % 2 ^ b.log = 0}

(* buddy_startup ends with every page free. *)
BuddyInit ==
    /\ memory \in Memories
    /\ lists = [log \in Logs |->
                   IF log = MaxLog2 THEN [i \in 1 .. NumTrees |-> (i - 1) * MAX_BLOCK_SIZE]
                   ELSE <<>>]
    /\ trees = [page \in Pages |-> {}]
    /\ live = {}
    /\ broken = FALSE
-----------------------------------------------------------------------------
(* The smallest power of two that holds len bytes and is not below the     *)
(* smallest block, as a logarithm                                          *)
normalize_len(len) ==
    CHOOSE log \in Logs : len <= 2 ^ log /\ \A l \in MinLog2 .. log - 1 : 2 ^ l < len

page_index(ptr) == ptr \div MAX_BLOCK_SIZE

(* The tree of a page holds its 2^n blocks of the n-th split at the bits   *)
(* 2^n .. 2^(n+1) - 1.                                                     *)
block_info_index(b) == 2 ^ (MaxLog2 - b.log) + (b.ptr % MAX_BLOCK_SIZE) \div 2 ^ b.log

is_allocated(b) == block_info_index(b) \in trees[page_index(b.ptr)]

(* The block or one of its splits *)
Splits(b) == {c \in Blocks : Bytes(c) \subseteq Bytes(b)}
(* Mutant of is_allocated_considering_splits: the splits are not considered. *)
is_allocated_alone(b) == is_allocated(b)

is_allocated_considering_splits(b) == \E c \in Splits(b) : is_allocated(c)

sibling_of(b) ==
    Block(IF b.ptr % 2 ^ (b.log + 1) = 0 THEN b.ptr + 2 ^ b.log ELSE b.ptr - 2 ^ b.log, b.log)

(* The block of a larger size that b is merged into, parent after parent *)
Ancestor(b, log) == Block((b.ptr \div 2 ^ log) * 2 ^ log, log)
-----------------------------------------------------------------------------
(* Mutant of buddy_malloc: the splitting stops one size too early. *)
buddy_mallocLosesHalf(len) ==
    /\ ~broken
    /\ len \in 1 .. MAX_BLOCK_SIZE
    /\ LET log == normalize_len(len)
           larger == {l \in log .. MaxLog2 : lists[l] # <<>>}
       IN  /\ larger # {}
           /\ LET from == CHOOSE l \in larger : \A m \in larger : l <= m
                  b == Block(Head(lists[from]), log)
              IN  /\ lists' = [l \in Logs |->
                        CASE l = from -> Tail(lists[l])
                          [] l \in log + 1 .. from - 1 ->
                                <<sibling_of(Block(b.ptr, l)).ptr>> \o lists[l]
                          [] OTHER -> lists[l]]
                  /\ trees' = [trees EXCEPT ![page_index(b.ptr)] = @ \cup {block_info_index(b)}]
                  /\ live' = live \cup {b}
    /\ UNCHANGED <<memory, broken>>

(* Takes the head of the first list with blocks large enough, and splits   *)
(* it down: the upper halves go to the lists below.                        *)
buddy_malloc(len) ==
    /\ ~broken
    /\ len \in 1 .. MAX_BLOCK_SIZE
    /\ LET log == normalize_len(len)
           larger == {l \in log .. MaxLog2 : lists[l] # <<>>}
       IN  /\ larger # {}
           /\ LET from == CHOOSE l \in larger : \A m \in larger : l <= m
                  b == Block(Head(lists[from]), log)
              IN  /\ lists' = [l \in Logs |->
                        CASE l = from -> Tail(lists[l])
                          [] l \in log .. from - 1 ->
                                <<sibling_of(Block(b.ptr, l)).ptr>> \o lists[l]
                          [] OTHER -> lists[l]]
                  /\ trees' = [trees EXCEPT ![page_index(b.ptr)] = @ \cup {block_info_index(b)}]
                  /\ live' = live \cup {b}
    /\ UNCHANGED <<memory, broken>>

(* No list has a block that is large enough, or len is 0 or above a page:  *)
(* NULL is returned.                                                       *)
CannotServe(len) ==
    len \in 1 .. MAX_BLOCK_SIZE => \A l \in normalize_len(len) .. MaxLog2 : lists[l] = <<>>

MallocFails(len) ==
    /\ ~broken
    /\ CannotServe(len)
    /\ UNCHANGED buddyVars

(* Mutant of MergedLog: a freed block is never merged. *)
MergedLogNone(b) == b.log

(* How far a freed block is merged: to the first size at which it is a     *)
(* whole page or its sibling is in use.                                    *)
MergedLog(b) ==
    CHOOSE log \in b.log .. MaxLog2 :
        /\ log = MaxLog2 \/ is_allocated_considering_splits(sibling_of(Ancestor(b, log)))
        /\ \A l \in b.log .. log - 1 :
              ~is_allocated_considering_splits(sibling_of(Ancestor(b, l)))

(* Mutant of buddy_free: the bit of the block stays set. *)
buddy_freeKeepsBit(len, ptr) ==
    /\ ~broken
    /\ LET b == Block(ptr, normalize_len(len))
           to == MergedLog(b)
           merged == b.log .. to - 1
           sibling(l) == sibling_of(Ancestor(b, l)).ptr
       IN  /\ b \in Blocks
           /\ IF ~is_allocated(b)
              THEN UNCHANGED buddyVars
              ELSE /\ UNCHANGED trees
                   /\ lists' = [l \in Logs |->
                        CASE l \in merged -> RemoveFirst(lists[l], sibling(l))
                          [] l = to -> <<Ancestor(b, l).ptr>> \o lists[l]
                          [] OTHER -> lists[l]]
                   /\ live' = live \ {b}
                   /\ UNCHANGED memory
                   /\ broken' = \E l \in merged : sibling(l) \notin ToSet(lists[l])

(* Frees the block of len bytes at ptr.  A block whose bit is not set, one *)
(* freed twice for instance, is left alone.                                *)
buddy_free(len, ptr) ==
    /\ ~broken
    /\ LET b == Block(ptr, normalize_len(len))
           to == MergedLog(b)
           merged == b.log .. to - 1
           sibling(l) == sibling_of(Ancestor(b, l)).ptr
       IN  /\ b \in Blocks
           /\ IF ~is_allocated(b)
              THEN UNCHANGED buddyVars
              ELSE /\ trees' = [trees EXCEPT ![page_index(ptr)] = @ \ {block_info_index(b)}]
                   /\ lists' = [l \in Logs |->
                        CASE l \in merged -> RemoveFirst(lists[l], sibling(l))
                          [] l = to -> <<Ancestor(b, l).ptr>> \o lists[l]
                          [] OTHER -> lists[l]]
                   /\ live' = live \ {b}
                   /\ UNCHANGED memory
                   /\ broken' = \E l \in merged : sibling(l) \notin ToSet(lists[l])

BuddyNext ==
    \/ \E len \in Lens : buddy_malloc(len) \/ MallocFails(len)
    \/ \E len \in Lens \cap (1 .. MAX_BLOCK_SIZE), ptr \in 0 .. NumTrees * MAX_BLOCK_SIZE - 1 :
          buddy_free(len, ptr)

BuddySpec == BuddyInit /\ [][BuddyNext]_buddyVars
-----------------------------------------------------------------------------
Free == {b \in Blocks : \E i \in 1 .. Len(lists[b.log]) : lists[b.log][i] = b.ptr}

(* The trees and the pages lie inside the memory the caller gave without   *)
(* overlapping, and no layout has more pages, although the loop of         *)
(* buddy_startup stops at the first number that does not fit.              *)
LayoutFits ==
    NumTrees > 0 =>
        /\ TreesBase + NumTrees * SizeofTree <= PagesBase(NumTrees)
        /\ PagesBase(NumTrees) + NumTrees * MAX_BLOCK_SIZE <= memory.base + memory.size
        /\ \A n \in NumTrees + 1 .. memory.size : ~Fit(n)

(* The blocks callers hold and the free blocks never overlap, together     *)
(* make up all the pages the memory has room for, and no block is in its   *)
(* list twice.  The bits are set for the held blocks and no others, so     *)
(* that a second free is caught (buddy.h: "Double frees are caught!"), and *)
(* remove_sibling_from_list only ever unlinks a block that is in the list  *)
(* it is told, as the assert of line 821 says.                             *)
Partition ==
    LET all == live \cup Free
    IN  /\ LayoutFits
        /\ live \cap Free = {}
        /\ \A b, c \in all : b # c => Bytes(b) \cap Bytes(c) = {}
        /\ UNION {Bytes(b) : b \in all} = 0 .. NumTrees * MAX_BLOCK_SIZE - 1
        /\ \A l \in Logs : IsInjective(lists[l])
        /\ \A b \in Blocks : is_allocated(b) <=> b \in live
        /\ ~broken

(* A request is refused only if every block of its size overlaps one that  *)
(* is held: two free siblings are always merged.                           *)
NoFalseFailure ==
    \A len \in Lens \cap (1 .. MAX_BLOCK_SIZE) :
        CannotServe(len) =>
            \A b \in Blocks : b.log = normalize_len(len) =>
                \E c \in live : Bytes(b) \cap Bytes(c) # {}
=============================================================================
