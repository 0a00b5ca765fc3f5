------------------------- MODULE EsPooledResource -------------------------
(***************************************************************************)
(* The pools of include/es/pooled_resource.h: managed_resource_pool maps   *)
(* keys to pools (pooled_resource) and grows that map, under a lock, when  *)
(* a key is asked for that it does not find, without the lock.             *)
(*                                                                         *)
(* An item of a key's pool is its number, in the order in which they were  *)
(* made.  A search of the map that overlaps the insertion of a new key may *)
(* miss any key: the tree is being rebalanced.  For find() this is one     *)
(* more turn of the loop; operator[] then inserts an entry of its own,     *)
(* without a pool and without the lock, and what follows is undefined.     *)
(***************************************************************************)
EXTENDS Integers, Sequences, FiniteSets

CONSTANTS
    Threads,   \* the threads
    Keys,      \* IDX
    Options,   \* the configurations explored (see OptionSpace)
    None

OptionSpace ==
    [initial  : Nat,             \* d_initial
     prealloc : SUBSET Keys,     \* pre_alloc_list
     users    : SUBSET Threads]  \* the threads that ask for items

ASSUME PoolAssumption ==
    /\ Options \subseteq OptionSpace
    /\ IsFiniteSet(Threads) /\ None \notin Threads

VARIABLES
    opt,
    mapped,     \* the keys of d_map
    free,       \* the stack d_pool of each key
    made,       \* how many items each key's pool has been given: its d_keeper
    lock,       \* the thread that holds _map_lock, or None
    pc,         \* where each thread is
    key, item,  \* what it asked for and what it has got, 0 for nothing
    filled      \* the items it has made in grow_map

poolVars   == <<mapped, free, made>>
threadVars == <<key, item, filled>>
vars == <<opt, poolVars, lock, pc, threadVars>>

Largest(m, n) == IF m > n THEN m ELSE n

\* The constructor acquires and releases an item of each preallocated key.
Init ==
    /\ opt \in Options
    /\ mapped = opt.prealloc
    /\ made = [k \in Keys |-> IF k \in mapped THEN Largest(opt.initial, 1) ELSE 0]
    /\ free = [k \in Keys |-> [n \in 1 .. made[k] |-> n]]
    /\ lock = None
    /\ pc = [t \in Threads |-> "idle"]
    /\ key = [t \in Threads |-> None]
    /\ item = [t \in Threads |-> 0]
    /\ filled = [t \in Threads |-> 0]

Lives == \A t \in Threads : pc[t] # "undefined"

Goto(t, from, to) == Lives /\ pc[t] = from /\ pc' = [pc EXCEPT ![t] = to]

\* Another thread is inserting a new key.
Rebalancing(t) == \E u \in Threads \ {t} : pc[u] = "link"

-----------------------------------------------------------------------------
(* acquire().                                                              *)

Ask(t, k) ==
    /\ t \in opt.users
    /\ Goto(t, "idle", "find")
    /\ key' = [key EXCEPT ![t] = k]
    /\ UNCHANGED <<opt, poolVars, lock, item, filled>>

\* A key that is being inserted may be found or not.
Found(t) ==
    /\ Goto(t, "find", "pop")
    /\ \/ key[t] \in mapped
       \/ \E u \in Threads \ {t} : pc[u] = "link" /\ key[u] = key[t]
    /\ UNCHANGED <<opt, poolVars, lock, threadVars>>

Missed(t) ==
    /\ Goto(t, "find", "grow")
    /\ key[t] \notin mapped \/ Rebalancing(t)
    /\ UNCHANGED <<opt, poolVars, lock, threadVars>>

Indexed(t) == ~Rebalancing(t)    \* d_map[idx] finds its key

Undefined(t) ==
    /\ pc[t] \in {"pop", "make", "use"} /\ Rebalancing(t)
    /\ Goto(t, pc[t], "undefined")
    /\ UNCHANGED <<opt, poolVars, lock, threadVars>>

Pop(t) ==
    LET k == key[t] last == Len(free[k]) IN
    /\ Indexed(t) /\ key[t] \in mapped
    /\ last > 0
    /\ Goto(t, "pop", "use")
    /\ item' = [item EXCEPT ![t] = free[k][last]]
    /\ free' = [free EXCEPT ![k] = SubSeq(@, 1, last - 1)]
    /\ UNCHANGED <<opt, mapped, made, lock, key, filled>>

PopNothingAlways(t) ==      \* an item is made although one is free
    /\ Indexed(t) /\ key[t] \in mapped
    /\ Goto(t, "pop", "make")
    /\ UNCHANGED <<opt, poolVars, lock, threadVars>>

PopNothingReturns(t) ==     \* NULL
    /\ Indexed(t) /\ key[t] \in mapped
    /\ free[key[t]] = <<>>
    /\ Goto(t, "pop", "use")
    /\ UNCHANGED <<opt, poolVars, lock, threadVars>>

PopNothing(t) ==
    /\ Indexed(t) /\ key[t] \in mapped
    /\ free[key[t]] = <<>>
    /\ Goto(t, "pop", "make")
    /\ UNCHANGED <<opt, poolVars, lock, threadVars>>

MakeAvailable(t) ==     \* populate(o_sptr, true)
    LET k == key[t] n == made[k] + 1 IN
    /\ Indexed(t)
    /\ Goto(t, "make", "use")
    /\ made' = [made EXCEPT ![k] = n]
    /\ item' = [item EXCEPT ![t] = n]
    /\ free' = [free EXCEPT ![k] = Append(@, n)]
    /\ UNCHANGED <<opt, mapped, lock, key, filled>>

\* The new item is kept alive by the pool and not available.
Make(t) ==
    LET k == key[t] n == made[k] + 1 IN
    /\ Indexed(t)
    /\ Goto(t, "make", "use")
    /\ made' = [made EXCEPT ![k] = n]
    /\ item' = [item EXCEPT ![t] = n]
    /\ UNCHANGED <<opt, mapped, free, lock, key, filled>>

\* The push onto the lock-free stack allocates, so it does not fail and release() does
\* not throw.
Release(t) ==
    /\ Indexed(t)
    /\ Goto(t, "use", "idle")
    /\ free' = [free EXCEPT ![key[t]] = Append(@, item[t])]
    /\ item' = [item EXCEPT ![t] = 0]
    /\ key' = [key EXCEPT ![t] = None]
    /\ UNCHANGED <<opt, mapped, made, lock, filled>>

-----------------------------------------------------------------------------
(* grow_map().                                                             *)

TryLock(t) ==
    /\ lock = None
    /\ Goto(t, "grow", "insert")
    /\ lock' = t
    /\ UNCHANGED <<opt, poolVars, threadVars>>

TryLockFails(t) ==
    /\ lock # None
    /\ Goto(t, "grow", "find")
    /\ UNCHANGED <<opt, poolVars, lock, threadVars>>

InsertPresentAssigning(t) ==      \* d_map[idx] = r_pool
    LET k == key[t] IN
    /\ k \in mapped
    /\ Goto(t, "insert", "fill")
    /\ free' = [free EXCEPT ![k] = <<>>]
    /\ UNCHANGED <<opt, mapped, made, lock, threadVars>>

\* insert() has no effect if the key is there, and then only reads the map.
InsertPresent(t) ==
    /\ key[t] \in mapped
    /\ Goto(t, "insert", "fill")
    /\ UNCHANGED <<opt, poolVars, lock, threadVars>>

InsertBegin(t) ==
    /\ key[t] \notin mapped
    /\ Goto(t, "insert", "link")
    /\ UNCHANGED <<opt, poolVars, lock, threadVars>>

InsertEnd(t) ==
    /\ Goto(t, "link", "fill")
    /\ mapped' = mapped \cup {key[t]}
    /\ UNCHANGED <<opt, free, made, lock, threadVars>>

\* A new item is made and available, whether the pool is new or not.
Fill(t) ==
    LET k == key[t] n == made[k] + 1 IN
    /\ filled[t] < opt.initial
    /\ Goto(t, "fill", "fill")
    /\ made' = [made EXCEPT ![k] = n]
    /\ free' = [free EXCEPT ![k] = Append(@, n)]
    /\ filled' = [filled EXCEPT ![t] = @ + 1]
    /\ UNCHANGED <<opt, mapped, lock, key, item>>

FillEndsLocked(t) ==     \* the lock outlives the call
    /\ filled[t] >= opt.initial
    /\ Goto(t, "fill", "find")
    /\ filled' = [filled EXCEPT ![t] = 0]
    /\ UNCHANGED <<opt, poolVars, lock, key, item>>

FillEnds(t) ==
    /\ filled[t] >= opt.initial
    /\ Goto(t, "fill", "find")
    /\ lock' = None
    /\ filled' = [filled EXCEPT ![t] = 0]
    /\ UNCHANGED <<opt, poolVars, key, item>>

-----------------------------------------------------------------------------
Acquire(t) ==
    \/ Found(t) \/ Missed(t) \/ Pop(t) \/ PopNothing(t) \/ Make(t)
    \/ TryLock(t) \/ TryLockFails(t) \/ InsertPresent(t) \/ InsertBegin(t) \/ InsertEnd(t)
    \/ Fill(t) \/ FillEnds(t) \/ Undefined(t)

Next == \E t \in Threads :
            Acquire(t) \/ Release(t) \/ \E k \in Keys : Ask(t, k)

Spec == Init /\ [][Next]_vars

\* The operating system runs every thread.
FairSpec == Spec /\ \A t \in Threads : WF_vars(Acquire(t))

-----------------------------------------------------------------------------
(* Properties.                                                             *)

TypeOK ==
    /\ opt \in Options
    /\ mapped \subseteq Keys
    /\ made \in [Keys -> Nat] /\ free \in [Keys -> Seq(Nat)]
    /\ lock \in Threads \cup {None}
    /\ pc \in [Threads -> {"idle", "find", "grow", "insert", "link", "fill", "pop", "make",
                           "use", "undefined"}]
    /\ key \in [Threads -> Keys \cup {None}]
    /\ \A t \in Threads : pc[t] \notin {"idle", "undefined"} => key[t] \in Keys
    /\ item \in [Threads -> Nat] /\ filled \in [Threads -> Nat]
    /\ \A t \in Threads : pc[t] = "use" => item[t] > 0

Has(t, k, n) == key[t] = k /\ item[t] = n
InPool(k, n) == \E i \in 1 .. Len(free[k]) : free[k][i] = n

\* No item is in two hands, nor in the pool while it is in use, nor in the pool twice.
ItemsApart ==
    \A k \in Keys : \A n \in 1 .. made[k] :
        /\ \A i, j \in 1 .. Len(free[k]) : free[k][i] = n /\ free[k][j] = n => i = j
        /\ \A t \in Threads : Has(t, k, n) => ~InPool(k, n)
        /\ \A t, u \in Threads : Has(t, k, n) /\ Has(u, k, n) => t = u

\* No item that was made is lost: the pool of a key is never replaced by a new one,
\* although every thread that misses the key tries to insert one.
NoneLost ==
    \A k \in Keys : \A n \in 1 .. made[k] :
        InPool(k, n) \/ \E t \in Threads : Has(t, k, n)

\* A pool with all its keys preallocated never searches its map while it grows, and makes
\* no more items than it was told to or than there are users.
PreallocatedIsSafe ==
    opt.prealloc = Keys =>
        /\ Lives
        /\ \A k \in Keys :
              made[k] <= Largest(Largest(opt.initial, 1), Cardinality(opt.users))

\* Every call of acquire() returns, although a thread that fails to get the lock spins.
AcquireReturns ==
    \A t \in Threads : pc[t] = "find" ~> (pc[t] = "use" \/ ~Lives)
=============================================================================
