----------------------- MODULE EsPooledResourceProofs -----------------------
(* Theorems about the pools, for every number of threads, keys and items.   *)
EXTENDS EsPooledResource, SequenceTheorems, FiniteSetTheorems, TLAPS

\* What a thread holds, and where it may be while it does.
HandTypes ==
    \A t \in Threads :
        /\ item[t] # 0 => /\ pc[t] \in {"use", "undefined"}
                          /\ key[t] \in Keys
                          /\ item[t] <= made[key[t]]

StackTypes ==
    \A k \in Keys : \A i \in 1 .. Len(free[k]) : free[k][i] \in 1 .. made[k]

\* No item is in two places ...
StackApart ==
    \A k \in Keys : \A i, j \in 1 .. Len(free[k]) : free[k][i] = free[k][j] => i = j

HandsApart ==
    \A t, u \in Threads :
        item[t] # 0 /\ key[t] = key[u] /\ item[t] = item[u] => t = u

HandOffStack ==
    \A t \in Threads, k \in Keys :
        item[t] # 0 /\ key[t] = k => \A i \in 1 .. Len(free[k]) : free[k][i] # item[t]

\* ... and none is lost (NoneLost).
PoolInv == /\ TypeOK /\ HandTypes /\ StackTypes
           /\ StackApart /\ HandsApart /\ HandOffStack /\ NoneLost

\* At first all items are in the pool.
LEMMA PoolInvInitially == Init => PoolInv
<1> SUFFICES ASSUME Init PROVE PoolInv
  OBVIOUS
<1>1. opt.initial \in Nat /\ opt.prealloc \subseteq Keys
  BY PoolAssumption DEF Init, OptionSpace
<1>2. Largest(opt.initial, 1) \in Nat
  BY <1>1 DEF Largest
<1>3. made \in [Keys -> Nat]
  BY <1>2 DEF Init
<1>4. ASSUME NEW k \in Keys
      PROVE  /\ free[k] \in Seq(Nat) /\ Len(free[k]) = made[k]
             /\ \A i \in 1 .. made[k] : free[k][i] = i
  <2>1. free[k] = [n \in 1 .. made[k] |-> n] /\ made[k] \in Nat
    BY <1>3 DEF Init
  <2> QED
    BY <2>1
<1>5. free \in [Keys -> Seq(Nat)]
  BY <1>4 DEF Init
<1>6. \A t \in Threads : pc[t] = "idle" /\ item[t] = 0
  BY DEF Init
<1>7. TypeOK
  BY <1>1, <1>3, <1>5 DEF Init, TypeOK
<1>8. NoneLost
  BY <1>3, <1>4 DEF NoneLost, InPool
<1>9. StackTypes /\ StackApart
  BY <1>3, <1>4 DEF StackTypes, StackApart
<1> QED
  BY <1>6, <1>7, <1>8, <1>9 DEF PoolInv, HandTypes, HandsApart, HandOffStack

\* Where a step of a thread leaves it, and what its key is.
LEMMA Keyed ==
    ASSUME TypeOK, NEW t \in Threads, pc[t] \notin {"idle", "undefined"}
    PROVE  key[t] \in Keys /\ made[key[t]] \in Nat /\ free[key[t]] \in Seq(Nat)
<1>1. key[t] \in Keys
  BY DEF TypeOK
<1> QED
  BY <1>1 DEF TypeOK

\* Steps that move no item and ask for no key.
Moves(t) == \/ Found(t) \/ Missed(t) \/ PopNothing(t) \/ Undefined(t)
            \/ TryLock(t) \/ TryLockFails(t)
            \/ InsertPresent(t) \/ InsertBegin(t) \/ InsertEnd(t) \/ FillEnds(t)

\* Steps that only move a thread on.
LEMMA MovesKeep ==
    ASSUME PoolInv, NEW t \in Threads, Moves(t)
    PROVE  PoolInv'
<1>1. TypeOK
  BY DEF PoolInv
<1>2. /\ UNCHANGED <<opt, free, made, key, item>>
      /\ \E to \in {"find", "grow", "insert", "link", "fill", "pop", "make", "undefined"} :
             pc' = [pc EXCEPT ![t] = to]
      /\ pc[t] # "idle" /\ pc[t] # "undefined"
  BY DEF Moves, Found, Missed, PopNothing, Undefined, TryLock, TryLockFails, InsertPresent,
         InsertBegin, InsertEnd, FillEnds, Goto, poolVars, threadVars
<1>3. pc[t] = "use" => pc' = [pc EXCEPT ![t] = "undefined"]
  BY DEF Moves, Found, Missed, PopNothing, Undefined, TryLock, TryLockFails, InsertPresent,
         InsertBegin, InsertEnd, FillEnds, Goto
<1>4. key[t] \in Keys
  BY <1>1, <1>2, Keyed
<1>5. /\ mapped' = mapped \/ mapped' = mapped \cup {key[t]}
      /\ lock' \in {lock, t, None}
      /\ filled' = filled \/ filled' = [filled EXCEPT ![t] = 0]
  BY DEF Moves, Found, Missed, PopNothing, Undefined, TryLock, TryLockFails, InsertPresent,
         InsertBegin, InsertEnd, FillEnds, Goto, poolVars, threadVars
<1>6. mapped' \subseteq Keys /\ lock' \in Threads \cup {None} /\ filled' \in [Threads -> Nat]
  <2>1. mapped' \subseteq Keys
    BY <1>1, <1>4, <1>5 DEF TypeOK
  <2>2. lock' \in Threads \cup {None}
    BY <1>1, <1>5 DEF TypeOK
  <2>3. filled' \in [Threads -> Nat]
    BY <1>1, <1>5 DEF TypeOK
  <2> QED
    BY <2>1, <2>2, <2>3
<1>7. PICK to \in {"find", "grow", "insert", "link", "fill", "pop", "make", "undefined"} :
          pc' = [pc EXCEPT ![t] = to]
  BY <1>2
<1>8. \A u \in Threads : pc'[u] = IF u = t THEN to ELSE pc[u]
  BY <1>1, <1>7 DEF TypeOK
<1>9. TypeOK'
  BY <1>1, <1>2, <1>4, <1>6, <1>7, <1>8 DEF TypeOK
<1>10. HandTypes'
  BY <1>1, <1>2, <1>3, <1>8 DEF PoolInv, HandTypes, TypeOK
<1> QED
  BY <1>2, <1>9, <1>10 DEF PoolInv, StackTypes, StackApart, HandsApart, HandOffStack, NoneLost,
       InPool, Has

\* acquire() begins.
LEMMA AskKeeps ==
    ASSUME PoolInv, NEW t \in Threads, NEW k \in Keys, Ask(t, k)
    PROVE  PoolInv'
<1>1. /\ UNCHANGED <<opt, mapped, free, made, lock, item, filled>>
      /\ pc[t] = "idle" /\ pc' = [pc EXCEPT ![t] = "find"]
      /\ key' = [key EXCEPT ![t] = k]
  BY DEF Ask, Goto, poolVars
<1>2. TypeOK /\ item[t] = 0
  BY <1>1 DEF PoolInv, HandTypes
<1>3. \A u \in Threads : /\ pc'[u] = IF u = t THEN "find" ELSE pc[u]
                         /\ key'[u] = IF u = t THEN k ELSE key[u]
  BY <1>1, <1>2 DEF TypeOK
<1>4. TypeOK'
  BY <1>1, <1>2, <1>3 DEF TypeOK
<1>5. HandTypes' /\ StackTypes' /\ StackApart' /\ HandsApart'
  BY <1>1, <1>2, <1>3 DEF PoolInv, HandTypes, StackTypes, StackApart, HandsApart
<1>6. HandOffStack'
  BY <1>1, <1>2, <1>3 DEF PoolInv, HandOffStack
<1>7. NoneLost'
  <2> SUFFICES ASSUME NEW l \in Keys, NEW n \in 1 .. made[l],
                      ~InPool(l, n)
               PROVE  \E u \in Threads : Has(u, l, n)'
    BY <1>1 DEF NoneLost, InPool
  <2>1. PICK u \in Threads : Has(u, l, n)
    BY DEF PoolInv, NoneLost
  <2>2. u # t
    BY <1>2, <2>1 DEF Has, TypeOK, PoolInv
  <2> QED
    BY <1>1, <1>3, <2>1, <2>2 DEF Has
<1> QED
  BY <1>4, <1>5, <1>6, <1>7 DEF PoolInv

\* It takes an item out of the pool,
LEMMA PopKeeps ==
    ASSUME PoolInv, NEW t \in Threads, Pop(t)
    PROVE  PoolInv'
<1> DEFINE k == key[t]
           last == Len(free[k])
<1>1. /\ UNCHANGED <<opt, mapped, made, lock, key, filled>>
      /\ pc[t] = "pop" /\ pc' = [pc EXCEPT ![t] = "use"]
      /\ last > 0
      /\ item' = [item EXCEPT ![t] = free[k][last]]
      /\ free' = [free EXCEPT ![k] = SubSeq(@, 1, last - 1)]
  BY DEF Pop, Goto
<1>2. TypeOK
  BY DEF PoolInv
<1>3. k \in Keys /\ made[k] \in Nat /\ free[k] \in Seq(Nat) /\ last \in Nat
  BY <1>1, <1>2, Keyed
<1>4. item[t] = 0
  BY <1>1 DEF PoolInv, HandTypes
<1>5. /\ SubSeq(free[k], 1, last - 1) \in Seq(Nat)
      /\ Len(SubSeq(free[k], 1, last - 1)) = last - 1
      /\ \A i \in 1 .. (last - 1) : SubSeq(free[k], 1, last - 1)[i] = free[k][i]
  BY <1>1, <1>3, SMTT(30)
<1>6. \A l \in Keys :
          /\ free'[l] \in Seq(Nat)
          /\ Len(free'[l]) = IF l = k THEN last - 1 ELSE Len(free[l])
          /\ \A i \in 1 .. Len(free'[l]) : i \in 1 .. Len(free[l]) /\ free'[l][i] = free[l][i]
  <2>1. \A l \in Keys : free'[l] = IF l = k THEN SubSeq(free[k], 1, last - 1) ELSE free[l]
    BY <1>1, <1>2 DEF TypeOK
  <2> SUFFICES ASSUME NEW l \in Keys
               PROVE  /\ free'[l] \in Seq(Nat)
                      /\ Len(free'[l]) = IF l = k THEN last - 1 ELSE Len(free[l])
                      /\ \A i \in 1 .. Len(free'[l]) :
                            i \in 1 .. Len(free[l]) /\ free'[l][i] = free[l][i]
    OBVIOUS
  <2>2. CASE l = k
    <3>1. free'[l] = SubSeq(free[k], 1, last - 1)
      BY <2>1, <2>2
    <3>2. \A i \in 1 .. (last - 1) : i \in 1 .. Len(free[l])
      BY <1>3, <2>2
    <3> QED
      BY <1>5, <2>2, <3>1, <3>2
  <2>3. CASE l # k
    BY <1>2, <2>1, <2>3 DEF TypeOK
  <2> QED
    BY <2>2, <2>3
<1>7. last \in 1 .. Len(free[k]) /\ free[k][last] \in 1 .. made[k]
  BY <1>1, <1>3 DEF PoolInv, StackTypes
<1> HIDE DEF last
<1>8. \A u \in Threads : /\ pc'[u] = IF u = t THEN "use" ELSE pc[u]
                         /\ item'[u] = IF u = t THEN free[k][last] ELSE item[u]
  BY <1>1, <1>2 DEF TypeOK
<1>9. TypeOK'
  <2>1. free' \in [Keys -> Seq(Nat)] /\ item' \in [Threads -> Nat]
    BY <1>1, <1>2, <1>3, <1>6, <1>7 DEF TypeOK
  <2> QED
    BY <1>1, <1>2, <1>3, <1>7, <1>8, <2>1, SMTT(30) DEF TypeOK
<1>10. HandTypes'
  BY <1>1, <1>3, <1>7, <1>8 DEF PoolInv, HandTypes
<1>11. StackTypes' /\ StackApart'
  BY <1>1, <1>6 DEF PoolInv, StackTypes, StackApart
<1>12. HandsApart'
  BY <1>1, <1>3, <1>7, <1>8 DEF PoolInv, HandsApart, HandOffStack
<1>13. HandOffStack'
  <2> SUFFICES ASSUME NEW u \in Threads, NEW l \in Keys, item'[u] # 0, key[u] = l,
                      NEW i \in 1 .. Len(free'[l])
               PROVE  free[l][i] # item'[u]
    BY <1>1, <1>6 DEF HandOffStack
  <2>1. CASE u = t
    <3>1. l = k /\ i \in 1 .. Len(free[k]) /\ i # last
      BY <1>3, <1>6, <2>1
    <3>2. free[k][i] # free[k][last]
      BY <1>3, <1>7, <3>1 DEF PoolInv, StackApart
    <3>3. item'[t] = free[k][last]
      BY <1>8
    <3> QED
      BY <2>1, <3>1, <3>2, <3>3
  <2>2. CASE u # t
    <3>1. item'[u] = item[u] /\ i \in 1 .. Len(free[l])
      BY <1>6, <1>8, <2>2
    <3> QED
      BY <3>1 DEF PoolInv, HandOffStack
  <2> QED
    BY <2>1, <2>2
<1>14. NoneLost'
  <2> SUFFICES ASSUME NEW l \in Keys, NEW n \in 1 .. made[l]
               PROVE  InPool(l, n)' \/ \E u \in Threads : Has(u, l, n)'
    BY <1>1 DEF NoneLost
  <2>1. CASE \E u \in Threads : Has(u, l, n)
    <3>1. PICK u \in Threads : Has(u, l, n)
      BY <2>1
    <3>2. u # t
      BY <1>2, <1>4, <3>1 DEF Has, TypeOK
    <3> QED
      BY <1>1, <1>8, <3>1, <3>2 DEF Has
  <2>2. CASE InPool(l, n)
    <3>1. PICK i \in 1 .. Len(free[l]) : free[l][i] = n
      BY <2>2 DEF InPool
    <3>2. CASE l = k /\ i = last
      BY <1>1, <1>8, <3>1, <3>2 DEF Has
    <3>3. CASE l # k \/ i # last
      <4>1. i \in 1 .. Len(free'[l])
        BY <1>3, <1>6, <1>7, <3>3 DEF last
      <4> QED
        BY <1>6, <3>1, <4>1 DEF InPool
    <3> QED
      BY <3>2, <3>3
  <2> QED
    BY <2>1, <2>2 DEF PoolInv, NoneLost
<1> QED
  BY <1>9, <1>10, <1>11, <1>12, <1>13, <1>14 DEF PoolInv

\* An item of key k, new or just given up, is put on the stack.
LEMMA AppendKeeps ==
    ASSUME PoolInv, NEW k \in Keys, NEW n \in Nat \ {0},
           free' = [free EXCEPT ![k] = Append(@, n)],
           key' \in [Threads -> Keys \cup {None}], item' \in [Threads -> Nat],
           \A l \in Keys : made'[l] \in Nat /\ made[l] <= made'[l],
           n \in 1 .. made'[k],
           \A i \in 1 .. Len(free[k]) : free[k][i] # n,
           \A t \in Threads : item'[t] # 0 => /\ item'[t] = item[t] /\ key'[t] = key[t]
                                              /\ (key[t] = k => item[t] # n),
           \A l \in Keys : \A m \in 1 .. made'[l] :
               \/ m \in 1 .. made[l] /\ \A t \in Threads : Has(t, l, m) => Has(t, l, m)'
               \/ l = k /\ m = n
    PROVE  /\ free' \in [Keys -> Seq(Nat)]
           /\ StackTypes' /\ StackApart' /\ HandsApart' /\ HandOffStack' /\ NoneLost'
<1>1. TypeOK /\ free[k] \in Seq(Nat)
  BY DEF PoolInv, TypeOK
<1>2. \A l \in Keys :
          /\ free'[l] \in Seq(Nat)
          /\ Len(free'[l]) = IF l = k THEN Len(free[k]) + 1 ELSE Len(free[l])
          /\ \A i \in 1 .. Len(free'[l]) :
                free'[l][i] = IF l = k /\ i = Len(free[k]) + 1 THEN n ELSE free[l][i]
  <2> SUFFICES ASSUME NEW l \in Keys
               PROVE  /\ free'[l] \in Seq(Nat)
                      /\ Len(free'[l]) = IF l = k THEN Len(free[k]) + 1 ELSE Len(free[l])
                      /\ \A i \in 1 .. Len(free'[l]) :
                            free'[l][i] = IF l = k /\ i = Len(free[k]) + 1 THEN n ELSE free[l][i]
    OBVIOUS
  <2>1. free'[l] = IF l = k THEN Append(free[k], n) ELSE free[l]
    BY <1>1 DEF TypeOK
  <2>2. CASE l = k
    BY <1>1, <2>1, <2>2
  <2>3. CASE l # k
    BY <1>1, <2>1, <2>3 DEF TypeOK
  <2> QED
    BY <2>2, <2>3
<1>3. \A l \in Keys : Len(free[l]) \in Nat
  BY <1>1 DEF TypeOK
<1>4. free' \in [Keys -> Seq(Nat)]
  BY <1>1, <1>2 DEF TypeOK
<1>5. StackTypes'
  <2> SUFFICES ASSUME NEW l \in Keys, NEW i \in 1 .. Len(free'[l])
               PROVE  free'[l][i] \in 1 .. made'[l]
    BY DEF StackTypes
  <2>1. CASE l = k /\ i = Len(free[k]) + 1
    BY <1>2, <2>1
  <2>2. CASE ~(l = k /\ i = Len(free[k]) + 1)
    <3>1. i \in 1 .. Len(free[l]) /\ free'[l][i] = free[l][i]
      BY <1>2, <1>3, <2>2
    <3>2. free[l][i] \in 1 .. made[l] /\ made[l] \in Nat
      BY <1>1, <3>1 DEF PoolInv, StackTypes, TypeOK
    <3> QED
      BY <3>1, <3>2
  <2> QED
    BY <2>1, <2>2
<1>6. StackApart'
  <2> SUFFICES ASSUME NEW l \in Keys, NEW i \in 1 .. Len(free'[l]), NEW j \in 1 .. Len(free'[l]),
                      free'[l][i] = free'[l][j]
               PROVE  i = j
    BY DEF StackApart
  <2>1. CASE l # k
    <3>1. /\ i \in 1 .. Len(free[l]) /\ free'[l][i] = free[l][i]
          /\ j \in 1 .. Len(free[l]) /\ free'[l][j] = free[l][j]
      BY <1>2, <2>1
    <3> QED
      BY <3>1 DEF PoolInv, StackApart
  <2>2. CASE l = k
    <3>1. \A m \in 1 .. Len(free'[k]) :
              \/ m = Len(free[k]) + 1 /\ free'[k][m] = n
              \/ m \in 1 .. Len(free[k]) /\ free'[k][m] = free[k][m] /\ free[k][m] # n
      BY <1>2, <1>3
    <3>2. i \in 1 .. Len(free'[k]) /\ j \in 1 .. Len(free'[k]) /\ free'[k][i] = free'[k][j]
      BY <2>2
    <3>3. \A a, b \in 1 .. Len(free[k]) : free[k][a] = free[k][b] => a = b
      BY DEF PoolInv, StackApart
    <3> QED
      BY <3>1, <3>2, <3>3
  <2> QED
    BY <2>1, <2>2
<1>7. HandsApart'
  BY DEF PoolInv, HandsApart
<1>8. HandOffStack'
  <2> SUFFICES ASSUME NEW t \in Threads, NEW l \in Keys, item'[t] # 0, key'[t] = l,
                      NEW i \in 1 .. Len(free'[l])
               PROVE  free'[l][i] # item'[t]
    BY DEF HandOffStack
  <2>1. item'[t] = item[t] /\ key[t] = l /\ item[t] # 0
    OBVIOUS
  <2>2. CASE l = k /\ i = Len(free[k]) + 1
    BY <1>2, <2>1, <2>2
  <2>3. CASE ~(l = k /\ i = Len(free[k]) + 1)
    <3>1. i \in 1 .. Len(free[l]) /\ free'[l][i] = free[l][i]
      BY <1>2, <1>3, <2>3
    <3> QED
      BY <2>1, <3>1 DEF PoolInv, HandOffStack
  <2> QED
    BY <2>2, <2>3
<1>9. NoneLost'
  <2> SUFFICES ASSUME NEW l \in Keys, NEW m \in 1 .. made'[l]
               PROVE  InPool(l, m)' \/ \E t \in Threads : Has(t, l, m)'
    BY DEF NoneLost
  <2>1. CASE l = k /\ m = n
    <3>1. Len(free[k]) + 1 \in 1 .. Len(free'[k]) /\ free'[k][Len(free[k]) + 1] = n
      BY <1>2, <1>3
    <3> QED
      BY <2>1, <3>1 DEF InPool
  <2>2. CASE ~(l = k /\ m = n)
    <3>1. m \in 1 .. made[l] /\ \A t \in Threads : Has(t, l, m) => Has(t, l, m)'
      BY <2>2
    <3>2. CASE InPool(l, m)
      <4>1. PICK i \in 1 .. Len(free[l]) : free[l][i] = m
        BY <3>2 DEF InPool
      <4>2. i \in 1 .. Len(free'[l]) /\ ~(l = k /\ i = Len(free[k]) + 1)
        BY <1>2, <1>3
      <4> QED
        BY <1>2, <4>1, <4>2 DEF InPool
    <3> QED
      BY <3>1, <3>2 DEF PoolInv, NoneLost
  <2> QED
    BY <2>1, <2>2
<1> QED
  BY <1>4, <1>5, <1>6, <1>7, <1>8, <1>9

\* an item that was made is filled in,
LEMMA FillKeeps ==
    ASSUME PoolInv, NEW t \in Threads, Fill(t)
    PROVE  PoolInv'
<1> DEFINE k == key[t]
           n == made[k] + 1
<1>1. /\ UNCHANGED <<opt, mapped, lock, key, item>>
      /\ pc[t] = "fill" /\ pc' = pc
      /\ made' = [made EXCEPT ![k] = n] /\ free' = [free EXCEPT ![k] = Append(@, n)]
      /\ filled' = [filled EXCEPT ![t] = @ + 1]
  BY DEF Fill, Goto, PoolInv, TypeOK
<1>2. TypeOK
  BY DEF PoolInv
<1>3. k \in Keys /\ made[k] \in Nat /\ n \in Nat \ {0}
  BY <1>1, <1>2, Keyed
<1> HIDE DEF k
<1>4. \A l \in Keys : made[l] \in Nat /\ made'[l] = IF l = k THEN n ELSE made[l]
  BY <1>1, <1>2, <1>3 DEF TypeOK
<1>5. \A i \in 1 .. Len(free[k]) : free[k][i] # n
  BY <1>3 DEF PoolInv, StackTypes
<1>6. \A u \in Threads : item[u] \in Nat /\ (item[u] # 0 /\ key[u] = k => item[u] # n)
  BY <1>2, <1>3 DEF PoolInv, HandTypes, TypeOK
<1>7. /\ \A l \in Keys : made'[l] \in Nat /\ made[l] <= made'[l]
      /\ n \in 1 .. made'[k]
      /\ \A l \in Keys : \A m \in 1 .. made'[l] : m \in 1 .. made[l] \/ (l = k /\ m = n)
  <2>1. ASSUME NEW l \in Keys, l # k PROVE made'[l] = made[l] /\ made[l] \in Nat
    BY <1>4, <2>1
  <2>2. made'[k] = made[k] + 1
    BY <1>3, <1>4
  <2>3. ASSUME NEW l \in Keys
        PROVE  /\ made'[l] \in Nat /\ made[l] <= made'[l]
               /\ \A m \in 1 .. made'[l] : m \in 1 .. made[l] \/ (l = k /\ m = n)
    <3>1. CASE l = k
      BY <1>3, <2>2, <3>1
    <3>2. CASE l # k
      BY <2>1, <3>2
    <3> QED
      BY <3>1, <3>2
  <2> QED
    BY <1>3, <2>2, <2>3
<1>8. \A u \in Threads, l \in Keys, m \in Nat : Has(u, l, m) => Has(u, l, m)'
  BY <1>1 DEF Has
<1>9. key' \in [Threads -> Keys \cup {None}] /\ item' \in [Threads -> Nat]
  BY <1>1, <1>2 DEF TypeOK
<1> HIDE DEF n
<1>10. /\ free' \in [Keys -> Seq(Nat)]
       /\ StackTypes' /\ StackApart' /\ HandsApart' /\ HandOffStack' /\ NoneLost'
  <2>1. \A l \in Keys : \A m \in 1 .. made'[l] : m \in Nat
    BY <1>7
  <2>2. \A u \in Threads : item'[u] # 0 => /\ item'[u] = item[u] /\ key'[u] = key[u]
                                           /\ (key[u] = k => item[u] # n)
    BY <1>1, <1>6
  <2>3. \A l \in Keys : \A m \in 1 .. made'[l] :
            \/ m \in 1 .. made[l] /\ \A u \in Threads : Has(u, l, m) => Has(u, l, m)'
            \/ l = k /\ m = n
    BY <1>7, <1>8, <2>1
  <2>4. free' = [free EXCEPT ![k] = Append(@, n)]
    BY <1>1
  <2> QED
    BY <1>3, <1>5, <1>7, <1>9, <2>2, <2>3, <2>4, AppendKeeps
<1>11. TypeOK'
  <2>1. made' \in [Keys -> Nat] /\ filled' \in [Threads -> Nat]
    BY <1>1, <1>2, <1>3 DEF TypeOK, n
  <2> QED
    BY <1>1, <1>2, <1>10, <2>1 DEF TypeOK
<1>12. HandTypes'
  BY <1>1, <1>2, <1>7 DEF PoolInv, HandTypes, TypeOK
<1> QED
  BY <1>10, <1>11, <1>12 DEF PoolInv

\* release() puts one back,
LEMMA ReleaseKeeps ==
    ASSUME PoolInv, NEW t \in Threads, Release(t)
    PROVE  PoolInv'
<1> DEFINE k == key[t]
           n == item[t]
<1>1. /\ UNCHANGED <<opt, mapped, made, lock, filled>>
      /\ pc[t] = "use" /\ pc' = [pc EXCEPT ![t] = "idle"]
      /\ free' = [free EXCEPT ![k] = Append(@, n)]
      /\ item' = [item EXCEPT ![t] = 0] /\ key' = [key EXCEPT ![t] = None]
  BY DEF Release, Goto
<1>2. TypeOK
  BY DEF PoolInv
<1>3. k \in Keys /\ made[k] \in Nat /\ n \in Nat \ {0} /\ n <= made[k]
  <2>1. k \in Keys /\ made[k] \in Nat
    BY <1>1, <1>2, Keyed
  <2>2. n \in Nat /\ n > 0
    BY <1>1, <1>2 DEF TypeOK
  <2> QED
    BY <2>1, <2>2 DEF PoolInv, HandTypes
<1>4. \A u \in Threads : /\ item'[u] = IF u = t THEN 0 ELSE item[u]
                         /\ key'[u] = IF u = t THEN None ELSE key[u]
                         /\ pc'[u] = IF u = t THEN "idle" ELSE pc[u]
  BY <1>1, <1>2 DEF TypeOK
<1>5. \A i \in 1 .. Len(free[k]) : free[k][i] # n
  BY <1>3 DEF PoolInv, HandOffStack
<1>6. \A u \in Threads : item'[u] # 0 => /\ item'[u] = item[u] /\ key'[u] = key[u]
                                         /\ (key[u] = k => item[u] # n)
  BY <1>3, <1>4 DEF PoolInv, HandsApart
<1>7. /\ \A l \in Keys : made'[l] \in Nat /\ made[l] <= made'[l]
      /\ n \in 1 .. made'[k]
  <2>1. made' = made /\ \A l \in Keys : made[l] \in Nat
    BY <1>1, <1>2 DEF TypeOK
  <2> QED
    BY <1>3, <2>1
<1>8. key' \in [Threads -> Keys \cup {None}] /\ item' \in [Threads -> Nat]
  BY <1>1, <1>2 DEF TypeOK
<1>9. \A l \in Keys : \A m \in 1 .. made'[l] :
          \/ m \in 1 .. made[l] /\ \A u \in Threads : Has(u, l, m) => Has(u, l, m)'
          \/ l = k /\ m = n
  BY <1>1, <1>4 DEF Has
<1>10. HandTypes'
  BY <1>1, <1>4 DEF PoolInv, HandTypes
<1>11. /\ free' \in [Keys -> Seq(Nat)]
       /\ StackTypes' /\ StackApart' /\ HandsApart' /\ HandOffStack' /\ NoneLost'
  <2> HIDE DEF k, n
  <2>1. free' = [free EXCEPT ![k] = Append(@, n)]
    BY <1>1
  <2> QED
    BY <1>3, <1>5, <1>6, <1>7, <1>8, <1>9, <2>1, AppendKeeps
<1>12. TypeOK'
  <2>1. pc' \in [Threads -> {"idle", "find", "grow", "insert", "link", "fill", "pop", "make",
                             "use", "undefined"}]
    BY <1>1, <1>2 DEF TypeOK
  <2> QED
    BY <1>1, <1>2, <1>4, <1>8, <1>11, <2>1 DEF TypeOK
<1> QED
  BY <1>10, <1>11, <1>12 DEF PoolInv

\* and a new one is made where there was none.
LEMMA MakeKeeps ==
    ASSUME PoolInv, NEW t \in Threads, Make(t)
    PROVE  PoolInv'
<1> DEFINE k == key[t]
           n == made[k] + 1
<1>1. /\ UNCHANGED <<opt, mapped, free, lock, key, filled>>
      /\ pc[t] = "make" /\ pc' = [pc EXCEPT ![t] = "use"]
      /\ made' = [made EXCEPT ![k] = n]
      /\ item' = [item EXCEPT ![t] = n]
  BY DEF Make, Goto
<1>2. TypeOK
  BY DEF PoolInv
<1>3. k \in Keys /\ made[k] \in Nat /\ n \in Nat \ {0}
  BY <1>1, <1>2, Keyed
<1>4. \A u \in Threads : /\ item'[u] = IF u = t THEN n ELSE item[u]
                         /\ pc'[u] = IF u = t THEN "use" ELSE pc[u]
  BY <1>1, <1>2 DEF TypeOK
<1>5. \A l \in Keys : made[l] \in Nat /\ made'[l] = IF l = k THEN n ELSE made[l]
  BY <1>1, <1>2 DEF TypeOK
<1>6. item[t] = 0
  BY <1>1 DEF PoolInv, HandTypes
<1>7. \A i \in 1 .. Len(free[k]) : free[k][i] # n
  BY <1>3 DEF PoolInv, StackTypes
<1>8. \A u \in Threads : item[u] # 0 /\ key[u] = k => item[u] # n
  BY <1>2, <1>3 DEF PoolInv, HandTypes, TypeOK
<1>9. TypeOK'
  <2>1. made' \in [Keys -> Nat] /\ item' \in [Threads -> Nat]
    BY <1>1, <1>2, <1>3 DEF TypeOK
  <2>2. pc' \in [Threads -> {"idle", "find", "grow", "insert", "link", "fill", "pop", "make",
                             "use", "undefined"}]
    BY <1>1, <1>2 DEF TypeOK
  <2>3. \A u \in Threads : /\ pc'[u] \notin {"idle", "undefined"} => key'[u] \in Keys
                           /\ pc'[u] = "use" => item'[u] > 0
    BY <1>1, <1>2, <1>3, <1>4 DEF TypeOK
  <2> QED
    BY <1>1, <1>2, <2>1, <2>2, <2>3 DEF TypeOK
<1> HIDE DEF k
<1>10. HandTypes'
  <2> SUFFICES ASSUME NEW u \in Threads, item'[u] # 0
               PROVE  /\ pc'[u] \in {"use", "undefined"} /\ key[u] \in Keys
                      /\ item'[u] <= made'[key[u]]
    BY <1>1 DEF HandTypes
  <2>1. CASE u = t
    BY <1>3, <1>4, <1>5, <2>1 DEF k
  <2>2. CASE u # t
    <3>1. /\ pc[u] \in {"use", "undefined"} /\ key[u] \in Keys
          /\ item[u] <= made[key[u]] /\ item[u] \in Nat
      BY <1>2, <1>4, <2>2 DEF PoolInv, HandTypes, TypeOK
    <3> QED
      BY <1>3, <1>4, <1>5, <2>2, <3>1
  <2> QED
    BY <2>1, <2>2
<1>11. StackTypes' /\ StackApart'
  BY <1>1, <1>3, <1>5 DEF PoolInv, StackTypes, StackApart
<1>12. HandsApart'
  BY <1>1, <1>4, <1>6, <1>8 DEF PoolInv, HandsApart, k
<1>13. HandOffStack'
  BY <1>1, <1>4, <1>7 DEF PoolInv, HandOffStack, k
<1>14. NoneLost'
  <2> SUFFICES ASSUME NEW l \in Keys, NEW m \in 1 .. made'[l]
               PROVE  InPool(l, m)' \/ \E u \in Threads : Has(u, l, m)'
    BY DEF NoneLost
  <2>1. CASE l = k /\ m = n
    BY <1>1, <1>4, <2>1 DEF Has, k
  <2>2. CASE ~(l = k /\ m = n)
    <3>1. m \in 1 .. made[l] /\ m # 0
      BY <1>3, <1>5, <2>2
    <3>2. CASE InPool(l, m)
      BY <1>1, <3>2 DEF InPool
    <3>3. CASE \E u \in Threads : Has(u, l, m)
      <4>1. PICK u \in Threads : Has(u, l, m)
        BY <3>3
      <4> QED
        BY <1>1, <1>4, <1>6, <3>1, <4>1 DEF Has
    <3> QED
      BY <3>1, <3>2, <3>3 DEF PoolInv, NoneLost
  <2> QED
    BY <2>1, <2>2
<1> QED
  BY <1>9, <1>10, <1>11, <1>12, <1>13, <1>14 DEF PoolInv

\* Every step keeps items apart and loses none.
LEMMA PoolInvKept == PoolInv /\ [Next]_vars => PoolInv'
<1> SUFFICES ASSUME PoolInv, [Next]_vars PROVE PoolInv'
  OBVIOUS
<1>1. CASE UNCHANGED vars
  BY <1>1 DEF vars, poolVars, threadVars, PoolInv, TypeOK, HandTypes, StackTypes, StackApart,
       HandsApart, HandOffStack, NoneLost, InPool, Has
<1>2. ASSUME NEW t \in Threads, NEW k \in Keys, Ask(t, k) PROVE PoolInv'
  BY <1>2, AskKeeps
<1>3. ASSUME NEW t \in Threads, Release(t) PROVE PoolInv'
  BY <1>3, ReleaseKeeps
<1>4. ASSUME NEW t \in Threads, Acquire(t) PROVE PoolInv'
  <2>1. CASE Moves(t)
    BY <2>1, MovesKeep
  <2>2. CASE Pop(t)
    BY <2>2, PopKeeps
  <2>3. CASE Make(t)
    BY <2>3, MakeKeeps
  <2>4. CASE Fill(t)
    BY <2>4, FillKeeps
  <2> QED
    BY <1>4, <2>1, <2>2, <2>3, <2>4 DEF Acquire, Moves
<1> QED
  BY <1>1, <1>2, <1>3, <1>4 DEF Next

\* The state of the pools is well typed: a thread in "use" has an item.
THEOREM TypeCorrect == Spec => []TypeOK
<1>1. PoolInv => TypeOK
  BY DEF PoolInv
<1> QED
  BY <1>1, PoolInvInitially, PoolInvKept, PTL DEF Spec

\* However the threads race to find and to grow the map, no two of them hold an item, and
\* none that is held can be popped (managed_resource_pool::acquire, release, grow_map).
THEOREM ItemsAlwaysApart == Spec => []ItemsApart
<1>1. PoolInv => ItemsApart
  <2> SUFFICES ASSUME PoolInv, NEW k \in Keys, NEW n \in 1 .. made[k]
               PROVE  /\ \A i, j \in 1 .. Len(free[k]) : free[k][i] = n /\ free[k][j] = n => i = j
                      /\ \A t \in Threads : Has(t, k, n) => ~InPool(k, n)
                      /\ \A t, u \in Threads : Has(t, k, n) /\ Has(u, k, n) => t = u
    BY DEF ItemsApart
  <2>1. n # 0
    BY DEF PoolInv, TypeOK
  <2> QED
    BY <2>1 DEF PoolInv, StackApart, HandsApart, HandOffStack, Has, InPool
<1> QED
  BY <1>1, PoolInvInitially, PoolInvKept, PTL DEF Spec

\* No item is ever lost: inserting a pool for a key that has one changes nothing.
THEOREM NoneEverLost == Spec => []NoneLost
<1>1. PoolInv => NoneLost
  BY DEF PoolInv
<1> QED
  BY <1>1, PoolInvInitially, PoolInvKept, PTL DEF Spec

-----------------------------------------------------------------------------
(* With every key allocated in advance the map never grows.                *)

\* The threads about to make an item of a key, and those that have one.
Makers(k)  == {t \in Threads : key[t] = k /\ pc[t] = "make"}
Holders(k) == {t \in Threads : key[t] = k /\ pc[t] = "use" /\ item[t] # 0}

Limit == Largest(Largest(opt.initial, 1), Cardinality(opt.users))

\* Every thread about to make an item counts as an item already made.
Settled ==
    /\ mapped = Keys
    /\ \A t \in Threads : /\ pc[t] \in {"idle", "find", "pop", "make", "use"}
                          /\ pc[t] # "idle" => t \in opt.users
    /\ \A k \in Keys : made[k] + Cardinality(Makers(k)) <= Limit

SettledInv == opt.prealloc = Keys => Settled

\* Users and makers are finitely many.
LEMMA UsersFinite ==
    ASSUME opt \in Options
    PROVE  /\ IsFiniteSet(opt.users) /\ opt.users \subseteq Threads
           /\ Cardinality(opt.users) \in Nat /\ opt.initial \in Nat /\ Limit \in Nat
           /\ Limit >= Cardinality(opt.users) /\ Limit >= Largest(opt.initial, 1)
<1>1. opt.users \subseteq Threads /\ opt.initial \in Nat
  BY PoolAssumption DEF OptionSpace
<1>2. IsFiniteSet(opt.users)
  BY <1>1, PoolAssumption, FS_Subset
<1>3. Cardinality(opt.users) \in Nat
  BY <1>2, FS_CardinalityType
<1> QED
  BY <1>1, <1>2, <1>3 DEF Limit, Largest

LEMMA MakersFinite ==
    ASSUME NEW k \in Keys
    PROVE  IsFiniteSet(Makers(k)) /\ Cardinality(Makers(k)) \in Nat
<1>1. Makers(k) \in SUBSET Threads
  BY DEF Makers
<1> QED
  BY <1>1, PoolAssumption, FS_Subset, FS_CardinalityType

\* With every key allocated in advance: at first,
LEMMA SettledInitially == Init => SettledInv
<1> SUFFICES ASSUME Init, opt.prealloc = Keys PROVE Settled
  BY DEF SettledInv
<1>1. opt \in Options /\ mapped = Keys /\ \A t \in Threads : pc[t] = "idle"
  BY DEF Init
<1>2. ASSUME NEW k \in Keys PROVE made[k] + Cardinality(Makers(k)) <= Limit
  <2>1. Makers(k) = {}
    BY <1>1 DEF Makers
  <2>2. Cardinality(Makers(k)) = 0
    BY <2>1, FS_EmptySet
  <2>3. made[k] = Largest(opt.initial, 1)
    BY <1>1 DEF Init
  <2> QED
    BY <1>1, <2>2, <2>3, UsersFinite DEF Largest
<1> QED
  BY <1>1, <1>2 DEF Settled

\* With nothing on the stack every item made is in some thread's hands.
LEMMA AllInHands ==
    ASSUME PoolInv, Settled, NEW k \in Keys, free[k] = <<>>
    PROVE  /\ IsFiniteSet(Holders(k)) /\ Cardinality(Holders(k)) \in Nat
           /\ made[k] <= Cardinality(Holders(k))
<1> DEFINE Made   == 1 .. made[k]
           holder == [n \in Made |-> CHOOSE t \in Threads : Has(t, k, n)]
<1>1. made[k] \in Nat
  BY DEF PoolInv, TypeOK
<1>2. Holders(k) \in SUBSET Threads
  BY DEF Holders
<1>3. IsFiniteSet(Holders(k)) /\ Cardinality(Holders(k)) \in Nat
  BY <1>2, PoolAssumption, FS_Subset, FS_CardinalityType
<1>4. ASSUME NEW n \in Made
      PROVE  holder[n] \in Holders(k) /\ item[holder[n]] = n
  <2>1. ~InPool(k, n)
    BY DEF InPool
  <2>2. \E t \in Threads : Has(t, k, n)
    BY <2>1 DEF PoolInv, NoneLost
  <2>3. holder[n] \in Threads /\ Has(holder[n], k, n)
    BY <2>2
  <2>4. item[holder[n]] # 0
    BY <1>1, <2>3 DEF Has
  <2>5. pc[holder[n]] = "use"
    BY <2>3, <2>4 DEF PoolInv, HandTypes, Settled
  <2> QED
    BY <2>3, <2>4, <2>5 DEF Has, Holders
<1> HIDE DEF holder
<1>5. holder \in Injection(Made, Holders(k))
  <2>1. holder \in [Made -> Holders(k)]
    BY <1>4 DEF holder
  <2>2. \A m, n \in Made : holder[m] = holder[n] => m = n
    BY <1>4
  <2> QED
    BY <2>1, <2>2 DEF Injection, IsInjective
<1>6. Cardinality(Made) <= Cardinality(Holders(k))
  BY <1>3, <1>5, FS_Injection
<1>7. Cardinality(Made) = made[k]
  <2>1. Cardinality(1 .. made[k]) = IF 1 > made[k] THEN 0 ELSE made[k] - 1 + 1
    BY <1>1, FS_Interval
  <2> QED
    BY <1>1, <2>1
<1> QED
  BY <1>3, <1>6, <1>7

\* ... when a thread finds the pool empty, so that others have what was in it,
LEMMA PopNothingSettled ==
    ASSUME PoolInv, Settled, NEW t \in Threads, PopNothing(t)
    PROVE  Settled'
<1>0. key[t] \in Keys
  BY Keyed DEF PopNothing, Goto, PoolInv
<1> PICK k \in Keys : k = key[t]
  BY <1>0
<1>1. /\ UNCHANGED <<opt, mapped, free, made, key, item>>
      /\ pc[t] = "pop" /\ pc' = [pc EXCEPT ![t] = "make"] /\ free[k] = <<>>
  BY DEF PopNothing, Goto, poolVars, threadVars
<1>2. TypeOK /\ made[k] \in Nat /\ t \in opt.users
  BY <1>1, Keyed DEF PoolInv, Settled
<1>3. \A u \in Threads : pc'[u] = IF u = t THEN "make" ELSE pc[u]
  BY <1>1, <1>2 DEF TypeOK
<1>4. Makers(k)' = Makers(k) \cup {t}
  BY <1>1, <1>3 DEF Makers
<1>5. made[k] + Cardinality(Makers(k) \cup {t}) <= Cardinality(opt.users)
  <2>1. IsFiniteSet(Makers(k) \cup {t})
    BY <1>2, MakersFinite, FS_AddElement
  <2>2. /\ IsFiniteSet(Holders(k)) /\ Cardinality(Holders(k)) \in Nat
        /\ made[k] <= Cardinality(Holders(k))
    BY <1>1, <1>2, AllInHands
  <2>3. Holders(k) \cap (Makers(k) \cup {t}) = {}
    BY <1>1 DEF Holders, Makers
  <2>4. Cardinality(Holders(k) \cap (Makers(k) \cup {t})) = 0
    BY <2>3, FS_EmptySet
  <2>5. Cardinality(Holders(k) \cup (Makers(k) \cup {t}))
            = Cardinality(Holders(k)) + Cardinality(Makers(k) \cup {t})
    <3>1. Cardinality(Makers(k) \cup {t}) \in Nat
      BY <2>1, FS_CardinalityType
    <3>2. Cardinality(Holders(k) \cup (Makers(k) \cup {t}))
              = Cardinality(Holders(k)) + Cardinality(Makers(k) \cup {t})
                - Cardinality(Holders(k) \cap (Makers(k) \cup {t}))
      BY <2>1, <2>2, FS_Union
    <3> QED
      BY <2>2, <2>4, <3>1, <3>2
  <2>6. Holders(k) \cup (Makers(k) \cup {t}) \in SUBSET opt.users
    BY <1>2 DEF Holders, Makers, Settled
  <2>7. Cardinality(Holders(k) \cup (Makers(k) \cup {t})) <= Cardinality(opt.users)
    BY <1>2, <2>6, UsersFinite, FS_Subset DEF TypeOK
  <2>8. Cardinality(Makers(k) \cup {t}) \in Nat /\ Cardinality(opt.users) \in Nat
    BY <1>2, <2>1, FS_CardinalityType, UsersFinite DEF TypeOK
  <2> QED
    BY <1>2, <2>2, <2>5, <2>7, <2>8
<1>6. Limit' = Limit
  BY <1>1 DEF Limit
<1>7. made'[k] + Cardinality(Makers(k)') <= Limit'
  <2>1. Cardinality(Makers(k) \cup {t}) \in Nat
    BY <1>2, MakersFinite, FS_AddElement, FS_CardinalityType
  <2>2. made[k] + Cardinality(Makers(k) \cup {t}) <= Limit
    BY <1>2, <1>5, <2>1, UsersFinite DEF TypeOK
  <2> QED
    BY <1>1, <1>4, <1>6, <2>2
<1>8. ASSUME NEW l \in Keys, l # k PROVE Makers(l)' = Makers(l)
  BY <1>1, <1>3, <1>8 DEF Makers
<1>9. \A l \in Keys : made'[l] + Cardinality(Makers(l)') <= Limit'
  <2> SUFFICES ASSUME NEW l \in Keys PROVE made'[l] + Cardinality(Makers(l)') <= Limit'
    OBVIOUS
  <2>1. CASE l = k
    BY <1>7, <2>1
  <2>2. CASE l # k
    <3>1. made[l] + Cardinality(Makers(l)) <= Limit
      BY DEF Settled
    <3>2. Makers(l)' = Makers(l) /\ made'[l] = made[l]
      BY <1>1, <1>8, <2>2
    <3> QED
      BY <1>6, <3>1, <3>2
  <2> QED
    BY <2>1, <2>2
<1> QED
  BY <1>1, <1>2, <1>3, <1>9 DEF Settled

\* ... and when it makes one item more.
LEMMA MakeSettled ==
    ASSUME PoolInv, Settled, NEW t \in Threads, Make(t)
    PROVE  Settled'
<1>0. key[t] \in Keys
  BY Keyed DEF Make, Goto, PoolInv
<1> PICK k \in Keys : k = key[t]
  BY <1>0
<1>1. /\ UNCHANGED <<opt, mapped, key>>
      /\ pc[t] = "make" /\ pc' = [pc EXCEPT ![t] = "use"]
      /\ made' = [made EXCEPT ![k] = made[k] + 1]
  BY DEF Make, Goto
<1>2. TypeOK /\ made[k] \in Nat
  BY <1>1, Keyed DEF PoolInv
<1>3. t \in Makers(k)
  BY <1>1 DEF Makers
<1>4. \A u \in Threads : pc'[u] = IF u = t THEN "use" ELSE pc[u]
  BY <1>1, <1>2 DEF TypeOK
<1>5. made'[k] = made[k] + 1 /\ \A l \in Keys : l # k => made'[l] = made[l]
  BY <1>1, <1>2 DEF TypeOK
<1>6. Makers(k)' = Makers(k) \ {t} /\ \A l \in Keys : l # k => Makers(l)' = Makers(l)
  BY <1>1, <1>4 DEF Makers
<1>7. Cardinality(Makers(k) \ {t}) = Cardinality(Makers(k)) - 1
  BY <1>2, <1>3, MakersFinite, FS_RemoveElement
<1>8. Limit' = Limit
  BY <1>1 DEF Limit
<1>9. \A l \in Keys : made'[l] + Cardinality(Makers(l)') <= Limit'
  <2> SUFFICES ASSUME NEW l \in Keys PROVE made'[l] + Cardinality(Makers(l)') <= Limit'
    OBVIOUS
  <2>1. CASE l = k
    <3>1. made[k] + Cardinality(Makers(k)) <= Limit /\ Cardinality(Makers(k)) \in Nat
      BY <1>2, MakersFinite DEF Settled
    <3>2. made'[k] + Cardinality(Makers(k)') = made[k] + Cardinality(Makers(k))
      BY <1>2, <1>5, <1>6, <1>7, <3>1
    <3> QED
      BY <1>8, <2>1, <3>1, <3>2
  <2>2. CASE l # k
    <3>1. made[l] + Cardinality(Makers(l)) <= Limit
      BY DEF Settled
    <3>2. Makers(l)' = Makers(l) /\ made'[l] = made[l]
      BY <1>5, <1>6, <2>2
    <3> QED
      BY <1>8, <3>1, <3>2
  <2> QED
    BY <2>1, <2>2
<1>10. t \in opt.users
  BY <1>1 DEF Settled
<1> QED
  BY <1>1, <1>4, <1>9, <1>10 DEF Settled

\* Steps after which the same threads are about to make items.
LEMMA OthersSettled ==
    ASSUME PoolInv, Settled, NEW t \in Threads,
           Found(t) \/ Pop(t) \/ Release(t) \/ \E k \in Keys : Ask(t, k)
    PROVE  Settled'
<1>1. /\ UNCHANGED <<opt, mapped, made>>
      /\ pc[t] # "make" /\ t \in opt.users
      /\ \E to \in {"idle", "find", "pop", "use"} : pc' = [pc EXCEPT ![t] = to]
  BY DEF Found, Pop, Release, Ask, Goto, poolVars, Settled
<1>2. key' = key \/ \E k \in Keys \cup {None} : key' = [key EXCEPT ![t] = k]
  BY DEF Found, Pop, Release, Ask, threadVars
<1>3. PICK to \in {"idle", "find", "pop", "use"} : pc' = [pc EXCEPT ![t] = to]
  BY <1>1
<1>4. \A u \in Threads : /\ pc'[u] = IF u = t THEN to ELSE pc[u]
                         /\ u # t => key'[u] = key[u]
  BY <1>2, <1>3 DEF PoolInv, TypeOK
<1>5. \A l \in Keys : Makers(l)' = Makers(l)
  BY <1>1, <1>3, <1>4 DEF Makers
<1>6. Limit' = Limit
  BY <1>1 DEF Limit
<1>7. \A l \in Keys : made'[l] + Cardinality(Makers(l)') <= Limit'
  BY <1>1, <1>5, <1>6 DEF Settled
<1> QED
  BY <1>1, <1>3, <1>4, <1>7 DEF Settled

\* Every step keeps this.
LEMMA SettledKept == PoolInv /\ SettledInv /\ [Next]_vars => SettledInv'
<1> SUFFICES ASSUME PoolInv, SettledInv, [Next]_vars, opt'.prealloc = Keys PROVE Settled'
  BY DEF SettledInv
<1>1. opt' = opt
  BY DEF Next, vars, Acquire, Found, Missed, Pop, PopNothing, Make, TryLock, TryLockFails,
         InsertPresent, InsertBegin, InsertEnd, Fill, FillEnds, Undefined, Release, Ask
<1>2. Settled
  BY <1>1 DEF SettledInv
<1>3. CASE UNCHANGED vars
  BY <1>2, <1>3 DEF vars, poolVars, threadVars, Settled, Limit, Makers
<1>4. ASSUME NEW t \in Threads, Release(t) \/ \E k \in Keys : Ask(t, k) PROVE Settled'
  BY <1>2, <1>4, OthersSettled
<1>5. ASSUME NEW t \in Threads, Acquire(t) PROVE Settled'
  <2>1. ~Rebalancing(t)
    BY <1>2 DEF Settled, Rebalancing
  <2>2. ~Missed(t) /\ ~Undefined(t)
    BY <1>2, <2>1, Keyed DEF Missed, Undefined, Settled, Goto, PoolInv
  <2>3. Found(t) \/ Pop(t) \/ PopNothing(t) \/ Make(t)
    BY <1>2, <1>5, <2>2 DEF Acquire, Settled, TryLock, TryLockFails, InsertPresent, InsertBegin,
       InsertEnd, Fill, FillEnds, Goto
  <2> QED
    BY <1>2, <2>3, OthersSettled, PopNothingSettled, MakeSettled
<1> QED
  BY <1>3, <1>4, <1>5 DEF Next

\* With every key in pre_alloc_list nothing undefined is ever reached, and a pool never
\* has more items than it began with or than there are threads that use it
\* (managed_resource_pool's constructor and pooled_resource::acquire).
THEOREM PreallocatedAlwaysSafe == Spec => []PreallocatedIsSafe
<1>1. PoolInv /\ SettledInv => PreallocatedIsSafe
  <2> SUFFICES ASSUME PoolInv, Settled
               PROVE  Lives /\ \A k \in Keys : made[k] <= Limit
    BY DEF SettledInv, PreallocatedIsSafe, Limit
  <2>1. Lives
    BY DEF Lives, Settled
  <2>2. ASSUME NEW k \in Keys PROVE made[k] <= Limit
    <3>1. made[k] + Cardinality(Makers(k)) <= Limit /\ Cardinality(Makers(k)) \in Nat
      BY MakersFinite DEF Settled
    <3> QED
      BY <3>1, UsersFinite DEF PoolInv, TypeOK
  <2> QED
    BY <2>1, <2>2
<1> QED
  BY <1>1, PoolInvInitially, PoolInvKept, SettledInitially, SettledKept, PTL DEF Spec
=============================================================================
