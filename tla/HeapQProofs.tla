---------------------------- MODULE HeapQProofs ----------------------------
(* That the timers are a heap, lose none and give the first, for any number *)
(* of timers, any due times and any size of the array.                      *)
EXTENDS HeapQ, WellFoundedInduction, TLAPS

(* The order of an array with a hole at p, in terms of the due times k of   *)
(* its n places: everywhere but at the hole; across it, from its parent to  *)
(* its children; and from an item x to the children of the hole.            *)
OrderBut(k, n, p) ==
  \A i \in 1 .. n - 1 : i # p /\ Parent(i) # p => k[Parent(i)] <= k[i]
OrderAcross(k, n, p) ==
  p > 0 => \A i \in 1 .. n - 1 : Parent(i) = p => k[Parent(p)] <= k[i]
Below(k, n, p, x) ==
  \A i \in 1 .. n - 1 : Parent(i) = p => x <= k[i]
Order(k, n) ==
  \A i \in 1 .. n - 1 : k[Parent(i)] <= k[i]

Key == [i \in 0 .. size - 1 |-> seconds[heap[i]]]

SiftOrder ==
  /\ pc = "idle" => Order(Key, size)
  /\ pc # "idle" => OrderBut(Key, size, pos) /\ OrderAcross(Key, size, pos)
  /\ pc = "down" => Below(Key, size, pos, seconds[newitem])

HeapInv == TypeOK /\ NoneTwice /\ SiftOrder

----------------------------------------------------------------------------
(* Parents, and the induction over them.                                    *)

LEMMA ParentIs ==
  ASSUME NEW i \in Int, i > 0
  PROVE  /\ Parent(i) \in Nat /\ Parent(i) < i
         /\ \A p \in Int : Parent(i) = p <=> i = 2 * p + 1 \/ i = 2 * p + 2
BY DEF Parent

LEMMA LeastNumber ==
  ASSUME NEW S \in SUBSET Nat, S # {}
  PROVE  \E x \in S : \A y \in S : x <= y
<1>. DEFINE R == OpToRel(<, Nat)
<1>1. IsWellFoundedOn(R, Nat)
  BY NatLessThanWellFounded
<1>2. \A x, y \in S : <<y, x>> \in R <=> y < x
  BY DEF OpToRel
<1>. HIDE DEF R
<1>3. \E x \in S : \A y \in S : ~ (<<y, x>> \in R)
  BY <1>1, WFMin
<1>4. PICK x \in S : \A y \in S : ~ (<<y, x>> \in R)
  BY <1>3
<1>5. \A y \in S : x <= y
  <2>. TAKE y \in S
  <2>1. x \in Nat /\ y \in Nat
    OBVIOUS
  <2>2. ~(y < x)
    BY <1>2, <1>4
  <2>. QED
    BY <2>1, <2>2
<1>. QED
  BY <1>5

(* A parent that is never later makes the root the first of all: the least  *)
(* place that is earlier than the root would have an earlier parent.        *)
LEMMA RootIsFirst ==
  ASSUME NEW n \in Nat, NEW k \in [0 .. n - 1 -> Int], Order(k, n)
  PROVE  \A i \in 0 .. n - 1 : k[0] <= k[i]
<1>. DEFINE S == {i \in 0 .. n - 1 : ~(k[0] <= k[i])}
<1>1. SUFFICES ASSUME S # {} PROVE FALSE
  OBVIOUS
<1>2. S \in SUBSET Nat
  OBVIOUS
<1>3. PICK x \in S : \A y \in S : x <= y
  BY <1>1, <1>2, LeastNumber
<1>4. x \in 0 .. n - 1 /\ ~(k[0] <= k[x])
  OBVIOUS
<1>5. x # 0
  BY <1>4
<1>6. Parent(x) \in 0 .. n - 1 /\ Parent(x) < x
  BY <1>4, <1>5, ParentIs
<1>7. k[Parent(x)] <= k[x]
  BY <1>4, <1>5 DEF Order
<1>8. Parent(x) \notin S
  BY <1>3, <1>4, <1>6
<1>. QED
  BY <1>4, <1>6, <1>7, <1>8

----------------------------------------------------------------------------
(* What one turn of a sift does to the order.                               *)

LEMMA Sinks ==
  ASSUME NEW n \in Nat, NEW k \in [0 .. n - 1 -> Int],
         NEW p \in 0 .. n - 1, NEW c \in 1 .. n - 1, Parent(c) = p,
         \A i \in 1 .. n - 1 : Parent(i) = p => k[c] <= k[i],
         OrderBut(k, n, p), OrderAcross(k, n, p),
         NEW j, j = [k EXCEPT ![p] = k[c]]
  PROVE  OrderBut(j, n, c) /\ OrderAcross(j, n, c)
<1>1. \A i \in 0 .. n - 1 : j[i] = IF i = p THEN k[c] ELSE k[i]
  OBVIOUS
<1>2. \A i \in 1 .. n - 1 : Parent(i) \in 0 .. n - 1 /\ Parent(i) < i
  BY ParentIs
<1>3. OrderBut(j, n, c)
  <2>. SUFFICES ASSUME NEW i \in 1 .. n - 1, i # c, Parent(i) # c
                PROVE  j[Parent(i)] <= j[i]
    BY DEF OrderBut
  <2>1. CASE i = p
    BY <2>1, <1>1, <1>2 DEF OrderAcross
  <2>2. CASE i # p /\ Parent(i) = p
    BY <2>2, <1>1, <1>2
  <2>3. CASE i # p /\ Parent(i) # p
    BY <2>3, <1>1, <1>2 DEF OrderBut
  <2>. QED
    BY <2>1, <2>2, <2>3
<1>4. OrderAcross(j, n, c)
  <2>. SUFFICES ASSUME NEW i \in 1 .. n - 1, Parent(i) = c
                PROVE  j[Parent(c)] <= j[i]
    BY DEF OrderAcross
  <2>1. i # p /\ c # p
    BY <1>2
  <2>. QED
    BY <2>1, <1>1, <1>2 DEF OrderBut
<1>. QED
  BY <1>3, <1>4

LEMMA Rising ==
  ASSUME NEW n \in Nat, NEW k \in [0 .. n - 1 -> Int], NEW x \in Int,
         NEW p \in 1 .. n - 1, NEW q, q = Parent(p), k[q] > x,
         OrderBut(k, n, p), OrderAcross(k, n, p), Below(k, n, p, x),
         NEW j, j = [k EXCEPT ![p] = k[q]]
  PROVE  OrderBut(j, n, q) /\ OrderAcross(j, n, q) /\ Below(j, n, q, x)
<1>1. \A i \in 0 .. n - 1 : j[i] = IF i = p THEN k[q] ELSE k[i]
  OBVIOUS
<1>2. \A i \in 1 .. n - 1 : Parent(i) \in 0 .. n - 1 /\ Parent(i) < i
  BY ParentIs
<1>3. q \in 0 .. n - 1 /\ q < p /\ q # p
  BY <1>2
<1>4. OrderBut(j, n, q)
  <2>. SUFFICES ASSUME NEW i \in 1 .. n - 1, i # q, Parent(i) # q
                PROVE  j[Parent(i)] <= j[i]
    BY DEF OrderBut
  <2>1. i # p
    OBVIOUS
  <2>2. CASE Parent(i) = p
    BY <2>1, <2>2, <1>1, <1>2 DEF OrderAcross
  <2>3. CASE Parent(i) # p
    BY <2>1, <2>3, <1>1, <1>2 DEF OrderBut
  <2>. QED
    BY <2>2, <2>3
<1>5. \A i \in 1 .. n - 1 : Parent(i) = q => k[q] <= j[i]
  <2>. SUFFICES ASSUME NEW i \in 1 .. n - 1, Parent(i) = q
                PROVE  k[q] <= j[i]
    OBVIOUS
  <2>1. CASE i = p
    BY <2>1, <1>1, <1>3
  <2>2. CASE i # p
    BY <2>2, <1>1, <1>3 DEF OrderBut
  <2>. QED
    BY <2>1, <2>2
<1>6. OrderAcross(j, n, q)
  <2>. SUFFICES ASSUME q > 0, NEW i \in 1 .. n - 1, Parent(i) = q
                PROVE  j[Parent(q)] <= j[i]
    BY DEF OrderAcross
  <2>1. Parent(q) \in 0 .. n - 1 /\ Parent(q) # p
    BY <1>2, <1>3
  <2>2. k[Parent(q)] <= k[q]
    BY <1>3, <2>1 DEF OrderBut
  <2>3. j[Parent(q)] = k[Parent(q)] /\ j[i] \in Int
    BY <2>1, <1>1, <1>3
  <2>. QED
    BY <2>1, <2>2, <2>3, <1>3, <1>5
<1>7. Below(j, n, q, x)
  BY <1>1, <1>3, <1>5 DEF Below
<1>. QED
  BY <1>4, <1>6, <1>7
----------------------------------------------------------------------------
(* The actions.                                                             *)

LEMMA KeyType ==
  ASSUME TypeOK
  PROVE  /\ Key \in [0 .. size - 1 -> Int]
         /\ \A t \in Timers : seconds[t] \in Int
BY HeapAssumption DEF TypeOK, Key

LEMMA InitHolds == Init => HeapInv
<1>. SUFFICES ASSUME Init PROVE HeapInv
  OBVIOUS
<1>1. size = 0 /\ pc = "idle" /\ max \in Nat \ {0} /\ newitem = None /\ pos = 0
  BY HeapAssumption DEF Init
<1>2. 0 .. size - 1 = {} /\ 1 .. size - 1 = {}
  BY <1>1
<1>3. TypeOK
  <2>1. heap \in [0 .. max - 1 -> Timers \cup {None}] /\ size \in 0 .. max
    BY <1>1 DEF Init
  <2>2. retitem \in Timers \cup {None} /\ full \in BOOLEAN /\ seconds \in [Timers -> Due]
    BY DEF Init
  <2>. QED
    BY <1>1, <1>2, <2>1, <2>2 DEF TypeOK
<1>4. NoneTwice /\ SiftOrder
  BY <1>1, <1>2 DEF NoneTwice, Places, SiftOrder, Order
<1>. QED
  BY <1>3, <1>4 DEF HeapInv

(* heappush: the new timer is in the last place, which is the hole.         *)
LEMMA PushKeeps ==
  ASSUME HeapInv, NEW t \in Timers, NEW s \in Due, NEW fails \in BOOLEAN,
         Push(t, s, fails)
  PROVE  HeapInv'
<1>. USE DEF HeapInv, Sift
<1>1. CASE full' = TRUE
  <2>1. UNCHANGED <<heap, size, max, pc, pos, newitem, seconds, retitem>>
    BY <1>1 DEF Push, arrayVars, siftVars
  <2>. QED
    BY <2>1, <1>1 DEF TypeOK, NoneTwice, Places, SiftOrder, Key
<1>2. CASE full' # TRUE
  <2>1. /\ pc = "idle" /\ pc' = "down" /\ pos' = size /\ newitem' = t
        /\ size' = size + 1 /\ full' = FALSE /\ retitem' = retitem
        /\ max' = IF size >= max THEN 2 * max ELSE max
        /\ seconds' = [seconds EXCEPT ![t] = s]
        /\ heap' = [i \in 0 .. max' - 1 |->
                      IF i = size THEN t ELSE IF i < max THEN heap[i] ELSE None]
        /\ Free(t)
    BY <1>2 DEF Push
  <2>2. size \in 0 .. max' - 1 /\ max' \in Nat \ {0} /\ size \in Nat /\ max \in Nat
    BY <2>1 DEF TypeOK
  <2>3. heap'[size] = t /\ \A i \in 0 .. size - 1 : heap'[i] = heap[i] /\ heap[i] # t
    BY <2>1, <2>2 DEF TypeOK, Free
  <2>4. TypeOK'
    <3>1. heap' \in [0 .. max' - 1 -> Timers \cup {None}]
      BY <2>1, <2>2 DEF TypeOK
    <3>2. \A i \in 0 .. size' - 1 : heap'[i] \in Timers
      BY <2>1, <2>2, <2>3 DEF TypeOK
    <3>3. seconds' \in [Timers -> Due]
      BY <2>1 DEF TypeOK
    <3>4. size' \in 0 .. max' /\ pos' \in 0 .. size' - 1
      BY <2>1, <2>2
    <3>5. newitem' \in Timers /\ retitem' \in Timers \cup {None} /\ full' \in BOOLEAN
      BY <2>1 DEF TypeOK
    <3>. QED
      BY <2>1, <2>2, <3>1, <3>2, <3>3, <3>4, <3>5 DEF TypeOK
  <2>5. Places' = Places /\ Places = 0 .. size - 1
    BY <2>1, <2>2 DEF Places
  <2>6. NoneTwice'
    <3>1. \A i, j \in Places' : heap'[i] = heap'[j] => i = j
      BY <2>3, <2>5 DEF NoneTwice
    <3>2. \A i \in Places' : heap'[i] # newitem'
      BY <2>1, <2>3, <2>5
    <3>. QED
      BY <3>1, <3>2 DEF NoneTwice
  <2>7. \A i \in 0 .. size - 1 : Key'[i] = Key[i]
    <3>1. \A i \in 0 .. size - 1 : seconds'[heap'[i]] = seconds[heap[i]]
      BY <2>1, <2>3 DEF TypeOK
    <3>2. \A i \in 0 .. size - 1 : i \in 0 .. size' - 1
      BY <2>1, <2>2
    <3>3. \A i \in 0 .. size' - 1 : Key'[i] = seconds'[heap'[i]]
      BY DEF Key
    <3>4. \A i \in 0 .. size - 1 : Key[i] = seconds[heap[i]]
      BY DEF Key
    <3>. QED
      BY <3>1, <3>2, <3>3, <3>4
  <2>8. \A i \in 1 .. size' - 1 :
          Parent(i) \in 0 .. size' - 1 /\ Parent(i) < i /\ Parent(i) # size
    <3>. SUFFICES ASSUME NEW i \in 1 .. size' - 1
                  PROVE  Parent(i) \in 0 .. size' - 1 /\ Parent(i) < i /\ Parent(i) # size
      OBVIOUS
    <3>1. size' = size + 1 /\ size \in Nat /\ i \in Nat /\ i <= size
      BY <2>1, <2>2
    <3>2. Parent(i) \in Nat /\ Parent(i) < i
      BY ParentIs
    <3>. QED
      BY <3>1, <3>2
  <2>9. SiftOrder'
    <3>1. OrderBut(Key', size', pos')
      BY <2>1, <2>2, <2>7, <2>8 DEF OrderBut, SiftOrder, Order
    <3>2. OrderAcross(Key', size', pos') /\ Below(Key', size', pos', seconds'[newitem'])
      BY <2>1, <2>8 DEF OrderAcross, Below
    <3>. QED
      BY <2>1, <3>1, <3>2 DEF SiftOrder
  <2>. QED
    BY <2>4, <2>6, <2>9
<1>. QED
  BY <1>1, <1>2

(* heappop: the last timer is in hand and the root is the hole.             *)
LEMMA PopKeeps == HeapInv /\ Pop => HeapInv'
<1>. SUFFICES ASSUME HeapInv, Pop PROVE HeapInv'
  OBVIOUS
<1>. USE DEF HeapInv, Sift
<1>1. /\ pc = "idle" /\ pc' = "up" /\ pos' = 0 /\ newitem' = heap[size - 1]
      /\ size' = size - 1 /\ size > 1 /\ retitem' = heap[0]
      /\ heap' = [heap EXCEPT ![0] = heap[size - 1], ![size - 1] = None]
      /\ UNCHANGED <<max, seconds, full>>
  BY DEF Pop
<1>2. size \in Nat /\ size <= max /\ max \in Nat
  BY DEF TypeOK
<1>3. \A i \in 1 .. size' - 1 : heap'[i] = heap[i]
  BY <1>1, <1>2 DEF TypeOK
<1>4. heap'[0] = heap[size - 1]
  BY <1>1, <1>2 DEF TypeOK
<1>5. TypeOK'
  <2>1. heap' \in [0 .. max' - 1 -> Timers \cup {None}]
    BY <1>1, <1>2 DEF TypeOK
  <2>2. \A i \in 0 .. size' - 1 : heap'[i] \in Timers
    BY <1>1, <1>2, <1>3, <1>4 DEF TypeOK
  <2>. QED
    BY <1>1, <1>2, <2>1, <2>2 DEF TypeOK
<1>6. Places' = 1 .. size' - 1 /\ Places = 0 .. size - 1
  BY <1>1, <1>2 DEF Places
<1>7. NoneTwice'
  <2>1. \A i, j \in 0 .. size - 1 : heap[i] = heap[j] => i = j
    BY <1>6 DEF NoneTwice
  <2>2. \A i, j \in Places' : heap'[i] = heap'[j] => i = j
    BY <1>1, <1>2, <1>3, <1>6, <2>1
  <2>3. \A i \in Places' : i \in 0 .. size - 1 /\ i # size - 1
    BY <1>1, <1>2, <1>6
  <2>4. \A i \in Places' : heap'[i] # newitem'
    <3>. TAKE i \in Places'
    <3>1. size - 1 \in 0 .. size - 1
      BY <1>1, <1>2
    <3>2. heap'[i] = heap[i]
      BY <1>3, <1>6
    <3>. QED
      BY <1>1, <2>1, <2>3, <3>1, <3>2
  <2>. QED
    BY <2>2, <2>4 DEF NoneTwice
<1>8. \A i \in 1 .. size' - 1 : Key'[i] = Key[i]
  <2>1. \A i \in 1 .. size' - 1 : seconds'[heap'[i]] = seconds[heap[i]]
    BY <1>1, <1>3
  <2>2. \A i \in 1 .. size' - 1 : i \in 0 .. size' - 1 /\ i \in 0 .. size - 1
    BY <1>1, <1>2
  <2>3. Key' = [i \in 0 .. size' - 1 |-> seconds'[heap'[i]]]
    BY DEF Key
  <2>. QED
    BY <2>1, <2>2, <2>3 DEF Key
<1>9. \A i \in 1 .. size' - 1 : Parent(i) \in 0 .. size' - 1 /\ i \in 1 .. size - 1
  BY <1>1, <1>2, ParentIs
<1>10. OrderBut(Key', size', pos')
  BY <1>1, <1>8, <1>9 DEF OrderBut, SiftOrder, Order
<1>11. OrderAcross(Key', size', pos')
  BY <1>1 DEF OrderAcross
<1>12. SiftOrder'
  BY <1>1, <1>10, <1>11 DEF SiftOrder
<1>. QED
  BY <1>5, <1>7, <1>12

LEMMA PopLastKeeps == HeapInv /\ (PopLast \/ PopEmpty) => HeapInv'
<1>. SUFFICES ASSUME HeapInv, PopLast \/ PopEmpty PROVE HeapInv'
  OBVIOUS
<1>1. CASE PopLast
  BY <1>1 DEF HeapInv, TypeOK, NoneTwice, Places, SiftOrder, Order, PopLast, siftVars
<1>2. CASE PopEmpty
  BY <1>2 DEF HeapInv, TypeOK, NoneTwice, Places, SiftOrder, Order, PopEmpty, siftVars,
              arrayVars
<1>. QED
  BY <1>1, <1>2

(* A timer moves into the hole, which is then where the timer was.          *)
LEMMA MoveKeepsTimers ==
  ASSUME TypeOK, NoneTwice, pc # "idle", NEW c \in 0 .. size - 1, c # pos, MoveTo(c)
  PROVE  /\ TypeOK' /\ NoneTwice' /\ Contents' = Contents
         /\ pos' = c /\ pc' = pc /\ newitem' = newitem /\ size' = size
         /\ seconds' = seconds
         /\ Key' = [Key EXCEPT ![pos] = Key[c]]
<1>1. /\ heap' = [heap EXCEPT ![pos] = heap[c]] /\ pos' = c
      /\ UNCHANGED <<size, max, pc, newitem, seconds, retitem, full>>
  BY DEF MoveTo
<1>2. size \in Nat /\ size <= max /\ max \in Nat /\ pos \in 0 .. size - 1
  BY DEF TypeOK
<1>3. heap'[pos] = heap[c] /\ \A i \in 0 .. size - 1 : i # pos => heap'[i] = heap[i]
  BY <1>1, <1>2 DEF TypeOK
<1>4. TypeOK'
  <2>1. heap' \in [0 .. max' - 1 -> Timers \cup {None}]
    BY <1>1, <1>2 DEF TypeOK
  <2>2. \A i \in 0 .. size' - 1 : heap'[i] \in Timers
    BY <1>1, <1>3 DEF TypeOK
  <2>. QED
    BY <1>1, <2>1, <2>2 DEF TypeOK
<1>5. Places = (0 .. size - 1) \ {pos} /\ Places' = (0 .. size - 1) \ {c}
  BY <1>1 DEF Places
<1>6. NoneTwice'
  BY <1>1, <1>2, <1>3, <1>5 DEF NoneTwice
<1>7. {heap'[i] : i \in Places'} = {heap[i] : i \in Places}
  <2>1. ASSUME NEW i \in Places' PROVE \E j \in Places : heap'[i] = heap[j]
    BY <1>2, <1>3, <1>5
  <2>2. ASSUME NEW j \in Places PROVE \E i \in Places' : heap'[i] = heap[j]
    <3>1. CASE j = c
      BY <3>1, <1>2, <1>3, <1>5
    <3>2. CASE j # c
      BY <3>2, <1>3, <1>5
    <3>. QED
      BY <3>1, <3>2
  <2>. QED
    BY <2>1, <2>2
<1>8. Contents' = Contents
  BY <1>1, <1>7 DEF Contents
<1>9. Key' = [Key EXCEPT ![pos] = Key[c]]
  <2>1. \A i \in 0 .. size - 1 :
          seconds[heap'[i]] = IF i = pos THEN seconds[heap[c]] ELSE seconds[heap[i]]
    BY <1>3
  <2>. QED
    BY <2>1, <1>1, <1>2 DEF Key
<1>. QED
  BY <1>1, <1>4, <1>6, <1>8, <1>9

LEMMA SiftUpKeeps ==
  ASSUME HeapInv, SiftUp
  PROVE  HeapInv' /\ Contents' = Contents
<1>. DEFINE c == SmallChild(pos)
<1>1. pc = "up" /\ 2 * pos + 1 < size /\ MoveTo(c) /\ pos \in 0 .. size - 1 /\ size \in Nat
  BY DEF SiftUp, HeapInv, TypeOK
<1>2. \A i \in 0 .. size - 1 : Key[i] = seconds[heap[i]] /\ Key[i] \in Int
  BY KeyType DEF Key, HeapInv
<1>3. /\ c \in 1 .. size - 1 /\ Parent(c) = pos /\ c # pos
      /\ \A i \in 1 .. size - 1 : Parent(i) = pos => Key[c] <= Key[i]
  <2>1. \A i \in 1 .. size - 1 :
          Parent(i) = pos <=> i = 2 * pos + 1 \/ i = 2 * pos + 2
    BY <1>1, ParentIs
  <2>2. CASE 2 * pos + 2 < size /\ Greater(heap[2 * pos + 1], heap[2 * pos + 2])
    <3>1. c = 2 * pos + 2
      BY <2>2, <1>1 DEF SmallChild
    <3>2. Key[2 * pos + 2] < Key[2 * pos + 1]
      BY <2>2, <1>1, <1>2 DEF Greater
    <3>. HIDE DEF c
    <3>. QED
      BY <3>1, <3>2, <2>1, <2>2, <1>1, <1>2
  <2>3. CASE ~(2 * pos + 2 < size /\ Greater(heap[2 * pos + 1], heap[2 * pos + 2]))
    <3>1. c = 2 * pos + 1
      BY <2>3, <1>1 DEF SmallChild
    <3>2. 2 * pos + 2 < size => Key[2 * pos + 1] <= Key[2 * pos + 2]
      BY <2>3, <1>1, <1>2 DEF Greater
    <3>. HIDE DEF c
    <3>. QED
      BY <3>1, <3>2, <2>1, <1>1, <1>2
  <2>. QED
    BY <2>2, <2>3
<1>. HIDE DEF c
<1>4. /\ TypeOK' /\ NoneTwice' /\ Contents' = Contents
      /\ pos' = c /\ pc' = "up" /\ size' = size
      /\ Key' = [Key EXCEPT ![pos] = Key[c]]
  BY <1>1, <1>3, MoveKeepsTimers DEF HeapInv
<1>5. OrderBut(Key, size, pos) /\ OrderAcross(Key, size, pos)
  BY <1>1 DEF HeapInv, SiftOrder
<1>6. Key \in [0 .. size - 1 -> Int]
  BY KeyType DEF HeapInv
<1>. HIDE DEF Key
<1>7. OrderBut(Key', size, c) /\ OrderAcross(Key', size, c)
  BY <1>1, <1>3, <1>4, <1>5, <1>6, Sinks
<1>. QED
  BY <1>4, <1>7 DEF HeapInv, SiftOrder

LEMMA SiftDownKeeps ==
  ASSUME HeapInv, SiftDown
  PROVE  HeapInv' /\ Contents' = Contents
<1>. DEFINE q == Parent(pos)
<1>1. /\ pc = "down" /\ pos > 0 /\ Greater(heap[q], newitem) /\ MoveTo(q)
      /\ pos \in 1 .. size - 1 /\ size \in Nat /\ newitem \in Timers
  BY DEF SiftDown, Rises, HeapInv, TypeOK
<1>2. q \in 0 .. size - 1 /\ q # pos
  BY <1>1, ParentIs
<1>3. Key \in [0 .. size - 1 -> Int] /\ seconds[newitem] \in Int
  BY <1>1, KeyType DEF HeapInv
<1>4. Key[q] > seconds[newitem]
  BY <1>1, <1>2 DEF Key, Greater
<1>. HIDE DEF q
<1>5. /\ TypeOK' /\ NoneTwice' /\ Contents' = Contents
      /\ pos' = q /\ pc' = "down" /\ size' = size
      /\ newitem' = newitem /\ seconds' = seconds
      /\ Key' = [Key EXCEPT ![pos] = Key[q]]
  BY <1>1, <1>2, MoveKeepsTimers DEF HeapInv
<1>6. /\ OrderBut(Key, size, pos) /\ OrderAcross(Key, size, pos)
      /\ Below(Key, size, pos, seconds[newitem])
  BY <1>1 DEF HeapInv, SiftOrder
<1>7. /\ OrderBut(Key', size, q) /\ OrderAcross(Key', size, q)
      /\ Below(Key', size, q, seconds[newitem])
  BY <1>1, <1>3, <1>4, <1>5, <1>6, Rising DEF q
<1>. QED
  BY <1>5, <1>7 DEF HeapInv, SiftOrder

(* newitem is put into the hole.                                            *)
LEMMA PlaceKeeps ==
  ASSUME TypeOK, pc # "idle", Place
  PROVE  /\ heap' \in [0 .. max - 1 -> Timers \cup {None}]
         /\ \A i \in 0 .. size - 1 :
              heap'[i] = (IF i = pos THEN newitem ELSE heap[i]) /\ heap'[i] \in Timers
BY DEF TypeOK, Place

LEMMA SiftUpEndsKeeps ==
  ASSUME HeapInv, SiftUpEnds
  PROVE  HeapInv' /\ Contents' = Contents
<1>1. /\ pc = "up" /\ pc' = "down" /\ 2 * pos + 1 >= size /\ Place
      /\ UNCHANGED <<size, max, pos, newitem, seconds, retitem, full>>
      /\ pos \in 0 .. size - 1 /\ size \in Nat
  BY DEF SiftUpEnds, HeapInv, TypeOK
<1>2. \A i \in 0 .. size - 1 :
        heap'[i] = (IF i = pos THEN newitem ELSE heap[i]) /\ heap'[i] \in Timers
  BY <1>1, PlaceKeeps DEF HeapInv
<1>3. TypeOK'
  BY <1>1, <1>2, PlaceKeeps DEF HeapInv, TypeOK
<1>4. Places' = Places /\ Places = (0 .. size - 1) \ {pos}
  BY <1>1 DEF Places
<1>5. NoneTwice' /\ Contents' = Contents
  BY <1>1, <1>2, <1>4 DEF HeapInv, NoneTwice, Contents
<1>6. \A i \in 1 .. size - 1 :
        /\ i \in 0 .. size - 1 /\ Parent(i) \in 0 .. size - 1
        /\ Parent(i) # pos
  BY <1>1, ParentIs
<1>7. \A i \in 0 .. size - 1 : i # pos => Key'[i] = Key[i]
  BY <1>1, <1>2 DEF Key
<1>8. OrderBut(Key, size, pos)
  BY <1>1 DEF HeapInv, SiftOrder
<1>9. OrderBut(Key', size, pos)
  BY <1>6, <1>7, <1>8 DEF OrderBut
<1>10. OrderAcross(Key', size, pos) /\ Below(Key', size, pos, seconds'[newitem'])
  BY <1>6 DEF OrderAcross, Below
<1>. QED
  BY <1>1, <1>3, <1>5, <1>9, <1>10 DEF HeapInv, SiftOrder

LEMMA SiftDownEndsKeeps ==
  ASSUME HeapInv, SiftDownEnds
  PROVE  HeapInv' /\ Contents' = Contents
<1>1. /\ pc = "down" /\ pc' = "idle" /\ ~Rises /\ Place
      /\ pos' = 0 /\ newitem' = None
      /\ UNCHANGED <<size, max, seconds, retitem, full>>
      /\ pos \in 0 .. size - 1 /\ size \in Nat /\ newitem \in Timers
  BY DEF SiftDownEnds, Sift, HeapInv, TypeOK
<1>2. \A i \in 0 .. size - 1 :
        heap'[i] = (IF i = pos THEN newitem ELSE heap[i]) /\ heap'[i] \in Timers
  BY <1>1, PlaceKeeps DEF HeapInv
<1>3. TypeOK'
  BY <1>1, <1>2, PlaceKeeps DEF HeapInv, TypeOK
<1>4. Places' = 0 .. size - 1 /\ Places = (0 .. size - 1) \ {pos}
  BY <1>1 DEF Places
<1>5. NoneTwice'
  <2>1. \A i, j \in Places' : heap'[i] = heap'[j] => i = j
    BY <1>1, <1>2, <1>4 DEF HeapInv, NoneTwice
  <2>2. \A i \in Places' : heap'[i] # newitem'
    BY <1>1, <1>2, <1>4, HeapAssumption
  <2>. QED
    BY <2>1, <2>2 DEF NoneTwice
<1>6. Contents' = Contents
  <2>1. Contents' = {heap'[i] : i \in 0 .. size - 1}
    BY <1>1, <1>4 DEF Contents
  <2>2. Contents = {heap[i] : i \in (0 .. size - 1) \ {pos}} \cup {newitem}
    BY <1>1, <1>4 DEF Contents
  <2>. QED
    BY <2>1, <2>2, <1>1, <1>2
<1>7. \A i \in 1 .. size - 1 :
        i \in 0 .. size - 1 /\ Parent(i) \in 0 .. size - 1 /\ Parent(i) < i
  BY <1>1, ParentIs
<1>8. /\ \A i \in 0 .. size - 1 : i # pos => Key'[i] = Key[i]
      /\ Key'[pos] = seconds[newitem]
  BY <1>1, <1>2 DEF Key
<1>9. OrderBut(Key, size, pos) /\ Below(Key, size, pos, seconds[newitem])
  BY <1>1 DEF HeapInv, SiftOrder
<1>10. pos > 0 => Key[Parent(pos)] <= seconds[newitem]
  <2>. SUFFICES ASSUME pos > 0 PROVE Key[Parent(pos)] <= seconds[newitem]
    OBVIOUS
  <2>1. pos \in 1 .. size - 1 /\ Parent(pos) \in 0 .. size - 1
    BY <1>1, <1>7
  <2>2. ~(seconds[heap[Parent(pos)]] > seconds[newitem])
    BY <1>1 DEF Rises, Greater
  <2>3. Key[Parent(pos)] = seconds[heap[Parent(pos)]] /\ Key[Parent(pos)] \in Int
    BY <2>1, KeyType DEF Key, HeapInv
  <2>. QED
    BY <1>1, <2>2, <2>3, KeyType DEF HeapInv
<1>11. Order(Key', size)
  <2>. SUFFICES ASSUME NEW i \in 1 .. size - 1 PROVE Key'[Parent(i)] <= Key'[i]
    BY DEF Order
  <2>1. CASE i = pos
    BY <2>1, <1>1, <1>7, <1>8, <1>10
  <2>2. CASE i # pos /\ Parent(i) = pos
    BY <2>2, <1>7, <1>8, <1>9 DEF Below
  <2>3. CASE i # pos /\ Parent(i) # pos
    BY <2>3, <1>7, <1>8, <1>9 DEF OrderBut
  <2>. QED
    BY <2>1, <2>2, <2>3
<1>. QED
  BY <1>1, <1>3, <1>5, <1>6, <1>11 DEF HeapInv, SiftOrder

LEMMA NextKeeps == HeapInv /\ [Next]_vars => HeapInv'
<1>. SUFFICES ASSUME HeapInv, [Next]_vars PROVE HeapInv'
  OBVIOUS
<1>1. CASE \E t \in Timers, s \in Due, fails \in BOOLEAN : Push(t, s, fails)
  BY <1>1, PushKeeps
<1>2. CASE Pop \/ PopLast \/ PopEmpty
  BY <1>2, PopKeeps, PopLastKeeps
<1>3. CASE SiftUp \/ SiftUpEnds \/ SiftDown \/ SiftDownEnds
  BY <1>3, SiftUpKeeps, SiftUpEndsKeeps, SiftDownKeeps, SiftDownEndsKeeps
<1>4. CASE UNCHANGED vars
  BY <1>4 DEF vars, arrayVars, siftVars, HeapInv, TypeOK, NoneTwice, Places, SiftOrder,
              Key
<1>. QED
  BY <1>1, <1>2, <1>3, <1>4 DEF Next
----------------------------------------------------------------------------
(* The theorems.                                                            *)

(* The invariant holds in every state: the array is a heap but for the hole *)
(* of the operation under way (heapq.c:31, heapq.c:49).                     *)
THEOREM HeapInductive == Spec => []HeapInv
BY InitHolds, NextKeeps, PTL DEF Spec

(* Indices stay inside the array and places below size hold timers, however *)
(* often it was doubled (heapq.c:107).                                      *)
THEOREM TypeCorrect == Spec => []TypeOK
<1>1. HeapInv => TypeOK
  BY DEF HeapInv
<1>. QED
  BY <1>1, HeapInductive, PTL

(* Between operations no timer is due before its parent (heapq.c:31, :49).  *)
THEOREM IsAHeap == Spec => []HeapOrder
<1>1. HeapInv => HeapOrder
  <2>. SUFFICES ASSUME HeapInv, pc = "idle", NEW i \in 1 .. size - 1
                PROVE  seconds[heap[Parent(i)]] <= seconds[heap[i]]
    BY DEF HeapOrder
  <2>1. size \in Nat
    BY DEF HeapInv, TypeOK
  <2>2. i \in 0 .. size - 1 /\ Parent(i) \in 0 .. size - 1
    BY <2>1, ParentIs
  <2>3. Key[Parent(i)] <= Key[i]
    BY DEF HeapInv, SiftOrder, Order
  <2>. QED
    BY <2>2, <2>3 DEF Key
<1>. QED
  BY <1>1, HeapInductive, PTL

(* No timer is in two places, in the middle of a sift neither.              *)
THEOREM NeverTwice == Spec => []NoneTwice
<1>1. HeapInv => NoneTwice
  BY DEF HeapInv
<1>. QED
  BY <1>1, HeapInductive, PTL

LEMMA PushPushes ==
  ASSUME HeapInv, NEW t \in Timers, NEW s \in Due, NEW fails \in BOOLEAN,
         Push(t, s, fails)
  PROVE  Promise!Push(t, s) \/ Promise!PushFails
<1>1. CASE full' = TRUE
  <2>1. /\ UNCHANGED <<heap, size, max, pc, pos, newitem, seconds, retitem>>
        /\ full' = TRUE
    BY <1>1 DEF Push, arrayVars, siftVars
  <2>2. Contents' = Contents
    BY <2>1 DEF Contents, Places
  <2>. QED
    BY <2>1, <2>2 DEF Promise!PushFails
<1>2. CASE full' # TRUE
  <2>1. /\ pc = "idle" /\ pc' = "down" /\ pos' = size /\ newitem' = t
        /\ size' = size + 1 /\ full' = FALSE /\ retitem' = retitem
        /\ max' = IF size >= max THEN 2 * max ELSE max
        /\ seconds' = [seconds EXCEPT ![t] = s]
        /\ heap' = [i \in 0 .. max' - 1 |->
                      IF i = size THEN t ELSE IF i < max THEN heap[i] ELSE None]
        /\ Free(t)
    BY <1>2 DEF Push, Sift
  <2>2. size \in 0 .. max' - 1 /\ size \in Nat /\ max \in Nat /\ size <= max
    BY <2>1 DEF HeapInv, TypeOK
  <2>3. \A i \in 0 .. size - 1 : heap'[i] = heap[i] /\ heap[i] # t
    BY <2>1, <2>2 DEF Free
  <2>4. Places' = Places /\ Places = 0 .. size - 1
    BY <2>1, <2>2 DEF Places
  <2>5. Contents = {heap[i] : i \in 0 .. size - 1} /\ t \notin Contents
    BY <2>1, <2>3, <2>4 DEF Contents
  <2>6. Contents' = {heap'[i] : i \in 0 .. size - 1} \cup {t}
    BY <2>1, <2>4 DEF Contents
  <2>7. Contents' = Contents \cup {t}
    BY <2>3, <2>5, <2>6
  <2>. QED
    BY <2>1, <2>5, <2>7 DEF Promise!Push
<1>. QED
  BY <1>1, <1>2

(* The root is due first, and leaves the rest behind.                       *)
LEMMA PopTakes ==
  ASSUME HeapInv, Pop \/ PopLast
  PROVE  heap[0] \in Timers /\ Promise!Pop(heap[0])
<1>1. /\ pc = "idle" /\ size >= 1 /\ size \in Nat /\ retitem' = heap[0]
      /\ UNCHANGED <<seconds, full>>
  BY DEF Pop, PopLast, HeapInv, TypeOK, Sift
<1>2. Places = 0 .. size - 1 /\ Contents = {heap[i] : i \in 0 .. size - 1}
  BY <1>1 DEF Places, Contents
<1>3. heap[0] \in Contents /\ heap[0] \in Timers
  BY <1>1, <1>2 DEF HeapInv, TypeOK
<1>4. \A u \in Contents : seconds[heap[0]] <= seconds[u]
  <2>1. Order(Key, size) /\ Key \in [0 .. size - 1 -> Int]
    BY <1>1, KeyType DEF HeapInv, SiftOrder
  <2>2. \A i \in 0 .. size - 1 : Key[0] <= Key[i]
    BY <1>1, <2>1, RootIsFirst
  <2>3. \A i \in 0 .. size - 1 : Key[i] = seconds[heap[i]]
    BY DEF Key
  <2>. QED
    BY <1>1, <1>2, <2>2, <2>3
<1>5. \A i, j \in 0 .. size - 1 : heap[i] = heap[j] => i = j
  BY <1>2 DEF HeapInv, NoneTwice
<1>6. Contents' = Contents \ {heap[0]}
  <2>1. CASE Pop
    <3>1. /\ pc' = "up" /\ pos' = 0 /\ newitem' = heap[size - 1] /\ size' = size - 1
          /\ size > 1 /\ heap' = [heap EXCEPT ![0] = heap[size - 1], ![size - 1] = None]
      BY <2>1 DEF Pop, Sift
    <3>2. \A i \in 1 .. size - 2 : heap'[i] = heap[i]
      BY <1>1, <3>1 DEF HeapInv, TypeOK
    <3>3. Places' = 1 .. size - 2
      BY <1>1, <3>1 DEF Places
    <3>4. Contents' = {heap'[i] : i \in 1 .. size - 2} \cup {heap[size - 1]}
      BY <3>1, <3>3 DEF Contents
    <3>5. Contents' = {heap[i] : i \in 1 .. size - 1}
      <4>1. 1 .. size - 1 = (1 .. size - 2) \cup {size - 1}
        BY <1>1, <3>1
      <4>2. {heap'[i] : i \in 1 .. size - 2} = {heap[i] : i \in 1 .. size - 2}
        BY <3>2
      <4>3. {heap[i] : i \in (1 .. size - 2) \cup {size - 1}}
              = {heap[i] : i \in 1 .. size - 2} \cup {heap[size - 1]}
        OBVIOUS
      <4>. QED
        BY <3>4, <4>1, <4>2, <4>3
    <3>. QED
      BY <1>1, <1>2, <1>5, <3>5
  <2>2. CASE PopLast
    <3>1. pc' = "idle" /\ size' = 0 /\ size = 1
      BY <2>2, <1>1 DEF PopLast, siftVars
    <3>2. Contents' = {}
      BY <3>1 DEF Contents, Places
    <3>3. Contents = {heap[0]}
      BY <1>2, <3>1
    <3>. QED
      BY <3>2, <3>3
  <2>. QED
    BY <2>1, <2>2
<1>. QED
  BY <1>1, <1>3, <1>4, <1>6 DEF Promise!Pop

(* heapq.c implements the queue that the main loop expects: heappop gives   *)
(* one of the timers due first, every timer pushed comes out once.          *)
THEOREM Implements == Spec => GivesTheFirst
<1>1. Init => Promise!Init
  <2>. SUFFICES ASSUME Init PROVE Promise!Init
    OBVIOUS
  <2>1. Contents = {}
    BY DEF Init, Contents, Places
  <2>. QED
    BY <2>1 DEF Init, Promise!Init
<1>2. HeapInv /\ [Next]_vars => [Promise!Next]_(Promise!qVars)
  <2>. SUFFICES ASSUME HeapInv, [Next]_vars
                PROVE  Promise!Next \/ UNCHANGED Promise!qVars
    OBVIOUS
  <2>1. CASE \E t \in Timers, s \in Due, fails \in BOOLEAN : Push(t, s, fails)
    BY <2>1, PushPushes DEF Promise!Next
  <2>2. CASE Pop \/ PopLast
    BY <2>2, PopTakes DEF Promise!Next
  <2>3. CASE PopEmpty
    <3>1. /\ UNCHANGED <<heap, size, pc, pos, newitem, seconds, full>>
          /\ retitem' = None /\ pc = "idle" /\ size = 0
      BY <2>3 DEF PopEmpty, arrayVars, siftVars
    <3>2. Contents' = Contents /\ Contents = {}
      BY <3>1 DEF Contents, Places
    <3>. QED
      BY <3>1, <3>2 DEF Promise!Next, Promise!PopNothing
  <2>4. CASE SiftUp \/ SiftDown
    <3>1. Contents' = Contents
      BY <2>4, SiftUpKeeps, SiftDownKeeps
    <3>2. UNCHANGED <<seconds, retitem, full>>
      BY <2>4 DEF SiftUp, SiftDown, MoveTo
    <3>. QED
      BY <3>1, <3>2 DEF Promise!qVars
  <2>5. CASE SiftUpEnds \/ SiftDownEnds
    <3>1. Contents' = Contents
      BY <2>5, SiftUpEndsKeeps, SiftDownEndsKeeps
    <3>2. UNCHANGED <<seconds, retitem, full>>
      BY <2>5 DEF SiftUpEnds, SiftDownEnds
    <3>. QED
      BY <3>1, <3>2 DEF Promise!qVars
  <2>6. CASE UNCHANGED vars
    BY <2>6 DEF vars, arrayVars, siftVars, Contents, Places, Promise!qVars
  <2>. QED
    BY <2>1, <2>2, <2>3, <2>4, <2>5, <2>6 DEF Next
<1>. QED
  BY <1>1, <1>2, HeapInductive, PTL DEF Spec, GivesTheFirst, Promise!Spec
=============================================================================
