----------------------------- MODULE Rtos_proofs -----------------------------
(***************************************************************************)
(* The lists of the kernel, the owners of mutexes and the messages of      *)
(* queues stay right whatever the threads and the interrupts do, for any   *)
(* number of threads, semaphores, mutexes, queues, timers and heaps.       *)
(*                                                                         *)
(* The inductive invariant IInv adds to what the properties say what is    *)
(* left of the call of every thread: the kernel trusts its callers, so the *)
(* lists are sound only because every entry has the arguments it needs,    *)
(* a mutex is safe only because the thread that its semaphore was handed   *)
(* to does nothing before it has made itself the owner, and a queue only   *)
(* because every message in it is counted once: by the semaphore, by a     *)
(* thread that has yet to post it, or by one that has yet to take it.      *)
(*                                                                         *)
(* Before it come lemmas on numbers, sequences and the operators of the    *)
(* scheduler and of the semaphores: every thread stays on the one list     *)
(* that its state names, a negative count is the number of those that      *)
(* wait, and the ready list is sorted by priority.                         *)
(*                                                                         *)
(* After it comes the time: TimeInv adds that every wait that is left of a *)
(* call is one that the clock can tell, and that the timeouts are in the   *)
(* order of what is left of them. It is kept where no thread starts a      *)
(* software timer: OS_TimerThread may ask for a wait that is over.         *)
(***************************************************************************)
EXTENDS Rtos, SequenceTheorems, FiniteSetTheorems, WellFoundedInduction, TLAPS

-----------------------------------------------------------------------------
(* Numbers *)

(* A set of natural numbers that is not empty has a least one.               *)
LEMMA LeastNat ==
  ASSUME NEW T \in SUBSET Nat, T # {}
  PROVE  \E x \in T : \A y \in T : x <= y
<1>1. IsWellFoundedOn(OpToRel(<, Nat), Nat)
    BY NatLessThanWellFounded
<1>2. OpToRel(<, Nat) = {ss \in Nat \X Nat : ss[1] < ss[2]}
    BY DEF OpToRel
<1>3. PICK x \in T : \A y \in T : ~(<<y, x>> \in OpToRel(<, Nat))
    BY <1>1, WFMin
<1>4. \A y \in T : ~(<<y, x>> \in {ss \in Nat \X Nat : ss[1] < ss[2]})
    BY <1>2, <1>3
<1>5. \A y \in T : ~(y < x)
    BY <1>4
<1>6. QED
    BY <1>5

(* The places before which every element passes a test are the first ones.   *)
LEMMA LeadingPlaces ==
  ASSUME NEW n \in Nat, NEW S \in SUBSET (1 .. n),
         \A i \in S : \A j \in 1 .. i : j \in S
  PROVE  \E k \in 0 .. n : S = 1 .. k /\ Cardinality(S) = k
<1> DEFINE R == (1 .. n + 1) \ S
<1>1. R \in SUBSET Nat /\ n + 1 \in R
    OBVIOUS
<1>2. PICK x \in R : \A y \in R : x <= y
    BY <1>1, LeastNat
<1>3. x \in 1 .. n + 1 /\ x \notin S /\ \A y \in 1 .. n + 1 : y < x => y \in S
    BY <1>2
<1>4. x - 1 \in 0 .. n
    BY <1>3
<1>5. \A i \in S : i <= x - 1
  <2> SUFFICES ASSUME NEW i \in S, i > x - 1
               PROVE  FALSE
      BY <1>3
  <2>1. x \in 1 .. i
      BY <1>3
  <2>2. QED
      BY <1>3, <2>1
<1>6. S \subseteq 1 .. x - 1
    BY <1>3, <1>5
<1>7. 1 .. x - 1 \subseteq S
    BY <1>3
<1>8. S = 1 .. x - 1
    BY <1>6, <1>7
<1>9. Cardinality(1 .. x - 1) = x - 1
    BY <1>4, FS_Interval
<1>10. QED
    BY <1>4, <1>8, <1>9

-----------------------------------------------------------------------------
(* Lists *)

(* InsertAt puts t at place k + 1.                                           *)
LEMMA InsertElements ==
  ASSUME NEW T, NEW q \in Seq(T), NEW t \in T, NEW k \in 0 .. Len(q)
  PROVE  /\ InsertAt(q, k + 1, t) \in Seq(T)
         /\ Len(InsertAt(q, k + 1, t)) = Len(q) + 1
         /\ \A i \in 1 .. Len(q) + 1 :
               InsertAt(q, k + 1, t)[i] = IF i <= k THEN q[i] ELSE IF i = k + 1 THEN t ELSE q[i - 1]
<1> DEFINE front == SubSeq(q, 1, k)
           back  == SubSeq(q, k + 1, Len(q))
           mid   == front \o <<t>>
<1>1. Len(q) \in Nat /\ \A i \in 1 .. Len(q) : q[i] \in T
    BY LenProperties, ElementOfSeq
<1>2. /\ front \in Seq(T) /\ Len(front) = k
      /\ \A i \in 1 .. k : front[i] = q[i]
  <2>1. \A i \in 1 .. k : q[i] \in T
      BY <1>1
  <2>2. QED
      BY <1>1, <2>1, SubSeqProperties
<1>3. /\ back \in Seq(T) /\ Len(back) = Len(q) - k
      /\ \A i \in 1 .. Len(q) - k : back[i] = q[k + i]
  <2>1. \A i \in k + 1 .. Len(q) : q[i] \in T
      BY <1>1
  <2>2. /\ back \in Seq(T)
        /\ Len(back) = IF k + 1 <= Len(q) THEN Len(q) - (k + 1) + 1 ELSE 0
        /\ \A i \in 1 .. Len(q) - (k + 1) + 1 : back[i] = q[(k + 1) + i - 1]
      BY ONLY <1>1, <2>1, SubSeqProperties, k \in 0 .. Len(q)
  <2>3. QED
      BY <1>1, <2>2
<1>4. <<t>> \in Seq(T) /\ Len(<<t>>) = 1 /\ <<t>>[1] = t
    OBVIOUS
<1> HIDE DEF front, back
<1>5. /\ mid \in Seq(T) /\ Len(mid) = k + 1
      /\ \A i \in 1 .. k + 1 : mid[i] = IF i <= k THEN q[i] ELSE t
  <2>1. /\ mid \in Seq(T) /\ Len(mid) = Len(front) + Len(<<t>>)
        /\ \A i \in 1 .. Len(front) + Len(<<t>>) :
              mid[i] = IF i <= Len(front) THEN front[i] ELSE <<t>>[i - Len(front)]
      BY ONLY <1>2, <1>4, ConcatProperties
  <2>2. QED
      BY <1>2, <1>4, <2>1
<1> HIDE DEF mid
<1>6. /\ mid \o back \in Seq(T) /\ Len(mid \o back) = Len(mid) + Len(back)
      /\ \A i \in 1 .. Len(mid) + Len(back) :
            (mid \o back)[i] = IF i <= Len(mid) THEN mid[i] ELSE back[i - Len(mid)]
    BY ONLY <1>3, <1>5, ConcatProperties
<1>7. InsertAt(q, k + 1, t) = mid \o back
  <2>1. (k + 1) - 1 = k
      BY k \in Int
  <2>2. InsertAt(q, k + 1, t) = SubSeq(q, 1, (k + 1) - 1) \o <<t>> \o back
      BY DEF InsertAt, back
  <2>3. QED
      BY <2>1, <2>2 DEF mid, front
<1>8. Len(mid) = k + 1 /\ Len(mid) + Len(back) = Len(q) + 1
    BY <1>1, <1>3, <1>5
<1>9. ASSUME NEW i \in 1 .. Len(q) + 1
      PROVE  (mid \o back)[i] = IF i <= k THEN q[i] ELSE IF i = k + 1 THEN t ELSE q[i - 1]
  <2>1. (mid \o back)[i] = IF i <= k + 1 THEN mid[i] ELSE back[i - (k + 1)]
      BY <1>6, <1>8
  <2>2. CASE i <= k + 1
    <3>1. i \in 1 .. k + 1 /\ (i <= k \/ i = k + 1)
        BY <1>1, <2>2
    <3>2. QED
        BY <1>5, <2>1, <2>2, <3>1
  <2>3. CASE i > k + 1
    <3>1. /\ i - (k + 1) \in 1 .. Len(q) - k /\ k + (i - (k + 1)) = i - 1
          /\ ~(i <= k) /\ i # k + 1 /\ ~(i <= k + 1)
        BY <1>1, <2>3
    <3>2. back[i - (k + 1)] = q[i - 1]
        BY <1>3, <3>1
    <3>3. QED
        BY <2>1, <3>1, <3>2
  <2>4. i <= k + 1 \/ i > k + 1
      BY <1>1
  <2>5. QED
      BY <2>2, <2>3, <2>4
<1>10. QED
    BY <1>6, <1>7, <1>8, <1>9

(* An insertion keeps the elements and their being different.                *)
LEMMA InsertKeeps ==
  ASSUME NEW T, NEW q \in Seq(T), NEW t \in T, NEW k \in 0 .. Len(q)
  PROVE  /\ ToSet(InsertAt(q, k + 1, t)) = ToSet(q) \union {t}
         /\ IsInjective(q) /\ t \notin ToSet(q) => IsInjective(InsertAt(q, k + 1, t))
<1> DEFINE r == InsertAt(q, k + 1, t)
<1>1. /\ r \in Seq(T) /\ Len(r) = Len(q) + 1 /\ Len(q) \in Nat
      /\ \A i \in 1 .. Len(q) + 1 :
            r[i] = IF i <= k THEN q[i] ELSE IF i = k + 1 THEN t ELSE q[i - 1]
    BY InsertElements, LenProperties
<1>2. DOMAIN r = 1 .. Len(q) + 1 /\ DOMAIN q = 1 .. Len(q)
    BY <1>1, LenProperties
<1> HIDE DEF r
<1>3. ToSet(r) \subseteq ToSet(q) \union {t}
  <2> SUFFICES ASSUME NEW i \in 1 .. Len(q) + 1
               PROVE  r[i] = t \/ \E j \in 1 .. Len(q) : r[i] = q[j]
      BY <1>2 DEF ToSet
  <2>1. CASE i <= k
    <3>1. i \in 1 .. Len(q) /\ r[i] = q[i]
        BY <1>1, <2>1
    <3>2. QED
        BY <3>1
  <2>2. CASE i = k + 1
      BY <1>1, <2>2
  <2>3. CASE i > k + 1
    <3>1. i - 1 \in 1 .. Len(q) /\ r[i] = q[i - 1]
        BY <1>1, <2>3
    <3>2. QED
        BY <3>1
  <2>4. QED
      BY <1>1, <2>1, <2>2, <2>3
<1>4. ToSet(q) \union {t} \subseteq ToSet(r)
  <2>1. \A i \in 1 .. Len(q) : \E j \in 1 .. Len(q) + 1 : r[j] = q[i]
    <3> SUFFICES ASSUME NEW i \in 1 .. Len(q)
                 PROVE  \E j \in 1 .. Len(q) + 1 : r[j] = q[i]
        OBVIOUS
    <3>1. CASE i <= k
        BY <1>1, <3>1
    <3>2. CASE ~(i <= k)
      <4>1. i + 1 \in 1 .. Len(q) + 1 /\ r[i + 1] = q[i]
          BY <1>1, <3>2
      <4>2. QED
          BY <4>1
    <3>3. QED
        BY <3>1, <3>2
  <2>2. k + 1 \in 1 .. Len(q) + 1 /\ r[k + 1] = t
      BY <1>1
  <2>3. QED
      BY <1>2, <2>1, <2>2 DEF ToSet
<1>5. ASSUME IsInjective(q), t \notin ToSet(q)
      PROVE  IsInjective(r)
  <2>1. \A i \in 1 .. Len(q) : q[i] # t
      BY <1>2, <1>5 DEF ToSet
  <2>2. \A i, j \in 1 .. Len(q) : q[i] = q[j] => i = j
      BY <1>2, <1>5 DEF IsInjective
  <2>3. SUFFICES ASSUME NEW i \in 1 .. Len(q) + 1, NEW j \in 1 .. Len(q) + 1, i < j
                 PROVE  r[i] # r[j]
      BY <1>1, <1>2 DEF IsInjective
  <2>4. CASE j <= k
    <3>1. r[i] = q[i] /\ r[j] = q[j] /\ i \in 1 .. Len(q) /\ j \in 1 .. Len(q) /\ i # j
        BY <1>1, <2>3, <2>4
    <3>2. QED
        BY <2>2, <3>1
  <2>5. CASE j = k + 1
    <3>1. r[i] = q[i] /\ r[j] = t /\ i \in 1 .. Len(q)
        BY <1>1, <2>3, <2>5
    <3>2. QED
        BY <2>1, <3>1
  <2>6. CASE j > k + 1
    <3>1. r[j] = q[j - 1] /\ j - 1 \in 1 .. Len(q)
        BY <1>1, <2>3, <2>6
    <3>2. CASE i <= k
      <4>1. r[i] = q[i] /\ i \in 1 .. Len(q) /\ i # j - 1
          BY <1>1, <2>6, <3>2
      <4>2. QED
          BY <2>2, <3>1, <4>1
    <3>3. CASE i = k + 1
      <4>1. r[i] = t
          BY <1>1, <3>3
      <4>2. QED
          BY <2>1, <3>1, <4>1
    <3>4. CASE i > k + 1
      <4>1. r[i] = q[i - 1] /\ i - 1 \in 1 .. Len(q) /\ i - 1 # j - 1
          BY <1>1, <2>3, <3>4
      <4>2. QED
          BY <2>2, <3>1, <4>1
    <3>5. QED
        BY <1>1, <3>2, <3>3, <3>4
  <2>7. QED
      BY <1>1, <2>4, <2>5, <2>6
<1>6. QED
    BY <1>3, <1>4, <1>5 DEF r

(* RemoveAt takes out the element at place k.                                *)
LEMMA RemoveElements ==
  ASSUME NEW T, NEW q \in Seq(T), NEW k \in 1 .. Len(q)
  PROVE  /\ RemoveAt(q, k) \in Seq(T)
         /\ Len(RemoveAt(q, k)) = Len(q) - 1
         /\ \A i \in 1 .. Len(q) - 1 : RemoveAt(q, k)[i] = IF i < k THEN q[i] ELSE q[i + 1]
<1> DEFINE front == SubSeq(q, 1, k - 1)
           back  == SubSeq(q, k + 1, Len(q))
<1>1. Len(q) \in Nat /\ k \in Int /\ \A i \in 1 .. Len(q) : q[i] \in T
    BY LenProperties, ElementOfSeq
<1>2. /\ front \in Seq(T) /\ Len(front) = k - 1
      /\ \A i \in 1 .. k - 1 : front[i] = q[i]
  <2>1. \A i \in 1 .. k - 1 : q[i] \in T
      BY <1>1
  <2>2. /\ front \in Seq(T)
        /\ Len(front) = IF 1 <= k - 1 THEN (k - 1) - 1 + 1 ELSE 0
        /\ \A i \in 1 .. (k - 1) - 1 + 1 : front[i] = q[1 + i - 1]
    <3>1. k - 1 \in Int /\ 1 \in Int
        BY <1>1
    <3>2. QED
        BY ONLY <2>1, <3>1, SubSeqProperties
  <2>3. QED
      BY <1>1, <2>2
<1>3. /\ back \in Seq(T) /\ Len(back) = Len(q) - k
      /\ \A i \in 1 .. Len(q) - k : back[i] = q[k + i]
  <2>1. \A i \in k + 1 .. Len(q) : q[i] \in T
      BY <1>1
  <2>2. /\ back \in Seq(T)
        /\ Len(back) = IF k + 1 <= Len(q) THEN Len(q) - (k + 1) + 1 ELSE 0
        /\ \A i \in 1 .. Len(q) - (k + 1) + 1 : back[i] = q[(k + 1) + i - 1]
    <3>1. k + 1 \in Int /\ Len(q) \in Int
        BY <1>1
    <3>2. QED
        BY ONLY <2>1, <3>1, SubSeqProperties
  <2>3. QED
      BY <1>1, <2>2
<1> HIDE DEF front, back
<1>4. /\ front \o back \in Seq(T) /\ Len(front \o back) = Len(front) + Len(back)
      /\ \A i \in 1 .. Len(front) + Len(back) :
            (front \o back)[i] = IF i <= Len(front) THEN front[i] ELSE back[i - Len(front)]
    BY ONLY <1>2, <1>3, ConcatProperties
<1>5. RemoveAt(q, k) = front \o back
    BY DEF RemoveAt, front, back
<1>6. Len(front) + Len(back) = Len(q) - 1
    BY <1>1, <1>2, <1>3
<1>7. ASSUME NEW i \in 1 .. Len(q) - 1
      PROVE  (front \o back)[i] = IF i < k THEN q[i] ELSE q[i + 1]
  <2>1. (front \o back)[i] = IF i <= k - 1 THEN front[i] ELSE back[i - (k - 1)]
      BY <1>2, <1>4, <1>6
  <2>2. CASE i < k
    <3>1. i \in 1 .. k - 1 /\ i <= k - 1
        BY <1>1, <2>2
    <3>2. QED
        BY <1>2, <2>1, <2>2, <3>1
  <2>3. CASE ~(i < k)
    <3>1. /\ i - (k - 1) \in 1 .. Len(q) - k /\ k + (i - (k - 1)) = i + 1
          /\ ~(i <= k - 1)
        BY <1>1, <2>3
    <3>2. back[i - (k - 1)] = q[i + 1]
        BY <1>3, <3>1
    <3>3. QED
        BY <2>1, <2>3, <3>1, <3>2
  <2>4. QED
      BY <2>2, <2>3
<1>8. QED
    BY <1>4, <1>5, <1>6, <1>7

(* Unlink takes t off a list of different threads and keeps their order.     *)
LEMMA UnlinkElements ==
  ASSUME NEW T, NEW q \in Seq(T), IsInjective(q), NEW t
  PROVE  /\ Unlink(q, t) \in Seq(T)
         /\ IsInjective(Unlink(q, t))
         /\ ToSet(Unlink(q, t)) = ToSet(q) \ {t}
         /\ Len(Unlink(q, t)) = IF t \in ToSet(q) THEN Len(q) - 1 ELSE Len(q)
         /\ \A i, j \in DOMAIN Unlink(q, t) : i < j =>
               \E a, b \in DOMAIN q : a < b /\ Unlink(q, t)[i] = q[a] /\ Unlink(q, t)[j] = q[b]
<1>1. CASE t \notin ToSet(q)
  <2>1. Unlink(q, t) = q
      BY <1>1 DEF Unlink
  <2>2. QED
      BY <1>1, <2>1
<1>2. CASE t \in ToSet(q)
  <2> DEFINE k == CHOOSE i \in DOMAIN q : q[i] = t
             r == RemoveAt(q, k)
  <2>1. Len(q) \in Nat /\ DOMAIN q = 1 .. Len(q)
      BY LenProperties
  <2>2. k \in 1 .. Len(q) /\ q[k] = t
      BY <1>2, <2>1 DEF ToSet
  <2> HIDE DEF k
  <2>3. /\ r \in Seq(T) /\ Len(r) = Len(q) - 1
        /\ \A i \in 1 .. Len(q) - 1 : r[i] = IF i < k THEN q[i] ELSE q[i + 1]
      BY <2>2, RemoveElements
  <2>4. DOMAIN r = 1 .. Len(q) - 1
      BY <2>3, LenProperties
  <2>5. Unlink(q, t) = r
      BY <1>2 DEF Unlink, k
  <2> HIDE DEF r
  <2>6. \A i, j \in 1 .. Len(q) : q[i] = q[j] => i = j
      BY <2>1 DEF IsInjective
  <2>7. IsInjective(r)
    <3> SUFFICES ASSUME NEW i \in 1 .. Len(q) - 1, NEW j \in 1 .. Len(q) - 1, i < j
                 PROVE  r[i] # r[j]
        BY <2>1, <2>4 DEF IsInjective
    <3> QED
        BY <2>1, <2>2, <2>3, <2>6
  <2>8. ToSet(r) \subseteq ToSet(q) \ {t}
    <3> SUFFICES ASSUME NEW i \in 1 .. Len(q) - 1
                 PROVE  \E j \in 1 .. Len(q) : r[i] = q[j] /\ q[j] # t
        BY <2>1, <2>4 DEF ToSet
    <3>1. CASE i < k
        BY <2>1, <2>2, <2>3, <2>6, <3>1
    <3>2. CASE ~(i < k)
      <4>1. i + 1 \in 1 .. Len(q) /\ r[i] = q[i + 1] /\ i + 1 # k
          BY <2>1, <2>2, <2>3, <3>2
      <4>2. q[i + 1] # t
          BY <2>2, <2>6, <4>1
      <4>3. QED
          BY <4>1, <4>2
    <3>3. QED
        BY <3>1, <3>2
  <2>9. ToSet(q) \ {t} \subseteq ToSet(r)
    <3> SUFFICES ASSUME NEW i \in 1 .. Len(q), q[i] # t
                 PROVE  \E j \in 1 .. Len(q) - 1 : r[j] = q[i]
        BY <2>1, <2>4 DEF ToSet
    <3>1. CASE i < k
        BY <2>1, <2>2, <2>3, <3>1
    <3>2. CASE i > k
      <4>1. i - 1 \in 1 .. Len(q) - 1 /\ r[i - 1] = q[i]
          BY <2>1, <2>2, <2>3, <3>2
      <4>2. QED
          BY <4>1
    <3>3. QED
        BY <2>1, <2>2, <3>1, <3>2
  <2>10. ASSUME NEW i \in DOMAIN r, NEW j \in DOMAIN r, i < j
         PROVE  \E a, b \in DOMAIN q : a < b /\ r[i] = q[a] /\ r[j] = q[b]
    <3>1. i \in 1 .. Len(q) - 1 /\ j \in 1 .. Len(q) - 1
        BY <2>4, <2>10
    <3> DEFINE a == IF i < k THEN i ELSE i + 1
               b == IF j < k THEN j ELSE j + 1
    <3>2. a \in 1 .. Len(q) /\ b \in 1 .. Len(q) /\ a < b
        BY <2>1, <2>2, <2>10, <3>1
    <3>3. r[i] = q[a] /\ r[j] = q[b]
        BY <2>3, <3>1
    <3>4. QED
        BY <2>1, <3>2, <3>3
  <2>11. QED
      BY <1>2, <2>3, <2>5, <2>7, <2>8, <2>9, <2>10
<1>3. QED
    BY <1>1, <1>2

(* Where a thread goes on a list that is sorted by priority: behind those of *)
(* its own or a higher one that lead the list.                               *)
LEMMA PriorityPlace ==
  ASSUME NEW T, NEW q \in Seq(T), NEW t, NEW prio
  PROVE  \E k \in 0 .. Len(q) :
            /\ PriorityInsert(q, t, prio) = InsertAt(q, k + 1, t)
            /\ \A i \in 1 .. k : prio[q[i]] >= prio[t]
            /\ k < Len(q) => ~(prio[q[k + 1]] >= prio[t])
<1> DEFINE S == {i \in 1 .. Len(q) : \A j \in 1 .. i : prio[q[j]] >= prio[t]}
<1>1. Len(q) \in Nat
    BY LenProperties
<1>2. S \in SUBSET (1 .. Len(q)) /\ \A i \in S : \A j \in 1 .. i : j \in S
    BY <1>1
<1>3. PICK k \in 0 .. Len(q) : S = 1 .. k /\ Cardinality(S) = k
    BY <1>1, <1>2, LeadingPlaces
<1>4. PriorityInsert(q, t, prio) = InsertAt(q, k + 1, t)
    BY <1>3 DEF PriorityInsert, Leading
<1>5. \A i \in 1 .. k : prio[q[i]] >= prio[t]
  <2> SUFFICES ASSUME NEW i \in 1 .. k
               PROVE  prio[q[i]] >= prio[t]
      OBVIOUS
  <2>1. i \in S /\ i \in 1 .. i
      BY <1>1, <1>3
  <2>2. QED
      BY <2>1
<1>6. ASSUME k < Len(q), prio[q[k + 1]] >= prio[t]
      PROVE  FALSE
  <2>1. \A j \in 1 .. k + 1 : prio[q[j]] >= prio[t]
      BY <1>1, <1>5, <1>6
  <2>2. k + 1 \in 1 .. Len(q)
      BY <1>1, <1>6
  <2>3. k + 1 \in S
      BY <2>1, <2>2
  <2>4. QED
      BY <1>3, <2>3
<1>7. QED
    BY <1>4, <1>5, <1>6

(* The same for the list of timeouts.                                        *)
(* Where a thread goes on the list of timeouts: before the first whose wait  *)
(* is not shorter.                                                           *)
LEMMA TimeoutFirst ==
  ASSUME NEW T, NEW q \in Seq(T), NEW t, NEW due
  PROVE  \E k \in 0 .. Len(q) :
            /\ TimeoutInsert(q, t, due) = InsertAt(q, k + 1, t)
            /\ \A i \in 1 .. k : Diff(due[t], due[q[i]]) > 0
            /\ k < Len(q) => ~(Diff(due[t], due[q[k + 1]]) > 0)
<1> DEFINE S == {i \in 1 .. Len(q) : \A j \in 1 .. i : Diff(due[t], due[q[j]]) > 0}
<1>1. Len(q) \in Nat
    BY LenProperties
<1>2. S \in SUBSET (1 .. Len(q)) /\ \A i \in S : \A j \in 1 .. i : j \in S
    BY <1>1
<1>3. PICK k \in 0 .. Len(q) : S = 1 .. k /\ Cardinality(S) = k
    BY <1>1, <1>2, LeadingPlaces
<1>4. TimeoutInsert(q, t, due) = InsertAt(q, k + 1, t)
    BY <1>3 DEF TimeoutInsert, Leading
<1>5. \A i \in 1 .. k : Diff(due[t], due[q[i]]) > 0
  <2> SUFFICES ASSUME NEW i \in 1 .. k
               PROVE  Diff(due[t], due[q[i]]) > 0
      OBVIOUS
  <2>1. i \in S /\ i \in 1 .. i
      BY <1>1, <1>3
  <2>2. QED
      BY <2>1
<1>6. ASSUME k < Len(q), Diff(due[t], due[q[k + 1]]) > 0
      PROVE  FALSE
  <2>1. \A j \in 1 .. k + 1 : Diff(due[t], due[q[j]]) > 0
      BY <1>1, <1>5, <1>6
  <2>2. k + 1 \in 1 .. Len(q)
      BY <1>1, <1>6
  <2>3. k + 1 \in S
      BY <2>1, <2>2
  <2>4. QED
      BY <1>3, <2>3
<1>7. QED
    BY <1>4, <1>5, <1>6

LEMMA TimeoutPlace ==
  ASSUME NEW T, NEW q \in Seq(T), NEW t, NEW due
  PROVE  \E k \in 0 .. Len(q) : TimeoutInsert(q, t, due) = InsertAt(q, k + 1, t)
BY TimeoutFirst

\* The list q holds every element of S once, and nothing else.
Holds(q, S) == q \in Seq(Threads) /\ IsInjective(q) /\ ToSet(q) = S

ByPrio(q, prio) == \A i, j \in 1 .. Len(q) : i < j => prio[q[i]] >= prio[q[j]]

(* The elements of a list, and its being empty.                              *)
LEMMA HoldsElements ==
  ASSUME NEW q, NEW S, Holds(q, S)
  PROVE  /\ Len(q) \in Nat /\ DOMAIN q = 1 .. Len(q) /\ S \subseteq Threads
         /\ \A i \in 1 .. Len(q) : q[i] \in S
         /\ \A x \in S : \E i \in 1 .. Len(q) : q[i] = x
         /\ \A i, j \in 1 .. Len(q) : q[i] = q[j] => i = j
         /\ q = <<>> <=> Len(q) = 0
         /\ q = <<>> <=> S = {}
         /\ q # <<>> => Head(q) \in S
<1>1. q \in Seq(Threads) /\ IsInjective(q) /\ S = ToSet(q)
    BY DEF Holds
<1>2. Len(q) \in Nat /\ DOMAIN q = 1 .. Len(q) /\ \A i \in 1 .. Len(q) : q[i] \in Threads
    BY <1>1, LenProperties, ElementOfSeq
<1>3. q = <<>> <=> Len(q) = 0
    BY <1>1, EmptySeq
<1>4. q # <<>> => 1 \in 1 .. Len(q) /\ Head(q) = q[1]
    BY <1>1, <1>2, <1>3
<1>5. /\ \A i \in 1 .. Len(q) : q[i] \in S
      /\ \A x \in S : \E i \in 1 .. Len(q) : q[i] = x
    BY <1>1, <1>2 DEF ToSet
<1>6. \A i, j \in 1 .. Len(q) : q[i] = q[j] => i = j
    BY <1>1, <1>2 DEF IsInjective
<1>7. q = <<>> <=> S = {}
    BY <1>2, <1>3, <1>4, <1>5
<1>8. S \subseteq Threads
    BY <1>2, <1>5
<1>9. QED
    BY <1>2, <1>3, <1>4, <1>5, <1>6, <1>7, <1>8

(* A thread is put on a list by its priority: the list stays sorted.         *)
LEMMA PriorityInsertHolds ==
  ASSUME NEW q, NEW S, Holds(q, S), NEW t \in Threads \ S, NEW prio \in [Threads -> Nat]
  PROVE  /\ Holds(PriorityInsert(q, t, prio), S \union {t})
         /\ Len(PriorityInsert(q, t, prio)) = Len(q) + 1
         /\ ByPrio(q, prio) => ByPrio(PriorityInsert(q, t, prio), prio)
<1> DEFINE r == PriorityInsert(q, t, prio)
<1>1. q \in Seq(Threads) /\ IsInjective(q) /\ S = ToSet(q)
    BY DEF Holds
<1>2. Len(q) \in Nat /\ \A i \in 1 .. Len(q) : q[i] \in Threads
    BY <1>1, LenProperties, ElementOfSeq
<1>3. PICK k \in 0 .. Len(q) :
            /\ r = InsertAt(q, k + 1, t)
            /\ \A i \in 1 .. k : prio[q[i]] >= prio[t]
            /\ k < Len(q) => ~(prio[q[k + 1]] >= prio[t])
    BY <1>1, PriorityPlace
<1> HIDE DEF r
<1>4. /\ r \in Seq(Threads) /\ Len(r) = Len(q) + 1
      /\ \A i \in 1 .. Len(q) + 1 : r[i] = IF i <= k THEN q[i] ELSE IF i = k + 1 THEN t ELSE q[i - 1]
  <2> DEFINE w == InsertAt(q, k + 1, t)
  <2>1. /\ w \in Seq(Threads) /\ Len(w) = Len(q) + 1
        /\ \A i \in 1 .. Len(q) + 1 : w[i] = IF i <= k THEN q[i] ELSE IF i = k + 1 THEN t ELSE q[i - 1]
    <3>1. q \in Seq(Threads) /\ t \in Threads /\ k \in 0 .. Len(q)
        BY <1>1, <1>3
    <3>2. QED
        BY <3>1, InsertElements, SMTT(40)
  <2>2. r = w
      BY <1>3
  <2> HIDE DEF w
  <2>3. QED
      BY <2>1, <2>2
<1>5. ToSet(r) = S \union {t} /\ IsInjective(r)
    BY <1>1, <1>3, InsertKeeps
<1>6. ASSUME ByPrio(q, prio)
      PROVE  ByPrio(r, prio)
  <2>1. \A i, j \in 1 .. Len(q) : i < j => prio[q[i]] >= prio[q[j]]
      BY <1>6 DEF ByPrio
  <2>2. prio[t] \in Nat /\ \A i \in 1 .. Len(q) : prio[q[i]] \in Nat
      BY <1>2
  <2>3. \A i \in k + 1 .. Len(q) : prio[t] >= prio[q[i]]
    <3> SUFFICES ASSUME NEW i \in k + 1 .. Len(q)
                 PROVE  prio[t] >= prio[q[i]]
        OBVIOUS
    <3>1. k < Len(q) /\ k + 1 \in 1 .. Len(q) /\ i \in 1 .. Len(q) /\ (i = k + 1 \/ k + 1 < i)
        BY <1>2
    <3>2. prio[q[k + 1]] < prio[t]
        BY <1>3, <2>2, <3>1
    <3>3. prio[q[k + 1]] >= prio[q[i]]
        BY <2>1, <2>2, <3>1
    <3>4. QED
        BY <2>2, <3>1, <3>2, <3>3
  <2>4. SUFFICES ASSUME NEW i \in 1 .. Len(q) + 1, NEW j \in 1 .. Len(q) + 1, i < j
                 PROVE  prio[r[i]] >= prio[r[j]]
      BY <1>4 DEF ByPrio
  <2>5. CASE j <= k
    <3>1. r[i] = q[i] /\ r[j] = q[j] /\ i \in 1 .. Len(q) /\ j \in 1 .. Len(q)
        BY <1>2, <1>4, <2>4, <2>5
    <3>2. QED
        BY <2>1, <2>4, <3>1
  <2>6. CASE j = k + 1
    <3>1. r[i] = q[i] /\ r[j] = t /\ i \in 1 .. k
        BY <1>2, <1>4, <2>4, <2>6
    <3>2. QED
        BY <1>3, <3>1
  <2>7. CASE j > k + 1
    <3>1. r[j] = q[j - 1] /\ j - 1 \in k + 1 .. Len(q)
        BY <1>2, <1>4, <2>4, <2>7
    <3>2. CASE i <= k
      <4>1. r[i] = q[i] /\ i \in 1 .. Len(q) /\ i < j - 1 /\ j - 1 \in 1 .. Len(q)
          BY <1>2, <1>4, <2>7, <3>2
      <4>2. QED
          BY <2>1, <3>1, <4>1
    <3>3. CASE i = k + 1
      <4>1. r[i] = t
          BY <1>4, <3>3
      <4>2. QED
          BY <2>3, <3>1, <4>1
    <3>4. CASE i > k + 1
      <4>1. r[i] = q[i - 1] /\ i - 1 \in 1 .. Len(q) /\ i - 1 < j - 1 /\ j - 1 \in 1 .. Len(q)
          BY <1>2, <1>4, <2>4, <3>4
      <4>2. QED
          BY <2>1, <3>1, <4>1
    <3>5. QED
        BY <3>2, <3>3, <3>4
  <2>8. QED
      BY <2>5, <2>6, <2>7
<1>7. QED
    BY <1>4, <1>5, <1>6 DEF Holds, r

(* A thread is put on the list of timeouts.                                  *)
LEMMA TimeoutInsertHolds ==
  ASSUME NEW q, NEW S, Holds(q, S), NEW t \in Threads \ S, NEW due
  PROVE  Holds(TimeoutInsert(q, t, due), S \union {t})
<1>1. q \in Seq(Threads) /\ IsInjective(q) /\ S = ToSet(q)
    BY DEF Holds
<1>2. PICK k \in 0 .. Len(q) : TimeoutInsert(q, t, due) = InsertAt(q, k + 1, t)
    BY <1>1, TimeoutPlace
<1>3. InsertAt(q, k + 1, t) \in Seq(Threads)
    BY <1>1, InsertElements
<1>4. ToSet(InsertAt(q, k + 1, t)) = S \union {t} /\ IsInjective(InsertAt(q, k + 1, t))
    BY <1>1, InsertKeeps
<1>5. QED
    BY <1>2, <1>3, <1>4 DEF Holds

(* A thread is taken off a list: the others keep their order.                *)
LEMMA UnlinkHolds ==
  ASSUME NEW q, NEW S, Holds(q, S), NEW t
  PROVE  /\ Holds(Unlink(q, t), S \ {t})
         /\ Len(Unlink(q, t)) = IF t \in S THEN Len(q) - 1 ELSE Len(q)
         /\ \A prio : ByPrio(q, prio) => ByPrio(Unlink(q, t), prio)
<1>1. q \in Seq(Threads) /\ IsInjective(q) /\ S = ToSet(q)
    BY DEF Holds
<1>2. /\ Unlink(q, t) \in Seq(Threads) /\ IsInjective(Unlink(q, t))
      /\ ToSet(Unlink(q, t)) = S \ {t}
      /\ Len(Unlink(q, t)) = IF t \in S THEN Len(q) - 1 ELSE Len(q)
      /\ \A i, j \in DOMAIN Unlink(q, t) : i < j =>
            \E a, b \in DOMAIN q : a < b /\ Unlink(q, t)[i] = q[a] /\ Unlink(q, t)[j] = q[b]
    BY <1>1, UnlinkElements
<1>3. DOMAIN q = 1 .. Len(q) /\ DOMAIN Unlink(q, t) = 1 .. Len(Unlink(q, t))
    BY <1>1, <1>2, LenProperties
<1>4. ASSUME NEW prio, ByPrio(q, prio)
      PROVE  ByPrio(Unlink(q, t), prio)
  <2> SUFFICES ASSUME NEW i \in DOMAIN Unlink(q, t), NEW j \in DOMAIN Unlink(q, t), i < j
               PROVE  prio[Unlink(q, t)[i]] >= prio[Unlink(q, t)[j]]
      BY <1>3 DEF ByPrio
  <2>1. PICK a \in DOMAIN q, b \in DOMAIN q : a < b /\ Unlink(q, t)[i] = q[a] /\ Unlink(q, t)[j] = q[b]
      BY <1>2
  <2>2. QED
      BY <1>3, <1>4, <2>1 DEF ByPrio
<1>5. QED
    BY <1>2, <1>4 DEF Holds

-----------------------------------------------------------------------------
(* States of the kernel *)

KernelStates ==
    [ready : Seq(Threads), cur : Threads, state : [Threads -> {"none", "pend", "ready", "running"}],
     prio : [Threads -> Nat], sem : [Sems -> [count : Int, queue : Seq(Threads)]],
     wait : [Threads -> Sems \union {None}], rc : [Threads -> {0, -1}], timeouts : Seq(Threads),
     due : [Threads -> Tick], now : Tick, inside : BOOLEAN, need : SUBSET {"swap", "robin"}]

Ready(o)      == {x \in Threads : o.state[x] = "ready"}
Active(o)     == {x \in Threads : o.state[x] \in {"ready", "running"}}
Absent(o)     == {x \in Threads : o.state[x] = "none"}
Waiters(o, s) == {x \in Threads : o.wait[x] = s}

ReadyRight(o)    == Holds(o.ready, Ready(o)) /\ ByPrio(o.ready, o.prio)
Waiting(n)       == IF n < 0 THEN -n ELSE 0
QueueRight(o, s) == Holds(o.sem[s].queue, Waiters(o, s)) /\ Len(o.sem[s].queue) = Waiting(o.sem[s].count)
WaitsRight(o)    == \A x \in Threads : o.wait[x] # None => o.state[x] = "pend"
TimeoutsRight(o) == /\ Holds(o.timeouts, ToSet(o.timeouts))
                    /\ \A x \in ToSet(o.timeouts) : o.wait[x] # None
OneRuns(o)       == \A x \in Threads : o.state[x] = "running" => x = o.cur

\* What holds in the middle of an operator: the current thread may have gone
\* to sleep.  Idle never does.
Loose(o) ==
    /\ o \in KernelStates
    /\ ReadyRight(o) /\ WaitsRight(o) /\ TimeoutsRight(o) /\ OneRuns(o)
    /\ \A s \in Sems : QueueRight(o, s)
    /\ o.state[o.cur] \in {"running", "pend"} /\ Idle \in Active(o)

Sound(o) == Loose(o) /\ o.state[o.cur] = "running"

\* r differs from o in nothing but which of the active threads runs.
Swapped(o, r) ==
    /\ r.sem = o.sem /\ r.wait = o.wait /\ r.timeouts = o.timeouts /\ r.prio = o.prio
    /\ r.rc = o.rc /\ r.due = o.due /\ r.now = o.now /\ r.inside = o.inside
    /\ Active(r) = Active(o) /\ Absent(r) = Absent(o)

-----------------------------------------------------------------------------
(* Scheduling *)

(* MakeReady puts a thread on the ready list, where it is not yet.           *)
LEMMA MakeReadyKeeps ==
  ASSUME NEW o \in KernelStates, NEW t \in Threads,
         Holds(o.ready, Ready(o) \ {t}), ByPrio(o.ready, o.prio)
  PROVE  LET r == MakeReady(o, t)
         IN  /\ r \in KernelStates /\ ReadyRight(r)
             /\ r.state = [o.state EXCEPT ![t] = "ready"]
             /\ r.cur = o.cur /\ r.need = o.need
             /\ r.sem = o.sem /\ r.wait = o.wait /\ r.timeouts = o.timeouts /\ r.prio = o.prio
             /\ r.rc = o.rc /\ r.due = o.due /\ r.now = o.now /\ r.inside = o.inside
<1> DEFINE r == MakeReady(o, t)
           l == PriorityInsert(o.ready, t, o.prio)
<1>1. r = [o EXCEPT !.ready = l, !.state = [o.state EXCEPT ![t] = "ready"]]
    BY DEF MakeReady, KernelStates
<1>2. o.prio \in [Threads -> Nat]
    BY DEF KernelStates
<1>3. Holds(l, (Ready(o) \ {t}) \union {t}) /\ ByPrio(l, o.prio)
    BY <1>2, PriorityInsertHolds
<1> HIDE DEF l, r
<1>4. /\ r.state = [o.state EXCEPT ![t] = "ready"] /\ r.ready = l
      /\ r.cur = o.cur /\ r.need = o.need
      /\ r.sem = o.sem /\ r.wait = o.wait /\ r.timeouts = o.timeouts /\ r.prio = o.prio
      /\ r.rc = o.rc /\ r.due = o.due /\ r.now = o.now /\ r.inside = o.inside
    BY <1>1 DEF KernelStates
<1>5. l \in Seq(Threads)
    BY <1>3 DEF Holds
<1>6. r \in KernelStates
    BY <1>1, <1>5 DEF KernelStates
<1>7. Ready(r) = (Ready(o) \ {t}) \union {t}
    BY <1>4 DEF Ready, KernelStates
<1>8. ReadyRight(r)
    BY <1>3, <1>4, <1>7 DEF ReadyRight
<1>9. QED
    BY <1>4, <1>6, <1>8 DEF r

(* SwapIn takes the thread that is to run off the ready list.                *)
LEMMA SwapInKeeps ==
  ASSUME NEW o \in KernelStates, NEW t \in Threads, ReadyRight(o)
  PROVE  LET r == SwapIn(o, t)
         IN  /\ r \in KernelStates /\ ReadyRight(r)
             /\ r.state = [o.state EXCEPT ![t] = "running"] /\ r.cur = t
             /\ r.sem = o.sem /\ r.wait = o.wait /\ r.timeouts = o.timeouts /\ r.prio = o.prio
             /\ r.rc = o.rc /\ r.due = o.due /\ r.now = o.now /\ r.inside = o.inside
<1> DEFINE r == SwapIn(o, t)
           l == Unlink(o.ready, t)
<1>1. r = [o EXCEPT !.ready = l, !.state = [o.state EXCEPT ![t] = "running"], !.cur = t]
    BY DEF SwapIn, KernelStates
<1>2. Holds(l, Ready(o) \ {t}) /\ ByPrio(l, o.prio)
    BY UnlinkHolds DEF ReadyRight
<1> HIDE DEF l, r
<1>3. /\ r.state = [o.state EXCEPT ![t] = "running"] /\ r.ready = l /\ r.cur = t
      /\ r.sem = o.sem /\ r.wait = o.wait /\ r.timeouts = o.timeouts /\ r.prio = o.prio
      /\ r.rc = o.rc /\ r.due = o.due /\ r.now = o.now /\ r.inside = o.inside
    BY <1>1 DEF KernelStates
<1>4. l \in Seq(Threads)
    BY <1>2 DEF Holds
<1>5. r \in KernelStates
    BY <1>1, <1>4 DEF KernelStates
<1>6. Ready(r) = Ready(o) \ {t}
    BY <1>3 DEF Ready, KernelStates
<1>7. ReadyRight(r)
    BY <1>2, <1>3, <1>6 DEF ReadyRight
<1>8. QED
    BY <1>3, <1>5, <1>7 DEF r

(* What the queues and the timeouts are to be depends on these fields only.  *)
LEMMA QueuesKept ==
  ASSUME NEW o, NEW r, r.sem = o.sem, r.wait = o.wait, r.timeouts = o.timeouts
  PROVE  /\ TimeoutsRight(o) => TimeoutsRight(r)
         /\ (\A s \in Sems : QueueRight(o, s)) => \A s \in Sems : QueueRight(r, s)
BY DEF TimeoutsRight, QueueRight, Waiters

(* OS_ThreadReschedule: afterwards a thread runs that may, outside of an     *)
(* interrupt even if the current one had gone to sleep.                      *)
LEMMA RescheduleKeeps ==
  ASSUME NEW o, Loose(o), NEW roundRobin \in BOOLEAN, o.inside => Sound(o)
  PROVE  Sound(Reschedule(o, roundRobin)) /\ Swapped(o, Reschedule(o, roundRobin))
<1> DEFINE r     == Reschedule(o, roundRobin)
           next  == Head(o.ready)
           beats == \/ o.state[o.cur] = "pend"
                    \/ o.prio[o.cur] < o.prio[next]
                    \/ roundRobin /\ o.prio[o.cur] = o.prio[next]
           clear == [o EXCEPT !.need = {}]
           need  == o.need \union IF roundRobin THEN {"swap", "robin"} ELSE {"swap"}
<1>1. o \in KernelStates /\ ReadyRight(o) /\ Holds(o.ready, Ready(o))
    BY DEF Loose, ReadyRight
<1>2. CASE o.inside
  <2>1. r = [o EXCEPT !.need = need]
      BY <1>1, <1>2 DEF Reschedule, KernelStates
  <2>2. need \in SUBSET {"swap", "robin"}
      BY <1>1 DEF KernelStates
  <2> HIDE DEF r, need
  <2>3. /\ r.ready = o.ready /\ r.cur = o.cur /\ r.state = o.state /\ r.prio = o.prio
        /\ r.sem = o.sem /\ r.wait = o.wait /\ r.timeouts = o.timeouts
        /\ r.rc = o.rc /\ r.due = o.due /\ r.now = o.now /\ r.inside = o.inside
      BY <1>1, <2>1 DEF KernelStates
  <2>4. r \in KernelStates
      BY <1>1, <2>1, <2>2 DEF KernelStates
  <2>5. Sound(r)
      BY <1>2, <2>3, <2>4, QueuesKept DEF Sound, Loose, ReadyRight, Ready, WaitsRight, OneRuns, Active
  <2>6. Swapped(o, r)
      BY <2>3 DEF Swapped, Active, Absent
  <2>7. QED
      BY <2>5, <2>6 DEF r
<1>3. /\ clear \in KernelStates
      /\ clear.ready = o.ready /\ clear.cur = o.cur /\ clear.state = o.state /\ clear.prio = o.prio
      /\ clear.sem = o.sem /\ clear.wait = o.wait /\ clear.timeouts = o.timeouts
      /\ clear.rc = o.rc /\ clear.due = o.due /\ clear.now = o.now /\ clear.inside = o.inside
    BY <1>1 DEF KernelStates
<1>4. CASE ~o.inside /\ (o.ready = <<>> \/ ~beats)
  <2>1. r = clear
      BY <1>4 DEF Reschedule
  <2>2. o.state[o.cur] = "running"
    <3>1. CASE ~beats
        BY <3>1 DEF Loose
    <3>2. CASE o.ready = <<>>
      <4>1. Ready(o) = {}
          BY <1>1, <3>2, HoldsElements
      <4>2. Idle \in Threads /\ o.state[Idle] \in {"ready", "running"} /\ o.state[Idle] # "ready"
          BY <4>1 DEF Loose, Active, Ready
      <4>3. QED
          BY <4>2 DEF Loose, OneRuns
    <3>3. QED
        BY <1>4, <3>1, <3>2
  <2> HIDE DEF clear, r
  <2>3. Sound(r)
      BY <1>3, <2>1, <2>2, QueuesKept DEF Sound, Loose, ReadyRight, Ready, WaitsRight, OneRuns, Active
  <2>4. Swapped(o, r)
      BY <1>3, <2>1 DEF Swapped, Active, Absent
  <2>5. QED
      BY <2>3, <2>4 DEF r
<1>5. CASE ~o.inside /\ o.ready # <<>> /\ beats
  <2> DEFINE c == IF o.state[o.cur] = "running" THEN MakeReady(clear, o.cur) ELSE clear
  <2>1. r = SwapIn(c, next)
      BY <1>5 DEF Reschedule
  <2>2. next \in Threads /\ o.state[next] = "ready" /\ next # o.cur /\ o.cur \in Threads
    <3>1. next \in Ready(o)
        BY <1>1, <1>5, HoldsElements
    <3>2. QED
        BY <1>1, <3>1 DEF Ready, Loose, KernelStates
  <2>3. /\ c \in KernelStates /\ ReadyRight(c)
        /\ c.state = IF o.state[o.cur] = "running" THEN [o.state EXCEPT ![o.cur] = "ready"] ELSE o.state
        /\ c.sem = o.sem /\ c.wait = o.wait /\ c.timeouts = o.timeouts /\ c.prio = o.prio
        /\ c.rc = o.rc /\ c.due = o.due /\ c.now = o.now /\ c.inside = o.inside
    <3>1. CASE o.state[o.cur] = "running"
      <4>1. Ready(clear) \ {o.cur} = Ready(o)
          BY <1>3, <3>1 DEF Ready
      <4>2. Holds(clear.ready, Ready(clear) \ {o.cur}) /\ ByPrio(clear.ready, clear.prio)
          BY <1>1, <1>3, <4>1 DEF ReadyRight
      <4> DEFINE m == MakeReady(clear, o.cur)
      <4> HIDE DEF clear
      <4>3. /\ m \in KernelStates /\ ReadyRight(m)
            /\ m.state = [clear.state EXCEPT ![o.cur] = "ready"]
            /\ m.sem = clear.sem /\ m.wait = clear.wait /\ m.timeouts = clear.timeouts /\ m.prio = clear.prio
            /\ m.rc = clear.rc /\ m.due = clear.due /\ m.now = clear.now /\ m.inside = clear.inside
          BY <1>3, <2>2, <4>2, MakeReadyKeeps
      <4>4. c = m
          BY <3>1
      <4> HIDE DEF c, m
      <4>5. QED
          BY <1>3, <3>1, <4>3, <4>4
    <3>2. CASE o.state[o.cur] # "running"
      <4>1. Ready(clear) = Ready(o)
          BY <1>3 DEF Ready
      <4> HIDE DEF clear
      <4>2. QED
          BY <1>1, <1>3, <3>2, <4>1 DEF ReadyRight
    <3>3. QED
        BY <3>1, <3>2
  <2> HIDE DEF c, clear, beats, next
  <2>4. /\ r \in KernelStates /\ ReadyRight(r)
        /\ r.state = [c.state EXCEPT ![next] = "running"] /\ r.cur = next
        /\ r.sem = o.sem /\ r.wait = o.wait /\ r.timeouts = o.timeouts /\ r.prio = o.prio
        /\ r.rc = o.rc /\ r.due = o.due /\ r.now = o.now /\ r.inside = o.inside
    <3> HIDE DEF r
    <3>1. QED
        BY <2>1, <2>2, <2>3, SwapInKeeps
  <2> HIDE DEF r
  <2>5. o.state \in [Threads -> {"none", "pend", "ready", "running"}]
      BY <1>1 DEF KernelStates
  <2>6. \A x \in Threads :
            r.state[x] = IF x = next THEN "running"
                         ELSE IF x = o.cur /\ o.state[x] = "running" THEN "ready" ELSE o.state[x]
      BY <2>2, <2>3, <2>4, <2>5
  <2>7. Active(r) = Active(o) /\ Absent(r) = Absent(o)
      BY <2>2, <2>6 DEF Active, Absent
  <2>8. OneRuns(r) /\ r.state[r.cur] = "running"
      BY <2>2, <2>4, <2>6 DEF Loose, OneRuns
  <2>9. WaitsRight(r)
      BY <2>2, <2>4, <2>6 DEF Loose, WaitsRight
  <2>10. TimeoutsRight(r) /\ (\A s \in Sems : QueueRight(r, s))
      BY <2>4, QueuesKept DEF Loose
  <2>11. QED
      BY <2>4, <2>7, <2>8, <2>9, <2>10 DEF Sound, Loose, Swapped, r
<1>6. QED
    BY <1>2, <1>4, <1>5

-----------------------------------------------------------------------------
(* Semaphores *)

(* Ticks stay in the range of the counter.                                   *)
LEMMA LaterType ==
  ASSUME NEW a \in Int, NEW ticks \in Int
  PROVE  Later(a, ticks) \in Tick
<1>1. TimeMod \in Nat /\ TimeMod > 1
    BY KernelAssumption
<1>2. a + ticks \in Int
    OBVIOUS
<1>3. (a + ticks) % TimeMod \in 0 .. TimeMod - 1
    BY <1>1, <1>2
<1>4. QED
    BY <1>3 DEF Later, Tick

\* The running thread of o is on the list of timeouts of r for that many ticks.
Timed(o, r, ticks) ==
    /\ r.due = [o.due EXCEPT ![o.cur] = Later(o.now, ticks)]
    /\ r.timeouts = IF ticks = WaitForever THEN o.timeouts ELSE TimeoutInsert(o.timeouts, o.cur, r.due)

(* WaitOn puts the running thread on the queue of a semaphore, and on the    *)
(* list of timeouts unless it waits for good.                                *)
LEMMA WaitOnKeeps ==
  ASSUME NEW o, Sound(o), ~o.inside, o.cur # Idle,
         NEW s \in Sems, o.sem[s].count <= 0, NEW ticks \in Int
  PROVE  LET r == WaitOn(o, s, ticks)
         IN  /\ Loose(r) /\ r.cur = o.cur
             /\ \A z \in Sems : r.sem[z].count = IF z = s THEN o.sem[s].count - 1 ELSE o.sem[z].count
             /\ r.wait = [o.wait EXCEPT ![o.cur] = s] /\ r.state = [o.state EXCEPT ![o.cur] = "pend"]
             /\ r.prio = o.prio /\ r.rc = o.rc /\ r.now = o.now /\ r.inside = o.inside
             /\ ToSet(r.timeouts) \subseteq ToSet(o.timeouts) \union IF ticks = WaitForever THEN {} ELSE {o.cur}
             /\ Timed(o, r, ticks)
<1> DEFINE t    == o.cur
           r    == WaitOn(o, s, ticks)
           due  == [o.due EXCEPT ![t] = Later(o.now, ticks)]
           q    == PriorityInsert(o.sem[s].queue, t, o.prio)
           late == IF ticks = WaitForever THEN o.timeouts ELSE TimeoutInsert(o.timeouts, t, due)
           sems == [o.sem EXCEPT ![s] = [count |-> o.sem[s].count - 1, queue |-> q]]
<1>1. o \in KernelStates /\ t \in Threads /\ o.state[t] = "running"
    BY DEF Sound, Loose, KernelStates
<1>2. o.wait[t] = None
    BY <1>1 DEF Sound, Loose, WaitsRight
<1>3. \A z \in Sems : t \notin Waiters(o, z)
    BY <1>2, KernelAssumption DEF Waiters
<1>4. Holds(q, Waiters(o, s) \union {t}) /\ Len(q) = Waiting(o.sem[s].count) + 1
  <2>1. Holds(o.sem[s].queue, Waiters(o, s)) /\ Len(o.sem[s].queue) = Waiting(o.sem[s].count)
      BY DEF Sound, Loose, QueueRight
  <2>2. o.prio \in [Threads -> Nat] /\ t \in Threads \ Waiters(o, s)
      BY <1>1, <1>3 DEF KernelStates
  <2>3. /\ Holds(PriorityInsert(o.sem[s].queue, t, o.prio), Waiters(o, s) \union {t})
        /\ Len(PriorityInsert(o.sem[s].queue, t, o.prio)) = Len(o.sem[s].queue) + 1
    <3> HIDE DEF t
    <3>1. QED
        BY <2>1, <2>2, PriorityInsertHolds
  <2>4. QED
      BY <2>1, <2>3
<1>5. /\ Holds(late, ToSet(late))
      /\ ToSet(late) = ToSet(o.timeouts) \union IF ticks = WaitForever THEN {} ELSE {t}
  <2>1. Holds(o.timeouts, ToSet(o.timeouts)) /\ t \notin ToSet(o.timeouts)
      BY <1>2 DEF Sound, Loose, TimeoutsRight
  <2>2. Holds(TimeoutInsert(o.timeouts, t, due), ToSet(o.timeouts) \union {t})
      BY <1>1, <2>1, TimeoutInsertHolds
  <2>3. ToSet(TimeoutInsert(o.timeouts, t, due)) = ToSet(o.timeouts) \union {t}
      BY <2>2 DEF Holds
  <2>4. QED
      BY <2>1, <2>2, <2>3
<1>6. due \in [Threads -> Tick]
  <2>1. o.now \in Int /\ o.due \in [Threads -> Tick]
      BY <1>1 DEF KernelStates, Tick
  <2>2. Later(o.now, ticks) \in Tick
      BY <2>1, LaterType
  <2>3. QED
      BY <2>1, <2>2
<1>7. o.sem \in [Sems -> [count : Int, queue : Seq(Threads)]] /\ q \in Seq(Threads) /\ late \in Seq(Threads)
    BY <1>1, <1>4, <1>5 DEF KernelStates, Holds
<1>8. r = [o EXCEPT !.sem = sems, !.wait = [o.wait EXCEPT ![t] = s],
                    !.state = [o.state EXCEPT ![t] = "pend"], !.due = due, !.timeouts = late]
  <2>1. [o.sem EXCEPT ![s].count = @ - 1, ![s].queue = q] = sems
      BY <1>7
  <2>2. QED
      BY <1>1, <2>1, ZenonT(30) DEF WaitOn, KernelStates
<1> HIDE DEF r, due, q, late
<1>9. sems \in [Sems -> [count : Int, queue : Seq(Threads)]]
  <2>1. [count |-> o.sem[s].count - 1, queue |-> q] \in [count : Int, queue : Seq(Threads)]
      BY <1>7
  <2>2. QED
      BY <1>7, <2>1
<1>10. /\ \A z \in Sems : sems[z].count = IF z = s THEN o.sem[s].count - 1 ELSE o.sem[z].count
       /\ \A z \in Sems : sems[z].queue = IF z = s THEN q ELSE o.sem[z].queue
    BY <1>7
<1> HIDE DEF sems
<1>11. /\ r.sem = sems /\ r.wait = [o.wait EXCEPT ![t] = s] /\ r.state = [o.state EXCEPT ![t] = "pend"]
       /\ r.due = due /\ r.timeouts = late /\ r.cur = o.cur /\ r.ready = o.ready
       /\ r.prio = o.prio /\ r.rc = o.rc /\ r.now = o.now /\ r.inside = o.inside
    BY <1>1, <1>8 DEF KernelStates
<1>12. r \in KernelStates
    BY <1>1, <1>6, <1>7, <1>8, <1>9 DEF KernelStates
<1>13. ReadyRight(r)
  <2>1. Ready(r) = Ready(o)
      BY <1>1, <1>11 DEF Ready, KernelStates
  <2>2. QED
      BY <1>11, <2>1 DEF ReadyRight, Sound, Loose
<1>14. WaitsRight(r) /\ OneRuns(r)
    BY <1>1, <1>11 DEF Sound, Loose, WaitsRight, OneRuns, KernelStates
<1>15. TimeoutsRight(r)
  <2>1. \A x \in ToSet(o.timeouts) : x \in Threads /\ o.wait[x] # None
      BY HoldsElements DEF Sound, Loose, TimeoutsRight
  <2>2. s # None /\ r.wait[t] = s
      BY <1>1, <1>11, KernelAssumption DEF KernelStates
  <2>3. \A x \in ToSet(o.timeouts) : r.wait[x] # None
      BY <1>1, <1>11, <2>1, <2>2 DEF KernelStates
  <2>4. \A x \in ToSet(late) : r.wait[x] # None
      BY <1>5, <2>2, <2>3
  <2>5. QED
      BY <1>5, <1>11, <2>4 DEF TimeoutsRight
<1>16. ASSUME NEW z \in Sems
       PROVE  QueueRight(r, z)
  <2>1. Waiters(r, z) = IF z = s THEN Waiters(o, s) \union {t} ELSE Waiters(o, z)
      BY <1>1, <1>2, <1>3, <1>11, KernelAssumption DEF Waiters, KernelStates
  <2>2. QueueRight(o, z)
      BY DEF Sound, Loose
  <2>3. CASE z = s
    <3>1. Waiting(o.sem[s].count - 1) = Waiting(o.sem[s].count) + 1
        BY <1>7 DEF Waiting
    <3>2. QED
        BY <1>4, <1>10, <1>11, <2>1, <2>3, <3>1 DEF QueueRight
  <2>4. CASE z # s
      BY <1>10, <1>11, <2>1, <2>2, <2>4 DEF QueueRight
  <2>5. QED
      BY <2>3, <2>4
<1>17. r.state[r.cur] = "pend" /\ Idle \in Active(r)
  <2>1. Idle \in Threads /\ o.state[Idle] \in {"ready", "running"}
      BY DEF Sound, Loose, Active
  <2>2. QED
      BY <1>1, <1>11, <2>1 DEF Active, KernelStates
<1>18. Loose(r)
    BY <1>12, <1>13, <1>14, <1>15, <1>16, <1>17 DEF Loose
<1>19. Timed(o, r, ticks)
    BY <1>11 DEF Timed, due, late
<1>20. QED
    BY <1>5, <1>10, <1>11, <1>18, <1>19 DEF r

(* OS_SemaphorePend takes what is there.                                     *)
LEMMA PendTakes ==
  ASSUME NEW o, Sound(o), NEW s \in Sems, NEW ticks \in Int, o.sem[s].count > 0
  PROVE  LET r == Pend(o, s, ticks)
         IN  /\ Sound(r) /\ Swapped([o EXCEPT !.sem = r.sem, !.rc = r.rc], r)
             /\ r.cur = o.cur /\ r.rc = [o.rc EXCEPT ![o.cur] = 0]
             /\ \A z \in Sems : r.sem[z].count = IF z = s THEN o.sem[s].count - 1 ELSE o.sem[z].count
<1> DEFINE r    == Pend(o, s, ticks)
           sems == [o.sem EXCEPT ![s].count = @ - 1]
           rcs  == [o.rc EXCEPT ![o.cur] = 0]
<1>1. o \in KernelStates
    BY DEF Sound, Loose
<1>2. r = [o EXCEPT !.sem = sems, !.rc = rcs]
  <2>1. o.sem[s].count \in Int /\ ~(o.sem[s].count <= 0)
      BY <1>1 DEF KernelStates
  <2>2. r = [o EXCEPT !.sem[s].count = @ - 1, !.rc[o.cur] = 0]
      BY <2>1 DEF Pend
  <2>3. QED
      BY <1>1, <2>2 DEF KernelStates
<1>3. /\ sems \in [Sems -> [count : Int, queue : Seq(Threads)]]
      /\ \A z \in Sems : /\ sems[z].count = IF z = s THEN o.sem[s].count - 1 ELSE o.sem[z].count
                         /\ sems[z].queue = o.sem[z].queue
    BY <1>1, SMTT(20) DEF KernelStates
<1>4. rcs \in [Threads -> {0, -1}]
    BY <1>1 DEF KernelStates
<1> HIDE DEF r, sems, rcs
<1>5. /\ r.sem = sems /\ r.rc = rcs /\ r.wait = o.wait /\ r.state = o.state
      /\ r.due = o.due /\ r.timeouts = o.timeouts /\ r.cur = o.cur /\ r.ready = o.ready
      /\ r.prio = o.prio /\ r.now = o.now /\ r.inside = o.inside
    BY <1>1, <1>2 DEF KernelStates
<1>6. r \in KernelStates
    BY <1>1, <1>2, <1>3, <1>4 DEF KernelStates
<1>7. ASSUME NEW z \in Sems
      PROVE  QueueRight(r, z)
  <2>1. QueueRight(o, z) /\ Waiters(r, z) = Waiters(o, z) /\ r.sem[z].queue = o.sem[z].queue
      BY <1>3, <1>5 DEF Sound, Loose, Waiters
  <2>2. Waiting(r.sem[z].count) = Waiting(o.sem[z].count)
    <3>1. o.sem[z].count \in Int
        BY <1>1 DEF KernelStates
    <3>2. QED
        BY <1>3, <1>5, <3>1 DEF Waiting
  <2>3. QED
      BY <2>1, <2>2 DEF QueueRight
<1>8. Sound(r)
    BY <1>5, <1>6, <1>7
       DEF Sound, Loose, ReadyRight, Ready, WaitsRight, TimeoutsRight, OneRuns, Active
<1>9. Swapped([o EXCEPT !.sem = r.sem, !.rc = r.rc], r)
    BY <1>1, <1>5 DEF Swapped, KernelStates, Active, Absent
<1>10. QED
    BY <1>3, <1>5, <1>8, <1>9 DEF r, rcs

(* OS_SemaphorePend without a wait finds nothing.                            *)
LEMMA PendGivesUp ==
  ASSUME NEW o, Sound(o), NEW s \in Sems, o.sem[s].count <= 0
  PROVE  LET r == Pend(o, s, 0)
         IN  /\ Sound(r) /\ Swapped([o EXCEPT !.rc = r.rc], r)
             /\ r.cur = o.cur /\ r.rc = [o.rc EXCEPT ![o.cur] = -1]
<1> DEFINE r   == Pend(o, s, 0)
           rcs == [o.rc EXCEPT ![o.cur] = -1]
<1>1. o \in KernelStates /\ o.sem[s].count \in Int
    BY DEF Sound, Loose, KernelStates
<1>2. r = [o EXCEPT !.rc = rcs]
    BY <1>1 DEF Pend, KernelStates
<1>3. rcs \in [Threads -> {0, -1}]
    BY <1>1 DEF KernelStates
<1> HIDE DEF r, rcs
<1>4. /\ r.sem = o.sem /\ r.rc = rcs /\ r.wait = o.wait /\ r.state = o.state
      /\ r.due = o.due /\ r.timeouts = o.timeouts /\ r.cur = o.cur /\ r.ready = o.ready
      /\ r.prio = o.prio /\ r.now = o.now /\ r.inside = o.inside
    BY <1>1, <1>2 DEF KernelStates
<1>5. r \in KernelStates
    BY <1>1, <1>2, <1>3 DEF KernelStates
<1>6. Sound(r)
    BY <1>4, <1>5, QueuesKept
       DEF Sound, Loose, ReadyRight, Ready, WaitsRight, TimeoutsRight, OneRuns, Active
<1>7. Swapped([o EXCEPT !.rc = r.rc], r)
    BY <1>1, <1>4 DEF Swapped, KernelStates, Active, Absent
<1>8. QED
    BY <1>4, <1>6, <1>7 DEF r, rcs

(* OS_SemaphorePend puts the thread to sleep, and another one runs.          *)
LEMMA PendWaits ==
  ASSUME NEW o, Sound(o), ~o.inside, o.cur # Idle,
         NEW s \in Sems, o.sem[s].count <= 0, NEW ticks \in Int \ {0}
  PROVE  LET r == Pend(o, s, ticks)
         IN  /\ Sound(r)
             /\ \A z \in Sems : r.sem[z].count = IF z = s THEN o.sem[s].count - 1 ELSE o.sem[z].count
             /\ r.wait = [o.wait EXCEPT ![o.cur] = s]
             /\ Active(r) = Active(o) \ {o.cur} /\ Absent(r) = Absent(o)
             /\ r.prio = o.prio /\ r.rc = o.rc /\ r.now = o.now /\ r.inside = o.inside
             /\ ToSet(r.timeouts) \subseteq ToSet(o.timeouts) \union IF ticks = WaitForever THEN {} ELSE {o.cur}
<1> DEFINE w == WaitOn(o, s, ticks)
           r == Pend(o, s, ticks)
<1>1. o \in KernelStates /\ o.sem[s].count \in Int /\ o.cur \in Threads /\ o.state[o.cur] = "running"
    BY DEF Sound, Loose, KernelStates
<1>2. r = Reschedule(w, FALSE)
  <2>1. ~(o.sem[s].count > 0) /\ ~(o.sem[s].count <= 0 /\ ticks = 0)
      BY <1>1
  <2> HIDE DEF w
  <2>2. QED
      BY <2>1 DEF Pend, w
<1>3. /\ Loose(w) /\ w.cur = o.cur
      /\ \A z \in Sems : w.sem[z].count = IF z = s THEN o.sem[s].count - 1 ELSE o.sem[z].count
      /\ w.wait = [o.wait EXCEPT ![o.cur] = s] /\ w.state = [o.state EXCEPT ![o.cur] = "pend"]
      /\ w.prio = o.prio /\ w.rc = o.rc /\ w.now = o.now /\ w.inside = o.inside
      /\ ToSet(w.timeouts) \subseteq ToSet(o.timeouts) \union IF ticks = WaitForever THEN {} ELSE {o.cur}
      /\ Timed(o, w, ticks)
    BY WaitOnKeeps
<1> HIDE DEF w, r
<1>4. Sound(r) /\ Swapped(w, r)
    BY <1>2, <1>3, RescheduleKeeps
<1>5. Active(w) = Active(o) \ {o.cur} /\ Absent(w) = Absent(o)
    BY <1>1, <1>3 DEF Active, Absent, KernelStates
<1>6. QED
    BY <1>3, <1>4, <1>5 DEF Swapped, r

(* It is on the list of timeouts then, unless it waits for good.             *)
LEMMA PendTimed ==
  ASSUME NEW o, Sound(o), ~o.inside, o.cur # Idle,
         NEW s \in Sems, o.sem[s].count <= 0, NEW ticks \in Int \ {0}
  PROVE  LET r == Pend(o, s, ticks)
         IN  Timed(o, r, ticks) /\ r.now = o.now
<1> DEFINE w == WaitOn(o, s, ticks)
           r == Pend(o, s, ticks)
<1>1. o \in KernelStates /\ o.sem[s].count \in Int
    BY DEF Sound, Loose, KernelStates
<1>2. r = Reschedule(w, FALSE)
  <2>1. ~(o.sem[s].count > 0) /\ ~(o.sem[s].count <= 0 /\ ticks = 0)
      BY <1>1
  <2> HIDE DEF w
  <2>2. QED
      BY <2>1 DEF Pend, w
<1>3. /\ Loose(w) /\ w.cur = o.cur
      /\ \A z \in Sems : w.sem[z].count = IF z = s THEN o.sem[s].count - 1 ELSE o.sem[z].count
      /\ w.wait = [o.wait EXCEPT ![o.cur] = s] /\ w.state = [o.state EXCEPT ![o.cur] = "pend"]
      /\ w.prio = o.prio /\ w.rc = o.rc /\ w.now = o.now /\ w.inside = o.inside
      /\ ToSet(w.timeouts) \subseteq ToSet(o.timeouts) \union IF ticks = WaitForever THEN {} ELSE {o.cur}
      /\ Timed(o, w, ticks)
    BY WaitOnKeeps
<1> HIDE DEF w, r
<1>4. Swapped(w, r)
    BY <1>2, <1>3, RescheduleKeeps
<1>5. QED
    BY <1>3, <1>4 DEF Timed, Swapped, r

\* One place in the count of s is free for a thread of its queue.
Vacant(o, s) ==
    /\ o.sem[s].count <= 0
    /\ \A z \in Sems :
          /\ Holds(o.sem[z].queue, Waiters(o, z))
          /\ Len(o.sem[z].queue) = Waiting(IF z = s THEN o.sem[z].count - 1 ELSE o.sem[z].count)

\* r differs from o in that t is ready and off the lists of those that wait.
Roused(o, r, t, rc) ==
    /\ r \in KernelStates /\ ReadyRight(r) /\ WaitsRight(r) /\ TimeoutsRight(r)
    /\ \A z \in Sems : QueueRight(r, z) /\ r.sem[z].count = o.sem[z].count
    /\ r.state = [o.state EXCEPT ![t] = "ready"] /\ r.cur = o.cur
    /\ r.wait = [o.wait EXCEPT ![t] = None] /\ r.rc = [o.rc EXCEPT ![t] = rc]
    /\ ToSet(r.timeouts) = ToSet(o.timeouts) \ {t} /\ r.timeouts = Unlink(o.timeouts, t)
    /\ r.prio = o.prio /\ r.due = o.due /\ r.now = o.now /\ r.inside = o.inside

(* Wake takes a thread off the semaphore it waits for and makes it ready;    *)
(* its place in the count has been given back before.                        *)
LEMMA WakeKeeps ==
  ASSUME NEW o \in KernelStates, ReadyRight(o), WaitsRight(o), TimeoutsRight(o),
         NEW s \in Sems, NEW t \in Threads, o.wait[t] = s, NEW rc \in {0, -1}, Vacant(o, s)
  PROVE  Roused(o, Wake(o, t, rc), t, rc)
<1> DEFINE r    == Wake(o, t, rc)
           late == Unlink(o.timeouts, t)
           q    == Unlink(o.sem[s].queue, t)
           sems == [o.sem EXCEPT ![s] = [count |-> o.sem[s].count, queue |-> q]]
           w    == [o EXCEPT !.timeouts = late, !.sem = sems, !.wait = [o.wait EXCEPT ![t] = None],
                             !.rc = [o.rc EXCEPT ![t] = rc]]
<1>1. /\ o.sem \in [Sems -> [count : Int, queue : Seq(Threads)]] /\ o.sem[s].count \in Int
      /\ s # None /\ o.state[t] = "pend"
    BY KernelAssumption DEF KernelStates, WaitsRight
<1>2. r = MakeReady(w, t)
  <2>1. [o.sem EXCEPT ![o.wait[t]].queue = q] = sems
    <3> HIDE DEF q
    <3>1. [o.sem[s] EXCEPT !.queue = q] = [count |-> o.sem[s].count, queue |-> q]
        BY <1>1
    <3>2. QED
        BY <3>1
  <2>2. QED
      BY <2>1 DEF Wake, KernelStates
<1>3. /\ Holds(q, Waiters(o, s) \ {t})
      /\ Len(q) = Len(o.sem[s].queue) - 1
  <2>1. Holds(o.sem[s].queue, Waiters(o, s)) /\ t \in Waiters(o, s)
      BY DEF Waiters, Vacant
  <2> HIDE DEF q
  <2>2. QED
      BY <2>1, UnlinkHolds DEF q
<1>4. Holds(late, ToSet(o.timeouts) \ {t}) /\ ToSet(late) = ToSet(o.timeouts) \ {t}
  <2>1. Holds(o.timeouts, ToSet(o.timeouts))
      BY DEF TimeoutsRight
  <2>2. Holds(Unlink(o.timeouts, t), ToSet(o.timeouts) \ {t})
      BY <2>1, UnlinkHolds
  <2>3. QED
      BY <2>2 DEF Holds
<1>5. q \in Seq(Threads) /\ late \in Seq(Threads)
    BY <1>3, <1>4 DEF Holds
<1> HIDE DEF q, late
<1>6. /\ sems \in [Sems -> [count : Int, queue : Seq(Threads)]]
      /\ \A z \in Sems : /\ sems[z].count = o.sem[z].count
                         /\ sems[z].queue = IF z = s THEN q ELSE o.sem[z].queue
  <2>1. [count |-> o.sem[s].count, queue |-> q] \in [count : Int, queue : Seq(Threads)]
      BY <1>1, <1>5
  <2>2. QED
      BY <1>1, <2>1
<1> HIDE DEF sems
<1>7. /\ w.sem = sems /\ w.wait = [o.wait EXCEPT ![t] = None] /\ w.state = o.state
      /\ w.rc = [o.rc EXCEPT ![t] = rc]
      /\ w.timeouts = late /\ w.cur = o.cur /\ w.ready = o.ready
      /\ w.prio = o.prio /\ w.due = o.due /\ w.now = o.now /\ w.inside = o.inside
    BY DEF KernelStates
<1>8. w \in KernelStates
    BY <1>5, <1>6 DEF KernelStates
<1> HIDE DEF w
<1>9. Holds(w.ready, Ready(w) \ {t}) /\ ByPrio(w.ready, w.prio)
  <2>1. Ready(w) \ {t} = Ready(o)
      BY <1>1, <1>7 DEF Ready
  <2>2. QED
      BY <1>7, <2>1 DEF ReadyRight
<1>10. /\ r \in KernelStates /\ ReadyRight(r)
       /\ r.state = [w.state EXCEPT ![t] = "ready"] /\ r.cur = w.cur
       /\ r.sem = w.sem /\ r.wait = w.wait /\ r.timeouts = w.timeouts /\ r.prio = w.prio
       /\ r.rc = w.rc /\ r.due = w.due /\ r.now = w.now /\ r.inside = w.inside
  <2>1. /\ MakeReady(w, t) \in KernelStates /\ ReadyRight(MakeReady(w, t))
        /\ MakeReady(w, t).state = [w.state EXCEPT ![t] = "ready"] /\ MakeReady(w, t).cur = w.cur
        /\ MakeReady(w, t).sem = w.sem /\ MakeReady(w, t).wait = w.wait
        /\ MakeReady(w, t).timeouts = w.timeouts /\ MakeReady(w, t).prio = w.prio
        /\ MakeReady(w, t).rc = w.rc /\ MakeReady(w, t).due = w.due
        /\ MakeReady(w, t).now = w.now /\ MakeReady(w, t).inside = w.inside
      BY <1>8, <1>9, MakeReadyKeeps
  <2> HIDE DEF r
  <2>2. QED
      BY <1>2, <2>1
<1> HIDE DEF r
<1>11. /\ r.sem = sems /\ r.wait = [o.wait EXCEPT ![t] = None] /\ r.timeouts = late
       /\ r.state = [o.state EXCEPT ![t] = "ready"] /\ r.rc = [o.rc EXCEPT ![t] = rc]
    BY <1>7, <1>10
<1>12. \A x \in Threads : r.wait[x] = (IF x = t THEN None ELSE o.wait[x])
                          /\ r.state[x] = (IF x = t THEN "ready" ELSE o.state[x])
    BY <1>11 DEF KernelStates
<1>13. WaitsRight(r)
    BY <1>12 DEF WaitsRight
<1>14. TimeoutsRight(r)
  <2>1. ToSet(o.timeouts) \subseteq Threads
      BY HoldsElements DEF TimeoutsRight
  <2>2. \A x \in ToSet(late) : r.wait[x] # None
      BY <1>4, <1>12, <2>1 DEF TimeoutsRight
  <2>3. QED
      BY <1>4, <1>11, <2>2 DEF TimeoutsRight
<1>15. ASSUME NEW z \in Sems
       PROVE  QueueRight(r, z)
  <2>1. Waiters(r, z) = IF z = s THEN Waiters(o, s) \ {t} ELSE Waiters(o, z)
      BY <1>1, <1>12, KernelAssumption DEF Waiters
  <2>2. CASE z = s
    <3>1. Len(o.sem[s].queue) = Waiting(o.sem[s].count - 1)
        BY <2>2 DEF Vacant
    <3>2. Waiting(o.sem[s].count - 1) - 1 = Waiting(o.sem[s].count)
        BY <1>1 DEF Waiting, Vacant
    <3>3. QED
        BY <1>3, <1>6, <1>11, <2>1, <2>2, <3>1, <3>2 DEF QueueRight
  <2>3. CASE z # s
      BY <1>6, <1>11, <2>1, <2>3 DEF QueueRight, Vacant
  <2>4. QED
      BY <2>2, <2>3
<1>16. QED
    BY <1>4, <1>6, <1>7, <1>10, <1>11, <1>13, <1>14, <1>15 DEF Roused, r, late

(* Giving back a place in the count of a semaphore that threads wait for     *)
(* leaves room for one of them to be woken.                                  *)
LEMMA PlaceGivenBack ==
  ASSUME NEW o \in KernelStates, NEW s \in Sems, o.sem[s].count < 0,
         ReadyRight(o), WaitsRight(o), TimeoutsRight(o), \A z \in Sems : QueueRight(o, z)
  PROVE  LET u == [o EXCEPT !.sem[s].count = @ + 1]
         IN  /\ u \in KernelStates /\ ReadyRight(u) /\ WaitsRight(u) /\ TimeoutsRight(u)
             /\ Vacant(u, s)
             /\ \A z \in Sems : u.sem[z].count = IF z = s THEN o.sem[s].count + 1 ELSE o.sem[z].count
             /\ u.state = o.state /\ u.cur = o.cur /\ u.wait = o.wait /\ u.rc = o.rc
             /\ u.timeouts = o.timeouts /\ u.prio = o.prio /\ u.due = o.due /\ u.now = o.now
             /\ u.inside = o.inside
<1> DEFINE u    == [o EXCEPT !.sem[s].count = @ + 1]
           sems == [o.sem EXCEPT ![s].count = @ + 1]
<1>1. o.sem \in [Sems -> [count : Int, queue : Seq(Threads)]]
    BY DEF KernelStates
<1>2. u = [o EXCEPT !.sem = sems]
    BY DEF KernelStates
<1>3. /\ sems \in [Sems -> [count : Int, queue : Seq(Threads)]]
      /\ \A z \in Sems : /\ sems[z].count = IF z = s THEN o.sem[s].count + 1 ELSE o.sem[z].count
                         /\ sems[z].queue = o.sem[z].queue
  <2>1. o.sem[s] \in [count : Int, queue : Seq(Threads)]
      BY <1>1
  <2>2. /\ [o.sem[s] EXCEPT !.count = @ + 1] \in [count : Int, queue : Seq(Threads)]
        /\ [o.sem[s] EXCEPT !.count = @ + 1].count = o.sem[s].count + 1
        /\ [o.sem[s] EXCEPT !.count = @ + 1].queue = o.sem[s].queue
      BY <2>1
  <2>3. \A z \in Sems : sems[z] = IF z = s THEN [o.sem[s] EXCEPT !.count = @ + 1] ELSE o.sem[z]
      BY <1>1
  <2>4. sems \in [Sems -> [count : Int, queue : Seq(Threads)]]
      BY <1>1, <2>2
  <2>5. QED
      BY <2>2, <2>3, <2>4
<1> HIDE DEF u, sems
<1>4. /\ u.sem = sems /\ u.rc = o.rc /\ u.wait = o.wait /\ u.state = o.state
      /\ u.due = o.due /\ u.timeouts = o.timeouts /\ u.cur = o.cur /\ u.ready = o.ready
      /\ u.prio = o.prio /\ u.now = o.now /\ u.inside = o.inside
    BY <1>2 DEF KernelStates
<1>5. u \in KernelStates
    BY <1>2, <1>3 DEF KernelStates
<1>6. ReadyRight(u) /\ WaitsRight(u) /\ TimeoutsRight(u)
    BY <1>4 DEF ReadyRight, Ready, WaitsRight, TimeoutsRight
<1>7. ASSUME NEW z \in Sems
      PROVE  /\ Holds(u.sem[z].queue, Waiters(u, z))
             /\ Len(u.sem[z].queue) = Waiting(IF z = s THEN u.sem[z].count - 1 ELSE u.sem[z].count)
  <2>1. Waiters(u, z) = Waiters(o, z) /\ u.sem[z].queue = o.sem[z].queue /\ QueueRight(o, z)
      BY <1>3, <1>4 DEF Waiters
  <2>2. (IF z = s THEN u.sem[z].count - 1 ELSE u.sem[z].count) = o.sem[z].count
      BY <1>1, <1>3, <1>4
  <2>3. QED
      BY <2>1, <2>2 DEF QueueRight
<1>8. u.sem[s].count <= 0
    BY <1>1, <1>3, <1>4
<1>9. Vacant(u, s)
    BY <1>7, <1>8 DEF Vacant
<1>10. QED
    BY <1>3, <1>4, <1>5, <1>6, <1>9 DEF u

(* OS_SemaphorePost when nobody waits.                                       *)
LEMMA PostCounts ==
  ASSUME NEW o, Sound(o), NEW s \in Sems, o.sem[s].count >= 0
  PROVE  LET r == Post(o, s)
         IN  /\ Sound(r) /\ Swapped([o EXCEPT !.sem = r.sem], r) /\ r.cur = o.cur
             /\ \A z \in Sems : r.sem[z].count = IF z = s THEN o.sem[s].count + 1 ELSE o.sem[z].count
<1> DEFINE r    == Post(o, s)
           sems == [o.sem EXCEPT ![s].count = @ + 1]
<1>1. o \in KernelStates /\ o.sem \in [Sems -> [count : Int, queue : Seq(Threads)]]
    BY DEF Sound, Loose, KernelStates
<1>2. r = [o EXCEPT !.sem = sems]
  <2> DEFINE u == [o EXCEPT !.sem[s].count = @ + 1]
  <2>1. u.sem[s].count = o.sem[s].count + 1
      BY <1>1 DEF KernelStates
  <2>2. ~(u.sem[s].count <= 0)
      BY <1>1, <2>1
  <2>3. u = [o EXCEPT !.sem = sems]
      BY <1>1 DEF KernelStates
  <2>4. QED
      BY <2>2, <2>3 DEF Post
<1>3. /\ sems \in [Sems -> [count : Int, queue : Seq(Threads)]]
      /\ \A z \in Sems : /\ sems[z].count = IF z = s THEN o.sem[s].count + 1 ELSE o.sem[z].count
                         /\ sems[z].queue = o.sem[z].queue
    BY <1>1, SMTT(20)
<1> HIDE DEF r, sems
<1>4. /\ r.sem = sems /\ r.rc = o.rc /\ r.wait = o.wait /\ r.state = o.state
      /\ r.due = o.due /\ r.timeouts = o.timeouts /\ r.cur = o.cur /\ r.ready = o.ready
      /\ r.prio = o.prio /\ r.now = o.now /\ r.inside = o.inside
    BY <1>1, <1>2 DEF KernelStates
<1>5. r \in KernelStates
    BY <1>1, <1>2, <1>3 DEF KernelStates
<1>6. ASSUME NEW z \in Sems
      PROVE  QueueRight(r, z)
  <2>1. QueueRight(o, z) /\ Waiters(r, z) = Waiters(o, z) /\ r.sem[z].queue = o.sem[z].queue
      BY <1>3, <1>4 DEF Sound, Loose, Waiters
  <2>2. Waiting(r.sem[z].count) = Waiting(o.sem[z].count)
    <3>1. o.sem[s].count \in Int
        BY <1>1
    <3>2. CASE z = s
        BY <1>3, <1>4, <3>1, <3>2 DEF Waiting
    <3>3. CASE z # s
        BY <1>3, <1>4, <3>3
    <3>4. QED
        BY <3>2, <3>3
  <2>3. QED
      BY <2>1, <2>2 DEF QueueRight
<1>7. Sound(r)
    BY <1>4, <1>5, <1>6
       DEF Sound, Loose, ReadyRight, Ready, WaitsRight, TimeoutsRight, OneRuns, Active
<1>8. Swapped([o EXCEPT !.sem = r.sem], r)
    BY <1>1, <1>4 DEF Swapped, KernelStates, Active, Absent
<1>9. QED
    BY <1>3, <1>4, <1>7, <1>8 DEF r

(* What a thread that is woken leaves to the kernel: it was asleep on s, and *)
(* is active again; everything else is as it was.                            *)
Woken(o, r, t, s, rc) ==
    /\ t \in Threads /\ o.wait[t] = s /\ o.state[t] = "pend"
    /\ \A z \in Sems : r.sem[z].count = IF z = s THEN o.sem[s].count + 1 ELSE o.sem[z].count
    /\ r.wait = [o.wait EXCEPT ![t] = None] /\ r.rc = [o.rc EXCEPT ![t] = rc]
    /\ Active(r) = Active(o) \union {t} /\ Absent(r) = Absent(o)
    /\ ToSet(r.timeouts) = ToSet(o.timeouts) \ {t} /\ r.timeouts = Unlink(o.timeouts, t)
    /\ r.prio = o.prio /\ r.due = o.due /\ r.now = o.now /\ r.inside = o.inside

(* Whoever is woken, the kernel is as it should be.                          *)
LEMMA WakeSound ==
  ASSUME NEW o, Sound(o), NEW s \in Sems, o.sem[s].count < 0,
         NEW t \in Threads, o.wait[t] = s, NEW rc \in {0, -1}
  PROVE  LET r == Wake([o EXCEPT !.sem[s].count = @ + 1], t, rc)
         IN  Sound(r) /\ Woken(o, r, t, s, rc)
<1> DEFINE u == [o EXCEPT !.sem[s].count = @ + 1]
           r == Wake(u, t, rc)
<1>1. /\ o \in KernelStates /\ ReadyRight(o) /\ WaitsRight(o) /\ TimeoutsRight(o) /\ OneRuns(o)
      /\ \A z \in Sems : QueueRight(o, z)
    BY DEF Sound, Loose
<1>2. /\ u \in KernelStates /\ ReadyRight(u) /\ WaitsRight(u) /\ TimeoutsRight(u)
      /\ Vacant(u, s)
      /\ \A z \in Sems : u.sem[z].count = IF z = s THEN o.sem[s].count + 1 ELSE o.sem[z].count
      /\ u.state = o.state /\ u.cur = o.cur /\ u.wait = o.wait /\ u.rc = o.rc
      /\ u.timeouts = o.timeouts /\ u.prio = o.prio /\ u.due = o.due /\ u.now = o.now
      /\ u.inside = o.inside
    BY <1>1, PlaceGivenBack
<1> HIDE DEF u
<1>3. Roused(u, r, t, rc)
  <2>1. u.wait[t] = s
      BY <1>2
  <2>2. QED
      BY <1>2, <2>1, WakeKeeps
<1> HIDE DEF r
<1>4. o.state[t] = "pend"
    BY <1>1, KernelAssumption DEF WaitsRight
<1>5. \A x \in Threads : r.state[x] = IF x = t THEN "ready" ELSE o.state[x]
    BY <1>1, <1>2, <1>3, SMTT(20) DEF KernelStates, Roused
<1>6. Active(r) = Active(o) \union {t} /\ Absent(r) = Absent(o)
    BY <1>4, <1>5 DEF Active, Absent
<1>7. OneRuns(r) /\ r.state[r.cur] = "running" /\ Idle \in Active(r)
  <2>1. o.cur \in Threads /\ o.state[o.cur] = "running" /\ Idle \in Active(o) /\ r.cur = o.cur
      BY <1>1, <1>2, <1>3 DEF Sound, Loose, KernelStates, Roused
  <2>2. QED
      BY <1>1, <1>4, <1>5, <1>6, <2>1 DEF OneRuns
<1>8. Sound(r)
    BY <1>3, <1>7 DEF Sound, Loose, Roused
<1>9. Woken(o, r, t, s, rc)
    BY <1>2, <1>3, <1>4, <1>6 DEF Woken, Roused
<1>10. QED
    BY <1>8, <1>9 DEF r, u

(* OS_SemaphorePost when threads wait: the first of the queue is woken.      *)
LEMMA PostWakes ==
  ASSUME NEW o, Sound(o), NEW s \in Sems, o.sem[s].count < 0
  PROVE  Sound(Post(o, s)) /\ \E t \in Threads : Woken(o, Post(o, s), t, s, 0)
<1> DEFINE u == [o EXCEPT !.sem[s].count = @ + 1]
           t == Head(o.sem[s].queue)
           w == Wake(u, t, 0)
           r == Post(o, s)
<1>1. o \in KernelStates /\ o.sem[s].count \in Int /\ QueueRight(o, s)
    BY DEF Sound, Loose, KernelStates
<1>2. t \in Threads /\ o.wait[t] = s
  <2>1. Holds(o.sem[s].queue, Waiters(o, s)) /\ Len(o.sem[s].queue) = Waiting(o.sem[s].count)
      BY <1>1 DEF QueueRight
  <2>2. Len(o.sem[s].queue) # 0
      BY <1>1, <2>1 DEF Waiting
  <2>3. t \in Waiters(o, s)
      BY <2>1, <2>2, HoldsElements
  <2>4. QED
      BY <2>3 DEF Waiters
<1>3. r = Reschedule(w, FALSE)
  <2>1. u.sem[s].count = o.sem[s].count + 1
      BY <1>1 DEF KernelStates
  <2>2. u.sem[s].count <= 0
      BY <1>1, <2>1
  <2>3. QED
      BY <2>2 DEF Post
<1> HIDE DEF t
<1>4. Sound(w) /\ Woken(o, w, t, s, 0)
    BY <1>2, WakeSound
<1> HIDE DEF u, w, r
<1>5. Sound(r) /\ Swapped(w, r)
    BY <1>3, <1>4, RescheduleKeeps DEF Sound
<1>6. Woken(o, r, t, s, 0)
    BY <1>4, <1>5 DEF Woken, Swapped
<1>7. QED
    BY <1>2, <1>5, <1>6 DEF r

(* OS_ThreadTick wakes the first of the timeouts.                            *)
LEMMA ExpireKeeps ==
  ASSUME NEW o, Sound(o), o.timeouts # <<>>
  PROVE  /\ Sound(Expire(o))
         /\ \E t \in ToSet(o.timeouts), s \in Sems :
               /\ Woken(o, Expire(o), t, s, -1) /\ o.sem[s].count < 0
               /\ Expire(o).cur = o.cur
<1> DEFINE t == Head(o.timeouts)
           s == o.wait[t]
           u == [o EXCEPT !.sem[s].count = @ + 1]
           r == Wake(u, t, -1)
<1>1. o \in KernelStates /\ Holds(o.timeouts, ToSet(o.timeouts))
    BY DEF Sound, Loose, TimeoutsRight
<1>2. t \in ToSet(o.timeouts) /\ t \in Threads /\ s # None
  <2>1. t \in ToSet(o.timeouts) /\ ToSet(o.timeouts) \subseteq Threads
      BY <1>1, HoldsElements
  <2>2. QED
      BY <2>1 DEF Sound, Loose, TimeoutsRight
<1> HIDE DEF t
<1>3. s \in Sems /\ o.sem[s].count \in Int
    BY <1>1, <1>2 DEF KernelStates
<1>4. o.sem[s].count < 0
  <2>1. Holds(o.sem[s].queue, Waiters(o, s)) /\ Len(o.sem[s].queue) = Waiting(o.sem[s].count)
      BY <1>3 DEF Sound, Loose, QueueRight
  <2>2. t \in Waiters(o, s)
      BY <1>2 DEF Waiters
  <2>3. Len(o.sem[s].queue) \in Nat /\ Len(o.sem[s].queue) # 0
      BY <2>1, <2>2, HoldsElements
  <2>4. QED
      BY <1>3, <2>1, <2>3 DEF Waiting
<1>5. Expire(o) = r
    BY DEF Expire, t
<1>6. Sound(r) /\ Woken(o, r, t, s, -1)
  <2> HIDE DEF s
  <2>1. o.wait[t] = s
      BY DEF s
  <2>2. QED
      BY <1>2, <1>3, <1>4, <2>1, WakeSound
<1>7. r.cur = o.cur
    BY DEF Wake, MakeReady
<1>8. QED
    BY <1>2, <1>3, <1>4, <1>5, <1>6, <1>7

-----------------------------------------------------------------------------
(* Priorities, the life of threads, interrupts *)

\* The priorities have changed, and nothing else but which of the active
\* threads runs.
Repriced(o, r, prio) == Swapped([o EXCEPT !.prio = prio], r)

(* A new priority of a thread that is not ready moves nobody on the list.    *)
LEMMA PriceKeeps ==
  ASSUME NEW o, Sound(o), NEW t \in Threads, NEW p \in Nat
  PROVE  LET u == [o EXCEPT !.prio[t] = p]
         IN  /\ u \in KernelStates
             /\ u.prio = [o.prio EXCEPT ![t] = p] /\ u.ready = o.ready
             /\ u.sem = o.sem /\ u.rc = o.rc /\ u.wait = o.wait /\ u.state = o.state
             /\ u.due = o.due /\ u.timeouts = o.timeouts /\ u.cur = o.cur
             /\ u.now = o.now /\ u.inside = o.inside
             /\ o.state[t] # "ready" => Sound(u)
<1> DEFINE u == [o EXCEPT !.prio[t] = p]
<1>1. o \in KernelStates /\ o.prio \in [Threads -> Nat]
    BY DEF Sound, Loose, KernelStates
<1>2. u = [o EXCEPT !.prio = [o.prio EXCEPT ![t] = p]]
    BY <1>1 DEF KernelStates
<1> HIDE DEF u
<1>3. /\ u.prio = [o.prio EXCEPT ![t] = p] /\ u.ready = o.ready
      /\ u.sem = o.sem /\ u.rc = o.rc /\ u.wait = o.wait /\ u.state = o.state
      /\ u.due = o.due /\ u.timeouts = o.timeouts /\ u.cur = o.cur
      /\ u.now = o.now /\ u.inside = o.inside
    BY <1>1, <1>2 DEF KernelStates
<1>4. u \in KernelStates
    BY <1>1, <1>2 DEF KernelStates
<1>5. ASSUME o.state[t] # "ready"
      PROVE  Sound(u)
  <2>1. Holds(o.ready, Ready(o)) /\ ByPrio(o.ready, o.prio)
      BY DEF Sound, Loose, ReadyRight
  <2>2. \A i \in 1 .. Len(o.ready) : o.ready[i] # t /\ o.ready[i] \in Threads
      BY <1>5, <2>1, HoldsElements DEF Ready
  <2>3. ByPrio(o.ready, u.prio)
      BY <1>1, <1>3, <2>1, <2>2 DEF ByPrio
  <2>4. ReadyRight(u)
      BY <1>3, <2>1, <2>3 DEF ReadyRight, Ready
  <2>5. QED
      BY <1>3, <1>4, <2>4, QueuesKept DEF Sound, Loose, WaitsRight, OneRuns, Active
<1>6. QED
    BY <1>3, <1>4, <1>5 DEF u

(* OS_ThreadPrioritySet: a thread that is ready is put in its new place.     *)
LEMMA PrioritySetKeeps ==
  ASSUME NEW o, Sound(o), NEW t \in Threads, NEW p \in Nat
  PROVE  LET r == PrioritySet(o, t, p)
         IN  Sound(r) /\ Repriced(o, r, [o.prio EXCEPT ![t] = p])
<1> DEFINE u == [o EXCEPT !.prio[t] = p]
           r == PrioritySet(o, t, p)
<1>1. /\ u \in KernelStates
      /\ u.prio = [o.prio EXCEPT ![t] = p] /\ u.ready = o.ready
      /\ u.sem = o.sem /\ u.rc = o.rc /\ u.wait = o.wait /\ u.state = o.state
      /\ u.due = o.due /\ u.timeouts = o.timeouts /\ u.cur = o.cur
      /\ u.now = o.now /\ u.inside = o.inside
      /\ o.state[t] # "ready" => Sound(u)
    BY PriceKeeps
<1>2. o \in KernelStates /\ ReadyRight(o)
    BY DEF Sound, Loose
<1> DEFINE v == [o EXCEPT !.prio = [o.prio EXCEPT ![t] = p]]
<1>3. /\ v.prio = u.prio
      /\ v.sem = o.sem /\ v.rc = o.rc /\ v.wait = o.wait /\ v.state = o.state
      /\ v.due = o.due /\ v.timeouts = o.timeouts /\ v.now = o.now /\ v.inside = o.inside
    BY <1>1, <1>2 DEF KernelStates
<1>4. CASE o.state[t] # "ready"
  <2>1. r = u
      BY <1>4 DEF PrioritySet
  <2> HIDE DEF u, v, r
  <2>2. Swapped(v, r)
      BY <1>1, <1>3, <2>1 DEF Swapped, Active, Absent
  <2>3. QED
      BY <1>1, <1>4, <2>1, <2>2 DEF Repriced, r, v
<1>5. CASE o.state[t] = "ready"
  <2> DEFINE w == [u EXCEPT !.ready = Unlink(@, t)]
             m == MakeReady(w, t)
  <2>1. r = Reschedule(m, FALSE)
      BY <1>5 DEF PrioritySet
  <2>2. /\ Holds(Unlink(o.ready, t), Ready(o) \ {t}) /\ ByPrio(Unlink(o.ready, t), o.prio)
        /\ Unlink(o.ready, t) \in Seq(Threads)
      BY <1>2, UnlinkHolds DEF ReadyRight, Holds
  <2> HIDE DEF u, v, r
  <2>3. /\ w \in KernelStates /\ w.ready = Unlink(o.ready, t) /\ w.prio = u.prio
        /\ w.sem = o.sem /\ w.rc = o.rc /\ w.wait = o.wait /\ w.state = o.state
        /\ w.due = o.due /\ w.timeouts = o.timeouts /\ w.cur = o.cur
        /\ w.now = o.now /\ w.inside = o.inside
      BY <1>1, <2>2 DEF KernelStates
  <2> HIDE DEF w
  <2>4. Holds(w.ready, Ready(w) \ {t}) /\ ByPrio(w.ready, w.prio)
    <3>1. Ready(w) = Ready(o)
        BY <2>3 DEF Ready
    <3>2. \A i \in 1 .. Len(w.ready) : w.ready[i] # t /\ w.ready[i] \in Threads
        BY <2>2, <2>3, HoldsElements
    <3>3. \A i \in 1 .. Len(w.ready) : w.prio[w.ready[i]] = o.prio[w.ready[i]]
      <4>1. \A x \in Threads : x # t => w.prio[x] = o.prio[x]
          BY <1>1, <1>2, <2>3 DEF KernelStates
      <4>2. QED
          BY <3>2, <4>1
    <3>4. ByPrio(w.ready, w.prio)
        BY <2>2, <2>3, <3>3 DEF ByPrio
    <3>5. QED
        BY <2>2, <2>3, <3>1, <3>4
  <2>5. /\ m \in KernelStates /\ ReadyRight(m)
        /\ m.state = [w.state EXCEPT ![t] = "ready"] /\ m.cur = w.cur
        /\ m.sem = w.sem /\ m.wait = w.wait /\ m.timeouts = w.timeouts /\ m.prio = w.prio
        /\ m.rc = w.rc /\ m.due = w.due /\ m.now = w.now /\ m.inside = w.inside
      BY <2>3, <2>4, MakeReadyKeeps
  <2> HIDE DEF m
  <2>6. m.state = o.state
      BY <1>2, <1>5, <2>3, <2>5 DEF KernelStates
  <2>7. Sound(m)
      BY <2>3, <2>5, <2>6, QueuesKept DEF Sound, Loose, WaitsRight, OneRuns, Active
  <2>8. Sound(r) /\ Swapped(m, r)
      BY <2>1, <2>7, RescheduleKeeps DEF Sound
  <2>9. Swapped(v, r)
      BY <1>3, <2>3, <2>5, <2>6, <2>8 DEF Swapped, Active, Absent
  <2>10. QED
      BY <2>8, <2>9 DEF Repriced, r, v
<1>6. QED
    BY <1>4, <1>5

(* OS_ThreadCreate: a thread that was not there is ready.                    *)
LEMMA StartThreadKeeps ==
  ASSUME NEW o, Sound(o), NEW t \in Threads, o.state[t] = "none", NEW p \in Nat
  PROVE  LET r == StartThread(o, t, p)
         IN  /\ Sound(r)
             /\ r.sem = o.sem /\ r.wait = o.wait /\ r.timeouts = o.timeouts
             /\ r.prio = [o.prio EXCEPT ![t] = p] /\ r.rc = [o.rc EXCEPT ![t] = 0]
             /\ r.due = o.due /\ r.now = o.now /\ r.inside = o.inside
             /\ Active(r) = Active(o) \union {t} /\ Absent(r) = Absent(o) \ {t}
<1> DEFINE u == [o EXCEPT !.prio[t] = p]
           w == [o EXCEPT !.prio[t] = p, !.wait[t] = None, !.rc[t] = 0]
           m == MakeReady(w, t)
           r == StartThread(o, t, p)
<1>1. /\ o \in KernelStates /\ o.wait[t] = None
    BY DEF Sound, Loose, WaitsRight
<1>2. Sound(u) /\ u.prio = [o.prio EXCEPT ![t] = p] /\ u.ready = o.ready /\ u.state = o.state
  <2>1. o.state[t] # "ready"
      OBVIOUS
  <2>2. QED
      BY <2>1, PriceKeeps
<1>3. w = [o EXCEPT !.prio = [o.prio EXCEPT ![t] = p], !.rc = [o.rc EXCEPT ![t] = 0]]
  <2>1. [o.wait EXCEPT ![t] = None] = o.wait
      BY <1>1 DEF KernelStates
  <2>2. QED
      BY <1>1, <2>1 DEF KernelStates
<1>4. r = Reschedule(m, FALSE)
    BY DEF StartThread
<1> HIDE DEF r, w, u
<1>5. /\ w.prio = [o.prio EXCEPT ![t] = p] /\ w.rc = [o.rc EXCEPT ![t] = 0]
      /\ w.ready = o.ready /\ w.state = o.state
      /\ w.sem = o.sem /\ w.wait = o.wait /\ w.timeouts = o.timeouts /\ w.cur = o.cur
      /\ w.due = o.due /\ w.now = o.now /\ w.inside = o.inside
    BY <1>1, <1>3 DEF KernelStates
<1>6. w \in KernelStates
    BY <1>1, <1>3 DEF KernelStates
<1>7. Holds(w.ready, Ready(w) \ {t}) /\ ByPrio(w.ready, w.prio)
  <2>1. Ready(w) \ {t} = Ready(u)
      BY <1>2, <1>5 DEF Ready
  <2>2. QED
      BY <1>2, <1>5, <2>1 DEF Sound, Loose, ReadyRight
<1>8. /\ m \in KernelStates /\ ReadyRight(m)
      /\ m.state = [w.state EXCEPT ![t] = "ready"] /\ m.cur = w.cur
      /\ m.sem = w.sem /\ m.wait = w.wait /\ m.timeouts = w.timeouts /\ m.prio = w.prio
      /\ m.rc = w.rc /\ m.due = w.due /\ m.now = w.now /\ m.inside = w.inside
    BY <1>6, <1>7, MakeReadyKeeps
<1> HIDE DEF m
<1>9. \A x \in Threads : m.state[x] = IF x = t THEN "ready" ELSE o.state[x]
    BY <1>1, <1>5, <1>8 DEF KernelStates
<1>10. Sound(m) /\ Active(m) = Active(o) \union {t} /\ Absent(m) = Absent(o) \ {t}
  <2>1. o.cur \in Threads /\ o.state[o.cur] = "running" /\ o.cur # t /\ Idle \in Threads
      BY <1>1, KernelAssumption DEF Sound, Loose, KernelStates
  <2>2. Active(m) = Active(o) \union {t} /\ Absent(m) = Absent(o) \ {t}
      BY <1>9 DEF Active, Absent
  <2>3. m.state[m.cur] = "running" /\ OneRuns(m) /\ WaitsRight(m)
      BY <1>1, <1>5, <1>8, <1>9, <2>1 DEF Sound, Loose, OneRuns, WaitsRight
  <2>4. TimeoutsRight(m) /\ \A z \in Sems : QueueRight(m, z)
      BY <1>5, <1>8, QueuesKept DEF Sound, Loose
  <2>5. QED
      BY <1>8, <2>2, <2>3, <2>4 DEF Sound, Loose
<1>11. Sound(r) /\ Swapped(m, r)
    BY <1>4, <1>10, RescheduleKeeps DEF Sound
<1>12. QED
    BY <1>5, <1>8, <1>10, <1>11 DEF Swapped, r

(* OS_ThreadExit: the current thread stops for good, and another one runs.   *)
LEMMA StopThreadKeeps ==
  ASSUME NEW o, Sound(o), ~o.inside, o.cur # Idle
  PROVE  LET r == StopThread(o)
         IN  /\ Sound(r)
             /\ r.sem = o.sem /\ r.wait = o.wait /\ r.timeouts = o.timeouts /\ r.prio = o.prio
             /\ r.rc = o.rc /\ r.due = o.due /\ r.now = o.now /\ r.inside = o.inside
             /\ Active(r) = Active(o) \ {o.cur} /\ Absent(r) = Absent(o)
<1> DEFINE w == [o EXCEPT !.state[o.cur] = "pend"]
           r == StopThread(o)
<1>1. o \in KernelStates /\ o.cur \in Threads /\ o.state[o.cur] = "running"
    BY DEF Sound, Loose, KernelStates
<1>2. w = [o EXCEPT !.state = [o.state EXCEPT ![o.cur] = "pend"]]
    BY <1>1 DEF KernelStates
<1>3. r = Reschedule(w, FALSE)
    BY DEF StopThread
<1> HIDE DEF r, w
<1>4. /\ w.state = [o.state EXCEPT ![o.cur] = "pend"] /\ w.ready = o.ready /\ w.cur = o.cur
      /\ w.sem = o.sem /\ w.wait = o.wait /\ w.timeouts = o.timeouts /\ w.prio = o.prio
      /\ w.rc = o.rc /\ w.due = o.due /\ w.now = o.now /\ w.inside = o.inside
    BY <1>1, <1>2 DEF KernelStates
<1>5. w \in KernelStates
    BY <1>1, <1>2 DEF KernelStates
<1>6. \A x \in Threads : w.state[x] = IF x = o.cur THEN "pend" ELSE o.state[x]
    BY <1>1, <1>4 DEF KernelStates
<1>7. Active(w) = Active(o) \ {o.cur} /\ Absent(w) = Absent(o) /\ Ready(w) = Ready(o)
    BY <1>1, <1>6 DEF Active, Absent, Ready
<1>8. Loose(w)
  <2>1. ReadyRight(w)
      BY <1>4, <1>7 DEF Sound, Loose, ReadyRight
  <2>2. OneRuns(w) /\ WaitsRight(w) /\ w.state[w.cur] = "pend"
      BY <1>1, <1>4, <1>6 DEF Sound, Loose, OneRuns, WaitsRight
  <2>3. TimeoutsRight(w) /\ \A z \in Sems : QueueRight(w, z)
      BY <1>4, QueuesKept DEF Sound, Loose
  <2>4. Idle \in Active(w)
      BY <1>7 DEF Sound, Loose
  <2>5. QED
      BY <1>5, <2>1, <2>2, <2>3, <2>4 DEF Loose
<1>9. Sound(r) /\ Swapped(w, r)
    BY <1>3, <1>4, <1>8, RescheduleKeeps
<1>10. QED
    BY <1>4, <1>7, <1>9 DEF Swapped, r

(* The entry of an interrupt, at the present or the next tick.               *)
LEMMA EnterIsr ==
  ASSUME NEW o, Sound(o), NEW now \in Tick
  PROVE  LET r == [o EXCEPT !.inside = TRUE, !.now = now]
         IN  /\ Sound(r) /\ r.inside /\ r.now = now /\ r.cur = o.cur
             /\ r.sem = o.sem /\ r.wait = o.wait /\ r.timeouts = o.timeouts /\ r.prio = o.prio
             /\ r.rc = o.rc /\ r.due = o.due /\ r.state = o.state
<1> DEFINE r == [o EXCEPT !.inside = TRUE, !.now = now]
<1>1. o \in KernelStates
    BY DEF Sound, Loose
<1>2. /\ r.inside /\ r.now = now /\ r.cur = o.cur /\ r.ready = o.ready
      /\ r.sem = o.sem /\ r.wait = o.wait /\ r.timeouts = o.timeouts /\ r.prio = o.prio
      /\ r.rc = o.rc /\ r.due = o.due /\ r.state = o.state /\ r \in KernelStates
    BY <1>1 DEF KernelStates
<1> HIDE DEF r
<1>3. Sound(r)
    BY <1>2, QueuesKept DEF Sound, Loose, ReadyRight, Ready, WaitsRight, OneRuns, Active
<1>4. QED
    BY <1>2, <1>3 DEF r

(* The return from an interrupt: who is to run by now runs.                  *)
LEMMA LeaveIsrKeeps ==
  ASSUME NEW o, Sound(o)
  PROVE  LET r == LeaveIsr(o)
         IN  Sound(r) /\ Swapped([o EXCEPT !.inside = FALSE], r)
<1> DEFINE u == [o EXCEPT !.inside = FALSE]
           r == LeaveIsr(o)
<1>1. o \in KernelStates
    BY DEF Sound, Loose
<1>2. /\ ~u.inside /\ u.now = o.now /\ u.cur = o.cur /\ u.ready = o.ready
      /\ u.sem = o.sem /\ u.wait = o.wait /\ u.timeouts = o.timeouts /\ u.prio = o.prio
      /\ u.rc = o.rc /\ u.due = o.due /\ u.state = o.state /\ u \in KernelStates
    BY <1>1 DEF KernelStates
<1>3. r = u \/ r = Reschedule(u, "robin" \in o.need)
    BY DEF LeaveIsr
<1> HIDE DEF u, r
<1>4. Sound(u)
    BY <1>2, QueuesKept DEF Sound, Loose, ReadyRight, Ready, WaitsRight, OneRuns, Active
<1>5. Swapped(u, u)
    BY DEF Swapped
<1>6. ("robin" \in o.need) \in BOOLEAN
    OBVIOUS
<1>7. LET m == Reschedule(u, "robin" \in o.need) IN Sound(m) /\ Swapped(u, m)
    BY <1>4, <1>6, RescheduleKeeps DEF Sound
<1>8. QED
    BY <1>3, <1>4, <1>5, <1>7 DEF u, r

-----------------------------------------------------------------------------
(* The inductive invariant *)

\* The semaphores of no mutex and of no queue.
Bare == Sems \ (Mutexes \union Queues)

\* An entry that any thread may come to at any place, with arguments that are
\* what they should be.
PlainOp(e) ==
    /\ e.op \notin {"lock", "unlock", "acquire", "owned", "take"}
    /\ e.op \in {"pend", "post", "drain"} => e.s \in Bare
    /\ e.op \in {"pend", "aim"} => e.ticks \in Int
    /\ e.op \in {"prio", "spawn"} => e.x \in Threads
    /\ e.op \in {"prio", "restore"} => e.p \in Nat
    /\ e.op = "put" => e.q \in Queues
    /\ e.op = "carve" => e.h \in Heaps
    /\ e.op = "release" => e.b.heap \in Heaps
    /\ e.op \in {"aim", "arm", "disarm", "newTimer"} => e.x \in Timers
    /\ e.op \in {"aim", "arm"} => e.restart \in Int
    /\ e.op = "arm" => e.due \in Tick

Plain(q) == q \in Seq(ToSet(q)) /\ \A e \in ToSet(q) : PlainOp(e)

Acquire(m) == <<[op |-> "acquire", m |-> m]>>
Owned(m)   == <<[op |-> "owned", m |-> m]>>

Take(q)    == <<[op |-> "take", q |-> q]>>
Posts(l, q) == l # <<>> /\ Head(l) = PostOp(q)

\* What is left of the call of thread t: a step of a mutex is alone, a message
\* is taken after its semaphore and posted after it was put.
Entries(t, l) ==
    \/ Plain(l)
    \/ \E c : l = <<c>> /\ c.op \in {"lock", "unlock"} /\ c.m \in Mutexes
              /\ (c.op = "unlock" => mutex[c.m].owner = t)
    \/ \E m \in Mutexes : l \in {Acquire(m), Owned(m)}
    \/ \E q \in Queues : \/ \E n \in Int : l = GetOps(q, n)
                        \/ l = Take(q)
                        \/ (Posts(l, q) /\ Plain(Tail(l)) /\ l = <<PostOp(q)>> \o Tail(l))

TodoRight ==
    /\ DOMAIN todo = Threads /\ todo[Idle] = <<>>
    /\ \A t \in Threads : Entries(t, todo[t])

WorkRight ==
    /\ work \in Workloads
    /\ irq \subseteq {"tick"} \union Bare /\ DOMAIN irqs \subseteq {"tick"} \union Bare
    /\ os.inside <=> irq # {}

MemoryRight ==
    /\ timerList \in Seq(Timers)
    /\ loc \in [now : Tick, ticks : Int, timer : Timers \union {None}, made : BOOLEAN]
    /\ DOMAIN timers = Timers
    /\ \A x \in Timers : /\ DOMAIN timers[x] = {"mem", "active", "due", "restart"}
                         /\ timers[x].mem.heap \in Heaps /\ timers[x].due \in Tick /\ timers[x].restart \in Int
    /\ DOMAIN block = Threads /\ DOMAIN held = Threads /\ DOMAIN ptr = Threads
    /\ \A x \in Threads : /\ block[x].heap \in Heaps /\ ptr[x].heap \in Heaps
                          /\ \A b \in held[x] : b.heap \in Heaps
    /\ needToFree \in Threads \union {None}

\* The threads that have been handed mutex m and are to become its owner.
Heirs(m) == {x \in Active(os) : todo[x] = Owned(m)}

\* Mutex m is free, owned, or handed over.
OwnerRight(m) ==
    \/ os.sem[m].count = 1 /\ mutex[m].owner = None /\ Heirs(m) = {}
    \/ os.sem[m].count <= 0 /\ mutex[m].owner # None /\ Heirs(m) = {}
    \/ os.sem[m].count <= 0 /\ mutex[m].owner = None /\ \E x \in Threads : Heirs(m) = {x}

\* Whoever waits for a mutex is to become its owner, and waits for good.
QueuedRight(x, m) ==
    /\ todo[x] = Owned(m) => x \in Active(os) \/ os.wait[x] = m
    /\ os.wait[x] = m => todo[x] = Owned(m)

MutexStates == [Mutexes -> [owner : Threads \union {None}, count : Nat, restore : Nat]]

MutexRight ==
    /\ mutex \in MutexStates
    /\ \A x \in Threads, m \in Mutexes : QueuedRight(x, m)
    /\ \A x \in ToSet(os.timeouts) : os.wait[x] \notin Mutexes
    /\ \A m \in Mutexes : OwnerRight(m)

\* A place of the ring buffer, i after a.
Slot(a, i) == IF a + i < Capacity THEN a + i ELSE a + i - Capacity

\* The ring buffer b has the messages of s that are not in g.
RingHas(b, s, g) ==
    /\ DOMAIN b = {"used", "read", "write", "ring"} /\ DOMAIN b.ring = 0 .. Capacity - 1
    /\ b.used \in 0 .. Capacity /\ b.read \in 0 .. Capacity - 1 /\ b.write = Slot(b.read, b.used)
    /\ \E T : s \in Seq(T) /\ g \in Seq(T)
    /\ Len(s) = Len(g) + b.used
    /\ \A i \in 1 .. Len(g) : s[i] = g[i]
    /\ \A i \in 1 .. b.used : s[Len(g) + i] = b.ring[Slot(b.read, i - 1)]

\* Who has the semaphore of q but not yet the message; who has put a message
\* but not yet posted the semaphore.
Hands(q)   == {x \in Active(os) : todo[x] = Take(q) /\ os.rc[x] = 0}
Posting(q) == {x \in Threads : Posts(todo[x], q)}
Spare(c)   == IF c > 0 THEN c ELSE 0

\* Every message in q is counted once.
LedgerRight(q) ==
    mq[q].used = Spare(os.sem[q].count) + Cardinality(Hands(q)) + Cardinality(Posting(q))

\* Whoever waits for a queue takes a message of it when the wait is over.
TakerRight(x, q) ==
    /\ todo[x] = Take(q) => x \in Active(os) \/ os.wait[x] = q
    /\ os.wait[x] = q => todo[x] = Take(q)

FifoOf(q) ==
    RingHas(mq[q], sent[q], got[q]) /\ LedgerRight(q) /\ \A x \in Threads : TakerRight(x, q)

FifoRight ==
    /\ DOMAIN mq = Queues /\ DOMAIN sent = Queues /\ DOMAIN got = Queues
    /\ \A q \in Queues : FifoOf(q)

IInv == Sound(os) /\ TodoRight /\ WorkRight /\ MemoryRight /\ MutexRight /\ FifoRight

-----------------------------------------------------------------------------
(* What calls consist of *)

(* A list of one entry.                                                      *)
LEMMA OneEntry ==
  ASSUME NEW e
  PROVE  Head(<<e>>) = e /\ Tail(<<e>>) = <<>> /\ <<e>> \o <<>> = <<e>>
<1>1. <<e>> \in Seq({e})
    OBVIOUS
<1>2. <<e>> \o <<>> = <<e>>
    BY <1>1, ConcatEmptySeq
<1>3. QED
    BY <1>2

(* A list of plain entries, whatever set they are taken from.                *)
LEMMA PlainList ==
  ASSUME NEW T, NEW q \in Seq(T), \A e \in T : PlainOp(e)
  PROVE  Plain(q)
<1>1. Len(q) \in Nat /\ DOMAIN q = 1 .. Len(q) /\ \A i \in 1 .. Len(q) : q[i] \in T
    BY LenProperties, ElementOfSeq
<1>2. ToSet(q) \subseteq T
    BY <1>1 DEF ToSet
<1>3. q \in Seq(ToSet(q))
  <2>1. q = [i \in 1 .. Len(q) |-> q[i]] /\ \A i \in 1 .. Len(q) : q[i] \in ToSet(q)
      BY <1>1 DEF ToSet
  <2>2. QED
      BY <1>1, <2>1, SeqDef
<1>4. QED
    BY <1>2, <1>3 DEF Plain

LEMMA PlainEmpty == Plain(<<>>)
<1> DEFINE T == {}
<1>1. <<>> \in Seq(T) /\ \A e \in T : PlainOp(e)
    OBVIOUS
<1> HIDE DEF T
<1>2. QED
    BY <1>1, PlainList

LEMMA PlainOne ==
  ASSUME NEW a, PlainOp(a)
  PROVE  Plain(<<a>>)
<1> DEFINE T == {a}
<1>1. <<a>> \in Seq(T) /\ \A e \in T : PlainOp(e)
    OBVIOUS
<1> HIDE DEF T
<1>2. QED
    BY <1>1, PlainList

LEMMA PlainTwo ==
  ASSUME NEW a, NEW b, PlainOp(a), PlainOp(b)
  PROVE  Plain(<<a, b>>)
<1> DEFINE T == {a, b}
<1>1. <<a, b>> \in Seq(T) /\ \A e \in T : PlainOp(e)
    OBVIOUS
<1> HIDE DEF T
<1>2. QED
    BY <1>1, PlainList

LEMMA PlainConcat ==
  ASSUME NEW p, NEW q, Plain(p), Plain(q)
  PROVE  Plain(p \o q)
<1>1. p \in Seq(ToSet(p) \union ToSet(q)) /\ q \in Seq(ToSet(p) \union ToSet(q))
    BY DEF Plain
<1>2. p \o q \in Seq(ToSet(p) \union ToSet(q))
    BY <1>1, ConcatProperties
<1>3. \A e \in ToSet(p) \union ToSet(q) : PlainOp(e)
    BY DEF Plain
<1>4. QED
    BY <1>2, <1>3, PlainList

(* The rest of a list, and its first entry.                                  *)
LEMMA PlainParts ==
  ASSUME NEW q, Plain(q), q # <<>>
  PROVE  PlainOp(Head(q)) /\ Plain(Tail(q))
<1>1. q \in Seq(ToSet(q)) /\ \A e \in ToSet(q) : PlainOp(e)
    BY DEF Plain
<1>2. Head(q) \in ToSet(q) /\ Tail(q) \in Seq(ToSet(q))
    BY <1>1, HeadTailProperties
<1>3. QED
    BY <1>1, <1>2, PlainList

(* The semaphores that the kernel takes for itself are none of a mutex or of *)
(* a queue.                                                                  *)
LEMMA KernelSems ==
  /\ {"sleep", "release", "lock", "timer"} \subseteq Bare /\ Heaps \subseteq Bare
  /\ Bare \subseteq Sems \ Mutexes /\ Bare \subseteq Sems \ Queues
  /\ Mutexes \subseteq Sems \ Queues /\ Queues \subseteq Sems \ Mutexes /\ Mutexes \subseteq Sems
  /\ None \notin Sems
BY RtosAssumption, WorkloadAssumption, KernelAssumption DEF Bare

LEMMA PlainPend ==
  ASSUME NEW s \in Bare, NEW ticks \in Int
  PROVE  PlainOp(PendOp(s, ticks))
BY DEF PlainOp, PendOp

LEMMA PlainPost ==
  ASSUME NEW s \in Bare
  PROVE  PlainOp(PostOp(s))
BY DEF PlainOp, PostOp

(* What is done under a semaphore.                                           *)
LEMMA PlainLocked ==
  ASSUME NEW s \in Bare, NEW ops, Plain(ops)
  PROVE  Plain(Locked(s, ops))
<1>1. Plain(<<PendOp(s, WaitForever)>>)
    BY PlainPend, PlainOne DEF WaitForever
<1>2. Plain(<<PostOp(s)>>)
    BY PlainPost, PlainOne
<1>3. Plain(<<PendOp(s, WaitForever)>> \o ops)
    BY <1>1, PlainConcat
<1>4. QED
    BY <1>2, <1>3, PlainConcat DEF Locked

(* The entries of the calls of the kernel.                                   *)
LEMMA PlainMalloc ==
  ASSUME NEW h \in Heaps, NEW n
  PROVE  Plain(MallocOps(h, n))
<1>1. PlainOp(PendOp(h, WaitForever))
    BY PlainPend, KernelSems DEF WaitForever
<1>2. PlainOp([op |-> "carve", h |-> h, n |-> n])
    BY DEF PlainOp
<1>3. QED
    BY <1>1, <1>2, PlainTwo DEF MallocOps

LEMMA PlainFree ==
  ASSUME NEW b, b.heap \in Heaps
  PROVE  Plain(FreeOps(b))
<1>1. PlainOp([op |-> "release", b |-> b])
    BY DEF PlainOp
<1>2. QED
    BY <1>1, PlainOne, PlainLocked, KernelSems DEF FreeOps

LEMMA PlainFreeThread == Plain(FreeThreadOps)
<1>1. PlainOp([op |-> "testFree"]) /\ PlainOp([op |-> "clearFree"])
    BY DEF PlainOp
<1>2. QED
    BY <1>1, PlainTwo, PlainLocked, KernelSems DEF FreeThreadOps

LEMMA PlainCreate ==
  ASSUME NEW x \in Threads
  PROVE  Plain(CreateOps(x))
<1>1. PlainOp([op |-> "spawn", x |-> x])
    BY DEF PlainOp
<1>2. Plain(MallocOps(SystemHeap, BlockUnits.thread))
    BY PlainMalloc, RtosAssumption
<1>3. Plain(FreeThreadOps \o MallocOps(SystemHeap, BlockUnits.thread))
    BY <1>2, PlainFreeThread, PlainConcat
<1>4. QED
    BY <1>1, <1>3, PlainOne, PlainConcat DEF CreateOps

LEMMA PlainExit == Plain(ExitOps)
<1>1. PlainOp([op |-> "die"])
    BY DEF PlainOp
<1>2. QED
    BY <1>1, PlainOne, PlainFreeThread, PlainConcat DEF ExitOps

LEMMA PlainSend ==
  ASSUME NEW q \in Queues, NEW v
  PROVE  Plain(SendOps(q, v))
<1>1. PlainOp([op |-> "put", q |-> q, v |-> v])
    BY DEF PlainOp
<1>2. QED
    BY <1>1, PlainOne DEF SendOps

LEMMA PlainJob ==
  ASSUME NEW f
  PROVE  Plain(JobOps(f))
<1>1. PlainOp([op |-> "needQueue"])
    BY DEF PlainOp
<1>2. Plain(SendOps("job", f))
    BY PlainSend, RtosAssumption
<1>3. QED
    BY <1>1, <1>2, PlainOne, PlainConcat DEF JobOps

LEMMA PlainStop ==
  ASSUME NEW x \in Timers
  PROVE  Plain(StopOps(x))
<1>1. PlainOp([op |-> "disarm", x |-> x])
    BY DEF PlainOp
<1>2. QED
    BY <1>1, PlainOne, PlainLocked, KernelSems DEF StopOps

LEMMA PlainStart ==
  ASSUME NEW x \in Timers, NEW n \in Int, NEW r \in Int
  PROVE  Plain(StartOps(x, n, r))
<1>1. PlainOp([op |-> "aim", x |-> x, ticks |-> n, restart |-> r])
    BY DEF PlainOp
<1>2. QED
    BY <1>1, PlainOne DEF StartOps

LEMMA PlainTimer ==
  ASSUME NEW x \in Timers
  PROVE  Plain(TimerOps(x))
<1>1. PlainOp([op |-> "needThread"]) /\ PlainOp([op |-> "newTimer", x |-> x])
    BY DEF PlainOp
<1>2. Plain(Locked("lock", <<[op |-> "needThread"]>>))
    BY <1>1, PlainOne, PlainLocked, KernelSems
<1>3. Plain(MallocOps(SystemHeap, BlockUnits.timer))
    BY PlainMalloc, RtosAssumption
<1>4. Plain(Locked("lock", <<[op |-> "needThread"]>>) \o MallocOps(SystemHeap, BlockUnits.timer))
    BY <1>2, <1>3, PlainConcat
<1>5. QED
    BY <1>1, <1>4, PlainOne, PlainConcat DEF TimerOps

LEMMA PlainScan == Plain(ScanOps)
<1>1. PlainOp([op |-> "pick"]) /\ PlainOp([op |-> "fire"])
    BY DEF PlainOp
<1>2. Plain(Locked("lock", <<[op |-> "pick"]>>))
    BY <1>1, PlainOne, PlainLocked, KernelSems
<1>3. QED
    BY <1>1, <1>2, PlainOne, PlainConcat DEF ScanOps

LEMMA PlainTimerLoop == Plain(TimerLoop)
<1>1. PlainOp([op |-> "howLong"]) /\ PlainOp([op |-> "nap"]) /\ PlainOp([op |-> "stamp"])
    BY DEF PlainOp
<1>2. Plain(Locked("lock", <<[op |-> "howLong"]>>))
    BY <1>1, PlainOne, PlainLocked, KernelSems
<1>3. Plain(Locked("lock", <<[op |-> "howLong"]>>) \o <<[op |-> "nap"], [op |-> "stamp"]>>)
    BY <1>1, <1>2, PlainTwo, PlainConcat
<1>4. QED
    BY <1>3, PlainScan, PlainConcat DEF TimerLoop

\* What is no list of a thread that a mutex was handed to, or that is to take
\* or to post a message.
Unowned(l) == \A m \in Mutexes : l # Owned(m)
Unqueued(l) == \A q \in Queues : l # Take(q) /\ ~Posts(l, q)
Aloof(l) == Unowned(l) /\ Unqueued(l)

LEMMA PlainAloof ==
  ASSUME NEW l, Plain(l)
  PROVE  Aloof(l)
<1>1. Unowned(l)
  <2> SUFFICES ASSUME NEW m \in Mutexes, l = Owned(m)
               PROVE  FALSE
      BY DEF Unowned
  <2>1. l # <<>> /\ Head(l).op = "owned"
      BY DEF Owned
  <2>2. PlainOp(Head(l))
      BY <2>1, PlainParts
  <2>3. QED
      BY <2>1, <2>2 DEF PlainOp
<1>2. Unqueued(l)
  <2> SUFFICES ASSUME NEW q \in Queues, l = Take(q) \/ Posts(l, q)
               PROVE  FALSE
      BY DEF Unqueued
  <2>1. l # <<>> /\ (Head(l).op = "take" \/ Head(l) = PostOp(q))
      BY DEF Take, Posts
  <2>2. PlainOp(Head(l)) /\ q \notin Bare
      BY <2>1, PlainParts DEF Bare
  <2>3. QED
      BY <2>1, <2>2 DEF PlainOp, PostOp
<1>3. QED
    BY <1>1, <1>2 DEF Aloof

LEMMA PlainEntries ==
  ASSUME NEW t, NEW l, Plain(l)
  PROVE  Entries(t, l) /\ Aloof(l)
BY PlainAloof DEF Entries

LEMMA GetEntries ==
  ASSUME NEW t, NEW q \in Queues, NEW n \in Int
  PROVE  Entries(t, GetOps(q, n)) /\ Aloof(GetOps(q, n))
<1> DEFINE l == GetOps(q, n)
<1>1. Entries(t, l)
  <2>1. \E z \in Queues : \E k \in Int : l = GetOps(z, k)
      OBVIOUS
  <2> HIDE DEF l
  <2>2. QED
      BY <2>1 DEF Entries
<1>2. Head(l) = PendOp(q, n) /\ Tail(l) = Take(q)
    BY DEF GetOps, Take
<1>3. Head(l).op = "pend"
    BY <1>2 DEF PendOp
<1>4. \A m \in Mutexes : Head(Owned(m)).op = "owned"
    BY DEF Owned
<1>5. \A z \in Queues : Head(Take(z)).op = "take" /\ PostOp(z).op = "post"
    BY DEF Take, PostOp
<1>6. Aloof(l)
    BY <1>3, <1>4, <1>5 DEF Aloof, Unowned, Unqueued, Posts
<1>7. QED
    BY <1>1, <1>6

(* Every call consists of entries with the arguments they need.              *)
LEMMA CallEntries ==
  ASSUME NEW t \in Threads, NEW c, LegalCall(c), Allowed(t, c), MemoryRight
  PROVE  Entries(t, CallOps(t, c)) /\ Aloof(CallOps(t, c))
<1> DEFINE q == CallOps(t, c)
<1>1. CASE c.op = "get"
  <2>1. c.q \in Queues /\ c.ticks \in Int /\ q = GetOps(c.q, c.ticks)
      BY <1>1 DEF LegalCall, CallOps
  <2>2. QED
      BY <2>1, GetEntries
<1>2. CASE c.op = "send"
  <2>1. c.q \in Queues /\ q = SendOps(c.q, c.v)
      BY <1>2 DEF LegalCall, CallOps
  <2>2. QED
      BY <2>1, PlainSend, PlainEntries
<1>3. CASE c.op = "job"
  <2>1. q = JobOps(c.v)
      BY <1>3 DEF CallOps
  <2>2. QED
      BY <2>1, PlainJob, PlainEntries
<1>4. CASE c.op = "sleep"
  <2>1. c.ticks \in Int /\ q = <<PendOp("sleep", c.ticks)>>
      BY <1>4 DEF LegalCall, CallOps
  <2>2. PlainOp(PendOp("sleep", c.ticks))
      BY <2>1, PlainPend, KernelSems
  <2>3. QED
      BY <2>1, <2>2, PlainOne, PlainEntries
<1>5. CASE c.op = "create"
  <2>1. c.x \in Threads /\ q = CreateOps(c.x)
      BY <1>5 DEF LegalCall, CallOps
  <2>2. QED
      BY <2>1, PlainCreate, PlainEntries
<1>6. CASE c.op = "malloc"
  <2>1. q = MallocOps(SystemHeap, c.n) \o <<[op |-> "keep"]>>
      BY <1>6 DEF CallOps
  <2>2. PlainOp([op |-> "keep"])
      BY DEF PlainOp
  <2>3. Plain(MallocOps(SystemHeap, c.n)) /\ Plain(<<[op |-> "keep"]>>)
      BY <2>2, PlainMalloc, PlainOne, RtosAssumption
  <2>4. QED
      BY <2>1, <2>3, PlainConcat, PlainEntries
<1>7. CASE c.op = "free"
  <2>1. q = <<[op |-> "giveBack"]>>
      BY <1>7 DEF CallOps
  <2>2. PlainOp([op |-> "giveBack"])
      BY DEF PlainOp
  <2>3. QED
      BY <2>1, <2>2, PlainOne, PlainEntries
<1>8. CASE c.op = "start"
  <2>1. c.x \in Timers /\ c.ticks \in Int /\ c.restart \in Int /\ q = StartOps(c.x, c.ticks, c.restart)
      BY <1>8 DEF LegalCall, CallOps
  <2>2. QED
      BY <2>1, PlainStart, PlainEntries
<1>9. CASE c.op = "stop"
  <2>1. c.x \in Timers /\ q = StopOps(c.x)
      BY <1>9 DEF LegalCall, CallOps
  <2>2. QED
      BY <2>1, PlainStop, PlainEntries
<1>10. CASE c.op = "delete"
  <2>1. c.x \in Timers /\ q = StopOps(c.x) \o FreeOps(timers[c.x].mem)
      BY <1>10 DEF LegalCall, CallOps
  <2>2. timers[c.x].mem.heap \in Heaps
      BY <2>1 DEF MemoryRight
  <2>3. Plain(StopOps(c.x)) /\ Plain(FreeOps(timers[c.x].mem))
      BY <2>1, <2>2, PlainStop, PlainFree
  <2>4. QED
      BY <2>1, <2>3, PlainConcat, PlainEntries
<1>11. CASE c.op = "timer"
  <2>1. c.x \in Timers /\ q = TimerOps(c.x)
      BY <1>11 DEF LegalCall, CallOps
  <2>2. QED
      BY <2>1, PlainTimer, PlainEntries
<1>12. CASE c.op \in {"pend", "post", "drain", "prio"}
  <2>1. q = <<c>>
      BY <1>12 DEF CallOps
  <2>2. PlainOp(c)
      BY <1>12 DEF PlainOp, LegalCall, Bare
  <2>3. QED
      BY <2>1, <2>2, PlainOne, PlainEntries
<1>13. CASE c.op \in {"lock", "unlock"}
  <2>1. q = <<c>> /\ c.m \in Mutexes
      BY <1>13 DEF CallOps, LegalCall
  <2>2. c.op = "unlock" => mutex[c.m].owner = t
      BY DEF Allowed
  <2>3. Aloof(q)
    <3>1. Head(q).op \in {"lock", "unlock"}
        BY <1>13, <2>1, OneEntry
    <3>2. \A m \in Mutexes : Head(Owned(m)).op = "owned"
        BY DEF Owned
    <3>3. \A z \in Queues : Head(Take(z)).op = "take" /\ PostOp(z).op = "post"
        BY DEF Take, PostOp
    <3>4. QED
        BY <3>1, <3>2, <3>3 DEF Aloof, Unowned, Unqueued, Posts
  <2>4. QED
      BY <1>13, <2>1, <2>2, <2>3 DEF Entries
<1>14. QED
    BY <1>1, <1>2, <1>3, <1>4, <1>5, <1>6, <1>7, <1>8, <1>9, <1>10, <1>11, <1>12, <1>13 DEF LegalCall

-----------------------------------------------------------------------------
(* What a step leaves alone *)

\* r differs from the state of the kernel in nothing that mutexes depend on.
MutexAside(r) ==
    /\ \A m \in Mutexes : r.sem[m].count = os.sem[m].count
    /\ \A x \in Threads, m \in Mutexes : r.wait[x] = m <=> os.wait[x] = m
    /\ \A x \in ToSet(r.timeouts) : r.wait[x] \notin Mutexes
    /\ \A x \in Threads : ~Unowned(todo[x]) => (x \in Active(r) <=> x \in Active(os))

\* Nor in anything that queue q depends on.
Beside(r, q) ==
    /\ Spare(r.sem[q].count) = Spare(os.sem[q].count)
    /\ \A x \in Threads :
          /\ r.wait[x] = q => os.wait[x] = q
          /\ todo[x] = Take(q) =>
                /\ x \in Active(r) /\ r.rc[x] = 0 <=> x \in Active(os) /\ os.rc[x] = 0
                /\ x \in Active(os) \/ os.wait[x] = q => x \in Active(r) \/ r.wait[x] = q

Aside(r) == MutexAside(r) /\ \A q \in Queues : Beside(r, q)

\* Nobody becomes the owner of a mutex or gives it away.
OwnersSame == mutex' \in MutexStates /\ \A m \in Mutexes : mutex'[m].owner = mutex[m].owner

(* A step beside the mutexes: who owns them or is to own them stays.         *)
LEMMA AsideKeeps ==
  ASSUME MutexRight, os' \in KernelStates, MutexAside(os'), OwnersSame,
         \A x \in Threads, m \in Mutexes : todo'[x] = Owned(m) <=> todo[x] = Owned(m)
  PROVE  MutexRight'
<1>1. \A m \in Mutexes : Heirs(m)' = Heirs(m)
  <2> SUFFICES ASSUME NEW m \in Mutexes
               PROVE  \A x \in Threads : x \in Heirs(m)' <=> x \in Heirs(m)
      BY DEF Heirs, Active
  <2>1. \A x \in Threads : todo[x] = Owned(m) => (x \in Active(os') <=> x \in Active(os))
      BY DEF MutexAside, Unowned
  <2>2. QED
      BY <2>1 DEF Heirs, Active
<1>2. \A x \in Threads, m \in Mutexes : QueuedRight(x, m)'
    BY DEF MutexRight, QueuedRight, MutexAside, Unowned
<1>3. \A x \in ToSet(os'.timeouts) : os'.wait[x] \notin Mutexes
    BY DEF MutexAside
<1>4. \A m \in Mutexes : OwnerRight(m)'
    BY <1>1 DEF MutexRight, OwnerRight, MutexAside, OwnersSame
<1>5. mutex' \in MutexStates
    BY DEF OwnersSame
<1>6. QED
    BY <1>2, <1>3, <1>4, <1>5 DEF MutexRight

(* A step beside a queue: its messages are counted as before.                *)
LEMMA BesideKeeps ==
  ASSUME NEW q \in Queues, FifoOf(q), Beside(os', q),
         mq'[q] = mq[q], sent'[q] = sent[q], got'[q] = got[q],
         \A x \in Threads : /\ todo'[x] = Take(q) <=> todo[x] = Take(q)
                            /\ Posts(todo'[x], q) <=> Posts(todo[x], q)
  PROVE  FifoOf(q)'
<1>1. Hands(q)' = Hands(q)
  <2>1. \A x \in Threads : x \in Hands(q)' <=> x \in Hands(q)
      BY DEF Hands, Beside, Active
  <2>2. QED
      BY <2>1 DEF Hands, Active
<1>2. Posting(q)' = Posting(q)
    BY DEF Posting
<1>3. LedgerRight(q)'
    BY <1>1, <1>2 DEF FifoOf, LedgerRight, Beside
<1>4. \A x \in Threads : TakerRight(x, q)'
    BY DEF FifoOf, TakerRight, Beside
<1>5. QED
    BY <1>3, <1>4 DEF FifoOf

\* No message is put or taken.
QueuesSame == UNCHANGED <<mq, sent, got>>

(* A step beside all queues.                                                 *)
LEMMA FifoKeeps ==
  ASSUME FifoRight, \A q \in Queues : Beside(os', q), QueuesSame,
         \A x \in Threads, q \in Queues : /\ todo'[x] = Take(q) <=> todo[x] = Take(q)
                                          /\ Posts(todo'[x], q) <=> Posts(todo[x], q)
  PROVE  FifoRight'
<1>1. ASSUME NEW q \in Queues
      PROVE  FifoOf(q)'
  <2>1. FifoOf(q) /\ Beside(os', q) /\ mq'[q] = mq[q] /\ sent'[q] = sent[q] /\ got'[q] = got[q]
      BY DEF FifoRight, QueuesSame
  <2>2. \A x \in Threads : /\ todo'[x] = Take(q) <=> todo[x] = Take(q)
                           /\ Posts(todo'[x], q) <=> Posts(todo[x], q)
      OBVIOUS
  <2>3. QED
      BY <2>1, <2>2, BesideKeeps
<1>2. QED
    BY <1>1 DEF FifoRight, QueuesSame

(* A thread that is in no queue goes on beside all of them.                  *)
LEMMA FifoBeside ==
  ASSUME IInv, NEW t \in Threads, Unqueued(todo[t]), NEW l, Unqueued(l), todo' = [todo EXCEPT ![t] = l],
         \A q \in Queues : Beside(os', q), QueuesSame
  PROVE  FifoRight'
<1>1. \A x \in Threads : todo'[x] = IF x = t THEN l ELSE todo[x]
    BY DEF IInv, TodoRight
<1>2. \A x \in Threads, q \in Queues : todo'[x] = Take(q) <=> todo[x] = Take(q)
    BY <1>1 DEF Unqueued
<1>3. \A x \in Threads, q \in Queues : Posts(todo'[x], q) <=> Posts(todo[x], q)
    BY <1>1 DEF Unqueued
<1>4. QED
    BY <1>2, <1>3, FifoKeeps DEF IInv

(* A thread goes on with its call; no other thread loses a mutex by that.    *)
LEMMA TodoKeeps ==
  ASSUME TodoRight, NEW t \in Threads \ {Idle}, NEW q, Entries(t, q)',
         todo' = [todo EXCEPT ![t] = q],
         \A x \in Threads \ {t}, m \in Mutexes : mutex[m].owner = x => mutex'[m].owner = x
  PROVE  TodoRight'
<1>1. \A x \in Threads : todo'[x] = IF x = t THEN q ELSE todo[x]
    BY DEF TodoRight
<1>2. ASSUME NEW x \in Threads
      PROVE  Entries(x, todo[x])'
  <2>1. CASE x = t
      BY <1>1, <2>1 DEF Entries
  <2>2. CASE x # t
    <3>1. Entries(x, todo[x]) /\ todo'[x] = todo[x] /\ x \in Threads \ {t}
        BY <1>1, <2>2 DEF TodoRight
    <3>2. QED
        BY <3>1 DEF Entries
  <2>3. QED
      BY <2>1, <2>2
<1>3. QED
    BY <1>2 DEF TodoRight

(* Semaphores of no mutex, priorities, and threads that start or stop.       *)
LEMMA SwappedMutex ==
  ASSUME MutexRight, NEW r, r.wait = os.wait, r.timeouts = os.timeouts, Active(r) = Active(os),
         \A m \in Mutexes : r.sem[m].count = os.sem[m].count
  PROVE  MutexAside(r)
BY DEF MutexAside, MutexRight

LEMMA SwappedBeside ==
  ASSUME NEW r, r.wait = os.wait, Active(r) = Active(os), NEW q \in Queues,
         r.sem[q].count = os.sem[q].count, \A x \in Threads : todo[x] = Take(q) => r.rc[x] = os.rc[x]
  PROVE  Beside(r, q)
BY DEF Beside

LEMMA SwappedAside ==
  ASSUME MutexRight, NEW r, r.wait = os.wait, r.timeouts = os.timeouts, Active(r) = Active(os),
         r.sem = os.sem, r.rc = os.rc
  PROVE  Aside(r)
BY SwappedMutex, SwappedBeside DEF Aside

LEMMA PendMutex ==
  ASSUME IInv, ~os.inside, os.cur # Idle, Unowned(todo[os.cur]),
         NEW s \in Sems \ Mutexes, NEW ticks \in Int
  PROVE  LET r == Pend(os, s, ticks)
         IN  Sound(r) /\ MutexAside(r) /\ r.inside = os.inside
<1> DEFINE r == Pend(os, s, ticks)
<1>1. /\ os \in KernelStates /\ s \in Sems /\ os.sem[s].count \in Int /\ os.cur \in Threads
      /\ os.wait[os.cur] = None /\ os.wait \in [Threads -> Sems \union {None}]
    BY DEF IInv, Sound, Loose, KernelStates, WaitsRight
<1>2. Mutexes \subseteq Sems /\ None \notin Sems /\ Sound(os) /\ MutexRight
    BY KernelSems DEF IInv
<1>3. CASE os.sem[s].count > 0
  <2>1. /\ Sound(r) /\ Swapped([os EXCEPT !.sem = r.sem, !.rc = r.rc], r)
        /\ \A z \in Sems : r.sem[z].count = IF z = s THEN os.sem[s].count - 1 ELSE os.sem[z].count
    <3>1. s \in Sems /\ Sound(os) /\ os.sem[s].count > 0
        BY <1>1, <1>2, <1>3
    <3>2. QED
        BY <3>1, PendTakes, ZenonT(30)
  <2> HIDE DEF r
  <2>2. /\ r.wait = os.wait /\ r.timeouts = os.timeouts /\ Active(r) = Active(os)
        /\ r.inside = os.inside
      BY <1>1, <2>1 DEF Swapped, KernelStates, Active
  <2>3. \A m \in Mutexes : r.sem[m].count = os.sem[m].count
      BY <1>2, <2>1
  <2>4. QED
      BY <1>2, <2>1, <2>2, <2>3, SwappedMutex DEF r
<1>4. CASE os.sem[s].count <= 0 /\ ticks = 0
  <2>1. Sound(r) /\ Swapped([os EXCEPT !.rc = r.rc], r)
      BY <1>1, <1>2, <1>4, PendGivesUp
  <2> HIDE DEF r
  <2>2. /\ r.wait = os.wait /\ r.timeouts = os.timeouts /\ Active(r) = Active(os)
        /\ r.inside = os.inside /\ r.sem = os.sem
      BY <1>1, <2>1 DEF Swapped, KernelStates, Active
  <2>3. QED
      BY <1>2, <2>1, <2>2, SwappedMutex DEF r
<1>5. CASE os.sem[s].count <= 0 /\ ticks # 0
  <2>1. ticks \in Int \ {0}
      BY <1>5
  <2>2. /\ Sound(r)
        /\ \A z \in Sems : r.sem[z].count = IF z = s THEN os.sem[s].count - 1 ELSE os.sem[z].count
        /\ r.wait = [os.wait EXCEPT ![os.cur] = s]
        /\ Active(r) = Active(os) \ {os.cur} /\ Absent(r) = Absent(os)
        /\ r.prio = os.prio /\ r.rc = os.rc /\ r.now = os.now /\ r.inside = os.inside
        /\ ToSet(r.timeouts) \subseteq ToSet(os.timeouts) \union IF ticks = WaitForever THEN {} ELSE {os.cur}
      BY <1>1, <1>2, <1>5, <2>1, PendWaits
  <2> HIDE DEF r
  <2>3. \A m \in Mutexes : r.sem[m].count = os.sem[m].count
      BY <1>2, <2>2
  <2>4. \A x \in Threads : r.wait[x] = IF x = os.cur THEN s ELSE os.wait[x]
      BY <1>1, <2>2
  <2>5. \A x \in ToSet(r.timeouts) : r.wait[x] \notin Mutexes
    <3> SUFFICES ASSUME NEW x \in ToSet(r.timeouts)
                 PROVE  r.wait[x] \notin Mutexes
        OBVIOUS
    <3>1. CASE x = os.cur
        BY <1>1, <2>4, <3>1
    <3>2. CASE x # os.cur
      <4>1. x \in ToSet(os.timeouts)
          BY <2>2, <3>2
      <4>2. ToSet(os.timeouts) \subseteq Threads
          BY <1>2, HoldsElements DEF Sound, Loose, TimeoutsRight
      <4>3. QED
          BY <1>2, <2>4, <3>2, <4>1, <4>2 DEF MutexRight
    <3>3. QED
        BY <3>1, <3>2
  <2>6. \A x \in Threads, m \in Mutexes : r.wait[x] = m <=> os.wait[x] = m
      BY <1>1, <1>2, <2>4
  <2>7. \A x \in Threads : ~Unowned(todo[x]) => (x \in Active(r) <=> x \in Active(os))
      BY <2>2
  <2>8. QED
      BY <2>2, <2>3, <2>5, <2>6, <2>7 DEF MutexAside, r
<1>6. QED
    BY <1>1, <1>3, <1>4, <1>5

LEMMA PendBeside ==
  ASSUME IInv, ~os.inside, os.cur # Idle, NEW s \in Sems, NEW ticks \in Int,
         NEW q \in Queues, q # s, todo[os.cur] # Take(q)
  PROVE  Beside(Pend(os, s, ticks), q)
<1> DEFINE r == Pend(os, s, ticks)
<1>1. /\ os \in KernelStates /\ os.sem[s].count \in Int /\ os.cur \in Threads
      /\ Sound(os) /\ q \in Sems
    BY KernelSems DEF IInv, Sound, Loose, KernelStates
<1>2. CASE os.sem[s].count > 0
  <2>1. /\ Sound(r) /\ Swapped([os EXCEPT !.sem = r.sem, !.rc = r.rc], r)
        /\ r.cur = os.cur /\ r.rc = [os.rc EXCEPT ![os.cur] = 0]
        /\ \A z \in Sems : r.sem[z].count = IF z = s THEN os.sem[s].count - 1 ELSE os.sem[z].count
      BY <1>1, <1>2, PendTakes, ZenonT(30)
  <2> HIDE DEF r
  <2>2. r.wait = os.wait /\ Active(r) = Active(os)
      BY <1>1, <2>1 DEF Swapped, KernelStates, Active
  <2>3. \A x \in Threads : todo[x] = Take(q) => r.rc[x] = os.rc[x]
      BY <1>1, <2>1 DEF KernelStates
  <2>4. QED
      BY <1>1, <2>1, <2>2, <2>3, SwappedBeside DEF r
<1>3. CASE os.sem[s].count <= 0 /\ ticks = 0
  <2>1. /\ Sound(r) /\ Swapped([os EXCEPT !.rc = r.rc], r)
        /\ r.cur = os.cur /\ r.rc = [os.rc EXCEPT ![os.cur] = -1]
      BY <1>1, <1>3, PendGivesUp
  <2> HIDE DEF r
  <2>2. r.wait = os.wait /\ Active(r) = Active(os) /\ r.sem = os.sem
      BY <1>1, <2>1 DEF Swapped, KernelStates, Active
  <2>3. \A x \in Threads : todo[x] = Take(q) => r.rc[x] = os.rc[x]
      BY <1>1, <2>1 DEF KernelStates
  <2>4. QED
      BY <1>1, <2>2, <2>3, SwappedBeside DEF r
<1>4. CASE os.sem[s].count <= 0 /\ ticks # 0
  <2>1. ticks \in Int \ {0}
      BY <1>4
  <2>2. /\ Sound(r)
        /\ \A z \in Sems : r.sem[z].count = IF z = s THEN os.sem[s].count - 1 ELSE os.sem[z].count
        /\ r.wait = [os.wait EXCEPT ![os.cur] = s]
        /\ Active(r) = Active(os) \ {os.cur} /\ Absent(r) = Absent(os)
        /\ r.prio = os.prio /\ r.rc = os.rc /\ r.now = os.now /\ r.inside = os.inside
        /\ ToSet(r.timeouts) \subseteq ToSet(os.timeouts) \union IF ticks = WaitForever THEN {} ELSE {os.cur}
      BY <1>1, <1>4, <2>1, PendWaits
  <2> HIDE DEF r
  <2>3. r.sem[q].count = os.sem[q].count
      BY <1>1, <2>2
  <2>4. \A x \in Threads : r.wait[x] = IF x = os.cur THEN s ELSE os.wait[x]
      BY <1>1, <2>2 DEF KernelStates
  <2>5. QED
      BY <1>1, <2>2, <2>3, <2>4 DEF Beside, r
<1>5. QED
    BY <1>1, <1>2, <1>3, <1>4

LEMMA PendAside ==
  ASSUME IInv, ~os.inside, os.cur # Idle, Aloof(todo[os.cur]), NEW s \in Bare, NEW ticks \in Int
  PROVE  LET r == Pend(os, s, ticks)
         IN  Sound(r) /\ Aside(r) /\ r.inside = os.inside
<1>1. s \in Sems \ Mutexes /\ s \in Sems /\ s \notin Queues /\ Unowned(todo[os.cur])
    BY KernelSems DEF Aloof
<1>2. \A q \in Queues : q # s /\ todo[os.cur] # Take(q)
    BY <1>1 DEF Aloof, Unqueued
<1>3. QED
    BY <1>1, <1>2, PendMutex, PendBeside DEF Aside

(* A thread that is woken from a semaphore of no mutex.                      *)
LEMMA WokenMutex ==
  ASSUME IInv, NEW r, NEW t, NEW s \in Sems \ Mutexes, NEW rc, Woken(os, r, t, s, rc)
  PROVE  MutexAside(r)
<1>1. /\ os \in KernelStates /\ os.wait \in [Threads -> Sems \union {None}]
      /\ Mutexes \subseteq Sems /\ None \notin Sems /\ Sound(os) /\ MutexRight
    BY KernelSems DEF IInv, Sound, Loose, KernelStates
<1>2. ToSet(os.timeouts) \subseteq Threads
    BY <1>1, HoldsElements DEF Sound, Loose, TimeoutsRight
<1>3. \A m \in Mutexes : r.sem[m].count = os.sem[m].count
    BY <1>1 DEF Woken
<1>4. \A x \in Threads : r.wait[x] = IF x = t THEN None ELSE os.wait[x]
    BY <1>1 DEF Woken
<1>5. \A x \in Threads, m \in Mutexes : r.wait[x] = m <=> os.wait[x] = m
    BY <1>1, <1>4 DEF Woken
<1>6. \A x \in ToSet(r.timeouts) : r.wait[x] \notin Mutexes
    BY <1>1, <1>2, <1>4 DEF Woken, MutexRight
<1>7. \A x \in Threads : ~Unowned(todo[x]) => (x \in Active(r) <=> x \in Active(os))
  <2> SUFFICES ASSUME NEW x \in Threads, NEW m \in Mutexes, todo[x] = Owned(m)
               PROVE  x \in Active(r) <=> x \in Active(os)
      BY DEF Unowned
  <2>1. x \in Active(os) \/ os.wait[x] = m
      BY <1>1 DEF MutexRight, QueuedRight
  <2>2. x = t => os.wait[x] = s /\ x \notin Active(os)
      BY DEF Woken, Active
  <2>3. x # t
      BY <2>1, <2>2
  <2>4. QED
      BY <2>3 DEF Woken
<1>8. QED
    BY <1>3, <1>5, <1>6, <1>7 DEF MutexAside

\* A thread of another queue, or one whose time is over.
LEMMA WokenBeside ==
  ASSUME IInv, NEW r, NEW t, NEW s \in Sems, NEW rc, Woken(os, r, t, s, rc),
         NEW q \in Queues, q # s \/ (rc = -1 /\ os.sem[s].count < 0)
  PROVE  Beside(r, q)
<1>1. /\ os.wait \in [Threads -> Sems \union {None}] /\ os.rc \in [Threads -> {0, -1}]
      /\ q \in Sems /\ None \notin Sems /\ os.sem[q].count \in Int
    BY KernelSems DEF IInv, Sound, Loose, KernelStates
<1>2. Spare(r.sem[q].count) = Spare(os.sem[q].count)
  <2>1. r.sem[q].count = IF q = s THEN os.sem[q].count + 1 ELSE os.sem[q].count
      BY <1>1 DEF Woken
  <2>2. QED
      BY <1>1, <2>1 DEF Spare
<1>3. \A x \in Threads : /\ r.wait[x] = IF x = t THEN None ELSE os.wait[x]
                         /\ r.rc[x] = IF x = t THEN rc ELSE os.rc[x]
    BY <1>1 DEF Woken
<1>4. t \notin Active(os) /\ os.wait[t] = s /\ t \in Threads /\ Active(r) = Active(os) \union {t}
    BY DEF Woken, Active
<1>5. todo[t] = Take(q) => os.wait[t] = q
    BY <1>4 DEF IInv, FifoRight, FifoOf, TakerRight
<1>6. \A x \in Threads : r.wait[x] = q => os.wait[x] = q
    BY <1>1, <1>3
<1>7. ASSUME NEW x \in Threads, todo[x] = Take(q)
      PROVE  /\ x \in Active(r) /\ r.rc[x] = 0 <=> x \in Active(os) /\ os.rc[x] = 0
             /\ x \in Active(os) \/ os.wait[x] = q => x \in Active(r) \/ r.wait[x] = q
  <2>1. CASE x = t
    <3>1. rc = -1
        BY <1>4, <1>5, <1>7, <2>1
    <3>2. QED
        BY <1>3, <1>4, <2>1, <3>1
  <2>2. CASE x # t
      BY <1>3, <1>4, <2>2
  <2>3. QED
      BY <2>1, <2>2
<1>8. QED
    BY <1>2, <1>6, <1>7 DEF Beside

LEMMA PostMutex ==
  ASSUME IInv, NEW s \in Sems \ Mutexes
  PROVE  LET r == Post(os, s)
         IN  Sound(r) /\ MutexAside(r) /\ r.inside = os.inside
<1> DEFINE r == Post(os, s)
<1>1. os \in KernelStates /\ s \in Sems /\ os.sem[s].count \in Int /\ Mutexes \subseteq Sems
      /\ Sound(os) /\ MutexRight
    BY KernelSems DEF IInv, Sound, Loose, KernelStates
<1>2. CASE os.sem[s].count >= 0
  <2>1. /\ Sound(r) /\ Swapped([os EXCEPT !.sem = r.sem], r)
        /\ \A z \in Sems : r.sem[z].count = IF z = s THEN os.sem[s].count + 1 ELSE os.sem[z].count
      BY <1>1, <1>2, PostCounts
  <2> HIDE DEF r
  <2>2. /\ r.wait = os.wait /\ r.timeouts = os.timeouts /\ Active(r) = Active(os)
        /\ r.inside = os.inside
      BY <1>1, <2>1 DEF Swapped, KernelStates, Active
  <2>3. \A m \in Mutexes : r.sem[m].count = os.sem[m].count
      BY <1>1, <2>1
  <2>4. QED
      BY <1>1, <2>1, <2>2, <2>3, SwappedMutex DEF r
<1>3. CASE os.sem[s].count < 0
  <2>1. Sound(r) /\ \E t \in Threads : Woken(os, r, t, s, 0)
      BY <1>1, <1>3, PostWakes
  <2> HIDE DEF r
  <2>2. MutexAside(r)
      BY <2>1, WokenMutex
  <2>3. QED
      BY <2>1, <2>2 DEF Woken, r
<1>4. QED
    BY <1>1, <1>2, <1>3

LEMMA PostBeside ==
  ASSUME IInv, NEW s \in Sems, NEW q \in Queues, q # s
  PROVE  Beside(Post(os, s), q)
<1> DEFINE r == Post(os, s)
<1>1. os \in KernelStates /\ os.sem[s].count \in Int /\ Sound(os) /\ q \in Sems
    BY KernelSems DEF IInv, Sound, Loose, KernelStates
<1>2. CASE os.sem[s].count >= 0
  <2>1. /\ Sound(r) /\ Swapped([os EXCEPT !.sem = r.sem], r) /\ r.cur = os.cur
        /\ \A z \in Sems : r.sem[z].count = IF z = s THEN os.sem[s].count + 1 ELSE os.sem[z].count
      BY <1>1, <1>2, PostCounts
  <2> HIDE DEF r
  <2>2. r.wait = os.wait /\ Active(r) = Active(os) /\ r.rc = os.rc
      BY <1>1, <2>1 DEF Swapped, KernelStates, Active
  <2>3. QED
      BY <1>1, <2>1, <2>2, SwappedBeside DEF r
<1>3. CASE os.sem[s].count < 0
  <2>1. Sound(r) /\ \E t \in Threads : Woken(os, r, t, s, 0)
      BY <1>1, <1>3, PostWakes
  <2> HIDE DEF r
  <2>2. QED
      BY <2>1, WokenBeside DEF r
<1>4. QED
    BY <1>1, <1>2, <1>3

LEMMA PostAside ==
  ASSUME IInv, NEW s \in Bare
  PROVE  LET r == Post(os, s)
         IN  Sound(r) /\ Aside(r) /\ r.inside = os.inside
<1>1. s \in Sems \ Mutexes /\ s \in Sems /\ \A q \in Queues : q # s
    BY KernelSems
<1>2. QED
    BY <1>1, PostMutex, PostBeside DEF Aside

LEMMA ExpireAside ==
  ASSUME IInv, os.timeouts # <<>>
  PROVE  LET r == Expire(os)
         IN  Sound(r) /\ Aside(r) /\ r.inside = os.inside
<1> DEFINE r == Expire(os)
<1>1. Sound(r) /\ \E t \in ToSet(os.timeouts), s \in Sems :
            Woken(os, r, t, s, -1) /\ os.sem[s].count < 0 /\ r.cur = os.cur
    BY ExpireKeeps DEF IInv
<1> HIDE DEF r
<1>2. PICK t \in ToSet(os.timeouts), s \in Sems : Woken(os, r, t, s, -1) /\ os.sem[s].count < 0
    BY <1>1
<1>3. s \in Sems \ Mutexes
    BY <1>2 DEF Woken, IInv, MutexRight
<1>4. Aside(r)
    BY <1>2, <1>3, WokenMutex, WokenBeside DEF Aside
<1>5. QED
    BY <1>1, <1>2, <1>4 DEF Woken, r

LEMMA RepricedAside ==
  ASSUME IInv, NEW x \in Threads, NEW p \in Nat
  PROVE  LET r == PrioritySet(os, x, p)
         IN  Sound(r) /\ Aside(r) /\ r.inside = os.inside
<1> DEFINE r    == PrioritySet(os, x, p)
           prio == [os.prio EXCEPT ![x] = p]
<1>1. os \in KernelStates /\ Sound(os) /\ MutexRight
    BY DEF IInv, Sound, Loose
<1>2. Sound(r) /\ Repriced(os, r, prio)
    BY <1>1, PrioritySetKeeps
<1> HIDE DEF r, prio
<1>3. /\ r.wait = os.wait /\ r.timeouts = os.timeouts /\ Active(r) = Active(os)
      /\ r.inside = os.inside /\ r.sem = os.sem /\ r.rc = os.rc
    BY <1>1, <1>2 DEF Repriced, Swapped, KernelStates, Active
<1>4. QED
    BY <1>1, <1>2, <1>3, SwappedAside DEF r

LEMMA StartAside ==
  ASSUME IInv, NEW x \in Threads, os.state[x] = "none", NEW p \in Nat
  PROVE  LET r == StartThread(os, x, p)
         IN  Sound(r) /\ Aside(r) /\ r.inside = os.inside
<1> DEFINE r == StartThread(os, x, p)
<1>1. /\ Sound(r)
      /\ r.sem = os.sem /\ r.wait = os.wait /\ r.timeouts = os.timeouts
      /\ r.prio = [os.prio EXCEPT ![x] = p] /\ r.rc = [os.rc EXCEPT ![x] = 0]
      /\ r.due = os.due /\ r.now = os.now /\ r.inside = os.inside
      /\ Active(r) = Active(os) \union {x} /\ Absent(r) = Absent(os) \ {x}
    BY StartThreadKeeps DEF IInv
<1> HIDE DEF r
<1>2. os.wait[x] = None /\ x \notin Active(os) /\ None \notin Mutexes /\ None \notin Queues
    BY KernelSems DEF IInv, Sound, Loose, WaitsRight, Active
<1>3. Unowned(todo[x])
    BY <1>2 DEF IInv, MutexRight, QueuedRight, Unowned
<1>4. MutexAside(r)
    BY <1>1, <1>3 DEF IInv, MutexAside, MutexRight
<1>5. ASSUME NEW q \in Queues
      PROVE  Beside(r, q)
  <2>1. todo[x] # Take(q)
      BY <1>2 DEF IInv, FifoRight, FifoOf, TakerRight
  <2>2. \A y \in Threads : y # x => r.rc[y] = os.rc[y]
      BY <1>1 DEF IInv, Sound, Loose, KernelStates
  <2>3. QED
      BY <1>1, <2>1, <2>2 DEF Beside
<1>6. QED
    BY <1>1, <1>4, <1>5 DEF Aside, r

LEMMA StopAside ==
  ASSUME IInv, ~os.inside, os.cur # Idle, Aloof(todo[os.cur])
  PROVE  LET r == StopThread(os)
         IN  Sound(r) /\ Aside(r) /\ r.inside = os.inside
<1> DEFINE r == StopThread(os)
<1>1. /\ Sound(r)
      /\ r.sem = os.sem /\ r.wait = os.wait /\ r.timeouts = os.timeouts /\ r.prio = os.prio
      /\ r.rc = os.rc /\ r.due = os.due /\ r.now = os.now /\ r.inside = os.inside
      /\ Active(r) = Active(os) \ {os.cur} /\ Absent(r) = Absent(os)
    BY StopThreadKeeps DEF IInv
<1> HIDE DEF r
<1>2. MutexAside(r)
    BY <1>1 DEF IInv, Aloof, MutexAside, MutexRight
<1>3. \A q \in Queues : Beside(r, q)
    BY <1>1 DEF Aloof, Unqueued, Beside
<1>4. QED
    BY <1>1, <1>2, <1>3 DEF Aside, r

-----------------------------------------------------------------------------
(* Steps of threads *)

(* A thread goes on with its call, beside the mutexes.                       *)
LEMMA GoesOn ==
  ASSUME IInv, NEW t \in Threads \ {Idle}, Unowned(todo[t]),
         NEW l, Entries(t, l), Unowned(l), todo' = [todo EXCEPT ![t] = l],
         Sound(os'), MutexAside(os'), os'.inside = os.inside, OwnersSame,
         UNCHANGED <<work, irq, irqs>>, MemoryRight', FifoRight'
  PROVE  IInv'
<1>1. TodoRight'
  <2>1. Entries(t, l)'
      BY DEF Entries, OwnersSame
  <2>2. QED
      BY <2>1, TodoKeeps DEF IInv, OwnersSame
<1>2. \A x \in Threads, m \in Mutexes : todo'[x] = Owned(m) <=> todo[x] = Owned(m)
    BY DEF IInv, TodoRight, Unowned
<1>3. MutexRight'
    BY <1>2, AsideKeeps DEF IInv, Sound, Loose
<1>4. WorkRight'
    BY DEF IInv, WorkRight
<1>5. Sound(os)'
    OBVIOUS
<1>6. QED
    BY <1>1, <1>3, <1>4, <1>5 DEF IInv

(* A step of a thread that is in no mutex and in no queue, on what is no     *)
(* mutex and no queue.                                                       *)
LEMMA StepKeeps ==
  ASSUME IInv, NEW t \in Threads \ {Idle}, Aloof(todo[t]),
         NEW l, Entries(t, l), Aloof(l), todo' = [todo EXCEPT ![t] = l],
         Sound(os'), Aside(os'), os'.inside = os.inside, OwnersSame, QueuesSame,
         UNCHANGED <<work, irq, irqs>>, MemoryRight'
  PROVE  IInv'
<1>1. FifoRight'
    BY FifoBeside DEF Aloof, Aside
<1>2. QED
    BY <1>1, GoesOn DEF Aloof, Aside

\* The operations that are no step of a mutex or of a queue.
PlainNames == {"drain", "prio", "restore", "put", "needQueue", "makeQueue",
               "aim", "arm", "disarm", "needThread", "newTimer", "howLong", "nap", "stamp", "pick", "fire",
               "carve", "release", "keep", "giveBack", "spawn", "testFree", "clearFree", "die"}

(* Lists that are not plain show it by their first entry.                    *)
LEMMA HeadOps ==
  ASSUME NEW t, NEW l, Entries(t, l), l # <<>>
  PROVE  /\ Head(l).op \notin {"lock", "unlock", "acquire", "owned", "pend", "post", "take"} => Plain(l)
         /\ Head(l).op = "pend" => \/ Plain(l)
                                   \/ \E q \in Queues, n \in Int : l = GetOps(q, n)
         /\ Head(l).op = "post" => \/ Plain(l)
                                   \/ \E q \in Queues : Posts(l, q) /\ Plain(Tail(l))
         /\ Head(l).op = "take" => \E q \in Queues : l = Take(q)
<1>1. ASSUME ~Plain(l), NEW c, l = <<c>>, c.op \in {"lock", "unlock"}
      PROVE  Head(l).op \in {"lock", "unlock"}
    BY <1>1, OneEntry
<1>2. \A m \in Mutexes : Head(Acquire(m)).op = "acquire" /\ Head(Owned(m)).op = "owned"
    BY DEF Acquire, Owned
<1>3. \A q \in Queues, n \in Int : Head(GetOps(q, n)).op = "pend"
    BY DEF GetOps, PendOp
<1>4. \A q \in Queues : Head(Take(q)).op = "take" /\ PostOp(q).op = "post"
    BY DEF Take, PostOp
<1>5. CASE Plain(l)
  <2>1. PlainOp(Head(l))
      BY <1>5, PlainParts
  <2>2. Head(l).op # "take"
      BY <2>1 DEF PlainOp
  <2>3. QED
      BY <1>5, <2>2
<1>6. CASE ~Plain(l)
  <2>1. CASE \E c : l = <<c>> /\ c.op \in {"lock", "unlock"}
      BY <1>1, <1>6, <2>1
  <2>2. CASE \E m \in Mutexes : l \in {Acquire(m), Owned(m)}
      BY <1>2, <2>2
  <2>3. CASE \E q \in Queues : \E n \in Int : l = GetOps(q, n)
      BY <1>3, <2>3
  <2>4. CASE \E q \in Queues : l = Take(q)
      BY <1>4, <2>4
  <2>5. CASE \E q \in Queues : Posts(l, q) /\ Plain(Tail(l))
      BY <1>4, <2>5 DEF Posts
  <2>6. QED
      BY <1>6, <2>1, <2>2, <2>3, <2>4, <2>5 DEF Entries
<1>7. QED
    BY <1>5, <1>6

(* Whoever does something is the running thread.                             *)
LEMMA DoingAny ==
  ASSUME IInv, NEW t \in Threads, NEW op, Doing(t, op)
  PROVE  /\ os.cur = t /\ t \in Threads \ {Idle} /\ ~os.inside /\ Sound(os) /\ t \in Active(os)
         /\ Now(t).op = op /\ todo[t] # <<>> /\ Now(t) = Head(todo[t]) /\ Entries(t, todo[t])
<1>1. os.cur = t /\ ~os.inside /\ todo[t] # <<>> /\ Now(t).op = op /\ Now(t) = Head(todo[t])
    BY DEF Doing, Running, Now
<1>2. t # Idle /\ Entries(t, todo[t])
    BY <1>1 DEF IInv, TodoRight
<1>3. Sound(os) /\ t \in Active(os)
    BY <1>1 DEF IInv, Sound, Active
<1>4. QED
    BY <1>1, <1>2, <1>3

(* What a thread is doing: the arguments are right, and so is the rest.      *)
LEMMA DoingPlain ==
  ASSUME IInv, NEW t \in Threads, NEW op \in PlainNames, Doing(t, op)
  PROVE  /\ os.cur = t /\ t \in Threads \ {Idle} /\ ~os.inside /\ Sound(os)
         /\ Now(t).op = op /\ PlainOp(Now(t)) /\ Plain(todo[t])
         /\ Plain(Tail(todo[t])) /\ Aloof(todo[t]) /\ todo[t] # <<>>
<1>1. /\ os.cur = t /\ t \in Threads \ {Idle} /\ ~os.inside /\ Sound(os)
      /\ Now(t).op = op /\ todo[t] # <<>> /\ Now(t) = Head(todo[t]) /\ Entries(t, todo[t])
    BY DoingAny
<1>2. Plain(todo[t])
    BY <1>1, HeadOps DEF PlainNames
<1>3. PlainOp(Now(t)) /\ Plain(Tail(todo[t])) /\ Aloof(todo[t])
    BY <1>1, <1>2, PlainParts, PlainAloof
<1>4. QED
    BY <1>1, <1>2, <1>3

LEMMA AllSame ==
  ASSUME IInv, UNCHANGED sync
  PROVE  OwnersSame /\ QueuesSame
BY DEF IInv, MutexRight, OwnersSame, QueuesSame, sync

(* New entries in front of the rest, or none.                                *)
LEMMA PlainGoesOn ==
  ASSUME IInv, NEW t \in Threads \ {Idle}, Plain(todo[t]),
         NEW l, Plain(l), todo' = [todo EXCEPT ![t] = l],
         Sound(os'), Aside(os'), os'.inside = os.inside, UNCHANGED sync,
         UNCHANGED <<work, irq, irqs>>, MemoryRight'
  PROVE  IInv'
<1>1. Aloof(todo[t]) /\ Entries(t, l) /\ Aloof(l)
    BY PlainEntries
<1>2. QED
    BY <1>1, AllSame, StepKeeps

LEMMA ThenKeeps ==
  ASSUME IInv, NEW t \in Threads, NEW op \in PlainNames, Doing(t, op),
         NEW ops, Plain(ops), Then(t, ops),
         Sound(os'), Aside(os'), os'.inside = os.inside, UNCHANGED sync,
         UNCHANGED <<work, irq, irqs>>, MemoryRight'
  PROVE  IInv'
<1> DEFINE l == ops \o Tail(todo[t])
<1>1. t \in Threads \ {Idle} /\ Plain(todo[t]) /\ Plain(Tail(todo[t]))
    BY DoingPlain
<1>2. Plain(l)
    BY <1>1, PlainConcat
<1>3. todo' = [todo EXCEPT ![t] = l]
    BY DEF Then
<1> HIDE DEF l
<1>4. QED
    BY <1>1, <1>2, <1>3, PlainGoesOn

LEMMA DoneKeeps ==
  ASSUME IInv, NEW t \in Threads, NEW op \in PlainNames, Doing(t, op), Done(t),
         Sound(os'), Aside(os'), os'.inside = os.inside, UNCHANGED sync,
         UNCHANGED <<work, irq, irqs>>, MemoryRight'
  PROVE  IInv'
<1>1. t \in Threads \ {Idle} /\ Plain(todo[t]) /\ Plain(Tail(todo[t]))
    BY DoingPlain
<1>2. todo' = [todo EXCEPT ![t] = Tail(todo[t])]
    BY DEF Done
<1>3. QED
    BY <1>1, <1>2, PlainGoesOn

(* A step that does not concern the kernel.                                  *)
LEMMA SameAside ==
  ASSUME IInv, os' = os
  PROVE  Sound(os') /\ Aside(os') /\ os'.inside = os.inside
BY DEF IInv, Aside, MutexAside, Beside, MutexRight

LEMMA MemorySame ==
  ASSUME IInv, UNCHANGED <<time, memory>>
  PROVE  MemoryRight'
BY DEF IInv, MemoryRight, time, memory

(* The choice of a call, and the loops of the kernel's own threads.          *)
LEMMA CallKeeps ==
  ASSUME IInv, NEW t \in Threads, Call(t)
  PROVE  IInv'
<1>1. t \in Threads \ {Idle} /\ todo[t] = <<>>
    BY DEF Call
<1>2. Aloof(todo[t])
    BY <1>1, PlainEmpty, PlainAloof
<1>3. PICK q : todo' = [todo EXCEPT ![t] = q] /\ Entries(t, q) /\ Aloof(q)
  <2>1. ASSUME NEW c \in work.calls[t], Allowed(t, c), todo' = [todo EXCEPT ![t] = CallOps(t, c)]
        PROVE  \E q : todo' = [todo EXCEPT ![t] = q] /\ Entries(t, q) /\ Aloof(q)
    <3>1. LegalCall(c)
        BY <2>1, WorkloadAssumption DEF IInv, WorkRight
    <3>2. QED
        BY <2>1, <3>1, CallEntries DEF IInv
  <2>2. Entries(t, ExitOps) /\ Aloof(ExitOps)
      BY PlainExit, PlainEntries
  <2>3. Entries(t, <<PendOp("sleep", WaitForever)>>) /\ Aloof(<<PendOp("sleep", WaitForever)>>)
      BY PlainPend, PlainOne, PlainEntries, KernelSems DEF WaitForever
  <2>4. \/ todo' = [todo EXCEPT ![t] = ExitOps]
        \/ todo' = [todo EXCEPT ![t] = <<PendOp("sleep", WaitForever)>>]
        \/ \E c \in work.calls[t] : Allowed(t, c) /\ todo' = [todo EXCEPT ![t] = CallOps(t, c)]
      BY DEF Call
  <2>5. QED
      BY <2>1, <2>2, <2>3, <2>4
<1>4. UNCHANGED <<os, sync, time, memory, work, irq, irqs>>
    BY DEF Call
<1>5. QED
    BY <1>1, <1>2, <1>3, <1>4, SameAside, MemorySame, AllSame, StepKeeps

LEMMA LoopKeeps ==
  ASSUME IInv, NEW t \in Threads, Loop(t)
  PROVE  IInv'
<1>1. t \in Threads \ {Idle} /\ Aloof(todo[t])
    BY PlainEmpty, PlainAloof, RtosAssumption DEF Loop
<1> DEFINE q == IF t = TimerThread THEN TimerLoop ELSE JobLoop
<1>2. Entries(t, q) /\ Aloof(q)
    BY PlainTimerLoop, PlainEntries, GetEntries, RtosAssumption DEF JobLoop, WaitForever
<1>3. todo' = [todo EXCEPT ![t] = q]
    BY DEF Loop
<1>4. UNCHANGED <<os, sync, time, memory, work, irq, irqs>>
    BY DEF Loop, load
<1> HIDE DEF q
<1>5. QED
    BY <1>1, <1>2, <1>3, <1>4, SameAside, MemorySame, AllSame, StepKeeps

(* Semaphores, priorities, and the priority that a mutex gives back.         *)
LEMMA SemaphoresKeep ==
  ASSUME IInv, NEW t \in Threads,
         SemaphoreDelete(t) \/ ThreadPrioritySet(t) \/ MutexRestore(t)
  PROVE  IInv'
<1>1. UNCHANGED <<time, memory, work, irq, irqs>> /\ UNCHANGED sync
    BY DEF SemaphoreDelete, ThreadPrioritySet, MutexRestore, load
<1>2. MemoryRight' /\ UNCHANGED <<work, irq, irqs>>
    BY <1>1, MemorySame
<1>3. CASE SemaphoreDelete(t)
  <2>1. /\ Doing(t, "drain") /\ os' = os
        /\ Done(t) \/ Then(t, <<PostOp(Now(t).s), Now(t)>>)
      BY <1>3 DEF SemaphoreDelete
  <2>2. "drain" \in PlainNames
      BY DEF PlainNames
  <2>3. Now(t).s \in Bare /\ PlainOp(Now(t))
      BY <2>1, <2>2, DoingPlain DEF PlainOp
  <2>4. Plain(<<PostOp(Now(t).s), Now(t)>>)
      BY <2>3, PlainPost, PlainTwo
  <2>5. QED
      BY <1>1, <1>2, <2>1, <2>2, <2>4, SameAside, DoneKeeps, ThenKeeps
<1>4. CASE ThreadPrioritySet(t)
  <2>1. Doing(t, "prio") /\ Done(t) /\ os' = PrioritySet(os, Now(t).x, Now(t).p)
      BY <1>4 DEF ThreadPrioritySet
  <2>2. "prio" \in PlainNames
      BY DEF PlainNames
  <2>3. Sound(os) /\ Now(t).x \in Threads /\ Now(t).p \in Nat
      BY <2>1, <2>2, DoingPlain DEF PlainOp
  <2>4. Sound(os') /\ Aside(os') /\ os'.inside = os.inside
      BY <2>1, <2>3, RepricedAside
  <2>5. QED
      BY <1>1, <1>2, <2>1, <2>2, <2>4, DoneKeeps
<1>5. CASE MutexRestore(t)
  <2>1. /\ Doing(t, "restore") /\ Done(t)
        /\ os' = os \/ os' = PrioritySet(os, t, Now(t).p)
      BY <1>5 DEF MutexRestore
  <2>2. "restore" \in PlainNames
      BY DEF PlainNames
  <2>3. Sound(os) /\ Now(t).p \in Nat
      BY <2>1, <2>2, DoingPlain DEF PlainOp
  <2>4. Sound(os') /\ Aside(os') /\ os'.inside = os.inside
      BY <1>2, <2>1, <2>3, RepricedAside, SameAside
  <2>5. QED
      BY <1>1, <1>2, <2>1, <2>2, <2>4, DoneKeeps
<1>6. QED
    BY <1>3, <1>4, <1>5

-----------------------------------------------------------------------------
(* The ring buffer of a queue *)

LEMMA SlotNext ==
  ASSUME NEW a \in 0 .. Capacity - 1, NEW i \in 0 .. Capacity - 1
  PROVE  Slot(a, i) \in 0 .. Capacity - 1 /\ Wrap(Slot(a, i)) = Slot(a, i + 1)
<1>1. Capacity \in Nat /\ Capacity > 0 /\ a \in Nat /\ i \in Nat /\ a < Capacity /\ i < Capacity
    BY RtosAssumption
<1>2. QED
    BY <1>1 DEF Slot, Wrap

LEMMA SlotShift ==
  ASSUME NEW a \in 0 .. Capacity - 1, NEW i \in 0 .. Capacity - 1
  PROVE  Wrap(a) \in 0 .. Capacity - 1 /\ Slot(Wrap(a), i) = Slot(a, i + 1)
<1>1. Capacity \in Nat /\ Capacity > 0 /\ a \in Nat /\ i \in Nat /\ a < Capacity /\ i < Capacity
    BY RtosAssumption
<1>2. QED
    BY <1>1 DEF Slot, Wrap

LEMMA SlotsDiffer ==
  ASSUME NEW a \in 0 .. Capacity - 1, NEW i \in 0 .. Capacity - 1, NEW j \in 0 .. i - 1
  PROVE  Slot(a, j) # Slot(a, i)
<1>1. Capacity \in Nat /\ Capacity > 0 /\ a \in Nat /\ i \in Nat /\ j \in Nat
      /\ a < Capacity /\ i < Capacity /\ j < i
    BY RtosAssumption
<1>2. QED
    BY <1>1 DEF Slot

(* A message is put behind the others.                                       *)
LEMMA RingPut ==
  ASSUME NEW b, NEW s, NEW g, RingHas(b, s, g), b.used + 1 <= Capacity, NEW v, NEW c,
         DOMAIN c = DOMAIN b, c.used = b.used + 1, c.read = b.read,
         c.ring = [b.ring EXCEPT ![b.write] = v], c.write = Wrap(b.write)
  PROVE  RingHas(c, Append(s, v), g)
<1>1. /\ Capacity \in Nat /\ b.used \in Nat /\ b.used \in 0 .. Capacity - 1
      /\ b.read \in 0 .. Capacity - 1 /\ b.write = Slot(b.read, b.used)
      /\ DOMAIN b.ring = 0 .. Capacity - 1
    BY RtosAssumption DEF RingHas
<1>2. PICK T : s \in Seq(T) /\ g \in Seq(T)
    BY DEF RingHas
<1> DEFINE s2 == Append(s, v)
           U  == T \union {v}
<1>3. s \in Seq(U) /\ g \in Seq(U) /\ v \in U
    BY <1>2
<1> HIDE DEF U
<1>4. /\ s2 \in Seq(U) /\ Len(s2) = Len(s) + 1 /\ s2[Len(s) + 1] = v
      /\ \A i \in 1 .. Len(s) : s2[i] = s[i]
      /\ Len(s) \in Nat /\ Len(g) \in Nat
    BY <1>3, AppendProperties, LenProperties
<1> HIDE DEF s2
<1>5. Len(s) = Len(g) + b.used
    BY DEF RingHas
<1>6. b.write \in 0 .. Capacity - 1 /\ c.write = Slot(c.read, c.used)
  <2>1. /\ Slot(b.read, b.used) \in 0 .. Capacity - 1
        /\ Wrap(Slot(b.read, b.used)) = Slot(b.read, b.used + 1)
      BY <1>1, SlotNext
  <2>2. QED
      BY <1>1, <2>1
<1>7. DOMAIN c = {"used", "read", "write", "ring"} /\ DOMAIN c.ring = 0 .. Capacity - 1
      /\ c.used \in 0 .. Capacity /\ c.read \in 0 .. Capacity - 1
    BY <1>1 DEF RingHas
<1>8. Len(s2) = Len(g) + c.used
    BY <1>1, <1>4, <1>5
<1>9. \A i \in 1 .. Len(g) : s2[i] = g[i]
  <2>1. ASSUME NEW i \in 1 .. Len(g)
        PROVE  i \in 1 .. Len(s)
      BY <1>1, <1>4, <1>5
  <2>2. QED
      BY <1>4, <2>1 DEF RingHas
<1>10. ASSUME NEW i \in 1 .. c.used
       PROVE  s2[Len(g) + i] = c.ring[Slot(c.read, i - 1)]
  <2>1. i - 1 \in 0 .. b.used /\ i - 1 \in 0 .. Capacity - 1
      BY <1>1
  <2>2. Slot(b.read, i - 1) \in 0 .. Capacity - 1
      BY <1>1, <2>1, SlotNext
  <2>3. CASE i = b.used + 1
    <3>1. i - 1 = b.used /\ Len(g) + i = Len(s) + 1
        BY <1>1, <1>4, <1>5, <2>3
    <3>2. c.ring[b.write] = v
        BY <1>1, <1>6
    <3>3. QED
        BY <1>1, <1>4, <3>1, <3>2
  <2>4. CASE i # b.used + 1
    <3>1. i \in 1 .. b.used /\ i - 1 \in 0 .. b.used - 1
        BY <1>1, <2>4
    <3>2. Slot(b.read, i - 1) # Slot(b.read, b.used)
        BY <1>1, <3>1, SlotsDiffer
    <3>3. c.ring[Slot(b.read, i - 1)] = b.ring[Slot(b.read, i - 1)]
        BY <1>1, <2>2, <3>2
    <3>4. Len(g) + i \in 1 .. Len(s)
        BY <1>1, <1>4, <1>5, <3>1, SMTT(20)
    <3>5. QED
        BY <1>4, <3>1, <3>3, <3>4 DEF RingHas
  <2>5. QED
      BY <2>3, <2>4
<1>11. \E V : s2 \in Seq(V) /\ g \in Seq(V)
    BY <1>3, <1>4
<1>12. RingHas(c, s2, g)
    BY <1>6, <1>7, <1>8, <1>9, <1>10, <1>11 DEF RingHas
<1>13. QED
    BY <1>12 DEF s2

(* The first message is taken.                                               *)
LEMMA RingTake ==
  ASSUME NEW b, NEW s, NEW g, RingHas(b, s, g), b.used > 0, NEW c,
         DOMAIN c = DOMAIN b, c.used = b.used - 1, c.read = Wrap(b.read),
         c.ring = b.ring, c.write = b.write
  PROVE  RingHas(c, s, Append(g, b.ring[b.read]))
<1> DEFINE v  == b.ring[b.read]
           g2 == Append(g, v)
<1>1. /\ Capacity \in Nat /\ Capacity > 0 /\ b.used \in Nat /\ b.used - 1 \in 0 .. Capacity - 1
      /\ b.read \in 0 .. Capacity - 1 /\ b.write = Slot(b.read, b.used)
      /\ DOMAIN b.ring = 0 .. Capacity - 1
    BY RtosAssumption DEF RingHas
<1>2. PICK T : s \in Seq(T) /\ g \in Seq(T)
    BY DEF RingHas
<1> DEFINE U == T \union {v}
<1>3. s \in Seq(U) /\ g \in Seq(U) /\ v \in U
    BY <1>2
<1>4. Slot(b.read, 0) = b.read
    BY <1>1 DEF Slot
<1>5. \A i \in 1 .. b.used : s[Len(g) + i] = b.ring[Slot(b.read, i - 1)]
    BY DEF RingHas
<1>6. s[Len(g) + 1] = v
  <2>1. 1 \in 1 .. b.used /\ 1 - 1 = 0
      BY <1>1
  <2>2. QED
      BY <1>4, <1>5, <2>1
<1> HIDE DEF U, v
<1>7. /\ g2 \in Seq(U) /\ Len(g2) = Len(g) + 1 /\ g2[Len(g) + 1] = v
      /\ \A i \in 1 .. Len(g) : g2[i] = g[i]
      /\ Len(s) \in Nat /\ Len(g) \in Nat
    BY <1>3, AppendProperties, LenProperties
<1> HIDE DEF g2
<1>8. Len(s) = Len(g2) + c.used
    BY <1>1, <1>7 DEF RingHas
<1>9. /\ DOMAIN c = {"used", "read", "write", "ring"} /\ DOMAIN c.ring = 0 .. Capacity - 1
      /\ c.used \in 0 .. Capacity
    BY <1>1 DEF RingHas
<1>10. c.read \in 0 .. Capacity - 1 /\ c.write = Slot(c.read, c.used)
  <2>1. (b.used - 1) + 1 = b.used
      BY <1>1
  <2>2. /\ Wrap(b.read) \in 0 .. Capacity - 1
        /\ Slot(Wrap(b.read), b.used - 1) = Slot(b.read, (b.used - 1) + 1)
      BY <1>1, SlotShift
  <2>3. QED
      BY <1>1, <2>1, <2>2
<1>11. ASSUME NEW i \in 1 .. Len(g2)
       PROVE  s[i] = g2[i]
  <2>1. CASE i = Len(g) + 1
      BY <1>6, <1>7, <2>1
  <2>2. CASE i # Len(g) + 1
    <3>1. i \in 1 .. Len(g)
        BY <1>7, <2>2
    <3>2. QED
        BY <1>7, <3>1 DEF RingHas
  <2>3. QED
      BY <2>1, <2>2
<1>12. ASSUME NEW i \in 1 .. c.used
       PROVE  s[Len(g2) + i] = c.ring[Slot(c.read, i - 1)]
  <2>1. i - 1 \in 0 .. Capacity - 1 /\ i + 1 \in 1 .. b.used /\ (i - 1) + 1 = i /\ (i + 1) - 1 = i
      BY <1>1
  <2>2. Slot(c.read, i - 1) = Slot(b.read, i)
    <3>1. Slot(Wrap(b.read), i - 1) = Slot(b.read, (i - 1) + 1)
        BY <1>1, <2>1, SlotShift
    <3>2. QED
        BY <2>1, <3>1
  <2>3. Len(g2) + i = Len(g) + (i + 1)
      BY <1>1, <1>7
  <2>4. QED
      BY <1>5, <2>1, <2>2, <2>3
<1>13. \E V : s \in Seq(V) /\ g2 \in Seq(V)
    BY <1>3, <1>7
<1>14. RingHas(c, s, g2)
    BY <1>8, <1>9, <1>10, <1>11, <1>12, <1>13 DEF RingHas
<1>15. QED
    BY <1>14 DEF g2, v

-----------------------------------------------------------------------------
(* Steps of queues *)

LEMMA LedgerFinite ==
  ASSUME NEW q
  PROVE  /\ IsFiniteSet(Hands(q)) /\ Cardinality(Hands(q)) \in Nat
         /\ IsFiniteSet(Posting(q)) /\ Cardinality(Posting(q)) \in Nat
<1>1. IsFiniteSet(Threads) /\ Hands(q) \subseteq Threads /\ Posting(q) \subseteq Threads
    BY KernelAssumption DEF Hands, Active, Posting
<1>2. QED
    BY <1>1, FS_Subset, FS_CardinalityType

(* A step of thread t at queue q concerns no other queue.                    *)
LEMMA OneQueue ==
  ASSUME FifoRight, NEW t \in Threads, NEW q \in Queues, FifoOf(q)',
         \A x \in Threads : x # t => todo'[x] = todo[x],
         \A z \in Queues : z # q =>
            /\ Beside(os', z) /\ mq'[z] = mq[z] /\ sent'[z] = sent[z] /\ got'[z] = got[z]
            /\ todo[t] # Take(z) /\ todo'[t] # Take(z) /\ ~Posts(todo[t], z) /\ ~Posts(todo'[t], z),
         DOMAIN mq' = Queues, DOMAIN sent' = Queues, DOMAIN got' = Queues
  PROVE  FifoRight'
<1>1. ASSUME NEW z \in Queues, z # q
      PROVE  FifoOf(z)'
  <2>1. /\ FifoOf(z) /\ Beside(os', z) /\ mq'[z] = mq[z] /\ sent'[z] = sent[z] /\ got'[z] = got[z]
        /\ todo[t] # Take(z) /\ todo'[t] # Take(z) /\ ~Posts(todo[t], z) /\ ~Posts(todo'[t], z)
      BY <1>1 DEF FifoRight
  <2>2. ASSUME NEW x \in Threads
        PROVE  /\ todo'[x] = Take(z) <=> todo[x] = Take(z)
               /\ Posts(todo'[x], z) <=> Posts(todo[x], z)
    <3>1. CASE x = t
        BY <2>1, <3>1
    <3>2. CASE x # t
      <4>1. todo'[x] = todo[x]
          BY <3>2
      <4>2. QED
          BY <4>1
    <3>3. QED
        BY <3>1, <3>2
  <2>3. QED
      BY <2>1, <2>2, BesideKeeps
<1>2. QED
    BY <1>1 DEF FifoRight

(* Lists at a queue are of no other queue and of no mutex.                   *)
LEMMA QueueLists ==
  ASSUME NEW q \in Queues
  PROVE  /\ \A z : Take(q) = Take(z) => q = z
         /\ \A l, z : Posts(l, q) /\ Posts(l, z) => q = z
         /\ \A l, z : Posts(l, q) => l # Take(z)
         /\ \A z : ~Posts(Take(q), z)
         /\ Unowned(Take(q)) /\ \A l : Posts(l, q) => Unowned(l)
         /\ Take(q) # <<>>
<1>1. \A z : Head(Take(z)) = [op |-> "take", q |-> z] /\ Head(Take(z)).op = "take" /\ Head(Take(z)).q = z
    BY DEF Take
<1>2. \A z : PostOp(z).op = "post" /\ PostOp(z).s = z
    BY DEF PostOp
<1>3. \A m \in Mutexes : Head(Owned(m)).op = "owned"
    BY DEF Owned
<1>4. Take(q) # <<>>
    BY DEF Take
<1>5. Unowned(Take(q)) /\ \A l : Posts(l, q) => Unowned(l)
    BY <1>1, <1>2, <1>3 DEF Unowned, Posts
<1>6. /\ \A l, z : Posts(l, q) /\ Posts(l, z) => q = z
      /\ \A l, z : Posts(l, q) => l # Take(z)
      /\ \A z : ~Posts(Take(q), z)
    BY <1>1, <1>2 DEF Posts
<1>7. \A z : Take(q) = Take(z) => q = z
    BY <1>1
<1>8. QED
    BY <1>4, <1>5, <1>6, <1>7

(* The running thread pends on the semaphore of a queue: it has it in hand,  *)
(* comes away without it, or waits.                                          *)
LEMMA PendMoves ==
  ASSUME IInv, NEW t \in Threads \ {Idle}, os.cur = t, ~os.inside, NEW q \in Queues, NEW n \in Int
  PROVE  LET r == Pend(os, q, n)
         IN  /\ \A x \in Threads : x # t => /\ x \in Active(r) <=> x \in Active(os)
                                            /\ r.rc[x] = os.rc[x] /\ r.wait[x] = os.wait[x]
             /\ t \in Active(r) \/ r.wait[t] = q
             /\ \A z \in Queues : r.wait[t] = z => z = q
             /\ \/ t \in Active(r) /\ r.rc[t] = 0 /\ Spare(os.sem[q].count) = Spare(r.sem[q].count) + 1
                \/ ~(t \in Active(r) /\ r.rc[t] = 0) /\ Spare(os.sem[q].count) = Spare(r.sem[q].count)
<1> DEFINE r == Pend(os, q, n)
<1>1. /\ os \in KernelStates /\ q \in Sems /\ os.sem[q].count \in Int /\ Sound(os)
      /\ t \in Active(os) /\ os.wait[t] = None /\ None \notin Sems /\ Queues \subseteq Sems
    BY KernelSems DEF IInv, Sound, Loose, KernelStates, WaitsRight, Active
<1>2. CASE os.sem[q].count > 0
  <2>1. /\ Sound(r) /\ Swapped([os EXCEPT !.sem = r.sem, !.rc = r.rc], r)
        /\ r.cur = os.cur /\ r.rc = [os.rc EXCEPT ![os.cur] = 0]
        /\ \A z \in Sems : r.sem[z].count = IF z = q THEN os.sem[q].count - 1 ELSE os.sem[z].count
    <3>1. q \in Sems /\ Sound(os) /\ os.sem[q].count > 0
        BY <1>1, <1>2
    <3>2. QED
        BY <3>1, PendTakes, ZenonT(30)
  <2> HIDE DEF r
  <2>2. r.wait = os.wait /\ Active(r) = Active(os)
      BY <1>1, <2>1 DEF Swapped, KernelStates, Active
  <2>3. r.rc[t] = 0 /\ \A x \in Threads : x # t => r.rc[x] = os.rc[x]
      BY <1>1, <2>1 DEF KernelStates
  <2>4. Spare(os.sem[q].count) = Spare(r.sem[q].count) + 1
    <3>1. r.sem[q].count = os.sem[q].count - 1
        BY <1>1, <2>1
    <3>2. QED
        BY <1>1, <1>2, <3>1 DEF Spare
  <2>5. QED
      BY <1>1, <2>2, <2>3, <2>4 DEF r
<1>3. CASE os.sem[q].count <= 0 /\ n = 0
  <2>1. /\ Sound(r) /\ Swapped([os EXCEPT !.rc = r.rc], r)
        /\ r.cur = os.cur /\ r.rc = [os.rc EXCEPT ![os.cur] = -1]
      BY <1>1, <1>3, PendGivesUp
  <2> HIDE DEF r
  <2>2. r.wait = os.wait /\ Active(r) = Active(os) /\ r.sem = os.sem
      BY <1>1, <2>1 DEF Swapped, KernelStates, Active
  <2>3. r.rc[t] = -1 /\ \A x \in Threads : x # t => r.rc[x] = os.rc[x]
      BY <1>1, <2>1 DEF KernelStates
  <2>4. QED
      BY <1>1, <2>2, <2>3 DEF r
<1>4. CASE os.sem[q].count <= 0 /\ n # 0
  <2>1. n \in Int \ {0}
      BY <1>4
  <2>2. /\ Sound(r)
        /\ \A z \in Sems : r.sem[z].count = IF z = q THEN os.sem[q].count - 1 ELSE os.sem[z].count
        /\ r.wait = [os.wait EXCEPT ![os.cur] = q]
        /\ Active(r) = Active(os) \ {os.cur} /\ Absent(r) = Absent(os)
        /\ r.prio = os.prio /\ r.rc = os.rc /\ r.now = os.now /\ r.inside = os.inside
        /\ ToSet(r.timeouts) \subseteq ToSet(os.timeouts) \union IF n = WaitForever THEN {} ELSE {os.cur}
      BY <1>1, <1>4, <2>1, PendWaits
  <2> HIDE DEF r
  <2>3. r.wait[t] = q /\ \A x \in Threads : x # t => r.wait[x] = os.wait[x]
      BY <1>1, <2>2 DEF KernelStates
  <2>4. Spare(os.sem[q].count) = Spare(r.sem[q].count)
    <3>1. r.sem[q].count = os.sem[q].count - 1
        BY <1>1, <2>2
    <3>2. QED
        BY <1>1, <1>4, <3>1 DEF Spare
  <2>5. QED
      BY <2>2, <2>3, <2>4 DEF r
<1>5. QED
    BY <1>1, <1>2, <1>3, <1>4

(* OS_MQueueGet up to the semaphore.                                         *)
LEMMA QueuePendKeeps ==
  ASSUME IInv, NEW t \in Threads, SemaphorePend(t), NEW q \in Queues, NEW n \in Int, todo[t] = GetOps(q, n)
  PROVE  IInv'
<1> DEFINE r == Pend(os, q, n)
<1>1. /\ os.cur = t /\ t \in Threads \ {Idle} /\ ~os.inside /\ Sound(os) /\ t \in Active(os)
      /\ Now(t) = Head(todo[t])
    BY DoingAny DEF SemaphorePend
<1>2. Head(todo[t]) = PendOp(q, n) /\ Tail(todo[t]) = Take(q)
    BY DEF GetOps, Take
<1>3. Now(t).s = q /\ Now(t).ticks = n
    BY <1>1, <1>2 DEF PendOp
<1>4. /\ os' = r /\ todo' = [todo EXCEPT ![t] = Take(q)]
      /\ UNCHANGED <<time, memory, work, irq, irqs>> /\ UNCHANGED sync
    BY <1>2, <1>3 DEF SemaphorePend, Done, load
<1>5. Aloof(todo[t])
    BY GetEntries
<1>6. \A x \in Threads : todo'[x] = IF x = t THEN Take(q) ELSE todo[x]
    BY <1>4 DEF IInv, TodoRight
<1>7. Sound(r) /\ MutexAside(r) /\ r.inside = os.inside
    BY <1>1, <1>5, KernelSems, PendMutex DEF Aloof
<1>8. /\ \A x \in Threads : x # t => /\ x \in Active(r) <=> x \in Active(os)
                                     /\ r.rc[x] = os.rc[x] /\ r.wait[x] = os.wait[x]
      /\ t \in Active(r) \/ r.wait[t] = q
      /\ \A z \in Queues : r.wait[t] = z => z = q
      /\ \/ t \in Active(r) /\ r.rc[t] = 0 /\ Spare(os.sem[q].count) = Spare(r.sem[q].count) + 1
         \/ ~(t \in Active(r) /\ r.rc[t] = 0) /\ Spare(os.sem[q].count) = Spare(r.sem[q].count)
    BY <1>1, PendMoves
<1>9. \A z \in Queues : z # q => Beside(r, z)
    BY <1>1, <1>5, KernelSems, PendBeside DEF Aloof, Unqueued
<1> HIDE DEF r
<1>10. FifoRight /\ FifoOf(q) /\ todo[t] # Take(q) /\ ~Posts(todo[t], q) /\ ~Posts(Take(q), q)
    BY <1>5, QueueLists DEF IInv, FifoRight, Aloof, Unqueued
<1>11. Posting(q)' = Posting(q)
    BY <1>6, <1>10 DEF Posting
<1>12. \A x \in Threads : x \in Hands(q)' <=> (IF x = t THEN t \in Active(r) /\ r.rc[t] = 0 ELSE x \in Hands(q))
    BY <1>4, <1>6, <1>8 DEF Hands, Active
<1>13. LedgerRight(q)'
  <2>1. mq'[q].used = mq[q].used
      BY <1>4 DEF sync
  <2>2. LedgerRight(q) /\ t \notin Hands(q)
      BY <1>10 DEF FifoOf, Hands
  <2>3. IsFiniteSet(Hands(q)) /\ Cardinality(Hands(q)) \in Nat /\ Cardinality(Posting(q)) \in Nat
      BY LedgerFinite
  <2>4. os.sem[q].count \in Int /\ Spare(os.sem[q].count) \in Int /\ r.sem[q].count \in Int /\ Spare(r.sem[q].count) \in Int
    <3>1. r \in KernelStates /\ os \in KernelStates /\ q \in Sems
        BY <1>1, <1>7, KernelSems DEF Sound, Loose
    <3>2. os.sem[q].count \in Int /\ r.sem[q].count \in Int
        BY <3>1 DEF KernelStates
    <3>3. QED
        BY <3>2 DEF Spare
  <2>5. CASE t \in Active(r) /\ r.rc[t] = 0 /\ Spare(os.sem[q].count) = Spare(r.sem[q].count) + 1
    <3>1. Hands(q)' = Hands(q) \union {t}
      <4>1. \A x \in Threads : x \in Hands(q)' <=> x \in Hands(q) \union {t}
          BY <1>12, <2>5
      <4>2. QED
          BY <4>1 DEF Hands, Active
    <3>2. Cardinality(Hands(q)') = Cardinality(Hands(q)) + 1
        BY <2>2, <2>3, <3>1, FS_AddElement
    <3>3. QED
        BY <1>4, <1>11, <2>1, <2>2, <2>3, <2>4, <2>5, <3>2 DEF LedgerRight
  <2>6. CASE ~(t \in Active(r) /\ r.rc[t] = 0) /\ Spare(os.sem[q].count) = Spare(r.sem[q].count)
    <3>1. Hands(q)' = Hands(q)
      <4>1. \A x \in Threads : x \in Hands(q)' <=> x \in Hands(q)
          BY <1>12, <2>2, <2>6
      <4>2. QED
          BY <4>1 DEF Hands, Active
    <3>2. QED
        BY <1>4, <1>11, <2>1, <2>2, <2>6, <3>1 DEF LedgerRight
  <2>7. QED
      BY <1>8, <2>5, <2>6
<1>14. ASSUME NEW x \in Threads
       PROVE  TakerRight(x, q)'
  <2>1. CASE x = t
      BY <1>4, <1>6, <1>8, <2>1 DEF TakerRight, Active
  <2>2. CASE x # t
    <3>1. TakerRight(x, q)
        BY <1>10 DEF FifoOf
    <3>2. todo'[x] = todo[x] /\ os'.wait[x] = os.wait[x] /\ (x \in Active(os') <=> x \in Active(os))
        BY <1>4, <1>6, <1>8, <2>2
    <3>3. QED
        BY <3>1, <3>2 DEF TakerRight
  <2>3. QED
      BY <2>1, <2>2
<1>15. FifoOf(q)'
    BY <1>4, <1>10, <1>13, <1>14 DEF FifoOf, sync
<1>16. FifoRight'
  <2>1. ASSUME NEW z \in Queues, z # q
        PROVE  /\ Beside(os', z) /\ mq'[z] = mq[z] /\ sent'[z] = sent[z] /\ got'[z] = got[z]
               /\ todo[t] # Take(z) /\ todo'[t] # Take(z) /\ ~Posts(todo[t], z) /\ ~Posts(todo'[t], z)
      BY <1>4, <1>5, <1>6, <1>9, <2>1, QueueLists DEF sync, Aloof, Unqueued
  <2>2. DOMAIN mq' = Queues /\ DOMAIN sent' = Queues /\ DOMAIN got' = Queues
      BY <1>4, <1>10 DEF FifoRight, sync
  <2>3. \A x \in Threads : x # t => todo'[x] = todo[x]
      BY <1>6
  <2>4. QED
      BY <1>10, <1>15, <2>1, <2>2, <2>3, OneQueue
<1>17. Entries(t, Take(q)) /\ Unowned(Take(q)) /\ Unowned(todo[t])
    BY <1>5, QueueLists DEF Entries, Aloof
<1>18. MemoryRight'
    BY <1>4, MemorySame
<1>19. QED
    BY <1>1, <1>4, <1>7, <1>16, <1>17, <1>18, AllSame, GoesOn

(* Whoever posts the semaphore of a queue leaves a message to be taken, or   *)
(* hands it to a thread that waits.                                          *)
LEMMA PostMoves ==
  ASSUME IInv, NEW q \in Queues
  PROVE  LET r == Post(os, q)
         IN  \/ /\ \A x \in Threads : /\ x \in Active(r) <=> x \in Active(os)
                                      /\ r.rc[x] = os.rc[x] /\ r.wait[x] = os.wait[x]
                /\ Spare(r.sem[q].count) = Spare(os.sem[q].count) + 1
             \/ \E x \in Threads :
                   /\ x \notin Active(os) /\ os.wait[x] = q
                   /\ x \in Active(r) /\ r.rc[x] = 0 /\ r.wait[x] = None
                   /\ \A y \in Threads : y # x => /\ y \in Active(r) <=> y \in Active(os)
                                                  /\ r.rc[y] = os.rc[y] /\ r.wait[y] = os.wait[y]
                   /\ Spare(r.sem[q].count) = Spare(os.sem[q].count)
<1> DEFINE r == Post(os, q)
<1>1. os \in KernelStates /\ q \in Sems /\ os.sem[q].count \in Int /\ Sound(os)
    BY KernelSems DEF IInv, Sound, Loose, KernelStates
<1>2. CASE os.sem[q].count >= 0
  <2>1. /\ Sound(r) /\ Swapped([os EXCEPT !.sem = r.sem], r) /\ r.cur = os.cur
        /\ \A z \in Sems : r.sem[z].count = IF z = q THEN os.sem[q].count + 1 ELSE os.sem[z].count
      BY <1>1, <1>2, PostCounts
  <2> HIDE DEF r
  <2>2. r.wait = os.wait /\ Active(r) = Active(os) /\ r.rc = os.rc
      BY <1>1, <2>1 DEF Swapped, KernelStates, Active
  <2>3. r.sem[q].count = os.sem[q].count + 1
      BY <1>1, <2>1
  <2>4. Spare(r.sem[q].count) = Spare(os.sem[q].count) + 1
      BY <1>1, <1>2, <2>3 DEF Spare
  <2>5. QED
      BY <2>2, <2>4 DEF r
<1>3. CASE os.sem[q].count < 0
  <2>1. \E x \in Threads : Woken(os, r, x, q, 0)
      BY <1>1, <1>3, PostWakes
  <2> HIDE DEF r
  <2>2. PICK x \in Threads : Woken(os, r, x, q, 0)
      BY <2>1
  <2>3. r.sem[q].count = os.sem[q].count + 1
      BY <1>1, <2>2 DEF Woken
  <2>4. Spare(r.sem[q].count) = Spare(os.sem[q].count)
      BY <1>1, <1>3, <2>3 DEF Spare
  <2>5. x \notin Active(os) /\ os.wait[x] = q /\ Active(r) = Active(os) \union {x}
      BY <2>2 DEF Woken, Active
  <2>6. \A y \in Threads : /\ r.wait[y] = IF y = x THEN None ELSE os.wait[y]
                           /\ r.rc[y] = IF y = x THEN 0 ELSE os.rc[y]
      BY <1>1, <2>2 DEF Woken, KernelStates
  <2>7. QED
      BY <2>4, <2>5, <2>6 DEF r
<1>4. QED
    BY <1>1, <1>2, <1>3

(* OS_MQueueSend from the semaphore on.                                      *)
LEMMA QueuePostKeeps ==
  ASSUME IInv, NEW t \in Threads, SemaphorePost(t), NEW q \in Queues,
         Posts(todo[t], q), Plain(Tail(todo[t]))
  PROVE  IInv'
<1> DEFINE r == Post(os, q)
           l == Tail(todo[t])
<1>1. /\ os.cur = t /\ t \in Threads \ {Idle} /\ ~os.inside /\ Sound(os) /\ t \in Active(os)
      /\ Now(t) = Head(todo[t])
    BY DoingAny DEF SemaphorePost
<1>2. Now(t).s = q
    BY <1>1 DEF Posts, PostOp
<1>3. /\ os' = r /\ todo' = [todo EXCEPT ![t] = l]
      /\ UNCHANGED <<time, memory, work, irq, irqs>> /\ UNCHANGED sync
    BY <1>2 DEF SemaphorePost, Done, load
<1>4. Sound(r) /\ MutexAside(r) /\ r.inside = os.inside
    BY KernelSems, PostMutex
<1>5. \A z \in Queues : z # q => Beside(r, z)
    BY KernelSems, PostBeside
<1>6. \/ /\ \A x \in Threads : /\ x \in Active(r) <=> x \in Active(os)
                               /\ r.rc[x] = os.rc[x] /\ r.wait[x] = os.wait[x]
         /\ Spare(r.sem[q].count) = Spare(os.sem[q].count) + 1
      \/ \E x \in Threads :
            /\ x \notin Active(os) /\ os.wait[x] = q
            /\ x \in Active(r) /\ r.rc[x] = 0 /\ r.wait[x] = None
            /\ \A y \in Threads : y # x => /\ y \in Active(r) <=> y \in Active(os)
                                           /\ r.rc[y] = os.rc[y] /\ r.wait[y] = os.wait[y]
            /\ Spare(r.sem[q].count) = Spare(os.sem[q].count)
    BY PostMoves
<1>7. Aloof(l) /\ Entries(t, l) /\ Unowned(todo[t])
    BY PlainEntries, QueueLists
<1>8. FifoRight /\ FifoOf(q) /\ todo[t] # Take(q) /\ l # Take(q) /\ ~Posts(l, q)
    BY <1>7, QueueLists DEF IInv, FifoRight, Aloof, Unqueued
<1> HIDE DEF r, l
<1>9. \A x \in Threads : todo'[x] = IF x = t THEN l ELSE todo[x]
    BY <1>3 DEF IInv, TodoRight
<1>10. Cardinality(Posting(q)') = Cardinality(Posting(q)) - 1 /\ Cardinality(Posting(q)) \in Nat
  <2>1. Posting(q)' = Posting(q) \ {t}
    <3>1. \A x \in Threads : x \in Posting(q)' <=> x \in Posting(q) \ {t}
        BY <1>8, <1>9 DEF Posting
    <3>2. QED
        BY <3>1 DEF Posting
  <2>2. t \in Posting(q) /\ IsFiniteSet(Posting(q)) /\ Cardinality(Posting(q)) \in Nat
      BY LedgerFinite DEF Posting
  <2>3. QED
      BY <2>1, <2>2, FS_RemoveElement
<1>11. os.sem[q].count \in Int /\ Spare(os.sem[q].count) \in Int
       /\ os.wait[t] = None /\ None # q
  <2>1. os \in KernelStates /\ q \in Sems /\ WaitsRight(os)
      BY <1>1, KernelSems DEF Sound, Loose
  <2>2. os.sem[q].count \in Int /\ os.wait[t] = None
      BY <1>1, <2>1 DEF KernelStates, WaitsRight, Active
  <2>3. QED
      BY <2>1, <2>2, KernelSems DEF Spare
<1>12. /\ LedgerRight(q) /\ mq'[q].used = mq[q].used /\ IsFiniteSet(Hands(q)) /\ Cardinality(Hands(q)) \in Nat
       /\ os' = r
    BY <1>3, <1>8, LedgerFinite DEF FifoOf, sync
<1>13. LedgerRight(q)' /\ \A x \in Threads : TakerRight(x, q)'
  <2>1. CASE /\ \A x \in Threads : /\ x \in Active(r) <=> x \in Active(os)
                                   /\ r.rc[x] = os.rc[x] /\ r.wait[x] = os.wait[x]
             /\ Spare(r.sem[q].count) = Spare(os.sem[q].count) + 1
    <3>1. Hands(q)' = Hands(q)
      <4>1. \A x \in Threads : x \in Hands(q)' <=> x \in Hands(q)
          BY <1>8, <1>9, <1>12, <2>1 DEF Hands, Active
      <4>2. QED
          BY <4>1 DEF Hands, Active
    <3>2. LedgerRight(q)'
        BY <1>10, <1>11, <1>12, <2>1, <3>1 DEF LedgerRight
    <3>3. \A x \in Threads : TakerRight(x, q)'
        BY <1>8, <1>9, <1>11, <1>12, <2>1 DEF TakerRight, FifoOf
    <3>4. QED
        BY <3>2, <3>3
  <2>2. CASE \E x \in Threads :
                /\ x \notin Active(os) /\ os.wait[x] = q
                /\ x \in Active(r) /\ r.rc[x] = 0 /\ r.wait[x] = None
                /\ \A y \in Threads : y # x => /\ y \in Active(r) <=> y \in Active(os)
                                               /\ r.rc[y] = os.rc[y] /\ r.wait[y] = os.wait[y]
                /\ Spare(r.sem[q].count) = Spare(os.sem[q].count)
    <3>1. PICK x \in Threads :
                /\ x \notin Active(os) /\ os.wait[x] = q
                /\ x \in Active(r) /\ r.rc[x] = 0 /\ r.wait[x] = None
                /\ \A y \in Threads : y # x => /\ y \in Active(r) <=> y \in Active(os)
                                               /\ r.rc[y] = os.rc[y] /\ r.wait[y] = os.wait[y]
                /\ Spare(r.sem[q].count) = Spare(os.sem[q].count)
        BY <2>2
    <3>2. x # t /\ todo[x] = Take(q) /\ todo'[x] = Take(q)
        BY <1>1, <1>8, <1>9, <3>1 DEF FifoOf, TakerRight
    <3>3. Hands(q)' = Hands(q) \union {x} /\ x \notin Hands(q)
      <4>1. \A y \in Threads : y \in Hands(q)' <=> y \in Hands(q) \union {x}
          BY <1>8, <1>9, <1>12, <3>1, <3>2 DEF Hands, Active
      <4>2. QED
          BY <3>1, <4>1 DEF Hands, Active
    <3>4. Cardinality(Hands(q)') = Cardinality(Hands(q)) + 1
        BY <1>12, <3>3, FS_AddElement
    <3>5. LedgerRight(q)'
        BY <1>10, <1>11, <1>12, <3>1, <3>4 DEF LedgerRight
    <3>6. \A y \in Threads : TakerRight(y, q)'
        BY <1>8, <1>9, <1>11, <1>12, <3>1, <3>2 DEF TakerRight, FifoOf
    <3>7. QED
        BY <3>5, <3>6
  <2>3. QED
      BY <1>6, <2>1, <2>2
<1>14. FifoOf(q)'
    BY <1>3, <1>8, <1>13 DEF FifoOf, sync
<1>15. FifoRight'
  <2>1. ASSUME NEW z \in Queues, z # q
        PROVE  /\ Beside(os', z) /\ mq'[z] = mq[z] /\ sent'[z] = sent[z] /\ got'[z] = got[z]
               /\ todo[t] # Take(z) /\ todo'[t] # Take(z) /\ ~Posts(todo[t], z) /\ ~Posts(todo'[t], z)
      BY <1>3, <1>5, <1>7, <1>9, <2>1, QueueLists DEF sync, Aloof, Unqueued
  <2>2. DOMAIN mq' = Queues /\ DOMAIN sent' = Queues /\ DOMAIN got' = Queues
      BY <1>3, <1>8 DEF FifoRight, sync
  <2>3. \A x \in Threads : x # t => todo'[x] = todo[x]
      BY <1>9
  <2>4. QED
      BY <1>8, <1>14, <2>1, <2>2, <2>3, OneQueue
<1>16. MemoryRight'
    BY <1>3, MemorySame
<1>17. QED
    BY <1>1, <1>3, <1>4, <1>7, <1>15, <1>16, AllSame, GoesOn DEF Aloof

(* Semaphores.                                                               *)
LEMMA SemaphorePendKeeps ==
  ASSUME IInv, NEW t \in Threads, SemaphorePend(t)
  PROVE  IInv'
<1>1. /\ os.cur = t /\ t \in Threads \ {Idle} /\ ~os.inside
      /\ Now(t) = Head(todo[t]) /\ Now(t).op = "pend" /\ todo[t] # <<>> /\ Entries(t, todo[t])
    BY DoingAny DEF SemaphorePend
<1>2. CASE Plain(todo[t])
  <2>1. PlainOp(Now(t)) /\ Plain(Tail(todo[t])) /\ Aloof(todo[t])
      BY <1>1, <1>2, PlainParts, PlainAloof
  <2>2. Now(t).s \in Bare /\ Now(t).ticks \in Int
      BY <1>1, <2>1 DEF PlainOp
  <2>3. /\ os' = Pend(os, Now(t).s, Now(t).ticks) /\ todo' = [todo EXCEPT ![t] = Tail(todo[t])]
        /\ UNCHANGED <<time, memory, work, irq, irqs>> /\ UNCHANGED sync
      BY DEF SemaphorePend, Done, load
  <2>4. Sound(os') /\ Aside(os') /\ os'.inside = os.inside
      BY <1>1, <2>1, <2>2, <2>3, PendAside
  <2>5. MemoryRight'
      BY <2>3, MemorySame
  <2>6. QED
      BY <1>1, <1>2, <2>1, <2>3, <2>4, <2>5, PlainGoesOn
<1>3. CASE \E q \in Queues, n \in Int : todo[t] = GetOps(q, n)
    BY <1>3, QueuePendKeeps
<1>4. QED
    BY <1>1, <1>2, <1>3, HeadOps

LEMMA SemaphorePostKeeps ==
  ASSUME IInv, NEW t \in Threads, SemaphorePost(t)
  PROVE  IInv'
<1>1. /\ os.cur = t /\ t \in Threads \ {Idle}
      /\ Now(t) = Head(todo[t]) /\ Now(t).op = "post" /\ todo[t] # <<>> /\ Entries(t, todo[t])
    BY DoingAny DEF SemaphorePost
<1>2. CASE Plain(todo[t])
  <2>1. PlainOp(Now(t)) /\ Plain(Tail(todo[t]))
      BY <1>1, <1>2, PlainParts
  <2>2. Now(t).s \in Bare
      BY <1>1, <2>1 DEF PlainOp
  <2>3. /\ os' = Post(os, Now(t).s) /\ todo' = [todo EXCEPT ![t] = Tail(todo[t])]
        /\ UNCHANGED <<time, memory, work, irq, irqs>> /\ UNCHANGED sync
      BY DEF SemaphorePost, Done, load
  <2>4. Sound(os') /\ Aside(os') /\ os'.inside = os.inside
      BY <2>2, <2>3, PostAside
  <2>5. MemoryRight'
      BY <2>3, MemorySame
  <2>6. QED
      BY <1>1, <1>2, <2>1, <2>3, <2>4, <2>5, PlainGoesOn
<1>3. CASE \E q \in Queues : Posts(todo[t], q) /\ Plain(Tail(todo[t]))
    BY <1>3, QueuePostKeeps
<1>4. QED
    BY <1>1, <1>2, <1>3, HeadOps

(* OS_MQueueSend: the message is in the buffer, and is to be posted.         *)
LEMMA QueuePutKeeps ==
  ASSUME IInv, NEW t \in Threads, MQueueSend(t), NEW q, q = Now(t).q, mq[q].used + 1 <= Capacity
  PROVE  IInv'
<1> DEFINE l == <<PostOp(q)>> \o Tail(todo[t])
<1>1. /\ Doing(t, "put") /\ "put" \in PlainNames
      /\ mq' = [mq EXCEPT ![q].used = @ + 1, ![q].ring[mq[q].write] = Now(t).v, ![q].write = Wrap(@)]
      /\ sent' = [sent EXCEPT ![q] = Append(@, Now(t).v)]
      /\ todo' = [todo EXCEPT ![t] = l]
      /\ UNCHANGED <<os, mutex, got, time, memory, work, irq, irqs>>
  <2>1. Now(t).q \in Queues
      BY DoingPlain DEF MQueueSend, PlainNames, PlainOp
  <2>2. mq[q].used \in Nat /\ Capacity \in Nat
      BY <2>1, RtosAssumption DEF IInv, FifoRight, FifoOf, RingHas
  <2>3. ~(mq[q].used + 1 > Capacity)
      BY <2>2
  <2>4. QED
      BY <2>3 DEF MQueueSend, Then, PlainNames, load
<1>2. /\ t \in Threads \ {Idle} /\ Plain(todo[t]) /\ Aloof(todo[t]) /\ Plain(Tail(todo[t]))
      /\ q \in Queues
    BY <1>1, DoingPlain DEF PlainOp
<1>3. Head(l) = PostOp(q) /\ Tail(l) = Tail(todo[t]) /\ l # <<>>
  <2>1. Tail(todo[t]) \in Seq(ToSet(Tail(todo[t])))
      BY <1>2 DEF Plain
  <2>2. QED
      BY <2>1
<1> HIDE DEF l
<1>4. Posts(l, q) /\ Entries(t, l) /\ Unowned(l)
  <2>1. l = <<PostOp(q)>> \o Tail(l)
      BY <1>3 DEF l
  <2>2. QED
      BY <1>2, <1>3, <2>1, QueueLists DEF Posts, Entries
<1>5. \A x \in Threads : todo'[x] = IF x = t THEN l ELSE todo[x]
    BY <1>1 DEF IInv, TodoRight
<1>6. Sound(os') /\ Aside(os') /\ os'.inside = os.inside
    BY <1>1, SameAside
<1>7. FifoRight /\ FifoOf(q) /\ todo[t] # Take(q) /\ ~Posts(todo[t], q) /\ l # Take(q)
    BY <1>2, <1>4, QueueLists DEF IInv, FifoRight, Aloof, Unqueued
<1>8. DOMAIN mq = Queues /\ DOMAIN sent = Queues /\ DOMAIN got = Queues
    BY <1>7 DEF FifoRight
<1>9. RingHas(mq[q], sent[q], got[q])
    BY <1>7 DEF FifoOf
<1>10. /\ DOMAIN mq'[q] = DOMAIN mq[q] /\ mq'[q].used = mq[q].used + 1 /\ mq'[q].read = mq[q].read
       /\ mq'[q].ring = [mq[q].ring EXCEPT ![mq[q].write] = Now(t).v] /\ mq'[q].write = Wrap(mq[q].write)
       /\ sent'[q] = Append(sent[q], Now(t).v) /\ got'[q] = got[q]
    BY <1>1, <1>2, <1>8, <1>9 DEF RingHas
<1>11. RingHas(mq'[q], sent'[q], got'[q])
    BY <1>9, <1>10, RingPut
<1>12. LedgerRight(q)'
  <2>1. Hands(q)' = Hands(q)
      BY <1>1, <1>5, <1>7 DEF Hands, Active
  <2>2. Posting(q)' = Posting(q) \union {t} /\ t \notin Posting(q)
    <3>1. \A x \in Threads : x \in Posting(q)' <=> x \in Posting(q) \union {t}
        BY <1>4, <1>5, <1>7 DEF Posting
    <3>2. QED
        BY <1>7, <3>1 DEF Posting
  <2>3. Cardinality(Posting(q)') = Cardinality(Posting(q)) + 1
      BY <2>2, LedgerFinite, FS_AddElement
  <2>4. Cardinality(Hands(q)) \in Nat /\ Cardinality(Posting(q)) \in Nat
      BY LedgerFinite
  <2>5. os.sem[q].count \in Int /\ os'.sem = os.sem
      BY <1>1, <1>2, KernelSems DEF IInv, Sound, Loose, KernelStates
  <2>6. Spare(os.sem[q].count) \in Int
      BY <2>5 DEF Spare
  <2>7. QED
      BY <1>7, <1>10, <2>1, <2>3, <2>4, <2>5, <2>6 DEF FifoOf, LedgerRight
<1>13. \A x \in Threads : TakerRight(x, q)'
    BY <1>1, <1>5, <1>7 DEF FifoOf, TakerRight
<1>14. FifoOf(q)'
    BY <1>11, <1>12, <1>13 DEF FifoOf
<1>15. FifoRight'
  <2>1. ASSUME NEW z \in Queues, z # q
        PROVE  /\ Beside(os', z) /\ mq'[z] = mq[z] /\ sent'[z] = sent[z] /\ got'[z] = got[z]
               /\ todo[t] # Take(z) /\ todo'[t] # Take(z) /\ ~Posts(todo[t], z) /\ ~Posts(todo'[t], z)
    <3>1. mq'[z] = mq[z] /\ sent'[z] = sent[z] /\ got'[z] = got[z]
        BY <1>1, <1>8, <2>1
    <3>2. todo[t] # Take(z) /\ ~Posts(todo[t], z) /\ todo'[t] = l
        BY <1>2, <1>5 DEF Aloof, Unqueued
    <3>3. l # Take(z) /\ ~Posts(l, z)
        BY <1>2, <1>4, <2>1, QueueLists
    <3>4. QED
        BY <1>6, <3>1, <3>2, <3>3 DEF Aside
  <2>2. DOMAIN mq' = Queues /\ DOMAIN sent' = Queues /\ DOMAIN got' = Queues
      BY <1>1, <1>8
  <2>3. \A x \in Threads : x # t => todo'[x] = todo[x]
      BY <1>5
  <2>4. QED
      BY <1>2, <1>7, <1>14, <2>1, <2>2, <2>3, OneQueue
<1>16. MemoryRight' /\ OwnersSame
    BY <1>1, MemorySame DEF IInv, MutexRight, OwnersSame
<1>17. QED
    BY <1>1, <1>2, <1>4, <1>6, <1>15, <1>16, GoesOn DEF Aloof, Aside

(* OS_MQueueGet from the buffer on: with the semaphore there is a message.   *)
LEMMA QueueTakeKeeps ==
  ASSUME IInv, NEW t \in Threads, MQueueGet(t)
  PROVE  IInv'
<1>1. /\ os.cur = t /\ t \in Threads \ {Idle} /\ t \in Active(os)
      /\ Now(t) = Head(todo[t]) /\ Now(t).op = "take" /\ todo[t] # <<>> /\ Entries(t, todo[t])
    BY DoingAny DEF MQueueGet
<1>2. PICK q \in Queues : todo[t] = Take(q)
    BY <1>1, HeadOps
<1>3. Now(t).q = q /\ Tail(todo[t]) = <<>>
    BY <1>1, <1>2 DEF Take
<1>4. /\ todo' = [todo EXCEPT ![t] = <<>>]
      /\ UNCHANGED <<os, mutex, sent, time, memory, work, irq, irqs>>
      /\ IF os.rc[t] = 0
         THEN /\ mq' = [mq EXCEPT ![q].used = @ - 1, ![q].read = Wrap(@)]
              /\ got' = [got EXCEPT ![q] = Append(@, mq[q].ring[mq[q].read])]
         ELSE UNCHANGED <<mq, got>>
    BY <1>3 DEF MQueueGet, Done, load
<1>5. Entries(t, <<>>) /\ Aloof(<<>>) /\ Unowned(todo[t])
    BY <1>2, PlainEmpty, PlainEntries, QueueLists
<1>6. \A x \in Threads : todo'[x] = IF x = t THEN <<>> ELSE todo[x]
    BY <1>4 DEF IInv, TodoRight
<1>7. Sound(os') /\ Aside(os') /\ os'.inside = os.inside
    BY <1>4, SameAside
<1>8. /\ FifoRight /\ FifoOf(q) /\ <<>> # Take(q) /\ ~Posts(<<>>, q) /\ ~Posts(todo[t], q)
      /\ DOMAIN mq = Queues /\ DOMAIN sent = Queues /\ DOMAIN got = Queues
    BY <1>2, <1>5, QueueLists DEF IInv, FifoRight, Aloof, Unqueued
<1>9. Posting(q)' = Posting(q)
    BY <1>6, <1>8 DEF Posting
<1>10. os.sem[q].count \in Int /\ os.wait[t] = None /\ None # q
  <2>1. os \in KernelStates /\ q \in Sems /\ WaitsRight(os)
      BY KernelSems DEF IInv, Sound, Loose
  <2>2. QED
      BY <1>1, <2>1, KernelSems DEF KernelStates, WaitsRight, Active
<1>11. /\ LedgerRight(q) /\ IsFiniteSet(Hands(q)) /\ Cardinality(Hands(q)) \in Nat
       /\ Cardinality(Posting(q)) \in Nat /\ Spare(os.sem[q].count) \in Nat
    BY <1>8, <1>10, LedgerFinite DEF FifoOf, Spare
<1>12. \A x \in Threads : TakerRight(x, q)'
    BY <1>4, <1>6, <1>8, <1>10 DEF FifoOf, TakerRight
<1>13. ASSUME os.rc[t] = 0
       PROVE  /\ FifoOf(q)' /\ DOMAIN mq' = Queues /\ DOMAIN got' = Queues
              /\ \A z \in Queues : z # q => mq'[z] = mq[z] /\ got'[z] = got[z]
  <2>1. t \in Hands(q)
      BY <1>1, <1>2, <1>13 DEF Hands
  <2>2. Hands(q)' = Hands(q) \ {t}
    <3>1. \A x \in Threads : x \in Hands(q)' <=> x \in Hands(q) \ {t}
        BY <1>4, <1>6, <1>8 DEF Hands, Active
    <3>2. QED
        BY <3>1 DEF Hands, Active
  <2>3. Cardinality(Hands(q)') = Cardinality(Hands(q)) - 1 /\ Cardinality(Hands(q)) # 0
      BY <1>11, <2>1, <2>2, FS_RemoveElement, FS_EmptySet
  <2>4. RingHas(mq[q], sent[q], got[q])
      BY <1>8 DEF FifoOf
  <2>5. mq[q].used > 0
      BY <1>11, <2>3 DEF LedgerRight
  <2>6. /\ DOMAIN mq'[q] = DOMAIN mq[q] /\ mq'[q].used = mq[q].used - 1 /\ mq'[q].read = Wrap(mq[q].read)
        /\ mq'[q].ring = mq[q].ring /\ mq'[q].write = mq[q].write
        /\ sent'[q] = sent[q] /\ got'[q] = Append(got[q], mq[q].ring[mq[q].read])
      BY <1>4, <1>8, <1>13, <2>4 DEF RingHas
  <2>7. RingHas(mq'[q], sent'[q], got'[q])
      BY <2>4, <2>5, <2>6, RingTake
  <2>8. LedgerRight(q)'
    <3>1. os'.sem = os.sem
        BY <1>4
    <3>2. QED
        BY <1>9, <1>11, <2>3, <2>6, <3>1 DEF LedgerRight
  <2>9. FifoOf(q)'
      BY <1>12, <2>7, <2>8 DEF FifoOf
  <2>10. \A z \in Queues : z # q => mq'[z] = mq[z] /\ got'[z] = got[z]
      BY <1>4, <1>8, <1>13
  <2>11. DOMAIN mq' = Queues /\ DOMAIN got' = Queues
      BY <1>4, <1>8, <1>13
  <2>12. QED
      BY <2>9, <2>10, <2>11
<1>14. ASSUME os.rc[t] # 0
       PROVE  /\ FifoOf(q)' /\ DOMAIN mq' = Queues /\ DOMAIN got' = Queues
              /\ \A z \in Queues : z # q => mq'[z] = mq[z] /\ got'[z] = got[z]
  <2>1. mq' = mq /\ got' = got /\ sent' = sent
      BY <1>4, <1>14
  <2>2. Hands(q)' = Hands(q)
      BY <1>4, <1>6, <1>8, <1>14 DEF Hands, Active
  <2>3. LedgerRight(q)'
      BY <1>4, <1>9, <1>11, <2>1, <2>2 DEF LedgerRight
  <2>4. QED
      BY <1>8, <1>12, <2>1, <2>3 DEF FifoOf
<1>15. /\ FifoOf(q)' /\ DOMAIN mq' = Queues /\ DOMAIN got' = Queues
       /\ \A z \in Queues : z # q => mq'[z] = mq[z] /\ got'[z] = got[z]
    BY <1>13, <1>14
<1>16. FifoRight'
  <2>1. ASSUME NEW z \in Queues, z # q
        PROVE  /\ Beside(os', z) /\ mq'[z] = mq[z] /\ sent'[z] = sent[z] /\ got'[z] = got[z]
               /\ todo[t] # Take(z) /\ todo'[t] # Take(z) /\ ~Posts(todo[t], z) /\ ~Posts(todo'[t], z)
    <3>1. mq'[z] = mq[z] /\ sent'[z] = sent[z] /\ got'[z] = got[z] /\ Beside(os', z)
        BY <1>4, <1>7, <1>15, <2>1 DEF Aside
    <3>2. todo'[t] # Take(z) /\ ~Posts(todo'[t], z)
        BY <1>5, <1>6 DEF Aloof, Unqueued
    <3>3. todo[t] # Take(z) /\ ~Posts(todo[t], z)
        BY <1>2, <2>1, QueueLists
    <3>4. QED
        BY <3>1, <3>2, <3>3
  <2>2. DOMAIN mq' = Queues /\ DOMAIN sent' = Queues /\ DOMAIN got' = Queues
      BY <1>4, <1>8, <1>15
  <2>3. \A x \in Threads : x # t => todo'[x] = todo[x]
      BY <1>6
  <2>4. QED
      BY <1>8, <1>15, <2>1, <2>2, <2>3, OneQueue
<1>17. MemoryRight' /\ OwnersSame
    BY <1>4, MemorySame DEF IInv, MutexRight, OwnersSame
<1>18. QED
    BY <1>1, <1>4, <1>5, <1>7, <1>16, <1>17, GoesOn DEF Aloof, Aside

(* Message queues and jobs.                                                  *)
LEMMA QueuesKeep ==
  ASSUME IInv, NEW t \in Threads,
         MQueueSend(t) \/ MQueueGet(t) \/ NeedJobQueue(t) \/ MakeJobQueue(t)
  PROVE  IInv'
<1>1. CASE MQueueSend(t) /\ ~(mq[Now(t).q].used + 1 > Capacity)
  <2>1. Now(t).q \in Queues /\ FifoRight
      BY <1>1, DoingPlain DEF MQueueSend, PlainNames, PlainOp, IInv
  <2>2. mq[Now(t).q].used \in Nat /\ Capacity \in Nat
      BY <2>1, RtosAssumption DEF FifoRight, FifoOf, RingHas
  <2>3. mq[Now(t).q].used + 1 <= Capacity
      BY <1>1, <2>2
  <2>4. QED
      BY <1>1, <2>3, QueuePutKeeps
<1>2. CASE MQueueGet(t)
    BY <1>2, QueueTakeKeeps
<1>3. CASE (MQueueSend(t) /\ mq[Now(t).q].used + 1 > Capacity) \/ NeedJobQueue(t) \/ MakeJobQueue(t)
  <2>1. UNCHANGED <<os, timers, timerList, loc, memory, work, irq, irqs>> /\ UNCHANGED sync
      BY <1>3 DEF MQueueSend, NeedJobQueue, MakeJobQueue, sync, time, load
  <2>2. MemoryRight'
      BY <2>1 DEF IInv, MemoryRight, memory
  <2>3. Sound(os') /\ Aside(os') /\ os'.inside = os.inside
      BY <2>1, SameAside
  <2>4. CASE MQueueSend(t) /\ mq[Now(t).q].used + 1 > Capacity
    <3>1. Doing(t, "put") /\ Done(t) /\ "put" \in PlainNames
        BY <2>4 DEF MQueueSend, PlainNames
    <3>2. QED
        BY <2>1, <2>2, <2>3, <3>1, DoneKeeps
  <2>5. CASE NeedJobQueue(t)
    <3>1. /\ Doing(t, "needQueue") /\ "needQueue" \in PlainNames
          /\ Done(t) \/ Then(t, Locked("lock", <<[op |-> "makeQueue"]>>))
        BY <2>5 DEF NeedJobQueue, PlainNames
    <3>2. PlainOp([op |-> "makeQueue"])
        BY DEF PlainOp
    <3>3. Plain(Locked("lock", <<[op |-> "makeQueue"]>>))
        BY <3>2, PlainOne, PlainLocked, KernelSems
    <3>4. QED
        BY <2>1, <2>2, <2>3, <3>1, <3>3, DoneKeeps, ThenKeeps
  <2>6. CASE MakeJobQueue(t)
    <3>1. /\ Doing(t, "makeQueue") /\ "makeQueue" \in PlainNames
          /\ Done(t) \/ Then(t, CreateOps(JobThread))
        BY <2>6 DEF MakeJobQueue, PlainNames
    <3>2. Plain(CreateOps(JobThread))
        BY PlainCreate, RtosAssumption
    <3>3. QED
        BY <2>1, <2>2, <2>3, <3>1, <3>2, DoneKeeps, ThenKeeps
  <2>7. QED
      BY <1>3, <2>4, <2>5, <2>6
<1>4. QED
    BY <1>1, <1>2, <1>3

(* What the lists of timers and the tick counter need.                       *)
LEMMA UnlinkType ==
  ASSUME NEW T, NEW q \in Seq(T), NEW x
  PROVE  Unlink(q, x) \in Seq(T)
<1>1. CASE x \notin ToSet(q)
    BY <1>1 DEF Unlink
<1>2. CASE x \in ToSet(q)
  <2> DEFINE k == CHOOSE i \in DOMAIN q : q[i] = x
  <2>1. DOMAIN q = 1 .. Len(q) /\ k \in 1 .. Len(q)
      BY <1>2, LenProperties DEF ToSet
  <2>2. Unlink(q, x) = RemoveAt(q, k)
      BY <1>2 DEF Unlink
  <2> HIDE DEF k
  <2>3. QED
      BY <2>1, <2>2, RemoveElements
<1>3. QED
    BY <1>1, <1>2

LEMMA TimeoutInsertType ==
  ASSUME NEW T, NEW q \in Seq(T), NEW x \in T, NEW due
  PROVE  TimeoutInsert(q, x, due) \in Seq(T)
BY TimeoutPlace, InsertElements

LEMMA DiffType ==
  ASSUME NEW a \in Int, NEW b \in Int
  PROVE  Diff(a, b) \in Int
<1>1. TimeMod \in Nat /\ TimeMod > 1 /\ a - b \in Int
    BY KernelAssumption
<1>2. (a - b) % TimeMod \in Int
    BY <1>1
<1>3. QED
    BY <1>1, <1>2 DEF Diff

(* Timers.                                                                   *)
LEMMA TimersKeep ==
  ASSUME IInv, NEW t \in Threads,
         \/ TimerAim(t) \/ TimerStart(t) \/ TimerStop(t) \/ NeedTimerThread(t) \/ TimerCreate(t)
         \/ HowLong(t) \/ Nap(t) \/ Stamp(t) \/ TimerPick(t) \/ TimerFire(t)
  PROVE  IInv'
<1>1. UNCHANGED <<os, memory, work, irq, irqs>> /\ UNCHANGED sync
    BY DEF TimerAim, TimerStart, TimerStop, NeedTimerThread, TimerCreate, HowLong, Nap, Stamp,
           TimerPick, TimerFire, load
<1>2. /\ UNCHANGED <<block, held, ptr, needToFree, work, irq, irqs>> /\ UNCHANGED sync
      /\ MemoryRight /\ None \notin Timers
    BY <1>1, RtosAssumption DEF memory, IInv
<1>3. Sound(os') /\ Aside(os') /\ os'.inside = os.inside
    BY <1>1, SameAside
<1>4. ASSUME UNCHANGED <<timers, timerList, loc>>
      PROVE  MemoryRight'
    BY <1>2, <1>4 DEF MemoryRight
<1>5. CASE TimerAim(t)
  <2> DEFINE x    == Now(t).x
             stop == IF timers[x].active THEN StopOps(x) ELSE <<>>
             arm  == [op |-> "arm", x |-> x, due |-> Later(os.now, Now(t).ticks), restart |-> Now(t).restart]
             ops  == stop \o <<PendOp("lock", WaitForever), arm>>
  <2>1. Doing(t, "aim") /\ Then(t, ops) /\ "aim" \in PlainNames /\ UNCHANGED <<timers, timerList, loc>>
      BY <1>5 DEF TimerAim, PlainNames, time
  <2>2. x \in Timers /\ Now(t).ticks \in Int /\ Now(t).restart \in Int
      BY <2>1, DoingPlain DEF PlainOp
  <2>3. os.now \in Int
      BY KernelAssumption DEF IInv, Sound, Loose, KernelStates, Tick
  <2>4. PlainOp(arm) /\ PlainOp(PendOp("lock", WaitForever))
      BY <2>2, <2>3, LaterType, PlainPend, KernelSems DEF PlainOp, WaitForever
  <2>5. Plain(stop)
      BY <2>2, PlainStop, PlainEmpty
  <2>6. Plain(<<PendOp("lock", WaitForever), arm>>)
      BY <2>4, PlainTwo
  <2> HIDE DEF stop, arm
  <2>7. Plain(ops)
      BY <2>5, <2>6, PlainConcat
  <2> HIDE DEF ops
  <2>8. QED
      BY <1>2, <1>3, <1>4, <2>1, <2>7, ThenKeeps
<1>6. CASE TimerStart(t)
  <2> DEFINE x == Now(t).x
  <2>1. Doing(t, "arm") /\ "arm" \in PlainNames
      BY <1>6 DEF TimerStart, PlainNames
  <2>2. x \in Timers /\ Now(t).due \in Tick /\ Now(t).restart \in Int
      BY <2>1, DoingPlain DEF PlainOp
  <2>3. Plain(<<PostOp("lock"), PostOp("timer")>>) /\ Plain(<<PostOp("lock")>>)
      BY PlainPost, PlainOne, PlainTwo, KernelSems
  <2>4. \E ops : Plain(ops) /\ Then(t, ops)
      BY <1>6, <2>3 DEF TimerStart
  <2>5. MemoryRight'
    <3>1. CASE UNCHANGED <<timers, timerList>>
        BY <1>4, <1>6, <3>1 DEF TimerStart
    <3>2. CASE TimerArm(x, Now(t).due, Now(t).restart)
      <4>1. timerList' \in Seq(Timers)
          BY <1>2, <2>2, <3>2, TimeoutInsertType DEF TimerArm, MemoryRight
      <4>2. /\ DOMAIN timers' = Timers
            /\ \A y \in Timers : /\ DOMAIN timers'[y] = {"mem", "active", "due", "restart"}
                                 /\ timers'[y].mem.heap \in Heaps
                                 /\ timers'[y].due \in Tick /\ timers'[y].restart \in Int
          BY <1>2, <2>2, <3>2 DEF TimerArm, MemoryRight
      <4>3. loc' = loc
          BY <1>6 DEF TimerStart
      <4>4. QED
          BY <1>2, <4>1, <4>2, <4>3 DEF MemoryRight
    <3>3. QED
        BY <1>6, <3>1, <3>2 DEF TimerStart
  <2>6. QED
      BY <1>2, <1>3, <2>1, <2>4, <2>5, ThenKeeps
<1>7. CASE TimerStop(t)
  <2> DEFINE x == Now(t).x
  <2>1. Doing(t, "disarm") /\ "disarm" \in PlainNames /\ Done(t)
      BY <1>7 DEF TimerStop, PlainNames
  <2>2. x \in Timers
      BY <2>1, DoingPlain DEF PlainOp
  <2>3. /\ loc' = loc
        /\ \/ UNCHANGED <<timers, timerList>>
           \/ timers' = [timers EXCEPT ![x].active = FALSE] /\ timerList' = Unlink(timerList, x)
      BY <1>7 DEF TimerStop
  <2>4. MemoryRight'
    <3>1. timerList' \in Seq(Timers)
        BY <1>2, <2>3, UnlinkType DEF MemoryRight
    <3>2. /\ DOMAIN timers' = Timers
          /\ \A y \in Timers : /\ DOMAIN timers'[y] = {"mem", "active", "due", "restart"}
                               /\ timers'[y].mem.heap \in Heaps
                               /\ timers'[y].due \in Tick /\ timers'[y].restart \in Int
        BY <1>2, <2>2, <2>3, ZenonT(30) DEF MemoryRight
    <3>3. QED
        BY <1>2, <2>3, <3>1, <3>2 DEF MemoryRight
  <2>5. QED
      BY <1>2, <1>3, <2>1, <2>4, DoneKeeps
<1>8. CASE NeedTimerThread(t)
  <2>1. /\ Doing(t, "needThread") /\ "needThread" \in PlainNames /\ UNCHANGED <<timers, timerList>>
        /\ loc' = [loc EXCEPT !.made = TRUE]
        /\ Done(t) \/ Then(t, CreateOps(TimerThread))
      BY <1>8 DEF NeedTimerThread, PlainNames
  <2>2. Plain(CreateOps(TimerThread))
      BY PlainCreate, RtosAssumption
  <2>3. loc' \in [now : Tick, ticks : Int, timer : Timers \union {None}, made : BOOLEAN]
      BY <1>2, <2>1 DEF MemoryRight
  <2>4. MemoryRight'
      BY <1>2, <2>1, <2>3 DEF MemoryRight
  <2>5. QED
      BY <1>2, <1>3, <2>1, <2>2, <2>4, DoneKeeps, ThenKeeps
<1>9. CASE TimerCreate(t)
  <2> DEFINE new == [mem |-> ptr[t], active |-> FALSE, due |-> 0, restart |-> 0]
  <2>1. /\ Doing(t, "newTimer") /\ "newTimer" \in PlainNames /\ Done(t) /\ UNCHANGED <<timerList, loc>>
        /\ timers' = timers \/ timers' = [timers EXCEPT ![Now(t).x] = new]
      BY <1>9 DEF TimerCreate, PlainNames
  <2>2. /\ DOMAIN new = {"mem", "active", "due", "restart"} /\ new.mem.heap \in Heaps
        /\ new.due \in Tick /\ new.restart \in Int
      BY <1>2, KernelAssumption DEF MemoryRight, Tick
  <2>3. Now(t).x \in Timers
      BY <2>1, DoingPlain DEF PlainOp
  <2> HIDE DEF new
  <2>4. MemoryRight'
      BY <1>2, <2>1, <2>2, <2>3 DEF MemoryRight
  <2>5. QED
      BY <1>2, <1>3, <2>1, <2>4, DoneKeeps
<1>10. CASE HowLong(t)
  <2>1. /\ Doing(t, "howLong") /\ "howLong" \in PlainNames /\ Done(t) /\ UNCHANGED <<timers, timerList>>
      BY <1>10 DEF HowLong, PlainNames
  <2> DEFINE n == IF timerList = <<>> THEN WaitForever ELSE Diff(timers[Head(timerList)].due, loc.now)
  <2>2. loc' = [loc EXCEPT !.ticks = n]
      BY <1>10 DEF HowLong
  <2>3. n \in Int
    <3>1. CASE timerList = <<>>
        BY <3>1 DEF WaitForever
    <3>2. CASE timerList # <<>>
      <4>1. Head(timerList) \in Timers
          BY <1>2, <3>2, HeadTailProperties DEF MemoryRight
      <4>2. timers[Head(timerList)].due \in Int /\ loc.now \in Int
          BY <1>2, <4>1, KernelAssumption DEF MemoryRight, Tick
      <4>3. QED
          BY <3>2, <4>2, DiffType
    <3>3. QED
        BY <3>1, <3>2
  <2> HIDE DEF n
  <2>4. loc' \in [now : Tick, ticks : Int, timer : Timers \union {None}, made : BOOLEAN]
      BY <1>2, <2>2, <2>3 DEF MemoryRight
  <2>5. MemoryRight'
      BY <1>2, <2>1, <2>4 DEF MemoryRight
  <2>6. QED
      BY <1>2, <1>3, <2>1, <2>5, DoneKeeps
<1>11. CASE Nap(t)
  <2>1. /\ Doing(t, "nap") /\ "nap" \in PlainNames /\ UNCHANGED <<timers, timerList, loc>>
        /\ Then(t, <<PendOp("timer", loc.ticks)>>)
      BY <1>11 DEF Nap, PlainNames, time
  <2>2. loc.ticks \in Int
      BY <1>2 DEF MemoryRight
  <2>3. Plain(<<PendOp("timer", loc.ticks)>>)
      BY <2>2, PlainPend, PlainOne, KernelSems
  <2>4. QED
      BY <1>2, <1>3, <1>4, <2>1, <2>3, ThenKeeps
<1>12. CASE Stamp(t)
  <2>1. /\ Doing(t, "stamp") /\ "stamp" \in PlainNames /\ Done(t) /\ UNCHANGED <<timers, timerList>>
        /\ loc' = [loc EXCEPT !.now = os.now]
      BY <1>12 DEF Stamp, PlainNames
  <2>2. os.now \in Tick
      BY DEF IInv, Sound, Loose, KernelStates
  <2>3. loc' \in [now : Tick, ticks : Int, timer : Timers \union {None}, made : BOOLEAN]
      BY <1>2, <2>1, <2>2 DEF MemoryRight
  <2>4. MemoryRight'
      BY <1>2, <2>1, <2>3 DEF MemoryRight
  <2>5. QED
      BY <1>2, <1>3, <2>1, <2>4, DoneKeeps
<1>13. CASE TimerPick(t)
  <2>1. /\ Doing(t, "pick") /\ "pick" \in PlainNames /\ Done(t) /\ UNCHANGED <<timers, timerList>>
        /\ \/ loc' = [loc EXCEPT !.timer = None]
           \/ timerList # <<>> /\ loc' = [loc EXCEPT !.timer = Head(timerList)]
      BY <1>13 DEF TimerPick, PlainNames
  <2>2. timerList # <<>> => Head(timerList) \in Timers
      BY <1>2, HeadTailProperties DEF MemoryRight
  <2>3. loc' \in [now : Tick, ticks : Int, timer : Timers \union {None}, made : BOOLEAN]
      BY <1>2, <2>1, <2>2 DEF MemoryRight
  <2>4. MemoryRight'
      BY <1>2, <2>1, <2>3 DEF MemoryRight
  <2>5. QED
      BY <1>2, <1>3, <2>1, <2>4, DoneKeeps
<1>14. CASE TimerFire(t)
  <2> DEFINE x   == loc.timer
             r   == timers[x].restart
             again == IF r > 0 THEN StartOps(x, r, r) ELSE StopOps(x)
             ops == again \o SendOps(TimerQueue, x) \o ScanOps
  <2>1. Doing(t, "fire") /\ "fire" \in PlainNames /\ UNCHANGED <<timers, timerList, loc>>
      BY <1>14 DEF TimerFire, PlainNames, time
  <2>2. CASE x = None
    <3>1. Done(t)
        BY <1>14, <2>2 DEF TimerFire
    <3>2. QED
        BY <1>2, <1>3, <1>4, <2>1, <3>1, DoneKeeps
  <2>3. CASE x # None
    <3>1. Then(t, ops)
        BY <1>14, <2>3 DEF TimerFire
    <3>2. x \in Timers /\ r \in Int
        BY <1>2, <2>3 DEF MemoryRight
    <3>3. Plain(again)
        BY <3>2, PlainStart, PlainStop
    <3>4. Plain(SendOps(TimerQueue, x))
        BY PlainSend, RtosAssumption
    <3> HIDE DEF again
    <3>5. Plain(ops)
        BY <3>3, <3>4, PlainScan, PlainConcat
    <3> HIDE DEF ops
    <3>6. QED
        BY <1>2, <1>3, <1>4, <2>1, <3>1, <3>5, ThenKeeps
  <2>4. QED
      BY <2>2, <2>3
<1>15. QED
    BY <1>5, <1>6, <1>7, <1>8, <1>9, <1>10, <1>11, <1>12, <1>13, <1>14

(* The heap and the life of threads.                                         *)
LEMMA MemoryKeeps ==
  ASSUME IInv, NEW t \in Threads,
         \/ HeapMalloc(t) \/ HeapFree(t) \/ KeepBlock(t) \/ GiveBack(t)
         \/ ThreadCreate(t) \/ TestFree(t) \/ ClearFree(t) \/ ThreadExit(t)
  PROVE  IInv'
<1>1. UNCHANGED <<timerList, loc, work, irq, irqs>> /\ UNCHANGED sync
    BY DEF HeapMalloc, HeapFree, KeepBlock, GiveBack, ThreadCreate, TestFree, ClearFree, ThreadExit,
           time, load
<1>2. /\ UNCHANGED sync /\ UNCHANGED <<work, irq, irqs>> /\ MemoryRight /\ MutexRight
      /\ UNCHANGED <<timerList, loc>>
    BY <1>1 DEF IInv
<1>3. os' = os => Sound(os') /\ Aside(os') /\ os'.inside = os.inside
    BY SameAside
<1>4. CASE HeapMalloc(t)
  <2> DEFINE h == Now(t).h
             n == Now(t).n
             r == Malloc(heap[h], n)
             ops == IF r.block = 0 /\ Alternate[h] # None THEN MallocOps(Alternate[h], n) ELSE <<>>
             p == [heap |-> h, addr |-> r.block]
  <2>1. /\ Doing(t, "carve") /\ "carve" \in PlainNames /\ Then(t, <<PostOp(h)>> \o ops) /\ os' = os
        /\ ptr' = [ptr EXCEPT ![t] = p] /\ UNCHANGED <<timers, block, held, needToFree>>
      BY <1>4 DEF HeapMalloc, PlainNames, time
  <2>2. h \in Heaps
      BY <2>1, DoingPlain DEF PlainOp
  <2>3. Plain(ops)
      BY <2>2, PlainMalloc, PlainEmpty, RtosAssumption
  <2>4. Plain(<<PostOp(h)>>)
      BY <2>2, PlainPost, PlainOne, KernelSems
  <2>5. p.heap \in Heaps
      BY <2>2
  <2> HIDE DEF ops, p
  <2>6. MemoryRight'
      BY <1>2, <2>1, <2>5 DEF MemoryRight
  <2>7. Plain(<<PostOp(h)>> \o ops)
      BY <2>3, <2>4, PlainConcat
  <2>8. QED
      BY <1>2, <1>3, <2>1, <2>6, <2>7, ThenKeeps
<1>5. CASE HeapFree(t)
  <2> DEFINE b == Now(t).b
  <2>1. /\ Doing(t, "release") /\ "release" \in PlainNames /\ Done(t) /\ os' = os
        /\ UNCHANGED <<held, ptr, needToFree>>
        /\ block' = [x \in Threads |-> IF block[x] = b THEN NULL ELSE block[x]]
        /\ timers' = [x \in Timers |-> IF timers[x].mem = b THEN [timers[x] EXCEPT !.mem = NULL]
                                       ELSE timers[x]]
      BY <1>5 DEF HeapFree, PlainNames
  <2>2. NULL.heap \in Heaps
      BY RtosAssumption DEF NULL
  <2>3. /\ DOMAIN timers' = Timers
        /\ \A y \in Timers : /\ DOMAIN timers'[y] = {"mem", "active", "due", "restart"}
                             /\ timers'[y].mem.heap \in Heaps
                             /\ timers'[y].due \in Tick /\ timers'[y].restart \in Int
      BY <1>2, <2>1, <2>2 DEF MemoryRight
  <2>4. DOMAIN block' = Threads /\ \A x \in Threads : block'[x].heap \in Heaps
      BY <1>2, <2>1, <2>2 DEF MemoryRight
  <2>5. MemoryRight'
      BY <1>2, <2>1, <2>3, <2>4 DEF MemoryRight
  <2>6. QED
      BY <1>2, <1>3, <2>1, <2>5, DoneKeeps
<1>6. CASE KeepBlock(t)
  <2>1. /\ Doing(t, "keep") /\ "keep" \in PlainNames /\ Done(t) /\ os' = os
        /\ UNCHANGED <<timers, block, ptr, needToFree>>
        /\ held' = held \/ held' = [held EXCEPT ![t] = @ \union {ptr[t]}]
      BY <1>6 DEF KeepBlock, PlainNames, time
  <2>2. DOMAIN held' = Threads /\ \A x \in Threads : \A b \in held'[x] : b.heap \in Heaps
      BY <1>2, <2>1 DEF MemoryRight
  <2>3. MemoryRight'
      BY <1>2, <2>1, <2>2 DEF MemoryRight
  <2>4. QED
      BY <1>2, <1>3, <2>1, <2>3, DoneKeeps
<1>7. CASE GiveBack(t)
  <2>1. PICK b \in held[t] : held' = [held EXCEPT ![t] = @ \ {b}] /\ Then(t, FreeOps(b))
      BY <1>7 DEF GiveBack
  <2>2. /\ Doing(t, "giveBack") /\ "giveBack" \in PlainNames /\ os' = os
        /\ UNCHANGED <<timers, block, ptr, needToFree>>
      BY <1>7 DEF GiveBack, PlainNames, time
  <2>3. DOMAIN held' = Threads /\ \A x \in Threads : \A c \in held'[x] : c.heap \in Heaps
      BY <1>2, <2>1 DEF MemoryRight
  <2>4. Plain(FreeOps(b))
      BY <1>2, <2>1, PlainFree DEF MemoryRight
  <2>5. MemoryRight'
      BY <1>2, <2>2, <2>3 DEF MemoryRight
  <2>6. QED
      BY <1>2, <1>3, <2>1, <2>2, <2>4, <2>5, ThenKeeps
<1>8. CASE ThreadCreate(t)
  <2> DEFINE x == Now(t).x
  <2>1. /\ Doing(t, "spawn") /\ "spawn" \in PlainNames /\ Done(t) /\ os.state[x] = "none"
        /\ UNCHANGED <<timers, held, ptr, needToFree>>
        /\ \/ UNCHANGED <<os, block>>
           \/ block' = [block EXCEPT ![x] = ptr[t]] /\ os' = StartThread(os, x, work.prio[x])
      BY <1>8 DEF ThreadCreate, PlainNames, time
  <2>2. x \in Threads /\ Sound(os)
      BY <2>1, DoingPlain DEF PlainOp
  <2>3. work.prio[x] \in Nat
      BY <2>2, WorkloadAssumption DEF IInv, WorkRight
  <2>4. Sound(os') /\ Aside(os') /\ os'.inside = os.inside
      BY <1>2, <1>3, <2>1, <2>2, <2>3, StartAside
  <2>5. MemoryRight'
      BY <1>2, <2>1, <2>2 DEF MemoryRight
  <2>6. QED
      BY <1>2, <2>1, <2>4, <2>5, DoneKeeps
<1>9. CASE TestFree(t)
  <2> DEFINE ops == IF needToFree # None THEN FreeOps(block[needToFree]) ELSE <<>>
  <2>1. /\ Doing(t, "testFree") /\ "testFree" \in PlainNames /\ Then(t, ops) /\ os' = os
        /\ UNCHANGED <<time, memory>>
      BY <1>9 DEF TestFree, PlainNames
  <2>2. Plain(ops)
    <3>1. CASE needToFree = None
        BY <3>1, PlainEmpty
    <3>2. CASE needToFree # None
      <4>1. block[needToFree].heap \in Heaps
          BY <1>2, <3>2 DEF MemoryRight
      <4>2. QED
          BY <3>2, <4>1, PlainFree
    <3>3. QED
        BY <3>1, <3>2
  <2>3. MemoryRight'
      BY <2>1, MemorySame
  <2> HIDE DEF ops
  <2>4. QED
      BY <1>2, <1>3, <2>1, <2>2, <2>3, ThenKeeps
<1>10. CASE ClearFree(t)
  <2>1. /\ Doing(t, "clearFree") /\ "clearFree" \in PlainNames /\ Done(t) /\ os' = os
        /\ UNCHANGED <<timers, block, held, ptr>> /\ needToFree' = None
      BY <1>10 DEF ClearFree, PlainNames, time
  <2>2. MemoryRight'
      BY <1>2, <2>1 DEF MemoryRight
  <2>3. QED
      BY <1>2, <1>3, <2>1, <2>2, DoneKeeps
<1>11. CASE ThreadExit(t)
  <2>1. /\ Doing(t, "die") /\ "die" \in PlainNames /\ UNCHANGED <<timers, block, held, ptr>>
        /\ \/ Then(t, ExitOps) /\ os' = os /\ needToFree' = needToFree
           \/ Done(t) /\ os' = StopThread(os) /\ needToFree' = t
      BY <1>11 DEF ThreadExit, PlainNames, time
  <2>2. Sound(os) /\ os.cur = t /\ t # Idle /\ ~os.inside /\ Aloof(todo[t])
      BY <2>1, DoingPlain
  <2>3. os' = StopThread(os) => Sound(os') /\ Aside(os') /\ os'.inside = os.inside
      BY <1>2, <2>2, StopAside
  <2>4. MemoryRight'
      BY <1>2, <2>1 DEF MemoryRight
  <2>5. QED
      BY <1>2, <1>3, <2>1, <2>3, <2>4, PlainExit, DoneKeeps, ThenKeeps
<1>12. QED
    BY <1>4, <1>5, <1>6, <1>7, <1>8, <1>9, <1>10, <1>11

-----------------------------------------------------------------------------
(* Steps of interrupts *)

LEMMA IsrKeeps ==
  ASSUME IInv, Sound(os'), Aside(os'), WorkRight', UNCHANGED <<todo, sync, time, memory>>
  PROVE  IInv'
<1>1. mutex' = mutex /\ UNCHANGED sync /\ todo' = todo /\ UNCHANGED <<time, memory>>
    BY DEF sync
<1>2. MemoryRight'
    BY <1>1, MemorySame
<1>3. TodoRight'
    BY <1>1 DEF IInv, TodoRight, Entries
<1>4. MutexRight'
    BY <1>1, AsideKeeps, AllSame DEF IInv, Sound, Loose, Aside
<1>5. FifoRight'
    BY <1>1, FifoKeeps, AllSame DEF IInv, Aside
<1>6. QED
    BY <1>2, <1>3, <1>4, <1>5 DEF IInv

(* A handler has done its work on the kernel: r is what it leaves.           *)
LEMMA HandledKeeps ==
  ASSUME IInv, NEW r, Sound(r), Aside(r), r.inside, NEW bit, bit \in irq, Handled(r, bit)
  PROVE  IInv'
<1> DEFINE out == LeaveIsr(r)
<1>1. /\ irq' = irq \ {bit} /\ UNCHANGED <<todo, sync, time, memory>> /\ UNCHANGED <<work, irqs>>
      /\ os' = IF irq = {bit} THEN out ELSE r
    BY DEF Handled
<1>2. r \in KernelStates
    BY DEF Sound, Loose
<1>3. Sound(out) /\ Swapped([r EXCEPT !.inside = FALSE], out)
    BY LeaveIsrKeeps
<1> HIDE DEF out
<1>4. /\ out.wait = r.wait /\ out.timeouts = r.timeouts /\ Active(out) = Active(r)
      /\ out.inside = FALSE /\ out.sem = r.sem /\ out.rc = r.rc
    BY <1>2, <1>3 DEF Swapped, KernelStates, Active
<1>5. Aside(out)
    BY <1>4 DEF Aside, MutexAside, Beside
<1>6. Sound(os') /\ Aside(os')
    BY <1>1, <1>3, <1>5
<1>7. os'.inside <=> irq' # {}
    BY <1>1, <1>4
<1>8. WorkRight'
    BY <1>1, <1>7 DEF IInv, WorkRight
<1>9. QED
    BY <1>1, <1>6, <1>8, IsrKeeps

LEMMA InterruptKeeps ==
  ASSUME IInv, Interrupt
  PROVE  IInv'
<1>1. PICK bits \in SUBSET DOMAIN irqs :
            /\ bits # {} /\ irq' = bits
            /\ irqs' = [s \in DOMAIN irqs |-> IF s \in bits /\ irqs[s] > 0 THEN irqs[s] - 1 ELSE irqs[s]]
            /\ os'   = [os EXCEPT !.inside = TRUE, !.now = IF "tick" \in bits THEN Later(@, 1) ELSE @]
    BY DEF Interrupt
<1> DEFINE now == IF "tick" \in bits THEN Later(os.now, 1) ELSE os.now
<1>2. os \in KernelStates /\ Sound(os)
    BY DEF IInv, Sound, Loose
<1>3. now \in Tick
  <2>1. os.now \in Tick
      BY <1>2 DEF KernelStates
  <2>2. os.now \in Int
      BY <2>1, KernelAssumption DEF Tick
  <2>3. Later(os.now, 1) \in Tick
      BY <2>2, LaterType
  <2>4. QED
      BY <2>1, <2>3
<1>4. os' = [os EXCEPT !.inside = TRUE, !.now = now]
    BY <1>1
<1> HIDE DEF now
<1>5. /\ Sound(os') /\ os'.inside
      /\ os'.sem = os.sem /\ os'.wait = os.wait /\ os'.timeouts = os.timeouts /\ os'.state = os.state
      /\ os'.rc = os.rc
    BY <1>2, <1>3, <1>4, EnterIsr
<1>6. Active(os') = Active(os)
    BY <1>5 DEF Active
<1>7. Aside(os')
    BY <1>5, <1>6, SwappedAside DEF IInv
<1>8. UNCHANGED <<todo, sync, time, memory>> /\ UNCHANGED work
    BY DEF Interrupt
<1>9. WorkRight'
    BY <1>1, <1>5, <1>8 DEF IInv, WorkRight
<1>10. QED
    BY <1>5, <1>7, <1>8, <1>9, IsrKeeps

LEMMA ThreadTickKeeps ==
  ASSUME IInv, ThreadTick
  PROVE  IInv'
<1>1. Sound(os) /\ MutexRight /\ os \in KernelStates /\ Loose(os)
    BY DEF IInv, Sound, Loose
<1>2. CASE Overdue(os)
  <2>1. os' = Expire(os) /\ UNCHANGED <<todo, sync, time, memory>> /\ UNCHANGED <<work, irq, irqs>>
      BY <1>2 DEF ThreadTick, load
  <2>2. Sound(os') /\ Aside(os') /\ os'.inside = os.inside
      BY <1>1, <1>2, <2>1, ExpireAside DEF Overdue
  <2>3. WorkRight'
      BY <2>1, <2>2 DEF IInv, WorkRight
  <2>4. QED
      BY <2>1, <2>2, <2>3, IsrKeeps
<1>3. CASE ~Overdue(os)
  <2> DEFINE r == Reschedule(os, TRUE)
  <2>1. Handled(r, "tick") /\ "tick" \in irq /\ os.inside
      BY <1>3 DEF ThreadTick
  <2>2. Sound(r) /\ Swapped(os, r)
      BY <1>1, RescheduleKeeps
  <2> HIDE DEF r
  <2>3. /\ r.wait = os.wait /\ r.timeouts = os.timeouts /\ Active(r) = Active(os)
        /\ r.sem = os.sem /\ r.rc = os.rc /\ r.inside
      BY <2>1, <2>2 DEF Swapped
  <2>4. Aside(r)
      BY <1>1, <2>3, SwappedAside
  <2>5. QED
      BY <2>1, <2>2, <2>3, <2>4, HandledKeeps
<1>4. QED
    BY <1>2, <1>3

LEMMA DeviceIsrKeeps ==
  ASSUME IInv, DeviceIsr
  PROVE  IInv'
<1>1. PICK s \in irq \intersect Sems : Handled(Post(os, s), s)
    BY DEF DeviceIsr
<1> DEFINE r == Post(os, s)
<1>2. s \in Bare /\ os.inside
    BY RtosAssumption DEF DeviceIsr, IInv, WorkRight
<1>3. Sound(r) /\ Aside(r) /\ r.inside = os.inside
    BY <1>2, PostAside
<1>4. Handled(r, s)
    BY <1>1
<1> HIDE DEF r
<1>5. QED
    BY <1>2, <1>3, <1>4, HandledKeeps

-----------------------------------------------------------------------------
(* Steps of mutexes *)

(* Lists at a mutex are of no queue.                                         *)
LEMMA MutexLists ==
  ASSUME NEW m \in Mutexes
  PROVE  Unqueued(Acquire(m)) /\ Unqueued(Owned(m))
<1>1. Head(Acquire(m)).op = "acquire" /\ Head(Owned(m)).op = "owned"
    BY DEF Acquire, Owned
<1>2. \A q \in Queues : Head(Take(q)).op = "take" /\ PostOp(q).op = "post"
    BY DEF Take, PostOp
<1>3. QED
    BY <1>1, <1>2 DEF Unqueued, Posts

(* A step of a mutex is alone in the call of its thread.                     *)
LEMMA DoingMutex ==
  ASSUME IInv, NEW t \in Threads, NEW op \in {"lock", "unlock", "acquire", "owned"}, Doing(t, op)
  PROVE  /\ os.cur = t /\ t \in Threads \ {Idle} /\ ~os.inside /\ Sound(os)
         /\ t \in Active(os) /\ os.wait[t] = None /\ t \notin ToSet(os.timeouts)
         /\ Now(t).m \in Mutexes /\ Tail(todo[t]) = <<>> /\ Unqueued(todo[t])
         /\ op = "acquire" => todo[t] = Acquire(Now(t).m)
         /\ op = "owned" => todo[t] = Owned(Now(t).m)
         /\ op \in {"lock", "unlock"} => Unowned(todo[t])
         /\ op = "unlock" => mutex[Now(t).m].owner = t
<1>1. /\ os.cur = t /\ t \in Threads \ {Idle} /\ ~os.inside /\ Sound(os) /\ t \in Active(os)
      /\ Now(t).op = op /\ todo[t] # <<>> /\ Now(t) = Head(todo[t]) /\ Entries(t, todo[t])
    BY DoingAny
<1>2. os.wait[t] = None
    BY <1>1 DEF Sound, Loose, WaitsRight, Active
<1>3. t \notin ToSet(os.timeouts)
    BY <1>1, <1>2 DEF Sound, Loose, TimeoutsRight
<1>4. ~Plain(todo[t])
  <2>1. ~PlainOp(Now(t))
      BY <1>1 DEF PlainOp
  <2>2. QED
      BY <1>1, <2>1, PlainParts
<1>5. /\ \A q \in Queues, n \in Int : todo[t] # GetOps(q, n)
      /\ \A q \in Queues : todo[t] # Take(q) /\ ~Posts(todo[t], q)
  <2>1. \A q \in Queues, n \in Int : Head(GetOps(q, n)).op = "pend"
      BY DEF GetOps, PendOp
  <2>2. \A q \in Queues : Head(Take(q)).op = "take" /\ PostOp(q).op = "post"
      BY DEF Take, PostOp
  <2>3. QED
      BY <1>1, <2>1, <2>2 DEF Posts
<1>6. Unqueued(todo[t])
    BY <1>5 DEF Unqueued
<1>7. CASE \E c : todo[t] = <<c>> /\ c.op \in {"lock", "unlock"} /\ c.m \in Mutexes
                  /\ (c.op = "unlock" => mutex[c.m].owner = t)
  <2>1. PICK c : todo[t] = <<c>> /\ c.op \in {"lock", "unlock"} /\ c.m \in Mutexes
                  /\ (c.op = "unlock" => mutex[c.m].owner = t)
      BY <1>7
  <2>2. Now(t) = c /\ Tail(todo[t]) = <<>>
      BY <1>1, <2>1, OneEntry
  <2>3. Unowned(todo[t])
      BY <2>1 DEF Unowned, Owned
  <2>4. QED
      BY <1>1, <1>2, <1>3, <1>6, <2>1, <2>2, <2>3
<1>8. CASE \E m \in Mutexes : todo[t] \in {Acquire(m), Owned(m)}
  <2>1. PICK m \in Mutexes : todo[t] \in {Acquire(m), Owned(m)}
      BY <1>8
  <2>2. Now(t).m = m /\ Tail(todo[t]) = <<>>
    <3>1. PICK e : todo[t] = <<e>> /\ e.m = m
        BY <2>1 DEF Acquire, Owned
    <3>2. QED
        BY <1>1, <3>1, OneEntry
  <2>3. Now(t).op = "acquire" => todo[t] = Acquire(m)
      BY <1>1, <2>1, OneEntry DEF Owned
  <2>4. Now(t).op = "owned" => todo[t] = Owned(m)
      BY <1>1, <2>1, OneEntry DEF Acquire
  <2>5. Now(t).op \in {"acquire", "owned"}
      BY <1>1, <2>1, OneEntry DEF Acquire, Owned
  <2>6. QED
      BY <1>1, <1>2, <1>3, <1>6, <2>2, <2>3, <2>4, <2>5
<1>9. QED
    BY <1>1, <1>4, <1>5, <1>7, <1>8 DEF Entries

(* OS_MutexPend up to the semaphore: a lock that is nested, or one that      *)
(* raises the priority of the owner.                                         *)
LEMMA MutexPendKeeps ==
  ASSUME IInv, NEW t \in Threads, MutexPend(t)
  PROVE  IInv'
<1> DEFINE m == Now(t).m
<1>1. Doing(t, "lock") /\ UNCHANGED <<time, memory>> /\ UNCHANGED <<work, irq, irqs>> /\ QueuesSame
    BY DEF MutexPend, load, QueuesSame
<1>2. /\ t \in Threads \ {Idle} /\ m \in Mutexes /\ Tail(todo[t]) = <<>> /\ Aloof(todo[t])
      /\ Sound(os) /\ MutexRight
    BY <1>1, DoingMutex DEF IInv, Aloof
<1>3. MemoryRight'
    BY <1>1, MemorySame
<1>4. CASE mutex[m].owner = t
  <2>1. /\ mutex' = [mutex EXCEPT ![m].count = @ + 1] /\ os' = os
        /\ todo' = [todo EXCEPT ![t] = Tail(@)]
      BY <1>4 DEF MutexPend, Done
  <2>2. todo' = [todo EXCEPT ![t] = <<>>]
      BY <1>2, <2>1
  <2>3. OwnersSame
    <3> DEFINE n == mutex[m].count + 1
    <3>1. mutex \in MutexStates /\ n \in Nat
        BY <1>2 DEF MutexRight, MutexStates
    <3>2. mutex' = [mutex EXCEPT ![m].count = n]
        BY <2>1
    <3> HIDE DEF n
    <3>3. QED
        BY <1>2, <3>1, <3>2 DEF OwnersSame, MutexStates
  <2>4. Entries(t, <<>>) /\ Aloof(<<>>)
      BY PlainEmpty, PlainEntries
  <2>5. QED
      BY <1>1, <1>2, <1>3, <2>1, <2>2, <2>3, <2>4, SameAside, StepKeeps
<1>5. CASE mutex[m].owner # t
  <2>1. /\ os' = Inherit(os, t, m) /\ mutex' = mutex
        /\ todo' = [todo EXCEPT ![t] = Acquire(m) \o Tail(@)]
      BY <1>5 DEF MutexPend, Then, Acquire
  <2>2. Acquire(m) \o Tail(todo[t]) = Acquire(m)
      BY <1>2, OneEntry DEF Acquire
  <2>3. todo' = [todo EXCEPT ![t] = Acquire(m)]
      BY <2>1, <2>2
  <2>4. Entries(t, Acquire(m)) /\ Aloof(Acquire(m))
    <3>1. Unowned(Acquire(m))
        BY DEF Unowned, Acquire, Owned
    <3>2. QED
        BY <1>2, <3>1, MutexLists DEF Entries, Aloof
  <2>5. Sound(os') /\ Aside(os') /\ os'.inside = os.inside
    <3> DEFINE owner == mutex[m].owner
    <3>1. owner \in Threads \union {None}
        BY <1>2 DEF MutexRight, MutexStates
    <3>2. os' = os \/ (owner \in Threads /\ os' = PrioritySet(os, owner, os.prio[t]))
      <4>1. CASE owner # None /\ os.prio[owner] < os.prio[t]
          BY <2>1, <3>1, <4>1 DEF Inherit
      <4>2. CASE ~(owner # None /\ os.prio[owner] < os.prio[t])
          BY <2>1, <4>2 DEF Inherit
      <4>3. QED
          BY <4>1, <4>2
    <3>3. os.prio[t] \in Nat
        BY <1>2 DEF Sound, Loose, KernelStates
    <3>4. QED
        BY <1>2, <3>2, <3>3, SameAside, RepricedAside
  <2>6. OwnersSame
      BY <1>2, <2>1 DEF OwnersSame, MutexRight
  <2>7. QED
      BY <1>1, <1>2, <1>3, <2>1, <2>3, <2>4, <2>5, <2>6, StepKeeps
<1>6. QED
    BY <1>4, <1>5

(* The semaphore of the mutex: the thread takes it and is to be the owner,   *)
(* or goes to sleep on it.                                                   *)
LEMMA MutexAcquireKeeps ==
  ASSUME IInv, NEW t \in Threads, MutexAcquire(t)
  PROVE  IInv'
<1>0. PICK m \in Mutexes : Now(t).m = m
    BY DoingMutex DEF MutexAcquire
<1> DEFINE r == Pend(os, m, WaitForever)
<1>1. /\ Doing(t, "acquire") /\ UNCHANGED <<time, memory>> /\ UNCHANGED <<work, irq, irqs>>
      /\ os' = r /\ mutex' = mutex /\ todo' = [todo EXCEPT ![t] = Owned(m) \o Tail(@)] /\ QueuesSame
    BY <1>0 DEF MutexAcquire, load, sync, Then, Owned, QueuesSame
<1>2. /\ t \in Threads \ {Idle} /\ Tail(todo[t]) = <<>> /\ todo[t] = Acquire(m) /\ Unqueued(todo[t])
      /\ os.cur = t /\ ~os.inside /\ Sound(os) /\ t \in Active(os) /\ os.wait[t] = None
      /\ t \notin ToSet(os.timeouts)
    BY <1>0, <1>1, DoingMutex
<1>3. /\ MutexRight /\ m \in Sems /\ Mutexes \subseteq Sems /\ None \notin Sems
      /\ os \in KernelStates /\ os.sem[m].count \in Int
    BY <1>2, KernelSems, KernelAssumption DEF IInv, Sound, Loose, KernelStates
<1>4. \A x \in Threads : todo'[x] = IF x = t THEN Owned(m) ELSE todo[x]
  <2>1. Owned(m) \o Tail(todo[t]) = Owned(m)
      BY <1>2, OneEntry DEF Owned
  <2>2. todo' = [todo EXCEPT ![t] = Owned(m)]
      BY <1>1, <2>1
  <2>3. QED
      BY <2>2 DEF IInv, TodoRight
<1>5. TodoRight'
  <2>1. Entries(t, Owned(m))'
      BY <1>2 DEF Entries
  <2>2. todo' = [todo EXCEPT ![t] = Owned(m)]
      BY <1>1, <1>2, OneEntry DEF Owned
  <2>3. QED
      BY <1>1, <1>2, <2>1, <2>2, TodoKeeps DEF IInv
<1>6. \A z \in Mutexes : todo[t] # Owned(z) /\ (Owned(m) = Owned(z) => m = z)
    BY <1>2 DEF Acquire, Owned
<1>7. /\ Sound(r) /\ r.inside = os.inside
      /\ MutexRight'
  <2>1. CASE os.sem[m].count > 0
    <3>1. WaitForever \in Int
        BY DEF WaitForever
    <3>2. m \in Sems /\ Sound(os) /\ os.sem[m].count > 0
        BY <1>2, <1>3, <2>1
    <3>3. /\ Sound(r) /\ Swapped([os EXCEPT !.sem = r.sem, !.rc = r.rc], r)
          /\ \A z \in Sems : r.sem[z].count = IF z = m THEN os.sem[m].count - 1 ELSE os.sem[z].count
        BY <3>1, <3>2, PendTakes, ZenonT(30)
    <3> HIDE DEF r
    <3>4. /\ r.wait = os.wait /\ r.timeouts = os.timeouts /\ Active(r) = Active(os)
          /\ r.inside = os.inside
        BY <1>3, <3>3 DEF Swapped, KernelStates, Active
    <3>5. os.sem[m].count = 1 /\ mutex[m].owner = None /\ Heirs(m) = {}
        BY <1>2, <1>3, <2>1 DEF MutexRight, OwnerRight
    <3>6. Heirs(m)' = {t}
        BY <1>1, <1>2, <1>4, <3>4, <3>5, ZenonT(30) DEF Heirs, Active
    <3>7. \A z \in Mutexes : z # m => Heirs(z)' = Heirs(z)
      <4> SUFFICES ASSUME NEW z \in Mutexes, z # m
                   PROVE  \A x \in Threads : x \in Heirs(z)' <=> x \in Heirs(z)
          BY DEF Heirs, Active
      <4>1. QED
          BY <1>1, <1>4, <1>6, <3>4 DEF Heirs, Active
    <3>8. \A z \in Mutexes : OwnerRight(z)'
      <4> SUFFICES ASSUME NEW z \in Mutexes
                   PROVE  OwnerRight(z)'
          OBVIOUS
      <4>1. CASE z = m
          BY <1>1, <1>2, <1>3, <3>3, <3>5, <3>6, <4>1 DEF OwnerRight
      <4>2. CASE z # m
          BY <1>1, <1>3, <3>3, <3>7, <4>2 DEF OwnerRight, MutexRight
      <4>3. QED
          BY <4>1, <4>2
    <3>9. \A x \in Threads, z \in Mutexes : QueuedRight(x, z)'
        BY <1>1, <1>2, <1>3, <1>4, <1>6, <3>4 DEF QueuedRight, MutexRight, Active
    <3>10. \A x \in ToSet(r.timeouts) : r.wait[x] \notin Mutexes
        BY <3>4, <1>3 DEF MutexRight
    <3>11. MutexRight'
        BY <1>1, <1>3, <3>8, <3>9, <3>10 DEF MutexRight
    <3>12. QED
        BY <3>3, <3>4, <3>11 DEF r
  <2>2. CASE os.sem[m].count <= 0
    <3>1. WaitForever \in Int \ {0}
        BY DEF WaitForever
    <3>2. /\ Sound(r)
          /\ \A z \in Sems : r.sem[z].count = IF z = m THEN os.sem[m].count - 1 ELSE os.sem[z].count
          /\ r.wait = [os.wait EXCEPT ![os.cur] = m]
          /\ Active(r) = Active(os) \ {os.cur} /\ Absent(r) = Absent(os)
          /\ r.prio = os.prio /\ r.rc = os.rc /\ r.now = os.now /\ r.inside = os.inside
          /\ ToSet(r.timeouts) \subseteq ToSet(os.timeouts) \union IF WaitForever = WaitForever THEN {} ELSE {os.cur}
        BY <1>2, <1>3, <2>2, <3>1, PendWaits
    <3> HIDE DEF r
    <3>3. /\ \A x \in Threads : r.wait[x] = IF x = t THEN m ELSE os.wait[x]
          /\ Active(r) = Active(os) \ {t} /\ ToSet(r.timeouts) \subseteq ToSet(os.timeouts)
        BY <1>2, <1>3, <3>2 DEF KernelStates
    <3>4. \A z \in Mutexes : Heirs(z)' = Heirs(z)
      <4> SUFFICES ASSUME NEW z \in Mutexes
                   PROVE  \A x \in Threads : x \in Heirs(z)' <=> x \in Heirs(z)
          BY DEF Heirs, Active
      <4>1. \A x \in Threads : x \in Heirs(z)' <=> x \in Active(r) /\ todo'[x] = Owned(z)
          BY <1>1 DEF Heirs, Active
      <4>2. QED
          BY <1>4, <1>6, <3>3, <4>1 DEF Heirs
    <3>5. \A z \in Mutexes : OwnerRight(z)'
      <4> SUFFICES ASSUME NEW z \in Mutexes
                   PROVE  OwnerRight(z)'
          OBVIOUS
      <4>1. r.sem[z].count = (IF z = m THEN os.sem[m].count - 1 ELSE os.sem[z].count) /\ OwnerRight(z)
          BY <1>3, <3>2 DEF MutexRight
      <4>2. CASE z = m
          BY <1>1, <1>3, <2>2, <3>4, <4>1, <4>2 DEF OwnerRight
      <4>3. CASE z # m
          BY <1>1, <3>4, <4>1, <4>3 DEF OwnerRight
      <4>4. QED
          BY <4>2, <4>3
    <3>6. \A x \in Threads, z \in Mutexes : QueuedRight(x, z)'
      <4> SUFFICES ASSUME NEW x \in Threads, NEW z \in Mutexes
                   PROVE  QueuedRight(x, z)'
          OBVIOUS
      <4>1. QueuedRight(x, z)
          BY <1>3 DEF MutexRight
      <4>2. QED
          BY <1>1, <1>4, <1>6, <3>3, <4>1 DEF QueuedRight
    <3>7. \A x \in ToSet(r.timeouts) : r.wait[x] \notin Mutexes
      <4> SUFFICES ASSUME NEW x \in ToSet(r.timeouts)
                   PROVE  r.wait[x] \notin Mutexes
          OBVIOUS
      <4>1. x \in ToSet(os.timeouts) /\ x # t /\ ToSet(os.timeouts) \subseteq Threads
          BY <1>2, <3>3, HoldsElements DEF Sound, Loose, TimeoutsRight
      <4>2. QED
          BY <1>3, <3>3, <4>1 DEF MutexRight
    <3>8. MutexRight'
        BY <1>1, <1>3, <3>5, <3>6, <3>7 DEF MutexRight
    <3>9. QED
        BY <3>2, <3>8 DEF r
  <2>3. QED
      BY <1>3, <2>1, <2>2
<1>8. FifoRight'
  <2>1. ASSUME NEW q \in Queues
        PROVE  Beside(r, q)
    <3>1. q # m /\ todo[os.cur] # Take(q) /\ WaitForever \in Int /\ os.cur # Idle
        BY <1>2, KernelSems DEF Unqueued, WaitForever
    <3>2. QED
        BY <1>2, <1>3, <3>1, PendBeside
  <2> HIDE DEF r
  <2>2. todo' = [todo EXCEPT ![t] = Owned(m)] /\ Unqueued(Owned(m))
      BY <1>1, <1>2, OneEntry, MutexLists DEF Owned
  <2>3. \A q \in Queues : Beside(os', q)
      BY <1>1, <2>1
  <2>4. QED
      BY <1>1, <1>2, <2>2, <2>3, FifoBeside
<1> HIDE DEF r
<1>9. MemoryRight'
    BY <1>1, MemorySame
<1>10. WorkRight'
    BY <1>1, <1>7 DEF IInv, WorkRight
<1>11. QED
    BY <1>1, <1>5, <1>7, <1>8, <1>9, <1>10 DEF IInv

(* The thread that has the semaphore makes itself the owner.                 *)
LEMMA MutexOwnedKeeps ==
  ASSUME IInv, NEW t \in Threads, MutexOwned(t)
  PROVE  IInv'
<1>0. PICK m \in Mutexes, p \in Nat : Now(t).m = m /\ os.prio[t] = p
  <2>1. Now(t).m \in Mutexes
      BY DoingMutex DEF MutexOwned
  <2>2. os.prio[t] \in Nat
      BY DEF IInv, Sound, Loose, KernelStates
  <2>3. QED
      BY <2>1, <2>2
<1> DEFINE own == [owner |-> t, count |-> 1, restore |-> p]
<1>1. /\ Doing(t, "owned") /\ UNCHANGED <<time, memory>> /\ UNCHANGED <<work, irq, irqs>>
      /\ os' = os /\ mutex' = [mutex EXCEPT ![m] = own] /\ todo' = [todo EXCEPT ![t] = Tail(@)]
      /\ QueuesSame
    BY <1>0 DEF MutexOwned, load, Done, QueuesSame
<1>2. /\ t \in Threads \ {Idle} /\ Tail(todo[t]) = <<>> /\ todo[t] = Owned(m) /\ Unqueued(todo[t])
      /\ Sound(os) /\ t \in Active(os) /\ os.wait[t] = None
    BY <1>0, <1>1, DoingMutex
<1>3. MutexRight /\ Mutexes \subseteq Sems /\ None \notin Threads \union Sems /\ p \in Nat
    BY <1>0, <1>2, KernelSems, KernelAssumption DEF IInv, Sound, Loose, KernelStates
<1>4. os.sem[m].count <= 0 /\ mutex[m].owner = None /\ Heirs(m) = {t}
  <2>1. t \in Heirs(m)
      BY <1>2 DEF Heirs
  <2>2. QED
      BY <1>2, <1>3, <2>1 DEF MutexRight, OwnerRight
<1>5. mutex' \in MutexStates /\ mutex'[m].owner = t /\ \A z \in Mutexes : z # m => mutex'[z] = mutex[z]
    BY <1>1, <1>2, <1>3 DEF MutexRight, MutexStates
<1>6. todo' = [todo EXCEPT ![t] = <<>>] /\ \A x \in Threads : todo'[x] = IF x = t THEN <<>> ELSE todo[x]
    BY <1>1, <1>2 DEF IInv, TodoRight
<1>7. TodoRight'
  <2>1. Entries(t, <<>>)'
      BY PlainEmpty DEF Entries
  <2>2. \A x \in Threads \ {t}, z \in Mutexes : mutex[z].owner = x => mutex'[z].owner = x
      BY <1>3, <1>4, <1>5
  <2>3. QED
      BY <1>2, <1>6, <2>1, <2>2, TodoKeeps DEF IInv
<1>8. \A z \in Mutexes : Owned(z) # <<>> /\ (Owned(m) = Owned(z) => m = z)
    BY DEF Owned
<1>9. \A z \in Mutexes : OwnerRight(z)'
  <2> SUFFICES ASSUME NEW z \in Mutexes
               PROVE  OwnerRight(z)'
      OBVIOUS
  <2>1. CASE z = m
    <3>1. Heirs(m)' = {}
        BY <1>1, <1>4, <1>6, <1>8 DEF Heirs, Active
    <3>2. QED
        BY <1>1, <1>3, <1>4, <1>5, <2>1, <3>1 DEF OwnerRight
  <2>2. CASE z # m
    <3>1. \A x \in Threads : x \in Heirs(z)' <=> x \in Heirs(z)
        BY <1>1, <1>2, <1>6, <1>8, <2>2 DEF Heirs, Active
    <3>2. Heirs(z)' = Heirs(z)
        BY <3>1 DEF Heirs, Active
    <3>3. QED
        BY <1>1, <1>3, <1>5, <2>2, <3>2 DEF OwnerRight, MutexRight
  <2>3. QED
      BY <2>1, <2>2
<1>10. \A x \in Threads, z \in Mutexes : QueuedRight(x, z)'
    BY <1>1, <1>2, <1>3, <1>6, <1>8 DEF MutexRight, QueuedRight, Active
<1>11. MutexRight'
    BY <1>1, <1>3, <1>5, <1>9, <1>10 DEF MutexRight
<1>12. MemoryRight'
    BY <1>1, MemorySame
<1>13. WorkRight'
    BY <1>1 DEF IInv, WorkRight
<1>14. FifoRight'
  <2>1. Unqueued(<<>>) /\ Aside(os')
      BY <1>1, PlainEmpty, PlainAloof, SameAside DEF Aloof
  <2>2. QED
      BY <1>1, <1>2, <1>6, <2>1, FifoBeside DEF Aside
<1>15. QED
    BY <1>1, <1>2, <1>7, <1>11, <1>12, <1>13, <1>14 DEF IInv

(* OS_MutexPost: the last unlock lets go, and hands the mutex to the first   *)
(* that waits for it, if there is one.                                       *)
LEMMA MutexPostKeeps ==
  ASSUME IInv, NEW t \in Threads, MutexPost(t)
  PROVE  IInv'
<1>1. PICK m \in Mutexes, n \in Nat, p \in Nat :
            Now(t).m = m /\ mutex[m].count = n /\ mutex[m].restore = p
  <2>1. Now(t).m \in Mutexes
      BY DoingMutex DEF MutexPost
  <2>2. mutex \in MutexStates
      BY DEF IInv, MutexRight
  <2>3. mutex[Now(t).m].count \in Nat /\ mutex[Now(t).m].restore \in Nat
      BY <2>1, <2>2 DEF MutexStates
  <2>4. QED
      BY <2>1, <2>3
<1>2. Doing(t, "unlock") /\ UNCHANGED <<time, memory>> /\ UNCHANGED <<work, irq, irqs>> /\ QueuesSame
    BY DEF MutexPost, load, QueuesSame
<1>3. /\ t \in Threads \ {Idle} /\ Tail(todo[t]) = <<>> /\ Unowned(todo[t]) /\ Aloof(todo[t])
      /\ Sound(os) /\ mutex[m].owner = t
    BY <1>1, <1>2, DoingMutex DEF Aloof
<1>4. /\ mutex \in MutexStates /\ n \in Nat /\ p \in Nat
      /\ MutexRight /\ m \in Sems /\ Mutexes \subseteq Sems /\ None \notin Threads \union Sems
      /\ os \in KernelStates /\ os.sem[m].count \in Int
    BY <1>1, KernelSems, KernelAssumption DEF IInv, Sound, Loose, KernelStates, MutexRight, MutexStates
<1>5. MemoryRight'
    BY <1>2, MemorySame
<1>6. CASE n > 1
  <2>1. /\ mutex' = [mutex EXCEPT ![m].count = n - 1] /\ os' = os
        /\ todo' = [todo EXCEPT ![t] = Tail(@)]
      BY <1>1, <1>6 DEF MutexPost, Done
  <2>2. todo' = [todo EXCEPT ![t] = <<>>]
      BY <1>3, <2>1
  <2>3. OwnersSame
    <3> DEFINE k == n - 1
    <3>1. mutex' = [mutex EXCEPT ![m].count = k] /\ k \in Nat
        BY <1>4, <1>6, <2>1
    <3> HIDE DEF k
    <3>2. QED
        BY <1>4, <3>1 DEF OwnersSame, MutexStates
  <2>4. Entries(t, <<>>) /\ Aloof(<<>>)
      BY PlainEmpty, PlainEntries
  <2>5. QED
      BY <1>2, <1>3, <1>5, <2>1, <2>2, <2>3, <2>4, SameAside, StepKeeps
<1>7. CASE ~(n > 1)
  <2> DEFINE r == Post(os, m)
             q == <<[op |-> "restore", p |-> p]>>
  <2>1. /\ mutex' = [mutex EXCEPT ![m].count = 0, ![m].owner = None] /\ os' = r
        /\ todo' = [todo EXCEPT ![t] = q \o Tail(@)]
      BY <1>1, <1>7 DEF MutexPost, Then
  <2>2. q \o Tail(todo[t]) = q
      BY <1>3, OneEntry
  <2>3. Plain(q)
      BY <1>4, PlainOne DEF PlainOp
  <2> HIDE DEF q
  <2>4. todo' = [todo EXCEPT ![t] = q] /\ \A x \in Threads : todo'[x] = IF x = t THEN q ELSE todo[x]
      BY <2>1, <2>2 DEF IInv, TodoRight
  <2>5. Aloof(q) /\ Unowned(q)
      BY <2>3, PlainAloof DEF Aloof
  <2>6. /\ mutex' \in MutexStates /\ mutex'[m].owner = None
        /\ \A z \in Mutexes : z # m => mutex'[z] = mutex[z]
      BY <1>4, <2>1 DEF MutexStates
  <2>7. TodoRight'
    <3>1. Entries(t, q)'
        BY <2>3 DEF Entries
    <3>2. \A x \in Threads \ {t}, z \in Mutexes : mutex[z].owner = x => mutex'[z].owner = x
        BY <1>3, <2>6
    <3>3. QED
        BY <1>3, <2>4, <3>1, <3>2, TodoKeeps DEF IInv
  <2>8. os.sem[m].count <= 0 /\ Heirs(m) = {}
      BY <1>3, <1>4 DEF MutexRight, OwnerRight
  <2>9. \A x \in Threads, z \in Mutexes : todo'[x] = Owned(z) <=> todo[x] = Owned(z)
      BY <1>3, <2>4, <2>5 DEF Unowned
  <2>10. Sound(r) /\ r.inside = os.inside /\ MutexRight'
    <3>1. CASE os.sem[m].count = 0
      <4>1. /\ Sound(r) /\ Swapped([os EXCEPT !.sem = r.sem], r) /\ r.cur = os.cur
            /\ \A z \in Sems : r.sem[z].count = IF z = m THEN os.sem[m].count + 1 ELSE os.sem[z].count
        <5>1. m \in Sems /\ Sound(os) /\ os.sem[m].count >= 0
            BY <1>3, <1>4, <3>1
        <5>2. QED
            BY <5>1, PostCounts
      <4> HIDE DEF r
      <4>2. /\ r.wait = os.wait /\ r.timeouts = os.timeouts /\ Active(r) = Active(os)
            /\ r.inside = os.inside
          BY <1>4, <4>1 DEF Swapped, KernelStates, Active
      <4>3. \A z \in Mutexes : Heirs(z)' = Heirs(z)
        <5> SUFFICES ASSUME NEW z \in Mutexes
                     PROVE  \A x \in Threads : x \in Heirs(z)' <=> x \in Heirs(z)
            BY DEF Heirs, Active
        <5>1. \A x \in Threads : x \in Heirs(z)' <=> x \in Active(r) /\ todo'[x] = Owned(z)
            BY <2>1 DEF Heirs, Active
        <5>2. QED
            BY <2>9, <4>2, <5>1 DEF Heirs
      <4>4. \A z \in Mutexes : OwnerRight(z)'
        <5> SUFFICES ASSUME NEW z \in Mutexes
                     PROVE  OwnerRight(z)'
            OBVIOUS
        <5>1. r.sem[z].count = (IF z = m THEN os.sem[m].count + 1 ELSE os.sem[z].count) /\ OwnerRight(z)
            BY <1>4, <4>1 DEF MutexRight
        <5>2. CASE z = m
            BY <2>1, <2>6, <2>8, <3>1, <4>3, <5>1, <5>2 DEF OwnerRight
        <5>3. CASE z # m
            BY <2>1, <2>6, <4>3, <5>1, <5>3 DEF OwnerRight
        <5>4. QED
            BY <5>2, <5>3
      <4>5. \A x \in Threads, z \in Mutexes : QueuedRight(x, z)'
          BY <1>4, <2>1, <2>9, <4>2 DEF MutexRight, QueuedRight, Active
      <4>6. \A x \in ToSet(r.timeouts) : r.wait[x] \notin Mutexes
          BY <1>4, <4>2 DEF MutexRight
      <4>7. MutexRight'
          BY <2>1, <2>6, <4>4, <4>5, <4>6 DEF MutexRight
      <4>8. QED
          BY <4>1, <4>2, <4>7 DEF r
    <3>2. CASE os.sem[m].count < 0
      <4>1. Sound(r) /\ \E x \in Threads : Woken(os, r, x, m, 0)
        <5>1. m \in Sems /\ Sound(os) /\ os.sem[m].count < 0
            BY <1>3, <1>4, <3>2
        <5>2. QED
            BY <5>1, PostWakes
      <4> HIDE DEF r
      <4>2. PICK x \in Threads : Woken(os, r, x, m, 0)
          BY <4>1
      <4>3. /\ \A z \in Sems : r.sem[z].count = IF z = m THEN os.sem[m].count + 1 ELSE os.sem[z].count
            /\ \A y \in Threads : r.wait[y] = IF y = x THEN None ELSE os.wait[y]
            /\ Active(r) = Active(os) \union {x} /\ ToSet(r.timeouts) = ToSet(os.timeouts) \ {x}
            /\ r.inside = os.inside /\ os.wait[x] = m
          BY <1>4, <4>2 DEF Woken, KernelStates
      <4>4. todo[x] = Owned(m) /\ \A z \in Mutexes : Owned(m) = Owned(z) => m = z
        <5>1. QueuedRight(x, m)
            BY <1>4 DEF MutexRight
        <5>2. QED
            BY <4>3, <5>1 DEF QueuedRight, Owned
      <4>5. \A y \in Threads, z \in Mutexes : y \in Heirs(z)' <=> y \in Active(r) /\ todo[y] = Owned(z)
          BY <2>1, <2>9 DEF Heirs, Active
      <4>6. \A z \in Mutexes : OwnerRight(z)'
        <5> SUFFICES ASSUME NEW z \in Mutexes
                     PROVE  OwnerRight(z)'
            OBVIOUS
        <5>1. r.sem[z].count = (IF z = m THEN os.sem[m].count + 1 ELSE os.sem[z].count) /\ OwnerRight(z)
            BY <1>4, <4>3 DEF MutexRight
        <5>2. CASE z = m
          <6>1. Heirs(m)' = {x}
            <7>1. \A y \in Threads : y \in Heirs(m)' <=> y = x
                BY <2>8, <4>3, <4>4, <4>5 DEF Heirs
            <7>2. QED
                BY <7>1 DEF Heirs, Active
          <6>2. os'.sem[m].count <= 0
              BY <1>4, <2>1, <3>2, <5>1, <5>2
          <6>3. QED
              BY <2>6, <5>2, <6>1, <6>2 DEF OwnerRight
        <5>3. CASE z # m
          <6>1. \A y \in Threads : y \in Heirs(z)' <=> y \in Heirs(z)
              BY <4>3, <4>4, <4>5, <5>3 DEF Heirs
          <6>2. Heirs(z)' = Heirs(z)
              BY <6>1 DEF Heirs, Active
          <6>3. QED
              BY <2>1, <2>6, <5>1, <5>3, <6>2 DEF OwnerRight
        <5>4. QED
            BY <5>2, <5>3
      <4>7. \A y \in Threads, z \in Mutexes : QueuedRight(y, z)'
        <5> SUFFICES ASSUME NEW y \in Threads, NEW z \in Mutexes
                     PROVE  QueuedRight(y, z)'
            OBVIOUS
        <5>1. QueuedRight(y, z)
            BY <1>4 DEF MutexRight
        <5>2. y \in Active(os') <=> y \in Active(os) \/ y = x
            BY <2>1, <4>3
        <5>3. os'.wait[y] = IF y = x THEN None ELSE os.wait[y]
            BY <2>1, <4>3
        <5>4. QED
            BY <1>4, <2>9, <5>1, <5>2, <5>3 DEF QueuedRight
      <4>8. \A y \in ToSet(r.timeouts) : r.wait[y] \notin Mutexes
        <5> SUFFICES ASSUME NEW y \in ToSet(r.timeouts)
                     PROVE  r.wait[y] \notin Mutexes
            OBVIOUS
        <5>1. y \in ToSet(os.timeouts) /\ y # x /\ ToSet(os.timeouts) \subseteq Threads
            BY <1>3, <4>3, HoldsElements DEF Sound, Loose, TimeoutsRight
        <5>2. QED
            BY <1>4, <4>3, <5>1 DEF MutexRight
      <4>9. MutexRight'
          BY <2>1, <2>6, <4>6, <4>7, <4>8 DEF MutexRight
      <4>10. QED
          BY <4>1, <4>3, <4>9 DEF r
    <3>3. QED
        BY <1>4, <2>8, <3>1, <3>2
  <2>11. \A z \in Queues : Beside(r, z)
    <3>1. \A z \in Queues : z # m
        BY KernelSems
    <3>2. QED
        BY <1>4, <3>1, PostBeside
  <2> HIDE DEF r
  <2>12. FifoRight'
      BY <1>2, <1>3, <2>1, <2>4, <2>5, <2>11, FifoBeside DEF Aloof
  <2>13. WorkRight'
      BY <1>2, <2>1, <2>10 DEF IInv, WorkRight
  <2>14. QED
      BY <1>5, <2>1, <2>7, <2>10, <2>12, <2>13 DEF IInv
<1>8. QED
    BY <1>6, <1>7

-----------------------------------------------------------------------------
(* The invariant *)

(* OS_Init and OS_Start leave the kernel as it should be.                    *)
LEMMA BootSound ==
  ASSUME NEW w \in Workloads
  PROVE  LET o == Booted(w)
         IN  /\ Sound(o) /\ ~o.inside
             /\ \A s \in Sems : o.sem[s].count = w.count[s]
             /\ \A x \in Threads : o.wait[x] = None
             /\ ToSet(o.timeouts) = {}
<1> DEFINE o == Booted(w)
<1>1. /\ w.ready \in Seq(Threads) /\ IsInjective(w.ready) /\ w.first \in Threads \ ToSet(w.ready)
      /\ Idle \in ToSet(w.ready) /\ w.prio \in [Threads -> Nat] /\ w.now \in Tick
      /\ \A i, j \in DOMAIN w.ready : i < j => w.prio[w.ready[i]] >= w.prio[w.ready[j]]
      /\ w.count \in [Sems -> Nat]
    BY WorkloadAssumption
<1>2. 0 \in Tick /\ None \notin Sems
    BY KernelAssumption DEF Tick
<1>3. /\ o.ready = w.ready /\ o.cur = w.first /\ o.prio = w.prio
      /\ o.state = [x \in Threads |-> IF x = w.first THEN "running"
                                      ELSE IF x \in ToSet(w.ready) THEN "ready" ELSE "none"]
      /\ o.sem = [s \in Sems |-> [count |-> w.count[s], queue |-> <<>>]]
      /\ o.wait = [x \in Threads |-> None] /\ o.rc = [x \in Threads |-> 0]
      /\ o.timeouts = <<>> /\ o.due = [x \in Threads |-> 0] /\ o.now = w.now
      /\ o.inside = FALSE /\ o.need = {}
    BY DEF Booted, NewSemaphore
<1>4. o \in KernelStates
  <2>1. o = [ready |-> o.ready, cur |-> o.cur, prio |-> o.prio, state |-> o.state, sem |-> o.sem,
             wait |-> o.wait, rc |-> o.rc, timeouts |-> o.timeouts, due |-> o.due, now |-> o.now,
             inside |-> o.inside, need |-> o.need]
      BY DEF Booted
  <2> HIDE DEF o
  <2>2. o.ready \in Seq(Threads) /\ o.cur \in Threads /\ o.prio \in [Threads -> Nat] /\ o.now \in Tick
      BY <1>1, <1>3
  <2>3. o.sem \in [Sems -> [count : Int, queue : Seq(Threads)]]
      BY <1>1, <1>3
  <2>4. o.state \in [Threads -> {"none", "pend", "ready", "running"}]
      BY <1>3
  <2>5. o.wait \in [Threads -> Sems \union {None}] /\ o.rc \in [Threads -> {0, -1}]
      BY <1>3
  <2>6. o.due \in [Threads -> Tick] /\ o.timeouts \in Seq(Threads)
      BY <1>2, <1>3
  <2>7. o.inside \in BOOLEAN /\ o.need \in SUBSET {"swap", "robin"}
      BY <1>3
  <2>8. QED
      BY <2>1, <2>2, <2>3, <2>4, <2>5, <2>6, <2>7 DEF KernelStates
<1> HIDE DEF o
<1>5. DOMAIN w.ready = 1 .. Len(w.ready) /\ ToSet(w.ready) \subseteq Threads
  <2>1. DOMAIN w.ready = 1 .. Len(w.ready) /\ \A i \in 1 .. Len(w.ready) : w.ready[i] \in Threads
      BY <1>1, LenProperties, ElementOfSeq
  <2>2. QED
      BY <2>1 DEF ToSet
<1>6. ReadyRight(o)
  <2>1. Ready(o) = ToSet(w.ready)
      BY <1>1, <1>3, <1>5 DEF Ready
  <2>2. QED
      BY <1>1, <1>3, <1>5, <2>1 DEF ReadyRight, Holds, ByPrio
<1>7. Holds(<<>>, {}) /\ ToSet(<<>>) = {} /\ Len(<<>>) = 0
    BY DEF Holds, IsInjective, ToSet
<1>8. \A s \in Sems : QueueRight(o, s) /\ o.sem[s].count = w.count[s]
  <2> SUFFICES ASSUME NEW s \in Sems
               PROVE  QueueRight(o, s) /\ o.sem[s].count = w.count[s]
      OBVIOUS
  <2>1. o.sem[s].count = w.count[s] /\ o.sem[s].queue = <<>> /\ w.count[s] \in Nat
      BY <1>1, <1>3
  <2>2. Waiters(o, s) = {}
      BY <1>2, <1>3 DEF Waiters
  <2>3. Waiting(w.count[s]) = 0
      BY <2>1 DEF Waiting
  <2>4. QED
      BY <1>7, <2>1, <2>2, <2>3 DEF QueueRight
<1>9. WaitsRight(o) /\ TimeoutsRight(o) /\ OneRuns(o)
    BY <1>3, <1>7 DEF WaitsRight, TimeoutsRight, OneRuns
<1>10. o.state[o.cur] = "running" /\ Idle \in Active(o)
    BY <1>1, <1>3, <1>5 DEF Active
<1>11. Sound(o)
    BY <1>4, <1>6, <1>8, <1>9, <1>10 DEF Sound, Loose
<1>12. ~o.inside /\ ToSet(o.timeouts) = {} /\ \A x \in Threads : o.wait[x] = None
    BY <1>3, <1>7
<1>13. QED
    BY <1>8, <1>11, <1>12 DEF o

LEMMA InitIInv == Init => IInv
<1> SUFFICES ASSUME Init
             PROVE  IInv
    OBVIOUS
<1>1. work \in Workloads /\ os = Booted(work)
    BY DEF Init
<1>2. /\ Sound(os) /\ ~os.inside
      /\ \A s \in Sems : os.sem[s].count = work.count[s]
      /\ \A x \in Threads : os.wait[x] = None
      /\ ToSet(os.timeouts) = {}
    BY <1>1, BootSound
<1>3. TodoRight
  <2>1. todo = [t \in Threads |-> <<>>] /\ Idle \in Threads
      BY KernelAssumption DEF Init
  <2>2. QED
      BY <2>1, PlainEmpty DEF TodoRight, Entries
<1>4. WorkRight
    BY <1>1, <1>2, WorkloadAssumption DEF Init, WorkRight, Bare
<1>5. MemoryRight
  <2>1. /\ timerList = <<>> /\ loc = [now |-> work.now, ticks |-> 0, timer |-> None, made |-> FALSE]
        /\ timers = [x \in Timers |-> [mem |-> NULL, active |-> FALSE, due |-> 0, restart |-> 0]]
        /\ block = [x \in Threads |-> [heap |-> SystemHeap, addr |-> BootMemory(work).addr[x]]]
        /\ held = [x \in Threads |-> {}] /\ ptr = [x \in Threads |-> NULL] /\ needToFree = None
      BY DEF Init
  <2>2. work.now \in Tick /\ 0 \in Tick /\ SystemHeap \in Heaps /\ NULL.heap = SystemHeap
      BY <1>1, WorkloadAssumption, KernelAssumption, RtosAssumption DEF Tick, NULL
  <2>3. timerList \in Seq(Timers) /\ loc \in [now : Tick, ticks : Int, timer : Timers \union {None}, made : BOOLEAN]
      BY <2>1, <2>2
  <2>4. \A x \in Timers : /\ DOMAIN timers[x] = {"mem", "active", "due", "restart"}
                          /\ timers[x].mem.heap \in Heaps /\ timers[x].due \in Tick /\ timers[x].restart \in Int
      BY <2>1, <2>2
  <2>5. \A x \in Threads : /\ block[x].heap \in Heaps /\ ptr[x].heap \in Heaps /\ held[x] = {}
      BY <2>1, <2>2
  <2>6. QED
      BY <2>1, <2>3, <2>4, <2>5 DEF MemoryRight
<1>6. MutexRight
  <2>1. mutex = [m \in Mutexes |-> [owner |-> None, count |-> 0, restore |-> 0]]
        /\ \A x \in Threads : todo[x] = <<>>
      BY DEF Init, NewMutex
  <2>2. \A x \in Threads, m \in Mutexes : todo[x] # Owned(m)
      BY <2>1 DEF Owned
  <2>3. mutex \in MutexStates
      BY <2>1 DEF MutexStates
  <2>4. None \notin Mutexes /\ Mutexes \subseteq Sems
      BY KernelAssumption, KernelSems
  <2>5. \A m \in Mutexes : OwnerRight(m)
    <3>1. \A m \in Mutexes : Heirs(m) = {} /\ os.sem[m].count = 1 /\ mutex[m].owner = None
        BY <1>1, <1>2, <2>1, <2>2, <2>4, WorkloadAssumption DEF Heirs, Active
    <3>2. QED
        BY <3>1 DEF OwnerRight
  <2>6. \A x \in Threads, m \in Mutexes : QueuedRight(x, m)
      BY <1>2, <2>2, <2>4 DEF QueuedRight
  <2>7. QED
      BY <1>2, <2>3, <2>5, <2>6 DEF MutexRight
<1>7. FifoRight
  <2>1. /\ mq = [q \in Queues |-> [used |-> 0, read |-> 0, write |-> 0,
                                  ring |-> [i \in 0 .. Capacity - 1 |-> None]]]
        /\ sent = [q \in Queues |-> <<>>] /\ got = [q \in Queues |-> <<>>]
        /\ \A x \in Threads : todo[x] = <<>>
      BY DEF Init, NewQueue
  <2>2. ASSUME NEW q \in Queues
        PROVE  FifoOf(q)
    <3>1. todo = [t \in Threads |-> <<>>] /\ Aloof(<<>>)
        BY PlainEmpty, PlainAloof DEF Init
    <3>2. \A x \in Threads : todo[x] # Take(q) /\ ~Posts(todo[x], q)
        BY <3>1 DEF Aloof, Unqueued
    <3>3. Hands(q) = {} /\ Posting(q) = {} /\ Cardinality({}) = 0
        BY <3>2, FS_EmptySet DEF Hands, Posting, Active
    <3>4. os.sem[q].count = 0 /\ None # q
        BY <1>1, <1>2, WorkloadAssumption, KernelSems
    <3>5. LedgerRight(q)
        BY <2>1, <3>3, <3>4 DEF LedgerRight, Spare
    <3>6. RingHas(mq[q], sent[q], got[q])
      <4>1. Capacity \in Nat /\ Capacity > 0 /\ <<>> \in Seq({}) /\ Len(<<>>) = 0
          BY RtosAssumption
      <4>2. mq[q] = [used |-> 0, read |-> 0, write |-> 0, ring |-> [i \in 0 .. Capacity - 1 |-> None]]
            /\ sent[q] = <<>> /\ got[q] = <<>>
          BY <2>1
      <4>3. Slot(0, 0) = 0 /\ 0 \in 0 .. Capacity - 1 /\ 0 \in 0 .. Capacity
          BY <4>1 DEF Slot
      <4>4. QED
          BY <4>1, <4>2, <4>3 DEF RingHas
    <3>7. \A x \in Threads : TakerRight(x, q)
        BY <1>2, <3>2, <3>4 DEF TakerRight
    <3>8. QED
        BY <3>5, <3>6, <3>7 DEF FifoOf
  <2>3. QED
      BY <2>1, <2>2 DEF FifoRight
<1>8. QED
    BY <1>2, <1>3, <1>4, <1>5, <1>6, <1>7 DEF IInv

LEMMA StutterIInv ==
  ASSUME IInv, UNCHANGED vars
  PROVE  IInv'
<1>1. UNCHANGED <<todo, sync, time, memory, work, irq, irqs>> /\ os' = os
    BY DEF vars, load
<1>2. Sound(os') /\ Aside(os') /\ WorkRight'
    BY <1>1, SameAside DEF IInv, WorkRight
<1>3. QED
    BY <1>1, <1>2, IsrKeeps

LEMMA NextIInv ==
  ASSUME IInv, [Next]_vars
  PROVE  IInv'
<1>1. CASE Interrupt
    BY <1>1, InterruptKeeps
<1>2. CASE IsrStep
    BY <1>2, ThreadTickKeeps, DeviceIsrKeeps DEF IsrStep
<1>3. ASSUME NEW t \in Threads, ThreadStep(t)
      PROVE  IInv'
  <2>1. CASE Call(t) \/ Loop(t)
      BY <2>1, CallKeeps, LoopKeeps
  <2>2. CASE \/ SemaphorePend(t) \/ SemaphorePost(t) \/ SemaphoreDelete(t)
             \/ ThreadPrioritySet(t) \/ MutexRestore(t)
      BY <2>2, SemaphorePendKeeps, SemaphorePostKeeps, SemaphoresKeep
  <2>3. CASE MutexPend(t) \/ MutexAcquire(t) \/ MutexOwned(t) \/ MutexPost(t)
      BY <2>3, MutexPendKeeps, MutexAcquireKeeps, MutexOwnedKeeps, MutexPostKeeps
  <2>4. CASE MQueueSend(t) \/ MQueueGet(t) \/ NeedJobQueue(t) \/ MakeJobQueue(t)
      BY <2>4, QueuesKeep
  <2>5. CASE \/ TimerAim(t) \/ TimerStart(t) \/ TimerStop(t) \/ NeedTimerThread(t) \/ TimerCreate(t)
             \/ HowLong(t) \/ Nap(t) \/ Stamp(t) \/ TimerPick(t) \/ TimerFire(t)
      BY <2>5, TimersKeep
  <2>6. CASE \/ HeapMalloc(t) \/ HeapFree(t) \/ KeepBlock(t) \/ GiveBack(t)
             \/ ThreadCreate(t) \/ TestFree(t) \/ ClearFree(t) \/ ThreadExit(t)
      BY <2>6, MemoryKeeps
  <2>7. QED
      BY <1>3, <2>1, <2>2, <2>3, <2>4, <2>5, <2>6 DEF ThreadStep
<1>4. CASE UNCHANGED vars
    BY <1>4, StutterIInv
<1>5. QED
    BY <1>1, <1>2, <1>3, <1>4 DEF Next

(* Whatever threads and interrupts do, the lists are sound, every call that  *)
(* is under way has the arguments it needs, no mutex is lost, and every      *)
(* message of a queue is counted once.                                       *)
THEOREM Inductive == Spec => []IInv
BY InitIInv, NextIInv, PTL DEF Spec

-----------------------------------------------------------------------------
(* What follows from it *)

(* How often a thread is on a list.                                          *)
LEMMA HoldsTimes ==
  ASSUME NEW q, NEW S, Holds(q, S), NEW x
  PROVE  Times(q, x) = B2N(x \in S)
<1> DEFINE places == {i \in DOMAIN q : q[i] = x}
<1>1. /\ DOMAIN q = 1 .. Len(q) /\ \A i \in 1 .. Len(q) : q[i] \in S
      /\ \A y \in S : \E i \in 1 .. Len(q) : q[i] = y
      /\ \A i, j \in 1 .. Len(q) : q[i] = q[j] => i = j
    BY HoldsElements
<1>2. CASE x \in S
  <2>1. PICK k \in 1 .. Len(q) : q[k] = x
      BY <1>1, <1>2
  <2>2. places = {k}
      BY <1>1, <2>1
  <2>3. QED
      BY <1>2, <2>2, FS_Singleton DEF Times, B2N
<1>3. CASE x \notin S
  <2>1. places = {}
      BY <1>1, <1>3
  <2>2. QED
      BY <1>3, <2>1, FS_EmptySet DEF Times, B2N
<1>4. QED
    BY <1>2, <1>3

LEMMA IInvLists == IInv => ListsSound
<1> SUFFICES ASSUME IInv
             PROVE  ListsSound
    OBVIOUS
<1>1. /\ os \in KernelStates /\ ReadyRight(os) /\ WaitsRight(os) /\ TimeoutsRight(os) /\ OneRuns(os)
      /\ os.state[os.cur] = "running" /\ \A s \in Sems : QueueRight(os, s)
    BY DEF IInv, Sound, Loose
<1>2. TypeOK
    BY <1>1 DEF KernelStates, TypeOK, IInv, MutexRight, MutexStates, MemoryRight, WorkRight, Bare
<1>3. ThreadsOnOneList
  <2> SUFFICES ASSUME NEW x \in Threads
               PROVE  /\ os.state[x] = "running" <=> os.cur = x
                      /\ Times(os.ready, x) = B2N(os.state[x] = "ready")
                      /\ \A s \in Sems : Times(os.sem[s].queue, x) = B2N(os.wait[x] = s)
                      /\ os.wait[x] # None => os.state[x] = "pend"
                      /\ Times(os.timeouts, x) <= B2N(os.wait[x] # None)
      BY DEF ThreadsOnOneList
  <2>1. os.state[x] = "running" <=> os.cur = x
      BY <1>1 DEF OneRuns
  <2>2. Times(os.ready, x) = B2N(os.state[x] = "ready")
    <3>1. Times(os.ready, x) = B2N(x \in Ready(os))
        BY <1>1, HoldsTimes DEF ReadyRight
    <3>2. QED
        BY <3>1 DEF Ready, B2N
  <2>3. ASSUME NEW s \in Sems
        PROVE  Times(os.sem[s].queue, x) = B2N(os.wait[x] = s)
    <3>1. Times(os.sem[s].queue, x) = B2N(x \in Waiters(os, s))
        BY <1>1, HoldsTimes DEF QueueRight
    <3>2. QED
        BY <3>1 DEF Waiters, B2N
  <2>4. os.wait[x] # None => os.state[x] = "pend"
      BY <1>1 DEF WaitsRight
  <2>5. Times(os.timeouts, x) <= B2N(os.wait[x] # None)
    <3>1. Times(os.timeouts, x) = B2N(x \in ToSet(os.timeouts))
        BY <1>1, HoldsTimes DEF TimeoutsRight
    <3>2. x \in ToSet(os.timeouts) => os.wait[x] # None
        BY <1>1 DEF TimeoutsRight
    <3>3. QED
        BY <3>1, <3>2 DEF B2N
  <2>6. QED
      BY <2>1, <2>2, <2>3, <2>4, <2>5
<1>4. CountsWaiters
    BY <1>1 DEF CountsWaiters, QueueRight, Waiting
<1>5. ReadySorted
  <2> SUFFICES ASSUME NEW i \in 1 .. Len(os.ready) - 1
               PROVE  os.prio[os.ready[i]] >= os.prio[os.ready[i + 1]]
      BY DEF ReadySorted
  <2>1. Len(os.ready) \in Nat /\ ByPrio(os.ready, os.prio)
      BY <1>1, LenProperties DEF ReadyRight, KernelStates
  <2>2. i \in 1 .. Len(os.ready) /\ i + 1 \in 1 .. Len(os.ready) /\ i < i + 1
      BY <2>1
  <2>3. QED
      BY <2>1, <2>2 DEF ByPrio
<1>6. QED
    BY <1>2, <1>3, <1>4, <1>5 DEF ListsSound

LEMMA IInvOwners == IInv => OwnersExclude
<1> SUFFICES ASSUME IInv, NEW m \in Mutexes
             PROVE  LET heirs == {x \in Threads : /\ os.state[x] \in {"ready", "running"}
                                                  /\ [op |-> "owned", m |-> m] \in {todo[x][i] : i \in DOMAIN todo[x]}}
                    IN Cardinality(heirs) + B2N(mutex[m].owner # None) + B2N(os.sem[m].count > 0) = 1
    BY DEF OwnersExclude
<1> DEFINE own   == [op |-> "owned", m |-> m]
           heirs == {x \in Threads : /\ os.state[x] \in {"ready", "running"}
                                     /\ own \in {todo[x][i] : i \in DOMAIN todo[x]}}
<1>1. ASSUME NEW x \in Threads
      PROVE  own \in {todo[x][i] : i \in DOMAIN todo[x]} <=> todo[x] = Owned(m)
  <2>1. CASE Plain(todo[x])
    <3>1. todo[x] # Owned(m)
        BY <2>1, PlainAloof DEF Aloof, Unowned
    <3>2. ~PlainOp(own)
        BY DEF PlainOp
    <3>3. own \notin {todo[x][i] : i \in DOMAIN todo[x]}
        BY <2>1, <3>2 DEF Plain, ToSet
    <3>4. QED
        BY <3>1, <3>3
  <2>2. CASE \E c : todo[x] = <<c>>
    <3>1. PICK c : todo[x] = <<c>>
        BY <2>2
    <3>2. {todo[x][i] : i \in DOMAIN todo[x]} = {c}
        BY <3>1
    <3>3. todo[x] = Owned(m) <=> c = own
        BY <3>1, OneEntry DEF Owned
    <3>4. QED
        BY <3>2, <3>3
  <2>3. CASE \E q \in Queues : \E n \in Int : todo[x] = GetOps(q, n)
    <3>1. PICK q \in Queues, n \in Int : todo[x] = GetOps(q, n)
        BY <2>3
    <3>2. {todo[x][i] : i \in DOMAIN todo[x]} = {PendOp(q, n), [op |-> "take", q |-> q]}
        BY <3>1 DEF GetOps
    <3>3. own # PendOp(q, n) /\ own # [op |-> "take", q |-> q]
      <4>1. PendOp(q, n).op = "pend" /\ own.op = "owned" /\ [op |-> "take", q |-> q].op = "take"
          BY DEF PendOp
      <4>2. QED
          BY <4>1
    <3>4. todo[x] # Owned(m)
        BY <3>1, GetEntries DEF Aloof, Unowned
    <3>5. QED
        BY <3>2, <3>3, <3>4
  <2>4. CASE \E q \in Queues : /\ Posts(todo[x], q) /\ Plain(Tail(todo[x]))
                               /\ todo[x] = <<PostOp(q)>> \o Tail(todo[x])
    <3>1. PICK q \in Queues : /\ Posts(todo[x], q) /\ Plain(Tail(todo[x]))
                              /\ todo[x] = <<PostOp(q)>> \o Tail(todo[x])
        BY <2>4
    <3> DEFINE T == {PostOp(q)} \union ToSet(Tail(todo[x]))
    <3>2. <<PostOp(q)>> \in Seq(T) /\ Tail(todo[x]) \in Seq(T)
      <4>1. Tail(todo[x]) \in Seq(ToSet(Tail(todo[x]))) /\ ToSet(Tail(todo[x])) \subseteq T
          BY <3>1 DEF Plain
      <4> HIDE DEF T
      <4>2. Tail(todo[x]) \in Seq(T)
          BY <4>1, SeqMonotonic
      <4>3. PostOp(q) \in T
          BY DEF T
      <4>4. QED
          BY <4>2, <4>3
    <3>3. todo[x] \in Seq(T)
        BY <3>1, <3>2, ConcatProperties
    <3>4. own \notin T
      <4>1. PostOp(q).op = "post" /\ own.op = "owned"
          BY DEF PostOp
      <4>2. ~PlainOp(own)
          BY DEF PlainOp
      <4>3. QED
          BY <3>1, <4>1, <4>2 DEF Plain
    <3> HIDE DEF T
    <3>5. own \notin {todo[x][i] : i \in DOMAIN todo[x]}
        BY <3>3, <3>4, ElementOfSeq, LenProperties
    <3>6. todo[x] # Owned(m)
        BY <3>1, QueueLists DEF Unowned
    <3>7. QED
        BY <3>5, <3>6
  <2>5. Entries(x, todo[x])
      BY DEF IInv, TodoRight
  <2>6. QED
      BY <2>1, <2>2, <2>3, <2>4, <2>5 DEF Entries, Acquire, Owned, Take
<1>2. heirs = Heirs(m)
    BY <1>1 DEF Heirs, Active
<1>3. OwnerRight(m) /\ os.sem[m].count \in Int
    BY KernelSems DEF IInv, MutexRight, Sound, Loose, KernelStates
<1> HIDE DEF heirs
<1>4. Cardinality(heirs) + B2N(mutex[m].owner # None) + B2N(os.sem[m].count > 0) = 1
  <2>1. CASE os.sem[m].count = 1 /\ mutex[m].owner = None /\ Heirs(m) = {}
      BY <1>2, <2>1, FS_EmptySet DEF B2N
  <2>2. CASE os.sem[m].count <= 0 /\ mutex[m].owner # None /\ Heirs(m) = {}
      BY <1>2, <1>3, <2>2, FS_EmptySet DEF B2N
  <2>3. CASE os.sem[m].count <= 0 /\ mutex[m].owner = None /\ \E x \in Threads : Heirs(m) = {x}
    <3>1. Cardinality(heirs) = 1
        BY <1>2, <2>3, FS_Singleton
    <3>2. B2N(mutex[m].owner # None) = 0 /\ B2N(os.sem[m].count > 0) = 0
        BY <1>3, <2>3 DEF B2N
    <3>3. QED
        BY <3>1, <3>2
  <2>4. QED
      BY <1>3, <2>1, <2>2, <2>3 DEF OwnerRight
<1>5. QED
    BY <1>4 DEF heirs

(* The code wraps an index around by a comparison, as the modulus does.      *)
LEMMA SlotModulo ==
  ASSUME NEW a \in 0 .. Capacity - 1, NEW i \in 0 .. Capacity - 1
  PROVE  Slot(a, i) = (a + i) % Capacity
<1>1. Capacity \in Nat /\ Capacity > 0 /\ a \in Nat /\ i \in Nat /\ a < Capacity /\ i < Capacity
    BY RtosAssumption
<1>2. QED
    BY <1>1 DEF Slot

LEMMA IInvFifo == IInv => QueueIsFifo
<1> SUFFICES ASSUME IInv, NEW q \in Queues
             PROVE  /\ mq[q].used \in 0 .. Capacity
                    /\ sent[q] = got[q] \o [i \in 1 .. mq[q].used |->
                                              mq[q].ring[(mq[q].read + i - 1) % Capacity]]
    BY DEF QueueIsFifo
<1> DEFINE b == mq[q]
           s == sent[q]
           g == got[q]
           f == [i \in 1 .. b.used |-> b.ring[(b.read + i - 1) % Capacity]]
<1>1. RingHas(b, s, g)
    BY DEF IInv, FifoRight, FifoOf
<1>2. Capacity \in Nat /\ b.used \in Nat /\ b.used <= Capacity /\ b.read \in 0 .. Capacity - 1
    BY <1>1, RtosAssumption DEF RingHas
<1>3. PICK T : s \in Seq(T) /\ g \in Seq(T)
    BY <1>1 DEF RingHas
<1>4. ASSUME NEW i \in 1 .. b.used
      PROVE  f[i] = s[Len(g) + i]
  <2>1. i - 1 \in 0 .. Capacity - 1
      BY <1>2
  <2>2. b.read + i - 1 = b.read + (i - 1)
      BY <1>2
  <2>3. Slot(b.read, i - 1) = (b.read + i - 1) % Capacity
      BY <1>2, <2>1, <2>2, SlotModulo
  <2>4. QED
      BY <1>1, <2>3 DEF RingHas
<1>5. Len(s) = Len(g) + b.used /\ \A i \in 1 .. Len(g) : s[i] = g[i]
    BY <1>1 DEF RingHas
<1>6. Len(g) \in Nat /\ Len(s) \in Nat
    BY <1>3, LenProperties
<1>7. f \in Seq(T) /\ Len(f) = b.used
  <2>1. \A i \in 1 .. Len(s) : s[i] \in T
      BY <1>3, ElementOfSeq
  <2>2. \A i \in 1 .. b.used : Len(g) + i \in 1 .. Len(s)
      BY <1>2, <1>5, <1>6
  <2>3. \A i \in 1 .. b.used : f[i] \in T
      BY <1>4, <2>1, <2>2
  <2>4. DOMAIN f = 1 .. b.used /\ f = [i \in 1 .. b.used |-> f[i]]
      OBVIOUS
  <2> HIDE DEF f
  <2>5. f \in [1 .. b.used -> T]
      BY <2>3, <2>4
  <2>6. f \in Seq(T)
      BY <1>2, <2>5, SeqDef
  <2>7. QED
      BY <1>2, <2>4, <2>6, LenProperties
<1> HIDE DEF f
<1>8. /\ g \o f \in Seq(T) /\ Len(g \o f) = Len(g) + Len(f)
      /\ \A i \in 1 .. Len(g) + Len(f) : (g \o f)[i] = IF i <= Len(g) THEN g[i] ELSE f[i - Len(g)]
    BY <1>3, <1>7, ConcatProperties
<1>9. ASSUME NEW i \in 1 .. Len(s)
      PROVE  s[i] = (g \o f)[i]
  <2>1. CASE i <= Len(g)
    <3>1. i \in 1 .. Len(g)
        BY <1>6, <2>1
    <3>2. QED
        BY <1>2, <1>5, <1>6, <1>7, <1>8, <2>1, <3>1
  <2>2. CASE ~(i <= Len(g))
    <3>1. i - Len(g) \in 1 .. b.used /\ Len(g) + (i - Len(g)) = i
        BY <1>2, <1>5, <1>6, <2>2
    <3>2. f[i - Len(g)] = s[i]
        BY <1>4, <3>1
    <3>3. i \in 1 .. Len(g) + Len(f)
        BY <1>5, <1>7
    <3>4. QED
        BY <1>8, <2>2, <3>2, <3>3
  <2>3. QED
      BY <2>1, <2>2
<1>10. Len(s) = Len(g \o f)
    BY <1>5, <1>7, <1>8
<1>11. s = g \o f
    BY <1>3, <1>8, <1>9, <1>10, SeqEqual
<1>12. QED
    BY <1>2, <1>11 DEF f

(* Every thread is on the one list that its state names, a negative count is *)
(* the number of threads that wait, and the list of those that are ready is  *)
(* sorted, for any number of threads and whatever they call.                 *)
THEOREM ListsAreSound == Spec => []ListsSound
BY Inductive, IInvLists, PTL

(* A mutex is free, owned, or handed to one thread that is to be its owner:  *)
(* never two of these, and never none.                                       *)
THEOREM MutexesExclude == Spec => []OwnersExclude
BY Inductive, IInvOwners, PTL

(* What a queue accepted is received once and in order, however many threads *)
(* send to it and wait for it, and whichever of them give up.                *)
THEOREM QueuesFifo == Spec => []QueueIsFifo
BY Inductive, IInvFifo, PTL

-----------------------------------------------------------------------------
(* The clock *)

(* The difference of two readings of the clock, and a reading some ticks     *)
(* later, without a modulus.                                                 *)
LEMMA DiffCases ==
  ASSUME NEW a \in Tick, NEW b \in Tick
  PROVE  LET d == IF a >= b THEN a - b ELSE a - b + TimeMod
         IN  Diff(a, b) = IF 2 * d >= TimeMod THEN d - TimeMod ELSE d
<1> DEFINE d == IF a >= b THEN a - b ELSE a - b + TimeMod
<1>1. TimeMod \in Nat /\ TimeMod > 1 /\ a \in 0 .. TimeMod - 1 /\ b \in 0 .. TimeMod - 1
    BY KernelAssumption DEF Tick
<1>2. (a - b) % TimeMod = d
    BY <1>1
<1>3. QED
    BY <1>2 DEF Diff

(* A reading of the clock n ticks later.                                     *)
LEMMA LaterCases ==
  ASSUME NEW a \in Tick, NEW n \in 0 .. TimeMod - 1
  PROVE  Later(a, n) \in Tick /\ Later(a, n) = IF a + n < TimeMod THEN a + n ELSE a + n - TimeMod
<1>1. TimeMod \in Nat /\ TimeMod > 1 /\ a \in 0 .. TimeMod - 1 /\ n \in Nat /\ n < TimeMod
    BY KernelAssumption DEF Tick
<1>2. (a + n) % TimeMod = IF a + n < TimeMod THEN a + n ELSE a + n - TimeMod
    BY <1>1
<1>3. QED
    BY <1>1, <1>2 DEF Later, Tick

(* Half of the range of the clock lies ahead of a reading.                   *)
LEMMA DiffRange ==
  ASSUME NEW a \in Tick, NEW b \in Tick
  PROVE  Diff(a, b) \in Int /\ 2 * Diff(a, b) < TimeMod
<1>1. TimeMod \in Nat /\ TimeMod > 1 /\ a \in 0 .. TimeMod - 1 /\ b \in 0 .. TimeMod - 1
    BY KernelAssumption DEF Tick
<1>2. QED
    BY <1>1, DiffCases

(* So much remains of a wait at its begin.                                   *)
LEMMA DiffLater ==
  ASSUME NEW a \in Tick, NEW n \in Nat, 2 * n < TimeMod
  PROVE  Diff(Later(a, n), a) = n
<1>1. TimeMod \in Nat /\ TimeMod > 1 /\ a \in 0 .. TimeMod - 1 /\ n \in 0 .. TimeMod - 1
    BY KernelAssumption DEF Tick
<1>2. Later(a, n) \in Tick /\ Later(a, n) = IF a + n < TimeMod THEN a + n ELSE a + n - TimeMod
    BY <1>1, LaterCases
<1>3. Later(a, n) \in 0 .. TimeMod - 1
    BY <1>2 DEF Tick
<1>4. QED
    BY <1>1, <1>2, <1>3, DiffCases

(* A tick less remains of it after a tick.                                   *)
LEMMA DiffTick ==
  ASSUME NEW a \in Tick, NEW now \in Tick, Diff(a, now) > 0
  PROVE  Diff(a, Later(now, 1)) = Diff(a, now) - 1
<1>1. TimeMod \in Nat /\ TimeMod > 1 /\ a \in 0 .. TimeMod - 1 /\ now \in 0 .. TimeMod - 1
      /\ 1 \in 0 .. TimeMod - 1
    BY KernelAssumption DEF Tick
<1>2. Later(now, 1) \in Tick /\ Later(now, 1) = IF now + 1 < TimeMod THEN now + 1 ELSE now + 1 - TimeMod
    BY <1>1, LaterCases
<1>3. Later(now, 1) \in 0 .. TimeMod - 1
    BY <1>2 DEF Tick
<1> DEFINE d == IF a >= now THEN a - now ELSE a - now + TimeMod
           z == Later(now, 1)
           e == IF a >= z THEN a - z ELSE a - z + TimeMod
<1>4. Diff(a, now) = IF 2 * d >= TimeMod THEN d - TimeMod ELSE d
    BY DiffCases
<1>5. Diff(a, z) = IF 2 * e >= TimeMod THEN e - TimeMod ELSE e
    BY <1>2, DiffCases
<1>6. QED
    BY <1>1, <1>2, <1>3, <1>4, <1>5

(* Of two readings ahead of the present one, the difference tells which      *)
(* comes first, although the clock wraps around between them.                *)
LEMMA DiffApart ==
  ASSUME NEW a \in Tick, NEW b \in Tick, NEW now \in Tick, Diff(a, now) >= 0, Diff(b, now) >= 0
  PROVE  Diff(a, b) = Diff(a, now) - Diff(b, now)
<1>1. /\ TimeMod \in Nat /\ TimeMod > 1 /\ a \in 0 .. TimeMod - 1 /\ b \in 0 .. TimeMod - 1
      /\ now \in 0 .. TimeMod - 1
    BY KernelAssumption DEF Tick
<1> DEFINE d == IF a >= now THEN a - now ELSE a - now + TimeMod
           e == IF b >= now THEN b - now ELSE b - now + TimeMod
           f == IF a >= b THEN a - b ELSE a - b + TimeMod
<1>2. Diff(a, now) = (IF 2 * d >= TimeMod THEN d - TimeMod ELSE d) /\ d \in Nat /\ d < TimeMod
    BY <1>1, DiffCases
<1>3. Diff(b, now) = (IF 2 * e >= TimeMod THEN e - TimeMod ELSE e) /\ e \in Nat /\ e < TimeMod
    BY <1>1, DiffCases
<1>4. Diff(a, b) = IF 2 * f >= TimeMod THEN f - TimeMod ELSE f
    BY DiffCases
<1>5. Diff(a, now) = d /\ 2 * d < TimeMod
    BY <1>1, <1>2
<1>6. Diff(b, now) = e /\ 2 * e < TimeMod
    BY <1>1, <1>3
<1>7. f = IF d >= e THEN d - e ELSE d - e + TimeMod
    BY <1>1
<1> HIDE DEF d, e, f
<1>8. QED
    BY <1>1, <1>2, <1>3, <1>4, <1>5, <1>6, <1>7

(* What lies ahead and is not behind is no present reading.                  *)
LEMMA DiffPresent ==
  ASSUME NEW a \in Tick, NEW b \in Tick, Diff(a, b) >= 0, ~(Diff(b, a) >= 0)
  PROVE  Diff(a, b) > 0
<1>1. TimeMod \in Nat /\ TimeMod > 1 /\ a \in 0 .. TimeMod - 1 /\ b \in 0 .. TimeMod - 1
    BY KernelAssumption DEF Tick
<1> DEFINE d == IF a >= b THEN a - b ELSE a - b + TimeMod
           e == IF b >= a THEN b - a ELSE b - a + TimeMod
<1>2. Diff(a, b) = IF 2 * d >= TimeMod THEN d - TimeMod ELSE d
    BY DiffCases
<1>3. Diff(b, a) = IF 2 * e >= TimeMod THEN e - TimeMod ELSE e
    BY DiffCases
<1>4. QED
    BY <1>1, <1>2, <1>3

\* How long thread x still has to wait; the list of timeouts is in the order of
\* what is left, nobody's time is over, or nobody's has even come.
Wait(o, x) == Diff(o.due[x], o.now)
InTurn(o)  == \A i, j \in 1 .. Len(o.timeouts) : i < j => Wait(o, o.timeouts[i]) <= Wait(o, o.timeouts[j])
InTime(o)  == InTurn(o) /\ \A x \in ToSet(o.timeouts) : Wait(o, x) >= 0
NoneDue(o) == \A x \in ToSet(o.timeouts) : Wait(o, x) > 0

\* The waits of r are no worse than those of o.
WaitsKept(o, r) == InTime(o) => InTime(r) /\ (NoneDue(o) => NoneDue(r))

(* What is left of a wait, as a number.                                      *)
LEMMA WaitType ==
  ASSUME NEW o \in KernelStates, NEW x \in Threads
  PROVE  Wait(o, x) \in Int /\ o.due[x] \in Tick /\ o.now \in Tick
BY DiffRange DEF Wait, KernelStates

(* Nobody's time changes.                                                    *)
LEMMA SameWaits ==
  ASSUME NEW o, NEW r, r.timeouts = o.timeouts, r.due = o.due, r.now = o.now
  PROVE  WaitsKept(o, r)
BY DEF WaitsKept, InTime, InTurn, NoneDue, Wait

(* A thread leaves the list.                                                 *)
LEMMA UnlinkWaits ==
  ASSUME NEW o, NEW r, TimeoutsRight(o), NEW t,
         r.timeouts = Unlink(o.timeouts, t), r.due = o.due, r.now = o.now
  PROVE  WaitsKept(o, r)
<1> DEFINE q == o.timeouts
           u == Unlink(q, t)
<1>1. q \in Seq(Threads) /\ IsInjective(q)
    BY DEF TimeoutsRight, Holds
<1> HIDE DEF q
<1>2. /\ u \in Seq(Threads) /\ ToSet(u) = ToSet(q) \ {t}
      /\ \A i, j \in DOMAIN u : i < j => \E a, b \in DOMAIN q : a < b /\ u[i] = q[a] /\ u[j] = q[b]
    BY <1>1, UnlinkElements
<1> HIDE DEF u
<1>3. DOMAIN q = 1 .. Len(q) /\ DOMAIN u = 1 .. Len(u)
    BY <1>1, <1>2, LenProperties
<1>4. \A x : Wait(r, x) = Wait(o, x)
    BY DEF Wait
<1>5. InTurn(o) => InTurn(r)
  <2> SUFFICES ASSUME InTurn(o), NEW i \in 1 .. Len(u), NEW j \in 1 .. Len(u), i < j
               PROVE  Wait(o, u[i]) <= Wait(o, u[j])
      BY <1>4 DEF InTurn, u, q
  <2>1. PICK a \in DOMAIN q, b \in DOMAIN q : a < b /\ u[i] = q[a] /\ u[j] = q[b]
      BY <1>2, <1>3
  <2>2. QED
      BY <1>3, <2>1 DEF InTurn, q
<1>6. ToSet(r.timeouts) \subseteq ToSet(o.timeouts)
    BY <1>2 DEF u, q
<1>7. QED
    BY <1>4, <1>5, <1>6 DEF WaitsKept, InTime, NoneDue

(* The running thread takes its place on the list: it comes after those that *)
(* have less to wait, and the others keep their order.                       *)
LEMMA TimedWaits ==
  ASSUME NEW o \in KernelStates, NEW r, TimeoutsRight(o), o.cur \notin ToSet(o.timeouts),
         NEW n \in WaitTicks \ {0}, Timed(o, r, n), r.now = o.now
  PROVE  WaitsKept(o, r)
<1> DEFINE t == o.cur
           q == o.timeouts
<1>1. /\ q \in Seq(Threads) /\ t \in Threads /\ o.now \in Tick /\ o.due \in [Threads -> Tick]
      /\ Len(q) \in Nat /\ DOMAIN q = 1 .. Len(q) /\ \A i \in 1 .. Len(q) : q[i] \in Threads
    BY LenProperties, ElementOfSeq DEF TimeoutsRight, Holds, KernelStates
<1>2. \A i \in 1 .. Len(q) : q[i] \in ToSet(q) /\ q[i] # t
    BY <1>1 DEF ToSet
<1>3. \A x \in ToSet(q) : x \in Threads /\ x # t
    BY <1>1 DEF ToSet
<1>4. r.due = [o.due EXCEPT ![t] = Later(o.now, n)]
    BY DEF Timed
<1>5. \A x \in Threads : x # t => Wait(r, x) = Wait(o, x)
    BY <1>1, <1>4 DEF Wait
<1>6. CASE n = WaitForever
  <2>1. r.timeouts = q
      BY <1>6 DEF Timed
  <2>2. InTurn(o) => InTurn(r)
      BY <1>1, <1>2, <1>5, <2>1 DEF InTurn
  <2>3. QED
      BY <1>3, <1>5, <2>1, <2>2 DEF WaitsKept, InTime, NoneDue
<1>7. CASE n # WaitForever
  <2>1. n \in Nat /\ n > 0 /\ 2 * n < TimeMod
      BY <1>7, KernelAssumption DEF WaitTicks
  <2>2. Later(o.now, n) \in Tick
    <3>1. n \in 0 .. TimeMod - 1
        BY <2>1, KernelAssumption
    <3>2. QED
        BY <1>1, <3>1, LaterCases
  <2>3. r.due[t] = Later(o.now, n) /\ Wait(r, t) = n /\ r.due \in [Threads -> Tick]
      BY <1>1, <1>4, <2>1, <2>2, DiffLater DEF Wait
  <2>4. r.timeouts = TimeoutInsert(q, t, r.due)
      BY <1>7 DEF Timed
  <2>5. PICK k \in 0 .. Len(q) :
            /\ TimeoutInsert(q, t, r.due) = InsertAt(q, k + 1, t)
            /\ \A i \in 1 .. k : Diff(r.due[t], r.due[q[i]]) > 0
            /\ k < Len(q) => ~(Diff(r.due[t], r.due[q[k + 1]]) > 0)
    <3> HIDE DEF t, q
    <3>1. QED
        BY <1>1, TimeoutFirst
  <2> DEFINE l == InsertAt(q, k + 1, t)
  <2>6. /\ l \in Seq(Threads) /\ Len(l) = Len(q) + 1
        /\ \A i \in 1 .. Len(q) + 1 : l[i] = IF i <= k THEN q[i] ELSE IF i = k + 1 THEN t ELSE q[i - 1]
        /\ ToSet(l) = ToSet(q) \union {t}
    <3> HIDE DEF t, q
    <3>1. q \in Seq(Threads) /\ t \in Threads /\ k \in 0 .. Len(q)
        BY <1>1
    <3>2. /\ InsertAt(q, k + 1, t) \in Seq(Threads)
          /\ Len(InsertAt(q, k + 1, t)) = Len(q) + 1
          /\ \A i \in 1 .. Len(q) + 1 :
                InsertAt(q, k + 1, t)[i] = IF i <= k THEN q[i] ELSE IF i = k + 1 THEN t ELSE q[i - 1]
        BY <3>1, InsertElements
    <3>3. ToSet(l) = ToSet(q) \union {t}
        BY <1>1, InsertKeeps
    <3>4. QED
        BY <3>2, <3>3
  <2>7. r.timeouts = l
      BY <2>4, <2>5
  <2> HIDE DEF l
  <2> SUFFICES ASSUME InTime(o)
               PROVE  InTime(r) /\ (NoneDue(o) => NoneDue(r))
      BY DEF WaitsKept
  <2>8. \A i \in 1 .. Len(q) : Wait(o, q[i]) \in Int /\ Wait(o, q[i]) >= 0 /\ Wait(r, q[i]) = Wait(o, q[i])
      BY <1>1, <1>2, <1>5, WaitType DEF InTime
  <2>9. \A i \in 1 .. Len(q) : Diff(r.due[t], r.due[q[i]]) = n - Wait(o, q[i])
    <3> SUFFICES ASSUME NEW i \in 1 .. Len(q)
                 PROVE  Diff(r.due[t], r.due[q[i]]) = n - Wait(o, q[i])
        OBVIOUS
    <3>1. /\ r.due[t] \in Tick /\ r.due[q[i]] \in Tick
          /\ Diff(r.due[t], o.now) = n /\ Diff(r.due[q[i]], o.now) = Wait(o, q[i])
        BY <1>1, <2>3, <2>8 DEF Wait
    <3>2. QED
        BY <1>1, <2>1, <2>8, <3>1, DiffApart
  <2>10. \A i \in 1 .. k : Wait(o, q[i]) < n
    <3> SUFFICES ASSUME NEW i \in 1 .. k
                 PROVE  Wait(o, q[i]) < n
        OBVIOUS
    <3>1. i \in 1 .. Len(q)
        BY <1>1
    <3>2. n - Wait(o, q[i]) > 0 /\ Wait(o, q[i]) \in Int
        BY <2>5, <2>8, <2>9, <3>1
    <3>3. QED
        BY <2>1, <3>2
  <2>11. \A i, j \in 1 .. Len(q) : i < j => Wait(o, q[i]) <= Wait(o, q[j])
      BY DEF InTime, InTurn
  <2>12. \A i \in k + 1 .. Len(q) : n <= Wait(o, q[i])
    <3> SUFFICES ASSUME NEW i \in k + 1 .. Len(q)
                 PROVE  n <= Wait(o, q[i])
        OBVIOUS
    <3>1. k + 1 \in 1 .. Len(q) /\ k < Len(q) /\ i \in 1 .. Len(q)
        BY <1>1
    <3>2. n <= Wait(o, q[k + 1])
        BY <2>1, <2>5, <2>8, <2>9, <3>1
    <3>3. Wait(o, q[k + 1]) <= Wait(o, q[i])
        BY <1>1, <2>8, <2>11, <3>1
    <3>4. QED
        BY <2>1, <2>8, <3>1, <3>2, <3>3
  <2>13. ASSUME NEW i \in 1 .. Len(l)
         PROVE  Wait(r, l[i]) = IF i <= k THEN Wait(o, q[i]) ELSE IF i = k + 1 THEN n ELSE Wait(o, q[i - 1])
    <3>1. CASE i <= k
      <4>1. i \in 1 .. Len(q) /\ l[i] = q[i]
          BY <1>1, <2>6, <3>1
      <4>2. QED
          BY <2>8, <3>1, <4>1
    <3>2. CASE i = k + 1
        BY <1>1, <2>3, <2>6, <3>2
    <3>3. CASE i > k + 1
      <4>1. i - 1 \in 1 .. Len(q) /\ l[i] = q[i - 1]
          BY <1>1, <2>6, <3>3
      <4>2. QED
          BY <2>8, <3>3, <4>1
    <3>4. QED
        BY <1>1, <2>6, <3>1, <3>2, <3>3
  <2>14. InTurn(r)
    <3> SUFFICES ASSUME NEW i \in 1 .. Len(l), NEW j \in 1 .. Len(l), i < j
                 PROVE  Wait(r, l[i]) <= Wait(r, l[j])
        BY <2>7 DEF InTurn
    <3> DEFINE v(z) == Wait(o, q[z])
    <3>1. \A z \in 1 .. Len(q) : v(z) \in Int
        BY <2>8
    <3>2. \A z \in 1 .. k : v(z) < n
        BY <2>10
    <3>3. \A z \in k + 1 .. Len(q) : n <= v(z)
        BY <2>12
    <3>4. \A y, z \in 1 .. Len(q) : y < z => v(y) <= v(z)
        BY <2>11
    <3>5. /\ Wait(r, l[i]) = IF i <= k THEN v(i) ELSE IF i = k + 1 THEN n ELSE v(i - 1)
          /\ Wait(r, l[j]) = IF j <= k THEN v(j) ELSE IF j = k + 1 THEN n ELSE v(j - 1)
        BY <2>13
    <3> HIDE DEF v
    <3>6. k \in Nat /\ k <= Len(q) /\ i \in Nat /\ j \in Nat /\ 1 <= i /\ j <= Len(q) + 1
        BY <1>1, <2>6
    <3>7. CASE j <= k
      <4>1. i \in 1 .. Len(q) /\ j \in 1 .. Len(q) /\ i <= k
          BY <1>1, <3>6, <3>7
      <4>2. QED
          BY <3>4, <3>5, <3>7, <4>1
    <3>8. CASE j = k + 1
      <4>1. i \in 1 .. k /\ i \in 1 .. Len(q)
          BY <1>1, <3>6, <3>8
      <4>2. v(i) \in Int /\ v(i) < n
          BY <3>1, <3>2, <4>1
      <4>3. QED
          BY <2>1, <3>5, <3>6, <3>8, <4>2
    <3>9. CASE j > k + 1
      <4>1. j - 1 \in k + 1 .. Len(q) /\ j - 1 \in 1 .. Len(q) /\ Wait(r, l[j]) = v(j - 1) /\ n <= v(j - 1)
          BY <1>1, <3>3, <3>5, <3>6, <3>9
      <4>2. CASE i <= k
        <5>1. i \in 1 .. Len(q) /\ i < j - 1
            BY <1>1, <3>6, <3>9, <4>2
        <5>2. QED
            BY <3>4, <3>5, <4>1, <4>2, <5>1
      <4>3. CASE i = k + 1
          BY <3>5, <3>6, <4>1, <4>3
      <4>4. CASE i > k + 1
        <5>1. i - 1 \in 1 .. Len(q) /\ i - 1 < j - 1
            BY <1>1, <3>6, <4>4
        <5>2. v(i - 1) <= v(j - 1) /\ Wait(r, l[i]) = v(i - 1)
            BY <3>4, <3>5, <3>6, <4>1, <4>4, <5>1
        <5>3. QED
            BY <4>1, <5>2
      <4>5. QED
          BY <3>6, <4>2, <4>3, <4>4
    <3>10. QED
        BY <3>6, <3>7, <3>8, <3>9
  <2>15. \A x \in ToSet(l) : x = t \/ x \in ToSet(q)
      BY <2>6
  <2>16. \A x \in ToSet(q) : Wait(r, x) = Wait(o, x)
      BY <1>3, <1>5
  <2>17. \A x \in ToSet(l) : Wait(r, x) >= 0
      BY <2>1, <2>3, <2>15, <2>16 DEF InTime
  <2>18. NoneDue(o) => NoneDue(r)
      BY <2>1, <2>3, <2>7, <2>15, <2>16 DEF NoneDue
  <2>19. QED
      BY <2>7, <2>14, <2>17, <2>18 DEF InTime
<1>8. QED
    BY <1>6, <1>7

(* The operators of the kernel: whoever goes to sleep does so for a time     *)
(* that lies ahead, and nobody else's changes.  First the scheduler.         *)
LEMMA SwappedWaits ==
  ASSUME NEW o, NEW r, Swapped(o, r)
  PROVE  WaitsKept(o, r)
BY SameWaits DEF Swapped

(* OS_SemaphorePend.                                                         *)
LEMMA PendKeepsWaits ==
  ASSUME NEW o, Sound(o), ~o.inside, o.cur # Idle, NEW s \in Sems, NEW n \in WaitTicks
  PROVE  WaitsKept(o, Pend(o, s, n))
<1> DEFINE r == Pend(o, s, n)
<1>1. o \in KernelStates /\ o.sem[s].count \in Int /\ TimeoutsRight(o) /\ o.cur \in Threads
    BY DEF Sound, Loose, KernelStates
<1>2. n \in Int
    BY KernelAssumption DEF WaitTicks, WaitForever
<1>3. CASE o.sem[s].count > 0
  <2>1. Swapped([o EXCEPT !.sem = r.sem, !.rc = r.rc], r)
      BY <1>2, <1>3, PendTakes
  <2> HIDE DEF r
  <2>2. r.timeouts = o.timeouts /\ r.due = o.due /\ r.now = o.now
      BY <1>1, <2>1 DEF Swapped, KernelStates
  <2>3. QED
      BY <2>2, SameWaits DEF r
<1>4. CASE o.sem[s].count <= 0 /\ n = 0
  <2>1. Swapped([o EXCEPT !.rc = r.rc], r)
      BY <1>4, PendGivesUp
  <2> HIDE DEF r
  <2>2. r.timeouts = o.timeouts /\ r.due = o.due /\ r.now = o.now
      BY <1>1, <2>1 DEF Swapped, KernelStates
  <2>3. QED
      BY <2>2, SameWaits DEF r
<1>5. CASE o.sem[s].count <= 0 /\ n # 0
  <2>1. n \in Int \ {0} /\ n \in WaitTicks \ {0}
      BY <1>2, <1>5
  <2>2. Timed(o, r, n) /\ r.now = o.now
      BY <1>5, <2>1, PendTimed
  <2>3. o.cur \notin ToSet(o.timeouts)
      BY <1>1 DEF TimeoutsRight, Sound, Loose, WaitsRight
  <2> HIDE DEF r
  <2>4. QED
      BY <1>1, <2>1, <2>2, <2>3, TimedWaits DEF r
<1>6. QED
    BY <1>1, <1>3, <1>4, <1>5

(* OS_SemaphorePost: who is woken leaves the list of timeouts.               *)
LEMMA PostKeepsWaits ==
  ASSUME NEW o, Sound(o), NEW s \in Sems
  PROVE  WaitsKept(o, Post(o, s)) /\ Sound(Post(o, s))
<1> DEFINE r == Post(o, s)
<1>1. o \in KernelStates /\ o.sem[s].count \in Int /\ TimeoutsRight(o)
    BY DEF Sound, Loose, KernelStates
<1>2. CASE o.sem[s].count >= 0
  <2>1. Sound(r) /\ Swapped([o EXCEPT !.sem = r.sem], r)
      BY <1>2, PostCounts
  <2> HIDE DEF r
  <2>2. r.timeouts = o.timeouts /\ r.due = o.due /\ r.now = o.now
      BY <1>1, <2>1 DEF Swapped, KernelStates
  <2>3. QED
      BY <2>1, <2>2, SameWaits DEF r
<1>3. CASE o.sem[s].count < 0
  <2>1. Sound(r) /\ \E t \in Threads : Woken(o, r, t, s, 0)
      BY <1>3, PostWakes
  <2> HIDE DEF r
  <2>2. PICK t \in Threads : r.timeouts = Unlink(o.timeouts, t) /\ r.due = o.due /\ r.now = o.now
      BY <2>1 DEF Woken
  <2>3. QED
      BY <1>1, <2>1, <2>2, UnlinkWaits DEF r
<1>4. QED
    BY <1>1, <1>2, <1>3

(* A turn of the loop of OS_ThreadTick.                                      *)
LEMMA ExpireKeepsWaits ==
  ASSUME NEW o, Sound(o), o.timeouts # <<>>
  PROVE  WaitsKept(o, Expire(o))
<1>1. TimeoutsRight(o)
    BY DEF Sound, Loose
<1>2. PICK t \in ToSet(o.timeouts), s \in Sems : Woken(o, Expire(o), t, s, -1)
    BY ExpireKeeps
<1>3. QED
    BY <1>1, <1>2, UnlinkWaits DEF Woken

(* OS_ThreadPrioritySet.                                                     *)
LEMMA PrioritySetWaits ==
  ASSUME NEW o, Sound(o), NEW t \in Threads, NEW p \in Nat
  PROVE  WaitsKept(o, PrioritySet(o, t, p))
<1> DEFINE r == PrioritySet(o, t, p)
           prio == [o.prio EXCEPT ![t] = p]
<1>1. Swapped([o EXCEPT !.prio = prio], r) /\ o \in KernelStates
    BY PrioritySetKeeps DEF Repriced, Sound, Loose
<1> HIDE DEF r, prio
<1>2. r.timeouts = o.timeouts /\ r.due = o.due /\ r.now = o.now
    BY <1>1 DEF Swapped, KernelStates
<1>3. QED
    BY <1>2, SameWaits DEF r

(* The return from an interrupt.                                             *)
LEMMA LeaveIsrWaits ==
  ASSUME NEW o, Sound(o)
  PROVE  WaitsKept(o, LeaveIsr(o))
<1> DEFINE r == LeaveIsr(o)
<1>1. Swapped([o EXCEPT !.inside = FALSE], r) /\ o \in KernelStates
    BY LeaveIsrKeeps DEF Sound, Loose
<1> HIDE DEF r
<1>2. r.timeouts = o.timeouts /\ r.due = o.due /\ r.now = o.now
    BY <1>1 DEF Swapped, KernelStates
<1>3. QED
    BY <1>2, SameWaits DEF r

(* With the tick, a tick less is left to everybody.                          *)
LEMMA TickWaits ==
  ASSUME NEW o, Sound(o), InTime(o), NoneDue(o)
  PROVE  InTime([o EXCEPT !.inside = TRUE, !.now = Later(o.now, 1)])
<1> DEFINE r == [o EXCEPT !.inside = TRUE, !.now = Later(o.now, 1)]
           q == o.timeouts
<1>1. o \in KernelStates /\ q \in Seq(Threads) /\ o.now \in Tick
    BY DEF Sound, Loose, KernelStates
<1>2. Len(q) \in Nat /\ DOMAIN q = 1 .. Len(q) /\ \A i \in 1 .. Len(q) : q[i] \in Threads /\ q[i] \in ToSet(q)
    BY <1>1, LenProperties, ElementOfSeq DEF ToSet
<1>3. r.timeouts = q /\ r.due = o.due /\ r.now = Later(o.now, 1)
    BY <1>1 DEF KernelStates
<1> HIDE DEF r
<1>4. ASSUME NEW x \in ToSet(q)
      PROVE  Wait(o, x) \in Int /\ Wait(o, x) > 0 /\ Wait(r, x) = Wait(o, x) - 1
  <2>1. x \in Threads
      BY <1>2 DEF ToSet
  <2>2. Wait(o, x) \in Int /\ o.due[x] \in Tick /\ Wait(o, x) > 0
      BY <1>1, <2>1, WaitType DEF NoneDue
  <2>3. QED
      BY <1>1, <1>3, <2>2, DiffTick DEF Wait
<1>5. \A i, j \in 1 .. Len(q) : i < j => Wait(r, q[i]) <= Wait(r, q[j])
  <2> SUFFICES ASSUME NEW i \in 1 .. Len(q), NEW j \in 1 .. Len(q), i < j
               PROVE  Wait(r, q[i]) <= Wait(r, q[j])
      OBVIOUS
  <2>1. Wait(o, q[i]) <= Wait(o, q[j])
      BY DEF InTime, InTurn
  <2>2. QED
      BY <1>2, <1>4, <2>1
<1>6. \A x \in ToSet(q) : Wait(r, x) >= 0
    BY <1>4
<1>7. QED
    BY <1>3, <1>5, <1>6 DEF InTime, InTurn, r

(* When the handler of the tick has woken all who are due, nobody is.        *)
LEMMA NoneOverdue ==
  ASSUME NEW o, Sound(o), InTime(o), ~Overdue(o)
  PROVE  NoneDue(o)
<1> DEFINE q == o.timeouts
<1>1. o \in KernelStates /\ q \in Seq(Threads) /\ o.now \in Tick
    BY DEF Sound, Loose, KernelStates
<1>2. Len(q) \in Nat /\ DOMAIN q = 1 .. Len(q) /\ \A i \in 1 .. Len(q) : q[i] \in Threads /\ q[i] \in ToSet(q)
    BY <1>1, LenProperties, ElementOfSeq DEF ToSet
<1> SUFFICES ASSUME NEW i \in 1 .. Len(q)
             PROVE  Wait(o, q[i]) > 0
    BY <1>2 DEF NoneDue, ToSet
<1>3. q # <<>> /\ 1 \in 1 .. Len(q) /\ Head(q) = q[1]
    BY <1>1, <1>2, EmptySeq
<1>4. Wait(o, q[1]) > 0
  <2>1. ~(Diff(o.now, o.due[q[1]]) >= 0)
      BY <1>3 DEF Overdue
  <2>2. o.due[q[1]] \in Tick /\ Diff(o.due[q[1]], o.now) >= 0
      BY <1>1, <1>2, <1>3, WaitType DEF InTime, Wait
  <2>3. QED
      BY <1>1, <2>1, <2>2, DiffPresent DEF Wait
<1>5. CASE i = 1
    BY <1>4, <1>5
<1>6. CASE i # 1
  <2>1. Wait(o, q[1]) <= Wait(o, q[i])
      BY <1>2, <1>3, <1>6 DEF InTime, InTurn
  <2>2. Wait(o, q[1]) \in Int /\ Wait(o, q[i]) \in Int
      BY <1>1, <1>2, <1>3, WaitType
  <2>3. QED
      BY <1>4, <2>1, <2>2
<1>7. QED
    BY <1>5, <1>6

-----------------------------------------------------------------------------
(* How long calls ask to wait *)

\* An entry that starts no timer, and does not wait longer than the clock can tell.
BriefOp(e) == e.op \notin {"aim", "arm"} /\ (e.op = "pend" => e.ticks \in WaitTicks)
Brief(l)   == l \in Seq(ToSet(l)) /\ \A e \in ToSet(l) : BriefOp(e)

(* Lists of such entries, as for plain ones.                                 *)
LEMMA BriefList ==
  ASSUME NEW T, NEW q \in Seq(T), \A e \in T : BriefOp(e)
  PROVE  Brief(q)
<1>1. Len(q) \in Nat /\ DOMAIN q = 1 .. Len(q) /\ \A i \in 1 .. Len(q) : q[i] \in T
    BY LenProperties, ElementOfSeq
<1>2. ToSet(q) \subseteq T
    BY <1>1 DEF ToSet
<1>3. q \in Seq(ToSet(q))
  <2>1. q = [i \in 1 .. Len(q) |-> q[i]] /\ \A i \in 1 .. Len(q) : q[i] \in ToSet(q)
      BY <1>1 DEF ToSet
  <2>2. QED
      BY <1>1, <2>1, SeqDef
<1>4. QED
    BY <1>2, <1>3 DEF Brief

(* No entry.                                                                 *)
LEMMA BriefEmpty == Brief(<<>>)
<1> DEFINE T == {}
<1>1. <<>> \in Seq(T) /\ \A e \in T : BriefOp(e)
    OBVIOUS
<1> HIDE DEF T
<1>2. QED
    BY <1>1, BriefList

(* One entry, or two.                                                        *)
LEMMA BriefTwo ==
  ASSUME NEW a, NEW b, BriefOp(a), BriefOp(b)
  PROVE  Brief(<<a>>) /\ Brief(<<a, b>>)
<1> DEFINE T == {a, b}
<1>1. <<a>> \in Seq(T) /\ <<a, b>> \in Seq(T) /\ \A e \in T : BriefOp(e)
    OBVIOUS
<1> HIDE DEF T
<1>2. QED
    BY <1>1, BriefList

(* One list before another.                                                  *)
LEMMA BriefConcat ==
  ASSUME NEW p, NEW q, Brief(p), Brief(q)
  PROVE  Brief(p \o q)
<1>1. p \in Seq(ToSet(p) \union ToSet(q)) /\ q \in Seq(ToSet(p) \union ToSet(q))
    BY DEF Brief
<1>2. p \o q \in Seq(ToSet(p) \union ToSet(q))
    BY <1>1, ConcatProperties
<1>3. \A e \in ToSet(p) \union ToSet(q) : BriefOp(e)
    BY DEF Brief
<1>4. QED
    BY <1>2, <1>3, BriefList

(* The first entry, and the rest.                                            *)
LEMMA BriefParts ==
  ASSUME NEW q, Brief(q), q # <<>>
  PROVE  BriefOp(Head(q)) /\ Brief(Tail(q))
<1>1. q \in Seq(ToSet(q)) /\ \A e \in ToSet(q) : BriefOp(e)
    BY DEF Brief
<1>2. Head(q) \in ToSet(q) /\ Tail(q) \in Seq(ToSet(q))
    BY <1>1, HeadTailProperties
<1>3. QED
    BY <1>1, <1>2, BriefList

(* An entry that is a wait without an end, or a post.                        *)
LEMMA BriefOps == \A s : BriefOp(PendOp(s, WaitForever)) /\ BriefOp(PostOp(s))
BY DEF BriefOp, PendOp, PostOp, WaitTicks

(* What the kernel does under its own semaphores it waits for without an end. *)
LEMMA BriefLocked ==
  ASSUME NEW s, NEW ops, Brief(ops)
  PROVE  Brief(Locked(s, ops))
<1>1. Brief(<<PendOp(s, WaitForever)>>) /\ Brief(<<PostOp(s)>>)
    BY BriefOps, BriefTwo
<1>2. Brief(<<PendOp(s, WaitForever)>> \o ops)
    BY <1>1, BriefConcat
<1>3. QED
    BY <1>1, <1>2, BriefConcat DEF Locked

(* The calls of the heap and of the life of threads.                         *)
LEMMA BriefHeap ==
  /\ \A h, n : Brief(MallocOps(h, n))
  /\ \A b : Brief(FreeOps(b))
  /\ Brief(FreeThreadOps) /\ Brief(ExitOps)
  /\ \A x : Brief(CreateOps(x))
<1>1. ASSUME NEW h, NEW n
      PROVE  Brief(MallocOps(h, n))
  <2>1. BriefOp([op |-> "carve", h |-> h, n |-> n])
      BY DEF BriefOp
  <2>2. QED
      BY <2>1, BriefOps, BriefTwo DEF MallocOps
<1>2. ASSUME NEW b
      PROVE  Brief(FreeOps(b))
  <2>1. BriefOp([op |-> "release", b |-> b])
      BY DEF BriefOp
  <2>2. QED
      BY <2>1, BriefTwo, BriefLocked DEF FreeOps
<1>3. Brief(FreeThreadOps)
  <2>1. BriefOp([op |-> "testFree"]) /\ BriefOp([op |-> "clearFree"])
      BY DEF BriefOp
  <2>2. QED
      BY <2>1, BriefTwo, BriefLocked DEF FreeThreadOps
<1>4. Brief(ExitOps)
  <2>1. BriefOp([op |-> "die"])
      BY DEF BriefOp
  <2>2. QED
      BY <1>3, <2>1, BriefTwo, BriefConcat DEF ExitOps
<1>5. ASSUME NEW x
      PROVE  Brief(CreateOps(x))
  <2>1. BriefOp([op |-> "spawn", x |-> x])
      BY DEF BriefOp
  <2>2. Brief(FreeThreadOps \o MallocOps(SystemHeap, BlockUnits.thread))
      BY <1>1, <1>3, BriefConcat
  <2>3. QED
      BY <2>1, <2>2, BriefTwo, BriefConcat DEF CreateOps
<1>6. QED
    BY <1>1, <1>2, <1>3, <1>4, <1>5

(* The calls of queues, jobs and timers.                                     *)
LEMMA BriefTimers ==
  /\ \A q, v : Brief(SendOps(q, v))
  /\ \A f : Brief(JobOps(f))
  /\ \A x : Brief(StopOps(x)) /\ Brief(TimerOps(x))
  /\ Brief(ScanOps) /\ Brief(TimerLoop)
<1>1. ASSUME NEW q, NEW v
      PROVE  Brief(SendOps(q, v))
  <2>1. BriefOp([op |-> "put", q |-> q, v |-> v])
      BY DEF BriefOp
  <2>2. QED
      BY <2>1, BriefTwo DEF SendOps
<1>2. ASSUME NEW f
      PROVE  Brief(JobOps(f))
  <2>1. BriefOp([op |-> "needQueue"])
      BY DEF BriefOp
  <2>2. QED
      BY <1>1, <2>1, BriefTwo, BriefConcat DEF JobOps
<1>3. ASSUME NEW x
      PROVE  Brief(StopOps(x))
  <2>1. BriefOp([op |-> "disarm", x |-> x])
      BY DEF BriefOp
  <2>2. QED
      BY <2>1, BriefTwo, BriefLocked DEF StopOps
<1>4. ASSUME NEW x
      PROVE  Brief(TimerOps(x))
  <2>1. BriefOp([op |-> "needThread"]) /\ BriefOp([op |-> "newTimer", x |-> x])
      BY DEF BriefOp
  <2>2. Brief(Locked("lock", <<[op |-> "needThread"]>>))
      BY <2>1, BriefTwo, BriefLocked
  <2>3. Brief(Locked("lock", <<[op |-> "needThread"]>>) \o MallocOps(SystemHeap, BlockUnits.timer))
      BY <2>2, BriefHeap, BriefConcat
  <2>4. QED
      BY <2>1, <2>3, BriefTwo, BriefConcat DEF TimerOps
<1>5. Brief(ScanOps)
  <2>1. BriefOp([op |-> "pick"]) /\ BriefOp([op |-> "fire"])
      BY DEF BriefOp
  <2>2. Brief(Locked("lock", <<[op |-> "pick"]>>))
      BY <2>1, BriefTwo, BriefLocked
  <2>3. QED
      BY <2>1, <2>2, BriefTwo, BriefConcat DEF ScanOps
<1>6. Brief(TimerLoop)
  <2>1. BriefOp([op |-> "howLong"]) /\ BriefOp([op |-> "nap"]) /\ BriefOp([op |-> "stamp"])
      BY DEF BriefOp
  <2>2. Brief(Locked("lock", <<[op |-> "howLong"]>>))
      BY <2>1, BriefTwo, BriefLocked
  <2>3. Brief(Locked("lock", <<[op |-> "howLong"]>>) \o <<[op |-> "nap"], [op |-> "stamp"]>>)
      BY <2>1, <2>2, BriefTwo, BriefConcat
  <2>4. QED
      BY <1>5, <2>3, BriefConcat DEF TimerLoop
<1>7. QED
    BY <1>1, <1>2, <1>3, <1>4, <1>5, <1>6

(* Every wait of a call is as long as its caller asks.                       *)
LEMMA BriefGet ==
  ASSUME NEW q, NEW n \in WaitTicks
  PROVE  Brief(GetOps(q, n)) /\ \A s : Brief(<<PendOp(s, n)>>)
<1>1. \A s : BriefOp(PendOp(s, n))
    BY DEF BriefOp, PendOp
<1>2. BriefOp([op |-> "take", q |-> q])
    BY DEF BriefOp
<1>3. QED
    BY <1>1, <1>2, BriefTwo DEF GetOps

(* Every call but OS_TimerStart.                                             *)
LEMMA BriefCalls ==
  ASSUME NEW t, NEW c, LegalCall(c), c.op # "start",
         c.op \in {"get", "sleep", "pend"} => c.ticks \in WaitTicks
  PROVE  Brief(CallOps(t, c))
<1>1. CASE c.op = "get"
    BY <1>1, BriefGet DEF CallOps
<1>2. CASE c.op = "send"
    BY <1>2, BriefTimers DEF CallOps
<1>3. CASE c.op = "job"
    BY <1>3, BriefTimers DEF CallOps
<1>4. CASE c.op = "sleep"
    BY <1>4, BriefGet DEF CallOps
<1>5. CASE c.op = "create"
    BY <1>5, BriefHeap DEF CallOps
<1>6. CASE c.op = "malloc"
  <2>1. CallOps(t, c) = MallocOps(SystemHeap, c.n) \o <<[op |-> "keep"]>>
      BY <1>6 DEF CallOps
  <2>2. BriefOp([op |-> "keep"])
      BY DEF BriefOp
  <2>3. QED
      BY <2>1, <2>2, BriefHeap, BriefTwo, BriefConcat
<1>7. CASE c.op = "free"
  <2>1. BriefOp([op |-> "giveBack"]) /\ CallOps(t, c) = <<[op |-> "giveBack"]>>
      BY <1>7 DEF BriefOp, CallOps
  <2>2. QED
      BY <2>1, BriefTwo
<1>8. CASE c.op = "stop"
    BY <1>8, BriefTimers DEF CallOps
<1>9. CASE c.op = "delete"
  <2>1. CallOps(t, c) = StopOps(c.x) \o FreeOps(timers[c.x].mem)
      BY <1>9 DEF CallOps
  <2>2. QED
      BY <2>1, BriefTimers, BriefHeap, BriefConcat
<1>10. CASE c.op = "timer"
    BY <1>10, BriefTimers DEF CallOps
<1>11. CASE c.op \in {"pend", "post", "drain", "prio", "lock", "unlock"}
  <2>1. CallOps(t, c) = <<c>> /\ BriefOp(c)
      BY <1>11 DEF CallOps, BriefOp
  <2>2. QED
      BY <2>1, BriefTwo
<1>12. QED
    BY <1>1, <1>2, <1>3, <1>4, <1>5, <1>6, <1>7, <1>8, <1>9, <1>10, <1>11 DEF LegalCall

-----------------------------------------------------------------------------
(* Nobody is overdue *)

\* No thread calls OS_TimerStart: a condition on the workload, which stays as it is.
StartsNoTimer == \A t \in Threads : \A c \in work.calls[t] : c.op # "start"

\* OS_TimerThread has nothing to do.
TimersIdle == timerList = <<>> /\ loc.timer = None /\ loc.ticks \in {0, WaitForever}

\* What TimeInv adds to IInv: the timeouts lie ahead, in order, and every wait
\* that is left of a call is one that the clock can tell.
TimeInv ==
    /\ InTime(os) /\ ("tick" \notin irq => NoneDue(os))
    /\ \A t \in Threads : Brief(todo[t])
    /\ TimersIdle

\* The entries of thread t after a step.
NextBrief(t) == \E l : Brief(l) /\ todo' = [todo EXCEPT ![t] = l]

(* An entry is done.                                                         *)
LEMMA DoneBrief ==
  ASSUME TimeInv, NEW t \in Threads, todo[t] # <<>>, Done(t)
  PROVE  NextBrief(t)
<1>1. Brief(Tail(todo[t]))
    BY BriefParts DEF TimeInv
<1>2. todo' = [todo EXCEPT ![t] = Tail(todo[t])]
    BY DEF Done
<1>3. QED
    BY <1>1, <1>2 DEF NextBrief

(* Others come in its place.                                                 *)
LEMMA ThenBrief ==
  ASSUME TimeInv, NEW t \in Threads, todo[t] # <<>>, NEW ops, Brief(ops), Then(t, ops)
  PROVE  NextBrief(t)
<1> DEFINE l == ops \o Tail(todo[t])
<1>1. Brief(Tail(todo[t]))
    BY BriefParts DEF TimeInv
<1>2. Brief(l)
    BY <1>1, BriefConcat
<1>3. todo' = [todo EXCEPT ![t] = l]
    BY DEF Then
<1> HIDE DEF l
<1>4. QED
    BY <1>2, <1>3 DEF NextBrief

(* No thread is about to start a timer.                                      *)
LEMMA NoneStarts ==
  ASSUME TimeInv, NEW t \in Threads
  PROVE  ~TimerAim(t) /\ ~TimerStart(t)
<1>1. SUFFICES ASSUME TimerAim(t) \/ TimerStart(t)
               PROVE  FALSE
    OBVIOUS
<1>2. todo[t] # <<>> /\ Head(todo[t]).op \in {"aim", "arm"}
    BY <1>1 DEF TimerAim, TimerStart, Doing, Now
<1>3. BriefOp(Head(todo[t]))
    BY <1>2, BriefParts DEF TimeInv
<1>4. QED
    BY <1>2, <1>3 DEF BriefOp

(* The choice of a call, and the loops of the kernel's own threads.          *)
LEMMA CallBrief ==
  ASSUME IInv, StartsNoTimer, NEW t \in Threads, Call(t) \/ Loop(t)
  PROVE  NextBrief(t)
<1>1. WaitForever \in WaitTicks
    BY DEF WaitTicks
<1>2. CASE Call(t)
  <2>1. Brief(ExitOps) /\ Brief(<<PendOp("sleep", WaitForever)>>)
      BY <1>1, BriefHeap, BriefGet
  <2>2. ASSUME NEW c \in work.calls[t], todo' = [todo EXCEPT ![t] = CallOps(t, c)]
        PROVE  NextBrief(t)
    <3>1. /\ LegalCall(c) /\ (c.op \in {"get", "sleep", "pend"} => c.ticks \in WaitTicks)
          /\ c.op # "start"
        BY WorkloadAssumption, WaitAssumption DEF IInv, WorkRight, StartsNoTimer
    <3>2. Brief(CallOps(t, c))
        BY <3>1, BriefCalls
    <3>3. QED
        BY <2>2, <3>2 DEF NextBrief
  <2>3. \/ todo' = [todo EXCEPT ![t] = ExitOps]
        \/ todo' = [todo EXCEPT ![t] = <<PendOp("sleep", WaitForever)>>]
        \/ \E c \in work.calls[t] : todo' = [todo EXCEPT ![t] = CallOps(t, c)]
      BY <1>2 DEF Call
  <2>4. QED
      BY <2>1, <2>2, <2>3 DEF NextBrief
<1>3. CASE Loop(t)
  <2>1. Brief(TimerLoop) /\ Brief(JobLoop)
      BY <1>1, BriefTimers, BriefGet DEF JobLoop
  <2>2. todo' = [todo EXCEPT ![t] = TimerLoop] \/ todo' = [todo EXCEPT ![t] = JobLoop]
      BY <1>3 DEF Loop
  <2>3. QED
      BY <2>1, <2>2 DEF NextBrief
<1>4. QED
    BY <1>2, <1>3

(* Semaphores, priorities, mutexes, queues and jobs.                         *)
LEMMA SyncBrief ==
  ASSUME TimeInv, NEW t \in Threads,
         \/ SemaphorePend(t) \/ SemaphorePost(t) \/ SemaphoreDelete(t) \/ ThreadPrioritySet(t)
         \/ MutexPend(t) \/ MutexAcquire(t) \/ MutexOwned(t) \/ MutexPost(t) \/ MutexRestore(t)
         \/ MQueueSend(t) \/ MQueueGet(t) \/ NeedJobQueue(t) \/ MakeJobQueue(t)
  PROVE  NextBrief(t)
<1>1. todo[t] # <<>>
    BY DEF SemaphorePend, SemaphorePost, SemaphoreDelete, ThreadPrioritySet, MutexPend, MutexAcquire,
           MutexOwned, MutexPost, MutexRestore, MQueueSend, MQueueGet, NeedJobQueue, MakeJobQueue, Doing
<1>2. CASE \/ SemaphorePend(t) \/ SemaphorePost(t) \/ ThreadPrioritySet(t) \/ MutexOwned(t)
           \/ MutexRestore(t) \/ MQueueGet(t)
  <2>1. Done(t)
      BY <1>2 DEF SemaphorePend, SemaphorePost, ThreadPrioritySet, MutexOwned, MutexRestore, MQueueGet
  <2>2. QED
      BY <1>1, <2>1, DoneBrief
<1>3. CASE SemaphoreDelete(t)
  <2>1. Done(t) \/ Then(t, <<PostOp(Now(t).s), Now(t)>>)
      BY <1>3 DEF SemaphoreDelete
  <2>2. BriefOp(Now(t)) /\ BriefOp(PostOp(Now(t).s))
      BY <1>1, BriefParts, BriefOps DEF Now, TimeInv
  <2>3. QED
      BY <1>1, <2>1, <2>2, BriefTwo, DoneBrief, ThenBrief
<1>4. CASE MutexPend(t)
  <2>1. Done(t) \/ Then(t, <<[op |-> "acquire", m |-> Now(t).m]>>)
      BY <1>4 DEF MutexPend
  <2>2. BriefOp([op |-> "acquire", m |-> Now(t).m])
      BY DEF BriefOp
  <2>3. QED
      BY <1>1, <2>1, <2>2, BriefTwo, DoneBrief, ThenBrief
<1>5. CASE MutexAcquire(t)
  <2>1. Then(t, <<[op |-> "owned", m |-> Now(t).m]>>)
      BY <1>5 DEF MutexAcquire
  <2>2. BriefOp([op |-> "owned", m |-> Now(t).m])
      BY DEF BriefOp
  <2>3. QED
      BY <1>1, <2>1, <2>2, BriefTwo, ThenBrief
<1>6. CASE MutexPost(t)
  <2>1. Done(t) \/ Then(t, <<[op |-> "restore", p |-> mutex[Now(t).m].restore]>>)
      BY <1>6 DEF MutexPost
  <2>2. BriefOp([op |-> "restore", p |-> mutex[Now(t).m].restore])
      BY DEF BriefOp
  <2>3. QED
      BY <1>1, <2>1, <2>2, BriefTwo, DoneBrief, ThenBrief
<1>7. CASE MQueueSend(t)
  <2>1. Done(t) \/ Then(t, <<PostOp(Now(t).q)>>)
      BY <1>7 DEF MQueueSend
  <2>2. QED
      BY <1>1, <2>1, BriefOps, BriefTwo, DoneBrief, ThenBrief
<1>8. CASE NeedJobQueue(t)
  <2>1. Done(t) \/ Then(t, Locked("lock", <<[op |-> "makeQueue"]>>))
      BY <1>8 DEF NeedJobQueue
  <2>2. BriefOp([op |-> "makeQueue"])
      BY DEF BriefOp
  <2>3. QED
      BY <1>1, <2>1, <2>2, BriefTwo, BriefLocked, DoneBrief, ThenBrief
<1>9. CASE MakeJobQueue(t)
  <2>1. Done(t) \/ Then(t, CreateOps(JobThread))
      BY <1>9 DEF MakeJobQueue
  <2>2. QED
      BY <1>1, <2>1, BriefHeap, DoneBrief, ThenBrief
<1>10. QED
    BY <1>2, <1>3, <1>4, <1>5, <1>6, <1>7, <1>8, <1>9

(* Timers: nobody starts one, so OS_TimerThread finds none to wait for.       *)
LEMMA TimersBrief ==
  ASSUME IInv, TimeInv, NEW t \in Threads,
         \/ TimerAim(t) \/ TimerStart(t) \/ TimerStop(t) \/ NeedTimerThread(t) \/ TimerCreate(t)
         \/ HowLong(t) \/ Nap(t) \/ Stamp(t) \/ TimerPick(t) \/ TimerFire(t)
  PROVE  NextBrief(t)
<1>1. todo[t] # <<>>
    BY DEF TimerAim, TimerStart, TimerStop, NeedTimerThread, TimerCreate, HowLong, Nap, Stamp, TimerPick,
           TimerFire, Doing
<1>2. CASE TimerStop(t) \/ TimerCreate(t) \/ HowLong(t) \/ Stamp(t) \/ TimerPick(t)
  <2>1. Done(t)
      BY <1>2 DEF TimerStop, TimerCreate, HowLong, Stamp, TimerPick
  <2>2. QED
      BY <1>1, <2>1, DoneBrief
<1>3. ~TimerAim(t) /\ ~TimerStart(t)
    BY NoneStarts
<1>4. CASE NeedTimerThread(t)
  <2>1. Done(t) \/ Then(t, CreateOps(TimerThread))
      BY <1>4 DEF NeedTimerThread
  <2>2. QED
      BY <1>1, <2>1, BriefHeap, DoneBrief, ThenBrief
<1>5. CASE Nap(t)
  <2>1. Then(t, <<PendOp("timer", loc.ticks)>>)
      BY <1>5 DEF Nap
  <2>2. loc.ticks \in WaitTicks
      BY KernelAssumption DEF TimeInv, TimersIdle, WaitTicks
  <2>3. QED
      BY <1>1, <2>1, <2>2, BriefGet, ThenBrief
<1>6. CASE TimerFire(t)
  <2>1. Done(t)
      BY <1>6 DEF TimerFire, TimeInv, TimersIdle
  <2>2. QED
      BY <1>1, <2>1, DoneBrief
<1>7. QED
    BY <1>2, <1>3, <1>4, <1>5, <1>6

(* The heap and the life of threads.                                         *)
LEMMA MemoryBrief ==
  ASSUME TimeInv, NEW t \in Threads,
         \/ HeapMalloc(t) \/ HeapFree(t) \/ KeepBlock(t) \/ GiveBack(t)
         \/ ThreadCreate(t) \/ TestFree(t) \/ ClearFree(t) \/ ThreadExit(t)
  PROVE  NextBrief(t)
<1>1. todo[t] # <<>>
    BY DEF HeapMalloc, HeapFree, KeepBlock, GiveBack, ThreadCreate, TestFree, ClearFree, ThreadExit, Doing
<1>2. CASE HeapFree(t) \/ KeepBlock(t) \/ ThreadCreate(t) \/ ClearFree(t)
  <2>1. Done(t)
      BY <1>2 DEF HeapFree, KeepBlock, ThreadCreate, ClearFree
  <2>2. QED
      BY <1>1, <2>1, DoneBrief
<1>3. CASE HeapMalloc(t)
  <2> DEFINE h == Now(t).h
             n == Now(t).n
             r == Malloc(heap[h], n)
             more == IF r.block = 0 /\ Alternate[h] # None THEN MallocOps(Alternate[h], n) ELSE <<>>
  <2>1. Then(t, <<PostOp(h)>> \o more)
      BY <1>3 DEF HeapMalloc
  <2>2. Brief(more)
      BY BriefHeap, BriefEmpty
  <2> HIDE DEF more
  <2>3. Brief(<<PostOp(h)>> \o more)
      BY <2>2, BriefOps, BriefTwo, BriefConcat
  <2>4. QED
      BY <1>1, <2>1, <2>3, ThenBrief
<1>4. CASE GiveBack(t)
  <2>1. PICK b : Then(t, FreeOps(b))
      BY <1>4 DEF GiveBack
  <2>2. QED
      BY <1>1, <2>1, BriefHeap, ThenBrief
<1>5. CASE TestFree(t)
  <2>1. Then(t, FreeOps(block[needToFree])) \/ Then(t, <<>>)
      BY <1>5 DEF TestFree
  <2>2. QED
      BY <1>1, <2>1, BriefHeap, BriefEmpty, ThenBrief
<1>6. CASE ThreadExit(t)
  <2>1. Then(t, ExitOps) \/ Done(t)
      BY <1>6 DEF ThreadExit
  <2>2. QED
      BY <1>1, <2>1, BriefHeap, DoneBrief, ThenBrief
<1>7. QED
    BY <1>2, <1>3, <1>4, <1>5, <1>6

-----------------------------------------------------------------------------
(* Steps of threads and of interrupts *)

(* Who is not moved on by a step keeps its entries.                          *)
LEMMA NextBriefs ==
  ASSUME IInv, TimeInv, NEW t \in Threads, NextBrief(t)
  PROVE  \A x \in Threads : Brief(todo'[x])
<1>1. PICK l : Brief(l) /\ todo' = [todo EXCEPT ![t] = l]
    BY DEF NextBrief
<1>2. DOMAIN todo = Threads
    BY DEF IInv, TodoRight
<1>3. \A x \in Threads : todo'[x] = IF x = t THEN l ELSE todo[x]
    BY <1>1, <1>2
<1>4. QED
    BY <1>1, <1>3 DEF TimeInv

(* A thread pends: what it asks to wait is what the clock can tell.          *)
LEMMA SemaphorePendWaits ==
  ASSUME IInv, TimeInv, NEW t \in Threads, SemaphorePend(t)
  PROVE  WaitsKept(os, os')
<1>1. /\ os.cur = t /\ t # Idle /\ ~os.inside /\ Sound(os)
      /\ Now(t).op = "pend" /\ Now(t) = Head(todo[t]) /\ todo[t] # <<>> /\ Entries(t, todo[t])
    BY DoingAny DEF SemaphorePend
<1>2. Now(t).ticks \in WaitTicks
    BY <1>1, BriefParts DEF TimeInv, BriefOp
<1>3. Now(t).s \in Sems
  <2>1. CASE Plain(todo[t])
    <3>1. PlainOp(Now(t))
        BY <1>1, <2>1, PlainParts
    <3>2. QED
        BY <1>1, <3>1 DEF PlainOp, Bare
  <2>2. CASE \E q \in Queues, n \in Int : todo[t] = GetOps(q, n)
    <3>1. PICK q \in Queues, n \in Int : todo[t] = GetOps(q, n)
        BY <2>2
    <3>2. Now(t).s = q
        BY <1>1, <3>1 DEF GetOps, PendOp
    <3>3. QED
        BY <3>2, KernelSems
  <2>3. QED
      BY <1>1, <2>1, <2>2, HeadOps
<1>4. os' = Pend(os, Now(t).s, Now(t).ticks)
    BY DEF SemaphorePend
<1>5. QED
    BY <1>1, <1>2, <1>3, <1>4, PendKeepsWaits

(* A thread posts.                                                           *)
LEMMA SemaphorePostWaits ==
  ASSUME IInv, NEW t \in Threads, SemaphorePost(t)
  PROVE  WaitsKept(os, os')
<1>1. /\ Sound(os) /\ Now(t).op = "post" /\ Now(t) = Head(todo[t])
      /\ todo[t] # <<>> /\ Entries(t, todo[t])
    BY DoingAny DEF SemaphorePost
<1>2. Now(t).s \in Sems
  <2>1. CASE Plain(todo[t])
    <3>1. PlainOp(Now(t))
        BY <1>1, <2>1, PlainParts
    <3>2. QED
        BY <1>1, <3>1 DEF PlainOp, Bare
  <2>2. CASE \E q \in Queues : Posts(todo[t], q)
    <3>1. PICK q \in Queues : Posts(todo[t], q)
        BY <2>2
    <3>2. Now(t).s = q
        BY <1>1, <3>1 DEF Posts, PostOp
    <3>3. QED
        BY <3>2, KernelSems
  <2>3. QED
      BY <1>1, <2>1, <2>2, HeadOps
<1>3. os' = Post(os, Now(t).s)
    BY DEF SemaphorePost
<1>4. QED
    BY <1>1, <1>2, <1>3, PostKeepsWaits

(* Priorities: of a thread, of the owner of a mutex, and back again.         *)
LEMMA PrioritiesWait ==
  ASSUME IInv, NEW t \in Threads, ThreadPrioritySet(t) \/ MutexRestore(t) \/ MutexPend(t)
  PROVE  WaitsKept(os, os')
<1>1. Sound(os) /\ WaitsKept(os, os)
    BY SameWaits DEF IInv
<1>2. CASE ThreadPrioritySet(t)
  <2>1. Doing(t, "prio") /\ os' = PrioritySet(os, Now(t).x, Now(t).p) /\ "prio" \in PlainNames
      BY <1>2 DEF ThreadPrioritySet, PlainNames
  <2>2. Now(t).x \in Threads /\ Now(t).p \in Nat
      BY <2>1, DoingPlain DEF PlainOp
  <2>3. QED
      BY <1>1, <2>1, <2>2, PrioritySetWaits
<1>3. CASE MutexRestore(t)
  <2>1. /\ Doing(t, "restore") /\ "restore" \in PlainNames
        /\ os' = os \/ os' = PrioritySet(os, t, Now(t).p)
      BY <1>3 DEF MutexRestore, PlainNames
  <2>2. Now(t).p \in Nat
      BY <2>1, DoingPlain DEF PlainOp
  <2>3. QED
      BY <1>1, <2>1, <2>2, PrioritySetWaits
<1>4. CASE MutexPend(t)
  <2> DEFINE owner == mutex[Now(t).m].owner
  <2>1. Doing(t, "lock") /\ os' \in {os, Inherit(os, t, Now(t).m)}
      BY <1>4 DEF MutexPend
  <2>2. Now(t).m \in Mutexes /\ mutex \in MutexStates
      BY <2>1, DoingMutex DEF IInv, MutexRight
  <2>3. owner \in Threads \union {None}
      BY <2>2 DEF MutexStates
  <2>4. os' = os \/ (owner \in Threads /\ os' = PrioritySet(os, owner, os.prio[t]))
      BY <2>1, <2>3 DEF Inherit
  <2>5. os.prio[t] \in Nat
      BY <1>1 DEF Sound, Loose, KernelStates
  <2> HIDE DEF owner
  <2>6. QED
      BY <1>1, <2>4, <2>5, PrioritySetWaits
<1>5. QED
    BY <1>2, <1>3, <1>4

(* The semaphore of a mutex is waited for without an end.                    *)
LEMMA MutexesWait ==
  ASSUME IInv, NEW t \in Threads, MutexAcquire(t) \/ MutexPost(t)
  PROVE  WaitsKept(os, os')
<1>1. Sound(os) /\ WaitsKept(os, os)
    BY SameWaits DEF IInv
<1>2. CASE MutexAcquire(t)
  <2>1. Doing(t, "acquire") /\ os' = Pend(os, Now(t).m, WaitForever)
      BY <1>2 DEF MutexAcquire
  <2>2. os.cur = t /\ t # Idle /\ ~os.inside /\ Now(t).m \in Sems
      BY <2>1, DoingMutex, KernelSems
  <2>3. WaitForever \in WaitTicks
      BY DEF WaitTicks
  <2>4. QED
      BY <1>1, <2>1, <2>2, <2>3, PendKeepsWaits
<1>3. CASE MutexPost(t)
  <2>1. Doing(t, "unlock") /\ os' \in {os, Post(os, Now(t).m)}
      BY <1>3 DEF MutexPost
  <2>2. Now(t).m \in Sems
      BY <2>1, DoingMutex, KernelSems
  <2>3. QED
      BY <1>1, <2>1, <2>2, PostKeepsWaits
<1>4. QED
    BY <1>2, <1>3

(* A thread that is made waits for nothing yet.                              *)
LEMMA StartThreadWaits ==
  ASSUME NEW o, Sound(o), NEW t \in Threads, o.state[t] = "none", NEW p \in Nat
  PROVE  WaitsKept(o, StartThread(o, t, p))
<1> DEFINE r == StartThread(o, t, p)
<1>1. /\ Sound(r)
      /\ r.sem = o.sem /\ r.wait = o.wait /\ r.timeouts = o.timeouts
      /\ r.prio = [o.prio EXCEPT ![t] = p] /\ r.rc = [o.rc EXCEPT ![t] = 0]
      /\ r.due = o.due /\ r.now = o.now /\ r.inside = o.inside
      /\ Active(r) = Active(o) \union {t} /\ Absent(r) = Absent(o) \ {t}
    BY StartThreadKeeps
<1> HIDE DEF r
<1>2. QED
    BY <1>1, SameWaits DEF r

(* The life of threads: whoever is made waits for nothing, whoever exits     *)
(* waits for good.                                                           *)
LEMMA ThreadsWait ==
  ASSUME IInv, NEW t \in Threads, ThreadCreate(t) \/ ThreadExit(t)
  PROVE  WaitsKept(os, os')
<1>1. Sound(os) /\ WaitsKept(os, os)
    BY SameWaits DEF IInv
<1>2. CASE ThreadCreate(t)
  <2>1. /\ Doing(t, "spawn") /\ "spawn" \in PlainNames /\ os.state[Now(t).x] = "none"
        /\ os' = os \/ os' = StartThread(os, Now(t).x, work.prio[Now(t).x])
      BY <1>2 DEF ThreadCreate, PlainNames
  <2>2. Now(t).x \in Threads
      BY <2>1, DoingPlain DEF PlainOp
  <2>3. PICK x \in Threads, p \in Nat :
              os.state[x] = "none" /\ (os' = os \/ os' = StartThread(os, x, p))
      BY <2>1, <2>2, WorkloadAssumption DEF IInv, WorkRight
  <2>4. WaitsKept(os, StartThread(os, x, p))
      BY <1>1, <2>3, StartThreadWaits
  <2>5. QED
      BY <1>1, <2>3, <2>4
<1>3. CASE ThreadExit(t)
  <2> DEFINE r == StopThread(os)
  <2>1. Doing(t, "die") /\ "die" \in PlainNames /\ (os' = os \/ os' = r)
      BY <1>3 DEF ThreadExit, PlainNames
  <2>2. os.cur # Idle /\ ~os.inside
      BY <2>1, DoingPlain
  <2>3. r.timeouts = os.timeouts /\ r.due = os.due /\ r.now = os.now
      BY <1>1, <2>2, StopThreadKeeps
  <2> HIDE DEF r
  <2>4. QED
      BY <1>1, <2>1, <2>3, SameWaits
<1>4. QED
    BY <1>2, <1>3

(* Whatever a thread does, nobody's wait is over by it.                      *)
LEMMA StepWaits ==
  ASSUME IInv, TimeInv, NEW t \in Threads, ThreadStep(t)
  PROVE  WaitsKept(os, os')
<1>1. CASE os' = os
    BY <1>1, SameWaits
<1>2. CASE \/ SemaphorePend(t) \/ SemaphorePost(t) \/ ThreadPrioritySet(t) \/ MutexRestore(t)
           \/ MutexPend(t) \/ MutexAcquire(t) \/ MutexPost(t) \/ ThreadCreate(t) \/ ThreadExit(t)
    BY <1>2, SemaphorePendWaits, SemaphorePostWaits, PrioritiesWait, MutexesWait, ThreadsWait
<1>3. CASE \/ Call(t) \/ Loop(t) \/ SemaphoreDelete(t) \/ MutexOwned(t)
           \/ MQueueSend(t) \/ MQueueGet(t) \/ NeedJobQueue(t) \/ MakeJobQueue(t)
  <2>1. os' = os
      BY <1>3 DEF Call, Loop, SemaphoreDelete, MutexOwned, MQueueSend, MQueueGet, NeedJobQueue, MakeJobQueue
  <2>2. QED
      BY <1>1, <2>1
<1>4. CASE \/ TimerAim(t) \/ TimerStart(t) \/ TimerStop(t) \/ NeedTimerThread(t) \/ TimerCreate(t)
           \/ HowLong(t) \/ Nap(t) \/ Stamp(t) \/ TimerPick(t) \/ TimerFire(t)
  <2>1. os' = os
      BY <1>4 DEF TimerAim, TimerStart, TimerStop, NeedTimerThread, TimerCreate, HowLong, Nap, Stamp,
                  TimerPick, TimerFire
  <2>2. QED
      BY <1>1, <2>1
<1>5. CASE \/ HeapMalloc(t) \/ HeapFree(t) \/ KeepBlock(t) \/ GiveBack(t) \/ TestFree(t) \/ ClearFree(t)
  <2>1. os' = os
      BY <1>5 DEF HeapMalloc, HeapFree, KeepBlock, GiveBack, TestFree, ClearFree
  <2>2. QED
      BY <1>1, <2>1
<1>6. QED
    BY <1>2, <1>3, <1>4, <1>5 DEF ThreadStep

(* The list of timers stays empty, and OS_TimerThread finds nothing in it.   *)
LEMMA StepLoc ==
  ASSUME IInv, TimeInv, NEW t \in Threads, ThreadStep(t)
  PROVE  TimersIdle'
<1>1. /\ loc \in [now : Tick, ticks : Int, timer : Timers \union {None}, made : BOOLEAN]
      /\ timerList = <<>> /\ loc.timer = None /\ loc.ticks \in {0, WaitForever}
    BY DEF IInv, MemoryRight, TimeInv, TimersIdle
<1>2. CASE UNCHANGED <<loc, timerList>>
    BY <1>1, <1>2 DEF TimersIdle
<1>3. CASE Stamp(t) \/ NeedTimerThread(t)
  <2>1. timerList' = timerList
      BY <1>3 DEF Stamp, NeedTimerThread
  <2>2. PICK n, b : loc' = [loc EXCEPT !.now = n] \/ loc' = [loc EXCEPT !.made = b]
      BY <1>3 DEF Stamp, NeedTimerThread
  <2>3. QED
      BY <1>1, <2>1, <2>2 DEF TimersIdle
<1>4. CASE HowLong(t) \/ TimerPick(t)
  <2>1. /\ timerList' = timerList
        /\ loc' = [loc EXCEPT !.ticks = WaitForever] \/ loc' = [loc EXCEPT !.timer = None]
      BY <1>1, <1>4 DEF HowLong, TimerPick
  <2>2. QED
      BY <1>1, <2>1 DEF TimersIdle
<1>5. CASE TimerStop(t)
  <2>1. loc' = loc /\ (timerList' = timerList \/ timerList' = Unlink(timerList, Now(t).x))
      BY <1>5 DEF TimerStop
  <2>2. Now(t).x \notin ToSet(timerList)
      BY <1>1 DEF ToSet
  <2>3. QED
      BY <1>2, <2>1, <2>2 DEF Unlink
<1>6. CASE \/ Call(t) \/ Loop(t)
           \/ SemaphorePend(t) \/ SemaphorePost(t) \/ SemaphoreDelete(t) \/ ThreadPrioritySet(t)
           \/ MutexPend(t) \/ MutexAcquire(t) \/ MutexOwned(t) \/ MutexPost(t) \/ MutexRestore(t)
           \/ MQueueSend(t) \/ MQueueGet(t) \/ NeedJobQueue(t) \/ MakeJobQueue(t)
  <2>1. UNCHANGED <<loc, timerList>>
      BY <1>6 DEF Call, Loop, SemaphorePend, SemaphorePost, SemaphoreDelete, ThreadPrioritySet, MutexPend,
                  MutexAcquire, MutexOwned, MutexPost, MutexRestore, MQueueSend, MQueueGet, NeedJobQueue,
                  MakeJobQueue, time
  <2>2. QED
      BY <1>2, <2>1
<1>7. CASE \/ TimerCreate(t) \/ Nap(t) \/ TimerFire(t)
           \/ HeapMalloc(t) \/ HeapFree(t) \/ KeepBlock(t) \/ GiveBack(t)
           \/ ThreadCreate(t) \/ TestFree(t) \/ ClearFree(t) \/ ThreadExit(t)
  <2>1. UNCHANGED <<loc, timerList>>
      BY <1>7 DEF TimerCreate, Nap, TimerFire, HeapMalloc, HeapFree, KeepBlock, GiveBack, ThreadCreate,
                  TestFree, ClearFree, ThreadExit, time
  <2>2. QED
      BY <1>2, <2>1
<1>8. ~TimerAim(t) /\ ~TimerStart(t)
    BY NoneStarts
<1>9. QED
    BY <1>3, <1>4, <1>5, <1>6, <1>7, <1>8 DEF ThreadStep

(* A step of a thread.                                                       *)
LEMMA StepTimeInv ==
  ASSUME IInv, TimeInv, StartsNoTimer, NEW t \in Threads, ThreadStep(t)
  PROVE  TimeInv'
<1>1. irq' = irq
  <2>1. CASE \/ Call(t) \/ Loop(t)
             \/ SemaphorePend(t) \/ SemaphorePost(t) \/ SemaphoreDelete(t) \/ ThreadPrioritySet(t)
             \/ MutexPend(t) \/ MutexAcquire(t) \/ MutexOwned(t) \/ MutexPost(t) \/ MutexRestore(t)
             \/ MQueueSend(t) \/ MQueueGet(t) \/ NeedJobQueue(t) \/ MakeJobQueue(t)
      BY <2>1 DEF Call, Loop, SemaphorePend, SemaphorePost, SemaphoreDelete, ThreadPrioritySet, MutexPend,
                  MutexAcquire, MutexOwned, MutexPost, MutexRestore, MQueueSend, MQueueGet, NeedJobQueue,
                  MakeJobQueue, load
  <2>2. CASE \/ TimerAim(t) \/ TimerStart(t) \/ TimerStop(t) \/ NeedTimerThread(t) \/ TimerCreate(t)
             \/ HowLong(t) \/ Nap(t) \/ Stamp(t) \/ TimerPick(t) \/ TimerFire(t)
             \/ HeapMalloc(t) \/ HeapFree(t) \/ KeepBlock(t) \/ GiveBack(t)
             \/ ThreadCreate(t) \/ TestFree(t) \/ ClearFree(t) \/ ThreadExit(t)
      BY <2>2 DEF TimerAim, TimerStart, TimerStop, NeedTimerThread, TimerCreate, HowLong, Nap, Stamp,
                  TimerPick, TimerFire, HeapMalloc, HeapFree, KeepBlock, GiveBack, ThreadCreate, TestFree,
                  ClearFree, ThreadExit, load
  <2>3. QED
      BY <2>1, <2>2 DEF ThreadStep
<1>2. WaitsKept(os, os')
    BY StepWaits
<1>3. InTime(os') /\ ("tick" \notin irq' => NoneDue(os'))
    BY <1>1, <1>2 DEF TimeInv, WaitsKept
<1>4. NextBrief(t)
  <2>1. CASE Call(t) \/ Loop(t)
      BY <2>1, CallBrief
  <2>2. CASE \/ SemaphorePend(t) \/ SemaphorePost(t) \/ SemaphoreDelete(t) \/ ThreadPrioritySet(t)
             \/ MutexPend(t) \/ MutexAcquire(t) \/ MutexOwned(t) \/ MutexPost(t) \/ MutexRestore(t)
             \/ MQueueSend(t) \/ MQueueGet(t) \/ NeedJobQueue(t) \/ MakeJobQueue(t)
      BY <2>2, SyncBrief
  <2>3. CASE \/ TimerAim(t) \/ TimerStart(t) \/ TimerStop(t) \/ NeedTimerThread(t) \/ TimerCreate(t)
             \/ HowLong(t) \/ Nap(t) \/ Stamp(t) \/ TimerPick(t) \/ TimerFire(t)
      BY <2>3, TimersBrief
  <2>4. CASE \/ HeapMalloc(t) \/ HeapFree(t) \/ KeepBlock(t) \/ GiveBack(t)
             \/ ThreadCreate(t) \/ TestFree(t) \/ ClearFree(t) \/ ThreadExit(t)
      BY <2>4, MemoryBrief
  <2>5. QED
      BY <2>1, <2>2, <2>3, <2>4 DEF ThreadStep
<1>5. \A x \in Threads : Brief(todo'[x])
    BY <1>4, NextBriefs
<1>6. TimersIdle'
    BY StepLoc
<1>7. QED
    BY <1>3, <1>5, <1>6 DEF TimeInv

(* An interrupt comes between two steps, when nobody is due; with a tick,    *)
(* its handler is still to come.                                             *)
LEMMA InterruptTimeInv ==
  ASSUME IInv, TimeInv, Interrupt
  PROVE  TimeInv'
<1>1. PICK bits :
            /\ irq' = bits
            /\ os' = [os EXCEPT !.inside = TRUE, !.now = IF "tick" \in bits THEN Later(@, 1) ELSE @]
    BY DEF Interrupt
<1>2. UNCHANGED <<todo, loc, timerList>>
    BY DEF Interrupt, time
<1>3. Sound(os) /\ os \in KernelStates
    BY DEF IInv, Sound, Loose
<1>4. InTime(os) /\ NoneDue(os)
  <2>1. ~os.inside
      BY DEF Interrupt, Interruptible
  <2>2. irq = {}
      BY <2>1 DEF IInv, WorkRight
  <2>3. QED
      BY <2>2 DEF TimeInv
<1>5. InTime(os') /\ ("tick" \notin irq' => NoneDue(os'))
  <2>1. CASE "tick" \in bits
    <3>1. os' = [os EXCEPT !.inside = TRUE, !.now = Later(os.now, 1)]
        BY <1>1, <2>1
    <3>2. QED
        BY <1>1, <1>3, <1>4, <2>1, <3>1, TickWaits
  <2>2. CASE "tick" \notin bits
    <3>1. os' = [os EXCEPT !.inside = TRUE, !.now = os.now]
        BY <1>1, <2>2
    <3>2. os'.timeouts = os.timeouts /\ os'.due = os.due /\ os'.now = os.now
        BY <1>3, <3>1 DEF KernelStates
    <3>3. QED
        BY <1>4, <3>2, SameWaits DEF WaitsKept
  <2>3. QED
      BY <2>1, <2>2
<1>6. QED
    BY <1>2, <1>5 DEF TimeInv, TimersIdle

(* A handler has done its work on the kernel, as in HandledKeeps.            *)
LEMMA HandledTimeInv ==
  ASSUME TimeInv, NEW r, Sound(r), NEW bit, Handled(r, bit),
         InTime(r) /\ ("tick" \notin irq \ {bit} => NoneDue(r))
  PROVE  TimeInv'
<1>1. irq' = irq \ {bit} /\ (os' = r \/ os' = LeaveIsr(r)) /\ UNCHANGED <<todo, loc, timerList>>
    BY DEF Handled, time
<1>2. WaitsKept(r, LeaveIsr(r)) /\ WaitsKept(r, r)
    BY LeaveIsrWaits, SameWaits
<1>3. InTime(os') /\ ("tick" \notin irq' => NoneDue(os'))
    BY <1>1, <1>2 DEF WaitsKept
<1>4. QED
    BY <1>1, <1>3 DEF TimeInv, TimersIdle

(* The handlers: that of the tick has woken all who are due when it ends.    *)
LEMMA IsrTimeInv ==
  ASSUME IInv, TimeInv, IsrStep
  PROVE  TimeInv'
<1>1. Sound(os) /\ InTime(os)
    BY DEF IInv, TimeInv
<1>2. CASE ThreadTick /\ Overdue(os)
  <2>1. os' = Expire(os) /\ "tick" \in irq /\ UNCHANGED <<irq, todo, loc, timerList>>
      BY <1>2 DEF ThreadTick, time, load
  <2>2. InTime(os')
      BY <1>1, <1>2, <2>1, ExpireKeepsWaits DEF Overdue, WaitsKept
  <2>3. QED
      BY <2>1, <2>2 DEF TimeInv, TimersIdle
<1>3. CASE ThreadTick /\ ~Overdue(os)
  <2> DEFINE r == Reschedule(os, TRUE)
  <2>1. Handled(r, "tick") /\ NoneDue(os)
      BY <1>1, <1>3, NoneOverdue DEF ThreadTick
  <2>2. Sound(r) /\ Swapped(os, r)
      BY <1>1, RescheduleKeeps DEF Sound
  <2> HIDE DEF r
  <2>3. WaitsKept(os, r)
      BY <2>2, SwappedWaits
  <2>4. QED
      BY <1>1, <2>1, <2>2, <2>3, HandledTimeInv DEF WaitsKept
<1>4. CASE DeviceIsr
  <2>1. PICK s \in irq \intersect Sems : Handled(Post(os, s), s)
      BY <1>4 DEF DeviceIsr
  <2> DEFINE r == Post(os, s)
  <2>2. s # "tick"
      BY RtosAssumption
  <2>3. WaitsKept(os, r) /\ Sound(r) /\ Handled(r, s)
      BY <1>1, <2>1, PostKeepsWaits
  <2> HIDE DEF r
  <2>4. "tick" \notin irq \ {s} => NoneDue(os)
      BY <2>2 DEF TimeInv
  <2>5. QED
      BY <1>1, <2>3, <2>4, HandledTimeInv DEF WaitsKept
<1>5. QED
    BY <1>2, <1>3, <1>4 DEF IsrStep

(* When the system starts nobody waits.                                      *)
LEMMA InitTimeInv == Init => TimeInv
<1> SUFFICES ASSUME Init
             PROVE  TimeInv
    OBVIOUS
<1>1. os.timeouts = <<>>
    BY DEF Init, Booted
<1>2. ToSet(<<>>) = {} /\ Len(<<>>) = 0
    BY DEF ToSet
<1>3. InTime(os) /\ NoneDue(os)
    BY <1>1, <1>2 DEF InTime, InTurn, NoneDue
<1>4. \A t \in Threads : Brief(todo[t])
    BY BriefEmpty DEF Init
<1>5. TimersIdle
    BY DEF Init, TimersIdle
<1>6. QED
    BY <1>3, <1>4, <1>5 DEF TimeInv

(* Every step.                                                               *)
LEMMA NextTimeInv ==
  ASSUME IInv, TimeInv, StartsNoTimer, [Next]_vars
  PROVE  TimeInv'
<1>1. CASE Interrupt
    BY <1>1, InterruptTimeInv
<1>2. CASE IsrStep
    BY <1>2, IsrTimeInv
<1>3. CASE \E t \in Threads : ThreadStep(t)
    BY <1>3, StepTimeInv
<1>4. CASE UNCHANGED vars
  <2>1. UNCHANGED <<os, irq, todo, loc, timerList>>
      BY <1>4 DEF vars, load, time
  <2>2. QED
      BY <2>1 DEF TimeInv, TimersIdle
<1>5. QED
    BY <1>1, <1>2, <1>3, <1>4 DEF Next

(* The workload is not changed.                                              *)
LEMMA WorkKept ==
  ASSUME [Next]_vars
  PROVE  work' = work
<1>1. CASE Interrupt
    BY <1>1 DEF Interrupt
<1>2. CASE IsrStep
    BY <1>2 DEF IsrStep, ThreadTick, DeviceIsr, Handled, load
<1>3. ASSUME NEW t \in Threads, ThreadStep(t)
      PROVE  work' = work
  <2>1. CASE \/ Call(t) \/ Loop(t)
             \/ SemaphorePend(t) \/ SemaphorePost(t) \/ SemaphoreDelete(t) \/ ThreadPrioritySet(t)
             \/ MutexPend(t) \/ MutexAcquire(t) \/ MutexOwned(t) \/ MutexPost(t) \/ MutexRestore(t)
             \/ MQueueSend(t) \/ MQueueGet(t) \/ NeedJobQueue(t) \/ MakeJobQueue(t)
      BY <2>1 DEF Call, Loop, SemaphorePend, SemaphorePost, SemaphoreDelete, ThreadPrioritySet, MutexPend,
                  MutexAcquire, MutexOwned, MutexPost, MutexRestore, MQueueSend, MQueueGet, NeedJobQueue,
                  MakeJobQueue, load
  <2>2. CASE \/ TimerAim(t) \/ TimerStart(t) \/ TimerStop(t) \/ NeedTimerThread(t) \/ TimerCreate(t)
             \/ HowLong(t) \/ Nap(t) \/ Stamp(t) \/ TimerPick(t) \/ TimerFire(t)
             \/ HeapMalloc(t) \/ HeapFree(t) \/ KeepBlock(t) \/ GiveBack(t)
             \/ ThreadCreate(t) \/ TestFree(t) \/ ClearFree(t) \/ ThreadExit(t)
      BY <2>2 DEF TimerAim, TimerStart, TimerStop, NeedTimerThread, TimerCreate, HowLong, Nap, Stamp,
                  TimerPick, TimerFire, HeapMalloc, HeapFree, KeepBlock, GiveBack, ThreadCreate, TestFree,
                  ClearFree, ThreadExit, load
  <2>3. QED
      BY <1>3, <2>1, <2>2 DEF ThreadStep
<1>4. CASE UNCHANGED vars
    BY <1>4 DEF vars, load
<1>5. QED
    BY <1>1, <1>2, <1>3, <1>4 DEF Next

(* What follows from it.                                                     *)
LEMMA TimeInvOverdue == IInv /\ TimeInv => NobodyOverdue
<1> SUFFICES ASSUME IInv, TimeInv
             PROVE  NobodyOverdue
    OBVIOUS
<1> DEFINE q == os.timeouts
<1>1. q \in Seq(Threads)
    BY DEF IInv, Sound, Loose, KernelStates
<1>2. Len(q) \in Nat /\ \A i \in 1 .. Len(q) : q[i] \in ToSet(q)
    BY <1>1, LenProperties DEF ToSet
<1>3. ASSUME NEW i \in 1 .. Len(q) - 1
      PROVE  Diff(os.due[q[i]], os.now) <= Diff(os.due[q[i + 1]], os.now)
  <2>1. i \in 1 .. Len(q) /\ i + 1 \in 1 .. Len(q) /\ i < i + 1
      BY <1>2
  <2>2. QED
      BY <2>1 DEF TimeInv, InTime, InTurn, Wait
<1>4. ASSUME "tick" \notin irq, NEW i \in 1 .. Len(q)
      PROVE  Diff(os.due[q[i]], os.now) > 0
    BY <1>2, <1>4 DEF TimeInv, NoneDue, Wait
<1>5. QED
    BY <1>3, <1>4 DEF NobodyOverdue

(* Under a workload in which no thread starts a software timer: whatever     *)
(* threads and interrupts do, and wherever the counter of ticks wraps        *)
(* around, those who may time out are in the order of what is left to them,  *)
(* and outside of the tick nobody is overdue.                                *)
THEOREM NobodyLate == Spec => [](StartsNoTimer => NobodyOverdue)
<1>1. Init => (StartsNoTimer => TimeInv)
    BY InitTimeInv
<1>2. IInv /\ (StartsNoTimer => TimeInv) /\ [Next]_vars => (StartsNoTimer => TimeInv)'
  <2> SUFFICES ASSUME IInv, StartsNoTimer => TimeInv, [Next]_vars, StartsNoTimer'
               PROVE  TimeInv'
      OBVIOUS
  <2>1. StartsNoTimer
      BY WorkKept DEF StartsNoTimer
  <2>2. QED
      BY <2>1, NextTimeInv
<1>3. IInv /\ (StartsNoTimer => TimeInv) => (StartsNoTimer => NobodyOverdue)
    BY TimeInvOverdue
<1>4. QED
    BY <1>1, <1>2, <1>3, Inductive, PTL DEF Spec
=============================================================================
