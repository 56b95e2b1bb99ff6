--------------------------- MODULE IoQueueProofs ---------------------------
(***************************************************************************)
(* Proofs about IoQueue, for every set of descriptors and every set of     *)
(* return values of the callbacks.  First what inserting into and removing *)
(* from a sequence does, then the sorted list, then the inductive          *)
(* invariant action by action, and the properties that follow from it.     *)
(***************************************************************************)
EXTENDS IoQueue, SequenceTheorems, TLAPS

-----------------------------------------------------------------------------
(* Sequences.                                                              *)

\* The elements of a sequence, as a set.
LEMMA ToSetElements ==
    ASSUME NEW S, NEW l \in Seq(S)
    PROVE  /\ ToSet(l) \subseteq S
           /\ \A x : x \in ToSet(l) <=> \E i \in 1..Len(l) : l[i] = x
  <1>1. DOMAIN l = 1..Len(l) /\ \A i \in 1..Len(l) : l[i] \in S
    OBVIOUS
  <1> QED
    BY <1>1 DEF ToSet

\* What InsertAt returns, element by element.
LEMMA InsertElements ==
    ASSUME NEW l \in Seq(Fd), NEW e \in Fd, NEW k \in 1..Len(l) + 1
    PROVE  /\ InsertAt(l, k, e) \in Seq(Fd)
           /\ Len(InsertAt(l, k, e)) = Len(l) + 1
           /\ \A i \in 1..Len(l) + 1 : InsertAt(l, k, e)[i] =
                IF i < k THEN l[i] ELSE IF i = k THEN e ELSE l[i - 1]
  <1> DEFINE a == SubSeq(l, 1, k - 1)
             b == SubSeq(l, k, Len(l))
             c == a \o <<e>>
  <1>1. /\ a \in Seq(Fd)
        /\ Len(a) = k - 1
        /\ \A i \in 1..k - 1 : a[i] = l[i]
    BY SubSeqProperties
  <1>2. /\ b \in Seq(Fd)
        /\ Len(b) = Len(l) - k + 1
        /\ \A i \in 1..Len(l) - k + 1 : b[i] = l[k + i - 1]
    BY SubSeqProperties
  <1>3. InsertAt(l, k, e) = c \o b
    BY DEF InsertAt
  <1> HIDE DEF a, b
  <1>4. <<e>> \in Seq(Fd) /\ Len(<<e>>) = 1 /\ <<e>>[1] = e
    OBVIOUS
  <1>5. /\ c \in Seq(Fd)
        /\ Len(c) = k
        /\ \A i \in 1..k : c[i] = IF i < k THEN l[i] ELSE e
    BY <1>1, <1>4, ConcatProperties
  <1> HIDE DEF c
  <1>6. /\ c \o b \in Seq(Fd)
        /\ Len(c \o b) = Len(l) + 1
        /\ \A i \in 1..Len(l) + 1 :
             (c \o b)[i] = IF i <= k THEN c[i] ELSE b[i - k]
    BY <1>2, <1>5, ConcatProperties
  <1>7. ASSUME NEW i \in 1..Len(l) + 1
        PROVE  (c \o b)[i] = IF i < k THEN l[i] ELSE IF i = k THEN e ELSE l[i - 1]
    <2>1. CASE i <= k
      BY <1>5, <1>6, <2>1
    <2>2. CASE i > k
      <3>1. i - k \in 1..Len(l) - k + 1 /\ k + (i - k) - 1 = i - 1
        BY <2>2
      <3> QED
        BY <1>2, <1>6, <2>2, <3>1
    <2>3. i <= k \/ i > k
      OBVIOUS
    <2> QED
      BY <2>1, <2>2, <2>3
  <1> QED
    BY <1>3, <1>6, <1>7

\* What RemoveAt returns, element by element.
LEMMA RemoveElements ==
    ASSUME NEW l \in Seq(Fd), NEW k \in 1..Len(l)
    PROVE  /\ RemoveAt(l, k) \in Seq(Fd)
           /\ Len(RemoveAt(l, k)) = Len(l) - 1
           /\ \A i \in 1..Len(l) - 1 :
                RemoveAt(l, k)[i] = IF i < k THEN l[i] ELSE l[i + 1]
  <1> DEFINE a == SubSeq(l, 1, k - 1)
             b == SubSeq(l, k + 1, Len(l))
  <1>1. /\ a \in Seq(Fd)
        /\ Len(a) = k - 1
        /\ \A i \in 1..k - 1 : a[i] = l[i]
    BY SubSeqProperties
  <1>2. /\ b \in Seq(Fd)
        /\ Len(b) = Len(l) - k
        /\ \A i \in 1..Len(l) - k : b[i] = l[k + i]
    <2>1. CASE k = Len(l)
      BY <2>1
    <2>2. CASE k < Len(l)
      BY <2>2, SubSeqProperties
    <2> QED
      BY <2>1, <2>2
  <1>3. RemoveAt(l, k) = a \o b
    BY DEF RemoveAt
  <1> HIDE DEF a, b
  <1>4. /\ a \o b \in Seq(Fd)
        /\ Len(a \o b) = Len(l) - 1
        /\ \A i \in 1..Len(l) - 1 :
             (a \o b)[i] = IF i <= k - 1 THEN a[i] ELSE b[i - (k - 1)]
    BY <1>1, <1>2, ConcatProperties
  <1>5. ASSUME NEW i \in 1..Len(l) - 1
        PROVE  (a \o b)[i] = IF i < k THEN l[i] ELSE l[i + 1]
    <2>1. CASE i < k
      BY <1>1, <1>4, <2>1
    <2>2. CASE i >= k
      <3>1. i - (k - 1) \in 1..Len(l) - k /\ k + (i - (k - 1)) = i + 1
        BY <2>2
      <3> QED
        BY <1>2, <1>4, <2>2, <3>1
    <2>3. i < k \/ i >= k
      OBVIOUS
    <2> QED
      BY <2>1, <2>2, <2>3
  <1> QED
    BY <1>3, <1>4, <1>5

-----------------------------------------------------------------------------
(* The sorted list.                                                        *)

\* list_insert() adds its descriptor, nothing else, at its place.
LEMMA InsertKeepsOrder ==
    ASSUME NEW l \in Seq(Fd), NEW fd \in Fd, NEW r,
           Descending(l), fd \notin ToSet(l), ListInsert(l, fd, r)
    PROVE  /\ r \in Seq(Fd)
           /\ Len(r) = Len(l) + 1
           /\ ToSet(r) = ToSet(l) \cup {fd}
           /\ Descending(r)
  <1>1. PICK k \in 1..Len(l) + 1 :
            /\ \A j \in 1..k - 1 : l[j] > fd
            /\ k <= Len(l) => l[k] <= fd
            /\ r = InsertAt(l, k, fd)
    BY DEF ListInsert
  <1>2. /\ r \in Seq(Fd)
        /\ Len(r) = Len(l) + 1
        /\ \A i \in 1..Len(r) :
             r[i] = IF i < k THEN l[i] ELSE IF i = k THEN fd ELSE l[i - 1]
    <2>1. /\ InsertAt(l, k, fd) \in Seq(Fd)
          /\ Len(InsertAt(l, k, fd)) = Len(l) + 1
          /\ \A i \in 1..Len(l) + 1 : InsertAt(l, k, fd)[i] =
               IF i < k THEN l[i] ELSE IF i = k THEN fd ELSE l[i - 1]
      BY InsertElements
    <2> QED
      BY <1>1, <2>1
  <1>3. ASSUME NEW i \in 1..Len(l) PROVE l[i] \in Nat /\ l[i] # fd
    <2>1. l[i] \in Fd
      OBVIOUS
    <2> QED
      BY <2>1, FdAssumption, ToSetElements
  <1>4. ASSUME NEW i \in k..Len(l) PROVE l[i] < fd
    <2>1. l[k] < fd
      BY <1>1, <1>3, FdAssumption
    <2>2. i = k \/ l[k] > l[i]
      BY DEF Descending
    <2> QED
      BY <1>3, <2>1, <2>2, FdAssumption
  <1>5. Descending(r)
    <2> SUFFICES ASSUME NEW i \in 1..Len(r), NEW j \in 1..Len(r), i < j
                 PROVE  r[i] > r[j]
      BY DEF Descending
    <2>1. CASE j < k
      BY <1>2, <2>1 DEF Descending
    <2>2. CASE j = k
      BY <1>1, <1>2, <2>2
    <2>3. CASE i < k /\ j > k
      <3>1. /\ r[i] = l[i] /\ r[j] = l[j - 1]
            /\ i \in 1..Len(l) /\ j - 1 \in 1..Len(l) /\ i < j - 1
        BY <1>2, <2>3
      <3> QED
        BY <3>1 DEF Descending
    <2>4. CASE i = k
      <3>1. r[i] = fd /\ r[j] = l[j - 1] /\ j - 1 \in k..Len(l)
        BY <1>2, <2>4
      <3> QED
        BY <1>3, <1>4, <3>1, FdAssumption
    <2>5. CASE i > k
      <3>1. /\ r[i] = l[i - 1] /\ r[j] = l[j - 1]
            /\ i - 1 \in 1..Len(l) /\ j - 1 \in 1..Len(l) /\ i - 1 < j - 1
        BY <1>2, <2>5
      <3> QED
        BY <3>1 DEF Descending
    <2> QED
      BY <2>1, <2>2, <2>3, <2>4, <2>5
  <1>6. ToSet(r) = ToSet(l) \cup {fd}
    <2>1. ASSUME NEW i \in 1..Len(r) PROVE r[i] \in ToSet(l) \cup {fd}
      <3>1. r[i] = fd \/ \E j \in 1..Len(l) : r[i] = l[j]
        BY <1>2
      <3> QED
        BY <3>1, ToSetElements
    <2>2. ASSUME NEW i \in 1..Len(l) PROVE \E j \in 1..Len(r) : r[j] = l[i]
      <3>1. CASE i < k
        BY <1>2, <3>1
      <3>2. CASE i >= k
        <4>1. i + 1 \in 1..Len(r) /\ r[i + 1] = l[i]
          BY <1>2, <3>2
        <4> QED
          BY <4>1
      <3> QED
        BY <3>1, <3>2
    <2>3. \E j \in 1..Len(r) : r[j] = fd
      BY <1>2
    <2>4. ASSUME NEW i \in 1..Len(l) PROVE l[i] \in ToSet(r)
      BY <1>2, <2>2, ToSetElements
    <2>5. fd \in ToSet(r)
      BY <1>2, <2>3, ToSetElements
    <2>6. ToSet(r) \subseteq ToSet(l) \cup {fd}
      BY <1>2, <2>1, ToSetElements
    <2>7. ToSet(l) \subseteq ToSet(r)
      BY <2>4, ToSetElements
    <2> QED
      BY <2>5, <2>6, <2>7
  <1> QED
    BY <1>2, <1>5, <1>6

\* list_delete() takes its descriptor out, if it is there, and nothing else.
LEMMA DeleteKeepsOrder ==
    ASSUME NEW l \in Seq(Fd), NEW fd \in Fd, NEW r,
           Descending(l), ListDelete(l, fd, r)
    PROVE  /\ r \in Seq(Fd)
           /\ Len(r) = IF fd \in ToSet(l) THEN Len(l) - 1 ELSE Len(l)
           /\ ToSet(r) = ToSet(l) \ {fd}
           /\ Descending(r)
  <1>1. CASE fd \notin ToSet(l) /\ r = l
    BY <1>1
  <1>2. CASE \E k \in 1..Len(l) : l[k] = fd /\ r = RemoveAt(l, k)
    <2>1. PICK k \in 1..Len(l) : l[k] = fd /\ r = RemoveAt(l, k)
      BY <1>2
    <2>2. /\ r \in Seq(Fd)
          /\ Len(r) = Len(l) - 1
          /\ \A i \in 1..Len(r) : r[i] = IF i < k THEN l[i] ELSE l[i + 1]
      <3>1. /\ RemoveAt(l, k) \in Seq(Fd)
            /\ Len(RemoveAt(l, k)) = Len(l) - 1
            /\ \A i \in 1..Len(l) - 1 :
                 RemoveAt(l, k)[i] = IF i < k THEN l[i] ELSE l[i + 1]
        BY RemoveElements
      <3> QED
        BY <2>1, <3>1
    <2>3. fd \in ToSet(l)
      BY <2>1, ToSetElements
    <2>4. ASSUME NEW i \in 1..Len(l) PROVE l[i] = fd => i = k
      <3>1. l[i] \in Nat /\ l[k] \in Nat
        <4>1. l[i] \in Fd /\ l[k] \in Fd
          OBVIOUS
        <4> QED
          BY <4>1, FdAssumption
      <3>2. i < k \/ i = k \/ k < i
        OBVIOUS
      <3> QED
        BY <2>1, <3>1, <3>2 DEF Descending
    <2>5. Descending(r)
      <3> SUFFICES ASSUME NEW i \in 1..Len(r), NEW j \in 1..Len(r), i < j
                   PROVE  r[i] > r[j]
        BY DEF Descending
      <3>1. PICK m \in 1..Len(l) : r[i] = l[m] /\ m = IF i < k THEN i ELSE i + 1
        BY <2>2
      <3>2. PICK n \in 1..Len(l) : r[j] = l[n] /\ n = IF j < k THEN j ELSE j + 1
        BY <2>2
      <3> QED
        BY <3>1, <3>2 DEF Descending
    <2>6. ToSet(r) = ToSet(l) \ {fd}
      <3>1. ASSUME NEW i \in 1..Len(r) PROVE r[i] \in ToSet(l) \ {fd}
        <4>1. PICK m \in 1..Len(l) : r[i] = l[m] /\ m # k
          BY <2>2
        <4> QED
          BY <2>4, <4>1, ToSetElements
      <3>2. ASSUME NEW i \in 1..Len(l), l[i] # fd
            PROVE  \E j \in 1..Len(r) : r[j] = l[i]
        <4>1. i # k
          BY <2>1, <3>2
        <4>2. CASE i < k
          BY <2>2, <4>2
        <4>3. CASE i > k
          <5>1. i - 1 \in 1..Len(r) /\ r[i - 1] = l[i]
            BY <2>2, <4>3
          <5> QED
            BY <5>1
        <4> QED
          BY <4>1, <4>2, <4>3
      <3>3. ToSet(r) \subseteq ToSet(l) \ {fd}
        BY <2>2, <3>1, ToSetElements
      <3>4. ASSUME NEW x \in ToSet(l) \ {fd} PROVE x \in ToSet(r)
        <4>1. PICK i \in 1..Len(l) : l[i] = x
          BY ToSetElements
        <4> QED
          BY <2>2, <3>2, <4>1, ToSetElements
      <3> QED
        BY <3>3, <3>4
    <2> QED
      BY <2>2, <2>3, <2>5, <2>6
  <1> QED
    BY <1>1, <1>2 DEF ListDelete

\* here->next is the next lower member, and the loop ends only after the
\* lowest one.
LEMMA AdvanceDescends ==
    ASSUME TypeOK, Sorted, here \in Members, Advance
    PROVE  \/ /\ pc' = "scan"
              /\ here' \in Members
              /\ here' < here
              /\ \A fd \in Members : fd > here' => fd >= here
           \/ /\ pc' = "idle"
              /\ here' = 0
              /\ \A fd \in Members : fd >= here
  <1>1. PICK k \in 1..Len(list) :
            /\ list[k] = here
            /\ IF k = Len(list)
               THEN pc' = "idle" /\ here' = 0
               ELSE pc' = "scan" /\ here' = list[k + 1]
    BY DEF Advance
  <1>2. list \in Seq(Fd)
    BY DEF TypeOK
  <1>3. ASSUME NEW i \in 1..Len(list) PROVE list[i] \in Nat /\ list[i] \in Members
    <2>1. list[i] \in Fd
      BY <1>2
    <2> QED
      BY <1>2, <2>1, FdAssumption, ToSetElements DEF Members
  <1>4. \A fd \in Members : \E i \in 1..Len(list) : list[i] = fd
    BY <1>2, ToSetElements DEF Members
  <1>5. \A i, j \in 1..Len(list) : i < j => list[i] > list[j]
    BY DEF Sorted, Descending
  <1>6. Len(list) \in Nat
    BY <1>2
  <1>7. CASE k = Len(list)
    <2>1. ASSUME NEW i \in 1..Len(list) PROVE list[i] >= here
      <3>1. i = k \/ i < k
        BY <1>6, <1>7
      <3> QED
        BY <1>1, <1>3, <1>5, <3>1
    <2> QED
      BY <1>1, <1>4, <1>7, <2>1
  <1>8. CASE k # Len(list)
    <2>1. k + 1 \in 1..Len(list)
      BY <1>6, <1>8
    <2>2. ASSUME NEW i \in 1..Len(list), list[i] > here'
          PROVE  list[i] >= here
      <3>1. i <= k \/ i = k + 1 \/ k + 1 < i
        BY <1>6
      <3>2. CASE i <= k
        BY <1>1, <1>3, <1>5, <3>2
      <3>3. CASE i = k + 1
        BY <1>1, <1>3, <1>8, <2>1, <2>2, <3>3
      <3>4. CASE k + 1 < i
        BY <1>1, <1>3, <1>5, <1>8, <2>1, <2>2, <3>4
      <3> QED
        BY <3>1, <3>2, <3>3, <3>4
    <2> QED
      BY <1>1, <1>3, <1>4, <1>5, <1>8, <2>1, <2>2
  <1> QED
    BY <1>7, <1>8

\* The root of the list is its maximum.
LEMMA RootIsMaximum ==
    ASSUME TypeOK, Sorted, NEW fd \in Members
    PROVE  /\ fd \in Nat
           /\ list[1] \in Nat
           /\ fd <= list[1]
  <1>1. list \in Seq(Fd)
    BY DEF TypeOK
  <1>2. PICK i \in 1..Len(list) : list[i] = fd
    BY <1>1, ToSetElements DEF Members
  <1>3. /\ 1 \in 1..Len(list)
        /\ i = 1 \/ 1 < i
        /\ list[i] \in Fd
        /\ list[1] \in Fd
    BY <1>1
  <1>4. list[i] \in Nat /\ list[1] \in Nat
    BY <1>3, FdAssumption
  <1>5. 1 < i => list[1] > list[i]
    BY <1>3 DEF Sorted, Descending
  <1> QED
    BY <1>2, <1>3, <1>4, <1>5

-----------------------------------------------------------------------------
(* The inductive invariant.                                                *)

USE DEF FdSet, FdClr

\* The empty queue of evf_io_queue_new() satisfies it.
LEMMA InitIInv == Init => IInv
  <1> SUFFICES ASSUME Init PROVE IInv
    OBVIOUS
  <1>1. Members = {} /\ Len(list) = 0 /\ list \in Seq(Fd)
    BY DEF Init, Members, ToSet
  <1> QED
    BY <1>1, MaxCntAssumption
    DEF Init, IInv, TypeOK, Sorted, Descending, NoStaleBit, CntCoversList,
        PassPosition, Behind, Ahead, InLoop

\* What the kernel and the program do to descriptors leaves the queue as it is.
LEMMA KernelIInv ==
    ASSUME IInv,
           \/ \E fd \in Fd : OpenFd(fd) \/ CloseFd(fd)
           \/ \E fds \in SUBSET open : DataArrives(fds)
           \/ Drain
    PROVE  IInv'
  <1>1. UNCHANGED <<queueVars, ghostVars>> /\ Members' = Members
    BY DEF OpenFd, CloseFd, DataArrives, Drain, Members, queueVars, ghostVars
  <1>2. TypeOK' /\ Sorted' /\ CntCoversList'
    BY <1>1
    DEF IInv, TypeOK, Sorted, CntCoversList, queueVars, ghostVars,
        OpenFd, CloseFd, DataArrives, Drain
  <1>3. NoStaleBit'
    BY <1>1
    DEF IInv, NoStaleBit, queueVars, OpenFd, CloseFd, DataArrives, Drain
  <1>4. \A b \in rfds : Ahead(b) => b \in data' \cup fresh
    BY FdAssumption
    DEF IInv, TypeOK, NoStaleBit, PassPosition, Ahead, OpenFd, CloseFd, DataArrives, Drain
  <1>5. PassPosition'
    BY <1>1, <1>4
    DEF IInv, PassPosition, Ahead, Behind, InLoop, queueVars, ghostVars
  <1> QED
    BY <1>2, <1>3, <1>5 DEF IInv

\* evf_io_queue_add(), in the loop too: the new member's bit is set, so it is
\* armed whether the loop still comes to it or not.
LEMMA AddIInv ==
    ASSUME IInv, NEW fd \in Fd, Add(fd)
    PROVE  IInv'
  <1>1. /\ list' \in Seq(Fd)
        /\ Len(list') = Len(list) + 1
        /\ Members' = Members \cup {fd}
        /\ Descending(list')
    BY InsertKeepsOrder DEF IInv, TypeOK, Sorted, Add, Members
  <1>2. TypeOK' /\ Sorted' /\ NoStaleBit' /\ CntCoversList'
    BY <1>1, MaxCntAssumption
    DEF IInv, TypeOK, Sorted, NoStaleBit, CntCoversList, Add, kernelVars
  <1>3. PassPosition'
    BY <1>1
    DEF IInv, NoStaleBit, PassPosition, Ahead, Behind, InLoop, Add, kernelVars
  <1> QED
    BY <1>2, <1>3 DEF IInv

\* evf_io_queue_rem(), whether it finds the bit set or not.
LEMMA RemIInv ==
    ASSUME IInv, NEW fd \in Fd, Rem(fd)
    PROVE  IInv'
  <1>1. CASE fd \in rfds
    <2>1. /\ list' \in Seq(Fd)
          /\ Len(list') = Len(list) - 1
          /\ Members' = Members \ {fd}
          /\ Descending(list')
      BY <1>1, DeleteKeepsOrder DEF IInv, TypeOK, Sorted, Rem, Members
    <2>2. Len(list) \in Nat /\ Len(list') \in Nat
      BY <2>1 DEF IInv, TypeOK
    <2>3. TypeOK' /\ Sorted' /\ NoStaleBit' /\ CntCoversList'
      BY <1>1, <2>1, <2>2, MaxCntAssumption
      DEF IInv, TypeOK, Sorted, NoStaleBit, CntCoversList, Rem, kernelVars
    <2>4. PassPosition'
      BY <1>1, <2>1
      DEF IInv, PassPosition, Ahead, Behind, InLoop, InProgram, Rem, kernelVars
    <2> QED
      BY <2>3, <2>4 DEF IInv
  <1>2. CASE fd \notin rfds
    <2>1. UNCHANGED <<list, rfds, cnt, pc, here, open, data, fresh>> /\ Members' = Members
      BY <1>2 DEF Rem, kernelVars, Members
    <2> QED
      BY <2>1
      DEF IInv, TypeOK, Sorted, NoStaleBit, CntCoversList, PassPosition, Ahead,
          Behind, InLoop, Rem
  <1> QED
    BY <1>1, <1>2

\* select() returns: every bit that is left is an answer, and the loop stands
\* at the maximum, so nothing lies behind it.
LEMMA SelectIInv ==
    ASSUME IInv, Select
    PROVE  IInv'
  <1>1. /\ list' = list /\ cnt' = cnt /\ open' = open /\ data' = data
        /\ rfds' = Ready /\ pc = "idle" /\ pc' = "scan" /\ here' = list[1] /\ fresh' = {}
        /\ dropped' = dropped /\ Members' = Members
    BY DEF Select, kernelVars, Members
  <1>2. Len(list) \in Nat \ {0} /\ list \in Seq(Fd)
    BY EmptySeq DEF Select, IInv, TypeOK
  <1>3. list[1] \in Fd /\ list[1] \in Members
    BY <1>2, ToSetElements DEF Members
  <1>4. \A fd \in Members : fd <= list[1] /\ ~(fd > list[1])
    BY RootIsMaximum DEF IInv
  <1>5. Ready \subseteq rfds \cap data
    BY DEF Ready
  <1>6. TypeOK' /\ Sorted' /\ NoStaleBit' /\ CntCoversList'
    BY <1>1, <1>3, <1>5
    DEF IInv, TypeOK, Sorted, NoStaleBit, CntCoversList
  <1>7. PassPosition'
    BY <1>1, <1>3, <1>4, <1>5
    DEF PassPosition, Ahead, Behind, InLoop
  <1> QED
    BY <1>6, <1>7 DEF IInv

\* The loop sets the bit of a member that was not ready and goes on.
LEMMA RearmIInv ==
    ASSUME IInv, Rearm
    PROVE  IInv'
  <1>1. /\ list' = list /\ cnt' = cnt /\ open' = open /\ data' = data
        /\ rfds' = rfds \cup {here} /\ fresh' = fresh /\ dropped' = dropped
        /\ pc = "scan" /\ Members' = Members /\ Advance
    BY DEF Rearm, kernelVars, ghostVars, Members
  <1>2. here \in Members /\ Members \subseteq Fd
    BY <1>1, ToSetElements DEF IInv, TypeOK, PassPosition, InLoop, Members
  <1>3. \/ /\ pc' = "scan" /\ here' \in Members /\ here' < here
           /\ \A fd \in Members : fd > here' => fd >= here
        \/ /\ pc' = "idle" /\ here' = 0
           /\ \A fd \in Members : fd >= here
    BY <1>1, <1>2, AdvanceDescends DEF IInv
  <1>4. TypeOK' /\ Sorted' /\ NoStaleBit' /\ CntCoversList'
    BY <1>1, <1>2, <1>3
    DEF IInv, TypeOK, Sorted, NoStaleBit, CntCoversList
  <1>5. \A fd \in Members : fd \in Nat
    BY <1>2, FdAssumption
  <1>6. \A fd \in Members : Behind(fd)' => fd \in rfds'
    BY <1>1, <1>2, <1>3, <1>5 DEF IInv, PassPosition, Behind, InLoop
  <1>7. \A fd \in rfds' : Ahead(fd)' => fd \in data' \cup fresh'
    BY <1>1, <1>2, <1>3, <1>5 DEF IInv, NoStaleBit, PassPosition, Ahead
  <1> QED
    BY <1>1, <1>3, <1>4, <1>6, <1>7 DEF IInv, PassPosition, InLoop, Behind

\* The callback is called: only "here" itself is no longer ahead.
LEMMA DispatchIInv ==
    ASSUME IInv, Dispatch
    PROVE  IInv'
  <1>1. UNCHANGED <<list, rfds, cnt, here, open, data, fresh, dropped>> /\ Members' = Members
    BY DEF Dispatch, kernelVars, ghostVars, Members
  <1>2. Members \subseteq Nat
    BY FdAssumption, ToSetElements DEF IInv, TypeOK, Members
  <1> QED
    BY <1>1, <1>2
    DEF IInv, TypeOK, Sorted, NoStaleBit, CntCoversList, PassPosition, Ahead,
        Behind, InLoop, Dispatch

\* The callback returns: a member that stays keeps its bit, and a member that
\* gives up its bit leaves the list.
LEMMA ReturnIInv ==
    ASSUME IInv, NEW flags \in Returns, Return(flags)
    PROVE  IInv'
  <1>1. /\ cnt' = cnt /\ fresh' = fresh /\ dropped' = dropped
        /\ pc = "callback" /\ Advance
    BY DEF Return, ghostVars
  <1>2. here \in Members /\ Members \subseteq Fd /\ here \in rfds
    BY <1>1, ToSetElements DEF IInv, TypeOK, PassPosition, InLoop, Members
  <1>3. \/ /\ pc' = "scan" /\ here' \in Members /\ here' < here
           /\ \A fd \in Members : fd > here' => fd >= here
        \/ /\ pc' = "idle" /\ here' = 0
           /\ \A fd \in Members : fd >= here
    BY <1>1, <1>2, AdvanceDescends DEF IInv
  <1>4. \A fd \in Members : fd \in Nat
    BY <1>2, FdAssumption
  <1>5. /\ list' \in Seq(Fd)
        /\ Descending(list')
        /\ Len(list') <= Len(list)
        /\ open' \subseteq open /\ data' = data \cap open'
        /\ \/ Members' = Members /\ rfds' = rfds /\ open' = open /\ here \in open
           \/ Members' = Members \ {here} /\ rfds' = rfds \ {here} /\ open \ {here} \subseteq open'
    <2>1. CASE flags = {}
      BY <2>1 DEF Return, IInv, TypeOK, Sorted, Members
    <2>2. CASE flags # {}
      <3>1. "REM" \in flags
        BY <2>2, ReturnsAssumption
      <3>2. ListDelete(list, here, list')
        BY <3>1 DEF Return
      <3>3. /\ list' \in Seq(Fd)
            /\ Len(list') = Len(list) - 1
            /\ Members' = Members \ {here}
            /\ Descending(list')
        BY <1>2, <3>2, DeleteKeepsOrder DEF IInv, TypeOK, Sorted, Members
      <3>4. Len(list') <= Len(list)
        BY <3>3 DEF IInv, TypeOK
      <3> QED
        BY <2>2, <3>3, <3>4 DEF Return, IInv, TypeOK
    <2> QED
      BY <2>1, <2>2
  <1>6. TypeOK'
    BY <1>1, <1>2, <1>3, <1>5 DEF IInv, TypeOK
  <1>7. Sorted' /\ NoStaleBit'
    <2>1. ASSUME NEW fd \in Members' PROVE fd \in open'
      <3>1. CASE Members' = Members /\ open' = open /\ here \in open
        BY <3>1 DEF IInv, NoStaleBit
      <3>2. CASE Members' = Members \ {here} /\ open \ {here} \subseteq open'
        BY <3>2 DEF IInv, NoStaleBit
      <3> QED
        BY <1>5, <3>1, <3>2
    <2>2. rfds' \subseteq Members'
      BY <1>5 DEF IInv, NoStaleBit
    <2> QED
      BY <1>5, <2>1, <2>2 DEF Sorted, NoStaleBit
  <1>8. CntCoversList'
    BY <1>1, <1>5, <1>6 DEF IInv, TypeOK, CntCoversList
  <1>9. \A fd \in Members' : Behind(fd)' => fd \in rfds'
    BY <1>1, <1>2, <1>3, <1>4, <1>5 DEF IInv, PassPosition, Behind, InLoop
  <1>10. \A fd \in rfds' : Ahead(fd)' => fd \in data' \cup fresh'
    BY <1>1, <1>2, <1>3, <1>4, <1>5 DEF IInv, NoStaleBit, PassPosition, Ahead
  <1>11. InLoop' => here' \in Members'
    BY <1>2, <1>3, <1>4, <1>5 DEF InLoop
  <1> QED
    BY <1>3, <1>6, <1>7, <1>8, <1>9, <1>10, <1>11 DEF IInv, PassPosition

\* evf_io_queue_destroy() and evf_io_queue_new().
LEMMA DestroyIInv ==
    ASSUME IInv, (\E closed \in SUBSET Members : Destroy(closed)) \/ New
    PROVE  IInv'
  <1>1. CASE New
    BY <1>1
    DEF IInv, TypeOK, Sorted, NoStaleBit, CntCoversList, PassPosition, Ahead,
        Behind, InLoop, New, kernelVars, ghostVars, Members
  <1>2. ASSUME NEW closed, Destroy(closed) PROVE IInv'
    <2>1. Members' = {} /\ Len(list') = 0 /\ list' \in Seq(Fd)
      BY <1>2 DEF Destroy, Members, ToSet
    <2> QED
      BY <1>2, <2>1, MaxCntAssumption
      DEF IInv, TypeOK, Sorted, Descending, NoStaleBit, CntCoversList,
          PassPosition, Ahead, Behind, InLoop, Destroy
  <1> QED
    BY <1>1, <1>2

\* A stuttering step changes nothing the invariant mentions.
LEMMA StutterIInv == IInv /\ UNCHANGED vars => IInv'
  BY DEF IInv, TypeOK, Sorted, NoStaleBit, CntCoversList, PassPosition, Ahead,
         Behind, InLoop, vars, queueVars, kernelVars, ghostVars, Members

\* The invariant is inductive.
LEMMA NextIInv == IInv /\ [Next]_vars => IInv'
  <1> SUFFICES ASSUME IInv, [Next]_vars PROVE IInv'
    OBVIOUS
  <1>1. CASE Program
    BY <1>1, KernelIInv, AddIInv, RemIInv, DestroyIInv DEF Program
  <1>2. CASE Loop
    BY <1>2, SelectIInv, RearmIInv, DispatchIInv DEF Loop
  <1>3. CASE Drain \/ \E fds \in SUBSET open : DataArrives(fds)
    BY <1>3, KernelIInv
  <1>4. CASE Finish
    BY <1>4, ReturnIInv DEF Finish
  <1> QED
    BY <1>1, <1>2, <1>3, <1>4, StutterIInv DEF Next

\* The inductive invariant holds in every reachable state.
THEOREM Invariance == Spec => []IInv
  BY InitIInv, NextIInv, PTL DEF Spec

-----------------------------------------------------------------------------
(* The properties the runs check, for every set of descriptors.            *)

\* The list, the descriptor set, the counter and the place in the loop always
\* have their types: the counter stays within its bound, and data is only at
\* open descriptors.
THEOREM Types == Spec => []TypeOK
  BY Invariance, PTL DEF IInv

\* At every call of select() the list is strictly descending: the root is the
\* maximum and no descriptor is in the list twice.
THEOREM ListStaysSorted == Spec => []Sorted
  BY Invariance, PTL DEF IInv

\* Every member is in rfds, and below the root, whenever select() is called.
THEOREM NoMemberForgotten == Spec => []NothingForgotten
  <1>1. IInv => NothingForgotten
    <2> SUFFICES ASSUME IInv, pc = "idle", NEW fd \in Members
                 PROVE  fd \in rfds /\ fd <= list[1]
      BY DEF NothingForgotten
    <2>1. fd \in rfds
      BY DEF IInv, PassPosition, Behind, InLoop
    <2> QED
      BY <2>1, RootIsMaximum DEF IInv
  <1> QED
    BY <1>1, Invariance, PTL

\* No bit of rfds and no member outlives its descriptor: select() never fails
\* with EBADF.
THEOREM SelectNeverFails == Spec => []NoStaleBit
  BY Invariance, PTL DEF IInv

\* The counter covers the list, so the subtraction of evf_io_queue_rem() cannot
\* wrap.
THEOREM CountNeverUnderflows == Spec => []CntCoversList
  BY Invariance, PTL DEF IInv

\* A callback is called for a descriptor with data or for one added since
\* select() returned.
THEOREM DispatchIsSound == Spec => DispatchReadyOrFresh
  <1>1. IInv /\ [Next]_vars =>
            [pc = "scan" /\ pc' = "callback" => here \in data \cup fresh]_vars
    <2> SUFFICES ASSUME IInv, Next, pc = "scan", pc' = "callback"
                 PROVE  here \in data \cup fresh
      OBVIOUS
    <2>1. here \in rfds
      BY DEF Next, Program, Loop, Finish, OpenFd, CloseFd, DataArrives, Drain, Add, Rem,
             Select, Rearm, Advance, Dispatch, Return, Destroy, New, queueVars
    <2>2. here \in Nat
      BY FdAssumption DEF IInv, TypeOK
    <2> QED
      BY <2>1, <2>2 DEF IInv, PassPosition, Ahead
  <1> QED
    BY <1>1, Invariance, PTL DEF Spec, DispatchReadyOrFresh

\* Within one pass of the loop the descriptors only fall.
THEOREM PassesDescend == Spec => PassDescends
  <1>1. IInv /\ [Next]_vars =>
            [InLoop /\ InLoop' =>
                here' <= here /\ (pc = "callback" /\ pc' = "scan" => here' < here)]_vars
    <2> SUFFICES ASSUME IInv, Next, InLoop, InLoop'
                 PROVE  here' <= here /\ (pc = "callback" /\ pc' = "scan" => here' < here)
      OBVIOUS
    <2>1. here \in Nat
      BY FdAssumption DEF IInv, TypeOK
    <2>2. here \in Members
      BY DEF IInv, PassPosition
    <2>3. CASE Advance
      <3>1. here' \in Nat
        <4>1. IInv'
          BY NextIInv
        <4> QED
          BY <4>1, FdAssumption DEF IInv, TypeOK
      <3> QED
        BY <2>1, <2>2, <2>3, <3>1, AdvanceDescends DEF IInv, InLoop
    <2>4. CASE here' = here /\ ~(pc = "callback" /\ pc' = "scan")
      BY <2>1, <2>4
    <2> QED
      BY <2>3, <2>4
      DEF InLoop, Next, Program, Loop, Finish, OpenFd, CloseFd, DataArrives, Drain,
          Add, Rem, Select, Rearm, Dispatch, Return, Destroy, New, queueVars
  <1> QED
    BY <1>1, Invariance, PTL DEF Spec, PassDescends

-----------------------------------------------------------------------------
(* The queue implements EventLoop.                                         *)

\* An empty queue is an event loop without sources.
LEMMA InitRefines == Init => Abstract!Init
  BY DEF Init, Abstract!Init, Members, ToSet

\* Every step of the queue is a step of the event loop or changes nothing of it.
LEMMA StepRefines ==
    ASSUME IInv, [Next]_vars
    PROVE  [Abstract!Next]_(Abstract!vars)
  <1> USE DEF Abstract!vars
  <1>1. here \in Fd \cup {0} /\ Members \subseteq Fd /\ data \subseteq Fd
    BY ToSetElements DEF IInv, TypeOK, Members
  <1>2. ASSUME NEW fd \in Fd, OpenFd(fd) PROVE UNCHANGED Abstract!vars
    BY <1>2 DEF OpenFd, queueVars, Members
  <1>3. ASSUME NEW fd \in Fd, CloseFd(fd) PROVE Abstract!Vanish(fd)
    BY <1>3 DEF CloseFd, queueVars, Members, Abstract!Vanish
  <1>4. ASSUME NEW fds \in SUBSET open, DataArrives(fds) PROVE Abstract!Arrive(fds)
    BY <1>4 DEF DataArrives, queueVars, Members, Abstract!Arrive
  <1>15. open \subseteq Fd
    BY DEF IInv, TypeOK
  <1>5. CASE Drain
    <2>1. Abstract!Vanish(here) /\ here \in Fd
      BY <1>5 DEF Drain, IInv, TypeOK, queueVars, Members, Abstract!Vanish
    <2> QED
      BY <2>1 DEF Abstract!Next
  <1>6. ASSUME NEW fd \in Fd, Add(fd) PROVE Abstract!Register(fd)
    <2>1. Members' = Members \cup {fd}
      BY <1>6, InsertKeepsOrder DEF IInv, TypeOK, Sorted, Add, Members
    <2> QED
      BY <1>6, <2>1 DEF Add, kernelVars, Abstract!Register
  <1>7. ASSUME NEW fd \in Fd, Rem(fd) PROVE Abstract!Unregister
    <2>1. Members' = Members \/ Members' = Members \ {fd}
      BY <1>7, DeleteKeepsOrder DEF IInv, TypeOK, Sorted, Rem, Members
    <2> QED
      BY <1>7, <2>1
      DEF Rem, kernelVars, Abstract!Unregister, IInv, PassPosition, InLoop
  <1>8. CASE Select
    BY <1>8 DEF Select, kernelVars, Members
  <1>9. CASE Rearm
    BY <1>9 DEF Rearm, Advance, kernelVars, Members
  <1>10. CASE Dispatch
    <2>1. Abstract!Start(here) /\ here \in Fd
      BY <1>1, <1>10
      DEF Dispatch, IInv, PassPosition, InLoop, kernelVars, Members, Abstract!Start
    <2> QED
      BY <2>1 DEF Abstract!Next
  <1>11. ASSUME NEW flags \in Returns, Return(flags) PROVE Abstract!Stop
    <2>1. \/ flags = {} /\ Members' = Members /\ data' = data
          \/ Members' = Members \ {here} /\ data' \in {data, data \ {here}}
      <3>1. CASE flags = {}
        BY <1>11, <3>1 DEF Return, Members
      <3>2. CASE flags # {}
        <4>1. ListDelete(list, here, list') /\ here \in Fd
          BY <1>1, <1>11, <3>2, ReturnsAssumption
          DEF Return, IInv, PassPosition, InLoop
        <4> QED
          BY <1>11, <4>1, DeleteKeepsOrder DEF IInv, TypeOK, Sorted, Return, Members
      <3> QED
        BY <3>1, <3>2
    <2>2. pc = "callback" /\ pc' # "callback"
      BY <1>11 DEF Return, Advance
    <2> QED
      BY <2>1, <2>2 DEF Abstract!Stop
  <1>12. ASSUME NEW closed, Destroy(closed) PROVE Abstract!Unregister
    <2>1. Members' = {} /\ data' \subseteq data
      BY <1>12 DEF Destroy, Members, ToSet
    <2> QED
      BY <1>12, <2>1 DEF Destroy, Abstract!Unregister
  <1>13. CASE New
    BY <1>13 DEF New, kernelVars, Members
  <1>14. CASE UNCHANGED vars
    BY <1>14 DEF vars, queueVars, kernelVars, Members
  <1> QED
    BY <1>2, <1>3, <1>4, <1>5, <1>6, <1>7, <1>8, <1>9, <1>10, <1>11, <1>12, <1>13, <1>14, <1>15
    DEF Next, Program, Loop, Finish, Abstract!Next

\* Callbacks of registered sources only, one at a time, and a source leaves
\* only when it is removed.
THEOREM Refinement == Spec => Abstract!Spec
  BY InitRefines, StepRefines, Invariance, PTL DEF Spec, Abstract!Spec
=============================================================================
