-------------------------- MODULE RingBufferProofs --------------------------
(* Proofs about RingBuffer, for every number of slots and set of items.    *)
EXTENDS RingBuffer, TLAPS

-----------------------------------------------------------------------------
(* Arithmetic on indices: both masks are linear on the values they meet.   *)

\* The mask on a sum of two indices subtracts N at most once.
LEMMA ModOfIndexSum ==
  ASSUME NEW x \in 0..(2 * N - 1)
  PROVE  x % N = IF x < N THEN x ELSE x - N
BY NAssumption

\* The next index is the successor, or 0 after the last slot.
LEMMA NextIndexLinear ==
  ASSUME NEW x \in Index
  PROVE  /\ NextIndex(x) = IF x + 1 = N THEN 0 ELSE x + 1
         /\ NextIndex(x) \in Index
<1>1. x + 1 \in 0..(2 * N - 1)
  BY NAssumption DEF Index
<1>. QED
  BY <1>1, ModOfIndexSum, NAssumption DEF Index, NextIndex

\* The distance is the difference, plus N when the indices wrapped.
LEMMA DistanceLinear ==
  ASSUME NEW t \in Index, NEW h \in Index
  PROVE  /\ Distance(t, h) = IF t <= h THEN h - t ELSE h + N - t
         /\ Distance(t, h) \in Index
<1>1. h + N - t \in 0..(2 * N - 1)
  BY NAssumption DEF Index
<1>. QED
  BY <1>1, ModOfIndexSum, NAssumption, SMTT(30) DEF Index, Distance

\* The index after moving k slots forward.
LEMMA SlotLinear ==
  ASSUME NEW t \in Index, NEW k \in Index
  PROVE  /\ (t + k) % N = IF t + k < N THEN t + k ELSE t + k - N
         /\ (t + k) % N \in Index
<1>1. t + k \in 0..(2 * N - 1)
  BY NAssumption DEF Index
<1>. QED
  BY <1>1, ModOfIndexSum, NAssumption DEF Index

\* a, b, c, d are met in this order when going once round the ring.
InRingOrder(a, b, c, d) == Distance(a, b) + Distance(b, c) + Distance(c, d) = Distance(a, d)

\* The order survives each of the four moves the threads make: one of the two
\* stale indices catches up, or one of the two true ones advances by a slot.
LEMMA RingOrderKept ==
  ASSUME NEW a \in Index, NEW b \in Index, NEW c \in Index, NEW d \in Index,
         InRingOrder(a, b, c, d)
  PROVE  /\ \A e \in Index : Distance(a, e) <= Distance(a, b) => InRingOrder(e, b, c, d)
         /\ \A e \in Index : Distance(c, e) <= Distance(c, d) => InRingOrder(a, b, e, d)
         /\ b # c => InRingOrder(a, NextIndex(b), c, d)
         /\ NextIndex(d) # a => InRingOrder(a, b, c, NextIndex(d))
<1>. DEFINE D(t, h) == IF t <= h THEN h - t ELSE h + N - t
<1>1. \A t, h \in Index : Distance(t, h) = D(t, h)
  BY DistanceLinear
<1>2. \A x \in Index : /\ NextIndex(x) = IF x + 1 = N THEN 0 ELSE x + 1
                       /\ NextIndex(x) \in Index
  BY NextIndexLinear
<1>3. D(a, b) + D(b, c) + D(c, d) = D(a, d)
  BY <1>1 DEF InRingOrder
<1>4. ASSUME NEW e \in Index, D(a, e) <= D(a, b)
      PROVE  D(e, b) + D(b, c) + D(c, d) = D(e, d)
  BY <1>3, <1>4, NAssumption DEF Index
<1>5. ASSUME NEW e \in Index, D(c, e) <= D(c, d)
      PROVE  D(a, b) + D(b, e) + D(e, d) = D(a, d)
  BY <1>3, <1>5, NAssumption DEF Index
<1>6. ASSUME NEW e \in Index, b # c, e = IF b + 1 = N THEN 0 ELSE b + 1
      PROVE  D(a, e) + D(e, c) + D(c, d) = D(a, d)
  BY <1>3, <1>6, NAssumption DEF Index
<1>7. ASSUME NEW e \in Index, e # a, e = IF d + 1 = N THEN 0 ELSE d + 1
      PROVE  D(a, b) + D(b, c) + D(c, e) = D(a, e)
  BY <1>3, <1>7, NAssumption DEF Index
<1>. HIDE DEF D
<1>8. \A e \in Index : Distance(a, e) <= Distance(a, b) => InRingOrder(e, b, c, d)
  BY <1>1, <1>4 DEF InRingOrder
<1>9. \A e \in Index : Distance(c, e) <= Distance(c, d) => InRingOrder(a, b, e, d)
  BY <1>1, <1>5 DEF InRingOrder
<1>10. b # c => InRingOrder(a, NextIndex(b), c, d)
  BY <1>1, <1>2, <1>6 DEF InRingOrder
<1>11. NextIndex(d) # a => InRingOrder(a, b, c, NextIndex(d))
  BY <1>1, <1>2, <1>7 DEF InRingOrder
<1>. QED
  BY <1>8, <1>9, <1>10, <1>11

\* Consequences of the order: the partial distances add up.
LEMMA RingOrderDistances ==
  ASSUME NEW a \in Index, NEW b \in Index, NEW c \in Index, NEW d \in Index,
         InRingOrder(a, b, c, d)
  PROVE  /\ Distance(b, c) <= Distance(b, d)
         /\ Distance(b, d) <= Distance(a, d)
         /\ Distance(a, b) <= Distance(a, d)
         /\ b # c => b # d
<1>. DEFINE D(t, h) == IF t <= h THEN h - t ELSE h + N - t
<1>1. \A t, h \in Index : Distance(t, h) = D(t, h)
  BY DistanceLinear
<1>2. D(a, b) + D(b, c) + D(c, d) = D(a, d)
  BY <1>1 DEF InRingOrder
<1>3. /\ D(b, c) <= D(b, d) /\ D(b, d) <= D(a, d) /\ D(a, b) <= D(a, d)
      /\ b # c => b # d
  BY <1>2, NAssumption DEF Index
<1>. HIDE DEF D
<1>. QED
  BY <1>1, <1>3

-----------------------------------------------------------------------------
(* The invariant.                                                          *)

\* The constructed buffer satisfies the invariant.
LEMMA InitEstablishesIndInv == Init => IndInv
<1>. SUFFICES ASSUME Init PROVE IndInv
  OBVIOUS
<1>1. 0 \in Index
  BY NAssumption DEF Index
<1>2. TypeOK
  BY <1>1 DEF Init, TypeOK
<1>3. IndexOrder
  BY <1>1, DistanceLinear DEF Init, IndexOrder, Index
<1>4. PushInProgress /\ PopInProgress /\ ChecksHold
  BY DEF Init, PushInProgress, PopInProgress, ChecksHold
<1>. QED
  BY <1>2, <1>3, <1>4 DEF IndInv

\* The loads of push and full keep it: the stale tail_ only catches up.
LEMMA ProducerKeepsIndInv ==
  ASSUME IndInv, Producer
  PROVE  IndInv'
<1>. PICK t \in LoadableSince(seenTail, tail) :
       \/ PushFull(t)
       \/ \E x \in Items : PushLoad(t, x)
       \/ Full(t)
  BY DEF Producer
<1>1. /\ t \in Index
      /\ Distance(seenTail, t) <= Distance(seenTail, tail)
  BY DEF LoadableSince
<1>2. /\ UNCHANGED <<head, buf, consumerVars>> /\ seenTail' = t
      /\ roomSeen' \in BOOLEAN
      /\ roomSeen' => pcP' = "idle" /\ NextIndex(head) # t
      /\ \/ pcP = "idle" /\ UNCHANGED <<pcP, itemP>>
         \/ pcP' = "write" /\ itemP' \in Items /\ NextIndex(head) # t
  BY DEF PushFull, PushLoad, Full
<1>3. TypeOK'
  BY <1>1, <1>2 DEF IndInv, TypeOK, consumerVars
<1>4. IndexOrder'
  <2>1. InRingOrder(t, tail, seenHead, head)
    BY <1>1, RingOrderKept DEF IndInv, TypeOK, IndexOrder, InRingOrder
  <2>. QED
    BY <2>1, <1>2 DEF IndexOrder, InRingOrder, Distance, consumerVars
<1>5. PushInProgress' /\ PopInProgress' /\ ChecksHold'
  BY <1>1, <1>2 DEF IndInv, PushInProgress, PopInProgress, ChecksHold, NextIndex, consumerVars
<1>. QED
  BY <1>3, <1>4, <1>5 DEF IndInv

\* The write of a slot keeps it: the slot is not the one pop reads.
LEMMA PushWriteKeepsIndInv ==
  ASSUME IndInv, PushWrite
  PROVE  IndInv'
<1>. USE DEF IndInv, PushWrite, consumerVars
<1>1. TypeOK'
  BY DEF TypeOK, PushInProgress
<1>2. IndexOrder'
  BY DEF IndexOrder, Distance
<1>3. PushInProgress'
  BY DEF PushInProgress, NextIndex, TypeOK
\* The slot written is not the one the consumer has copied from.
<1>4. pcC = "store" => head # tail
  BY RingOrderDistances DEF TypeOK, IndexOrder, InRingOrder, PopInProgress
<1>5. PopInProgress'
  BY <1>4 DEF PopInProgress, TypeOK
<1>6. ChecksHold'
  BY DEF ChecksHold, NextIndex
<1>. QED
  BY <1>1, <1>2, <1>3, <1>5, <1>6

\* The store of head_ keeps it: the producer had seen room for it.
LEMMA PushStoreKeepsIndInv ==
  ASSUME IndInv, PushStore
  PROVE  IndInv'
<1>. USE DEF IndInv, PushStore, consumerVars
<1>1. TypeOK'
  BY NextIndexLinear DEF TypeOK
<1>2. IndexOrder'
  <2>1. InRingOrder(seenTail, tail, seenHead, NextIndex(head))
    BY RingOrderKept DEF TypeOK, IndexOrder, InRingOrder, PushInProgress
  <2>. QED
    BY <2>1 DEF IndexOrder, InRingOrder, Distance
<1>3. PushInProgress' /\ PopInProgress' /\ ChecksHold'
  BY DEF PushInProgress, PopInProgress, ChecksHold
<1>. QED
  BY <1>1, <1>2, <1>3

\* The loads of pop and empty keep it: the stale head_ only catches up.
LEMMA ConsumerKeepsIndInv ==
  ASSUME IndInv, Consumer
  PROVE  IndInv'
<1>. PICK h \in LoadableSince(seenHead, head) :
       PopEmpty(h) \/ PopLoad(h) \/ Empty(h)
  BY DEF Consumer
<1>1. /\ h \in Index
      /\ Distance(seenHead, h) <= Distance(seenHead, head)
  BY DEF LoadableSince
<1>2. /\ UNCHANGED <<tail, buf, itemC, got, producerVars>> /\ seenHead' = h
      /\ dataSeen' \in BOOLEAN
      /\ dataSeen' => pcC' = "idle" /\ tail # h
      /\ \/ pcC = "idle" /\ UNCHANGED pcC
         \/ pcC' = "read" /\ tail # h
  BY DEF PopEmpty, PopLoad, Empty
<1>3. TypeOK'
  BY <1>1, <1>2 DEF IndInv, TypeOK, producerVars
<1>4. IndexOrder'
  <2>1. InRingOrder(seenTail, tail, h, head)
    BY <1>1, RingOrderKept DEF IndInv, TypeOK, IndexOrder, InRingOrder
  <2>. QED
    BY <2>1, <1>2 DEF IndexOrder, InRingOrder, Distance, producerVars
<1>5. PushInProgress' /\ PopInProgress' /\ ChecksHold'
  BY <1>1, <1>2 DEF IndInv, PushInProgress, PopInProgress, ChecksHold, NextIndex, producerVars
<1>. QED
  BY <1>3, <1>4, <1>5 DEF IndInv

\* The read of a slot keeps it.
LEMMA PopReadKeepsIndInv ==
  ASSUME IndInv, PopRead
  PROVE  IndInv'
<1>. USE DEF IndInv, PopRead, producerVars
<1>1. TypeOK'
  BY DEF TypeOK
<1>2. IndexOrder'
  BY DEF IndexOrder, Distance
<1>3. PushInProgress' /\ PopInProgress' /\ ChecksHold'
  BY DEF PushInProgress, PopInProgress, ChecksHold, NextIndex
<1>. QED
  BY <1>1, <1>2, <1>3

\* The store of tail_ keeps it: the consumer had seen an item to take.
LEMMA PopStoreKeepsIndInv ==
  ASSUME IndInv, PopStore
  PROVE  IndInv'
<1>. USE DEF IndInv, PopStore, producerVars
<1>1. TypeOK'
  BY NextIndexLinear DEF TypeOK
<1>2. IndexOrder'
  <2>1. InRingOrder(seenTail, NextIndex(tail), seenHead, head)
    BY RingOrderKept DEF TypeOK, IndexOrder, InRingOrder, PopInProgress
  <2>. QED
    BY <2>1 DEF IndexOrder, InRingOrder, Distance
<1>3. PushInProgress' /\ PopInProgress' /\ ChecksHold'
  BY DEF PushInProgress, PopInProgress, ChecksHold, NextIndex
<1>. QED
  BY <1>1, <1>2, <1>3

\* IndInv is inductive.
LEMMA StepKeepsIndInv == IndInv /\ [Next]_vars => IndInv'
<1>. SUFFICES ASSUME IndInv, [Next]_vars PROVE IndInv'
  OBVIOUS
<1>1. CASE UNCHANGED vars
  BY <1>1 DEF IndInv, vars, TypeOK, IndexOrder, PushInProgress, PopInProgress,
              ChecksHold, Distance, NextIndex
<1>2. CASE Next
  BY <1>2, ProducerKeepsIndInv, PushWriteKeepsIndInv, PushStoreKeepsIndInv,
     ConsumerKeepsIndInv, PopReadKeepsIndInv, PopStoreKeepsIndInv DEF Next
<1>. QED
  BY <1>1, <1>2

\* Every reachable state satisfies IndInv, for every power of two N and every
\* set of items: indices never lap each other, whatever the interleaving and
\* the staleness of the loads.
THEOREM IndInvHolds == Spec => []IndInv
BY InitEstablishesIndInv, StepKeepsIndInv, PTL DEF Spec

-----------------------------------------------------------------------------
(* What follows from it.                                                   *)

\* The invariant gives the order of the four indices.
LEMMA RingOrderHolds ==
  ASSUME IndInv
  PROVE  InRingOrder(seenTail, tail, seenHead, head)
BY DEF IndInv, IndexOrder, InRingOrder

\* push and pop never touch the same slot of buf_ at the same time, for every
\* size of the buffer.
THEOREM RaceFreedom == Spec => []SlotRaceFree
<1>1. IndInv => SlotRaceFree
  BY RingOrderHolds, RingOrderDistances
     DEF IndInv, TypeOK, PopInProgress, SlotRaceFree
<1>. QED
  BY <1>1, IndInvHolds, PTL

\* size() errs on the safe side for the thread that calls it.
THEOREM ConservativeSize == Spec => []SizeIsConservative
<1>1. IndInv => SizeIsConservative
  BY RingOrderHolds, RingOrderDistances DEF IndInv, TypeOK, SizeIsConservative
<1>. QED
  BY <1>1, IndInvHolds, PTL

\* Going one slot past d from a adds one to the distance, unless it closes
\* the ring.
LEMMA DistanceToNext ==
  ASSUME NEW a \in Index, NEW d \in Index, NextIndex(d) # a
  PROVE  Distance(a, NextIndex(d)) = Distance(a, d) + 1
<1>. DEFINE D(t, h) == IF t <= h THEN h - t ELSE h + N - t
            e == NextIndex(d)
<1>1. e \in Index /\ e = IF d + 1 = N THEN 0 ELSE d + 1
  BY NextIndexLinear
<1>2. Distance(a, e) = D(a, e) /\ Distance(a, d) = D(a, d)
  BY <1>1, DistanceLinear
<1>3. D(a, e) = D(a, d) + 1
  BY <1>1, NAssumption DEF Index
<1>. QED
  BY <1>2, <1>3

\* What full() == false tells the producer and empty() == false the consumer
\* stays true until that thread itself pushes or pops.
THEOREM StableChecks == Spec => ChecksAreStable
<1>1. IndInv /\ [Next]_vars => [\A t \in Index : PushFull(t) => ~roomSeen]_vars
  <2>. SUFFICES ASSUME IndInv, Next, NEW t \in Index, PushFull(t), roomSeen
                PROVE  FALSE
    BY DEF vars
  <2>1. roomSeen' = FALSE /\ seenTail' = t /\ NextIndex(head) = t
    BY DEF PushFull
  <2>2. Producer
    BY <2>1 DEF Next, PushWrite, PushStore, Consumer, PopEmpty, PopLoad, Empty,
                PopRead, PopStore, producerVars
  <2>3. t \in LoadableSince(seenTail, tail)
    BY <2>1, <2>2 DEF Producer, PushFull, PushLoad, Full
  <2>4. /\ Distance(seenTail, t) <= Distance(seenTail, tail)
        /\ Distance(seenTail, tail) <= Distance(seenTail, head)
    BY <2>3, RingOrderHolds, RingOrderDistances DEF IndInv, TypeOK, LoadableSince
  <2>5. Distance(seenTail, t) = Distance(seenTail, head) + 1
    BY <2>1, DistanceToNext DEF IndInv, TypeOK, ChecksHold
  <2>6. \A a, b \in Index : Distance(a, b) \in Nat
    BY DistanceLinear DEF Index
  <2>7. /\ Distance(seenTail, t) \in Nat /\ Distance(seenTail, tail) \in Nat
        /\ Distance(seenTail, head) \in Nat
    BY <2>6 DEF IndInv, TypeOK
  <2>. QED
    BY <2>4, <2>5, <2>7
<1>2. IndInv /\ [Next]_vars => [\A h \in Index : PopEmpty(h) => ~dataSeen]_vars
  <2>. SUFFICES ASSUME IndInv, Next, NEW h \in Index, PopEmpty(h), dataSeen
                PROVE  FALSE
    BY DEF vars
  <2>1. dataSeen' = FALSE /\ seenHead' = h /\ tail = h
    BY DEF PopEmpty
  <2>2. Consumer
    BY <2>1 DEF Next, Producer, PushFull, PushLoad, Full, PushWrite, PushStore,
                PopRead, PopStore, consumerVars
  <2>3. h \in LoadableSince(seenHead, head)
    BY <2>1, <2>2 DEF Consumer, PopEmpty, PopLoad, Empty
  <2>4. InRingOrder(seenTail, tail, h, head)
    BY <2>3, RingOrderHolds, RingOrderKept DEF IndInv, TypeOK, LoadableSince
  <2>5. tail # seenHead /\ tail = h
    BY <2>1 DEF IndInv, ChecksHold
  <2>6. /\ InRingOrder(seenTail, tail, seenHead, head)
        /\ Distance(seenHead, h) <= Distance(seenHead, head)
    BY <2>3, RingOrderHolds DEF LoadableSince
  <2>7. Distance(seenHead, tail) <= Distance(seenHead, head) => tail = seenHead
    <3>. DEFINE D(t, u) == IF t <= u THEN u - t ELSE u + N - t
    <3>1. \A t, u \in Index : Distance(t, u) = D(t, u)
      BY DistanceLinear
    <3>2. D(seenTail, tail) + D(tail, seenHead) + D(seenHead, head) = D(seenTail, head)
      BY <2>6, <3>1 DEF InRingOrder, IndInv, TypeOK
    <3>3. D(seenHead, tail) <= D(seenHead, head) => tail = seenHead
      BY <3>2, NAssumption DEF IndInv, TypeOK, Index
    <3>. HIDE DEF D
    <3>. QED
      BY <3>1, <3>3 DEF IndInv, TypeOK
  <2>. QED
    BY <2>5, <2>6, <2>7
<1>. QED
  BY <1>1, <1>2, IndInvHolds, PTL DEF Spec, RoomSeenIsStable, DataSeenIsStable, ChecksAreStable

-----------------------------------------------------------------------------
(* Refinement of BoundedFifo.                                              *)

\* A push in progress has a slot that is not the consumer's.
LEMMA PushHasRoom ==
  ASSUME IndInv, pcP # "idle"
  PROVE  NextIndex(head) # tail
<1>1. Distance(seenTail, NextIndex(head)) = Distance(seenTail, head) + 1
  BY DistanceToNext DEF IndInv, TypeOK, PushInProgress
<1>2. Distance(seenTail, tail) <= Distance(seenTail, head)
  BY RingOrderHolds, RingOrderDistances DEF IndInv, TypeOK
<1>3. Distance(seenTail, head) \in Nat /\ Distance(seenTail, tail) \in Nat
  BY DistanceLinear DEF IndInv, TypeOK, Index
<1>. QED
  BY <1>1, <1>2, <1>3

\* The slots of the items inside: from t onward, before h, which is the slot
\* right after the last of them.
LEMMA OccupiedSlots ==
  ASSUME NEW t \in Index, NEW h \in Index
  PROVE  /\ \A k \in 0..(Distance(t, h) - 1) : (t + k) % N \in Index \ {h}
         /\ (t + Distance(t, h)) % N = h
         /\ t % N = t
<1>. DEFINE D == IF t <= h THEN h - t ELSE h + N - t
<1>0. D \in Index /\ (\A k \in 0..(D - 1) : k \in Index)
  BY NAssumption DEF Index
<1>1. Distance(t, h) = D
  BY DistanceLinear
<1>2. ASSUME NEW k \in 0..(D - 1)
      PROVE  (t + k) % N \in Index \ {h}
  <2>1. (t + k) % N = IF t + k < N THEN t + k ELSE t + k - N
    BY <1>0, SlotLinear
  <2>2. (IF t + k < N THEN t + k ELSE t + k - N) \in Index \ {h}
    BY NAssumption DEF Index
  <2>. QED
    BY <2>1, <2>2
<1>3. (t + D) % N = h
  <2>1. (t + D) % N = IF t + D < N THEN t + D ELSE t + D - N
    BY <1>0, SlotLinear
  <2>2. (IF t + D < N THEN t + D ELSE t + D - N) = h
    BY NAssumption DEF Index
  <2>. QED
    BY <2>1, <2>2
<1>4. t % N = t
  BY ModOfIndexSum, NAssumption DEF Index
<1>. QED
  BY <1>1, <1>2, <1>3, <1>4

\* A slot of buf_ between tail_ and head_ keeps its item in every step, for
\* every size of the buffer.
THEOREM UnreadSlotsAreKept == Spec => UnreadSlotsKept
<1>1. IndInv /\ [Next]_vars =>
        [\A i \in 0..(Distance(tail, head) - 1) :
           LET slot == (tail + i) % N IN buf'[slot] = buf[slot]]_vars
  <2>. SUFFICES ASSUME IndInv, Next, NEW i \in 0..(Distance(tail, head) - 1)
                PROVE  buf'[(tail + i) % N] = buf[(tail + i) % N]
    BY DEF vars
  <2>1. (tail + i) % N \in Index \ {head}
    BY OccupiedSlots DEF IndInv, TypeOK
  <2>2. UNCHANGED buf \/ buf' = [buf EXCEPT ![head] = itemP]
    BY DEF Next, Producer, PushFull, PushLoad, Full, PushWrite, PushStore,
           Consumer, PopEmpty, PopLoad, Empty, PopRead, PopStore
  <2>. QED
    BY <2>1, <2>2 DEF IndInv, TypeOK
<1>. QED
  BY <1>1, IndInvHolds, PTL DEF Spec, UnreadSlotsKept

\* The abstract queue is a sequence of the slots from tail_ to head_.
LEMMA ContentsIsSeq ==
  ASSUME NEW S, NEW b \in [Index -> S], NEW t \in Index, NEW h \in Index
  PROVE  /\ Distance(t, h) \in Nat
         /\ ContentsOf(b, t, h) \in Seq(S)
         /\ Len(ContentsOf(b, t, h)) = Distance(t, h)
         /\ \A i \in 1..Distance(t, h) : ContentsOf(b, t, h)[i] = b[(t + (i - 1)) % N]
<1>1. Distance(t, h) \in Nat
  BY DistanceLinear DEF Index
<1>2. ASSUME NEW i \in 1..Distance(t, h)
      PROVE  b[(t + (i - 1)) % N] \in S
  <2>1. i - 1 \in 0..(Distance(t, h) - 1)
    BY <1>1
  <2>. QED
    BY <2>1, OccupiedSlots
<1>. QED
  BY <1>1, <1>2 DEF ContentsOf

\* Advancing head_ appends the item of the slot it leaves.
LEMMA ContentsAppend ==
  ASSUME NEW S, NEW b \in [Index -> S], NEW t \in Index, NEW h \in Index,
         NextIndex(h) # t
  PROVE  /\ ContentsOf(b, t, NextIndex(h)) = Append(ContentsOf(b, t, h), b[h])
         /\ Len(ContentsOf(b, t, h)) < N - 1
<1>. DEFINE d == Distance(t, h)
            c == ContentsOf(b, t, h)
            e == ContentsOf(b, t, NextIndex(h))
<1>1. NextIndex(h) \in Index
  BY NextIndexLinear
<1>2. Distance(t, NextIndex(h)) = d + 1
  BY DistanceToNext
<1>3. d \in Nat /\ d + 1 \in Index
  BY <1>1, <1>2, ContentsIsSeq, DistanceLinear
<1>4. /\ c \in Seq(S) /\ Len(c) = d
      /\ \A i \in 1..d : c[i] = b[(t + (i - 1)) % N]
  BY ContentsIsSeq
<1>5. /\ e \in Seq(S) /\ Len(e) = d + 1
      /\ \A i \in 1..(d + 1) : e[i] = b[(t + (i - 1)) % N]
  <2>1. /\ e \in Seq(S) /\ Len(e) = Distance(t, NextIndex(h))
        /\ \A i \in 1..Distance(t, NextIndex(h)) : e[i] = b[(t + (i - 1)) % N]
    BY <1>1, ContentsIsSeq, ZenonT(60)
  <2>. QED
    BY <2>1, <1>2
<1>6. e[d + 1] = b[h]
  <2>1. (t + d) % N = h
    BY OccupiedSlots
  <2>2. (d + 1) - 1 = d /\ d + 1 \in 1..(d + 1)
    BY <1>3
  <2>. QED
    BY <1>5, <2>1, <2>2
<1>7. \A i \in 1..d : e[i] = c[i]
  <2>1. \A i \in 1..d : i \in 1..(d + 1)
    BY <1>3
  <2>. QED
    BY <1>4, <1>5, <2>1
<1>8. b[h] \in S
  OBVIOUS
<1>. HIDE DEF c, d, e
<1>9. e = Append(c, b[h])
  BY <1>3, <1>4, <1>5, <1>6, <1>7, <1>8
<1>10. Len(c) < N - 1
  BY <1>3, <1>4, NAssumption DEF Index
<1>. QED
  BY <1>9, <1>10 DEF c, d, e

\* Advancing tail_ removes the item of the slot it leaves.
LEMMA ContentsTail ==
  ASSUME NEW S, NEW b \in [Index -> S], NEW t \in Index, NEW h \in Index,
         t # h
  PROVE  /\ ContentsOf(b, t, h) # <<>>
         /\ Head(ContentsOf(b, t, h)) = b[t]
         /\ ContentsOf(b, NextIndex(t), h) = Tail(ContentsOf(b, t, h))
<1>. DEFINE d == Distance(t, h)
            c == ContentsOf(b, t, h)
            e == ContentsOf(b, NextIndex(t), h)
<1>1. /\ NextIndex(t) \in Index
      /\ NextIndex(t) = IF t + 1 = N THEN 0 ELSE t + 1
  BY NextIndexLinear
<1>2. d \in Index /\ d = IF t <= h THEN h - t ELSE h + N - t
  BY DistanceLinear
<1>3. Distance(NextIndex(t), h) =
        IF NextIndex(t) <= h THEN h - NextIndex(t) ELSE h + N - NextIndex(t)
  BY <1>1, DistanceLinear
<1>4. d \in Nat \ {0} /\ Distance(NextIndex(t), h) = d - 1
  <2>. HIDE DEF d
  <2>. QED BY <1>1, <1>2, <1>3, NAssumption DEF Index
<1>5. /\ c \in Seq(S) /\ Len(c) = d
      /\ \A i \in 1..d : c[i] = b[(t + (i - 1)) % N]
  BY ContentsIsSeq
<1>6. /\ e \in Seq(S) /\ Len(e) = d - 1
      /\ \A i \in 1..(d - 1) : e[i] = b[(NextIndex(t) + (i - 1)) % N]
  <2>0. NextIndex(t) \in Index
    BY <1>1
  <2>1. /\ e \in Seq(S) /\ Len(e) = Distance(NextIndex(t), h)
        /\ \A i \in 1..Distance(NextIndex(t), h) :
             e[i] = b[(NextIndex(t) + (i - 1)) % N]
    BY <2>0, ContentsIsSeq, ZenonT(60)
  <2>. QED
    BY <2>1, <1>4
<1>7. ASSUME NEW i \in 1..(d - 1)
      PROVE  (NextIndex(t) + (i - 1)) % N = (t + i) % N
  <2>. HIDE DEF d
  <2>1. i \in Index /\ i - 1 \in Index
    BY <1>2, <1>4, NAssumption DEF Index
  <2>2. (t + i) % N = IF t + i < N THEN t + i ELSE t + i - N
    BY <2>1, SlotLinear
  <2>3. (NextIndex(t) + (i - 1)) % N =
          IF NextIndex(t) + (i - 1) < N THEN NextIndex(t) + (i - 1)
          ELSE NextIndex(t) + (i - 1) - N
    BY <1>1, <2>1, SlotLinear
  <2>. DEFINE u == NextIndex(t)
  <2>4. (IF u + (i - 1) < N THEN u + (i - 1) ELSE u + (i - 1) - N)
          = (IF t + i < N THEN t + i ELSE t + i - N)
    <3>. HIDE DEF u
    <3>1. u \in Index /\ u = IF t + 1 = N THEN 0 ELSE t + 1
      BY <1>1 DEF u
    <3>. QED
      BY <3>1, <2>1, NAssumption DEF Index
  <2>. QED
    BY <2>2, <2>3, <2>4
<1>8. \A i \in 1..(d - 1) : e[i] = c[i + 1]
  <2>1. \A i \in 1..(d - 1) : i + 1 \in 1..d /\ (i + 1) - 1 = i
    BY <1>4
  <2>. QED
    BY <1>5, <1>6, <1>7, <2>1
<1>9. c[1] = b[t]
  <2>1. 1 \in 1..d /\ t + (1 - 1) = t
    BY <1>4 DEF Index
  <2>2. t % N = t
    BY OccupiedSlots
  <2>. QED
    BY <1>5, <2>1, <2>2
<1>. HIDE DEF c, d, e
<1>10. c # <<>> /\ Head(c) = b[t]
  BY <1>4, <1>5, <1>9
<1>11. e = Tail(c)
  BY <1>4, <1>5, <1>6, <1>8
<1>. QED
  BY <1>10, <1>11 DEF c, d, e

\* The ring buffer implements the abstract queue, for every N and Items: the
\* store of head_ is the Put, the store of tail_ is the Take, and every other
\* step of push, pop, full and empty leaves the abstract queue alone.
THEOREM RefinesFifo == Spec => ImplementsFifo
<1>1. Init => Fifo!FifoInit
  <2>. SUFFICES ASSUME Init PROVE Fifo!FifoInit
    OBVIOUS
  <2>1. Distance(tail, head) = 0
    BY DistanceLinear, NAssumption DEF Init, Index
  <2>. QED
    BY <2>1 DEF Init, Fifo!FifoInit, Contents, ContentsOf
<1>2. IndInv /\ IndInv' /\ [Next]_vars => [Fifo!FifoNext]_(Fifo!fifoVars)
  <2>. SUFFICES ASSUME IndInv, IndInv', [Next]_vars
                PROVE  [Fifo!FifoNext]_(Fifo!fifoVars)
    OBVIOUS
  <2>. USE DEF IndInv, TypeOK
  <2>1. CASE PushStore
    <3>1. /\ tail' = tail /\ buf' = buf /\ got' = got /\ head' = NextIndex(head)
          /\ pcP # "idle" /\ buf[head] = itemP /\ itemP \in Items
      BY <2>1 DEF PushStore, consumerVars, PushInProgress
    <3>2. NextIndex(head) # tail
      BY <3>1, PushHasRoom
    <3>3. /\ ContentsOf(buf, tail, NextIndex(head)) = Append(Contents, itemP)
          /\ Len(Contents) < N - 1
      BY <3>1, <3>2, ContentsAppend DEF Contents
    <3>4. Contents' = Append(Contents, itemP)
      BY <3>1, <3>3 DEF Contents
    <3>5. Fifo!Put(itemP)
      BY <3>1, <3>3, <3>4 DEF Fifo!Put
    <3>. QED
      BY <3>1, <3>5 DEF Fifo!FifoNext
  <2>2. CASE PopStore
    <3>1. /\ head' = head /\ buf' = buf /\ tail' = NextIndex(tail)
          /\ got' = buf[tail] /\ tail # seenHead
      BY <2>2 DEF PopStore, producerVars, PopInProgress
    <3>2. tail # head
      BY <3>1, RingOrderHolds, RingOrderDistances
    <3>3. /\ Contents # <<>> /\ Head(Contents) = buf[tail]
          /\ ContentsOf(buf, NextIndex(tail), head) = Tail(Contents)
      BY <3>2, ContentsTail DEF Contents
    <3>4. Contents' = Tail(Contents)
      BY <3>1, <3>3 DEF Contents
    <3>5. Fifo!Take
      BY <3>1, <3>3, <3>4 DEF Fifo!Take
    <3>. QED
      BY <3>5 DEF Fifo!FifoNext
  <2>3. CASE PushWrite
    <3>1. /\ head' = head /\ tail' = tail /\ got' = got
          /\ buf' = [buf EXCEPT ![head] = itemP]
      BY <2>3 DEF PushWrite, consumerVars
    <3>2. /\ Distance(tail, head) \in Nat
          /\ \A i \in 1..Distance(tail, head) : (tail + (i - 1)) % N \in Index \ {head}
      <4>1. Distance(tail, head) \in Nat
        BY DistanceLinear DEF Index
      <4>2. \A i \in 1..Distance(tail, head) : i - 1 \in 0..(Distance(tail, head) - 1)
        BY <4>1
      <4>. QED
        BY <4>1, <4>2, OccupiedSlots
    <3>3. ContentsOf(buf', tail, head) = ContentsOf(buf, tail, head)
      BY <3>1, <3>2 DEF ContentsOf
    <3>. QED
      BY <3>1, <3>3 DEF Contents, Fifo!fifoVars
  <2>4. CASE UNCHANGED <<head, tail, buf, got>>
    BY <2>4 DEF Contents, ContentsOf, Distance, Fifo!fifoVars
  <2>5. \/ PushStore \/ PopStore \/ PushWrite \/ UNCHANGED <<head, tail, buf, got>>
    BY DEF Next, vars, Producer, PushFull, PushLoad, Full, Consumer, PopEmpty,
           PopLoad, Empty, PopRead, producerVars, consumerVars
  <2>. QED
    BY <2>1, <2>2, <2>3, <2>4, <2>5
<1>. QED
  BY <1>1, <1>2, IndInvHolds, PTL DEF Spec, ImplementsFifo, Fifo!FifoSpec
=============================================================================
