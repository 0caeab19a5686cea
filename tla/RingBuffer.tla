----------------------------- MODULE RingBuffer -----------------------------
(***************************************************************************)
(* net::RingBuffer<T, N> of module01: a lock-free queue between one        *)
(* producer thread, which owns head_, and one consumer thread, which owns  *)
(* tail_.  A call of push or pop is split at its shared-memory accesses.   *)
(*                                                                         *)
(* The owner's relaxed load of its own index returns the value it stored   *)
(* last.  The acquire load of the other thread's index may return any      *)
(* value stored since the one this thread read before: per-location        *)
(* coherence forbids going back, nothing forces the newest value.          *)
(* seenTail and seenHead hold what was read last.                          *)
(***************************************************************************)
EXTENDS Naturals, Sequences

CONSTANTS N,        \* template parameter: number of slots
          Items,    \* values of type T
          NoItem    \* content of a slot nobody has written, of an unset local

\* static_assert of ring_buffer.h: N is a power of two.
ASSUME NAssumption == N \in Nat \ {0} /\ (\E k \in 0..N : N = 2^k)

ASSUME NoItemAssumption == NoItem \notin Items

VARIABLES head,      \* head_: next slot to write
          tail,      \* tail_: next slot to read
          buf,       \* buf_
          seenTail,  \* tail_ as the producer loaded it last
          seenHead,  \* head_ as the consumer loaded it last
          pcP,       \* where the producer is inside push
          pcC,       \* where the consumer is inside pop
          itemP,     \* argument of the push in progress
          itemC,     \* what the pop in progress copied out of its slot
          got,       \* item returned by the last successful pop
          roomSeen,  \* the producer's last full() was false, no push since
          dataSeen   \* the consumer's last empty() was false, no pop since

producerVars == <<head, seenTail, pcP, itemP, roomSeen>>
consumerVars == <<tail, seenHead, pcC, itemC, got, dataSeen>>
vars == <<head, tail, buf, seenTail, seenHead, pcP, pcC, itemP, itemC, got,
          roomSeen, dataSeen>>

Index == 0..(N - 1)

\* (x + 1) & (N - 1)
NextIndex(x) == (x + 1) % N

\* (h - t + N) & (N - 1): elements between two indices.
Distance(t, h) == (h + N - t) % N

\* The values stored to an index since it was `seen`, up to `now`.
LoadableSince(seen, now) == {i \in Index : Distance(seen, i) <= Distance(seen, now)}

TypeOK ==
  /\ head \in Index /\ tail \in Index
  /\ seenTail \in Index /\ seenHead \in Index
  /\ buf \in [Index -> Items \cup {NoItem}]
  /\ pcP \in {"idle", "write", "store"}
  /\ pcC \in {"idle", "read", "store"}
  /\ itemP \in Items \cup {NoItem}
  /\ itemC \in Items \cup {NoItem}
  /\ got \in Items \cup {NoItem}
  /\ roomSeen \in BOOLEAN /\ dataSeen \in BOOLEAN

Init ==
  /\ head = 0 /\ tail = 0
  /\ seenTail = 0 /\ seenHead = 0
  /\ buf = [i \in Index |-> NoItem]
  /\ pcP = "idle" /\ pcC = "idle"
  /\ itemP = NoItem /\ itemC = NoItem /\ got = NoItem
  /\ roomSeen = FALSE /\ dataSeen = FALSE

-----------------------------------------------------------------------------
(* The producer thread: push, full, size.                                  *)

\* push: load head_ and tail_; the buffer looks full, return false.
PushFull(t) ==
  /\ pcP = "idle"
  /\ NextIndex(head) = t
  /\ seenTail' = t
  /\ roomSeen' = FALSE
  /\ UNCHANGED <<head, buf, pcP, itemP, consumerVars>>

\* Mutant: push does not test for a full buffer.
PushLoadUnchecked(t, x) ==
  /\ pcP = "idle"
  /\ seenTail' = t /\ itemP' = x /\ pcP' = "write" /\ roomSeen' = FALSE
  /\ UNCHANGED <<head, buf, consumerVars>>

\* push: load head_ and tail_; there is room for x.
PushLoad(t, x) ==
  /\ pcP = "idle"
  /\ NextIndex(head) # t
  /\ seenTail' = t
  /\ itemP' = x
  /\ pcP' = "write"
  /\ roomSeen' = FALSE
  /\ UNCHANGED <<head, buf, consumerVars>>

\* Mutant: push writes the slot before its own.
PushWriteBehind ==
  /\ pcP = "write"
  /\ buf' = [buf EXCEPT ![(head + N - 1) % N] = itemP]
  /\ pcP' = "store"
  /\ UNCHANGED <<head, seenTail, itemP, roomSeen, consumerVars>>

\* push: buf_[h] = item
PushWrite ==
  /\ pcP = "write"
  /\ buf' = [buf EXCEPT ![head] = itemP]
  /\ pcP' = "store"
  /\ UNCHANGED <<head, seenTail, itemP, roomSeen, consumerVars>>

\* push: head_.store(next_h, release), return true.
PushStore ==
  /\ pcP = "store"
  /\ head' = NextIndex(head)
  /\ pcP' = "idle"
  /\ UNCHANGED <<buf, seenTail, itemP, roomSeen, consumerVars>>

\* Mutant: full() compares the indices without the spare slot.
FullWithoutSpare(t) ==
  /\ pcP = "idle"
  /\ seenTail' = t
  /\ roomSeen' = (head # t)
  /\ UNCHANGED <<head, buf, pcP, itemP, consumerVars>>

\* full(), called by the producer between two pushes.
Full(t) ==
  /\ pcP = "idle"
  /\ seenTail' = t
  /\ roomSeen' = (NextIndex(head) # t)
  /\ UNCHANGED <<head, buf, pcP, itemP, consumerVars>>

Producer ==
  \E t \in LoadableSince(seenTail, tail) :
    \/ PushFull(t)
    \/ \E x \in Items : PushLoad(t, x)
    \/ Full(t)

-----------------------------------------------------------------------------
(* The consumer thread: pop, empty.                                        *)

\* pop: load tail_ and head_; the buffer looks empty, return false.
PopEmpty(h) ==
  /\ pcC = "idle"
  /\ tail = h
  /\ seenHead' = h
  /\ dataSeen' = FALSE
  /\ UNCHANGED <<tail, buf, pcC, itemC, got, producerVars>>

\* Mutant: pop does not test for an empty buffer.
PopLoadUnchecked(h) ==
  /\ pcC = "idle"
  /\ seenHead' = h /\ pcC' = "read" /\ dataSeen' = FALSE
  /\ UNCHANGED <<tail, buf, itemC, got, producerVars>>

\* pop: load tail_ and head_; there is an item.
PopLoad(h) ==
  /\ pcC = "idle"
  /\ tail # h
  /\ seenHead' = h
  /\ pcC' = "read"
  /\ dataSeen' = FALSE
  /\ UNCHANGED <<tail, buf, itemC, got, producerVars>>

\* pop: item = buf_[t]
PopRead ==
  /\ pcC = "read"
  /\ itemC' = buf[tail]
  /\ pcC' = "store"
  /\ UNCHANGED <<tail, buf, seenHead, got, dataSeen, producerVars>>

\* Mutant: pop forgets to publish the new tail_.
PopStoreForgotten ==
  /\ pcC = "store"
  /\ got' = itemC
  /\ pcC' = "idle"
  /\ UNCHANGED <<tail, buf, seenHead, itemC, dataSeen, producerVars>>

\* pop: tail_.store((t + 1) & (N - 1), release), return true.
PopStore ==
  /\ pcC = "store"
  /\ tail' = NextIndex(tail)
  /\ got' = itemC
  /\ pcC' = "idle"
  /\ UNCHANGED <<buf, seenHead, itemC, dataSeen, producerVars>>

\* empty(), called by the consumer between two pops.
Empty(h) ==
  /\ pcC = "idle"
  /\ seenHead' = h
  /\ dataSeen' = (h # tail)
  /\ UNCHANGED <<tail, buf, pcC, itemC, got, producerVars>>

Consumer ==
  \E h \in LoadableSince(seenHead, head) :
    PopEmpty(h) \/ PopLoad(h) \/ Empty(h)

Next ==
  \/ Producer \/ PushWrite \/ PushStore
  \/ Consumer \/ PopRead \/ PopStore

Spec == Init /\ [][Next]_vars

(***************************************************************************)
(* Fairness: the producer finishes a push it began, the consumer keeps     *)
(* polling (sfu and pipeline threads call pop in a loop), finishes a pop   *)
(* it began, and a stored head_ becomes visible in finite time, so a poll  *)
(* eventually loads the newest value.                                      *)
(***************************************************************************)
Fairness ==
  /\ WF_vars(PushWrite) /\ WF_vars(PushStore)
  /\ WF_vars(PopLoad(head)) /\ WF_vars(PopRead) /\ WF_vars(PopStore)

FairSpec == Spec /\ Fairness

-----------------------------------------------------------------------------
(* Properties.                                                             *)

\* The items inside the buffer, read off the code's own variables.
ContentsOf(b, t, h) == [i \in 1..Distance(t, h) |-> b[(t + (i - 1)) % N]]
Contents == ContentsOf(buf, tail, head)

\* The ring buffer implements a FIFO queue of capacity N - 1: a pop returns
\* the oldest item not yet returned, whatever the interleaving of the steps
\* of push and pop and however stale the indices they load.
Fifo == INSTANCE BoundedFifo WITH queue <- Contents, Capacity <- N - 1
ImplementsFifo == Fifo!FifoSpec

\* buf_ is not atomic: push never writes a slot while pop may be reading it.
SlotRaceFree == ~(pcP = "write" /\ pcC = "read" /\ head = tail)

\* A slot between tail_ and head_ keeps its item until pop has moved tail_
\* past it: no step of push overwrites data the consumer has not taken.
UnreadSlotsKept ==
  [][\A i \in 0..(Distance(tail, head) - 1) :
       LET slot == (tail + i) % N IN buf'[slot] = buf[slot]]_vars

\* full() == false, seen by the producer, is stable: the next push of that
\* thread does not return false, whatever the consumer did in between.
RoomSeenIsStable == [][\A t \in Index : PushFull(t) => ~roomSeen]_vars

\* empty() == false, seen by the consumer, is stable: the next pop of that
\* thread does not return false, whatever the producer did in between.
DataSeenIsStable == [][\A h \in Index : PopEmpty(h) => ~dataSeen]_vars

\* What a thread learns from full() or empty() holds until its own next call.
ChecksAreStable == RoomSeenIsStable /\ DataSeenIsStable

\* size() computed with the producer's view of tail_ never underestimates
\* the number of queued items, and with the consumer's view of head_ never
\* overestimates it: each thread errs on its safe side.
SizeIsConservative ==
  /\ Distance(tail, head) <= Distance(seenTail, head)
  /\ Distance(tail, seenHead) <= Distance(tail, head)

\* Going round the ring from the producer's stale tail_ one meets the true
\* tail_, the consumer's stale head_ and the true head_, in this order, and
\* never laps: the fact that both full and empty tests rest on.
IndexOrder ==
  Distance(seenTail, tail) + Distance(tail, seenHead) + Distance(seenHead, head)
    = Distance(seenTail, head)

\* Inside push there is a free slot and the item is in it once written;
\* inside pop there is an item and it has been copied once read.
PushInProgress ==
  /\ pcP # "idle" => NextIndex(head) # seenTail /\ itemP \in Items
  /\ pcP = "store" => buf[head] = itemP

PopInProgress ==
  /\ pcC # "idle" => tail # seenHead
  /\ pcC = "store" => itemC = buf[tail]

\* What a thread learned from full() or empty() is still in its stale index.
ChecksHold ==
  /\ roomSeen => pcP = "idle" /\ NextIndex(head) # seenTail
  /\ dataSeen => pcC = "idle" /\ tail # seenHead

\* The inductive invariant behind the theorems of RingBufferProofs: the
\* order of the four indices and what each thread knows inside its call.
IndInv == TypeOK /\ IndexOrder /\ PushInProgress /\ PopInProgress /\ ChecksHold

\* A consumer that keeps polling makes room: a full buffer does not stay so.
FullBufferDrains ==
  (Distance(tail, head) = N - 1 /\ N > 1) ~> (Distance(tail, head) < N - 1)
=============================================================================
