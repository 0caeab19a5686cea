---------------------------- MODULE BoundedFifo ----------------------------
(***************************************************************************)
(* What a queue between one producing and one consuming thread promises:   *)
(* items leave in the order in which they entered, none is lost, invented  *)
(* or repeated, and at most Capacity of them are inside at any time.       *)
(* net::RingBuffer (ring_buffer.h) is shown to implement this module.      *)
(***************************************************************************)
EXTENDS Naturals, Sequences

CONSTANTS Items,     \* what can be queued
          NoItem,    \* "the consumer has not received anything yet"
          Capacity   \* largest number of queued items

VARIABLES queue,     \* the items inside, oldest first
          got        \* the item the consumer received last

fifoVars == <<queue, got>>

FifoInit ==
  /\ queue = <<>>
  /\ got = NoItem

Put(x) ==
  /\ Len(queue) < Capacity
  /\ queue' = Append(queue, x)
  /\ UNCHANGED got

Take ==
  /\ queue # <<>>
  /\ got' = Head(queue)
  /\ queue' = Tail(queue)

FifoNext == (\E x \in Items : Put(x)) \/ Take

FifoSpec == FifoInit /\ [][FifoNext]_fifoVars
=============================================================================
