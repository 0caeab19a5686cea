---------------------------- MODULE JitterBuffer ----------------------------
(***************************************************************************)
(* JitterBuffer of module08: pop hands out the packet with the smallest    *)
(* number once the last arrival is long enough ago, or at once when more   *)
(* than Limit packets wait.  buf is the set of the numbers in buf_; the    *)
(* estimate of the jitter only decides whether pop is due.                 *)
(***************************************************************************)
EXTENDS Naturals, FiniteSetsExt

CONSTANT Limit   \* 10: packets that may wait for the delay

ASSUME LimitAssumption == Limit \in Nat

\* push: emplace keeps a packet that is already there.
JitterPushed(buf, seq) == buf \cup {seq}

\* Mutant: the limit is one higher.
MayPopLate(buf, due) == buf # {} /\ (due \/ Cardinality(buf) > Limit + 1)

\* pop returns a packet; due if enough time has passed since the last push.
MayPop(buf, due) == buf # {} /\ (due \/ Cardinality(buf) > Limit)

\* The packet it returns, in the order of the map.
PopsSeq(buf) == Min(buf)
=============================================================================
