---------------------------- MODULE GccEstimator ----------------------------
(***************************************************************************)
(* GccEstimator of module08: the slope of the delays of the last packets   *)
(* decides between Normal, Overuse and Underuse, which moves the estimate  *)
(* of the rate.  est is the record of trendline_buf_ (the delays, their x  *)
(* is their place in it), state_ and estimated_bps_.  Means and slope are  *)
(* kept exact by multiplying with the number n of samples; the estimate is *)
(* a multiple of 1 bps as in the code, 0.85 of it being rounded down.      *)
(***************************************************************************)
EXTENDS Integers, Sequences

CONSTANT TrendlineWin   \* TRENDLINE_WIN: 20

ASSUME TrendlineWinAssumption == TrendlineWin \in Nat /\ TrendlineWin >= 4

States == {"Normal", "Overuse", "Underuse"}

EstimatorInit == [buf |-> <<>>, state |-> "Normal", bps |-> 1000000]

\* on_packet_arrival: the buffer with one more delay, within the window.
Buffered(buf, delay) ==
  IF Len(buf) < TrendlineWin THEN Append(buf, delay) ELSE Append(Tail(buf), delay)

Total(f) ==
  LET sum[k \in 0..Len(f)] == IF k = 0 THEN 0 ELSE sum[k - 1] + f[k] IN sum[Len(f)]

\* compute_trendline: the slope is Num(buf) / Den(buf).
Num(buf) ==
  LET n == Len(buf)
      xs == Total([k \in 1..n |-> k])
      ys == Total(buf)
  IN Total([k \in 1..n |-> (n * k - xs) * (n * buf[k] - ys)])
Den(buf) ==
  LET n == Len(buf)
      xs == Total([k \in 1..n |-> k])
  IN Total([k \in 1..n |-> (n * k - xs) * (n * k - xs)])

\* The state for a buffer: the slope against 0.5 and -0.5.
StateFor(buf) ==
  IF 2 * Num(buf) > Den(buf) THEN "Overuse"
  ELSE IF 2 * Num(buf) < -Den(buf) THEN "Underuse"
  ELSE "Normal"

Larger(a, b) == IF a > b THEN a ELSE b

\* Mutant: the rate is cut by every packet of an overuse.
RateAfterEveryTime(prev, state, bps) ==
  IF state = "Overuse" THEN Larger((bps * 17) \div 20, 50000) ELSE bps + 100000

\* The rate after the state went from prev to state: cut once on entering
\* Overuse, raised by every packet in the others.
RateAfter(prev, state, bps) ==
  IF state = "Overuse"
  THEN IF prev = "Overuse" THEN bps ELSE Larger((bps * 17) \div 20, 50000)
  ELSE bps + 100000

\* on_packet_arrival
OnPacketArrival(est, delay) ==
  LET buf == Buffered(est.buf, delay)
      state == IF Len(buf) < 4 THEN est.state ELSE StateFor(buf)
  IN [buf |-> buf, state |-> state,
      bps |-> IF Len(buf) < 4 THEN est.bps ELSE RateAfter(est.state, state, est.bps)]
=============================================================================
