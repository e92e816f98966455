-------------------------------- MODULE Bbr --------------------------------
(***************************************************************************)
(* The bandwidth and round-trip model (transport/src/bbr.rs).  Rates and   *)
(* round-trip times are small integers, gains are in quarters, and of the  *)
(* clock only the age of the round-trip estimate matters: it is counted up *)
(* to the first value past RttAge.                                         *)
(***************************************************************************)
EXTENDS Integers, Sequences

CONSTANTS Rate,      \* delivery rates sampled
          Rtt,       \* round-trip times sampled; 0 is no measurement
          Infinite,  \* stands for f64::INFINITY
          Elapsed,   \* time between samples
          RttAge, ProbeTime   \* 10_000 and 2_000

VARIABLES mode,      \* BbrModel.phase
          bw, rtprop,
          pacing_rate, in_flight,  \* in quarters
          cycle_idx,
          age        \* now - rtprop_stamp

bbrVars == <<mode, bw, rtprop, pacing_rate, in_flight, cycle_idx, age>>

GAINS == <<4, 3, 4, 4, 4, 3, 4, 4>>

bdp(b, r) == b * r

BbrInit ==
  /\ mode = "Startup"
  /\ bw = 0 /\ rtprop = Infinite
  /\ pacing_rate = 0 /\ in_flight = 0 /\ cycle_idx = 0
  /\ age \in 0..(RttAge + 1)  \* the stamp is 0, the clock anything

\* Mutant: the probe waits for a new estimate of the round-trip time.
after_stuck(b, r, rate, a) ==
  CASE mode = "Startup"  -> IF b > 0 /\ 5 * rate < 4 * b THEN "Drain" ELSE mode
    [] mode = "Drain"    -> IF in_flight <= 4 * bdp(b, r) THEN "ProbeBw" ELSE mode
    [] mode = "ProbeBw"  -> IF a > RttAge THEN "ProbeRtt" ELSE mode
    [] mode = "ProbeRtt" -> IF a < ProbeTime THEN "ProbeBw" ELSE mode

\* The phase after a sample that left the estimates b and r, of age a.
after(b, r, rate, a) ==
  CASE mode = "Startup"  -> IF b > 0 /\ 5 * rate < 4 * b THEN "Drain" ELSE mode
    [] mode = "Drain"    -> IF in_flight <= 4 * bdp(b, r) THEN "ProbeBw" ELSE mode
    [] mode = "ProbeBw"  -> IF a > RttAge THEN "ProbeRtt" ELSE mode
    [] mode = "ProbeRtt" -> IF a > ProbeTime THEN "ProbeBw" ELSE mode

gain(m, i) == CASE m = "Startup" -> 8 [] m = "ProbeBw" -> GAINS[i + 1] [] OTHER -> 2

on_sample(rate, rtt, dt) ==
  LET b  == IF rate > bw THEN rate ELSE bw
      lower == rtt > 0 /\ rtt < rtprop
      r  == IF lower THEN rtt ELSE rtprop
      a  == IF lower THEN 0 ELSE IF age + dt > RttAge THEN RttAge + 1 ELSE age + dt
      m  == after(b, r, rate, a)
      i  == IF mode = "ProbeBw" THEN (cycle_idx + 1) % Len(GAINS) ELSE cycle_idx
  IN /\ bw' = b /\ rtprop' = r /\ age' = a /\ mode' = m /\ cycle_idx' = i
     /\ pacing_rate' = b * gain(m, i)
     /\ in_flight' = bdp(b, r) * gain(m, i)

BbrNext == \E rate \in Rate, rtt \in Rtt, dt \in Elapsed : on_sample(rate, rtt, dt)

BbrSpec == BbrInit /\ [][BbrNext]_bbrVars /\ WF_bbrVars(BbrNext)
-----------------------------------------------------------------------------
\* The half-rate phases end: as long as samples come, the model goes back to
\* probing for bandwidth, whatever rates and round-trip times they report, with
\* a pacing between half of and the whole best rate measured and no more in
\* flight than the bandwidth-delay product.
ProbesAgain ==
  mode \in {"Drain", "ProbeRtt"} ~>
    /\ mode = "ProbeBw"
    /\ 2 * bw <= pacing_rate /\ pacing_rate <= 4 * bw
    /\ in_flight <= 4 * bdp(bw, rtprop)
=============================================================================
