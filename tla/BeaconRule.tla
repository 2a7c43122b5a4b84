----------------------------- MODULE BeaconRule -----------------------------
(***************************************************************************)
(* What the periodic-connection detector is to decide, said of the whole   *)
(* log of a destination's connections: an alert is raised exactly when the *)
(* connections of the last Window are enough, regular, and the last alert  *)
(* for the destination is at least Cooldown old (README.md:89 and the      *)
(* comments of internal/detect/detector.go's Config).                      *)
(*                                                                         *)
(* Regularity is the coefficient of variation of the gaps between distinct *)
(* times, CV <= CvNum/CvDen, in integers: for n gaps d of sum S,           *)
(*   CV^2 = (n * SUM d^2 - S^2) / S^2 = SUM (d_i - d_j)^2 / S^2,           *)
(* the last sum over the pairs i < j.                                      *)
(***************************************************************************)
EXTENDS Integers, Sequences, FiniteSetsExt

CONSTANTS
  BeaconKey,    \* the destinations <<PID, remote IP, remote port>>
  Window,       \* width of the sliding window
  MinSamples,   \* connections needed before anything is analysed
  CvNum, CvDen, \* the largest coefficient of variation
  Cooldown      \* least distance of two alerts for one destination

Never == -1

VARIABLES
  clock,        \* the time of the latest event
  log,          \* log[k]: the times of all connections to k since the last reset
  alerted       \* alerted[k]: the time of the latest alert for k, or Never

ruleVars == <<clock, log, alerted>>

RuleInit ==
  /\ clock = 0
  /\ log = [k \in BeaconKey |-> <<>>]
  /\ alerted = [k \in BeaconKey |-> Never]

InWindow(times) == {i \in DOMAIN times : times[i] > clock - Window}

(* The gap before each of the distinct times T but the first.              *)
GapBefore(T, t) == t - Max({u \in T : u < t})

Regular(T) ==
  LET later == {t \in T : \E u \in T : u < t}
      spread == MapThenSumSet(
                  LAMBDA p : (GapBefore(T, p[1]) - GapBefore(T, p[2]))
                               * (GapBefore(T, p[1]) - GapBefore(T, p[2])),
                  {p \in later \X later : p[1] < p[2]})
      span == Max(T) - Min(T)
  IN /\ Cardinality(later) >= 2
     /\ CvDen * CvDen * spread <= CvNum * CvNum * span * span

Due(times, last) ==
  /\ Cardinality(InWindow(times)) >= MinSamples
  /\ last = Never \/ clock - last >= Cooldown
  /\ Regular({times[i] : i \in InWindow(times)})

Connect(k) ==
  /\ log' = [log EXCEPT ![k] = Append(@, clock)]
  /\ alerted' = [alerted EXCEPT ![k] = IF Due(log'[k], @) THEN clock ELSE @]
  /\ UNCHANGED clock

Forget ==
  /\ log' = [k \in BeaconKey |-> <<>>]
  /\ alerted' = [k \in BeaconKey |-> Never]
  /\ UNCHANGED clock

Pass == clock' > clock /\ UNCHANGED <<log, alerted>>

RuleNext == Pass \/ Forget \/ \E k \in BeaconKey : Connect(k)

RuleSpec == RuleInit /\ [][RuleNext]_ruleVars
=============================================================================
