------------------------------ MODULE Periodic ------------------------------
(***************************************************************************)
(* periodicDetector (internal/detect/periodic.go): per destination a list  *)
(* of connection times that is pruned to a sliding window at each new      *)
(* connection, a test of the gaps between them, and a cooldown.            *)
(*                                                                         *)
(* Time is in whole units: a scan gives all its events one timestamp, so   *)
(* equal times are common, and time does not run backwards.  The floating- *)
(* point test stddev/mean <= maxCV is done in integers, which leaves out   *)
(* the rounding of the two float64 divisions and the square root.          *)
(***************************************************************************)
EXTENDS Integers, SequencesExt

CONSTANTS
  BeaconKey,
  CfgWindow, CfgMinSamples, CfgCvNum,   \* Config as given; <= 0 means the default
  CvDen,                                \* the thresholds are CfgCvNum/CvDen and 1/4
  Cooldown,                             \* 60 s in the code
  MaxClock, MaxLog                      \* bounds of the model: time, events per destination

ASSUME ConfigAssumption ==
  /\ CfgWindow \in Int /\ CfgMinSamples \in Int /\ CfgCvNum \in Int
  /\ CvDen \in Nat \ {0} /\ CvDen % 4 = 0
  /\ Cooldown \in Nat /\ MaxClock \in Nat /\ MaxLog \in Nat

(* newPeriodicDetector's defaults: 300 s, 3 samples, CV 0.25.              *)
Window     == IF CfgWindow <= 0 THEN 300 ELSE CfgWindow
MinSamples == IF CfgMinSamples <= 0 THEN 3 ELSE CfgMinSamples
MaxCvNum   == IF CfgCvNum <= 0 THEN CvDen \div 4 ELSE CfgCvNum

Never == -1

VARIABLES
  clock,     \* the timestamp of the scan whose events are analysed
  history,   \* history[k]: the times kept for destination k
  alerted,   \* alerted[k]: the time of the last alert, Never if the map has none
  log        \* history variable: all times of k since the last Reset

periodicVars == <<clock, history, alerted, log>>

Init ==
  /\ clock = 0
  /\ history = [k \in BeaconKey |-> <<>>]
  /\ alerted = [k \in BeaconKey |-> Never]
  /\ log = [k \in BeaconKey |-> <<>>]

(* A loop over s that keeps, in order, the elements that are in T.         *)
Keep(s, T) ==
  LET kept[i \in 0 .. Len(s)] ==
        IF i = 0 THEN <<>>
        ELSE IF s[i] \in T THEN Append(kept[i - 1], s[i]) ELSE kept[i - 1]
  IN kept[Len(s)]

(* prune: the times strictly after the cutoff, in place, in order.         *)
Prune(times, reference) == Keep(times, {t \in Int : t > reference - Window})

(* The differences of neighbouring times.                                 *)
Gaps(times) == [i \in 1 .. Len(times) - 1 |-> times[i + 1] - times[i]]

(* Mutant: simultaneous connections count as intervals of length 0.        *)
DeltasWithZero(times) == Gaps(times)

(* The intervals that count: connections of one scan have none.            *)
Deltas(times) == Keep(Gaps(times), Nat \ {0})

Sum(s) ==
  LET sum[i \in 0 .. Len(s)] == IF i = 0 THEN 0 ELSE sum[i - 1] + s[i]
  IN sum[Len(s)]

(* stddev / mean <= maxCV: with mean = S/n and variance = SUM d^2/n - mean^2. *)
CvAtMost(deltas) ==
  LET n == Len(deltas)
      S == Sum(deltas)
      squares == Sum([i \in 1 .. n |-> deltas[i] * deltas[i]])
  IN CvDen * CvDen * (n * squares - S * S) <= MaxCvNum * MaxCvNum * S * S

(* Mutant: the cooldown ends one unit early.                               *)
CoolingDownShort(k) == alerted[k] # Never /\ clock - alerted[k] < Cooldown - 1

CoolingDown(k) == alerted[k] # Never /\ clock - alerted[k] < Cooldown

(* Mutant: one sample more than configured is wanted.                      *)
IsPeriodicLate(k, times) ==
  /\ Len(times) > MinSamples
  /\ ~CoolingDown(k)
  /\ Len(Deltas(times)) >= 2
  /\ CvAtMost(Deltas(times))

IsPeriodic(k, times) ==
  /\ Len(times) >= MinSamples
  /\ ~CoolingDown(k)
  /\ Len(Deltas(times)) >= 2
  /\ CvAtMost(Deltas(times))

(* Mutant: short histories return before they are pruned.                  *)
AnalyzePrunesLate(k) ==
  LET all == Append(history[k], clock)
      times == IF Len(all) < MinSamples THEN all ELSE Prune(all, clock)
  IN /\ Len(log[k]) < MaxLog
     /\ history' = [history EXCEPT ![k] = times]
     /\ alerted' = [alerted EXCEPT ![k] = IF IsPeriodic(k, times) THEN clock ELSE @]
     /\ log' = [log EXCEPT ![k] = Append(@, clock)]
     /\ UNCHANGED clock

(* Mutant: the end of the cooldown is stored where its start is expected.  *)
AnalyzeStoresEnd(k) ==
  LET times == Prune(Append(history[k], clock), clock)
  IN /\ Len(log[k]) < MaxLog
     /\ history' = [history EXCEPT ![k] = times]
     /\ alerted' = [alerted EXCEPT ![k] = IF IsPeriodic(k, times) THEN clock + Cooldown ELSE @]
     /\ log' = [log EXCEPT ![k] = Append(@, clock)]
     /\ UNCHANGED clock

(* Analyze, for an EventNewConnection to k; other events return at once.   *)
Analyze(k) ==
  LET times == Prune(Append(history[k], clock), clock)
  IN /\ Len(log[k]) < MaxLog
     /\ history' = [history EXCEPT ![k] = times]
     /\ alerted' = [alerted EXCEPT ![k] = IF IsPeriodic(k, times) THEN clock ELSE @]
     /\ log' = [log EXCEPT ![k] = Append(@, clock)]
     /\ UNCHANGED clock

Reset ==
  /\ history' = [k \in BeaconKey |-> <<>>]
  /\ alerted' = [k \in BeaconKey |-> Never]
  /\ log' = [k \in BeaconKey |-> <<>>]
  /\ UNCHANGED clock

Tick ==
  /\ clock < MaxClock
  /\ clock' = clock + 1
  /\ UNCHANGED <<history, alerted, log>>

Next == Tick \/ Reset \/ \E k \in BeaconKey : Analyze(k)

Spec == Init /\ [][Next]_periodicVars

-----------------------------------------------------------------------------
TypeOK ==
  /\ clock \in 0 .. MaxClock
  /\ history \in [BeaconKey -> Seq(0 .. MaxClock)]
  /\ alerted \in [BeaconKey -> 0 .. MaxClock \cup {Never}]
  /\ log \in [BeaconKey -> Seq(0 .. MaxClock)]

(* Pruning one destination at a time, only when it connects, loses nothing *)
(* and keeps nothing too old: what is kept for k is what its latest event  *)
(* can see of the whole log (prune, periodic.go).                          *)
HistoryIsWindow ==
  \A k \in BeaconKey :
    log[k] # <<>> => history[k] = Prune(log[k], Last(log[k]))

(* A destination that has been called at equal intervals for a whole       *)
(* window, often enough, has an alert that is less than a cooldown old at  *)
(* its latest call: no regular beacon inside the window is missed.         *)
BeaconsAlert ==
  \A k \in BeaconKey :
    LET seen == IF log[k] = <<>> THEN <<>> ELSE Prune(log[k], Last(log[k]))
    IN /\ Len(seen) >= MinSamples /\ Len(seen) >= 3
       /\ seen[2] > seen[1]
       /\ \A i \in 2 .. Len(seen) - 1 : seen[i + 1] - seen[i] = seen[2] - seen[1]
       => alerted[k] # Never /\ (alerted[k] = Last(seen) \/ Last(seen) - alerted[k] < Cooldown)

(* The detector decides as the rule on the whole log does.                 *)
Rule == INSTANCE BeaconRule WITH CvNum <- MaxCvNum
ImplementsBeaconRule == Rule!RuleSpec
=============================================================================
