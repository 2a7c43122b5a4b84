------------------------------- MODULE System -------------------------------
(***************************************************************************)
(* A polling backend and the periodic detector together: main.go's         *)
(* analysing goroutine hands every event it receives to Analyze, which     *)
(* takes the time of the scan as the time of the call.                     *)
(*                                                                         *)
(* The backend's key has the PID in it, and the detector counts the new    *)
(* connections of a (PID, remote end); what the two make of one socket is  *)
(* decided by neither alone.  The novelty and the suspicious detector      *)
(* (Detect) look at one event at a time and are left out.                  *)
(***************************************************************************)
EXTENDS PollCapture

CONSTANTS
  RemoteOf,     \* RemoteOf[a]: the remote end of address pair a
  CfgWindow, CfgMinSamples, CfgCvNum, CvDen, Cooldown, MaxClock, MaxLog   \* see Periodic

VARIABLES
  clock, history, alerted, log,   \* see Periodic
  opens                           \* history: sockets opened so far, by remote end

systemVars == <<vars, clock, history, alerted, log, opens>>

Remotes == {RemoteOf[a] : a \in Addr \cup PortPair}
BeaconKeys == [pid : PidOrNone, remote : Remotes]
BeaconOf(c) == [pid |-> c.pid, remote |-> RemoteOf[c.addr]]

Detector == INSTANCE Periodic WITH BeaconKey <- BeaconKeys

SystemInit ==
  /\ Init
  /\ Detector!Init
  /\ opens = [r \in Remotes |-> 0]

(* A scan has one timestamp, taken where it begins.                        *)
ScanBegins == DumpTCP /\ Detector!Tick /\ UNCHANGED opens

(* An EventNewConnection is received and analysed.                         *)
NewIsAnalysed ==
  /\ SendNew
  /\ \E c \in pendNew : pendNew' = pendNew \ {c} /\ Detector!Analyze(BeaconOf(c))
  /\ UNCHANGED opens

(* All other events are no business of the detector.                       *)
BackendGoesOn ==
  /\ \/ ResolvePIDs \/ ResolveWithoutPIDs \/ AbandonScan
     \/ DetectClosed \/ SendClosed \/ EndScan \/ AbortSend \/ Stop \/ Cancel
  /\ UNCHANGED <<clock, history, alerted, log, opens>>

KernelMoves ==
  /\ KernelStep
  /\ opens' = [r \in Remotes |-> opens[r] +
                 (IF \E a \in Addr : RemoteOf[a] = r /\ socks[a].state = "none" /\ socks'[a].state # "none"
                    THEN 1 ELSE 0)]
  /\ UNCHANGED <<clock, history, alerted, log>>

SystemNext == ScanBegins \/ NewIsAnalysed \/ BackendGoesOn \/ KernelMoves

SystemSpec == SystemInit /\ [][SystemNext]_systemVars

-----------------------------------------------------------------------------
(***************************************************************************)
(* What the README of the repository says and the code does not do.        *)
(***************************************************************************)

(* The detector "tracks the intervals between successive connections of    *)
(* one (PID, RemoteIP, RemotePort)" (README.md:89) and wants MinSamples of *)
(* them: an alert about a remote end comes after that many sockets.        *)
BeaconNeedsSockets ==
  \A b \in BeaconKeys : alerted[b] # Detector!Never => opens[b.remote] >= Detector!MinSamples
=============================================================================
