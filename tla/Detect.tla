------------------------------- MODULE Detect -------------------------------
(***************************************************************************)
(* The detection engine: Orchestrator.Analyze and Reset                    *)
(* (internal/detect/detector.go) over its three detectors, in order: the   *)
(* periodic one (Periodic), novelty.go and suspicious.go.  main.go's       *)
(* analysing goroutine calls Analyze for every event, one at a time; only  *)
(* an EventNewConnection changes anything.                                 *)
(*                                                                         *)
(* A connection is a record of what the detectors look at.  The static     *)
(* rules are sets: BadPort is the union of the port ranges, BadIP the      *)
(* remote addresses inside the given CIDR ranges.                          *)
(***************************************************************************)
EXTENDS Periodic

CONSTANTS
  Conn,      \* the connections: [local, remote, port, pid]
  BadPort, BadIP,
  MaxEvents  \* bound of the model: events analysed since the last Reset

ASSUME ConnAssumption ==
  /\ \A c \in Conn : DOMAIN c = {"local", "remote", "port", "pid"} /\ c.pid \in Nat
  /\ MaxEvents \in Nat

VARIABLES
  seenProcesses, seenConnections,
  analysed,     \* history: the connections analysed since the last Reset, in order
  alertLog      \* history: the alerts raised since then, in order

detectVars == <<periodicVars, seenProcesses, seenConnections, analysed, alertLog>>

BeaconOf(c) == [pid |-> c.pid, remote |-> c.remote, port |-> c.port]
BeaconKeys == {BeaconOf(c) : c \in Conn}

ASSUME KeyAssumption == BeaconKeys \subseteq BeaconKey

DetectInit ==
  /\ Init
  /\ seenProcesses = {} /\ seenConnections = {}
  /\ analysed = <<>> /\ alertLog = <<>>

(* at: the number of the event; time: its timestamp.                      *)
Alert(type, c) == [type |-> type, conn |-> c, at |-> Len(analysed) + 1, time |-> clock]

(* Mutant: the unknown process counts as one.                              *)
NewProcessAny(c) == c.pid \notin seenProcesses

(* noveltyDetector: a PID of 0 is no process.                              *)
NewProcess(c) == c.pid > 0 /\ c.pid \notin seenProcesses
NoveltyAlerts(c) ==
  (IF NewProcess(c) THEN <<Alert("process", c)>> ELSE <<>>)
    \o (IF c \notin seenConnections THEN <<Alert("connection", c)>> ELSE <<>>)

(* suspiciousDetector: at most one alert per rule kind.                    *)
SuspiciousAlerts(c) ==
  (IF c.port \in BadPort THEN <<Alert("port", c)>> ELSE <<>>)
    \o (IF c.remote \in BadIP THEN <<Alert("ip", c)>> ELSE <<>>)

PeriodicAlerts(c) ==
  LET k == BeaconOf(c)
  IN IF IsPeriodic(k, Prune(Append(history[k], clock), clock)) THEN <<Alert("periodic", c)>> ELSE <<>>

AnalyzeNew(c) ==
  /\ Len(analysed) < MaxEvents
  /\ Analyze(BeaconOf(c))
  /\ seenProcesses' = IF NewProcess(c) THEN seenProcesses \cup {c.pid} ELSE seenProcesses
  /\ seenConnections' = seenConnections \cup {c}
  /\ alertLog' = alertLog \o PeriodicAlerts(c) \o NoveltyAlerts(c) \o SuspiciousAlerts(c)
  /\ analysed' = Append(analysed, c)

ResetAll ==
  /\ Reset
  /\ seenProcesses' = {} /\ seenConnections' = {}
  /\ analysed' = <<>> /\ alertLog' = <<>>

Wait == Tick /\ UNCHANGED <<seenProcesses, seenConnections, analysed, alertLog>>

DetectNext == Wait \/ ResetAll \/ \E c \in Conn : AnalyzeNew(c)

DetectSpec == DetectInit /\ [][DetectNext]_detectVars

-----------------------------------------------------------------------------
Raised(type, c) == {i \in DOMAIN alertLog : alertLog[i].type = type /\ alertLog[i].conn = c}
Analysed(c) == {i \in DOMAIN analysed : analysed[i] = c}

(* Every process and every connection is announced exactly once, at its    *)
(* first event, whichever of the process's connections came first, and     *)
(* "unknown process" never is (README.md:28).                              *)
AnnouncedOnce ==
  /\ \A p \in {c.pid : c \in ToSet(analysed)} :
       LET found == UNION {Raised("process", c) : c \in {x \in Conn : x.pid = p}}
           first == Min({i \in DOMAIN analysed : analysed[i].pid = p})
       IN IF p = 0 THEN found = {}
          ELSE \E i \in DOMAIN alertLog : found = {i} /\ alertLog[i].at = first
  /\ \A c \in ToSet(analysed) :
       \E i \in DOMAIN alertLog :
         Raised("connection", c) = {i} /\ alertLog[i].at = Min(Analysed(c))

(* Two periodic alerts about one process and one remote end are a cooldown *)
(* apart, over all local ports the process used (README.md:89).            *)
CooldownHeld ==
  \A i, j \in DOMAIN alertLog :
    /\ i < j
    /\ alertLog[i].type = "periodic" /\ alertLog[j].type = "periodic"
    /\ BeaconOf(alertLog[i].conn) = BeaconOf(alertLog[j].conn)
    => alertLog[j].time - alertLog[i].time >= Cooldown
=============================================================================
