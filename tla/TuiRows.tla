------------------------------ MODULE TuiRows -------------------------------
(***************************************************************************)
(* The table of the dashboard: tuiDisplayer.handleEvent and the 't'        *)
(* command (internal/display/tui.go).  The events come from the abstract   *)
(* stream ConnFeed, which the polling backends implement (PollCapture);    *)
(* the pipeline in between keeps their order (Pipeline).                   *)
(*                                                                         *)
(* A row is matched with its EventConnectionClosed by key alone, the first *)
(* row with that key wins, the table holds MaxConns rows at most and drops *)
(* the oldest ones, and a TIME_WAIT connection that arrives while they are *)
(* hidden never becomes a row.                                             *)
(*                                                                         *)
(* An event of a new connection carries the alerts of all detectors, of    *)
(* which there may be several; they name the connection of the event.      *)
(*                                                                         *)
(* Abstractions: the filter text and the order of the rows on the screen   *)
(* select and arrange rows but change none; an alert is the key of its     *)
(* connection, which is all that a row's mark depends on.                  *)
(***************************************************************************)
EXTENDS ConnFeed, SequencesExt

CONSTANTS
  MaxConns,      \* 500 in the code
  MaxAlerts,     \* 100 in the code
  EventAlerts    \* the most alerts of one event: 5, from novelty, ports, addresses, beacons

ASSUME TableAssumption ==
  MaxConns \in Nat \ {0} /\ MaxAlerts \in Nat \ {0} /\ EventAlerts \in Nat

VARIABLES
  keep,          \* the -keep flag, never changed
  connections,   \* the rows, oldest first
  alerts,        \* the keys of the latest alerts, oldest first
  showTimeWait,  \* the -show-time-wait flag, toggled by 't'
  arrivals,      \* history: the open keys that got a row, in order of arrival
  newer          \* history: the alerts since the latest one of a key, MaxAlerts at most

rowVars == <<keep, connections, alerts, showTimeWait, arrivals, newer>>
vars == <<feedVars, rowVars>>

RowStates == {"open", "timewait", "close"}
Row == [key : Key, state : RowStates]

Init ==
  /\ FeedInit
  /\ connections = <<>> /\ alerts = <<>>
  /\ keep \in BOOLEAN /\ showTimeWait \in BOOLEAN
  /\ arrivals = <<>>
  /\ newer = [k \in Key |-> MaxAlerts]

(* Mutant: one element too many is kept.                                   *)
NewestPlusOne(s, n) == IF Len(s) > n + 1 THEN SubSeq(s, Len(s) - n, Len(s)) ELSE s

(* Mutant: a list that has just filled up is trimmed.                      *)
NewestTooEarly(s, n) == IF Len(s) >= n THEN SubSeq(s, Len(s) - n + 2, Len(s)) ELSE s

(* The newest n elements: s[len(s)-n:] once s has grown past n.            *)
Newest(s, n) == IF Len(s) > n THEN SubSeq(s, Len(s) - n + 1, Len(s)) ELSE s

Times(n, k) == [i \in 1 .. n |-> k]

(* Mutant: the list is trimmed once, by one, after the alerts of an event. *)
AppendAlertsTrimsOnce(n, k) ==
  LET all == alerts \o Times(n, k)
  IN alerts' = IF Len(all) > MaxAlerts THEN Tail(all) ELSE all

(* The n alerts of an event about k, trimmed after each.                   *)
AppendAlerts(n, k) == alerts' = Newest(alerts \o Times(n, k), MaxAlerts)

Aged(n, k) ==
  [j \in Key |-> IF j = k /\ n > 0 THEN 0
                 ELSE IF newer[j] + n < MaxAlerts THEN newer[j] + n ELSE MaxAlerts]

(* A hidden TIME_WAIT connection returns early, before the alerts.         *)
HandleNew(k, state, n) ==
  /\ Announce(k)
  /\ IF state = "timewait" /\ ~showTimeWait
       THEN UNCHANGED <<connections, alerts, arrivals, newer>>
       ELSE /\ connections' = Newest(Append(connections, [key |-> k, state |-> state]), MaxConns)
            /\ AppendAlerts(n, k)
            /\ arrivals' = Append(arrivals, k)
            /\ newer' = Aged(n, k)
  /\ UNCHANGED <<keep, showTimeWait>>

(* Mutant: the row after the match is cut out.                             *)
CloseRowCutsNext(k) ==
  LET i == SelectInSeq(connections, LAMBDA c : c.key = k)
  IN connections' =
       IF i = 0 THEN connections
       ELSE IF keep THEN [connections EXCEPT ![i].state = "close"]
       ELSE IF i = Len(connections) THEN RemoveAt(connections, i)
       ELSE RemoveAt(connections, i + 1)

(* The first row with the event's key is marked or removed.                *)
CloseRow(k) ==
  LET i == SelectInSeq(connections, LAMBDA c : c.key = k)
  IN connections' =
       IF i = 0 THEN connections
       ELSE IF keep THEN [connections EXCEPT ![i].state = "close"]
       ELSE RemoveAt(connections, i)

(* The detectors have nothing to say about a close.                        *)
HandleClosed(k) ==
  /\ Retire(k)
  /\ CloseRow(k)
  /\ AppendAlerts(0, k)
  /\ arrivals' = RemoveFirst(arrivals, k)
  /\ UNCHANGED <<keep, showTimeWait, newer>>

ToggleTimeWait ==
  /\ showTimeWait' = ~showTimeWait
  /\ UNCHANGED <<feedVars, keep, connections, alerts, arrivals, newer>>

StopFeed == Stop /\ UNCHANGED rowVars

Next ==
  \/ \E k \in Key, state \in {"open", "timewait"}, n \in 0 .. EventAlerts : HandleNew(k, state, n)
  \/ \E k \in Key : HandleClosed(k)
  \/ ToggleTimeWait
  \/ StopFeed

Spec == Init /\ [][Next]_vars

HasAlert(k) == Contains(alerts, k)

-----------------------------------------------------------------------------
TypeOK ==
  /\ connections \in Seq(Row) /\ Len(connections) <= MaxConns
  /\ alerts \in Seq(Key) /\ Len(alerts) <= MaxAlerts
  /\ keep \in BOOLEAN /\ showTimeWait \in BOOLEAN
  /\ arrivals \in Seq(Key) /\ newer \in [Key -> 0 .. MaxAlerts]

KeyList(rs) == [i \in DOMAIN rs |-> rs[i].key]

(* Without -keep the rows are the newest of the open connections that got  *)
(* a row: none twice, none after its close, none lost but the oldest ones  *)
(* to the table's limit (handleEvent, tui.go).                             *)
RowsAreNewestOpen ==
  ~keep => IsSuffix(KeyList(connections), arrivals)

(* The connections with a row that is not marked closed.                   *)
OpenRows ==
  {connections[i].key : i \in {j \in DOMAIN connections : connections[j].state # "close"}}

(* A connection that is still open loses its last open row only to a newer *)
(* row in a full table; with -keep too, where closed rows of the same key  *)
(* stay in the table and an EventConnectionClosed looks for its row.       *)
RowsLostOnlyWhenFull ==
  [][\A k \in OpenRows \ OpenRows' :
       \/ balance'[k] = 0
       \/ Len(connections) = MaxConns /\ \E j \in Key \ {k} : balance'[j] > balance[j]]_vars

(* A row has its alert mark ("***", hasAlertForConn) exactly when fewer    *)
(* than MaxAlerts alerts are newer than the latest one of its connection,  *)
(* however many alerts an event brings, and also when the connection is    *)
(* closed and comes back (handleEvent, tui.go:354).                        *)
MarkIsRecentAlert == \A k \in Key : HasAlert(k) <=> newer[k] < MaxAlerts

-----------------------------------------------------------------------------
(* "-keep: keep closed connections in the TUI" (README.md:38): a row kept  *)
(* for a connection that is not open any more is marked closed.            *)
KeptRowsAreClosed ==
  \A i \in DOMAIN connections :
    balance[connections[i].key] = 0 => connections[i].state = "close"
=============================================================================
