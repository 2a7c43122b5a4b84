------------------------------ MODULE ConnFeed ------------------------------
(***************************************************************************)
(* What a capture backend promises its consumer, with nothing said of how  *)
(* the promise is kept.  capture.Capturer hands out a channel of events;   *)
(* the display appends a row for every EventNewConnection and removes one  *)
(* row for every EventConnectionClosed (internal/display/tui.go), so the   *)
(* stream makes sense only when, key by key, the two kinds alternate and   *)
(* the first is an EventNewConnection.                                     *)
(*                                                                         *)
(* Once the context is cancelled the stream is being torn down, and the    *)
(* promise ends: see PollCapture for what the code can do from then on.    *)
(***************************************************************************)
EXTENDS Integers

CONSTANT Key        \* the connection keys (types.ConnectionKey)

VARIABLES
  balance,          \* balance[k]: events "new" minus events "closed" received for k
  stopped           \* the context has been cancelled

feedVars == <<balance, stopped>>

FeedInit ==
  /\ balance = [k \in Key |-> 0]
  /\ stopped = FALSE

(* An EventNewConnection is received: the connection was not on display.   *)
Announce(k) ==
  /\ ~stopped
  /\ balance[k] = 0
  /\ balance' = [balance EXCEPT ![k] = 1]
  /\ UNCHANGED stopped

(* An EventConnectionClosed is received: the connection was on display.    *)
Retire(k) ==
  /\ ~stopped
  /\ balance[k] = 1
  /\ balance' = [balance EXCEPT ![k] = 0]
  /\ UNCHANGED stopped

Stop ==
  /\ ~stopped
  /\ stopped' = TRUE
  /\ UNCHANGED balance

FeedNext == Stop \/ \E k \in Key : Announce(k) \/ Retire(k)

FeedSpec == FeedInit /\ [][FeedNext]_feedVars
=============================================================================
