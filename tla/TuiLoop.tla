------------------------------ MODULE TuiLoop -------------------------------
(***************************************************************************)
(* The dashboard's event loop: tuiDisplayer.Start, handleFilterInput,      *)
(* handleCommand and what render can fail on (internal/display/tui.go),    *)
(* with the reader of the terminal on the other side of inputCh.           *)
(*                                                                         *)
(* Start's select takes any of the ready cases: the context, t.done, a     *)
(* resize, an event, the ticker, a key.  In filter mode it is not reached: *)
(* the loop then looks at inputCh alone.  The display owns its state, so   *)
(* t.mu orders nothing here.                                               *)
(*                                                                         *)
(* Abstractions: the rows are TuiRows' business, so an event is taken and  *)
(* nothing more; the keys that only scroll are one key, "j"; the filter    *)
(* text is its length in bytes, up to FilterMax; a key is the rune that    *)
(* readInput makes of its bytes (TuiInput).                                *)
(***************************************************************************)
EXTENDS Integers, SequencesExt

CONSTANTS
  Keys,        \* the keys the user may press
  InputCap,    \* capacity of inputCh, 64 in the code
  MaxKeys,     \* bound of the model: keys pressed
  Heights,     \* terminal heights getTermSize may report
  FilterMax    \* bound of the model: length of the filter text

ASSUME LoopAssumption ==
  /\ Keys \subseteq {"q", "a", "/", "j", "t", "enter", "backspace", "esc", "arrow", "x"}
  /\ InputCap \in Nat \ {0} /\ MaxKeys \in Nat /\ FilterMax \in Nat
  /\ Heights \subseteq Nat \ {0} /\ Heights # {}

VARIABLES
  inputCh,      \* the runes read and not yet handled
  inputClosed,  \* readInput has closed inputCh
  pressed,      \* number of keys pressed so far
  ctxDone, eventsClosed, eventReady, resized,
  filterMode, filterLen,
  showAlerts, termHeight,
  doneClosed,   \* t.done is closed
  quits,        \* history: how many 'q' handleCommand has seen
  cursor,       \* "hidden" or "shown"
  outcome       \* "running", why Start returned, or the panic that ended it

inputVars == <<inputCh, inputClosed, pressed>>
envVars == <<ctxDone, eventsClosed, eventReady, resized>>
tuiVars == <<filterMode, filterLen, showAlerts, termHeight, doneClosed, quits, cursor, outcome>>
vars == <<inputVars, envVars, tuiVars>>

(* Start returns at once when the terminal has no raw mode; otherwise it   *)
(* hides the cursor and draws.                                             *)
Init ==
  /\ inputCh = <<>> /\ inputClosed = FALSE /\ pressed = 0
  /\ ctxDone = FALSE /\ eventsClosed = FALSE /\ eventReady = FALSE /\ resized = FALSE
  /\ filterMode = FALSE /\ filterLen = 0
  /\ showAlerts = FALSE /\ termHeight \in Heights
  /\ doneClosed = FALSE /\ quits = 0
  /\ \/ outcome = "running" /\ cursor = "hidden"
     \/ outcome = "no raw mode" /\ cursor = "shown"

Running == outcome = "running"

(***************************************************************************)
(* The world around the loop.                                              *)
(***************************************************************************)
PressKey ==
  /\ Running /\ ~inputClosed /\ pressed < MaxKeys /\ Len(inputCh) < InputCap
  /\ \E r \in Keys : inputCh' = Append(inputCh, r)
  /\ pressed' = pressed + 1
  /\ UNCHANGED <<inputClosed, envVars, tuiVars>>

EndOfInput ==
  /\ Running /\ ~inputClosed
  /\ inputClosed' = TRUE
  /\ UNCHANGED <<inputCh, pressed, envVars, tuiVars>>

Signal ==
  /\ Running /\ ~ctxDone
  /\ ctxDone' = TRUE
  /\ UNCHANGED <<inputVars, eventsClosed, eventReady, resized, tuiVars>>

EventArrives ==
  /\ Running /\ ~eventsClosed /\ ~eventReady
  /\ eventReady' = TRUE
  /\ UNCHANGED <<inputVars, ctxDone, eventsClosed, resized, tuiVars>>

(* The pipeline closes its channel after a cancellation, and with pcap     *)
(* also when there are no more packets (Pipeline, PacketsEnd).             *)
EventsEnd ==
  /\ Running /\ ~eventReady /\ ~eventsClosed
  /\ eventsClosed' = TRUE
  /\ UNCHANGED <<inputVars, ctxDone, eventReady, resized, tuiVars>>

Resize ==
  /\ Running /\ ~resized
  /\ resized' = TRUE
  /\ UNCHANGED <<inputVars, ctxDone, eventsClosed, eventReady, tuiVars>>

(***************************************************************************)
(* render: with the panel shown, renderAlerts slices the last              *)
(* termHeight/2-2 alerts, and panics when that number is negative.         *)
(***************************************************************************)
RenderPanics(alertPanel, height) == alertPanel /\ height \div 2 - 2 < 0

Render(alertPanel, height) ==
  outcome' = IF RenderPanics(alertPanel, height) THEN "slice panic" ELSE "running"

(***************************************************************************)
(* Start's select.                                                         *)
(***************************************************************************)
Selecting == Running /\ ~filterMode

Return(why) == outcome' = why

(* Mutant: "break" leaves the select and not the loop.                     *)
TakeCtxDoneBreaks ==
  /\ Selecting /\ ctxDone
  /\ cursor' = "shown"
  /\ UNCHANGED <<inputVars, envVars, filterMode, filterLen, showAlerts, termHeight, doneClosed, quits, outcome>>

TakeCtxDone ==
  /\ Selecting /\ ctxDone
  /\ cursor' = "shown"
  /\ Return("context")
  /\ UNCHANGED <<inputVars, envVars, filterMode, filterLen, showAlerts, termHeight, doneClosed, quits>>

(* Mutant: the same for t.done.                                            *)
TakeDoneBreaks ==
  /\ Selecting /\ doneClosed
  /\ cursor' = "shown"
  /\ UNCHANGED <<inputVars, envVars, filterMode, filterLen, showAlerts, termHeight, doneClosed, quits, outcome>>

TakeDone ==
  /\ Selecting /\ doneClosed
  /\ cursor' = "shown"
  /\ Return("done")
  /\ UNCHANGED <<inputVars, envVars, filterMode, filterLen, showAlerts, termHeight, doneClosed, quits>>

TakeResize ==
  /\ Selecting /\ resized
  /\ resized' = FALSE
  /\ termHeight' \in Heights
  /\ Render(showAlerts, termHeight')
  /\ UNCHANGED <<inputVars, ctxDone, eventsClosed, eventReady, filterMode, filterLen, showAlerts,
                 doneClosed, quits, cursor>>

TakeEvent ==
  /\ Selecting /\ eventReady
  /\ eventReady' = FALSE
  /\ UNCHANGED <<inputVars, ctxDone, eventsClosed, resized, tuiVars>>

TakeEventsClosed ==
  /\ Selecting /\ eventsClosed
  /\ Return("events closed")
  /\ UNCHANGED <<inputVars, envVars, filterMode, filterLen, showAlerts, termHeight, doneClosed, quits, cursor>>

TakeTick ==
  /\ Selecting
  /\ Render(showAlerts, termHeight)
  /\ UNCHANGED <<inputVars, envVars, filterMode, filterLen, showAlerts, termHeight, doneClosed, quits, cursor>>

TakeInputClosed ==
  /\ Selecting /\ inputClosed /\ inputCh = <<>>
  /\ Return("input closed")
  /\ UNCHANGED <<inputVars, envVars, filterMode, filterLen, showAlerts, termHeight, doneClosed, quits, cursor>>

(***************************************************************************)
(* handleCommand.  'q' shows the cursor and closes t.done; the loop goes   *)
(* on, and select may take the next key before t.done.                     *)
(***************************************************************************)
Next1Key(r) == inputCh # <<>> /\ Head(inputCh) = r /\ inputCh' = Tail(inputCh)

CommandQuit ==
  /\ Selecting /\ Next1Key("q")
  /\ cursor' = "shown"
  /\ quits' = quits + 1
  /\ doneClosed' = TRUE
  /\ outcome' = IF doneClosed THEN "close panic" ELSE "running"
  /\ UNCHANGED <<inputClosed, pressed, envVars, filterMode, filterLen, showAlerts, termHeight>>

CommandAlerts ==
  /\ Selecting /\ Next1Key("a")
  /\ showAlerts' = ~showAlerts
  /\ Render(showAlerts', termHeight)
  /\ UNCHANGED <<inputClosed, pressed, envVars, filterMode, filterLen, termHeight, doneClosed, quits, cursor>>

CommandFilter ==
  /\ Selecting /\ Next1Key("/")
  /\ filterMode' = TRUE /\ filterLen' = 0
  /\ UNCHANGED <<inputClosed, pressed, envVars, showAlerts, termHeight, doneClosed, quits, cursor, outcome>>

(* The keys that scroll or toggle TIME_WAIT render; the others do nothing. *)
CommandOther ==
  /\ Selecting
  /\ \/ /\ \E r \in {"j", "t", "arrow"} : Next1Key(r)
        /\ Render(showAlerts, termHeight)
     \/ /\ \E r \in {"enter", "backspace", "esc", "x"} : Next1Key(r)
        /\ UNCHANGED outcome
  /\ UNCHANGED <<inputClosed, pressed, envVars, filterMode, filterLen, showAlerts, termHeight,
                 doneClosed, quits, cursor>>

(***************************************************************************)
(* handleFilterInput.  'q' and the runes 0x100 to 0x103 that stand for the *)
(* arrow keys are printable, so they become text, of two bytes in UTF-8;   *)
(* backspace erases one byte.  The case for 'q' below IsPrint is never     *)
(* reached.                                                                *)
(***************************************************************************)
Filtering == Running /\ filterMode

Printable == {"q", "a", "/", "j", "t", "arrow", "x"}
Bytes(r) == IF r = "arrow" THEN 2 ELSE 1
Capped(n) == IF n < FilterMax THEN n ELSE FilterMax

FilterAccept ==
  /\ Filtering /\ Next1Key("enter")
  /\ filterMode' = FALSE /\ filterLen' = 0
  /\ Render(showAlerts, termHeight)
  /\ UNCHANGED <<inputClosed, pressed, envVars, showAlerts, termHeight, doneClosed, quits, cursor>>

FilterCancel ==
  /\ Filtering /\ Next1Key("esc")
  /\ filterMode' = FALSE /\ filterLen' = 0
  /\ Render(showAlerts, termHeight)
  /\ UNCHANGED <<inputClosed, pressed, envVars, showAlerts, termHeight, doneClosed, quits, cursor>>

(* Mutant: backspace does not look whether there is anything to erase.     *)
FilterEditUnderflow ==
  /\ Filtering
  /\ \/ /\ Next1Key("backspace")
        /\ filterLen' = filterLen - 1
     \/ \E r \in Printable : Next1Key(r) /\ filterLen' = Capped(filterLen + Bytes(r))
  /\ UNCHANGED <<inputClosed, pressed, envVars, filterMode, showAlerts, termHeight, doneClosed, quits,
                 cursor, outcome>>

(* Mutant: a full filter text leaves the key where it is.                  *)
FilterEditBlocks ==
  /\ Filtering
  /\ \/ /\ Next1Key("backspace")
        /\ filterLen' = IF filterLen > 0 THEN filterLen - 1 ELSE 0
     \/ /\ filterLen < FilterMax
        /\ \E r \in Printable : Next1Key(r) /\ filterLen' = Capped(filterLen + Bytes(r))
     \/ filterLen = FilterMax /\ UNCHANGED <<inputCh, filterLen>>
  /\ UNCHANGED <<inputClosed, pressed, envVars, filterMode, showAlerts, termHeight, doneClosed, quits,
                 cursor, outcome>>

FilterEdit ==
  /\ Filtering
  /\ \/ /\ Next1Key("backspace")
        /\ filterLen' = IF filterLen > 0 THEN filterLen - 1 ELSE 0
     \/ \E r \in Printable : Next1Key(r) /\ filterLen' = Capped(filterLen + Bytes(r))
  /\ UNCHANGED <<inputClosed, pressed, envVars, filterMode, showAlerts, termHeight, doneClosed, quits,
                 cursor, outcome>>

(* The end of the input is the only way out that is not a key.             *)
FilterInputClosed ==
  /\ Filtering /\ inputClosed /\ inputCh = <<>>
  /\ Return("input closed")
  /\ UNCHANGED <<inputVars, envVars, filterMode, filterLen, showAlerts, termHeight, doneClosed, quits, cursor>>

Select ==
  \/ TakeCtxDone \/ TakeDone \/ TakeResize \/ TakeEvent \/ TakeEventsClosed \/ TakeTick
  \/ TakeInputClosed \/ CommandQuit \/ CommandAlerts \/ CommandFilter \/ CommandOther

FilterInput == FilterAccept \/ FilterCancel \/ FilterEdit \/ FilterInputClosed

World == PressKey \/ EndOfInput \/ Signal \/ EventArrives \/ EventsEnd \/ Resize

(* An idle filter loop sleeps 50 ms; a finished Start does nothing.        *)
Rest == (~Running \/ (Filtering /\ inputCh = <<>>)) /\ UNCHANGED vars

Next == Select \/ FilterInput \/ World \/ Rest

Spec == Init /\ [][Next]_vars

(* The loop runs, and a select in which a case is ready again and again    *)
(* takes it some time.  The user need not press any key.                   *)
Fairness ==
  /\ WF_vars(FilterInput)
  /\ SF_vars(TakeCtxDone) /\ SF_vars(TakeDone)
  /\ SF_vars(TakeEvent) /\ SF_vars(TakeInputClosed)
  /\ SF_vars(CommandQuit \/ CommandAlerts \/ CommandFilter \/ CommandOther)

FairSpec == Spec /\ Fairness

-----------------------------------------------------------------------------
TypeOK ==
  /\ inputCh \in Seq(Keys) /\ Len(inputCh) <= InputCap
  /\ inputClosed \in BOOLEAN /\ pressed \in 0 .. MaxKeys
  /\ ctxDone \in BOOLEAN /\ eventsClosed \in BOOLEAN /\ eventReady \in BOOLEAN /\ resized \in BOOLEAN
  /\ filterMode \in BOOLEAN /\ filterLen \in 0 .. FilterMax
  /\ showAlerts \in BOOLEAN /\ termHeight \in Heights
  /\ doneClosed \in BOOLEAN /\ quits \in Nat
  /\ cursor \in {"hidden", "shown"}
  /\ outcome \in {"running", "no raw mode", "context", "done", "events closed", "input closed",
                  "close panic", "slice panic"}

(***************************************************************************)
(* Liveness, under FairSpec.  While the filter is being typed, nothing but *)
(* keys is looked at: the first two hold of a user who does not leave the  *)
(* prompt open for ever.                                                   *)
(***************************************************************************)
LeavesFilter == []<>~filterMode

(* SIGINT and SIGTERM end the display, whatever else is ready.             *)
SignalExits == LeavesFilter => (ctxDone ~> ~Running)

(* 'q' ends the display (README.md:79), also when keys typed after it are  *)
(* taken first.                                                            *)
QuitExits == LeavesFilter => (doneClosed ~> ~Running)

(* Every key pressed is handled, in filter mode or out of it, however the  *)
(* modes alternate, unless the display ends first.                         *)
Handled == pressed - Len(inputCh)
KeysAreHandled == \A n \in 1 .. MaxKeys : pressed >= n ~> (Handled >= n \/ ~Running)

-----------------------------------------------------------------------------
(* "q: quit" (README.md:79): pressing it twice is no crash.  t.done is     *)
(* closed a second time when the second 'q' is taken before t.done.        *)
QuitNeverPanics == outcome # "close panic"
=============================================================================
