------------------------------ MODULE TuiInput ------------------------------
(***************************************************************************)
(* readInput (internal/display/tui.go): the goroutine that turns the bytes *)
(* of the terminal into the runes that TuiLoop takes from inputCh.         *)
(*                                                                         *)
(* After an ESC it leaves reading to a helper goroutine, so that it can    *)
(* give up after 50 ms.  A Read cannot be given up: a helper stays until   *)
(* it has had its two bytes, and competes with the reader and with other   *)
(* helpers for what is typed later.                                        *)
(*                                                                         *)
(* A byte is numbered in the order of typing; a rune is the sequence of    *)
(* bytes it is made of, so an arrow key is <<ESC, [, A>>.                  *)
(*                                                                         *)
(* Abstractions: "A" stands for the four final bytes of arrow keys, "x"    *)
(* for any other byte; which of several waiting Reads gets a byte, and     *)
(* when 50 ms have passed, is a choice; TuiLoop says what ends the display. *)
(***************************************************************************)
EXTENDS Integers, SequencesExt

CONSTANTS
  InputCap,    \* capacity of inputCh, 64 in the code
  MaxBytes     \* bound of the model: bytes typed

ASSUME InputAssumption == InputCap \in Nat \ {0} /\ MaxBytes \in Nat

Char   == {"esc", "[", "A", "x"}
Byte   == [n : 1 .. MaxBytes, char : Char]
Helper == [left : 0 .. 2, ch : Seq(Byte)]

VARIABLES
  typed,        \* number of bytes typed so far
  tty,          \* the bytes typed and not yet read
  hungUp,       \* the terminal has no more input
  pc,           \* where readInput is
  sequence,     \* the bytes of the escape sequence taken so far
  helpers,      \* one per ESC, the latest last: Reads left, and its channel
  sending,      \* the runes still to be sent to inputCh
  inputCh,
  handled       \* history: the bytes of the runes that the loop has taken

ttyVars == <<typed, tty, hungUp>>
readerVars == <<pc, sequence, helpers, sending>>
vars == <<ttyVars, readerVars, inputCh, handled>>

Init ==
  /\ typed = 0 /\ tty = <<>> /\ hungUp = FALSE
  /\ pc = "read" /\ sequence = <<>> /\ helpers = <<>> /\ sending = <<>>
  /\ inputCh = <<>> /\ handled = <<>>

Type ==
  /\ ~hungUp /\ typed < MaxBytes
  /\ typed' = typed + 1
  /\ \E c \in Char : tty' = Append(tty, [n |-> typed', char |-> c])
  /\ UNCHANGED <<hungUp, readerVars, inputCh, handled>>

HangUp ==
  /\ ~hungUp
  /\ hungUp' = TRUE
  /\ UNCHANGED <<typed, tty, readerVars, inputCh, handled>>

-----------------------------------------------------------------------------
(***************************************************************************)
(* The reader.                                                             *)
(***************************************************************************)
ToSend(runes) == pc' = "send" /\ sending' = runes /\ sequence' = <<>>

(* Mutant: the helper reads once too often for its channel.                *)
NewHelperThree == [left |-> 3, ch |-> <<>>]

(* A channel for two bytes, and a goroutine that reads two.                *)
NewHelper == [left |-> 2, ch |-> <<>>]

ReadByte ==
  /\ pc = "read" /\ tty # <<>>
  /\ tty' = Tail(tty)
  /\ IF Head(tty).char = "esc"
       THEN /\ pc' = "esc" /\ sequence' = <<Head(tty)>>
            /\ helpers' = Append(helpers, NewHelper)
            /\ UNCHANGED sending
       ELSE ToSend(<<<<Head(tty)>>>>) /\ UNCHANGED helpers
  /\ UNCHANGED <<typed, hungUp, inputCh, handled>>

(* An error or no bytes: inputCh is closed.                                *)
ReadFails ==
  /\ pc = "read" /\ tty = <<>> /\ hungUp
  /\ pc' = "closed"
  /\ UNCHANGED <<ttyVars, sequence, helpers, sending, inputCh, handled>>

(* The channel of the latest helper.                                       *)
Ch == IF helpers = <<>> THEN <<>> ELSE Last(helpers).ch

ReceiveCh == Ch # <<>> /\ helpers' = [helpers EXCEPT ![Len(helpers)].ch = Tail(@)]

TakeNext ==
  /\ pc = "esc" /\ ReceiveCh
  /\ IF Head(Ch).char = "["
       THEN pc' = "dir" /\ sequence' = Append(sequence, Head(Ch)) /\ UNCHANGED sending
       ELSE ToSend(<<sequence, <<Head(Ch)>>>>)
  /\ UNCHANGED <<ttyVars, inputCh, handled>>

(* Mutant: an unknown sequence is dropped.                                 *)
TakeDirDrops ==
  /\ pc = "dir" /\ ReceiveCh
  /\ IF Head(Ch).char = "A" THEN ToSend(<<Append(sequence, Head(Ch))>>)
     ELSE pc' = "read" /\ sequence' = <<>> /\ UNCHANGED sending
  /\ UNCHANGED <<ttyVars, inputCh, handled>>

(* An arrow key is one rune, anything else is sent as it came.             *)
TakeDir ==
  /\ pc = "dir" /\ ReceiveCh
  /\ ToSend(IF Head(Ch).char = "A" THEN <<Append(sequence, Head(Ch))>>
            ELSE <<<<sequence[1]>>, <<sequence[2]>>, <<Head(Ch)>>>>)
  /\ UNCHANGED <<ttyVars, inputCh, handled>>

(* Mutant: the wait for the final byte has no end.                         *)
TimeOutEscOnly ==
  /\ pc = "esc"
  /\ ToSend([i \in DOMAIN sequence |-> <<sequence[i]>>])
  /\ UNCHANGED <<ttyVars, helpers, inputCh, handled>>

(* 50 ms: what has come is sent, the helper is left alone.  The channel    *)
(* may hold a byte by then.                                                *)
TimeOut ==
  /\ pc \in {"esc", "dir"}
  /\ ToSend([i \in DOMAIN sequence |-> <<sequence[i]>>])
  /\ UNCHANGED <<ttyVars, helpers, inputCh, handled>>

(* inputCh <- r, which waits while the channel is full.                    *)
Send ==
  /\ pc = "send" /\ Len(inputCh) < InputCap
  /\ inputCh' = Append(inputCh, Head(sending))
  /\ sending' = Tail(sending)
  /\ pc' = IF sending' = <<>> THEN "read" ELSE "send"
  /\ UNCHANGED <<ttyVars, sequence, helpers, handled>>

(***************************************************************************)
(* The helpers, and the loop at the other end of inputCh.                  *)
(***************************************************************************)
HelperReads(h) ==
  /\ helpers[h].left > 0
  /\ \/ /\ tty # <<>>
        /\ tty' = Tail(tty)
        /\ helpers' = [helpers EXCEPT ![h] = [left |-> @.left - 1, ch |-> Append(@.ch, Head(tty))]]
     \/ /\ tty = <<>> /\ hungUp
        /\ helpers' = [helpers EXCEPT ![h].left = @ - 1]
        /\ UNCHANGED tty
  /\ UNCHANGED <<typed, hungUp, pc, sequence, sending, inputCh, handled>>

Handle ==
  /\ inputCh # <<>>
  /\ inputCh' = Tail(inputCh)
  /\ handled' = handled \o Head(inputCh)
  /\ UNCHANGED <<ttyVars, readerVars>>

Reader == ReadByte \/ ReadFails \/ TakeNext \/ TakeDir \/ TimeOut \/ Send

Next == Type \/ HangUp \/ Reader \/ Handle \/ \E h \in DOMAIN helpers : HelperReads(h)

Spec == Init /\ [][Next]_vars

(* The reader and the loop are scheduled, and 50 ms pass.                  *)
FairSpec == Spec /\ WF_vars(Reader) /\ WF_vars(Handle)

-----------------------------------------------------------------------------
TypeOK ==
  /\ typed \in 0 .. MaxBytes /\ tty \in Seq(Byte) /\ hungUp \in BOOLEAN
  /\ pc \in {"read", "esc", "dir", "send", "closed"}
  /\ sequence \in Seq(Byte) /\ helpers \in Seq(Helper)
  /\ sending \in Seq(Seq(Byte)) /\ inputCh \in Seq(Seq(Byte)) /\ Len(inputCh) <= InputCap
  /\ handled \in Seq(Byte)

BytesOf(runes) == FlattenSeq(runes)

Waiting == pc \in {"esc", "dir"}

(* What has been handled and what is on its way, from the loop back to the *)
(* terminal.                                                               *)
OnTheWay ==
  handled \o BytesOf(inputCh) \o BytesOf(sending) \o sequence \o (IF Waiting THEN Ch ELSE <<>>) \o tty

(* The bytes in channels that nobody receives from any more.               *)
Swallowed ==
  UNION {ToSet(helpers[h].ch) : h \in {g \in DOMAIN helpers : g < Len(helpers) \/ ~Waiting}}

(* Whichever Read gets a byte and whenever a timeout fires, the loop sees  *)
(* the bytes in the order of typing, none twice, and one that is missing   *)
(* was taken by the helper of an ESC that readInput had given up on.       *)
InputAccounted ==
  /\ \A i \in 1 .. Len(OnTheWay) - 1 : OnTheWay[i].n < OnTheWay[i + 1].n
  /\ {b.n : b \in ToSet(OnTheWay)} = 1 .. typed \ {b.n : b \in Swallowed}

(* No byte waits for another one to be typed: what is typed is handled or  *)
(* swallowed in the end, also an ESC or an ESC [ with nothing after it.    *)
InputDrains ==
  <>[](tty = <<>> /\ sequence = <<>> /\ sending = <<>> /\ inputCh = <<>>)
=============================================================================
