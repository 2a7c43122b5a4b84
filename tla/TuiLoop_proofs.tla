--------------------------- MODULE TuiLoop_proofs ---------------------------
(***************************************************************************)
(* Proofs about TuiLoop: for any keys, capacity of inputCh and heights of  *)
(* the terminal, its types, and the only two ways in which the dashboard's *)
(* loop can panic.                                                         *)
(***************************************************************************)
EXTENDS TuiLoop, TLAPS

InputTyped == inputCh \in Seq(Keys) /\ Len(inputCh) <= InputCap

NumbersTyped ==
  pressed \in 0 .. MaxKeys /\ filterLen \in 0 .. FilterMax /\ termHeight \in Heights /\ quits \in Nat

FlagsTyped ==
  /\ inputClosed \in BOOLEAN /\ ctxDone \in BOOLEAN /\ eventsClosed \in BOOLEAN /\ eventReady \in BOOLEAN
  /\ resized \in BOOLEAN /\ filterMode \in BOOLEAN /\ showAlerts \in BOOLEAN /\ doneClosed \in BOOLEAN

WordsTyped ==
  /\ cursor \in {"hidden", "shown"}
  /\ outcome \in {"running", "no raw mode", "context", "done", "events closed", "input closed",
                   "close panic", "slice panic"}

(* The types of the queue, the numbers, the flags and the words.           *)
LEMMA TypeParts == TypeOK <=> InputTyped /\ NumbersTyped /\ FlagsTyped /\ WordsTyped
BY Zenon DEF TypeOK, InputTyped, NumbersTyped, FlagsTyped, WordsTyped

(* A key taken from inputCh leaves a shorter queue of keys.                *)
LEMMA KeyTaken ==
  ASSUME InputTyped, NEW r, Next1Key(r)
  PROVE  InputTyped'
BY LoopAssumption DEF InputTyped, Next1Key

(* Every case of the select keeps the types.                               *)
LEMMA SelectTypes ==
  ASSUME InputTyped, NumbersTyped, FlagsTyped, WordsTyped, Select
  PROVE  (InputTyped /\ NumbersTyped /\ FlagsTyped /\ WordsTyped)'
<1> USE LoopAssumption
<1>1. CASE TakeCtxDone
  <2>1. InputTyped'
    BY <1>1 DEF TakeCtxDone, InputTyped, inputVars, envVars
  <2>2. NumbersTyped'
    BY <1>1 DEF TakeCtxDone, NumbersTyped, Return, inputVars, envVars
  <2>3. FlagsTyped'
    BY <1>1, Zenon DEF TakeCtxDone, FlagsTyped, inputVars, envVars
  <2>4. WordsTyped'
    BY <1>1 DEF TakeCtxDone, WordsTyped, Return, inputVars, envVars
  <2> QED
    BY <2>1, <2>2, <2>3, <2>4
<1>2. CASE TakeDone
  <2>1. InputTyped'
    BY <1>2 DEF TakeDone, InputTyped, inputVars, envVars
  <2>2. NumbersTyped'
    BY <1>2 DEF TakeDone, NumbersTyped, Return, inputVars, envVars
  <2>3. FlagsTyped'
    BY <1>2, Zenon DEF TakeDone, FlagsTyped, inputVars, envVars
  <2>4. WordsTyped'
    BY <1>2 DEF TakeDone, WordsTyped, Return, inputVars, envVars
  <2> QED
    BY <2>1, <2>2, <2>3, <2>4
<1>3. CASE TakeResize
  <2>1. InputTyped'
    BY <1>3 DEF TakeResize, InputTyped, inputVars
  <2>2. NumbersTyped'
    BY <1>3 DEF TakeResize, NumbersTyped, Render, inputVars
  <2>3. FlagsTyped'
    BY <1>3, Zenon DEF TakeResize, FlagsTyped, inputVars
  <2>4. WordsTyped'
    BY <1>3 DEF TakeResize, WordsTyped, Render, inputVars
  <2> QED
    BY <2>1, <2>2, <2>3, <2>4
<1>4. CASE TakeEvent
  <2>1. InputTyped'
    BY <1>4 DEF TakeEvent, InputTyped, inputVars, tuiVars
  <2>2. NumbersTyped'
    BY <1>4 DEF TakeEvent, NumbersTyped, inputVars, tuiVars
  <2>3. FlagsTyped'
    BY <1>4, Zenon DEF TakeEvent, FlagsTyped, inputVars, tuiVars
  <2>4. WordsTyped'
    BY <1>4 DEF TakeEvent, WordsTyped, inputVars, tuiVars
  <2> QED
    BY <2>1, <2>2, <2>3, <2>4
<1>5. CASE TakeEventsClosed
  <2>1. InputTyped'
    BY <1>5 DEF TakeEventsClosed, InputTyped, inputVars, envVars
  <2>2. NumbersTyped'
    BY <1>5 DEF TakeEventsClosed, NumbersTyped, Return, inputVars, envVars
  <2>3. FlagsTyped'
    BY <1>5, Zenon DEF TakeEventsClosed, FlagsTyped, inputVars, envVars
  <2>4. WordsTyped'
    BY <1>5 DEF TakeEventsClosed, WordsTyped, Return, inputVars, envVars
  <2> QED
    BY <2>1, <2>2, <2>3, <2>4
<1>6. CASE TakeTick
  <2>1. InputTyped'
    BY <1>6 DEF TakeTick, InputTyped, inputVars, envVars
  <2>2. NumbersTyped'
    BY <1>6 DEF TakeTick, NumbersTyped, Render, inputVars, envVars
  <2>3. FlagsTyped'
    BY <1>6, Zenon DEF TakeTick, FlagsTyped, inputVars, envVars
  <2>4. WordsTyped'
    BY <1>6 DEF TakeTick, WordsTyped, Render, inputVars, envVars
  <2> QED
    BY <2>1, <2>2, <2>3, <2>4
<1>7. CASE TakeInputClosed
  <2>1. InputTyped'
    BY <1>7 DEF TakeInputClosed, InputTyped, inputVars, envVars
  <2>2. NumbersTyped'
    BY <1>7 DEF TakeInputClosed, NumbersTyped, Return, inputVars, envVars
  <2>3. FlagsTyped'
    BY <1>7, Zenon DEF TakeInputClosed, FlagsTyped, inputVars, envVars
  <2>4. WordsTyped'
    BY <1>7 DEF TakeInputClosed, WordsTyped, Return, inputVars, envVars
  <2> QED
    BY <2>1, <2>2, <2>3, <2>4
<1>8. CASE CommandQuit
  <2>1. InputTyped'
    BY <1>8, KeyTaken DEF CommandQuit
  <2>2. NumbersTyped'
    <3>1. quits' = quits + 1 /\ UNCHANGED <<pressed, filterLen, termHeight>>
      BY <1>8, Zenon DEF CommandQuit
    <3> QED
      BY <3>1 DEF NumbersTyped
  <2>3. FlagsTyped'
    BY <1>8, Zenon DEF CommandQuit, FlagsTyped, envVars
  <2>4. WordsTyped'
    BY <1>8 DEF CommandQuit, WordsTyped, envVars
  <2> QED
    BY <2>1, <2>2, <2>3, <2>4
<1>9. CASE CommandAlerts
  <2>1. InputTyped'
    BY <1>9, KeyTaken DEF CommandAlerts
  <2>2. NumbersTyped'
    BY <1>9 DEF CommandAlerts, NumbersTyped, Render, envVars
  <2>3. FlagsTyped'
    BY <1>9, Zenon DEF CommandAlerts, FlagsTyped, envVars
  <2>4. WordsTyped'
    BY <1>9 DEF CommandAlerts, WordsTyped, Render, envVars
  <2> QED
    BY <2>1, <2>2, <2>3, <2>4
<1>10. CASE CommandFilter
  <2>1. InputTyped'
    BY <1>10, KeyTaken DEF CommandFilter
  <2>2. NumbersTyped'
    BY <1>10 DEF CommandFilter, NumbersTyped, envVars
  <2>3. FlagsTyped'
    BY <1>10, Zenon DEF CommandFilter, FlagsTyped, envVars
  <2>4. WordsTyped'
    BY <1>10 DEF CommandFilter, WordsTyped, envVars
  <2> QED
    BY <2>1, <2>2, <2>3, <2>4
<1>11. CASE CommandOther
  <2>1. InputTyped'
    BY <1>11, KeyTaken DEF CommandOther
  <2>2. NumbersTyped'
    BY <1>11 DEF CommandOther, NumbersTyped, Render, envVars
  <2>3. FlagsTyped'
    BY <1>11, Zenon DEF CommandOther, FlagsTyped, envVars
  <2>4. WordsTyped'
    BY <1>11 DEF CommandOther, WordsTyped, Render, envVars
  <2> QED
    BY <2>1, <2>2, <2>3, <2>4
<1> QED
  BY <1>1, <1>2, <1>3, <1>4, <1>5, <1>6, <1>7, <1>8, <1>9, <1>10, <1>11 DEF Select

(* So does every key of the filter prompt: the text is never longer than   *)
(* FilterMax and never shorter than nothing.                               *)
LEMMA FilterTypes ==
  ASSUME InputTyped, NumbersTyped, FlagsTyped, WordsTyped, FilterInput
  PROVE  (InputTyped /\ NumbersTyped /\ FlagsTyped /\ WordsTyped)'
<1> USE LoopAssumption
<1>1. CASE FilterAccept
  <2>1. InputTyped'
    BY <1>1, KeyTaken DEF FilterAccept
  <2>2. NumbersTyped'
    <3>1. filterLen' = 0 /\ UNCHANGED <<pressed, termHeight, quits>>
      BY <1>1, Zenon DEF FilterAccept
    <3> QED
      BY <3>1 DEF NumbersTyped
  <2>3. FlagsTyped'
    BY <1>1, Zenon DEF FilterAccept, FlagsTyped, envVars
  <2>4. WordsTyped'
    BY <1>1 DEF FilterAccept, WordsTyped, Render, envVars
  <2> QED
    BY <2>1, <2>2, <2>3, <2>4
<1>2. CASE FilterCancel
  <2>1. InputTyped'
    BY <1>2, KeyTaken DEF FilterCancel
  <2>2. NumbersTyped'
    <3>1. filterLen' = 0 /\ UNCHANGED <<pressed, termHeight, quits>>
      BY <1>2, Zenon DEF FilterCancel
    <3> QED
      BY <3>1 DEF NumbersTyped
  <2>3. FlagsTyped'
    BY <1>2, Zenon DEF FilterCancel, FlagsTyped, envVars
  <2>4. WordsTyped'
    BY <1>2 DEF FilterCancel, WordsTyped, Render, envVars
  <2> QED
    BY <2>1, <2>2, <2>3, <2>4
<1>3. CASE FilterEdit
  <2>1. InputTyped'
    BY <1>3, KeyTaken DEF FilterEdit
  <2>2. NumbersTyped'
    BY <1>3 DEF FilterEdit, NumbersTyped, Capped, Bytes, envVars
  <2>3. FlagsTyped'
    BY <1>3, Zenon DEF FilterEdit, FlagsTyped, envVars
  <2>4. WordsTyped'
    BY <1>3 DEF FilterEdit, WordsTyped, Capped, Bytes, envVars
  <2> QED
    BY <2>1, <2>2, <2>3, <2>4
<1>4. CASE FilterInputClosed
  <2>1. InputTyped'
    BY <1>4 DEF FilterInputClosed, InputTyped, inputVars, envVars
  <2>2. NumbersTyped'
    BY <1>4 DEF FilterInputClosed, NumbersTyped, Return, inputVars, envVars
  <2>3. FlagsTyped'
    BY <1>4, Zenon DEF FilterInputClosed, FlagsTyped, inputVars, envVars
  <2>4. WordsTyped'
    BY <1>4 DEF FilterInputClosed, WordsTyped, Return, inputVars, envVars
  <2> QED
    BY <2>1, <2>2, <2>3, <2>4
<1> QED
  BY <1>1, <1>2, <1>3, <1>4 DEF FilterInput

(* The keyboard, the signals and the pipeline keep the types too.          *)
LEMMA WorldTypes ==
  ASSUME InputTyped, NumbersTyped, FlagsTyped, WordsTyped, World
  PROVE  (InputTyped /\ NumbersTyped /\ FlagsTyped /\ WordsTyped)'
<1> USE LoopAssumption
<1>1. CASE PressKey
  <2>1. InputTyped'
    BY <1>1 DEF PressKey, InputTyped, envVars, tuiVars
  <2>2. NumbersTyped'
    BY <1>1 DEF PressKey, NumbersTyped, envVars, tuiVars
  <2>3. FlagsTyped'
    BY <1>1, Zenon DEF PressKey, FlagsTyped, envVars, tuiVars
  <2>4. WordsTyped'
    BY <1>1 DEF PressKey, WordsTyped, envVars, tuiVars
  <2> QED
    BY <2>1, <2>2, <2>3, <2>4
<1>2. CASE EndOfInput
  <2>1. InputTyped'
    BY <1>2 DEF EndOfInput, InputTyped, envVars, tuiVars
  <2>2. NumbersTyped'
    BY <1>2 DEF EndOfInput, NumbersTyped, envVars, tuiVars
  <2>3. FlagsTyped'
    BY <1>2, Zenon DEF EndOfInput, FlagsTyped, envVars, tuiVars
  <2>4. WordsTyped'
    BY <1>2 DEF EndOfInput, WordsTyped, envVars, tuiVars
  <2> QED
    BY <2>1, <2>2, <2>3, <2>4
<1>3. CASE Signal
  <2>1. InputTyped'
    BY <1>3 DEF Signal, InputTyped, inputVars, tuiVars
  <2>2. NumbersTyped'
    BY <1>3 DEF Signal, NumbersTyped, inputVars, tuiVars
  <2>3. FlagsTyped'
    BY <1>3, Zenon DEF Signal, FlagsTyped, inputVars, tuiVars
  <2>4. WordsTyped'
    BY <1>3 DEF Signal, WordsTyped, inputVars, tuiVars
  <2> QED
    BY <2>1, <2>2, <2>3, <2>4
<1>4. CASE EventArrives
  <2>1. InputTyped'
    BY <1>4 DEF EventArrives, InputTyped, inputVars, tuiVars
  <2>2. NumbersTyped'
    BY <1>4 DEF EventArrives, NumbersTyped, inputVars, tuiVars
  <2>3. FlagsTyped'
    BY <1>4, Zenon DEF EventArrives, FlagsTyped, inputVars, tuiVars
  <2>4. WordsTyped'
    BY <1>4 DEF EventArrives, WordsTyped, inputVars, tuiVars
  <2> QED
    BY <2>1, <2>2, <2>3, <2>4
<1>5. CASE EventsEnd
  <2>1. InputTyped'
    BY <1>5 DEF EventsEnd, InputTyped, inputVars, tuiVars
  <2>2. NumbersTyped'
    BY <1>5 DEF EventsEnd, NumbersTyped, inputVars, tuiVars
  <2>3. FlagsTyped'
    BY <1>5, Zenon DEF EventsEnd, FlagsTyped, inputVars, tuiVars
  <2>4. WordsTyped'
    BY <1>5 DEF EventsEnd, WordsTyped, inputVars, tuiVars
  <2> QED
    BY <2>1, <2>2, <2>3, <2>4
<1>6. CASE Resize
  <2>1. InputTyped'
    BY <1>6 DEF Resize, InputTyped, inputVars, tuiVars
  <2>2. NumbersTyped'
    BY <1>6 DEF Resize, NumbersTyped, inputVars, tuiVars
  <2>3. FlagsTyped'
    BY <1>6, Zenon DEF Resize, FlagsTyped, inputVars, tuiVars
  <2>4. WordsTyped'
    BY <1>6 DEF Resize, WordsTyped, inputVars, tuiVars
  <2> QED
    BY <2>1, <2>2, <2>3, <2>4
<1> QED
  BY <1>1, <1>2, <1>3, <1>4, <1>5, <1>6 DEF World

(* The queue never holds more keys than inputCh has room for, the filter   *)
(* text has a length, and every other variable has its type, whatever      *)
(* select takes and whatever is typed (tui.go, Start).                     *)
THEOREM TypeCorrect == Spec => []TypeOK
<1> DEFINE Typed == InputTyped /\ NumbersTyped /\ FlagsTyped /\ WordsTyped
<1>1. Init => Typed
  <2> SUFFICES ASSUME Init
               PROVE  Typed
    OBVIOUS
  <2>1. InputTyped
    <3>1. inputCh = <<>>
      BY Zenon DEF Init
    <3> QED
      BY <3>1, LoopAssumption DEF InputTyped
  <2>2. NumbersTyped
    <3>1. pressed = 0 /\ filterLen = 0 /\ termHeight \in Heights /\ quits = 0
      BY Zenon DEF Init
    <3> QED
      BY <3>1, LoopAssumption DEF NumbersTyped
  <2>3. FlagsTyped /\ WordsTyped
    BY Zenon DEF Init, FlagsTyped, WordsTyped
  <2> QED
    BY <2>1, <2>2, <2>3
<1>2. Typed /\ [Next]_vars => Typed'
  <2> SUFFICES ASSUME Typed, [Next]_vars
               PROVE  Typed'
    OBVIOUS
  <2>1. CASE UNCHANGED vars
    BY <2>1, Zenon DEF InputTyped, NumbersTyped, FlagsTyped, WordsTyped, vars, inputVars, envVars, tuiVars
  <2>2. [Next]_vars <=> Select \/ FilterInput \/ World \/ UNCHANGED vars
    BY Zenon DEF Next, Rest
  <2> QED
    BY <2>1, <2>2, SelectTypes, FilterTypes, WorldTypes
<1>3. Typed => TypeOK
  BY TypeParts
<1> QED
  BY <1>1, <1>2, <1>3, PTL DEF Spec

-----------------------------------------------------------------------------
(* t.done is closed by the first 'q', and the loop does not outlive the    *)
(* second; a panic of render leaves the state that explains it.            *)
QuitsOK ==
  /\ doneClosed <=> quits > 0
  /\ Running => quits <= 1
  /\ outcome = "close panic" => quits > 1

PanelOK == outcome = "slice panic" => RenderPanics(showAlerts, termHeight)

(* The dashboard can panic in two ways only: a second 'q' taken before     *)
(* t.done closes it again (tui.go, handleCommand), and the alert panel on  *)
(* a terminal of three lines or less asks for a negative number of alerts  *)
(* (renderAlerts).  A single 'q' on a terminal of four lines never does.   *)
PanicsExplained ==
  /\ outcome = "close panic" => quits > 1
  /\ outcome = "slice panic" => showAlerts /\ termHeight < 4

(* Returning is no panic (Start).                                          *)
LEMMA Returning ==
  ASSUME QuitsOK, PanelOK, Running, UNCHANGED <<doneClosed, quits>>,
         NEW why \in {"context", "done", "events closed", "input closed"}, Return(why)
  PROVE  QuitsOK' /\ PanelOK'
<1>1. outcome' = why /\ why # "running" /\ why # "close panic" /\ why # "slice panic"
  BY DEF Return
<1> QED
  BY <1>1, Zenon DEF QuitsOK, PanelOK, Running

(* Drawing the display, or not, panics for the panel only (render).        *)
LEMMA Drawing ==
  ASSUME QuitsOK, PanelOK, Running, UNCHANGED <<doneClosed, quits>>,
         Render(showAlerts', termHeight') \/ UNCHANGED outcome
  PROVE  QuitsOK' /\ PanelOK'
<1>1. (outcome' = "slice panic" /\ RenderPanics(showAlerts', termHeight')) \/ outcome' = "running"
  BY Zenon DEF Render, Running
<1>2. (outcome' = "close panic" => FALSE) /\ (outcome' = "running" => outcome' # "slice panic")
  BY <1>1
<1> QED
  BY <1>1, <1>2, Zenon DEF QuitsOK, PanelOK, Running

(* A case of select that does not take a 'q' leaves t.done alone and       *)
(* panics in render only.                                                  *)
LEMMA SelectQuits ==
  ASSUME QuitsOK, PanelOK, quits \in Nat, Select
  PROVE  QuitsOK' /\ PanelOK'
<1>1. CASE TakeCtxDone
  <2>1. Running /\ Return("context") /\ UNCHANGED <<doneClosed, quits>>
    BY <1>1, Zenon DEF TakeCtxDone, Selecting
  <2> QED
    BY <2>1, Returning
<1>2. CASE TakeDone
  <2>1. Running /\ Return("done") /\ UNCHANGED <<doneClosed, quits>>
    BY <1>2, Zenon DEF TakeDone, Selecting
  <2> QED
    BY <2>1, Returning
<1>3. CASE TakeResize
  <2>1. Running /\ Render(showAlerts', termHeight') /\ UNCHANGED <<doneClosed, quits>>
    BY <1>3, Zenon DEF TakeResize, Selecting
  <2> QED
    BY <2>1, Drawing
<1>4. CASE TakeEvent
  <2>1. Running /\ UNCHANGED outcome /\ UNCHANGED <<doneClosed, quits>>
    BY <1>4, Zenon DEF TakeEvent, Selecting, tuiVars
  <2> QED
    BY <2>1, Drawing
<1>5. CASE TakeEventsClosed
  <2>1. Running /\ Return("events closed") /\ UNCHANGED <<doneClosed, quits>>
    BY <1>5, Zenon DEF TakeEventsClosed, Selecting
  <2> QED
    BY <2>1, Returning
<1>6. CASE TakeTick
  <2>1. Running /\ Render(showAlerts', termHeight') /\ UNCHANGED <<doneClosed, quits>>
    BY <1>6, Zenon DEF TakeTick, Selecting
  <2> QED
    BY <2>1, Drawing
<1>7. CASE TakeInputClosed
  <2>1. Running /\ Return("input closed") /\ UNCHANGED <<doneClosed, quits>>
    BY <1>7, Zenon DEF TakeInputClosed, Selecting
  <2> QED
    BY <2>1, Returning
<1>8. CASE CommandQuit
  <2>1. quits' = quits + 1 /\ outcome = "running"
    BY <1>8, Zenon DEF CommandQuit, Selecting, Running
  <2>2. doneClosed' /\ outcome' = IF doneClosed THEN "close panic" ELSE "running"
    BY <1>8, Zenon DEF CommandQuit
  <2>3. quits' > 0 /\ (quits > 0 => quits' > 1) /\ (~(quits > 0) => quits' <= 1)
    BY <2>1
  <2> QED
    BY <2>2, <2>3, Zenon DEF QuitsOK, PanelOK, Running
<1>9. CASE CommandAlerts
  <2>1. Running /\ Render(showAlerts', termHeight') /\ UNCHANGED <<doneClosed, quits>>
    BY <1>9, Zenon DEF CommandAlerts, Selecting
  <2> QED
    BY <2>1, Drawing
<1>10. CASE CommandFilter
  <2>1. Running /\ UNCHANGED outcome /\ UNCHANGED <<doneClosed, quits>>
    BY <1>10, Zenon DEF CommandFilter, Selecting
  <2> QED
    BY <2>1, Drawing
<1>11. CASE CommandOther
  <2>1. Running /\ (Render(showAlerts', termHeight') \/ UNCHANGED outcome) /\ UNCHANGED <<doneClosed, quits>>
    BY <1>11, Zenon DEF CommandOther, Selecting
  <2> QED
    BY <2>1, Drawing
<1> QED
  BY <1>1, <1>2, <1>3, <1>4, <1>5, <1>6, <1>7, <1>8, <1>9, <1>10, <1>11 DEF Select

(* The filter prompt quits nothing: 'q' is a letter there.                 *)
LEMMA FilterQuits ==
  ASSUME QuitsOK, PanelOK, FilterInput
  PROVE  QuitsOK' /\ PanelOK'
<1>1. CASE FilterAccept
  <2>1. Running /\ Render(showAlerts', termHeight') /\ UNCHANGED <<doneClosed, quits>>
    BY <1>1, Zenon DEF FilterAccept, Filtering
  <2> QED
    BY <2>1, Drawing
<1>2. CASE FilterCancel
  <2>1. Running /\ Render(showAlerts', termHeight') /\ UNCHANGED <<doneClosed, quits>>
    BY <1>2, Zenon DEF FilterCancel, Filtering
  <2> QED
    BY <2>1, Drawing
<1>3. CASE FilterEdit
  <2>1. Running /\ UNCHANGED outcome /\ UNCHANGED <<doneClosed, quits>>
    BY <1>3, Zenon DEF FilterEdit, Filtering
  <2> QED
    BY <2>1, Drawing
<1>4. CASE FilterInputClosed
  <2>1. Running /\ Return("input closed") /\ UNCHANGED <<doneClosed, quits>>
    BY <1>4, Zenon DEF FilterInputClosed, Filtering
  <2> QED
    BY <2>1, Returning
<1> QED
  BY <1>1, <1>2, <1>3, <1>4 DEF FilterInput

(* The loop panics only on a second 'q' or when it draws the alert panel   *)
(* on a terminal of three lines or less (tui.go, handleCommand and         *)
(* renderAlerts).                                                          *)
THEOREM PanicsCorrect == Spec => []PanicsExplained
<1>1. Init => QuitsOK /\ PanelOK
  <2> SUFFICES ASSUME Init
               PROVE  QuitsOK /\ PanelOK
    OBVIOUS
  <2>1. ~doneClosed /\ quits = 0 /\ outcome \in {"running", "no raw mode"}
    BY Zenon DEF Init
  <2>2. ~(quits > 0) /\ quits <= 1 /\ outcome # "close panic" /\ outcome # "slice panic"
    <3>1. ~(quits > 0) /\ quits <= 1
      <4>1. quits = 0
        BY <2>1, Zenon
      <4> QED
        BY ONLY <4>1
    <3>2. outcome # "close panic" /\ outcome # "slice panic"
      BY <2>1, Zenon
    <3> QED
      BY <3>1, <3>2
  <2> QED
    BY <2>1, <2>2, Zenon DEF QuitsOK, PanelOK, Running
<1>2. TypeOK /\ QuitsOK /\ PanelOK /\ [Next]_vars => QuitsOK' /\ PanelOK'
  <2> SUFFICES ASSUME TypeOK, QuitsOK, PanelOK, [Next]_vars
               PROVE  QuitsOK' /\ PanelOK'
    OBVIOUS
  <2>1. CASE UNCHANGED tuiVars
    BY <2>1, Zenon DEF QuitsOK, PanelOK, Running, tuiVars
  <2>2. CASE World
    BY <2>1, <2>2, Zenon DEF World, PressKey, EndOfInput, Signal, EventArrives, EventsEnd, Resize
  <2>3. [Next]_vars <=> Select \/ FilterInput \/ World \/ UNCHANGED vars
    BY Zenon DEF Next, Rest
  <2>4. quits \in Nat
    BY Zenon DEF TypeOK
  <2> QED
    BY <2>1, <2>2, <2>3, <2>4, SelectQuits, FilterQuits, Zenon DEF vars
<1>3. TypeOK /\ QuitsOK /\ PanelOK => PanicsExplained
  <2> SUFFICES ASSUME TypeOK, QuitsOK, PanelOK
               PROVE  PanicsExplained
    OBVIOUS
  <2>1. termHeight \in Nat
    BY LoopAssumption, Zenon DEF TypeOK
  <2>2. termHeight \div 2 - 2 < 0 => termHeight < 4
    BY <2>1
  <2> QED
    BY <2>2, Zenon DEF QuitsOK, PanelOK, RenderPanics, PanicsExplained
<1> QED
  BY <1>1, <1>2, <1>3, TypeCorrect, PTL DEF Spec
=============================================================================
