-------------------------- MODULE Pipeline_proofs ---------------------------
(***************************************************************************)
(* Proofs about Pipeline, with or without the output file, with any        *)
(* backend, any keys and any number of events.                             *)
(*                                                                         *)
(* The argument: the captured events are, position by position, those      *)
(* shown, then the one in the writer's hands, then the one in the          *)
(* analyser's hands.  A goroutine that returns may drop the event it       *)
(* holds; it then receives nothing more, so the account ends with the part *)
(* of the pipeline in front of it, and what is behind it stays a prefix.   *)
(* The file is what the first n captured events make of it, where n is the *)
(* number of events shown, and one more between a row and its send; a key  *)
(* that is remembered has its row in the file or lost it.                  *)
(***************************************************************************)
EXTENDS Pipeline, Lists_proofs

Carrying(g) == g \in {"write", "send"}

(* The position in captured of the event the writer, the analyser holds.   *)
WritePos == Len(shown) + 1
AnalyzePos == Len(shown) + (IF Carrying(write) THEN 2 ELSE 1)

ControlOK ==
  /\ capture \in {"off", "idle", "send", "closed"}
  /\ analyze \in {"receive", "send", "closed"}
  /\ write \in {"absent", "receive", "write", "send", "closed"}
  /\ display \in {"new", "start", "create"} => write = "absent"
  /\ capture = "send" => offered \in Event
  /\ analyze = "send" => analyzed \in Event
  /\ Carrying(write) => toWrite \in Event
  /\ captured \in Seq(Event) /\ shown \in Seq(Event)

ShownFirst ==
  /\ Len(shown) <= Len(captured)
  /\ \A i \in 1 .. Len(shown) : shown[i] = captured[i]

WriterNext ==
  Carrying(write) => WritePos <= Len(captured) /\ captured[WritePos] = toWrite

AnalyzerLast ==
  write # "closed" =>
    /\ analyze = "send" => Len(captured) = AnalyzePos /\ captured[AnalyzePos] = analyzed
    /\ analyze = "receive" => Len(captured) = AnalyzePos - 1

Inv == ControlOK /\ ShownFirst /\ WriterNext /\ AnalyzerLast

-----------------------------------------------------------------------------
(* Nothing is captured, held or shown at the start.                        *)
LEMMA InitInv == Init => Inv
BY DEF Init, Inv, ControlOK, ShownFirst, WriterNext, AnalyzerLast, Carrying, AnalyzePos, WritePos

(* Every step of a goroutine, and the cancellation, keeps the account.     *)
LEMMA InvStep == Inv /\ [Next]_vars => Inv'
<1> SUFFICES ASSUME Inv, [Next]_vars
             PROVE  Inv'
  OBVIOUS
<1> USE DEF Inv, Carrying, WritePos, AnalyzePos
<1>len. Len(captured) \in Nat /\ Len(shown) \in Nat
  BY DEF ControlOK
<1>0. CASE ChooseBackend \/ StartCapture \/ CreateFile
  BY <1>0 DEF ChooseBackend, StartCapture, CreateFile, ControlOK, ShownFirst, WriterNext, AnalyzerLast
<1>1. CASE Offer
  BY <1>1 DEF Offer, ControlOK, ShownFirst, WriterNext, AnalyzerLast
<1>2. CASE GiveUpOffer
  BY <1>2 DEF GiveUpOffer, ControlOK, ShownFirst, WriterNext, AnalyzerLast
<1>3. CASE CloseCapture
  BY <1>3 DEF CloseCapture, ControlOK, ShownFirst, WriterNext, AnalyzerLast
<1>4. CASE AnalyzerReceives
  <2>1. captured \in Seq(Event) /\ offered \in Event
    BY <1>4 DEF AnalyzerReceives, ControlOK
  <2>2. /\ captured' \in Seq(Event)
        /\ Len(captured') = Len(captured) + 1
        /\ \A i \in 1 .. Len(captured) : captured'[i] = captured[i]
        /\ captured'[Len(captured) + 1] = offered
    BY <1>4, <2>1, AppendFacts DEF AnalyzerReceives
  <2>3. ControlOK'
    BY <1>4, <2>1, <2>2 DEF AnalyzerReceives, ControlOK
  <2>4. ShownFirst'
    BY <1>4, <1>len, <2>2 DEF AnalyzerReceives, ShownFirst
  <2>5. WriterNext'
    BY <1>4, <1>len, <2>2 DEF AnalyzerReceives, WriterNext
  <2>6. AnalyzerLast'
    BY <1>4, <1>len, <2>2 DEF AnalyzerReceives, AnalyzerLast
  <2> QED
    BY <2>3, <2>4, <2>5, <2>6
<1>5. CASE AnalyzerReturns
  BY <1>5 DEF AnalyzerReturns, ControlOK, ShownFirst, WriterNext, AnalyzerLast
<1>6. CASE WriterReceives
  <2>1. ControlOK'
    BY <1>6 DEF WriterReceives, ControlOK
  <2>2. ShownFirst'
    BY <1>6 DEF WriterReceives, ShownFirst
  <2>3. WriterNext' /\ AnalyzerLast'
    BY <1>6, <1>len DEF WriterReceives, WriterNext, AnalyzerLast
  <2> QED
    BY <2>1, <2>2, <2>3
<1>7. CASE WriteRow
  <2>1. /\ write = "write" /\ write' = "send"
        /\ UNCHANGED <<capture, analyze, display, offered, analyzed, toWrite, captured, shown>>
    BY <1>7 DEF WriteRow
  <2> QED
    BY <2>1 DEF ControlOK, ShownFirst, WriterNext, AnalyzerLast
<1>8. CASE WriterReturns
  BY <1>8 DEF WriterReturns, ControlOK, ShownFirst, WriterNext, AnalyzerLast
<1>9. CASE ShowAnalyzed
  <2>1. /\ write = "absent" /\ analyze = "send" /\ analyze' = "receive"
        /\ analyzed \in Event /\ shown \in Seq(Event)
        /\ captured[Len(shown) + 1] = analyzed /\ Len(captured) = Len(shown) + 1
    BY <1>9 DEF ShowAnalyzed, Output, ControlOK, AnalyzerLast
  <2>2. /\ shown' \in Seq(Event)
        /\ Len(shown') = Len(shown) + 1
        /\ \A i \in 1 .. Len(shown) : shown'[i] = shown[i]
        /\ shown'[Len(shown) + 1] = analyzed
    BY <1>9, <2>1, AppendFacts DEF ShowAnalyzed, Render
  <2>3. ControlOK'
    BY <1>9, <2>2 DEF ShowAnalyzed, ControlOK
  <2>4. ShownFirst'
    BY <1>9, <1>len, <2>1, <2>2 DEF ShowAnalyzed, ShownFirst
  <2>5. WriterNext' /\ AnalyzerLast'
    BY <1>9, <1>len, <2>1, <2>2 DEF ShowAnalyzed, WriterNext, AnalyzerLast
  <2> QED
    BY <2>3, <2>4, <2>5
<1>10. CASE ShowWritten
  <2>1. /\ write = "send" /\ write' = "receive"
        /\ toWrite \in Event /\ shown \in Seq(Event)
        /\ captured[Len(shown) + 1] = toWrite /\ Len(shown) + 1 <= Len(captured)
    BY <1>10 DEF ShowWritten, ControlOK, WriterNext
  <2>2. /\ shown' \in Seq(Event)
        /\ Len(shown') = Len(shown) + 1
        /\ \A i \in 1 .. Len(shown) : shown'[i] = shown[i]
        /\ shown'[Len(shown) + 1] = toWrite
    BY <1>10, <2>1, AppendFacts DEF ShowWritten, Render
  <2>3. ControlOK'
    BY <1>10, <2>2 DEF ShowWritten, ControlOK
  <2>4. ShownFirst'
    BY <1>10, <1>len, <2>1, <2>2 DEF ShowWritten, ShownFirst
  <2>5. WriterNext' /\ AnalyzerLast'
    BY <1>10, <1>len, <2>1, <2>2 DEF ShowWritten, WriterNext, AnalyzerLast
  <2> QED
    BY <2>3, <2>4, <2>5
<1>11. CASE PacketsEnd
  BY <1>11 DEF PacketsEnd, ControlOK, ShownFirst, WriterNext, AnalyzerLast
<1>12. CASE DisplayReturns \/ Cancel \/ Over \/ UNCHANGED vars
  BY <1>12 DEF DisplayReturns, Cancel, Over, vars, ControlOK, ShownFirst, WriterNext, AnalyzerLast
<1> QED
  BY <1>0, <1>1, <1>2, <1>3, <1>4, <1>5, <1>6, <1>7, <1>8, <1>9, <1>10, <1>11, <1>12 DEF Next

(* The display has rendered a prefix of the captured events, in order,     *)
(* without a gap or a repetition, in every reachable state and whichever   *)
(* goroutine has returned.                                                 *)
THEOREM PrefixCorrect == Spec => []ShownIsPrefix
<1>1. Inv => ShownIsPrefix
  <2> SUFFICES ASSUME Inv
               PROVE  ShownIsPrefix
    OBVIOUS
  <2>1. /\ shown \in Seq(Event) /\ captured \in Seq(Event)
        /\ Len(shown) <= Len(captured)
        /\ \A i \in 1 .. Len(shown) : shown[i] = captured[i]
    BY DEF Inv, ControlOK, ShownFirst
  <2>2. /\ SubSeq(shown, 1, Len(shown)) = [i \in 1 .. Len(shown) |-> shown[i]]
        /\ SubSeq(captured, 1, Len(shown)) = [i \in 1 .. Len(shown) |-> captured[i]]
    BY <2>1
  <2> QED
    BY <2>1, <2>2 DEF ShownIsPrefix, IsPrefix
<1> QED
  BY InitInv, InvStep, <1>1, PTL DEF Spec
-----------------------------------------------------------------------------
(* What each variable holds follows, once Inv says that a goroutine which  *)
(* is about to pass an event on has one in its hands.                      *)
LEMMA TypeStep == Inv /\ TypeOK /\ [Next]_vars => TypeOK'
<1> SUFFICES ASSUME Inv, TypeOK, [Next]_vars
             PROVE  TypeOK'
  OBVIOUS
<1> USE DEF TypeOK
<1>ctl. ControlOK
  BY DEF Inv
<1>0. CASE ChooseBackend
  <2>1. backend' \in Built \cup {"none"}
    <3>1. CASE UNCHANGED backend
      BY <3>1
    <3>2. CASE ~ UNCHANGED backend
      BY <1>0, <3>2 DEF ChooseBackend
    <3> QED
      BY <3>1, <3>2
  <2> QED
    BY <1>0, <2>1 DEF ChooseBackend
<1>1. CASE StartCapture \/ CreateFile
  BY <1>1 DEF StartCapture, CreateFile
<1>2. CASE Offer
  <2>1. offered' \in Event /\ capture' = "send"
    BY <1>2 DEF Offer
  <2> QED
    BY <1>2, <2>1 DEF Offer
<1>3. CASE GiveUpOffer \/ CloseCapture \/ PacketsEnd
  BY <1>3 DEF GiveUpOffer, CloseCapture, PacketsEnd
<1>4. CASE AnalyzerReceives
  <2>1. offered \in Event /\ captured' \in Seq(Event)
    BY <1>4, <1>ctl, AppendFacts DEF AnalyzerReceives, ControlOK
  <2> QED
    BY <1>4, <2>1 DEF AnalyzerReceives
<1>5. CASE AnalyzerReturns
  BY <1>5 DEF AnalyzerReturns
<1>6. CASE WriterReceives
  BY <1>6 DEF WriterReceives
<1>7. CASE WriteRow
  <2>1. toWrite.key \in Key
    BY <1>7, <1>ctl DEF WriteRow, ControlOK, Carrying, Event
  <2>2. /\ UNCHANGED written \/ written' = written \cup {toWrite.key}
        /\ UNCHANGED unwritten \/ unwritten' = unwritten \cup {toWrite.key}
        /\ UNCHANGED file \/ file' = Append(file, toWrite.key)
    BY <1>7 DEF WriteRow, PrintRow
  <2>3. written' \subseteq Key /\ unwritten' \subseteq Key /\ file' \in Seq(Key)
    <3>1. written \subseteq Key /\ unwritten \subseteq Key /\ file \in Seq(Key)
      OBVIOUS
    <3>2. Append(file, toWrite.key) \in Seq(Key)
      BY <2>1, <3>1, AppendFacts
    <3> HIDE DEF TypeOK
    <3> QED
      BY <2>1, <2>2, <3>1, <3>2
  <2> QED
    BY <1>7, <2>3 DEF WriteRow
<1>8. CASE WriterReturns
  BY <1>8 DEF WriterReturns
<1>9. CASE ShowAnalyzed
  <2>1. shown' \in Seq(Event)
    BY <1>9, <1>ctl, AppendFacts DEF ShowAnalyzed, Render, ControlOK
  <2> QED
    BY <1>9, <2>1 DEF ShowAnalyzed
<1>10. CASE ShowWritten
  <2>1. shown' \in Seq(Event)
    BY <1>10, <1>ctl, AppendFacts DEF ShowWritten, Render, ControlOK, Carrying
  <2> QED
    BY <1>10, <2>1 DEF ShowWritten
<1>11. CASE DisplayReturns \/ Cancel \/ Over \/ UNCHANGED vars
  BY <1>11 DEF DisplayReturns, Cancel, Over, vars
<1> QED
  BY <1>0, <1>1, <1>2, <1>3, <1>4, <1>5, <1>6, <1>7, <1>8, <1>9, <1>10, <1>11 DEF Next

(* Every variable of the pipeline keeps its type.                          *)
THEOREM TypeCorrect == Spec => []TypeOK
<1>1. Init => TypeOK
  <2> SUFFICES ASSUME Init
               PROVE  TypeOK
    OBVIOUS
  <2>1. file \in Seq(Key) /\ captured \in Seq(Event) /\ shown \in Seq(Event)
    BY DEF Init
  <2> QED
    BY <2>1 DEF Init, TypeOK
<1> QED
  BY <1>1, InitInv, InvStep, TypeStep, PTL DEF Spec

-----------------------------------------------------------------------------
(* The file is what the first n captured events make of it, and n follows  *)
(* the writer: it is the number of events shown, and one more between the  *)
(* row and the send.  When the writer has returned, n stays where it was.  *)
Ordered(n) ==
  \A i, j \in DOMAIN file :
    i < j => \E m \in 1 .. n : file[i] \in SightedWithin(m) /\ file[j] \notin SightedWithin(m)

FileAccount(n) ==
  /\ ToSet(file) = SightedWithin(n) \ unwritten
  /\ Ordered(n)
  /\ Output => n >= Len(shown)
  /\ write \in {"receive", "write"} => n = Len(shown)
  /\ write = "send" => n = Len(shown) + 1

FileInv ==
  /\ display \in {"new", "start", "create"} => shown = <<>>
  /\ ~Output => file = <<>> /\ unwritten = {}
  /\ written = ToSet(file) \cup unwritten
  /\ \E n \in 0 .. Len(captured) : FileAccount(n)

(* The first n events say nothing of what is captured after them.          *)
LEMMA SightedStable ==
  ASSUME NEW n \in 0 .. Len(captured), captured \in Seq(Event),
         \A i \in 1 .. Len(captured) : captured'[i] = captured[i]
  PROVE  \A m \in 0 .. n : SightedWithin(m)' = SightedWithin(m)
BY DEF SightedWithin, Counts

(* One event more adds its key, unless the file leaves the event out.      *)
LEMMA SightedNext ==
  ASSUME captured \in Seq(Event), NEW n \in 0 .. Len(captured) - 1
  PROVE  SightedWithin(n + 1) =
           SightedWithin(n) \cup (IF Counts(captured[n + 1]) THEN {captured[n + 1].key} ELSE {})
<1> DEFINE J(k) == {j \in 1 .. k : Counts(captured[j])}
<1>1. J(n + 1) = J(n) \cup (IF Counts(captured[n + 1]) THEN {n + 1} ELSE {})
  <2>1. 1 .. n + 1 = (1 .. n) \cup {n + 1}
    OBVIOUS
  <2> QED
    BY <2>1 DEF Counts
<1> HIDE DEF J
<1>2. SightedWithin(n + 1) = {captured[i].key : i \in J(n + 1)} /\ SightedWithin(n) = {captured[i].key : i \in J(n)}
  BY DEF SightedWithin, J
<1> QED
  BY <1>1, <1>2

(* A step that neither reads nor writes an event keeps the account.        *)
LEMMA FileStutters ==
  ASSUME FileInv, UNCHANGED <<file, written, unwritten, captured, shown>>,
         display' \in {"new", "start", "create"} => display \in {"new", "start", "create"},
         write' = write \/ write' = "closed",
         write' = "closed" => write # "absent"
  PROVE  FileInv'
<1>1. PICK n \in 0 .. Len(captured) : FileAccount(n)
  BY DEF FileInv
<1>2. FileAccount(n)'
  BY <1>1 DEF FileAccount, Ordered, SightedWithin, Counts, Output
<1> QED
  BY <1>2 DEF FileInv, Output

LEMMA FileStep == Inv /\ TypeOK /\ FileInv /\ [Next]_vars => FileInv'
<1> SUFFICES ASSUME Inv, TypeOK, FileInv, [Next]_vars
             PROVE  FileInv'
  OBVIOUS
<1>ok. ControlOK /\ ShownFirst /\ WriterNext
  BY DEF Inv
<1>len. /\ captured \in Seq(Event) /\ Len(captured) \in Nat
        /\ shown \in Seq(Event) /\ Len(shown) \in Nat
        /\ file \in Seq(Key) /\ Len(file) \in Nat
        /\ Len(shown) <= Len(captured)
  BY <1>ok DEF TypeOK, ShownFirst
<1>n. PICK n \in 0 .. Len(captured) : FileAccount(n)
  BY DEF FileInv
<1>0. CASE ChooseBackend \/ StartCapture
  BY <1>0, FileStutters, <1>ok DEF ChooseBackend, StartCapture, ControlOK
<1>1. CASE CreateFile
  <2>1. /\ shown = <<>> /\ file = <<>> /\ unwritten = {} /\ ~Output
        /\ UNCHANGED <<file, written, unwritten, captured, shown>>
        /\ display' \notin {"new", "start", "create"}
    BY <1>1, <1>ok DEF CreateFile, ControlOK, FileInv, Output
  <2>2. CASE write' = "receive"
    <3>1. SightedWithin(0)' = {} /\ ToSet(file)' = {}
      BY <2>1 DEF SightedWithin, ToSet
    <3>2. DOMAIN file' = {} /\ Len(shown') = 0
      BY <2>1
    <3>3. Ordered(0)'
      BY <3>2 DEF Ordered
    <3>4. FileAccount(0)'
      BY <2>2, <3>1, <3>2, <3>3 DEF FileAccount
    <3> QED
      BY <1>len, <2>1, <2>2, <3>1, <3>4 DEF FileInv, Output
  <2>3. CASE write' # "receive"
    BY <1>1, <2>1, <2>3, FileStutters DEF CreateFile, Output
  <2> QED
    BY <2>2, <2>3
<1>2. CASE Offer \/ GiveUpOffer \/ CloseCapture \/ PacketsEnd \/ AnalyzerReturns \/ DisplayReturns \/ Cancel
  BY <1>2, FileStutters DEF Offer, GiveUpOffer, CloseCapture, PacketsEnd, AnalyzerReturns, DisplayReturns, Cancel
<1>3. CASE AnalyzerReceives
  <2>1. captured' = Append(captured, offered) /\ offered \in Event
    BY <1>3, <1>ok DEF AnalyzerReceives, ControlOK
  <2>2. /\ Len(captured') = Len(captured) + 1
        /\ \A i \in 1 .. Len(captured) : captured'[i] = captured[i]
    BY <1>len, <2>1, AppendFacts
  <2>3. \A m \in 0 .. n : SightedWithin(m)' = SightedWithin(m)
    BY <1>len, <2>2, SightedStable
  <2>4. FileAccount(n)'
    BY <1>3, <1>n, <2>3 DEF FileAccount, Ordered, AnalyzerReceives, Output
  <2> QED
    BY <1>3, <1>len, <2>2, <2>4 DEF FileInv, AnalyzerReceives, Output
<1>4. CASE WriterReceives
  <2>1. /\ write = "receive" /\ write' = "write"
        /\ UNCHANGED <<file, written, unwritten, captured, shown, display>>
    BY <1>4 DEF WriterReceives
  <2>2. FileAccount(n)'
    BY <1>n, <2>1 DEF FileAccount, Ordered, SightedWithin, Counts, Output
  <2> QED
    BY <2>1, <2>2 DEF FileInv, Output
<1>5. CASE WriteRow
  <2>1. /\ write = "write" /\ write' = "send"
        /\ UNCHANGED <<display, captured, shown>>
        /\ n = Len(shown) /\ n + 1 <= Len(captured) /\ captured[n + 1] = toWrite /\ toWrite \in Event
    BY <1>5, <1>n, <1>ok DEF WriteRow, FileAccount, WriterNext, ControlOK, Carrying, WritePos
  <2>2. SightedWithin(n + 1) =
          SightedWithin(n) \cup (IF Counts(toWrite) THEN {toWrite.key} ELSE {})
    BY <1>len, <2>1, SightedNext
  <2>3. \A m \in 0 .. n + 1 : SightedWithin(m)' = SightedWithin(m)
    BY <2>1 DEF SightedWithin, Counts
  <2>4. /\ ToSet(file) = SightedWithin(n) \ unwritten /\ Ordered(n)
        /\ written = ToSet(file) \cup unwritten
    BY <1>n DEF FileAccount, FileInv
  <2>5. CASE ~Counts(toWrite) \/ toWrite.key \in written
    <3>1. UNCHANGED <<written, unwritten, file>>
      BY <1>5, <2>5, PipelineAssumption DEF WriteRow, Counts
    <3>2. SightedWithin(n + 1) \ unwritten = SightedWithin(n) \ unwritten
      BY <2>2, <2>4, <2>5
    <3>3. Ordered(n + 1)'
      BY <2>1, <2>3, <2>4, <3>1 DEF Ordered
    <3>4. FileAccount(n + 1)'
      BY <2>1, <2>3, <2>4, <3>1, <3>2, <3>3 DEF FileAccount
    <3> QED
      BY <1>len, <2>1, <2>4, <3>1, <3>4 DEF FileInv, Output
  <2>6. ASSUME Counts(toWrite), toWrite.key \notin written, written' = written \cup {toWrite.key},
               file' = Append(file, toWrite.key), UNCHANGED unwritten
        PROVE  FileInv'
    <3>1. written' = written \cup {toWrite.key} /\ file' = Append(file, toWrite.key)
      BY <2>6
    <3>2. /\ toWrite.key \in Key /\ DOMAIN file = 1 .. Len(file)
          /\ file' \in Seq(Key) /\ Len(file') = Len(file) + 1
          /\ \A i \in 1 .. Len(file) : file'[i] = file[i]
          /\ file'[Len(file) + 1] = toWrite.key
          /\ DOMAIN file' = 1 .. Len(file) + 1
      BY <1>len, <2>1, <3>1, AppendFacts DEF Event
    <3>3. ToSet(file') = ToSet(file) \cup {toWrite.key}
      <4>1. ToSet(file') = {file'[i] : i \in 1 .. Len(file) + 1} /\ ToSet(file) = {file[i] : i \in 1 .. Len(file)}
        BY <3>2 DEF ToSet
      <4>2. 1 .. Len(file) + 1 = (1 .. Len(file)) \cup {Len(file) + 1}
        BY <1>len
      <4> QED
        BY <3>2, <4>1, <4>2
    <3>4. Ordered(n + 1)'
      <4> SUFFICES ASSUME NEW i \in 1 .. Len(file) + 1, NEW j \in 1 .. Len(file) + 1, i < j
                   PROVE  \E m \in 1 .. n + 1 : file'[i] \in SightedWithin(m) /\ file'[j] \notin SightedWithin(m)
        BY <2>3, <3>2 DEF Ordered
      <4>1. i \in 1 .. Len(file) /\ file'[i] = file[i]
        BY <1>len, <3>2
      <4>2. CASE j = Len(file) + 1
        <5>1. file[i] \in SightedWithin(n) /\ toWrite.key \notin SightedWithin(n)
          BY <2>4, <2>6, <3>2, <4>1 DEF ToSet
        <5>2. n # 0
          BY <5>1 DEF SightedWithin
        <5> QED
          BY <3>2, <4>1, <4>2, <5>1, <5>2
      <4>3. CASE j # Len(file) + 1
        <5>1. j \in 1 .. Len(file) /\ file'[j] = file[j]
          BY <1>len, <3>2, <4>3
        <5>2. PICK m \in 1 .. n : file[i] \in SightedWithin(m) /\ file[j] \notin SightedWithin(m)
          BY <2>4, <3>2, <4>1, <5>1 DEF Ordered
        <5> QED
          BY <4>1, <5>1, <5>2
      <4> QED
        BY <4>2, <4>3
    <3>5. ToSet(file') = SightedWithin(n + 1) \ unwritten
      BY <2>2, <2>4, <2>6, <3>3
    <3>6. FileAccount(n + 1)'
      BY <1>len, <2>1, <2>3, <2>6, <3>4, <3>5 DEF FileAccount
    <3> QED
      BY <1>len, <2>1, <2>4, <2>6, <3>3, <3>6 DEF FileInv, Output
  <2>7. CASE Counts(toWrite) /\ toWrite.key \notin written
    <3>1. written' = written \cup {toWrite.key} /\ PrintRow(toWrite.key)
      BY <1>5, <2>7, PipelineAssumption DEF WriteRow, Counts
    <3>2. toWrite.key \notin SightedWithin(n)
      BY <2>4, <2>7
    <3>3. CASE unwritten' = unwritten \cup {toWrite.key} /\ UNCHANGED file
      <4>1. SightedWithin(n + 1) \ unwritten' = SightedWithin(n) \ unwritten
        BY <2>2, <2>7, <3>2, <3>3
      <4>2. Ordered(n + 1)'
        BY <2>1, <2>3, <2>4, <3>3 DEF Ordered
      <4>3. FileAccount(n + 1)'
        BY <2>1, <2>3, <2>4, <3>3, <4>1, <4>2 DEF FileAccount
      <4>4. written' = ToSet(file)' \cup unwritten'
        BY <2>4, <3>1, <3>3
      <4> QED
        BY <1>len, <2>1, <4>3, <4>4 DEF FileInv, Output
    <3>4. CASE file' = Append(file, toWrite.key) /\ UNCHANGED unwritten
      <4> QED
        BY <2>6, <2>7, <3>1, <3>4
    <3> QED
      BY <3>1, <3>3, <3>4 DEF PrintRow
  <2> QED
    BY <2>5, <2>7
<1>6. CASE WriterReturns
  BY <1>6, FileStutters DEF WriterReturns
<1>7. CASE ShowAnalyzed
  <2>1. /\ ~Output /\ UNCHANGED <<file, written, unwritten, captured, write>>
        /\ display = "receive" /\ display' = "receive"
    BY <1>7 DEF ShowAnalyzed
  <2>2. FileAccount(n)'
    BY <1>n, <2>1 DEF FileAccount, Ordered, SightedWithin, Counts, Output
  <2> QED
    BY <2>1, <2>2 DEF FileInv, Output
<1>8. CASE ShowWritten
  <2>1. /\ write = "send" /\ write' = "receive" /\ UNCHANGED <<file, written, unwritten, captured>>
        /\ display = "receive" /\ display' = "receive"
        /\ Len(shown') = Len(shown) + 1
    BY <1>8, <1>ok, <1>len, AppendFacts DEF ShowWritten, Render, ControlOK, Carrying
  <2>2. FileAccount(n)'
    BY <1>n, <1>len, <2>1 DEF FileAccount, Ordered, SightedWithin, Counts, Output
  <2> QED
    BY <2>1, <2>2 DEF FileInv, Output
<1>9. CASE Over \/ UNCHANGED vars
  BY <1>9, FileStutters DEF Over, vars
<1> QED
  BY <1>0, <1>1, <1>2, <1>3, <1>4, <1>5, <1>6, <1>7, <1>8, <1>9 DEF Next

LEMMA FileInvariant == Spec => [](Inv /\ TypeOK /\ FileInv)
<1>1. Init => FileInv
  <2> SUFFICES ASSUME Init
               PROVE  FileInv
    OBVIOUS
  <2>1. ToSet(file) = {} /\ SightedWithin(0) = {} /\ DOMAIN file = {}
    BY DEF Init, ToSet, SightedWithin
  <2>2. FileAccount(0)
    BY <2>1 DEF Init, FileAccount, Ordered, Output
  <2> QED
    BY <2>1, <2>2 DEF Init, FileInv
<1> QED
  BY <1>1, InitInv, InvStep, TypeCorrect, FileStep, PTL DEF Spec

(* The file is what a beginning of the captured events makes of it, in the *)
(* order of first sighting and with one row for a key, in every reachable  *)
(* state, also after any goroutine has returned.                           *)
THEOREM FileCorrect == Spec => []FileIsFirstSightings
<1>1. FileInv => FileIsFirstSightings
  BY DEF FileInv, FileAccount, Ordered, FileIsFirstSightings
<1> QED
  BY <1>1, FileInvariant, PTL

(* Whatever the display has shown is in the file by then, unless its row   *)
(* could not be written or it is a TIME_WAIT event the file leaves out:    *)
(* what is shown was captured, and the writer's account never lags behind  *)
(* the display's.                                                          *)
THEOREM WrittenFirst == Spec => []WrittenBeforeShown
<1>1. Inv /\ TypeOK /\ FileInv => WrittenBeforeShown
  <2> SUFFICES ASSUME Inv, TypeOK, FileInv, Output, NEW e \in ToSet(shown)
               PROVE  e.key \in ToSet(file) \cup unwritten \/ (e.timeWait /\ ~ShowTimeWait)
    BY DEF WrittenBeforeShown
  <2>1. shown \in Seq(Event) /\ captured \in Seq(Event) /\ ShownFirst
    BY DEF TypeOK, Inv
  <2>2. PICK i \in 1 .. Len(shown) : e = shown[i]
    BY <2>1 DEF ToSet
  <2>3. i \in 1 .. Len(captured) /\ captured[i] = e
    BY <2>1, <2>2 DEF ShownFirst
  <2>4. PICK n \in 0 .. Len(captured) : FileAccount(n)
    BY DEF FileInv
  <2>5. i \in 1 .. n /\ ToSet(file) = SightedWithin(n) \ unwritten
    BY <2>1, <2>2, <2>4 DEF FileAccount
  <2>6. CASE Counts(e)
    BY <2>3, <2>5, <2>6 DEF SightedWithin
  <2>7. CASE ~Counts(e)
    BY <2>7 DEF Counts
  <2> QED
    BY <2>6, <2>7
<1> QED
  BY <1>1, FileInvariant, PTL
=============================================================================
