------------------------------ MODULE Pipeline ------------------------------
(***************************************************************************)
(* main (cmd/netbrother/main.go) from its first line to its last, with the *)
(* choice of a backend (internal/capture/capture.go), the event pipeline,  *)
(* the pcap backend at one end of it (capture_pcap.go) and the log display *)
(* at the other (internal/display/log.go).  The pipeline is the capturing  *)
(* goroutine, the analysing one, the file-writing one when -output is      *)
(* given, and main itself inside displayer.Start, joined by unbuffered     *)
(* channels.  A send and its receive are one step.  Every goroutine but    *)
(* the capturer closes its output when it returns; a send gives up when    *)
(* the context is done, and a select with several ready cases takes any of *)
(* them.                                                                   *)
(*                                                                         *)
(* pcap offers an event for each packet and drops it when nobody waits for *)
(* it; its source of packets may end.  The other backends wait, may give   *)
(* an event up after the cancellation and go on, and close their channel   *)
(* then (PollCapture, BpfCapture).  What the detectors add to an event is  *)
(* left to Detect.  The process ends when Start returns, or main gives up, *)
(* whatever the other goroutines are doing.                                *)
(***************************************************************************)
EXTENDS Integers, SequencesExt

CONSTANTS
  Key,           \* the connection keys
  ShowTimeWait,  \* the -show-time-wait flag
  Built,         \* the backends this binary is built with (build tags)
  MaxEvents      \* bound of the model: events the capturer offers

Preference == <<"pcap", "ebpf", "netlink", "proc">>

ASSUME PipelineAssumption ==
  /\ ShowTimeWait \in BOOLEAN /\ MaxEvents \in Nat
  /\ Built \subseteq ToSet(Preference)

(* New and closed events pass through the pipeline alike.                  *)
Event == [key : Key, timeWait : BOOLEAN]
Nothing == [key |-> "none"]

VARIABLES
  cancelled,  \* ctx.Done() is closed
  backend,    \* what capture.New returned, "none" before
  capture, analyze, write, display,   \* where each goroutine is: see TypeOK
  offered,    \* the event the capturer has to send
  analyzed,   \* the event in the analysing goroutine's hands
  toWrite,    \* the event in the writing goroutine's hands
  written,    \* written: the keys whose row was written, or tried
  file,       \* history: the rows of the file
  unwritten,  \* history: the keys whose row could not be written
  captured,   \* history: the events the capturer got rid of
  shown       \* history: the events the display has rendered

vars == <<cancelled, backend, capture, analyze, write, display,
          offered, analyzed, toWrite, written, file, unwritten, captured, shown>>

Init ==
  /\ cancelled = FALSE
  /\ backend = "none"
  /\ capture = "off" /\ analyze = "receive" /\ write = "absent"
  /\ display = "new"
  /\ offered = Nothing /\ analyzed = Nothing /\ toWrite = Nothing
  /\ written = {} /\ file = <<>> /\ unwritten = {} /\ captured = <<>> /\ shown = <<>>

Running == display \notin {"exited", "fatal"}
Output == write # "absent"

(* --- main, up to displayer.Start --------------------------------------- *)

(* New: the first backend of the order that is built and found to work.    *)
(* main gives up without one, or when display.New does not know the mode.  *)
ChooseBackend ==
  /\ display = "new"
  /\ \E found \in SUBSET Built :
       \/ found = {} /\ display' = "fatal" /\ UNCHANGED backend
       \/ /\ \E i \in DOMAIN Preference :
               /\ Preference[i] \in found /\ \A j \in 1 .. i - 1 : Preference[j] \notin found
               /\ backend' = Preference[i]
          /\ display' \in {"start", "fatal"}
  /\ UNCHANGED <<cancelled, capture, analyze, write, offered, analyzed, toWrite,
                 written, file, unwritten, captured, shown>>

(* capturer.Start: with pcap and eBPF it may fail, and main gives up then. *)
StartCapture ==
  /\ display = "start"
  /\ \/ capture' = "idle" /\ display' = "create"
     \/ backend \in {"pcap", "ebpf"} /\ display' = "fatal" /\ UNCHANGED capture
  /\ UNCHANGED <<cancelled, backend, analyze, write, offered, analyzed, toWrite,
                 written, file, unwritten, captured, shown>>

(* -output is not given; the file is created; or main gives up.            *)
CreateFile ==
  /\ display = "create"
  /\ \/ display' = "receive" /\ write' \in {"absent", "receive"}
     \/ display' = "fatal" /\ UNCHANGED write
  /\ UNCHANGED <<cancelled, backend, capture, analyze, offered, analyzed, toWrite,
                 written, file, unwritten, captured, shown>>

(* --- the capturer ------------------------------------------------------ *)

(* The next event; pcap knows no TIME_WAIT (processPacket).                *)
Offer ==
  /\ Running /\ capture = "idle" /\ Len(captured) < MaxEvents
  /\ capture' = "send"
  /\ offered' \in {e \in Event : backend = "pcap" => ~e.timeWait}
  /\ UNCHANGED <<cancelled, backend, analyze, write, display, analyzed, toWrite,
                 written, file, unwritten, captured, shown>>

(* The select of a send takes ctx.Done, or, with pcap, its default.        *)
GiveUpOffer ==
  /\ Running /\ capture = "send"
  /\ cancelled \/ backend = "pcap"
  /\ capture' = "idle"
  /\ offered' = Nothing
  /\ UNCHANGED <<cancelled, backend, analyze, write, display, analyzed, toWrite,
                 written, file, unwritten, captured, shown>>

CloseCapture ==
  /\ Running /\ capture = "idle" /\ cancelled
  /\ capture' = "closed"
  /\ UNCHANGED <<cancelled, backend, analyze, write, display, offered, analyzed,
                 toWrite, written, file, unwritten, captured, shown>>

(* packetChan is closed: the interface is gone.                            *)
PacketsEnd ==
  /\ Running /\ capture = "idle" /\ backend = "pcap"
  /\ capture' = "closed"
  /\ UNCHANGED <<cancelled, backend, analyze, write, display, offered, analyzed,
                 toWrite, written, file, unwritten, captured, shown>>

(* --- capturer to analyser ---------------------------------------------- *)
AnalyzerReceives ==
  /\ Running /\ capture = "send" /\ analyze = "receive"
  /\ captured' = Append(captured, offered)
  /\ analyzed' = offered
  /\ offered' = Nothing
  /\ capture' = "idle" /\ analyze' = "send"
  /\ UNCHANGED <<cancelled, backend, write, display, toWrite, written, file, unwritten, shown>>

(* Mutant: a send that gives up goes on with the next event.               *)
AnalyzerSkips ==
  /\ Running
  /\ \/ analyze = "receive" /\ capture = "closed" /\ analyze' = "closed"
     \/ analyze = "send" /\ cancelled /\ analyze' = "receive"
  /\ analyzed' = Nothing
  /\ UNCHANGED <<cancelled, backend, capture, write, display, offered, toWrite,
                 written, file, unwritten, captured, shown>>

(* The range loop ends with the channel, or the send chose ctx.Done: the   *)
(* deferred close(detectorOut) runs.                                       *)
AnalyzerReturns ==
  /\ Running
  /\ \/ analyze = "receive" /\ capture = "closed"
     \/ analyze = "send" /\ cancelled
  /\ analyze' = "closed"
  /\ analyzed' = Nothing
  /\ UNCHANGED <<cancelled, backend, capture, write, display, offered, toWrite,
                 written, file, unwritten, captured, shown>>

(* --- analyser to writer ------------------------------------------------ *)
WriterReceives ==
  /\ Running /\ analyze = "send" /\ write = "receive"
  /\ toWrite' = analyzed
  /\ analyzed' = Nothing
  /\ analyze' = "receive" /\ write' = "write"
  /\ UNCHANGED <<cancelled, backend, capture, display, offered, written, file,
                 unwritten, captured, shown>>

(* Fprintf, whose error is ignored: the disk may be full.                  *)
PrintRow(k) ==
  \/ file' = Append(file, k) /\ UNCHANGED unwritten
  \/ unwritten' = unwritten \cup {k} /\ UNCHANGED file

(* Mutant: a key that was written is not remembered.                       *)
WriteRowForgets ==
  /\ Running /\ write = "write"
  /\ IF toWrite.timeWait /\ ~ShowTimeWait
       THEN UNCHANGED <<file, unwritten>>
       ELSE PrintRow(toWrite.key)
  /\ write' = "send"
  /\ UNCHANGED <<cancelled, backend, capture, analyze, display, offered, analyzed,
                 toWrite, written, captured, shown>>

(* Mutant: "continue" without forwarding what is already in the file.      *)
WriteRowSkips ==
  /\ Running /\ write = "write"
  /\ IF toWrite.key \in written
       THEN /\ write' = "receive" /\ toWrite' = Nothing
            /\ UNCHANGED <<written, file, unwritten>>
       ELSE /\ write' = "send" /\ UNCHANGED toWrite
            /\ written' = written \cup {toWrite.key}
            /\ PrintRow(toWrite.key)
  /\ UNCHANGED <<cancelled, backend, capture, analyze, display, offered, analyzed, captured, shown>>

(* The key is remembered before its row is written.                        *)
WriteRow ==
  /\ Running /\ write = "write"
  /\ IF (toWrite.timeWait /\ ~ShowTimeWait) \/ toWrite.key \in written
       THEN UNCHANGED <<written, file, unwritten>>
       ELSE /\ written' = written \cup {toWrite.key}
            /\ PrintRow(toWrite.key)
  /\ write' = "send"
  /\ UNCHANGED <<cancelled, backend, capture, analyze, display, offered, analyzed,
                 toWrite, captured, shown>>

(* Mutant: a receive from the closed channel is taken for an event.        *)
WriterReadsZero ==
  /\ Running
  /\ write = "receive" /\ analyze = "closed"
  /\ write' = "write"
  /\ toWrite' = [key |-> "", timeWait |-> FALSE]
  /\ UNCHANGED <<cancelled, backend, capture, analyze, display, offered, analyzed,
                 written, file, unwritten, captured, shown>>

WriterReturns ==
  /\ Running
  /\ \/ write = "receive" /\ analyze = "closed"
     \/ write = "send" /\ cancelled
  /\ write' = "closed"
  /\ toWrite' = Nothing
  /\ UNCHANGED <<cancelled, backend, capture, analyze, display, offered, analyzed,
                 written, file, unwritten, captured, shown>>

(* --- to the display ---------------------------------------------------- *)
Render(e) == shown' = Append(shown, e)

ShowAnalyzed ==
  /\ display = "receive" /\ ~Output /\ analyze = "send"
  /\ Render(analyzed)
  /\ analyzed' = Nothing
  /\ analyze' = "receive"
  /\ UNCHANGED <<cancelled, backend, capture, write, display, offered, toWrite,
                 written, file, unwritten, captured>>

(* Mutant: events are forwarded before they are written.                   *)
ShowUnwritten ==
  /\ display = "receive" /\ write \in {"write", "send"}
  /\ Render(toWrite)
  /\ toWrite' = Nothing
  /\ write' = "receive"
  /\ UNCHANGED <<cancelled, backend, capture, analyze, display, offered, analyzed,
                 written, file, unwritten, captured>>

ShowWritten ==
  /\ display = "receive" /\ write = "send"
  /\ Render(toWrite)
  /\ toWrite' = Nothing
  /\ write' = "receive"
  /\ UNCHANGED <<cancelled, backend, capture, analyze, display, offered, analyzed,
                 written, file, unwritten, captured>>

(* Mutant: the display ranges over its channel and ignores the context.    *)
DisplayRanges ==
  /\ display = "receive"
  /\ \/ ~Output /\ analyze = "closed"
     \/ write = "closed"
  /\ display' = "exited"
  /\ UNCHANGED <<cancelled, backend, capture, analyze, write, offered, analyzed,
                 toWrite, written, file, unwritten, captured, shown>>

(* Start returns: ctx is done, or the channel is closed.  main returns.    *)
DisplayReturns ==
  /\ display = "receive"
  /\ \/ cancelled
     \/ ~Output /\ analyze = "closed"
     \/ write = "closed"
  /\ display' = "exited"
  /\ UNCHANGED <<cancelled, backend, capture, analyze, write, offered, analyzed,
                 toWrite, written, file, unwritten, captured, shown>>

(* SIGINT or SIGTERM, once signal.NotifyContext has been called.           *)
Cancel ==
  /\ Running /\ display # "new" /\ ~cancelled
  /\ cancelled' = TRUE
  /\ UNCHANGED <<backend, capture, analyze, write, display, offered, analyzed,
                 toWrite, written, file, unwritten, captured, shown>>

(* After main has returned nothing moves.                                  *)
Over == ~Running /\ UNCHANGED vars

Next ==
  \/ ChooseBackend \/ StartCapture \/ CreateFile
  \/ Offer \/ GiveUpOffer \/ CloseCapture \/ PacketsEnd
  \/ AnalyzerReceives \/ AnalyzerReturns
  \/ WriterReceives \/ WriteRow \/ WriterReturns
  \/ ShowAnalyzed \/ ShowWritten \/ DisplayReturns
  \/ Cancel \/ Over

Spec == Init /\ [][Next]_vars

(* Each goroutine keeps running, the terminal takes what is printed, and a *)
(* select that finds ctx.Done ready again and again takes it some time     *)
(* (Go picks among the ready cases at random).  Signals come or do not,    *)
(* and packets go on or end.                                               *)
Fairness ==
  /\ WF_vars(StartCapture) /\ WF_vars(CreateFile)
  /\ WF_vars(AnalyzerReceives) /\ WF_vars(WriterReceives) /\ WF_vars(WriteRow)
  /\ WF_vars(ShowAnalyzed) /\ WF_vars(ShowWritten)
  /\ WF_vars(AnalyzerReturns) /\ WF_vars(WriterReturns)
  /\ WF_vars(GiveUpOffer) /\ WF_vars(CloseCapture)
  /\ WF_vars(DisplayReturns)

FairSpec == Spec /\ Fairness

-----------------------------------------------------------------------------
TypeOK ==
  /\ cancelled \in BOOLEAN
  /\ backend \in Built \cup {"none"}
  /\ capture \in {"off", "idle", "send", "closed"}
  /\ analyze \in {"receive", "send", "closed"}
  /\ write \in {"absent", "receive", "write", "send", "closed"}
  /\ display \in {"new", "start", "create", "receive", "exited", "fatal"}
  /\ \A e \in {offered, analyzed, toWrite} : e \in Event \cup {Nothing}
  /\ written \subseteq Key /\ unwritten \subseteq Key
  /\ file \in Seq(Key)
  /\ captured \in Seq(Event) /\ shown \in Seq(Event)

(* The display renders the captured events in order, without a gap or a    *)
(* repetition, also while the pipeline is torn down from any side.         *)
ShownIsPrefix == IsPrefix(shown, captured)

(* No event overtakes the file: whatever the display shows is in the file  *)
(* by then, unless its row could not be written or it is a TIME_WAIT event *)
(* the file leaves out (main.go:70, "before forwarding to display").       *)
WrittenBeforeShown ==
  Output => \A e \in ToSet(shown) :
              e.key \in ToSet(file) \cup unwritten \/ (e.timeWait /\ ~ShowTimeWait)

(* The file is what the first n captured events make of it, for some n:    *)
(* their keys, without those of hidden TIME_WAIT events and those of rows  *)
(* that could not be written, which are not tried again, in the order of   *)
(* first sighting.  Of two rows the upper one was sighted when the lower   *)
(* one had not been, so no key has two rows (main.go:93-115).              *)
Counts(e) == ShowTimeWait \/ ~e.timeWait
SightedWithin(n) == {captured[i].key : i \in {j \in 1 .. n : Counts(captured[j])}}
FileIsFirstSightings ==
  \E n \in 0 .. Len(captured) :
    /\ ToSet(file) = SightedWithin(n) \ unwritten
    /\ \A i, j \in DOMAIN file :
         i < j => \E m \in 1 .. n : file[i] \in SightedWithin(m) /\ file[j] \notin SightedWithin(m)

(* An event taken from the capturer is shown, unless the context is        *)
(* cancelled or main gives up before the display has started: nothing gets *)
(* stuck or lost between the goroutines, also when the packets end.        *)
CapturedIsShown ==
  \A n \in 1 .. MaxEvents :
    Len(captured) >= n ~> (Len(shown) >= n \/ cancelled \/ display = "fatal")

(* A signal, or the end of the packets, ends the process, whatever is      *)
(* still in the hands of the goroutines.                                   *)
ShutdownCompletes == cancelled \/ capture = "closed" ~> ~Running
=============================================================================
