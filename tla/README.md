# A verification development of netbrother

netbrother watches the TCP connections of a Linux host: a capture backend
turns the kernel's table into a stream of *new* and *closed* events, three
detectors attach alerts to the new ones, an optional writer saves connections
to a file, and a dashboard (TUI) or a log prints them.  This directory holds
TLA+ models of that program, model-checked with TLC, and proofs of their main
properties checked with TLAPS.

    tlasany M.tla                            parse a module
    tlc -workers 2 -config PollNetlink.cfg MCPollCapture.tla
    tlapm PollCapture_proofs.tla

`PROJECT.json` lists the runs, which definition models which lines, the
hazards with the properties that cover them, and the theorems.

## 1. Inventory

| part | source | state it keeps | operations |
|---|---|---|---|
| netlink backend | `internal/capture/capture_netlink.go` | `known` (connections by key), `inodePID` (cache) | `Start`, `poll`, `scanAndEmit`, `dumpTCP`, parsing |
| /proc backend | `internal/capture/capture_proc.go` | the same | the same, on `/proc/net/tcp` and `tcp6` |
| /proc reader | `internal/process/proc.go` | none | `ListTCPConnections`, `AllPIDsWithFds`, `HexToIP` |
| eBPF backend | `internal/capture/capture_ebpf.go`, `internal/capture/bpf/connect.c` | `known`, `inodeConn`, links, objects, reader; in the kernel `pid_by_inode` and the per-CPU rings | `Start`, `run`, `drainRingBuf`, `parseBPFEvent`, `syncProc`, three traced functions |
| pcap backend | `internal/capture/capture_pcap.go` | none | `Start`, `processPacket`: one event per TCP packet (FIN or RST: closed, anything else: new), dropped when nobody waits for it |
| choice of backend | `internal/capture/capture.go` | none | `New`, `AvailableBackends` |
| periodic detector | `internal/detect/periodic.go` | `history`, `alerted` | `Analyze`, `prune`, `Reset` |
| novelty detector | `internal/detect/novelty.go` | `seenProcesses`, `seenConnections` | `Analyze`, `Reset` |
| suspicious detector | `internal/detect/suspicious.go` | static rules | `Analyze` |
| orchestrator | `internal/detect/detector.go` | the three above | `Analyze`, `Reset` |
| pipeline | `cmd/netbrother/main.go` | two goroutines, channels, `written`, the file | start, receive, analyse, write, forward, shut down |
| log display | `internal/display/log.go` | none | `Start`, `renderEvent` |
| TUI table | `internal/display/tui.go` | `connections`, `alerts`, `showTimeWait` | `handleEvent`, toggle, `filteredConnections` |
| TUI loop | `internal/display/tui.go` | `filterMode`, `filterBuf`, `done`, `showAlerts`, `scroll` | `Start`, `handleCommand`, `handleFilterInput` |
| TUI keyboard | `internal/display/tui.go` | `inputCh`, a helper goroutine and its channel per ESC | `readInput` |
| configuration | `internal/config/config.go` | none | `ParseFlags`, conversions |

How they interact.  The backend's goroutine sends on an unbuffered channel;
main's analysing goroutine receives, calls `Orchestrator.Analyze`, and sends on
a second one; with `-output` a writing goroutine sits in between and sends on a
third; `displayer.Start` receives in main's own goroutine.  Every send is a
select with `ctx.Done()`; every goroutine closes its channel when it returns.
The kernel and the processes under observation move at any time.

What is hard.

* A scan reads the TCP table and then walks the descriptors: rows and PIDs are
  of different moments.  Several processes may hold one socket, and the winner
  is the last in the iteration order of a Go map.  The PID is part of the key.
* `known` is updated for a whole scan before the first of its events is sent.
* Part of a scan may fail: one address family, or the walk.
* With eBPF two writers feed the same two maps: samples, which may be lost, late
  or without an inode, and a periodic scan of /proc.
* `Start` acquires kernel objects one after the other and may fail at each.
* The cancellation may come between any two steps of any goroutine.
* The table is matched by key only, is bounded, and skips hidden events.  A
  row's mark depends on a second bounded list, and one event may bring several
  alerts.
* The dashboard is one loop over six channels, with a second loop inside for
  the filter prompt that looks at keys alone.
* A `Read` of the terminal cannot be given up: helpers outlive their timeout and
  compete for the next keys.
* The periodic detector prunes incrementally, and scans give many connections
  the same timestamp.

What makes each part correct: the backend's events alternate, key by key, and
agree with `known` (PollCapture); a PID names a holder of the socket; what is
reported closed has gone; the eBPF backend's maps fit together, syncProc repairs
what samples leave, and nothing stays loaded (BpfCapture); the pipeline neither
reorders nor repeats, and writes first (Pipeline); the table is the newest open
connections, and the marks are those of the latest alerts (TuiRows); a signal
or `q` ends the display (TuiLoop); keys arrive in their order (TuiInput); the
incremental detector decides as a rule on the whole log would (Periodic); each
process and each connection is announced once, and alerts about one destination
are a cooldown apart (Detect).

## 2. Modules

| module | what it is | code |
|---|---|---|
| `Sockets` | the kernel's table and the holders of its sockets; environment | external |
| `TcpView` | what a backend can read of the table; connections and keys | `proc.go`, `types.go` |
| `ConnFeed` | abstract: what a backend promises its consumer | `capture.Capturer` |
| `PollCapture` | both polling backends; implements `ConnFeed` | `capture_netlink.go`, `capture_proc.go` |
| `BpfCapture` | the eBPF backend and its programs; `syncProc` implements `ConnFeed` | `capture_ebpf.go`, `connect.c` |
| `TuiRows` | the table of the dashboard, fed by `ConnFeed` | `tui.go` |
| `BeaconRule` | abstract: when a beacon alert is due, on the whole log | `detector.go`, README |
| `Periodic` | the incremental detector; implements `BeaconRule` | `periodic.go` |
| `Detect` | the orchestrator over the three detectors | `internal/detect` |
| `System` | a polling backend and the periodic detector composed | `main.go` |
| `Pipeline` | main: choice of a backend, goroutines and channels, pcap, the log display | `main.go`, `capture.go`, `capture_pcap.go`, `log.go` |
| `TuiLoop` | the dashboard's event loop | `tui.go` |
| `TuiInput` | the keyboard's goroutines, from bytes to runes | `tui.go` |
| `PollCapture_proofs`, `BpfCapture_proofs`, `Pipeline_proofs`, `TuiRows_proofs`, `TuiLoop_proofs`, `TuiInput_proofs`, `Detect_proofs` | theorems about the module of that name (`Detect_proofs`: also `Periodic`) | |
| `Lists_proofs` | lemmas about sequences and finite sets that those share | |
| `MC...` | the constants of the small instances | |

`PollCapture` and `BpfCapture` extend `TcpView`, which extends `Sockets`, so the
two see the same kernel.  Both meet `TuiRows` in `ConnFeed`: the first two are
shown to implement it, the last takes its actions as its input.  `Pipeline`
shows that what lies between them hands the stream on without a gap, a
repetition or a change of order.  `Detect` extends `Periodic`; `System` extends
`PollCapture` and instantiates `Periodic`, with a scan's time as the time of
the calls of `Analyze`.  `TuiInput` fills the channel that `TuiLoop` empties.

Definitions named `...` + what a mutant does (`AddNewEarlyKey`,
`StopBreaks`) and commented "Mutant:" are *not* part of the models.  Each is a
plausible mistake in one definition; putting it in place of that definition
must make a named property fail, which shows that the property speaks about
that code.

### PollCapture

`pc` is the place in `scanAndEmit`: *idle* (poll's select), *dumped* (the table
is in `rows`), *sendNew* and *sendClosed* (the two loops of sends), *closed*.
`DumpTCP` takes the kernel's table at one moment; `ResolvePIDs` takes the
holders at a later one, for every choice the map order could make
(`LiveInodePID`), merges the cache, and updates `known` and `currentKeys`;
`SendNew` and `SendClosed` hand over one event each; `DetectClosed` is the loop
over `known`.  `AbortSend` is a send that chose `ctx.Done`.  `Backend` selects:
netlink goes on after a failed walk (`ResolveWithoutPIDs`), /proc gives up the
scan (`AbandonScan`); /proc turns an IPv6 address into nil, so only the ports
remain in the key (`AddrText`).  `balance` is a history variable: new minus
closed events received for each key before the cancellation.

### BpfCapture

`pc` runs through `Start` (*load* ... *newReader*, each with its error path
`GiveUp`) and `run` (*detach*, then the loop *top*, *drain*, *tick*, *sync* ...,
then the deferred calls up to *done*).  `CloseLink` is the loop that closes the
links before the main loop begins, because its calls are not deferred; the
programs therefore trace only what happens until then, and the rings keep those
samples.  `Connect`, `Accept` and `CloseDescriptor` are a change of the
kernel's table with the program that traces it: `Output` picks a processor and
drops the sample if its ring is full or nobody reads yet; an accepted socket
may have no file, and then its sample has inode 0.  `ReadSample` is
`drainRingBuf` with `parseBPFEvent`, `SyncRow` and `SyncClosed` are the two
loops of `syncProc`, which change `known` row by row and send in between.  A
send that is cancelled leaves the mutex locked (`muHeld`), and every step that
locks it waits for it.  `connected`, `sampled` and `balance` are history.

### TuiRows

`HandleNew` and `HandleClosed` are the two cases of `handleEvent`, with the
early return for hidden TIME_WAIT events, the trimming to `MaxConns` and
`MaxAlerts`, and the search for the first row with the key.  The event of a new
connection brings any number of alerts up to `EventAlerts`: novelty gives one
for the process and one for the connection, the static rules one for the port
and one for the address, the periodic detector one.  All of them name the
event's connection, so an alert is a key here.  `keep` is the flag, chosen at
the start; `arrivals` is history, and so is `newer`, which counts for each key
the alerts that came after its latest one.  The order on the screen and the
filter text select rows and change none.

### Periodic, BeaconRule and Detect

`Analyze` appends, prunes, tests and records, as one step: only the analysing
goroutine calls it.  The loops of `prune` and over the intervals keep some
elements of a slice in order; both are `Keep`.  The floating-point test `stddev/mean <= maxCV` is the
integer test `CvDen^2 (n SUM d^2 - S^2) <= CvNum^2 S^2`, so rounding is not
modelled.  `BeaconRule` says of the complete log when an alert is due, with the
variance as a sum over pairs of gaps; nothing in it is incremental.  `Detect`
adds the two other detectors and a log of the alerts.

### System

`ScanBegins` is the dump and the tick of the clock, `NewIsAnalysed` a `SendNew`
with the `Analyze` it leads to; all other steps are the backend's or the
kernel's alone.  `opens` counts the sockets made towards a remote end.

### Pipeline

`display` is main's own place: *new*, *start* and *create* are `capture.New`
with `display.New`, `capturer.Start` and the creation of the file, each of
which may end in *fatal* (`log.Fatalf`); then it is `displayer.Start`.
`ChooseBackend` takes the first of `pcap, ebpf, netlink, proc` that is built
and found to work.  One variable per goroutine for where it is and one for the
event in its hands; a send and its receive are one step.  `WriteRow` remembers
the key before it prints the row, and the error of `Fprintf` is ignored, so a
row may be lost for good (`PrintRow`); `unwritten` is the history of those keys.
With pcap, a packet's event is dropped
when nobody waits for it, and the source may end (`PacketsEnd`).  `GiveUpOffer`
lets the capturer drop an
event after the cancellation and go on, as the eBPF and the polling backends
may.  `Running` becomes false when `displayer.Start` returns, whatever the
others are doing.

### TuiLoop

One action per case of the select in `Start` and of the switches in
`handleCommand` and `handleFilterInput`.  A panic is a value of `outcome`, and
so is a terminal without raw mode, with which `Start` returns at once.  The
events may end with the cancellation or, with pcap, without one.

### TuiInput

A byte carries its number, a rune is the sequence of its bytes.  `ReadByte`
starts a helper for each ESC; `TakeNext` and `TakeDir` receive from the latest
helper, `TimeOut` leaves it to itself, and `HelperReads` lets any helper that
still owes a `Read` take the next byte in the place of the reader.

## 3. Runs

The passing runs together take a few minutes.

| run | instance | what it shows |
|---|---|---|
| `PollNetlink` | netlink, 1 address, 2 inodes, 2 processes; walks may fail | `known` and the consumer agree; PIDs belong to holders; closed means gone; no gap when a key changes; the stream implements `ConnFeed` |
| `PollLive` | /proc, 2 IPv6 addresses with one pair of ports, 1 inode that is reused, 2 processes (one hidden); walks fail; fairness | the stream implements `ConnFeed`; the channel is closed; what stays is shown; what goes leaves |
| `Bpf` | eBPF, 1 address, 1 inode that is reused, 1 process, 2 processors with a ring of 1 sample; `Start` and walks fail; fairness | the two maps fit together; nothing leaks; `syncProc` implements `ConnFeed`; a cancellation releases everything; `syncProc` repairs what samples leave |
| `Rows` | 4 keys, 3 rows, 3 alerts, up to 2 of them with one event, `-keep` and `-show-time-wait` on or off | the table is the newest open connections; rows are lost to newer ones of a full table only; a row is marked exactly while fewer than 3 alerts are newer than the latest one of its connection |
| `Detect` | 4 connections, 5 events, window 4, cooldown 2, 5 time units | decides as `BeaconRule`; the kept history is the window; beacons alert; once per process and per connection; cooldown |
| `Pipe` | pcap or netlink, 2 keys, 4 events, with and without `-output`, rows that cannot be written, fairness | prefix; written first; the file lists first sightings; nothing stuck; a signal or the end of the packets ends the process |
| `TuiKeys` | 3 keys pressed out of 8 kinds, heights 3 and 24, fairness | signals, `q` and keys are served |
| `TuiInput` | 5 bytes of 4 kinds, `inputCh` of 1, fairness | order kept, losses accounted for, no byte waits for another |

The bounds.  The polling backends treat keys independently but for three
things: rows that share a key (two IPv6 addresses with one pair of ports), one
address that appears under two keys (two processes, or TIME_WAIT), and an inode
that wanders to another socket (reuse).  Two addresses, inodes and processes,
not all at once, produce each of them; the theorems of section 5 then hold for
any number.  What is hard in the eBPF backend happens to one connection: its
samples in the wrong order (two processors), without an inode, lost (a ring of
one), or of an earlier socket with the same inode number.  The theorems about
its safety hold for any number again.  The table needs one key more than rows to overflow, and with
`-keep` three rows to hold two rows of one key beside another.  A list of three
alerts can be one short of full when an event brings two.  The detector's
window and cooldown are both shorter than its clock, so that pruning, the
cooldown and its end all occur within five events, two more than
`MinSamples`.  Two keys and four events let the writer meet a repeated
key, a hidden TIME_WAIT one and the shutdown in any order; pcap stands for the
backends that drop and may fail to start, netlink for those that wait.  Three keys reach
every change of mode and back, and fill the filter text.  Five bytes hold an
abandoned ESC, whose helper still owes two reads, and a whole arrow key behind
it, and `inputCh` of one is full when it has to be.  The bounds
`MaxClock`, `MaxLog`, `MaxEvents`, `MaxKeys`, `MaxBytes` and `FilterMax` are in the actions
that count towards them and nowhere else.  Flags that never change during a
run (`keep`, `-output`) are chosen in `Init` or by the first action instead of
by a constant, so that one run covers both values.

Deadlock is checked everywhere but where the model itself ends:
`PollNetlink` and `SystemFlap`, where inode numbers are not reused and have run out
when the channel is closed, and `TuiInput`, where all bytes are typed and all
are handled.

### Runs that end in a violation

Each checks one sentence of a comment or of the README against the code.

| run | what happens |
|---|---|
| `BpfHidden` | the links are closed before the loop begins, so no PID comes from the kernel, and a process that /proc hides is not found |
| `SystemFlap` | one socket with two holders is announced as new at scan after scan, and raises the alert for beacons |
| `RowsKeepStale` | with `-keep`, a second close marks the first row again |
| `TuiDoubleQuit` | `q` twice closes a closed channel: the program ends with a stack trace (the terminal is still restored, by the deferred call) |

### Other divergences seen while modelling

The models contain these behaviours; no run is spent on them.

* `types.go:81`: the key contains the PID, so a socket with two holders is
  known under two keys from the moment the winner changes until the scan ends.
* `capture_netlink.go:145`: the cache is never evicted, so a reused inode can be
  attributed to the old process.  `AttributedToHolder` has the premise
  `~InodeReuse`: it speaks of walks and caches while every number means one
  socket, and says nothing where the code is known to be wrong.
* `capture_proc.go:23` wants the cache to survive TIME_WAIT, but a TIME_WAIT row
  has inode 0, so its PID is lost and the key changes.
* `capture_netlink.go:243`: when one family's dump fails, its open connections
  are reported closed and come back as new (`ClosedMeansGone` has the premise
  `~DumpMayFail` in its theorem).
* PID 0 is a key like another: connections of unknown processes to one remote
  end share a history in the periodic detector.
* `capture.go:66`, "Falls back gracefully": only constructors are tried, and the
  eBPF and pcap backends fail in `Start`, where main gives up.
* README.md:21 of the repository names the order eBPF, netlink, /proc; `capture.go` tries pcap first.
* `capture_ebpf.go:382`: a sample for a connection that is known, or a close for
  one that is not, is sent all the same, so that samples break the alternation
  of new and closed (`ImplementsFeed` is up to the first sample).
* `capture_ebpf.go`: what `pid_by_inode` held when the links were closed beats
  /proc from then on, also for a reused inode.
* `capture_ebpf.go:271`: a cancelled send returns with the mutex locked.  Nothing
  locks it again (`CancelReleases`).
* `capture_pcap.go`: each TCP packet that is no FIN or RST is a new connection.
* README.md:37: `-rate` is parsed and reaches no backend; the interval is 1 s.
* `config.go:87`: `-bad-ports` replaces the default ports, which README.md:41 says
  it extends.
* `config.go:112`: a window below one second becomes 0, which the detector takes
  for the default of 300 s.
* `tui.go:140`: a key typed after an ESC may be swallowed (README.md:79 and 85
  promise commands and the prompt's ESC).
* `tui.go:330`: `t` cannot show the TIME_WAIT connections that arrived while
  they were hidden, and their alerts are dropped with them.
* `main.go:70` speaks of all events; the file gets the first sighting of each
  key only (`FileIsFirstSightings` says what it gets).
* `log.go`: the log display ignores `-show-time-wait` (README.md:39 of the
  repository).
* `tui.go:211`: `q` followed by `/` may open the filter prompt instead of
  ending, and while the prompt is open no event is taken (`tui.go:212`).
* `tui.go:529`: on a terminal of three lines or less the alert panel is sliced
  with a negative count; in `TuiLoop` this is the outcome "slice panic".

## 4. Fairness

Goroutines are scheduled, so each of their steps is weakly fair.  A Go select
with several ready cases picks one at random, so a case that is ready again and
again is taken some time: `Stop` in `PollCapture` and the cases of the select in
`TuiLoop` are strongly fair.  In `Pipeline` the cancellation is never
withdrawn, so weak fairness is enough; neither signals nor the end of the packets
are forced.  `BpfCapture`: `Start` and `run` are one goroutine after the other
(`WF(Start \/ Run)`), and a ticker polled again and again is found to have fired
(`SF(ListTCP)`).  `TuiInput`: the reader and the loop are scheduled and 50 ms
pass; no helper is assumed to get a byte.  A walk over `/proc` may fail any finite
number of times in a row (`SF(ResolvePIDs)`); in the liveness runs dumps do not
fail.  Nothing is assumed of the kernel, of the user or of signals.  `SignalExits`
and `QuitExits` in `TuiLoop` have the premise that the filter prompt is left
again and again, because an open prompt looks at keys alone.

## 5. Proofs

Everything below is proved by `tlapm` for every value of the constants that
satisfies the named assumptions: `InodeAssumption`, `PidAssumption`,
`ReuseAssumption` (`Sockets`), `ViewAssumption` (`TcpView`),
`BackendAssumption` (`PollCapture`), `RingAssumption` (`BpfCapture`),
`PipelineAssumption` (`Pipeline`), `TableAssumption` (`TuiRows`: lists of at
least one element), `InputAssumption` (`TuiInput`: a channel of at least one),
`ConfigAssumption` (`Periodic`: integers, and thresholds that are multiples of
a quarter over one denominator), `ConnAssumption` and `KeyAssumption`
(`Detect`: the destinations of the connections are among `BeaconKey`).  Each
inductive invariant was checked by TLC on the instance of section 3 before it
was proved.

`PollCapture_proofs`.  The invariant `Inv` adds to `TypeOK` what the events in
flight account for.  `ViewMatchesKnown` speaks of `pc = "idle"` only, so by
itself it is not inductive: in the middle of a scan the consumer differs from
`known` by exactly the connections in `pendNew` (known, not yet announced) and
`pendClosed` (announced, no longer known), and the keys in those two sets are
pairwise different.  With that: `TypeCorrect` (`TypeOK`), `ViewCorrect`
(`ViewMatchesKnown`), `NoGap` (`NoGapOnRekey`) and `FeedRefinement`
(`ImplementsFeed`: each `SendNew` before the cancellation is an `Announce`, each
`SendClosed` a `Retire`, `Cancel` is `Stop`, all else stutters).

`PollCapture_proofs`, second part, on what the backend says of the kernel.  The
lemma `KernelSane` gives what the environment promises: no two entries of the
table share an inode and each holder is recorded in `held`.  `AttributionCorrect`: if inode numbers
are not reused, `held` only grows, so a PID that was right when a walk found it
or when the cache stored it stays right.  `ClosedCorrect` assumes
`~InodeReuse` and `~DumpMayFail`, and needs an invariant that follows an inode
from the dump to `pendClosed`: one that is not in the table at the dump, or
whose address was not among the rows, never comes back to life.

`BpfCapture_proofs`.  The kernel keeps its types and a socket with a holder has
an inode (`KernelTypes`, `HeldInodes`).  `Released` (`NothingLeaked`): what is attached, loaded and
open follows from `pc` (`Resources`).  `IndexSound` (`InodeConnSound`) is
inductive as it stands, because both writers remember and forget in the two
maps together; `ParseClose` needs it to know that it removes the connection
that the inode leads to.  `TypeCorrect` (`TypeOK`) from `TypeInv`, which says
at which `pc` the entries of `rowsLeft` are rows and at which connections.
`FeedRefinement` (`ImplementsFeed`) from `Accounted`: until a sample is read or
the context is done, `balance` is 1 for exactly the keys that are known and
announced; at most one event is in flight (`AtMostOne`).

`Lists_proofs`.  The library's induction theorems take an operator as a
parameter, which the installed provers cannot instantiate.  `LeastElement` and
`NaturalsFollow` say what is needed of them with sets: a set of naturals that
holds 0 and the successors of its elements holds all naturals.  `LoopExists`
derives that a loop written as a recursive function over `0 .. n` is defined,
`Runs` and the lemmas on `FlattenSeq`, `RemoveAt`, `Reverse` and `IsSuffix`
follow the slices of the code position by position.  For finite sets:
`SubsetsFollow` (what holds of the empty set and passes from a set to the set
with one more element holds of every finite set), sums (`IsSum`, `SumExists`),
and `LagrangeStep`, the step of n * SUM d^2 = (SUM d)^2 + SUM over pairs of
(d_i - d_j)^2 when one d is added.

`Pipeline_proofs`.  `PrefixCorrect` (`ShownIsPrefix`) from the invariant that
the captured events are, position by position, those shown, then the one in the
writer's hands, then the one in the analyser's hands, up to the first goroutine
that has returned.  `TypeCorrect` (`TypeOK`) needs `ControlOK`, which says who
holds an event.  `FileCorrect` (`FileIsFirstSightings`): the property says that
*some* n will do, which is not inductive; the invariant `FileInv` ties it to the
writer: `Len(shown)`, or one more between the row and its send.  It also says
that a key which is remembered has its row in the file or in `unwritten`, so
that no key gets a second row.  `WrittenFirst`
(`WrittenBeforeShown`) follows from the two accounts together.

`TuiRows_proofs`.  `RowsInv`: a key is announced only after it was closed
(`FeedOK`), so the open keys that got a row (`ArrivalsOpen`) are pairwise
different, and without `-keep` row i from the end is the i-th of them from the
end (`RowsAligned`).  The row that an `EventConnectionClosed` finds by its key
is then the only one.  `RowsCorrect` (`RowsAreNewestOpen`), `TypeCorrect`
(`TypeOK`), and the action property `RowsLostCorrect` (`RowsLostOnlyWhenFull`,
with `-keep` too).  `MarkCorrect` (`MarkIsRecentAlert`) is not inductive, since
it does not say where in the list an alert is; `MarksOK` does: `newer[k]` is the
distance of the last alert of `k` from the end.  The n alerts of an event move
every older one by n places (`AlertsStep`), and what has moved by `MaxAlerts` has
fallen off.

`TuiInput_proofs`.  `InputInv`: everything handled and on its way, from the
loop's list back to the terminal's queue, is one sequence of rising numbers
that, with what helpers swallowed, has each number once (`Accounted`), and `pc`
says what `sequence` and `sending` hold (`PcOK`).  Each step leaves the
sequence as it is although bytes change hands, adds the byte typed, or cuts out
what an abandoned helper takes.  `TypeCorrect` (`TypeOK`), `InputCorrect`
(`InputAccounted`).

`Detect_proofs`.  `Periodic` first: `WindowCorrect` (`HistoryIsWindow`) because
pruning what was pruned at an earlier time loses nothing more than pruning all
(`KeepTwice`: time does not run backwards, `LogInPast`); `BeaconsCorrect`
(`BeaconsAlert`) because equal gaps have no variance (`SumEqual`, `NoVariance`)
and so pass every threshold; `TypeCorrect` (`TypeOK`).  They hold for
`DetectSpec`, whose steps are steps of `Periodic` (`DetectPeriodic`).  Then
`Detect`, with the invariant `DetectInv`: the novelty detector's maps are the
set of what was analysed (`SeenOK`), its alerts belong to first events
(`AtFirst`), none is repeated (`NoTwice`) or missing (`Announced`); and
`alerted` is not before any periodic alert of its destination (`LatestKept`)
nor after now (`AlertedInPast`).  `AnnouncedCorrect` (`AnnouncedOnce`),
`CooldownCorrect` (`CooldownHeld`).

`BeaconRuleImplemented` (`ImplementsBeaconRule`): every call of `Analyze` is a
step of the rule, which knows the whole log and no history.  The two compute
differently: the code a variance, from running sums over a list of gaps; the
rule a sum of squared differences over the pairs of a set of log entries.
The invariant `LogSorted` (the kept log is in the order of time) makes the gaps
of the list the neighbour distances of the set (`NeighbourGap`,
`LaterHasNeighbour`); `SpreadOfGaps`, by induction over the prefixes of the
list with Lagrange's identity, makes the two sums equal; `RegularMeans` and
`DueMeans` turn that into equality of the decisions, the cooldown included.

`TuiLoop_proofs`.  `TypeCorrect` (`TypeOK`).  `PanicsCorrect`: the loop panics
only on a second `q` taken before `t.done` (the run `TuiDoubleQuit` shows that
it can), or when it draws the alert panel on a terminal of three lines or less.
The invariant is `QuitsOK` (`t.done` is closed exactly when a `q` was handled,
and a loop that still runs has handled at most one) with `PanelOK` (the panel
and the height that made `render` panic are still what they were).

Model-checked only: all liveness, which is out of TLAPS's reach.

## 6. Not modelled, and the plan

Theorems still worth having: that `System` keeps the promises of the modules
it composes.

Not modelled, and why:

* Generated eBPF bindings (`connect_bpfeb.go`, `connect_bpfel.go`): tables of
  names and a loader; what the rest of the code sees of them is that loading
  succeeds or fails (`LoadObjects`).
* Parsing of flags (`internal/config/config.go`): a straight line that runs once
  before anything else.  What it can get wrong is a conversion of one value,
  listed above.
* The bytes of netlink messages and of packets: the kernel aligns its messages,
  and a library decodes packets.  What a dump returns, with a family that fails,
  is `RowsOf`; what a packet leads to is `Offer`.
* `ProcessName`, `ProcessExePath`, `ResolvePIDByInode` (`internal/process/proc.go`):
  they read /proc, and nothing decides on what they return.
* Columns, colours, sorting, the text of the filter and the scroll position: they
  select and lay out rows on the screen and change none.
* Floating-point rounding in the periodic detector, and memory use.
