# WifiTool: a verification project

WifiTool is the set of factory test tools for the Wi-Fi chip of Asus Android
phones: a line operator's apps, native clients and root daemons that put the
chip in a test mode, transmit and receive test packets, and read results back.
This directory holds TLA+ models of its parts that have behaviour worth
checking, TLC configurations that check them on small instances, and theorems
about them proved with TLAPS. Paths below are relative to `src/`.

Contents: [parts of the system](#the-parts-of-the-system) ·
[modules](#the-modules) · [runs](#the-runs) · [findings](#findings) ·
[fairness](#fairness) · [proofs](#proofs) · [limits](#not-modelled) ·
[plan](#plan).

## The parts of the system

| part | state it keeps | operations | interacts with | what is hard | what makes it correct |
|---|---|---|---|---|---|
| **wifi_ftmd** (`libwifi_ftm/src/WifiFtmController.cpp`, `WifiFtmTest.cpp`, `WifiFtmd.cpp`) | the settings staged by SET, the datagram being processed; nothing persisted | START/STOP of FTM, TX, RX, SCW; SET of eight settings; REPORT of RX and BAND | datagram socket from clients, `ioctl` on wlan0, property `wifi.ftmd.reply` | a command is a sequence of ioctls of which any may be refused and between any two of which init may kill the daemon or a packet may arrive; refusals are only logged; driver and property outlive the daemon | a running transmission has the staged parameters; the packet count is of the current reception; an answer tells what was done |
| **FTM client library and JNI** (`libwifi_ftm/src/wifi_ftm.cpp`, `wifi_ftm_jni.cpp`) | `ctrl_socket` | StartTest, StopTest, commands, the two reports | init (`ctl.start`, `ctl.stop`, `init.svc`), the daemon | three bounded polls race init and the daemon; results are ignored; a descriptor's number is used after its close; a property polled for an answer is never cleared | calls return; StopTest stops; a report is the answer to its request; no other thread's descriptor is touched |
| **wifirftestd and WifiTest** (`wifirftestd/server.c`, `WifiTest/WifiTest.c`, `wifirfservice/init.wifirftest.rc`) | the connection served | accept, fork, run a script in a pipe, send back its last line | TCP on the loop-back, scripts, init | clients without timeout; the child outlives its parent; the end of the reply is the end of the connection; failures are only logged | one test drives the radio at a time; the verdict shown is the command's own; clients come back |
| **remote wl over Wi-Fi** (`wl/wl_4339/wlutil/exe/wlu_client_shared.c`, `wlu_pipe.c`) | fragments read so far, the number of tries | get, set, shell; search for a server | vendor action frames, the local driver's queue | frames lost, repeated, reordered; nothing in a response names its request; retry | a response is one response, whole, to this call; a success was executed; calls return |
| **WifiRfTest** (`WifiRfTest/src/com/example/wifirftest`: `MainActivity`, eight fragments for kinds of chips; `WifiSetup`, which names the kind) | the fields Start sends, up to twenty-three spinners, two toggles | choose, FTM on/off, Start/Stop, onStart | WifiTest commands; the main thread's queue | setting a selection in a callback calls callbacks after the next layout pass; taps while the thread is blocked; lists that differ from fragment to fragment under the same code | what the screen shows is what is sent; what was started can be stopped |
| **WLANTestMode** (`WLANTestMode/src`, `jni/wifitestmode.cpp`, `Script`) | one file per setting under the app's directory | screens write files, scripts read them, a report file is read back | JNI, `WifiManager`, scripts run by init | nothing waits for a script; a file that is missing shifts the positional arguments of the others; screens and library have lists of their own, addressed by position | the radio does what the screen showed at Start; Stop ends it; the report is of this reception |
| **search for a server** (`wlu_pipe.c`, from line 600) | the channel set, the tries, the length of waits | FIND_MY_PEER on each channel, FOUND_PEER back | vendor action frames, the local driver's queue | answers come late, several times, over neighbouring channels, from a server that has moved; every step can be refused | client and server end on one channel; a search that says it found has |
| **channel specifications** (`wl/wl_4339/shared/bcmwifi/src/bcmwifi_channels.c`, `wl_chanspec` in `wlu.c`) | the channel in the driver | type a channel as text or options, show it | the driver, in its own or the legacy format | fields of 16 bits put together by hand, in unsigned arithmetic, from numbers that are not checked | what is typed is tuned; what is shown can be typed; the conversions agree |
| remote wl over sockets, dongle and serial line (`wlu_client_shared.c`) | | byte streams | as remote wl | | |
| the other commands of `wl`, `WiFiMaxPower`, `iwpriv` | none between calls | tables, one ioctl per call | | | |

Two roles recur outside the repository and are modelled from how it uses them
(marked external): **init**, which starts and kills services, and **drivers and
the air**, which refuse ioctls, count packets, lose and repeat frames.

## The modules

| module | what it is | extends |
|---|---|---|
| `FtmDaemon` | the daemon, in an environment that may send, kill, restart and refuse anything | |
| `FtmSystem` | client library + init + that daemon | `FtmDaemon` |
| `RfTestd` | service, children, commands, clients | |
| `RwlWifi` | client calls, server, air | |
| `RemoteCall` | what a remote call promises, which `RwlWifi` implements | |
| `Fragments` | the eight screens of WifiRfTest, main thread, tester | |
| `TestMode` | the screens of WLANTestMode, its library, files, framework and scripts | |
| `FindServer` | a client's search, server, air | |
| `Chanspec` | channel texts, chanspecs, two driver formats, a session | |
| `FtmProofs` | the theorems of the daemon and of the system, with their proofs | `FtmSystem` |
| `RfTestdProofs`, `RwlWifiProofs`, `FragmentsProofs`, `TestModeProofs`, `FindServerProofs`, `ChanspecProofs` | the theorems of each, with their proofs | the module |
| `QueueLemmas` | what a queue of messages contains after an append, a concatenation or a removal, for the proofs about the apps' main threads | |
| `MC...` | values of the constants for TLC | |

A definition followed in a comment by `mutant` is a plausible bug put in place
of the definition below it. The models do not use them; each property is known
to fail with at least one of them.

### FtmDaemon

A command is a program: `TxProgram`, `StartRxProgram`, ... give the sequence of
ioctls of `WifiFtmTest` for the staged settings, `Receive` is `recvfrom` plus
`processMessage` (SET acts there and then), and `DoIoctl`, `DoProbe`, `DoGet`,
`DoReply`, `DoExit` execute one step each, `prog[pc]`. A refused ioctl is
logged and the sequence goes on, as in the code. `Kill` may happen between any
two steps; `Spawn` starts a new process whose `tx_rate` buffer was never
initialised (`GarbageRates`) while `drv` and `reply` keep what they had.
`drv` is the driver: the last accepted value of each request, and the packet
counter. Three things the code does are worth knowing when reading it:

- `reportBand` prepares two requests at `done:` that would restore channel and
  bonding, but never hands them to `ioctl`. A band search leaves the radio on
  channel 46 with the bonding of the last probe; the properties say so instead
  of promising more.
- `reportRx` does not look at the result of its ioctl. A refused request is
  answered with 3, the sub-command number still in the buffer.
- a channel from 36 up is set twice.

`armed`, `retuned`, `seen` and `failed` are history: what the properties need
to know of the past and the code does not keep.

### FtmSystem

One JNI call runs at a time; its steps are the places where the code waits or
where another actor's action can come between (`cpc`). The bounded polls (20
and 30 times 0.1 s for start and connect, 50 for an answer) are steps that
either find what they wait for or give up, at any moment: a poll that gives up
early is a slow peer. `fd` is the process's descriptor table with "other" for
those of other threads, because `wifi_ftmd_stop` closes `ctrl_socket` without
resetting it and a failed connect closes it likewise. `ctl` is init's queue of
control properties; `svc` is `init.svc.wifi_ftmd`. The repository has no `.rc`
entry for `wifi_ftmd`, so `OneShot` is a constant. init's short-lived
"stopping" state is collapsed into the step that kills.

### RfTestd

Each `WifiTest` run is a client `c`; its connection, the child that serves it
and the command are indexed by it. The parent's loop is bind, accept, fork,
**wait**, close. A child reads the line, opens the pipe, reads all the
output, sends the last line with its last character cut off, newline or not
(`RunStatus`), and waits for the command. The reply has no newline, so
`WifiTest` prints only when the connection is closed by all its holders
(`Open`), which is why the order in child and parent matters. `Kill` takes the
parent only; the child lives on until init, before it starts the service
again, kills the process group (`Restart`). `Bind` may fail and is only logged:
the service then listens on a port nobody knows, and clients fail to connect.

### RwlWifi and RemoteCall

A response of length `len` is cut by `remote_CDC_tx` into `Fragments(len)`;
`TakeFragment` is one turn of the loop of `remote_CDC_DATA_wifi_rx_frag`, and
`Check` and `Copied` what follows it. Every read waits at most a fixed time, so
it is `TakeFragment` or `GiveUp`. What a frame contains besides number and
length is left out; `exec` and `piece` on a frame are ghosts that say which
execution produced it, and properties compare them. The code uses the length it
read before any header has come (an uninitialised local), and looks at a
duplicate frame after freeing it: both are nondeterministic choices
(`ReadingFailed`, `Crash`). Loss is a frame or request that is never delivered.
The reply to a get or a set is one response, that to a shell command a sequence
of them, and each fits the list of fragments (`MenuAssumption`). A frame does
not say to which piece of a shell reply it belongs, so one reading may put
fragments of several together: what `StopsWhenWhole` and `OwnResponse` say of
content, they say of gets.
`RemoteCall` is the abstraction: a call begins, is executed any number of
times, also late, and returns; it may succeed only after an execution, unless
a stray frame excuses it. `RwlWifi` implements it with `executed <- Executed`
and `excused <- stale`.

### Fragments

`WifiSetup` and `Fragment` are the two tables from which the phone's chip and
country choose the screen, once. The main thread is a FIFO queue of messages.
`updateSettings` changes what is shown and the selections and requests a layout
pass; the pass (`Layout`) posts one notifier for every visible spinner whose
selection is not the one of its last pass, in the order in which the layout
holds them (`Notifiers`); a notifier calls `onItemSelected`
with what is selected by *then*. Choosing `Mode` thus runs `updateSettings`,
which sets bandwidth, whose notifier runs `updateSettings` again: in the
fragments with 802.11ac. Those without have one list for both bandwidths, and
their listener only shows or hides the sideband spinner (`ShowSideband`).
`Handle` is one message; click handlers block the thread, so taps may be queued
meanwhile (`early`). A hidden spinner keeps its position and what its last pass
found. The lists are cut to two entries, chosen so that entries that mean the
same or a different thing in another list are kept (34 and 36, 36 and 48, ...);
`EntriesOf` gives each fragment its own.

What holds with reservations, visible in the properties:

- `updateSettings` sets channel 36 where the list begins with 34, with 149, 151
  or 153 (the Indonesian lists) or with 42 (80 MHz on MTK): the screen then
  shows one channel and sends another until the tester chooses.
- switching FTM off and tapping Start before the screen has changed leaves a
  test that Start cannot stop.
- a return of the app during a test hides every control but FTM.

And two facts about the tables, which no property is about: a phone with MT6630
in Indonesia is given `MTKAcSisoFragment`, the Indonesian MTK fragment is never
reached; and number 2 has no fragment.

### TestMode

A screen's click handler is a sequence of steps (`StartHandler`,
`StopHandler`), each of which removes a file, writes one, or asks the framework
for a start or a stop; `HandlerStep` executes one. Between any two of them
`Dispatch` may look at the file `type` and start the script it names, and
`ScriptStep` may read one more file. Of the spinners, only those on the screen
(`Visible`) are laid out and report. `Argument` is what a shell makes of an
empty variable: the positional arguments behind it move up. `radio` is what the
last command made of the driver, and `asked` what the screen showed at the last
click. Writes may fail (they are not looked at), and the tester may be hasty;
`MaxTrouble` bounds both. The screens' listeners reset each other's spinners
with new adapters, which report again after a layout pass, as in `Fragments`;
the button is disabled in the click itself (`locked'` in `ClickStart`).

External: the framework behind `WifiManager` (looks at `type` once per request,
in order, does not start a service that runs), the driver (present), the
scripts' commands. N's ssid and address are taken as entered.

What holds with reservations: for HT40PLUS and VHT40PLUS the screens show the
list of 20 MHz channels while the library writes from the list of 40 MHz
channels, and it has no rates beyond those of 802.11n for VHT20 and VHT40PLUS:
a position beyond the list ends the app, or writes what lies there.

### FindServer

`Begin` to `Back` are the steps of `rwl_find_remote_wifi_server` for one try;
every step that calls the driver has a branch that fails and returns. `Respond`
and `SendCopy` are the server, which answers only what was sent on its own
channel but is heard on neighbouring ones (`Near`). `round` on a frame, `found`,
`noise` and `trouble` are history. Observations that the properties state:

- a frame that is no answer makes the read return 0. On the last channel
  nothing overwrites that, and the search says it has found a server
  (`ZeroMeansFound` excuses it with `noise`).
- an allocation or a request for the address that fails returns with
  `need_speedy_response` set, and later reads of other calls wait too short
  (`PatientAfterSearch` excuses it with `early`).
- a search that fails leaves the client on the last channel; `(error = ... < 0)`
  makes the error of the last step 1.

### Chanspec

A text is a record of its parts; `wf_chspec_aton` is its parser and
`wf_chspec_ntoa` the way back, `channel_to_sb` and its neighbours are the
arithmetic, with what unsigned and 8 bit types do to it. `Set`, `SetByOptions`
and `Show` are the three forms of `wl chanspec`, `DriverMoves` is any other
reason for the driver to change. The driver takes nothing that
`wf_chspec_valid` does not call valid, and may refuse for its own reasons.
`Slots` is the meaning against which all of it is compared: a chanspec is the
row of 20 MHz channels it takes up, one of which is the control channel.

What holds with reservations:

- `CHSPEC_CHAN2` is masked and not shifted, so that `wf_chspec_malformed`
  finds the second index of every 80+80 chanspec out of range: none can be
  typed, shown or valid, though `bcmwifi_channels.c:321` gives one as an
  example. (Behind it waits a static pointer that is never set back: of the
  80+80 texts of one session only the first would be read to its end.)
- numbers are not checked before they are put together: 2422 becomes channel
  120 at 40 MHz, 65572 becomes 36.
- `1/40` without a sideband and `36/40u` are refused.
- `wl_chspec_to_legacy` refuses 80 and 160 MHz.

## The runs

| run | bounds | shows |
|---|---|---|
| `ftm_daemon_tx` | one datagram queued; three refusable requests; two SETs, TX, RX, BAND | `TransmissionAsStaged`: a transmission none of whose ioctls failed keeps the staged parameters through restaging, refusals, kills and restarts, but for channel and bonding. `BandAnswerTellsTuning`: what a band answer says about the tuning |
| `ftm_daemon_rx` | two packets; RX, SCW, FTM, an unknown command; four refusable requests | `RxCountIsFresh`: with packets between any two ioctls, the counter holds exactly those of the current reception, and none after a stop |
| `ftm_system_safe` | two descriptors, queue of two, two reports, not oneshot | `StopTestEndsFtm`, `HoldsOwnSocket`, `FreshUnlessExcused`, and that the composition refines the daemon (`DaemonSpec`) |
| `ftm_system_live` | one descriptor, queue of one, oneshot | `CallsReturn`, `StopTestStopsService` |
| `rftestd` | three clients, backlog 1, one kill, three outputs | `OneTestAtATime`, `OverWhenShown`, `VerdictShown`, `ClientReturns` |
| `rwl_ioctl` | one call, up to three fragments, two tries, one repeated or odd frame, queue of three | `StopsWhenWhole`: a response that is not an exact multiple of the fragment size is left as soon as it is whole, and no fragment is missing from what a get copies. `CallReturns` |
| `rwl_calls` | two calls, two tries, responses of two fragments, no repeats | `OwnResponse`, `AtLeastOnce` (refinement of `RemoteCall`) |
| `fragments` | four chips, two countries (five screens); five taps, two of them hasty, one return of the app; modes b, n, a, ac | `ScreenTellsFields`, `StopsWhatRuns`, `Settles` |
| `test_mode` | four screens, bondings NOHT, HT20, VHT40PLUS, two choices, two clicks, one failed write or hasty act | `ScreenTellsFields`, `TestAsShown`, `NothingStale`, `ComesToRest` |
| `test_mode_report` | the reception screen, one choice, two clicks, nothing goes wrong | the [finding](#findings) |
| `find_server` | channels 1, 2 (which overlap) and 36, a server on one of them or on none; two searches of two tries, two copies, one move, one other frame | `MetOnServersChannel`, `ZeroMeansFound`, `FindsServer`, `PatientAfterSearch`, `SearchEnds` |
| `chanspec` | every valid chanspec, both formats; fifteen numbers with every band, width and sideband, 80+80 pairs | `ShownCanBeTyped`, `TypedIsTuned`, `ViewsAgree` |

The type invariant of a module is checked in one of its runs. Why the bounds
are enough, and what they leave out:

- **FtmDaemon.** A second datagram in the queue only delays `Receive`; queued
  commands matter to clients, so `FtmSystem` has two. `TxUsed` stages a value
  different from every default, on a channel that takes the longer sequence,
  and has both commands that overwrite it. Power stands for the five
  parameters treated like it. Two packets distinguish one missed from one too
  many.
- **FtmSystem.** Two descriptors let another thread get the number the library
  closed while the library gets another; with two reports the second can find
  the answer to the first. The live run has SET commands that fill the queue,
  so a send really blocks. It is oneshot because otherwise init
  restarts the service that STOP FTM made exit: a StopTest that looks while
  the service is "restarting" does not stop it, and the promise of
  `StopTestStopsService` is not one the code makes. The safe run has the
  restarts.
- **RfTestd.** Three clients: one served, one in the backlog, one trying. One
  kill at any point, so that a child of the old parent and a client of the new
  one can meet. The three outputs are nothing, a verdict after another line,
  and a verdict without newline.
- **RwlWifi.** `FragSize` 2 stands for 960 bytes (a length that is a multiple
  and one that is not, below, at and above one fragment), `FragCount` 3 or 4
  for 127, `Retry` 2 for 5. Queue and repeats are bounded because every
  further frame is one more of the same step.
- **Fragments.** Five taps are FTM, direction, mode, bandwidth and Start, in any
  order, or a start and stop with one choice between. The chips and countries
  are those of `BgnSiso`, `AbgnMimo`, `AcSiso`, `IDAcSiso` and `MTKAcSiso`; the
  other two screens that are reached have the same lists with or without the
  antenna. Mode g differs from b and a in lists only.
- **TestMode.** Two choices are a bonding and what depends on it; two clicks
  are Start and Stop, or two tests on two screens, so that files of the
  first are there for the second. The bondings are one of each kind: lists of
  their own, lists shared, lists that differ between screen and library.
- **FindServer.** Two overlapping channels and one apart let an answer come
  over the wrong channel, and be the last or not. Two searches let
  answers to the first come in the second.
- **Chanspec.** The chanspecs are complete, and [the theorems](#chanspec-1) are
  for all numbers. Those of the run are the ends of bands
  and lists, the legacy Japanese channel, the limit of `UPPER_20_SB`, and two
  that do not fit.

`CHECK_DEADLOCK FALSE` is set where the system may really stop: when all
clients are gone, all calls made, all taps used. The FTM models never stop.

## Findings

**`test_mode_report`**, a run that TLC finds violated. The screen for reception
tells the tester that the system will give the report
(`WLANTestModeReceive.java:170`), and the app reads the file `rxreport` right
after it has asked for the script that writes it. `rxstop.sh` has `0>rxreport`,
a redirection of standard input's descriptor, in place of `0 >rxreport`: the
file is emptied, and there is nothing to show.

Other places where a comment says more than the code does. The properties
state what the code does, with the excuse visible:

- `wifirftestd/server.c:143` calls the loop a concurrent server. The parent
  waits for its child (line 160), so a connection on which nothing is sent
  holds up all others. That the wait is there is also what makes
  `OneTestAtATime` true: the comment is wrong, not the wait.
- A shell response is read "until server stops sending"
  (`wlu_client_shared.c:1126`), yet the loop ends only on an empty piece
  (line 1146); if that piece is lost the client reads for ever.
- A response that fills its fragments exactly, listed as handled
  (`wlu_pipe.c:477`), is waited for one fragment beyond its last (line 462) and
  discarded: the excuse in `StopsWhenWhole`.
- "Check for missing frags" (`wlu_pipe.c:467`) leaves out the last one, which is
  copied through a null pointer when a late fragment of an earlier response was
  counted in its place (`Crash`).
- `bcmwifi_channels.c:321` gives an 80+80 text that no build accepts: see
  [Chanspec](#chanspec).

## Fairness

| module | assumed | because |
|---|---|---|
| `FtmSystem` | a call that has begun goes on (`InCall`) | every poll is counted; a blocked `send` is released when the queue moves or its peer dies |
| | the daemon processes what it received (`DaemonWork`) | its loop does not wait for anything but the socket; ioctls return |
| | init handles its queue, reaps and restarts (`Service`) | init's main loop |
| `RfTestd` | service, restart, each child, each client, each command | the scheduler runs every process that can run; the scripts are finite; init restarts `class main` services that are not oneshot. Nothing is assumed of kills or of interrupts |
| `RwlWifi` | the client goes on (`Client`) | every read has a timeout, purge reads until nothing is there. **Nothing** is assumed of air and server |
| `Fragments` | the main thread handles its messages (`Handle`) | the Looper. Nothing is assumed of the tester |
| `TestMode` | the main thread; the framework looks at its requests (`Dispatch`); every script goes on | the Looper; handlers of the framework's own thread; scripts are finite. Nothing is assumed of the tester |
| `FindServer` | the client goes on (`Client`) | every read is tried a fixed number of times with a fixed wait. Nothing is assumed of air and server |

`FtmDaemon!Spec` includes weak fairness of the daemon's work; no property of
it needs it.

## Proofs

Every safety property the passing runs check is a theorem, and so are the two
refinements. The theorems are for every value of the constants that satisfies
the named assumptions in the modules: any commands, refusable requests, chips,
countries, screens, bondings and lists of channels; any length of queues and
fragments; any number of clients, calls, taps, choices, tries, kills and
descriptors; any numbers typed as channels.

| module | theorem | property |
|---|---|---|
| `FtmProofs` | `TypeCorrect` | `TypeOK` |
| | `TransmissionKeepsSettings` | `TransmissionAsStaged` |
| | `ReceptionCountedFromStart` | `RxCountIsFresh` |
| | `BandAnswerIsTrue` | `BandAnswerTellsTuning` |
| | `SystemImplementsDaemon` | `DaemonSpec` (refinement) |
| | `SystemKeepsSettings`, `SystemReportsTruly` | the daemon's three, carried over |
| | `SystemTypeCorrect` | `SysTypeOK` |
| | `ConnectedSocketIsOwn` | `HoldsOwnSocket` |
| | `StopTestLeavesFtm` | `StopTestEndsFtm` |
| | `AnswersAreFresh` | `FreshUnlessExcused` |
| `RfTestdProofs` | `TypeCorrect` | `TypeOK` |
| | `NeverTwoTests` | `OneTestAtATime` |
| | `CommandOverWhenShown` | `OverWhenShown` |
| | `VerdictIsOwn` | `VerdictShown` |
| `RwlWifiProofs` | `TypeCorrect` | `TypeOK` |
| | `GetHasOwnResponse` | `OwnResponse` |
| | `ReaderStopsWhenWhole` | `StopsWhenWhole` |
| | `CallIsAtLeastOnce` | `AtLeastOnce` (refinement) |
| `FragmentsProofs` | `TypeCorrect` | `TypeOK` |
| | `ScreenTellsFieldsHolds` | `ScreenTellsFields` |
| | `StopsWhatRunsHolds` | `StopsWhatRuns` |
| `TestModeProofs` | `TypeCorrect` | `TypeOK` |
| | `ScreenIsTold` | `ScreenTellsFields` |
| | `TestRunsAsShown` | `TestAsShown` |
| | `NothingIsStale` | `NothingStale` |
| `FindServerProofs` | `TypeCorrect` | `TypeOK` |
| | `MeetsOnServersChannel` | `MetOnServersChannel` |
| | `ZeroIsFound` | `ZeroMeansFound` |
| | `ServerIsFound` | `FindsServer` |
| | `PatientAgain` | `PatientAfterSearch` |
| `ChanspecProofs` | `ChanspecStaysValid` | `TypeOK` |
| | `ShownCanBeTypedBack` | `ShownCanBeTyped` |
| | `TypedIsWhatIsTuned` | `TypedIsTuned` |
| | `AllViewsAgree` | `ViewsAgree` |

Each is proved in the same way: an inductive invariant, in named parts, holds
at the start and is kept by each action, with one lemma per action or group of
actions; it implies the property. Below, why the invariants say what they say.

### FtmDaemon

**Types.** `TypeOK` alone is not inductive: a band answer is written from
`prog[pc]`, whose argument must be a REPORT's, and the tag is `cur.val`, a
natural number only for a REPORT. `ReportSteps` says that probes, gets and
replies occur only in the program of a REPORT. `ReceiveType` shows
that every program `Receive` loads is a sequence of typed steps, from one lemma
per program.

**Transmission.** `TransmissionAsStaged` speaks of the moment the
generator runs; to get there one must know what has been set while the program
of a START TX was under way. `TxInv` says: while the command is START TX its
program is `TxProgram(staged)`; while nothing of it failed, every step already
executed that sets a key left that key's staged value in the driver, and the
generator is off between first and last step
(`TxProgress`); and when the generator is on with known settings, the driver
holds them but for what was retuned (`OnAir`). `TxProgramShape` gives what
is needed of the program: the first step switches the generator off, the last
switches it on, every key is set in between and to one value.
`OtherProgramsHarmless` gives that no other program sets a key other than
channel and bonding or switches the generator on. `TxIoctl` is the
step where these meet.

**Reception.** The counter is set to zero in the middle of START RX, with
packets arriving between any two steps. `RxInv` follows that program by its
position: once the reception is off it counts nothing (`RxStarting`,
`RxStopping`), so what is reset stays reset until it is on again; while it is on
and `seen` is known the counter is `seen` (`Counted`). `OtherProgramsQuiet`
gives that no other command touches either.

**Band.** The program of a REPORT BAND changes itself: an accepted probe replaces
it with an answer. `BandInv` says it is either still `Searching`, no
probe accepted, or `Tuned` to what the one step left will answer.

### FtmSystem

**Refinement.** The refinement mapping is the identity on the
daemon's variables. `StepSimulation` maps each step of the composition to a
step of `FtmDaemon` or a stutter: `SendOk` to `Send(msg)`, for which
`MsgInv` (what is sent is one of the commands `Used`) is needed; `HandleStart`
and `Restart` to `Spawn`, `HandleStop` to `Kill`. `DaemonSpec` is the
daemon's initial condition and next-state relation. The daemon's invariants
are thereby the composition's.

**Types and the socket.** `SysInv` adds the client's types (`ClientTypes`) and
what holds `HoldsOwnSocket` up: `OwnSocket`, that a connecting or sending call
has a descriptor open. `Lowest` chooses with `CHOOSE`, so `LowestIsMember` needs
that a set of descriptors is finite.

**StopTest.** `StopTestEndsFtm` promises something of the time after the call.
`StopInv` follows STOP FTM until it is executed: while the call is past its send and nothing
was `cut` off, it is the last datagram in the queue or the command about
to execute (`Undone`), or has been executed and nothing follows it (`LeftFtm`),
because the client is the only one who sends.

**Answers.** `SerialInv` orders the numbers of reports: nothing in a queue, in the
property or in the client's hands is of a later one. `FreshInv` is the heart:
while there was no excuse, every report under way has the number of
the last one sent, and when the client is not waiting and the property is empty
there is none, so that the next one cannot meet an earlier answer.

### RfTestd

**One test.** A command runs only under a child that reads from it
(`UnderChild`), and a child that is active is that of the connection the
service holds, which is waiting for it, or an orphan of a dead service that
has not been restarted (`OneChild`). The orphan is why the invariant mentions
`ppc = "dead"`: the property survives a kill only because init kills the
process group before it starts the service again.

**Answers.** `AnswerInv` says that a connection is queued, accepted and
served once (`Once`), ties each child's step to its command's state, output and
reply (`Answering`), and each client's to its child's (`Shown`): what it has
printed is the reply, and child and command are gone.

### RwlWifi

The reader counts the frames it takes, not the slots it fills, and that it
stops at the right number is what has to be shown. `Frames` and `Known` trace
every frame, in the air, in the queue and in the list, to a piece of a reply to
something executed. `Counted` relates the count to `Cardinality(Filled)`: it
is equal as long as nothing stray came in, so a full count is a full list
(`NoneMissing`), and `OfThisTry` says that what is queued and read then answers
this very try, so the list is of one response (`OneResponse`). The three cases of
a fragment that comes in (new, a duplicate, the first) are the lemmas
`Fragment` and `TakeFragmentKeeps`.

**Refinement.** `ClientRefines`, `AirRefines` and `CallRefines` map the steps to
those of `RemoteCall`: a call begins one, an execution executes one, the client's
last step returns. That a success was executed is `FreshIsExecuted`, from the
invariant.

### Fragments

The hazard is a notifier posted in one layout pass and handled after other
messages have changed what is shown. It then writes the field of a spinner that
is no longer there: the rate of 11b over the rate of 11ac, say. The code has no
guard against that, and the field is indeed wrong for a while. `Inv` says why it
does not stay wrong:

- `Passes`: a selection that is not the one of the last pass waits for the next
  one; if the tester chose it that pass is the next message.
- `Fresh`: what no pass has seen since the app came to the front has no notifier
  before direction and mode have theirs.
- `Kept`: the fields `updateSettings` does not set are those of the last pass, of
  now, or will be told. `Seen`: what is shown is the view of the fields.
- `Stale`: a notifier of a hidden spinner is harmless, because `updateSettings`
  has set the selection that replaces it to 0, and the last pass did not
  find 0 there, so that the next pass tells it again; or because direction, mode
  or bandwidth are to be told, which sets everything.
- `Repaired`: so every other field is right or about to be.

`UpdateKeeps` shows that once, for every caller of `updateSettings` whose state
is `Prepared` for it. `StopsWhatRuns` needs, besides, what may be in the queue
while a test runs and nobody has tapped too early (`Calm`).

### TestMode

**The screen.** As above, but simpler, as no notifier is of a hidden spinner:
a spinner whose field differs from its selection is seen by the next pass
or has a notifier waiting (`Reported`).

**From the click to the radio** (`Pipe`). A handler removes each file right before
it writes it and asks the framework after all of them (`Orderly`); so a file the
script will read has, or is still to get, a text that fits what was shown, or is empty
for a write that failed (`Promised`). A click that was not made in haste
is in one of four stages (`Stages`): `Handling`, one request waits (`Requested`),
one script runs and what it has read is what the files hold (`Running`), `Over`.
`TestAsShown` is the last stage without failed writes, `NothingStale` with them.

### FindServer

Answers come late and more than once, so `Told` gives each a date: one that is
no older than the server's last move tells where the server is. `Current` says that what a
purge left nothing behind of was queued in this try, `Ended` what a search
left behind. `Smooth` is for `FindsServer`: without
trouble no channel passed was the server's, and none is left while its
answer is under way.

### Chanspec

TLC goes through fifteen numbers; the theorems are for every number, every list
of pairs and every set of driver versions. `Inv` is `TypeOK`, `TypedIsTuned` and
`ShownIsHeld` (the last text shown is that of what the driver uses); it is
the arithmetic that takes the work, in five layers:

- **Bits.** `ComposeIsOf`: where fields fit their places the bitwise or is a sum
  (`Of`). `FieldsOf`: `CHSPEC_CHANNEL` and its neighbours take that apart again;
  `OfFields`: every chanspec is made of its fields. A channel of more than eight
  bits spills into the other fields; `OrRange` says only that sixteen remain.
- **Lists.** `SidebandIs` gives what `channel_to_sb` finds, with its unsigned
  wrap below the edge; `AroundOne` and `AroundOnly` that a control channel is
  under one centre of each width, the one a search down the list finds first.
- **Validity.** `MalformedIs` and `ValidIs` replace `wf_chspec_malformed` and
  `wf_chspec_valid` by fields (`Allowed`); no 80+80 chanspec is among them, as
  its second index is never shifted.
- **Texts.** `Found`: the parser finds the chanspec a text names, unless it is one
  of the two forms it refuses; `Taken`: what it finds for a number below 256 is
  the only one named; `PairsRefused`: no text with 80+80 is taken.
  `PrintedIsRead` is the round trip, `DriverBack` that of the driver's format.
- **Views.** `AllAgree`, one lemma per conversion.

Numbers of 256 and more are excused in `TypedIsTuned`, as the code does not check
them; that a chanspec made of one is nonetheless valid when the driver takes it is
`ChanspecStaysValid`.

### What is only model-checked

All liveness: `CallsReturn`, `StopTestStopsService`, `ClientReturns`,
`CallReturns`, `Settles`, `ComesToRest`, `SearchEnds`. Progress under fairness
needs ENABLED, which is beyond the prover. No module uses a RECURSIVE operator.

## Not modelled

- Time. Sleeps and poll counts are steps that may end at any moment, so what
  holds only thanks to a particular number of seconds is not claimed.
- Texts: parsing of command lines and formatting of datagrams, except where a
  conversion changes the meaning (the last character cut off a script's
  output, the list positions of a spinner).
- `FtmSystem`: two threads inside the library at once; the library has no lock
  and the JNI layer is called from one thread.
- `RwlWifi`: the `kill` and `async` variants of the shell command, and the
  other transports (byte streams without retry).
- `Fragments`: spinners that are never shown (`mPowerSpin`), the fixed antenna
  of the SISO screens, the click on the capture button (shows a count, changes
  nothing), exceptions that end the app. In `WifiSetup`, how a phone's
  properties name its chip and country.
- `TestMode`: the screens the menu does not offer, settings that no script
  reads, and the app's other classes (menus and dialogs).
- `FindServer`: two servers at once.
- `Chanspec`: blanks and signs in texts, repeated options, bandwidths below
  20 MHz (which no text names), and lists of chanspecs.
- The other commands of `wl`, `iwpriv`, `WiFiMaxPower`: one request or table
  lookup per call, no state between calls. Executables without source.

## Plan

In order of importance; all of it is done.

1. `FtmDaemon`, `FtmSystem` and their first theorems: the core of the newer
   tools, where several processes and a driver keep state.
2. `RfTestd` and its theorem: the service all the apps depend on.
3. `RwlWifi` and `RemoteCall`: the one protocol over an unreliable medium.
4. `Fragments`: the screens' callbacks, for every kind of chip.
5. `TestMode`: WLANTestMode's settings in files and the scripts that read them.
6. `FindServer`: the scan with FIND_MY_PEER and FOUND_PEER frames.
7. `Chanspec`: the one algorithm all of `wl`'s channel commands go through.
8. Proofs: every safety property of modules 1 to 7, and both refinements.
