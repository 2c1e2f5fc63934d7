------------------------------ MODULE TestMode ------------------------------
(* WLANTestMode: an app whose screens keep settings as positions in lists,  *)
(* write them on Start as texts to files (wifitestmode.cpp), and ask the    *)
(* framework to have a script run, which it chooses by the file "type"; the *)
(* script reads the other files and hands them to the driver as positional  *)
(* arguments.  Stop asks for another script.  Nothing waits for a script.   *)
(*                                                                          *)
(* Lists are cut to two or three entries; which is longer than which, and   *)
(* which differ, is kept.  Left out: the packet length, treated like the    *)
(* power; "power_cntl" and the second gain, which no script reads; the      *)
(* screen for the unmodulated carrier, which the menu does not offer.       *)
EXTENDS Integers, Sequences, SequencesExt

CONSTANTS Screens,      \* the screens the tester opens
          Bondings,     \* the entries of channel_bonding he uses
          MaxChoices, MaxClicks,  \* bounds: choices, clicks on Start and Stop
          MaxTrouble    \* bound: acts of the tester before his last click has
                        \* taken effect, and writes of files that fail

ASSUME ScreensAssumption == Screens \subseteq {"BG", "N", "Receive", "Wave"}
ASSUME BondingsAssumption == Bondings \subseteq 0..6 /\ 0 \in Bondings
ASSUME BoundsAssumption ==
    {MaxChoices, MaxClicks, MaxTrouble} \subseteq Nat

VARIABLES
    screen,    \* the activity in front, or "menu"
    field,     \* spinner -> spinner_..._pos
    sel, old,  \* spinner -> its selection, the one its last layout pass found
    queue,     \* of the main thread: layout passes and notifiers
    locked,    \* mStartBtn is disabled
    click,     \* what the click handler in progress has still to do
    display,   \* the text of rxport
    files, requests,        \* under /data/wl; to the framework, not yet looked at
    todo, got,              \* script -> its steps still to come, what it has read
    radio,
    \* history
    asked,     \* what the screen showed at the last click on Start, off after Stop;
               \* and its bonding
    failed,    \* files a write of which failed in the last click
    hasty,     \* the last click, or leaving the screen, was before its time
    choices, clicks, trouble

screenVars == <<screen, field, sel, old, queue, locked>>
scriptVars == <<requests, todo, got, radio>>
boundVars == <<hasty, choices, clicks, trouble>>
vars == <<screenVars, click, display, files, scriptVars, asked, failed, boundVars>>

-----------------------------------------------------------------------------
(* The lists: what the screens show and what the library writes, by         *)
(* position in channel_bonding (NOHT, HT20, HT40PLUS, CCK, VHT20,           *)
(* VHT40PLUS, VHT80).                                                       *)
Channels24G == <<"1", "2">>
Channels20M == <<"1", "2", "36">>
Channels40M == <<"3", "38">>
Channels80M == <<"42", "46">>

ChannelsShown(b) == IF b \in {0, 3} THEN Channels24G
                    ELSE IF b = 6 THEN Channels80M ELSE Channels20M
ChannelsWritten(b) == IF b \in {0, 3} THEN Channels24G
                      ELSE IF b \in {1, 4} THEN Channels20M
                      ELSE IF b = 6 THEN Channels80M ELSE Channels40M

(* Rates by the code the driver knows them by. *)
Rates11b == <<"1", "2">>
Rates11g == <<"4", "5">>
Rates11n == <<"15", "16">>
Rates11ac == <<"15", "16", "23">>

RatesShown(b) == IF b = 0 THEN Rates11g ELSE IF b = 3 THEN Rates11b
                 ELSE IF b \in {1, 2} THEN Rates11n ELSE Rates11ac
RatesWritten(b) == IF b = 0 THEN Rates11g ELSE IF b = 3 THEN Rates11b
                   ELSE IF b = 6 THEN Rates11ac ELSE Rates11n

Powers == <<"00", "10">>
Bonding(b) == <<"0", "1", "2", "3", "4", "5", "6">>[b + 1]
Entry(list, p) == list[p + 1]

Spinners(s) == CASE s = "BG" -> <<"bonding", "channel", "rate", "power">>
                 [] s = "Receive" -> <<"bonding", "channel", "rate">>
                 [] s = "Wave" -> <<"channel">>
                 [] OTHER -> <<>>
AllSpinners == {"bonding", "channel", "rate", "power"}

(* The positions a spinner offers. *)
Positions(s, spinner) ==
    CASE spinner = "bonding" -> Bondings
      [] spinner = "channel" -> IF s = "Wave" THEN {0, 1}
                                ELSE 0..(Len(ChannelsShown(field.bonding)) - 1)
      [] spinner = "rate" -> 0..(Len(RatesShown(field.bonding)) - 1)
      [] OTHER -> 0..(Len(Powers) - 1)

-----------------------------------------------------------------------------
(* Click handlers as sequences of steps.  wifi_testmode_set removes the     *)
(* file before it writes a new one; a position beyond the library's list is *)
(* a null pointer for a channel, and whatever lies there for a rate.        *)
Set(file, text) == <<[op |-> "remove", file |-> file, text |-> text],
                     [op |-> "write", file |-> file, text |-> text]>>
Do(op) == <<[op |-> op, file |-> "", text |-> ""]>>

EntryOr(list, p, other) == IF p < Len(list) THEN Entry(list, p) ELSE other
SetRateBw == Set("rate", EntryOr(RatesWritten(field.bonding), field.rate, "garbage"))
SetChannelBw == Set("channel", EntryOr(ChannelsWritten(field.bonding), field.channel, "null"))

StartType(s) == CASE s = "BG" -> IF field.power = 0 THEN "7" ELSE "0"
                  [] s = "Receive" -> "2" [] s = "N" -> "1" [] OTHER -> "8"
Settings(s) ==
    LET bw == Set("channel_bonding", Bonding(field.bonding)) \o SetRateBw \o SetChannelBw
    IN  CASE s = "BG" -> bw \o Set("power", Entry(Powers, field.power))
          [] s = "Receive" -> bw
          [] s = "N" -> Set("ssid", "net") \o Set("ip", "host")
          [] OTHER -> Set("channel", Entry(Channels20M, field.channel)) \o Set("dgain", "1")
StartHandlerEarly(s) ==   \* mutant: setWifiTestModeStartTx before the settings
    Set("type", StartType(s)) \o Do("start") \o Settings(s)
StartHandler(s) == Set("type", StartType(s)) \o Settings(s) \o Do("start")

StopHandler(s) ==
    CASE s = "Receive" -> Set("type", "6") \o Do("start") \o Do("report")
      [] s = "N" -> Set("type", "4") \o Do("start")
      [] OTHER -> Do("stop")
DestroyHandler(s) == IF s = "Receive" THEN Set("type", "4") ELSE <<>>

-----------------------------------------------------------------------------
(* The scripts: what each reads, and what it does with it.                  *)
Read(file) == [op |-> "read", file |-> file]
Run(op) == [op |-> op, file |-> ""]

Scripts == {"tx", "txn", "RxOn", "RxStop", "rmmod", "fixed", "wg", "TxStop"}
ScriptOf == [t \in {"0", "1", "2", "4", "6", "7", "8"} |->
    CASE t = "0" -> "tx" [] t = "1" -> "txn" [] t = "2" -> "RxOn" [] t = "4" -> "rmmod"
      [] t = "6" -> "RxStop" [] t = "7" -> "fixed" [] OTHER -> "wg"]

Steps(script) ==
    CASE script = "tx" -> <<Read("channel_bonding"), Read("channel"), Read("rate"),
                            Read("power"), Run("myftm_tx")>>
      [] script = "fixed" -> <<Read("channel"), Read("rate"), Read("power"),
                               Run("off"), Run("iwpriv_tx")>>
      [] script = "RxOn" -> <<Read("channel_bonding"), Read("channel"), Read("rate"),
                              Run("myftm_rx")>>
      [] script = "RxStop" -> <<Run("report"), Run("off")>>
      [] script = "wg" -> <<Read("channel"), Run("cw")>>
      [] script = "txn" -> <<Run("join")>>
      [] OTHER -> <<Run("off")>>

(* A file that is empty or not there leaves no argument: $1, $2, ... are    *)
(* what else was read.                                                      *)
Argument(texts, i) ==
    LET present(n) == {m \in 1..n : texts[m] # ""}
        places == {n \in present(Len(texts)) : Cardinality(present(n)) = i}
    IN  IF places = {} THEN "" ELSE texts[CHOOSE n \in places : TRUE]
Mode(m, channel, rate, power, bonding) ==
    [mode |-> m, channel |-> channel, rate |-> rate, power |-> power, bonding |-> bonding]
RadioOff == Mode("off", "", "", "", "")

(* rxstop.sh has "0>rxreport" where it means "0 >rxreport".                 *)
Report == [files EXCEPT !["rxreport"] = "empty"]

(* The driver after a command; iwpriv without an argument changes nothing.  *)
Keep(text, before) == IF text = "" THEN before ELSE text
Command(op, g) ==
    LET four == <<g["channel"], g["rate"], g["power"], g["channel_bonding"]>>
        three == <<g["channel"], g["rate"], g["power"]>>
        rx == <<g["channel"], g["rate"], g["channel_bonding"]>>
    IN  CASE op = "myftm_tx" -> Mode("tx", Argument(four, 1), Argument(four, 2),
                                     Argument(four, 3), Argument(four, 4))
          [] op = "iwpriv_tx" -> Mode("tx", Keep(Argument(three, 1), radio.channel),
                                      Keep(Argument(three, 2), radio.rate),
                                      Keep(Argument(three, 3), radio.power), "")
          [] op = "myftm_rx" -> Mode("rx", Argument(rx, 1), Argument(rx, 2), "", Argument(rx, 3))
          [] op = "cw" -> Mode("cw", Keep(g["channel"], radio.channel), "", "", "")
          [] op = "join" -> Mode("joined", "", "", "", "")
          [] op = "off" -> RadioOff
          [] OTHER -> radio

-----------------------------------------------------------------------------
Files == {"type", "channel", "channel_bonding", "rate", "power", "ssid", "ip",
          "dgain", "rxreport"}
Nothing == [f \in Files |-> ""]
Fresh == [s \in AllSpinners |-> 0]

Init ==
    /\ screen = "menu" /\ field = Fresh /\ sel = Fresh
    /\ old = [s \in AllSpinners |-> -1]
    /\ queue = <<>> /\ locked = FALSE /\ click = <<>> /\ display = "none"
    /\ files = Nothing /\ requests = <<>>
    /\ todo = [s \in Scripts |-> <<>>] /\ got = [s \in Scripts |-> Nothing]
    /\ radio = RadioOff
    /\ asked = [test |-> RadioOff, bonding |-> 0] /\ failed = {}
    /\ hasty = FALSE /\ choices = 0 /\ clicks = 0 /\ trouble = 0

Settled == queue = <<>> /\ click = <<>>
AtRest == requests = <<>> /\ \A s \in Scripts : todo[s] = <<>>

(* A patient tester waits until the last click has taken effect ("please    *)
(* wait for 20s to test").                                                  *)
Haste(before) == LET early == ~(Settled /\ AtRest)
                 IN  /\ early => trouble < MaxTrouble
                     /\ hasty' = (before \/ early)
                     /\ trouble' = trouble + (IF early THEN 1 ELSE 0)

-----------------------------------------------------------------------------
(* The main thread.                                                         *)

(* onCreate: a new instance, everything at its first entry. *)
Open(s) ==
    /\ screen = "menu" /\ click = <<>>
    /\ screen' = s /\ field' = Fresh /\ sel' = Fresh
    /\ old' = [p \in AllSpinners |-> -1]
    /\ locked' = FALSE /\ display' = "none"
    /\ queue' = IF Spinners(s) = <<>> THEN <<>> ELSE <<"layout">>
    /\ UNCHANGED <<click, files, scriptVars, asked, failed, boundVars>>

(* Back, and onDestroy. *)
Back ==
    /\ screen # "menu" /\ click = <<>> /\ Haste(hasty)
    /\ screen' = "menu" /\ queue' = <<>> /\ click' = DestroyHandler(screen)
    /\ UNCHANGED <<field, sel, old, locked, display, files, scriptVars,
                   asked, failed, choices, clicks>>

RequestLayout(rest) ==
    queue' = IF Contains(rest, "layout") THEN rest ELSE Append(rest, "layout")

(* A layout pass posts a notifier for each visible spinner, from top to     *)
(* bottom, whose selection is not the one of its last pass.                 *)
Visible == ToSet(Spinners(screen))
Notifier(s) == IF s \in Visible /\ sel[s] # old[s] THEN <<s>> ELSE <<>>
Layout(rest) ==
    /\ queue' = rest \o Notifier("bonding") \o Notifier("channel")
                     \o Notifier("rate") \o Notifier("power")
    /\ old' = [s \in AllSpinners |-> IF s \in Visible THEN sel[s] ELSE old[s]]
    /\ UNCHANGED <<field, sel>>

(* The listeners.  That of the bonding resets channel and rate, that of the *)
(* channel the rate, and each the views of what it resets (setChannelView,  *)
(* setRateView): a new adapter, so the next pass reports the selection.     *)
FieldsReset(s) == IF screen = "Wave" THEN {}
                  ELSE IF s = "bonding" THEN {"channel", "rate"}
                  ELSE IF s = "channel" THEN {"rate"} ELSE {}
ViewsResetByBonding(s) ==   \* mutant: the channel's listener resets no view
    IF s = "bonding" THEN {"channel", "rate"} ELSE {}
ViewsResetOwn(s) ==   \* mutant: it resets its own, too
    IF s \in {"bonding", "channel"} THEN {"channel", "rate"} ELSE {}
ViewsReset(s) == FieldsReset(s)
SetSelectionOneLow(views, g) ==   \* mutant: positions counted from one
    [p \in AllSpinners |-> IF p \in views THEN g[p] - 1 ELSE sel[p]]
SetSelection(views, g) == [p \in AllSpinners |-> IF p \in views THEN g[p] ELSE sel[p]]

OnItemSelected(s, rest) ==
    LET g == [p \in AllSpinners |-> IF p = s THEN sel[s]
                                    ELSE IF p \in FieldsReset(s) THEN 0 ELSE field[p]]
    IN  /\ field' = g
        /\ sel' = SetSelection(ViewsReset(s), g)
        /\ old' = [p \in AllSpinners |-> IF p \in ViewsReset(s) THEN -1 ELSE old[p]]
        /\ IF ViewsReset(s) = {} THEN queue' = rest ELSE RequestLayout(rest)

HandleMessage ==
    /\ click = <<>> /\ queue # <<>>
    /\ \/ Head(queue) = "layout" /\ Layout(Tail(queue))
       \/ Head(queue) # "layout" /\ OnItemSelected(Head(queue), Tail(queue))
    /\ UNCHANGED <<screen, locked, click, display, files, scriptVars, asked, failed, boundVars>>

(* To choose from a list takes a popup window, thus several turns of the    *)
(* main thread; a tap on a button takes none.                               *)
Choose(s, p) ==
    /\ Settled /\ s \in Visible /\ choices < MaxChoices
    /\ p \in Positions(screen, s) \ {sel[s]}
    /\ choices' = choices + 1
    /\ sel' = [sel EXCEPT ![s] = p] /\ RequestLayout(queue)
    /\ UNCHANGED <<screen, field, old, locked, click, display, files, scriptVars,
                   asked, failed, hasty, clicks, trouble>>

(* What the screen shows, as the mode the radio should take.                *)
Shown ==
    CASE screen = "BG" ->
            Mode("tx", Entry(ChannelsShown(field.bonding), sel.channel),
                 Entry(RatesShown(field.bonding), sel.rate), Entry(Powers, sel.power),
                 IF sel.power = 0 THEN "" ELSE Bonding(sel.bonding))
      [] screen = "Receive" ->
            Mode("rx", Entry(ChannelsShown(field.bonding), sel.channel),
                 Entry(RatesShown(field.bonding), sel.rate), "", Bonding(sel.bonding))
      [] screen = "Wave" -> Mode("cw", Entry(Channels20M, sel.channel), "", "", "")
      [] OTHER -> Mode("joined", "", "", "", "")

ClickButton(handler, want) ==
    /\ click = <<>> /\ screen # "menu" /\ clicks < MaxClicks /\ Haste(FALSE)
    /\ clicks' = clicks + 1
    /\ click' = handler /\ failed' = {}
    /\ asked' = [test |-> want, bonding |-> field.bonding]
    /\ UNCHANGED <<screen, field, sel, old, queue, display, files,
                   scriptVars, choices>>

ClickStart ==
    ~locked /\ locked' = TRUE /\ ClickButton(StartHandler(screen), Shown)
ClickStop == locked' = FALSE /\ ClickButton(StopHandler(screen), RadioOff)

(* One step of the click handler.                                           *)
RemoveFileNot(file) == UNCHANGED files   \* mutant: the old file is overwritten, or left
RemoveFile(file) == files' = [files EXCEPT ![file] = ""]

Call(step) ==
    \/ /\ step.op = "remove" /\ RemoveFile(step.file)
       /\ UNCHANGED <<display, requests, failed, trouble>>
    \/ /\ step.op = "write" /\ step.text # "null"
       /\ \/ files' = [files EXCEPT ![step.file] = step.text] /\ UNCHANGED <<failed, trouble>>
          \/ /\ trouble < MaxTrouble /\ trouble' = trouble + 1
             /\ failed' = failed \cup {step.file} /\ UNCHANGED files
       /\ UNCHANGED <<display, requests>>
    \/ /\ step.op \in {"start", "stop"} /\ requests' = Append(requests, step.op)
       /\ UNCHANGED <<display, files, failed, trouble>>
    \/ /\ step.op = "report" /\ display' = Keep(files["rxreport"], display)
       /\ UNCHANGED <<files, requests, failed, trouble>>

HandlerStep ==
    /\ click # <<>>
    /\ Call(Head(click)) /\ click' = Tail(click)
    /\ UNCHANGED <<screenVars, todo, got, radio, asked, hasty,
                   choices, clicks>>

(* strlen of a null pointer, or of whatever lies beyond the list: the       *)
(* process is gone, without onDestroy.                                      *)
Crash ==
    /\ click # <<>> /\ Head(click).text \in {"null", "garbage"} /\ Head(click).op = "write"
    /\ screen' = "menu" /\ queue' = <<>> /\ click' = <<>>
    /\ failed' = failed \cup {Head(click).file}
    /\ UNCHANGED <<field, sel, old, locked, display, files, scriptVars, asked, boundVars>>

-----------------------------------------------------------------------------
(* The framework, and the scripts.  A service that runs is not started      *)
(* again.                                                                   *)
Dispatch ==
    /\ requests # <<>> /\ requests' = Tail(requests)
    /\ LET type == files["type"]
           script == IF Head(requests) = "stop" THEN "TxStop" ELSE ScriptOf[type]
       IN  IF (Head(requests) = "start" /\ type = "") \/ todo[script] # <<>>
           THEN UNCHANGED todo
           ELSE todo' = [todo EXCEPT ![script] = Steps(script)]
    /\ UNCHANGED <<screenVars, click, display, files, got, radio, asked, failed, boundVars>>

ScriptStep(s) ==
    /\ todo[s] # <<>> /\ todo' = [todo EXCEPT ![s] = Tail(@)]
    /\ LET step == Head(todo[s])
           last == Len(todo[s]) = 1
       IN  /\ got' = [got EXCEPT ![s] = IF last THEN Nothing
                         ELSE IF step.op = "read" THEN [@ EXCEPT ![step.file] = files[step.file]]
                         ELSE @]
           /\ radio' = Command(step.op, got[s])
           /\ files' = IF step.op = "report" THEN Report ELSE files
    /\ UNCHANGED <<screenVars, click, display, requests, asked, failed, boundVars>>

Tester == \/ \E s \in Screens : Open(s)
          \/ Back \/ ClickStart \/ ClickStop
          \/ \E s \in AllSpinners : \E p \in 0..2 \cup Bondings : Choose(s, p)
MainThread == HandleMessage \/ HandlerStep \/ Crash
Next == Tester \/ MainThread \/ Dispatch \/ \E s \in Scripts : ScriptStep(s)

(* The main thread, the framework and every script go on; the tester need   *)
(* not do anything.                                                         *)
Spec == /\ Init /\ [][Next]_vars
        /\ WF_vars(MainThread) /\ WF_vars(Dispatch)
        /\ \A s \in Scripts : WF_vars(ScriptStep(s))

-----------------------------------------------------------------------------
Texts == {"", "none", "null", "garbage", "net", "host", "report", "empty", "00",
          "0", "1", "2", "3", "4", "5", "6", "7", "8", "10", "15", "16", "23",
          "36", "38", "42", "46"}
Modes == [mode : {"off", "tx", "rx", "cw", "joined"}, channel : Texts, rate : Texts,
          power : Texts, bonding : Texts]

TypeOK ==
    /\ screen \in Screens \cup {"menu"} /\ locked \in BOOLEAN /\ hasty \in BOOLEAN
    /\ field \in [AllSpinners -> 0..6] /\ sel \in [AllSpinners -> 0..6]
    /\ old \in [AllSpinners -> -1..6]
    /\ queue \in Seq({"layout"} \cup AllSpinners)
    /\ files \in [Files -> Texts] /\ display \in Texts
    /\ click \in Seq([op : {"remove", "write", "start", "stop", "report"},
                      file : Files \cup {""}, text : Texts])
    /\ requests \in Seq({"start", "stop"})
    /\ \A s \in Scripts : Len(todo[s]) <= Len(Steps(s)) /\ got[s] \in [Files -> Texts]
    /\ radio \in Modes /\ asked \in [test : Modes, bonding : 0..6] /\ failed \subseteq Files
    /\ choices \in 0..MaxChoices /\ clicks \in 0..MaxClicks /\ trouble \in 0..MaxTrouble

(* When the main thread is done, the fields are what the spinners show, and *)
(* within the lists they show: the listeners of the bonding and the channel *)
(* reset the others, which post notifiers of their own (MyOnItemSelected-   *)
(* Listener, setChannelView, setRateView).                                  *)
ScreenTellsFields ==
    queue = <<>> => \A s \in Visible :
        field[s] = sel[s] /\ sel[s] \in Positions(screen, s)

(* Everything has come to rest after a click that was not made in haste.    *)
Effective == Settled /\ AtRest /\ ~hasty

(* A test runs as its screen showed it at Start: through the listeners, the *)
(* library's own lists, the files, the framework and the script.  Not so    *)
(* for the channel with bonding HT40PLUS and VHT40PLUS, for which the       *)
(* screens show the 20 MHz list and the library has the 40 MHz list, and    *)
(* for the rates of VHT20 and VHT40PLUS the library does not have.  And a Stop  *)
(* ends whatever test runs, by whichever script.                            *)
TestAsShown ==
    LET test == asked.test
        excused == (IF asked.bonding \in {2, 5} THEN {"channel"} ELSE {})
                   \cup (IF asked.bonding \in {4, 5} /\ test.rate \notin ToSet(Rates11n)
                         THEN {"rate"} ELSE {})
    IN  Effective /\ failed = {} =>
            IF test.mode = "off" THEN radio = RadioOff
            ELSE \A f \in DOMAIN test \ excused : radio[f] = test[f]

(* A setting that could not be written is lost or taken by another; that of *)
(* an earlier test is not used in its stead: wifi_testmode_set removes the  *)
(* file first.                                                              *)
NothingStale ==
    Effective /\ "type" \notin failed /\ radio.mode = asked.test.mode
      /\ radio.mode \in {"tx", "rx"} /\ asked.bonding \notin {2, 4, 5} =>
        \A f \in DOMAIN radio :
          radio[f] \in {asked.test[g] : g \in DOMAIN radio} \cup {""}

(* Whatever the tester does, the main thread, which resets spinners from    *)
(* their own listeners, and the scripts come to rest.                       *)
ComesToRest == []<>(Settled /\ AtRest)

(* What WLANTestModeReceive.java:170 tells the tester: the system will give *)
(* the report.  It is there when his Stop has ended a reception.            *)
ReportGiven ==
    [][radio.mode = "rx" /\ radio'.mode = "off" /\ asked.test.mode = "off"
         => files'["rxreport"] = "report"]_vars
=============================================================================
