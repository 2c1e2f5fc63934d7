------------------------------ MODULE Fragments ------------------------------
(* The screens of the test app WifiRfTest, one fragment for a kind of chip: *)
(* AcSisoFragment.java and, with other lists and fewer spinners, its seven  *)
(* siblings.  A tester switches the test mode (FTM) on, chooses what to     *)
(* send or receive, and starts and stops it.  All of it runs on the app's   *)
(* main thread, which takes messages from a queue: clicks, layout passes,   *)
(* and the notifiers with which a spinner reports, after a layout pass that *)
(* found its selection changed, to onItemSelected.  A click handler blocks  *)
(* the thread while the WifiTest command it calls runs.                     *)
(*                                                                          *)
(* Every list is cut down to two entries.  mPowerSpin, which is never       *)
(* shown, is left out.                                                      *)
EXTENDS Integers, Sequences, FiniteSets, SequencesExt

CONSTANTS Chips, Countries,  \* of the phones the app runs on
          Modes,      \* the modes the tester uses
          MaxTaps,    \* bound: how often the tester taps
          MaxEarly,   \* bound: how often on a screen that is not settled
          MaxStarts   \* bound: how often the app comes back to the front

ASSUME ModesAssumption == Modes \subseteq {"b", "g", "n", "a", "ac"}
ASSUME BoundsAssumption == MaxTaps \in Nat /\ MaxEarly \in Nat /\ MaxStarts \in Nat

VARIABLES
    screen,          \* the fragment MainActivity has added
    fields,          \* mTxRx, mMode, mChannel, ...: what Start sends
    pos,             \* spinner -> its selected position
    old,             \* spinner -> the position its last layout pass found, or -1
    shown,           \* the visible spinners
    ftm, start,      \* mFTMStartStop and mStartTxRx are checked
    startClickable,
    locked,          \* disableSpin: the spinners and mFTMStartStop do not react
    capture,         \* mCaptureRecvPktBtn is visible
    queue,           \* of the main thread
    asked,           \* the test WifiTest was told to start and not to stop
    taps, early, starts

screenVars == <<pos, old, shown, ftm, start, startClickable, locked, capture>>
userVars == <<taps, early, starts>>
vars == <<screen, fields, screenVars, queue, asked, userVars>>

-----------------------------------------------------------------------------
(* The number WifiSetup prints for a phone, and the fragment MainActivity   *)
(* makes of it.  There is none for 0 and 2.                                 *)
WifiSetup(chip, country) ==
    CASE chip \in {"BCM43362", "BCM4343S", "WCN3610", "AG620"} -> 1
      [] chip \in {"BCM43340", "WCN3660"} -> 3
      [] chip = "BCM43241" -> 4
      [] chip \in {"BCM4339", "LNP"} -> IF country = "ID" THEN 7 ELSE 5
      [] chip = "BCM4354" -> 6
      [] chip = "MT6630" -> 8
      [] OTHER -> 0
Fragment(n) ==
    CASE n = 1 -> "BgnSiso" [] n = 3 -> "AbgnSiso" [] n = 4 -> "AbgnMimo"
      [] n = 5 -> "AcSiso" [] n = 6 -> "AcMimo" [] n = 7 -> "IDAcSiso"
      [] n = 8 -> "MTKAcSiso" [] n = 9 -> "MTKIDAcSiso" [] OTHER -> "none"
Screens == {Fragment(WifiSetup(chip, country)) : chip \in Chips, country \in Countries} \ {"none"}

Ac(x) == x \in {"AcSiso", "AcMimo", "IDAcSiso", "MTKAcSiso", "MTKIDAcSiso"}
Mimo(x) == x \in {"AcMimo", "AbgnMimo"}

(* The spinners, from top to bottom, and what onItemSelected makes of their *)
(* entries.  A screen shows a part of them.                                 *)
Order == <<"TxRx", "Mode", "BandwidthN", "BandwidthAC",
           "Channel5G", "Channel2G", "ChannelAll", "ChannelN", "Channel5G40", "Channel5G80",
           "RateB", "RateA", "RateN", "RateAC",
           "Power11A", "Power11B", "Power11G", "Power11N", "Power11AC",
           "Antenna", "Bandwidth", "Sideband", "GuardInterval">>
Spinners == ToSet(Order)

AcEntries ==
    [TxRx |-> <<"tx", "rx", "unmodulated">>, Mode |-> <<"b", "g", "n", "a", "ac">>,
     BandwidthN |-> <<"20", "40">>, BandwidthAC |-> <<"20", "40", "80">>,
     Channel5G |-> <<"34", "36">>, Channel2G |-> <<"1", "2">>,
     ChannelAll |-> <<"1", "34">>, Channel5G40 |-> <<"36", "48">>,
     Channel5G80 |-> <<"36", "52">>,
     RateB |-> <<"1", "2">>, RateA |-> <<"6", "9">>,
     RateN |-> <<"0", "1">>, RateAC |-> <<"0", "1">>,
     Power11A |-> <<"4", "5">>, Power11B |-> <<"4", "5">>, Power11G |-> <<"4", "5">>,
     Power11N |-> <<"4", "5">>, Power11AC |-> <<"4", "5">>,
     Antenna |-> <<"0", "1">>, GuardInterval |-> <<"0", "1">>]
IndonesianEntries ==
    [Mode |-> <<"b", "g", "n", "a">>, Channel5G |-> <<"149", "153">>,
     ChannelAll |-> <<"1", "149">>, Channel5G40 |-> <<"153", "161">>]
MtkEntries == [Channel5G80 |-> <<"42", "58">>]
AbgnEntries ==
    [Mode |-> <<"b", "g", "n", "a">>, ChannelN |-> <<"1", "34">>,
     Power11A |-> <<"8", "9">>, Power11B |-> <<"8", "9">>, Power11G |-> <<"8", "9">>,
     Power11N |-> <<"8", "9">>, Bandwidth |-> <<"20", "40">>, Sideband |-> <<"u", "l", "c">>]
BgnEntries == [Mode |-> <<"b", "g", "n">>]
NoEntries == [s \in Spinners |-> <<"">>]
Instead(lists, others) ==
    [s \in Spinners |-> IF s \in DOMAIN lists THEN lists[s] ELSE others[s]]
EntriesOf ==
    LET ac == Instead(AcEntries, NoEntries)
        abgn == Instead(AbgnEntries, ac)
        indonesian == Instead(IndonesianEntries, ac)
    IN  [x \in Screens |->
            CASE x = "BgnSiso" -> Instead(BgnEntries, abgn)
              [] x \in {"AbgnSiso", "AbgnMimo"} -> abgn
              [] x = "IDAcSiso" -> indonesian
              [] x = "MTKAcSiso" -> Instead(MtkEntries, ac)
              [] x = "MTKIDAcSiso" -> Instead(MtkEntries, indonesian)
              [] OTHER -> ac]
Entries == EntriesOf[screen]
Selected(s) == Entries[s][pos[s] + 1]

Channels == {"Channel5G", "Channel2G", "ChannelAll", "ChannelN", "Channel5G40", "Channel5G80"}
Rates == {"RateB", "RateA", "RateN", "RateAC"}
Powers == {"Power11A", "Power11B", "Power11G", "Power11N", "Power11AC"}
Bandwidths == {"BandwidthN", "BandwidthAC", "Bandwidth"}
Field(s) == IF s \in Channels THEN "channel"
            ELSE IF s \in Rates THEN "rate"
            ELSE IF s \in Powers THEN "power"
            ELSE IF s \in Bandwidths THEN "bandwidth" ELSE s
SidebandOf(channel) == IF channel = "36" THEN "l" ELSE "u"

Init ==
    /\ screen \in Screens
    /\ fields = [TxRx |-> "tx", Mode |-> "b", channel |-> "1", rate |-> "1",
                 power |-> "8", bandwidth |-> "20", Sideband |-> "u",
                 Antenna |-> "0", GuardInterval |-> "0"]
    /\ pos = [s \in Spinners |-> 0] /\ old = [s \in Spinners |-> -1]
    /\ shown = {}
    /\ ftm = FALSE /\ start = FALSE /\ startClickable = FALSE
    /\ locked = FALSE /\ capture = FALSE
    /\ queue = <<>> /\ asked = "none"
    /\ taps = 0 /\ early = 0 /\ starts = 0

-----------------------------------------------------------------------------
(* What of the screen belongs to a choice of TxRx, mode and bandwidth; one  *)
(* that updateSettings does not know is shown as that of 802.11b.  In the   *)
(* fragments without 802.11ac the bandwidth does not count.                 *)
Wide(mode) == mode \in {"n", "ac"}
Known(mode, width) == \/ ~Wide(mode)
                      \/ width \in {"20", "40"}
                      \/ mode = "ac" /\ width = "80"

ChannelSpin(mode, width) ==
    IF mode \in {"b", "g"} THEN "Channel2G"
    ELSE IF mode = "a" THEN "Channel5G"
    ELSE IF width = "40" THEN "Channel5G40"
    ELSE IF width = "80" THEN "Channel5G80"
    ELSE IF mode = "n" THEN "ChannelAll" ELSE "Channel5G"
BandwidthSpin(mode) == IF mode = "n" THEN "BandwidthN" ELSE "BandwidthAC"
RateSpin == [b |-> "RateB", g |-> "RateA", n |-> "RateN", a |-> "RateA", ac |-> "RateAC"]
PowerSpin == [b |-> "Power11B", g |-> "Power11G", n |-> "Power11N",
              a |-> "Power11A", ac |-> "Power11AC"]

AcView(txRx, mode, width) ==
    IF txRx = "unmodulated" THEN {"TxRx", "ChannelAll"}
    ELSE LET m == IF Known(mode, width) THEN mode ELSE "b"
             tx == txRx = "tx" \/ ~Known(mode, width)
         IN  {"TxRx", "Mode", ChannelSpin(m, width)}
             \cup (IF Wide(m) THEN {BandwidthSpin(m)} ELSE {})
             \cup (IF tx THEN {RateSpin[m], PowerSpin[m]} ELSE {})
             \cup (IF tx /\ Wide(m) THEN {"GuardInterval"} ELSE {})
AbgnView(txRx, mode) ==
    IF txRx = "unmodulated" THEN {"TxRx", "ChannelAll"}
    ELSE {"TxRx", "Mode"}
         \cup (IF mode = "n" THEN {"ChannelN", "Bandwidth"}
               ELSE IF mode = "a" THEN {"Channel5G"} ELSE {"Channel2G"})
         \cup (IF txRx = "tx" THEN {RateSpin[mode], PowerSpin[mode]} ELSE {})
         \cup (IF txRx = "tx" /\ mode = "n" THEN {"GuardInterval"} ELSE {})
BgnView(txRx, mode) ==
    (AbgnView(txRx, mode) \ {"ChannelAll", "ChannelN", "Bandwidth"}) \cup {"Channel2G"}
View(txRx, mode, width) ==
    (IF Ac(screen) THEN AcView(txRx, mode, width)
     ELSE IF screen = "BgnSiso" THEN BgnView(txRx, mode) ELSE AbgnView(txRx, mode))
    \cup (IF Mimo(screen) THEN {"Antenna"} ELSE {})

BandwidthEntrySwapped(width) == IF width = "20" THEN 1 ELSE 0   \* mutant
BandwidthEntryTooFar(width) == IF width = "20" THEN 0 ELSE 2   \* mutant
BandwidthEntry(width) == IF width = "20" THEN 0 ELSE IF width = "40" THEN 1 ELSE 2

FirstChannel(s) == IF s \in {"Channel2G", "ChannelAll", "ChannelN"} THEN "1" ELSE "36"

(* The fields as updateSettings leaves them: those of the spinners it shows *)
(* are set, but for the guard interval.                                     *)
First(view, list) == Entries[CHOOSE s \in view : s \in list][1]
Reset(g, view, width) ==
    [g EXCEPT !.channel = FirstChannel(CHOOSE s \in view : s \in Channels),
              !.Sideband = IF "Channel5G40" \in view THEN "l" ELSE @,
              !.rate = IF view \cap Rates # {} THEN First(view, Rates) ELSE @,
              !.power = IF view \cap Powers # {} THEN First(view, Powers) ELSE @,
              !.bandwidth = IF view \cap Bandwidths # {} THEN width ELSE @,
              !.Antenna = "0"]

(* The main thread: `rest' is the queue without the message being handled.  *)
(* A change of the layout is scheduled once; what is posted later waits     *)
(* for it.                                                                  *)
RequestLayout(rest) ==
    queue' = IF Contains(rest, "layout") THEN rest ELSE Append(rest, "layout")

RemoveSettings(rest) ==
    /\ shown' = {} /\ startClickable' = FALSE /\ capture' = FALSE
    /\ RequestLayout(rest)
    /\ UNCHANGED <<fields, pos, old>>

(* updateSettings for the fields g; it begins with removeSettings.          *)
UpdateSettings(g, width, rest) ==
    LET view == View(g.TxRx, g.Mode, width) IN
    /\ shown' = view /\ startClickable' = TRUE /\ capture' = FALSE
    /\ pos' = [s \in Spinners |->
                 IF s \in view \cap Bandwidths THEN BandwidthEntry(width)
                 ELSE IF s \in view \ {"TxRx", "Mode"} THEN 0 ELSE pos[s]]
    /\ fields' = Reset(g, view, width)
    /\ RequestLayout(rest)
    /\ UNCHANGED old

-----------------------------------------------------------------------------
(* The messages.                                                            *)

(* A layout pass posts a notifier for each visible spinner whose selection  *)
(* is not the one of its last pass, from top to bottom.                     *)
Changed == {s \in shown : pos[s] # old[s]}
Row(s) == CHOOSE i \in 1..Len(Order) : Order[i] = s
Above(s) == {t \in Changed : Row(t) < Row(s)}
Notifiers == [k \in 1..Cardinality(Changed) |->
                 CHOOSE s \in Changed : Cardinality(Above(s)) = k - 1]
Layout(rest) ==
    /\ queue' = rest \o Notifiers
    /\ old' = [s \in Spinners |-> IF s \in shown THEN pos[s] ELSE old[s]]
    /\ UNCHANGED <<fields, pos, shown, ftm, start, startClickable, locked,
                   capture, asked>>

(* The listener of mBandwidthSpin only shows or hides mSidebandSpin, while  *)
(* those of mBandwidthNSpin and mBandwidthACSpin call updateSettings.       *)
ShowSidebandStays(width) ==   \* mutant: it is not hidden again
    IF width = "40" THEN shown \cup {"Sideband"} ELSE shown
ShowSideband(width) == IF width = "40" THEN shown \cup {"Sideband"} ELSE shown \ {"Sideband"}
Listen(s, g, rest) ==
    /\ fields' = IF s = "Channel5G40" THEN [g EXCEPT !.Sideband = SidebandOf(g.channel)] ELSE g
    /\ shown' = IF s = "Bandwidth" THEN ShowSideband(g.bandwidth) ELSE shown
    /\ IF shown' = shown THEN queue' = rest ELSE RequestLayout(rest)
    /\ UNCHANGED <<pos, old, startClickable, capture>>

(* onItemSelected of spinner s, with what is selected now.                  *)
OnItemSelected(s, rest) ==
    LET v == Selected(s)
        g == [fields EXCEPT ![Field(s)] = v]
    IN  /\ \/ s = "TxRx" /\ UpdateSettings(g, "20", rest)
           \/ s = "Mode" /\ UpdateSettings(
                  IF v = "n" THEN g ELSE [g EXCEPT !.bandwidth = "20"], "20", rest)
           \/ s \in {"BandwidthN", "BandwidthAC"} /\ UpdateSettings(g, v, rest)
           \/ s \notin {"TxRx", "Mode", "BandwidthN", "BandwidthAC"} /\ Listen(s, g, rest)
        /\ UNCHANGED <<ftm, start, locked, asked>>

(* mFTMStartStop: only the answer PASS of WifiTest changes the screen; the  *)
(* button has changed anyway.                                               *)
ClickFtm(rest) ==
    /\ ftm' = ~ftm
    /\ \/ ~ftm /\ UpdateSettings(fields, "20", rest)
       \/ ftm /\ RemoveSettings(rest)
       \/ queue' = rest /\ UNCHANGED <<fields, pos, old, shown, startClickable, capture>>
    /\ UNCHANGED <<start, locked, asked>>

(* mStartTxRx: disableSpin or enableSpin, and the command for what mTxRx    *)
(* says now.                                                                *)
DisableSpinNothing == UNCHANGED locked   \* mutant
DisableSpin == locked' = TRUE
StopHidesCapture == capture /\ fields.TxRx # "rx"
StopEnds(kind) == IF asked = kind THEN "none" ELSE asked
ClickStart(rest) ==
    /\ start' = ~start
    /\ \/ /\ ~start /\ DisableSpin
          /\ asked' = fields.TxRx
          /\ capture' = (capture \/ fields.TxRx = "rx")
       \/ /\ start /\ locked' = FALSE
          /\ asked' = StopEnds(fields.TxRx)
          /\ capture' = StopHidesCapture
    /\ queue' = rest
    /\ UNCHANGED <<fields, pos, old, shown, ftm, startClickable>>

Handle ==
    /\ queue # <<>>
    /\ LET message == Head(queue)
           rest == Tail(queue)
       IN  \/ message = "layout" /\ Layout(rest)
           \/ message \in Spinners /\ OnItemSelected(message, rest)
           \/ message = "ftm" /\ ClickFtm(rest)
           \/ message = "start" /\ ClickStart(rest)
    /\ UNCHANGED <<screen, userVars>>

-----------------------------------------------------------------------------
(* The tester.  To choose from a list takes several turns of the main       *)
(* thread; a button may be tapped at any time, for instance while another   *)
(* click's command still blocks the thread.  Whether it is clickable is     *)
(* seen at the tap, the click itself is one more message.                   *)
Settled == queue = <<>>
Tap == taps < MaxTaps /\ taps' = taps + 1

Choose(s, p) ==
    /\ Tap /\ Settled /\ s \in shown /\ ~locked
    /\ p # pos[s] /\ (s = "Mode" => Entries[s][p + 1] \in Modes)
    /\ pos' = [pos EXCEPT ![s] = p]
    /\ RequestLayout(queue)
    /\ UNCHANGED <<screen, fields, old, shown, ftm, start, startClickable, locked,
                   capture, asked, early, starts>>

TapButton(button) ==
    /\ Tap
    /\ \/ button = "ftm" /\ ~locked
       \/ button = "start" /\ startClickable
    /\ early' = IF Settled THEN early ELSE early + 1
    /\ early' <= MaxEarly
    /\ queue' = Append(queue, button)
    /\ UNCHANGED <<screen, fields, screenVars, asked, starts>>

(* onStart, when the app comes back to the front: the lists are set up      *)
(* anew, the fields and the buttons stay.                                   *)
OnStart ==
    /\ Settled /\ starts < MaxStarts /\ starts' = starts + 1
    /\ pos' = [s \in Spinners |-> 0] /\ old' = [s \in Spinners |-> -1]
    /\ shown' = {} /\ startClickable' = FALSE /\ capture' = FALSE
    /\ RequestLayout(queue)
    /\ UNCHANGED <<screen, fields, ftm, start, locked, asked, taps, early>>

Next == \/ Handle \/ OnStart
        \/ \E s \in Spinners : \E p \in 0..(Len(Entries[s]) - 1) : Choose(s, p)
        \/ \E button \in {"ftm", "start"} : TapButton(button)

(* The main thread goes on as long as it has messages.                      *)
Spec == Init /\ [][Next]_vars /\ WF_vars(Handle)

-----------------------------------------------------------------------------
TypeOK ==
    /\ \A s \in Spinners : /\ pos[s] \in 0..(Len(Entries[s]) - 1)
                           /\ old[s] \in -1..(Len(Entries[s]) - 1)
                           /\ Field(s) \in DOMAIN fields
    /\ screen \in Screens /\ shown \subseteq {s \in Spinners : Entries[s] # NoEntries[s]}
    /\ {ftm, start, startClickable, locked, capture} \subseteq BOOLEAN
    /\ ToSet(queue) \subseteq Spinners \cup {"layout", "ftm", "start"}
    /\ asked \in {"none"} \cup ToSet(Entries.TxRx)
    /\ taps \in 0..MaxTaps /\ early \in 0..MaxEarly /\ starts \in 0..MaxStarts

(* Once the screen is settled, what it shows is what Start would send,      *)
(* through all changes of mode, direction and bandwidth, returns of the app *)
(* and hasty taps: except where the first entry of the list of channels is  *)
(* not the channel updateSettings sets, which is so for 34(5170), for the   *)
(* Indonesian lists and for 42(5210) of MTK.  What a mode does not show has *)
(* the one value that is good for it.  A transmission of 40 MHz has a        *)
(* sideband the tester sees: the one of its channel, or the entry of the    *)
(* spinner, which is there exactly then.                                    *)
ScreenTellsFields == Settled =>
    /\ \A s \in shown : \/ fields[Field(s)] = Selected(s)
                        \/ /\ s \in Channels /\ pos[s] = 0
                           /\ FirstChannel(s) # Selected(s) /\ fields.channel = FirstChannel(s)
    /\ shown # {} /\ ~Wide(fields.Mode) => fields.bandwidth = "20"
    /\ "Channel5G40" \in shown => fields.Sideband = SidebandOf(fields.channel)
    /\ "Mode" \in shown =>
           (fields.bandwidth = "40" <=> shown \cap {"Channel5G40", "Sideband"} # {})

(* Who taps no faster than the screen settles stops with Start what was     *)
(* started with it, and always can, unless the app was left in between.     *)
(* However he taps, the packets received can be asked for only while a test *)
(* receives.                                                                *)
StopsWhatRuns ==
    /\ early = 0 => (start <=> asked # "none")
    /\ early = 0 /\ starts = 0 /\ start => startClickable
    /\ capture => asked = "rx"

(* The callbacks that set selections, which call callbacks, come to an end. *)
Settles == ~Settled ~> Settled

=============================================================================
