--------------------------- MODULE TestModeProofs ----------------------------
(* What TestMode promises, for any screens and bondings and any number of   *)
(* choices, clicks and failing writes: the types, that the screen is told,  *)
(* that a test runs as it was shown, and that nothing stale is used.        *)
(*                                                                          *)
(* The screen: a spinner whose last layout pass found another selection     *)
(* gets a new pass, and one that differs from its field is seen by that     *)
(* pass or has a notifier in the queue (Reported).  With the queue empty    *)
(* the fields are the selections.                                           *)
(*                                                                          *)
(* From the click to the radio (Pipe): the handler removes each file right  *)
(* before it writes it and asks the framework only when all are written     *)
(* (Orderly), so that a file the script will read has, or is still to get,  *)
(* a text that fits what was shown, or is empty for a write that failed     *)
(* (Promised).  A click that was not made in haste passes four stages, and  *)
(* none is entered twice: the handler works, one request waits, one script  *)
(* runs and what it has read is still in the files, all is over.            *)
EXTENDS TestMode, QueueLemmas, FiniteSetTheorems

(* What a spinner offers for a bonding.                                     *)
Offers(s, spinner, b) ==
    CASE spinner = "bonding" -> Bondings
      [] spinner = "channel" -> IF s = "Wave" THEN 0..1 ELSE 0..(Len(ChannelsShown(b)) - 1)
      [] spinner = "rate" -> 0..(Len(RatesShown(b)) - 1)
      [] OTHER -> 0..1

-----------------------------------------------------------------------------
(* The screens.                                                             *)
Screen ==
    /\ screen \in Screens \cup {"menu"}
    /\ field \in [AllSpinners -> 0..6] /\ sel \in [AllSpinners -> 0..6]
    /\ old \in [AllSpinners -> -1..6]
    /\ field["power"] \in 0..1 /\ (screen = "Wave" => field["channel"] \in 0..1)
    /\ queue \in Seq({"layout"} \cup Visible)
    /\ \A s \in Visible : sel[s] \in Offers(screen, s, field["bonding"])

(* A spinner whose last layout pass found another selection gets a new one; *)
(* one that differs from its field is seen by it, or its notifier waits.    *)
Reported == \A s \in Visible :
    /\ sel[s] # old[s] => Contains(queue, "layout")
    /\ field[s] # sel[s] => sel[s] # old[s] \/ Contains(queue, s)

(* The files and the scripts.                                               *)
TypeTexts == {"0", "1", "2", "4", "6", "7", "8"}
Requests == [op : {"start", "stop", "report"}, file : {""}, text : {""}]
Writes == [op : {"remove", "write"}, file : {"type"}, text : TypeTexts]
          \cup [op : {"remove", "write"}, file : Files \ {"type", "rxreport"}, text : Texts]
ClickSteps == Requests \cup Writes
ScriptSteps ==
    [op : {"read"}, file : Files]
    \cup [op : {"myftm_tx", "iwpriv_tx", "myftm_rx", "cw", "join", "off", "report"}, file : {""}]
Data ==
    /\ files \in [Files -> Texts] /\ files["type"] \in TypeTexts \cup {""}
    /\ display \in Texts
    /\ click \in Seq(ClickSteps)
    /\ requests \in Seq({"start", "stop"})
    /\ todo \in [Scripts -> Seq(ScriptSteps)]
    /\ \A s \in Scripts : Len(todo[s]) <= Len(Steps(s))
    /\ got \in [Scripts -> [Files -> Texts]]
    /\ radio \in Modes /\ asked \in [test : Modes, bonding : 0..6] /\ failed \subseteq Files
Bounds ==
    /\ locked \in BOOLEAN /\ hasty \in BOOLEAN
    /\ choices \in 0..MaxChoices /\ clicks \in 0..MaxClicks /\ trouble \in 0..MaxTrouble

(* A click handler, or what is left of it: a file is removed right before   *)
(* it is written, and is not touched again; after a request to the          *)
(* framework the handler writes nothing.                                    *)
Orderly(h) ==
    /\ \A j, k \in 1..Len(h) : j < k /\ h[j].op = "write" /\ h[k].op \in {"remove", "write"}
                                 => h[j].file # h[k].file
    /\ \A k \in 2..Len(h) : h[k].op = "write" => /\ h[k - 1].op = "remove"
                                                 /\ h[k - 1].file = h[k].file
    /\ \A j, k \in 1..Len(h) : j < k /\ h[j].op \in {"start", "stop"} => h[k].op = "report"
Handled == /\ Orderly(click)
           /\ click # <<>> /\ click[1].op = "write" => files[click[1].file] = ""

(* A file that has, or will have when the handler is through, one of the    *)
(* texts T, unless it could not be written; then it has none.               *)
Told(f, T) == files[f] \in T \/ (files[f] = "" /\ f \in failed)
Untouched(f) == \A k \in 1..Len(click) : click[k].file # f
ToWrite(f, T) == \E k \in 1..Len(click) :
                    click[k].op = "write" /\ click[k].file = f /\ click[k].text \in T
Promised(f, T) == (Told(f, T) /\ Untouched(f)) \/ ToWrite(f, T)

(* The texts that fit a test with the bonding b, by file, and what the      *)
(* script for it reads.                                                     *)
Fits(test, b, f) ==
    CASE f = "type" -> CASE test.mode = "tx" -> IF test.bonding = "" THEN {"7"} ELSE {"0"}
                         [] test.mode = "rx" -> {"2"}
                         [] test.mode = "cw" -> {"8"}
                         [] test.mode = "joined" -> {"1"}
                         [] OTHER -> {"4", "6"}
      [] f = "channel" -> IF test.mode \in {"tx", "rx"} /\ b \in {2, 5}
                          THEN Texts \ {""} ELSE {test.channel}
      [] f = "rate" -> IF b \in {4, 5} /\ test.rate \notin {"15", "16"}
                       THEN Texts \ {""} ELSE {test.rate}
      [] f = "power" -> {test.power}
      [] OTHER -> {test.bonding}
Reads(test) ==
    CASE test.mode = "tx" -> IF test.bonding = "" THEN {"channel", "rate", "power"}
                             ELSE {"channel", "rate", "power", "channel_bonding"}
      [] test.mode = "rx" -> {"channel", "rate", "channel_bonding"}
      [] test.mode = "cw" -> {"channel"}
      [] OTHER -> {}

(* What the screen showed at the last click.                                *)
Test == asked.test
Fitting(f) == Fits(Test, asked.bonding, f)
Needed == Reads(Test)
Asked == /\ \A f \in Needed : "" \notin Fitting(f)
         /\ Test.mode = "off" => Test = RadioOff
         /\ Test.mode = "joined" => Test = Mode("joined", "", "", "", "")
         /\ Test.mode = "cw" => Test = Mode("cw", Test.channel, "", "", "")
         /\ Test.mode = "rx" => Test.power = ""

Quiet == \A s \in Scripts : todo[s] = <<>>
InClick(op) == \E k \in 1..Len(click) : click[k].op = op
WillFit(op) == \/ op = "stop" /\ Test.mode = "off"
               \/ /\ op = "start"
                  /\ \A f \in Needed \cup {"type"} : Promised(f, Fitting(f))

(* The four stages of a click that was not made in haste: the handler       *)
(* works, its request waits for the framework, the script runs, and over.   *)
Handling == /\ requests = <<>> /\ Quiet /\ (InClick("start") \/ InClick("stop"))
            /\ \A op \in {"start", "stop"} : InClick(op) => WillFit(op)
            /\ asked.bonding \notin {2, 4, 5} =>
                 \A k \in 1..Len(click) : click[k].text \notin {"null", "garbage"}
Requested == /\ Len(requests) = 1 /\ Quiet
             /\ \A k \in 1..Len(click) : click[k].op = "report"
             /\ WillFit(requests[1])

ScriptFor(s) == CASE Test.mode = "tx" -> s = (IF Test.bonding = "" THEN "fixed" ELSE "tx")
                  [] Test.mode = "rx" -> s = "RxOn"
                  [] Test.mode = "cw" -> s = "wg"
                  [] Test.mode = "joined" -> s = "txn"
                  [] OTHER -> s \in {"RxStop", "rmmod", "TxStop"}
Done(s) == Len(Steps(s)) - Len(todo[s])
Running(s) ==
    /\ requests = <<>> /\ \A k \in 1..Len(click) : click[k].op = "report"
    /\ ScriptFor(s) /\ todo[s] # <<>> /\ \A t \in Scripts \ {s} : todo[t] = <<>>
    /\ \A k \in 1..Len(todo[s]) : todo[s][k] = Steps(s)[Done(s) + k]
    /\ \A f \in Needed : Told(f, Fitting(f))
    /\ \A k \in 1..Done(s) :
          /\ Steps(s)[k].op = "read" => got[s][Steps(s)[k].file] = files[Steps(s)[k].file]
          /\ Steps(s)[k].op = "off" => radio = RadioOff

AsShown == IF Test.mode = "off" THEN radio = RadioOff
           ELSE /\ radio.mode = Test.mode /\ radio.power = Test.power
                /\ radio.bonding = Test.bonding
                /\ asked.bonding \notin {2, 5} => radio.channel = Test.channel
                /\ ~(asked.bonding \in {4, 5} /\ Test.rate \notin {"15", "16"}) =>
                      radio.rate = Test.rate
NotStale == radio.mode = Test.mode /\ radio.mode \in {"tx", "rx"}
              /\ asked.bonding \notin {2, 4, 5} =>
    {radio.channel, radio.rate, radio.power, radio.bonding}
      \subseteq {Test.channel, Test.rate, Test.power, Test.bonding, ""}
Over == /\ requests = <<>> /\ Quiet /\ ~InClick("start") /\ ~InClick("stop")
        /\ failed = {} => AsShown
        /\ "type" \notin failed => NotStale

Stages == ~hasty => Handling \/ Requested \/ (\E s \in Scripts : Running(s)) \/ Over
Pipe == Handled /\ Asked /\ Stages

-----------------------------------------------------------------------------
VisibleOn(s) == CASE s = "BG" -> AllSpinners
                  [] s = "Receive" -> {"bonding", "channel", "rate"}
                  [] s = "Wave" -> {"channel"}
                  [] OTHER -> {}

LEMMA VisibleSpinners ==
    \A s : ToSet(Spinners(s)) = VisibleOn(s) /\ VisibleOn(s) \subseteq AllSpinners
<1> SUFFICES ASSUME NEW s
             PROVE  ToSet(Spinners(s)) = VisibleOn(s) /\ VisibleOn(s) \subseteq AllSpinners
  OBVIOUS
<1>1. CASE s = "BG"
  <2>1. Spinners(s) = <<"bonding", "channel", "rate", "power">>
    BY <1>1 DEF Spinners
  <2> QED BY <1>1, <2>1 DEF ToSet, VisibleOn, AllSpinners
<1>2. CASE s = "Receive"
  <2>1. Spinners(s) = <<"bonding", "channel", "rate">>
    BY <1>2 DEF Spinners
  <2> QED BY <1>2, <2>1 DEF ToSet, VisibleOn, AllSpinners
<1>3. CASE s = "Wave"
  <2>1. Spinners(s) = <<"channel">>
    BY <1>3 DEF Spinners
  <2> QED BY <1>3, <2>1 DEF ToSet, VisibleOn, AllSpinners
<1>4. CASE s \notin {"BG", "Receive", "Wave"}
  <2>1. Spinners(s) = <<>>
    BY <1>4 DEF Spinners
  <2> QED BY <1>4, <2>1 DEF ToSet, VisibleOn, AllSpinners
<1> QED BY <1>1, <1>2, <1>3, <1>4

LEMMA OffersBounds ==
    ASSUME NEW s, NEW spinner \in AllSpinners, NEW b
    PROVE  0 \in Offers(s, spinner, b) /\ Offers(s, spinner, b) \subseteq 0..6
<1>1. Len(ChannelsShown(b)) \in 2..3 /\ Len(RatesShown(b)) \in 2..3
  BY DEF ChannelsShown, Channels24G, Channels20M, Channels80M,
         RatesShown, Rates11b, Rates11g, Rates11n, Rates11ac
<1>2. \A n \in 2..3 : 0 \in 0..(n - 1) /\ 0..(n - 1) \subseteq 0..6
  OBVIOUS
<1>3. CASE spinner = "bonding"
  BY <1>3, BondingsAssumption DEF Offers
<1>4. CASE spinner = "channel" /\ s # "Wave"
  <2>1. Offers(s, spinner, b) = 0..(Len(ChannelsShown(b)) - 1)
    BY <1>4 DEF Offers
  <2> QED BY <1>1, <1>2, <2>1, Zenon
<1>5. CASE spinner = "rate"
  <2>1. Offers(s, spinner, b) = 0..(Len(RatesShown(b)) - 1)
    BY <1>5 DEF Offers
  <2> QED BY <1>1, <1>2, <2>1, Zenon
<1>6. CASE spinner = "power" \/ (spinner = "channel" /\ s = "Wave")
  <2>1. Offers(s, spinner, b) = 0..1
    BY <1>6 DEF Offers
  <2> QED BY <2>1
<1> QED BY <1>3, <1>4, <1>5, <1>6 DEF AllSpinners

LEMMA PositionsOffered ==
    \A s, spinner : Positions(s, spinner) = Offers(s, spinner, field["bonding"])
<1>1. Len(Powers) - 1 = 1 /\ {0, 1} = 0..1
  BY DEF Powers
<1> QED BY <1>1 DEF Positions, Offers

-----------------------------------------------------------------------------
(* The screens.                                                             *)
LEMMA LayoutRequested ==
    ASSUME NEW S, "layout" \in S, NEW rest \in Seq(S), RequestLayout(rest)
    PROVE  /\ queue' \in Seq(S) /\ Contains(queue', "layout")
           /\ \A e : Contains(rest, e) => Contains(queue', e)
<1>1. CASE Contains(rest, "layout")
  BY <1>1 DEF RequestLayout
<1>2. CASE ~Contains(rest, "layout")
  BY <1>2, AppendContains, AppendProperties DEF RequestLayout
<1> QED BY <1>1, <1>2

LEMMA LayoutKeeps ==
    ASSUME Screen, Reported, UNCHANGED screen, queue # <<>>, Head(queue) = "layout",
           Layout(Tail(queue))
    PROVE  Screen' /\ Reported'
<1> DEFINE S == {"layout"} \cup Visible
           rest == Tail(queue)
           a == rest \o Notifier("bonding")
           b == a \o Notifier("channel")
           c == b \o Notifier("rate")
<1>1. queue \in Seq(S) /\ rest \in Seq(S)
  BY HeadTailProperties DEF Screen
<1> HIDE DEF rest, a, b, c
<1>2. ASSUME NEW s PROVE /\ Notifier(s) \in Seq(S)
                         /\ s \in Visible /\ sel[s] # old[s] => Contains(Notifier(s), s)
  <2>1. CASE s \in Visible /\ sel[s] # old[s]
    <3>1. Notifier(s) = <<s>>
      BY <2>1 DEF Notifier
    <3> QED BY <2>1, <3>1 DEF Contains
  <2>2. CASE ~(s \in Visible /\ sel[s] # old[s])
    BY <2>2 DEF Notifier
  <2> QED BY <2>1, <2>2
<1>3. a \in Seq(S) /\ \A e : Contains(a, e) <=> Contains(rest, e) \/ Contains(Notifier("bonding"), e)
  BY <1>1, <1>2, ConcatProperties, ConcatContains DEF a
<1>4. b \in Seq(S) /\ \A e : Contains(b, e) <=> Contains(a, e) \/ Contains(Notifier("channel"), e)
  BY <1>2, <1>3, ConcatProperties, ConcatContains DEF b
<1>5. c \in Seq(S) /\ \A e : Contains(c, e) <=> Contains(b, e) \/ Contains(Notifier("rate"), e)
  BY <1>2, <1>4, ConcatProperties, ConcatContains DEF c
<1>6. queue' = c \o Notifier("power")
  BY DEF Layout, rest, a, b, c
<1>7. queue' \in Seq(S) /\ \A e : Contains(queue', e) <=> Contains(c, e) \/ Contains(Notifier("power"), e)
  BY <1>2, <1>5, <1>6, ConcatProperties, ConcatContains
<1>8. Visible \subseteq AllSpinners /\ Visible' = Visible
  BY VisibleSpinners DEF Visible
<1>9. ASSUME NEW s \in Visible, sel[s] # old[s] PROVE Contains(queue', s)
  BY <1>2, <1>3, <1>4, <1>5, <1>7, <1>8, <1>9 DEF AllSpinners
<1>10. ASSUME NEW s \in Visible, Contains(queue, s) PROVE Contains(queue', s)
  <2>1. s # "layout" /\ Contains(rest, s)
    BY <1>1, <1>8, <1>10, TailContains DEF AllSpinners, rest
  <2> QED BY <2>1, <1>3, <1>4, <1>5, <1>7
<1>11. \A s \in Visible : old'[s] = sel[s]
  BY <1>8 DEF Layout
<1>12. UNCHANGED <<field, sel>> /\ old' \in [AllSpinners -> -1..6]
  BY DEF Layout, Screen
<1>13. Screen'
  BY <1>7, <1>8, <1>12 DEF Screen
<1>14. Reported'
  BY <1>8, <1>9, <1>10, <1>11, <1>12 DEF Reported
<1> QED BY <1>13, <1>14

LEMMA SelectionKeeps ==
    ASSUME Screen, Reported, UNCHANGED screen, queue # <<>>, Head(queue) # "layout",
           OnItemSelected(Head(queue), Tail(queue))
    PROVE  Screen' /\ Reported'
<1> DEFINE S == {"layout"} \cup Visible
           s == Head(queue)
           R == FieldsReset(s)
<1>1. queue \in Seq(S) /\ Tail(queue) \in Seq(S) /\ s \in Visible
  BY HeadTailProperties DEF Screen
<1>2. /\ Visible \subseteq AllSpinners /\ Visible' = Visible
      /\ screen = "Wave" => Visible = {"channel"}
  BY VisibleSpinners DEF Visible, VisibleOn
<1> HIDE DEF s
<1>3. /\ R \subseteq {"channel", "rate"} /\ s \notin R
      /\ s = "bonding" => R = {"channel", "rate"}
  BY <1>1, <1>2 DEF FieldsReset
<1> HIDE DEF R
<1>4. /\ \A p \in AllSpinners :
            /\ field'[p] = IF p = s THEN sel[s] ELSE IF p \in R THEN 0 ELSE field[p]
            /\ sel'[p] = IF p \in R THEN 0 ELSE sel[p]
            /\ old'[p] = IF p \in R THEN -1 ELSE old[p]
  BY <1>3 DEF OnItemSelected, SetSelection, ViewsReset, s, R
<1>5. /\ field' \in [AllSpinners -> 0..6] /\ sel' \in [AllSpinners -> 0..6]
      /\ old' \in [AllSpinners -> -1..6]
  <2>1. \A p \in AllSpinners : field'[p] \in 0..6 /\ sel'[p] \in 0..6 /\ old'[p] \in -1..6
    BY <1>1, <1>2, <1>4 DEF Screen
  <2>2. /\ field' = [p \in AllSpinners |-> field'[p]] /\ sel' = [p \in AllSpinners |-> sel'[p]]
        /\ old' = [p \in AllSpinners |-> old'[p]]
    BY Zenon DEF OnItemSelected, SetSelection
  <2> QED BY <2>1, <2>2
<1>6. queue' \in Seq(S) /\ (\A e : Contains(Tail(queue), e) => Contains(queue', e))
      /\ (R # {} => Contains(queue', "layout"))
  <2>1. IF R = {} THEN queue' = Tail(queue) ELSE RequestLayout(Tail(queue))
    BY DEF OnItemSelected, ViewsReset, s, R
  <2> QED BY <1>1, <2>1, LayoutRequested
<1>7. sel[s] \in Offers(screen, s, field["bonding"])
  BY <1>1 DEF Screen
<1>8. field'["power"] \in 0..1 /\ (screen = "Wave" => field'["channel"] \in 0..1)
  BY <1>2, <1>3, <1>4, <1>7 DEF Screen, Offers, AllSpinners
<1>9. \A p \in Visible : sel'[p] \in Offers(screen, p, field'["bonding"])
  <2> SUFFICES ASSUME NEW p \in Visible PROVE sel'[p] \in Offers(screen, p, field'["bonding"])
    OBVIOUS
  <2>1. CASE p \in R
    BY <2>1, <1>2, <1>4, OffersBounds
  <2>2. CASE p \notin R
    <3>1. sel'[p] = sel[p] /\ sel[p] \in Offers(screen, p, field["bonding"])
      BY <2>2, <1>2, <1>4 DEF Screen
    <3>2. CASE p \in {"bonding", "power"} \/ screen = "Wave"
      BY <3>1, <3>2, <1>2 DEF Offers
    <3>3. CASE p \notin {"bonding", "power"} /\ screen # "Wave"
      <4>1. s # "bonding"
        BY <1>2, <1>3, <2>2, <3>3 DEF AllSpinners
      <4>2. field'["bonding"] = field["bonding"]
        BY <4>1, <1>3, <1>4 DEF AllSpinners
      <4> QED BY <3>1, <4>2
    <3> QED BY <3>2, <3>3
  <2> QED BY <2>1, <2>2
<1>10. Screen'
  BY <1>2, <1>5, <1>6, <1>8, <1>9 DEF Screen
<1>11. Reported'
  <2> SUFFICES ASSUME NEW p \in Visible
               PROVE  /\ sel'[p] # old'[p] => Contains(queue', "layout")
                      /\ field'[p] # sel'[p] => sel'[p] # old'[p] \/ Contains(queue', p)
    BY <1>2 DEF Reported
  <2>1. \A e : e # s /\ Contains(queue, e) => Contains(queue', e)
    BY <1>1, <1>6, TailContains DEF s
  <2>2. s # "layout" /\ p \in AllSpinners
    BY <1>2 DEF s
  <2>3. CASE p \in R
    BY <1>4, <1>6, <2>2, <2>3
  <2>4. CASE p = s
    BY <1>3, <1>4, <2>1, <2>2, <2>4 DEF Reported
  <2>5. CASE p \notin R /\ p # s
    BY <1>4, <2>1, <2>2, <2>5 DEF Reported
  <2> QED BY <2>3, <2>4, <2>5
<1> QED BY <1>10, <1>11

(* An activity starts with everything at its first entry.                   *)
LEMMA OpenKeeps ==
    ASSUME NEW s \in Screens \cup {"menu"}, Screen, screen' = s,
           field' = Fresh, sel' = Fresh, old' \in [AllSpinners -> {-1}],
           queue' = IF Spinners(s) = <<>> THEN <<>> ELSE <<"layout">>
    PROVE  Screen' /\ Reported'
<1>1. Visible' = ToSet(Spinners(s)) /\ Visible' \subseteq AllSpinners
  BY VisibleSpinners DEF Visible
<1>2. queue' \in Seq({"layout"} \cup Visible')
  <2>1. \A S : <<>> \in Seq({"layout"} \cup S) /\ <<"layout">> \in Seq({"layout"} \cup S)
    OBVIOUS
  <2> QED BY <2>1, Zenon
<1>3. \A p \in AllSpinners : field'[p] = 0 /\ sel'[p] = 0
  BY DEF Fresh
<1>4. \A p \in Visible' : sel'[p] \in Offers(s, p, field'["bonding"])
  BY <1>1, <1>3, OffersBounds
<1>5. Screen'
  BY <1>1, <1>2, <1>3, <1>4 DEF Screen, Fresh, AllSpinners
<1>6. Reported'
  <2>1. CASE Spinners(s) = <<>>
    BY <1>1, <2>1 DEF Reported, ToSet
  <2>2. CASE Spinners(s) # <<>>
    <3>1. Contains(queue', "layout")
      BY <2>2 DEF Contains
    <3> QED BY <1>1, <1>3, <3>1 DEF Reported
  <2> QED BY <2>1, <2>2
<1> QED BY <1>5, <1>6

LEMMA ChooseKeeps ==
    ASSUME Screen, Reported, NEW s \in AllSpinners, NEW p, Choose(s, p)
    PROVE  Screen' /\ Reported'
<1>1. /\ queue = <<>> /\ s \in Visible /\ p # sel[s]
      /\ p \in Offers(screen, s, field["bonding"])
      /\ RequestLayout(queue) /\ sel' = [sel EXCEPT ![s] = p]
      /\ UNCHANGED <<screen, field, old>>
  BY PositionsOffered DEF Choose, Settled
<1>2. Visible' = Visible /\ Visible \subseteq AllSpinners
  BY <1>1, VisibleSpinners DEF Visible
<1>3. queue' \in Seq({"layout"} \cup Visible) /\ Contains(queue', "layout")
  BY <1>1, LayoutRequested DEF Screen
<1>4. p \in 0..6
  BY <1>1, OffersBounds
<1>5. Screen'
  BY <1>1, <1>2, <1>3, <1>4 DEF Screen
<1>6. \A q \in Visible : sel[q] = old[q] /\ field[q] = sel[q]
  BY <1>1, NothingContained DEF Reported
<1>7. Reported'
  BY <1>1, <1>2, <1>3, <1>6 DEF Reported, Screen
<1> QED BY <1>5, <1>7

(* Nothing is shown in the menu.                                            *)
LEMMA MenuKeeps ==
    ASSUME Screen, screen' = "menu", queue' = <<>>, UNCHANGED <<field, sel, old>>
    PROVE  Screen' /\ Reported'
<1>1. Visible' = {}
  BY VisibleSpinners DEF Visible, VisibleOn
<1> QED BY <1>1 DEF Screen, Reported

LEMMA ScreenUnchanged ==
    ASSUME Screen, Reported, UNCHANGED <<screen, field, sel, old, queue>>
    PROVE  Screen' /\ Reported'
<1>1. Visible' = Visible
  BY DEF Visible
<1> QED BY <1>1 DEF Screen, Reported

LEMMA ScreenNext == Screen /\ Reported /\ [Next]_vars => Screen' /\ Reported'
<1> SUFFICES ASSUME Screen, Reported, [Next]_vars PROVE Screen' /\ Reported'
  OBVIOUS
<1>1. ASSUME NEW s \in Screens, Open(s) PROVE Screen' /\ Reported'
  <2>1. old' \in [AllSpinners -> {-1}]
    BY <1>1 DEF Open
  <2> QED BY <1>1, <2>1, OpenKeeps DEF Open
<1>2. CASE Back \/ Crash
  BY <1>2, MenuKeeps DEF Back, Crash
<1>3. CASE HandleMessage
  BY <1>3, LayoutKeeps, SelectionKeeps DEF HandleMessage
<1>4. ASSUME NEW s \in AllSpinners, NEW p \in 0..2 \cup Bondings, Choose(s, p)
      PROVE  Screen' /\ Reported'
  BY <1>4, ChooseKeeps
<1>5. CASE ClickStart \/ ClickStop
  BY <1>5, ScreenUnchanged DEF ClickStart, ClickStop, ClickButton
<1>6. CASE HandlerStep
  BY <1>6, ScreenUnchanged DEF HandlerStep, screenVars
<1>7. CASE Dispatch
  BY <1>7, ScreenUnchanged DEF Dispatch, screenVars
<1>8. ASSUME NEW s \in Scripts, ScriptStep(s) PROVE Screen' /\ Reported'
  BY <1>8, ScreenUnchanged DEF ScriptStep, screenVars
<1>9. CASE UNCHANGED vars
  BY <1>9, ScreenUnchanged DEF vars, screenVars
<1> QED BY <1>1, <1>2, <1>3, <1>4, <1>5, <1>6, <1>7, <1>8, <1>9 DEF Next, Tester, MainThread

LEMMA ScreenInit == Init => Screen /\ Reported
<1> SUFFICES ASSUME Init PROVE Screen /\ Reported
  OBVIOUS
<1>1. Visible = {}
  BY VisibleSpinners DEF Visible, VisibleOn, Init
<1> QED BY <1>1 DEF Init, Screen, Reported, Fresh, AllSpinners

(* When the main thread is done, the fields are what the spinners show, and *)
(* within the lists they show.                                              *)
THEOREM ScreenIsTold == Spec => []ScreenTellsFields
<1>1. Screen /\ Reported => ScreenTellsFields
  BY NothingContained, PositionsOffered DEF Screen, Reported, ScreenTellsFields
<1> QED BY <1>1, ScreenInit, ScreenNext, PTL DEF Spec

-----------------------------------------------------------------------------
(* Click handlers.  What a handler writes, as pairs of file and text.       *)
Plan(h, P) ==
    /\ h \in Seq(Writes) /\ Orderly(h)
    /\ h # <<>> => h[1].op = "remove"
    /\ \A k \in 1..Len(h) : <<h[k].file, h[k].text>> \in P
    /\ \A p \in P : \E k \in 1..Len(h) :
          h[k].op = "write" /\ h[k].file = p[1] /\ h[k].text = p[2]

LEMMA SetPlan ==
    ASSUME NEW f \in Files \ {"rxreport"}, NEW t \in Texts, f = "type" => t \in TypeTexts
    PROVE  Plan(Set(f, t), {<<f, t>>})
<1> DEFINE a == [op |-> "remove", file |-> f, text |-> t]
           b == [op |-> "write", file |-> f, text |-> t]
<1>1. Set(f, t) = <<a, b>> /\ a \in Writes /\ b \in Writes
  BY DEF Set, Writes
<1>2. /\ a.op = "remove" /\ b.op = "write" /\ a.file = f /\ b.file = f
      /\ a.text = t /\ b.text = t
  OBVIOUS
<1> HIDE DEF a, b
<1>3. /\ Set(f, t) \in Seq(Writes) /\ Len(Set(f, t)) = 2
      /\ Set(f, t)[1] = a /\ Set(f, t)[2] = b
  BY <1>1
<1>4. Orderly(Set(f, t))
  BY <1>2, <1>3 DEF Orderly
<1> QED BY <1>2, <1>3, <1>4 DEF Plan

LEMMA ConcatPlaces ==
    ASSUME NEW S, NEW h \in Seq(S), NEW g \in Seq(S)
    PROVE  /\ h \o g \in Seq(S) /\ Len(h \o g) = Len(h) + Len(g)
           /\ Len(h) \in Nat /\ Len(g) \in Nat
           /\ \A k \in 1..Len(h) : k \in 1..Len(h \o g) /\ (h \o g)[k] = h[k]
           /\ \A k \in 1..Len(g) : k + Len(h) \in 1..Len(h \o g) /\ (h \o g)[k + Len(h)] = g[k]
           /\ \A k \in 1..Len(h \o g) :
                 \/ k \in 1..Len(h) /\ (h \o g)[k] = h[k]
                 \/ k - Len(h) \in 1..Len(g) /\ (h \o g)[k] = g[k - Len(h)]
<1>1. /\ h \o g \in Seq(S) /\ Len(h \o g) = Len(h) + Len(g)
      /\ \A k \in 1..Len(h) + Len(g) :
            (h \o g)[k] = IF k <= Len(h) THEN h[k] ELSE g[k - Len(h)]
      /\ Len(h) \in Nat /\ Len(g) \in Nat
  BY ConcatProperties, LenProperties
<1> QED BY <1>1

(* Handlers one after the other, of which the first asks for nothing and    *)
(* touches no file of the second.                                           *)
LEMMA JoinOrderly ==
    ASSUME NEW h \in Seq(Writes), NEW g \in Seq(ClickSteps), Orderly(h), Orderly(g),
           g # <<>> => g[1].op # "write",
           \A j \in 1..Len(h), k \in 1..Len(g) :
              g[k].op \in {"remove", "write"} => h[j].file # g[k].file
    PROVE  Orderly(h \o g)
<1> DEFINE c == h \o g
           n == Len(h)
<1>1. /\ n \in Nat /\ Len(g) \in Nat /\ Len(c) = n + Len(g)
      /\ \A k \in 1..Len(c) : \/ k \in 1..n /\ c[k] = h[k]
                              \/ k - n \in 1..Len(g) /\ c[k] = g[k - n]
  <2>1. h \in Seq(ClickSteps)
    BY DEF ClickSteps
  <2> QED BY <2>1, ConcatPlaces
<1>2. \A k \in 1..n : h[k].op \in {"remove", "write"}
  BY ElementOfSeq DEF Writes
<1> HIDE DEF c
<1>3. ASSUME NEW j \in 1..Len(c), NEW k \in 1..Len(c), j < k, c[j].op = "write",
             c[k].op \in {"remove", "write"}
      PROVE  c[j].file # c[k].file
  <2>1. CASE k \in 1..n
    <3>1. j \in 1..n /\ c[j] = h[j] /\ c[k] = h[k]
      BY <1>1, <1>3, <2>1
    <3> QED BY <1>3, <2>1, <3>1 DEF Orderly
  <2>2. CASE k \notin 1..n /\ j \in 1..n
    <3>1. k - n \in 1..Len(g) /\ c[j] = h[j] /\ c[k] = g[k - n]
      BY <1>1, <2>2
    <3> QED BY <1>3, <2>2, <3>1
  <2>3. CASE k \notin 1..n /\ j \notin 1..n
    <3>1. /\ k - n \in 1..Len(g) /\ j - n \in 1..Len(g) /\ j - n < k - n
          /\ c[j] = g[j - n] /\ c[k] = g[k - n]
      BY <1>1, <1>3, <2>3
    <3>2. \A a, b \in 1..Len(g) : a < b /\ g[a].op = "write" /\ g[b].op \in {"remove", "write"}
                                 => g[a].file # g[b].file
      BY DEF Orderly
    <3> QED BY <1>3, <3>1, <3>2
  <2> QED BY <2>1, <2>2, <2>3
<1>4. ASSUME NEW k \in 2..Len(c), c[k].op = "write"
      PROVE  c[k - 1].op = "remove" /\ c[k - 1].file = c[k].file
  <2>1. CASE k \in 1..n
    <3>1. k \in 2..n /\ k - 1 \in 1..n /\ c[k] = h[k] /\ c[k - 1] = h[k - 1]
      BY <1>1, <2>1
    <3> QED BY <1>4, <3>1 DEF Orderly
  <2>2. CASE k \notin 1..n
    <3>1. k - n \in 1..Len(g) /\ c[k] = g[k - n]
      BY <1>1, <2>2
    <3>2. k - n # 1
      BY <1>4, <3>1
    <3>3. k - n \in 2..Len(g) /\ k - 1 \in 1..Len(c) /\ k - 1 \notin 1..n /\ (k - 1) - n = (k - n) - 1
      BY <1>1, <2>2, <3>1, <3>2
    <3>4. c[k - 1] = g[(k - n) - 1]
      BY <1>1, <3>3
    <3> QED BY <1>4, <3>1, <3>3, <3>4 DEF Orderly
  <2> QED BY <2>1, <2>2
<1>5. ASSUME NEW j \in 1..Len(c), NEW k \in 1..Len(c), j < k, c[j].op \in {"start", "stop"}
      PROVE  c[k].op = "report"
  <2>1. j - n \in 1..Len(g) /\ c[j] = g[j - n]
    BY <1>1, <1>2, <1>5
  <2>2. k - n \in 1..Len(g) /\ c[k] = g[k - n] /\ j - n < k - n
    BY <1>1, <1>5, <2>1
  <2> QED BY <1>5, <2>1, <2>2 DEF Orderly
<1> QED BY <1>3, <1>4, <1>5 DEF Orderly, c

LEMMA JoinPlan ==
    ASSUME NEW h, NEW g, NEW P, NEW Q, Plan(h, P), Plan(g, Q),
           \A p \in P, q \in Q : p[1] # q[1]
    PROVE  Plan(h \o g, P \cup Q)
<1>1. h \in Seq(Writes) /\ g \in Seq(Writes)
  BY DEF Plan
<1>2. ASSUME NEW j \in 1..Len(h), NEW k \in 1..Len(g) PROVE h[j].file # g[k].file
  <2>1. <<h[j].file, h[j].text>> \in P /\ <<g[k].file, g[k].text>> \in Q
    BY DEF Plan
  <2> QED BY <2>1
<1>3. Orderly(h \o g)
  <2>1. g \in Seq(ClickSteps) /\ (g # <<>> => g[1].op # "write")
    BY <1>1 DEF Plan, ClickSteps
  <2> QED BY <1>1, <1>2, <2>1, JoinOrderly DEF Plan
<1>4. h \o g # <<>> => (h \o g)[1].op = "remove"
  <2>1. CASE h = <<>>
    BY <1>1, <2>1, ConcatEmptySeq DEF Plan
  <2>2. CASE h # <<>>
    <3>1. 1 \in 1..Len(h)
      BY <1>1, <2>2, EmptySeq
    <3> QED BY <1>1, <2>2, <3>1, ConcatPlaces DEF Plan
  <2> QED BY <2>1, <2>2
<1> DEFINE c == h \o g
<1>5. /\ \A k \in 1..Len(h) : k \in 1..Len(c) /\ c[k] = h[k]
      /\ \A k \in 1..Len(g) : k + Len(h) \in 1..Len(c) /\ c[k + Len(h)] = g[k]
      /\ \A k \in 1..Len(c) : \/ k \in 1..Len(h) /\ c[k] = h[k]
                              \/ k - Len(h) \in 1..Len(g) /\ c[k] = g[k - Len(h)]
      /\ c \in Seq(Writes)
  BY <1>1, ConcatPlaces
<1> HIDE DEF c
<1>6. ASSUME NEW k \in 1..Len(c) PROVE <<c[k].file, c[k].text>> \in P \cup Q
  <2>1. CASE k \in 1..Len(h) /\ c[k] = h[k]
    BY <2>1 DEF Plan
  <2>2. CASE k - Len(h) \in 1..Len(g) /\ c[k] = g[k - Len(h)]
    BY <2>2 DEF Plan
  <2> QED BY <1>5, <2>1, <2>2
<1>7. ASSUME NEW p \in P \cup Q
      PROVE  \E k \in 1..Len(c) : c[k].op = "write" /\ c[k].file = p[1] /\ c[k].text = p[2]
  <2>1. CASE p \in P
    <3>1. PICK k \in 1..Len(h) : h[k].op = "write" /\ h[k].file = p[1] /\ h[k].text = p[2]
      BY <2>1 DEF Plan
    <3> QED BY <1>5, <3>1
  <2>2. CASE p \in Q
    <3>1. PICK k \in 1..Len(g) : g[k].op = "write" /\ g[k].file = p[1] /\ g[k].text = p[2]
      BY <2>2 DEF Plan
    <3>2. k + Len(h) \in 1..Len(c) /\ c[k + Len(h)] = g[k]
      BY <1>5
    <3> QED BY <3>1, <3>2, Zenon
  <2> QED BY <2>1, <2>2
<1> QED BY <1>3, <1>4, <1>5, <1>6, <1>7 DEF Plan, c

(* A plan, and then what is asked of the framework.                         *)
Handler(c, P, g) ==
    /\ c \in Seq(ClickSteps) /\ Orderly(c)
    /\ c # <<>> => c[1].op # "write"
    /\ \A p \in P : \E k \in 1..Len(c) :
          c[k].op = "write" /\ c[k].file = p[1] /\ c[k].text = p[2]
    /\ \A k \in 1..Len(c) : c[k].text = "" \/ \E p \in P : c[k].text = p[2]
    /\ \A k \in 1..Len(c) : c[k].op \in {"remove", "write"} \cup {g[i].op : i \in 1..Len(g)}
    /\ \A i \in 1..Len(g) : \E k \in 1..Len(c) : c[k].op = g[i].op

LEMMA PlanAndRequests ==
    ASSUME NEW h, NEW P, Plan(h, P), NEW g \in Seq(Requests),
           \A i \in 2..Len(g) : g[i].op = "report"
    PROVE  Handler(h \o g, P, g)
<1> DEFINE c == h \o g
<1>1. /\ h \in Seq(Writes) /\ h \in Seq(ClickSteps) /\ g \in Seq(ClickSteps)
  BY DEF Plan, ClickSteps
<1>2. \A i \in 1..Len(g) : g[i] \in Requests
  BY ElementOfSeq
<1>3. \A i \in 1..Len(g) : g[i].op \in {"start", "stop", "report"} /\ g[i].text = ""
  BY <1>2 DEF Requests
<1>4. Orderly(g) /\ (g # <<>> => g[1].op # "write")
  <2>1. Len(g) \in Nat /\ (g # <<>> => 1 \in 1..Len(g))
    BY EmptySeq, LenProperties
  <2>2. \A i \in 1..Len(g) : g[i].op \notin {"remove", "write"}
    BY <1>3
  <2>3. \A j, k \in 1..Len(g) : j < k => g[k].op = "report"
    <3> SUFFICES ASSUME NEW j \in 1..Len(g), NEW k \in 1..Len(g), j < k PROVE k \in 2..Len(g)
      OBVIOUS
    <3> QED BY <2>1
  <2>4. \A k \in 2..Len(g) : k \in 1..Len(g)
    BY <2>1
  <2>5. Orderly(g)
    BY <2>2, <2>3, <2>4 DEF Orderly
  <2> QED BY <2>1, <2>2, <2>5
<1>5. Orderly(c)
  BY <1>1, <1>3, <1>4, JoinOrderly DEF Plan
<1>6. /\ c \in Seq(ClickSteps)
      /\ \A k \in 1..Len(h) : k \in 1..Len(c) /\ c[k] = h[k]
      /\ \A k \in 1..Len(g) : k + Len(h) \in 1..Len(c) /\ c[k + Len(h)] = g[k]
      /\ \A k \in 1..Len(c) : \/ k \in 1..Len(h) /\ c[k] = h[k]
                              \/ k - Len(h) \in 1..Len(g) /\ c[k] = g[k - Len(h)]
  BY <1>1, ConcatPlaces
<1>7. c # <<>> => c[1].op # "write"
  <2>1. CASE h = <<>>
    BY <1>1, <1>4, <2>1, ConcatEmptySeq
  <2>2. CASE h # <<>>
    <3>1. 1 \in 1..Len(h)
      BY <1>1, <2>2, EmptySeq
    <3> QED BY <1>6, <2>2, <3>1 DEF Plan
  <2> QED BY <2>1, <2>2
<1> HIDE DEF c
<1>8. ASSUME NEW p \in P
      PROVE  \E k \in 1..Len(c) : c[k].op = "write" /\ c[k].file = p[1] /\ c[k].text = p[2]
  <2>1. PICK k \in 1..Len(h) : h[k].op = "write" /\ h[k].file = p[1] /\ h[k].text = p[2]
    BY DEF Plan
  <2> QED BY <1>6, <2>1
<1>9. ASSUME NEW k \in 1..Len(c)
      PROVE  /\ c[k].text = "" \/ \E p \in P : c[k].text = p[2]
             /\ c[k].op \in {"remove", "write"} \cup {g[i].op : i \in 1..Len(g)}
  <2>1. CASE k \in 1..Len(h) /\ c[k] = h[k]
    <3>1. h[k] \in Writes /\ <<h[k].file, h[k].text>> \in P
      BY <2>1, <1>1, ElementOfSeq DEF Plan
    <3>2. h[k].op \in {"remove", "write"}
      BY <3>1 DEF Writes
    <3>3. h[k].text = <<h[k].file, h[k].text>>[2]
      OBVIOUS
    <3> QED BY <2>1, <3>1, <3>2, <3>3
  <2>2. CASE k - Len(h) \in 1..Len(g) /\ c[k] = g[k - Len(h)]
    BY <1>3, <2>2
  <2> QED BY <1>6, <2>1, <2>2
<1>10. ASSUME NEW i \in 1..Len(g) PROVE \E k \in 1..Len(c) : c[k].op = g[i].op
  <2>1. i + Len(h) \in 1..Len(c) /\ c[i + Len(h)] = g[i]
    BY <1>6
  <2> QED BY <2>1, Zenon
<1> QED BY <1>5, <1>6, <1>7, <1>8, <1>9, <1>10 DEF Handler, c

RateText == EntryOr(RatesWritten(field.bonding), field.rate, "garbage")
ChannelText == EntryOr(ChannelsWritten(field.bonding), field.channel, "null")
SettingPairs(s) ==
    CASE s = "BG" -> {<<"channel_bonding", Bonding(field.bonding)>>, <<"rate", RateText>>,
                      <<"channel", ChannelText>>, <<"power", Entry(Powers, field.power)>>}
      [] s = "Receive" -> {<<"channel_bonding", Bonding(field.bonding)>>, <<"rate", RateText>>,
                           <<"channel", ChannelText>>}
      [] s = "N" -> {<<"ssid", "net">>, <<"ip", "host">>}
      [] OTHER -> {<<"channel", Entry(Channels20M, field.channel)>>, <<"dgain", "1">>}
StartPairs(s) == {<<"type", StartType(s)>>} \cup SettingPairs(s)
StopPairs(s) == CASE s = "Receive" -> {<<"type", "6">>} [] s = "N" -> {<<"type", "4">>}
                  [] OTHER -> {}
Asks(op) == [op |-> op, file |-> "", text |-> ""]

LEMMA TextsWritten ==
    ASSUME Screen
    PROVE  /\ Bonding(field.bonding) \in {"0", "1", "2", "3", "4", "5", "6"}
           /\ RateText \in {"1", "2", "4", "5", "15", "16", "23", "garbage"}
           /\ ChannelText \in {"1", "2", "36", "3", "38", "42", "46", "null"}
           /\ Entry(Powers, field.power) = IF field["power"] = 0 THEN "00" ELSE "10"
           /\ field["channel"] \in 0..2 => Entry(Channels20M, field.channel) \in {"1", "2", "36"}
<1>1. /\ field["bonding"] \in 0..6 /\ field["rate"] \in 0..6 /\ field["channel"] \in 0..6
      /\ field["power"] \in 0..1
  BY DEF Screen, AllSpinners
<1>2. Bonding(field.bonding) \in {"0", "1", "2", "3", "4", "5", "6"}
  BY <1>1 DEF Bonding
<1>3. RateText \in {"1", "2", "4", "5", "15", "16", "23", "garbage"}
  BY <1>1 DEF RateText, EntryOr, Entry, RatesWritten, Rates11g, Rates11b, Rates11n, Rates11ac
<1>4. ChannelText \in {"1", "2", "36", "3", "38", "42", "46", "null"}
  BY <1>1 DEF ChannelText, EntryOr, Entry, ChannelsWritten, Channels24G, Channels20M,
              Channels40M, Channels80M
<1>5. /\ Entry(Powers, field.power) = IF field["power"] = 0 THEN "00" ELSE "10"
      /\ field["channel"] \in 0..2 => Entry(Channels20M, field.channel) \in {"1", "2", "36"}
  BY <1>1 DEF Entry, Powers, Channels20M
<1> QED BY <1>2, <1>3, <1>4, <1>5

LEMMA EmptyPlan == Plan(<<>>, {})
  BY DEF Plan, Orderly

LEMMA OneRequest ==
    ASSUME NEW op \in {"start", "stop", "report"}
    PROVE  /\ Do(op) = <<Asks(op)>> /\ Do(op) \in Seq(Requests) /\ Len(Do(op)) = 1
           /\ \A i \in 2..Len(Do(op)) : Do(op)[i].op = "report"
<1>1. Do(op) = <<Asks(op)>> /\ Asks(op) \in Requests
  BY DEF Do, Asks, Requests
<1> HIDE DEF Asks
<1> QED BY <1>1

LEMMA BondingPlanned ==
    ASSUME Screen
    PROVE  Plan(Set("channel_bonding", Bonding(field.bonding)) \o SetRateBw \o SetChannelBw,
                {<<"channel_bonding", Bonding(field.bonding)>>, <<"rate", RateText>>,
                 <<"channel", ChannelText>>})
<1> DEFINE b == Set("channel_bonding", Bonding(field.bonding))
           B == {<<"channel_bonding", Bonding(field.bonding)>>}
           R == {<<"rate", RateText>>}
           C == {<<"channel", ChannelText>>}
<1>1. Plan(b, B)
  BY TextsWritten, SetPlan DEF Files, Texts
<1>2. Plan(SetRateBw, R)
  <2>1. SetRateBw = Set("rate", RateText)
    BY DEF SetRateBw, RateText
  <2> QED BY <2>1, TextsWritten, SetPlan DEF Files, Texts
<1>3. Plan(SetChannelBw, C)
  <2>1. SetChannelBw = Set("channel", ChannelText)
    BY DEF SetChannelBw, ChannelText
  <2> QED BY <2>1, TextsWritten, SetPlan DEF Files, Texts
<1>4. \A p \in B, q \in R : p[1] # q[1]
  OBVIOUS
<1>5. \A p \in B \cup R, q \in C : p[1] # q[1]
  OBVIOUS
<1> HIDE DEF b
<1>6. Plan(b \o SetRateBw, B \cup R)
  BY <1>1, <1>2, <1>4, JoinPlan
<1>7. Plan(b \o SetRateBw \o SetChannelBw, (B \cup R) \cup C)
  BY <1>3, <1>5, <1>6, JoinPlan
<1>8. (B \cup R) \cup C = {<<"channel_bonding", Bonding(field.bonding)>>, <<"rate", RateText>>,
                           <<"channel", ChannelText>>}
  OBVIOUS
<1> QED BY <1>7, <1>8 DEF b

LEMMA SettingsPlanned ==
    ASSUME Screen, screen \in Screens
    PROVE  Plan(Settings(screen), SettingPairs(screen))
<1> DEFINE bw == Set("channel_bonding", Bonding(field.bonding)) \o SetRateBw \o SetChannelBw
           BW == {<<"channel_bonding", Bonding(field.bonding)>>, <<"rate", RateText>>,
                  <<"channel", ChannelText>>}
<1>1. Plan(bw, BW)
  BY BondingPlanned
<1> HIDE DEF bw
<1>2. CASE screen = "BG"
  <2> DEFINE p == Set("power", Entry(Powers, field.power))
             P == {<<"power", Entry(Powers, field.power)>>}
  <2>1. Plan(p, P)
    BY TextsWritten, SetPlan DEF Files, Texts
  <2>2. \A a \in BW, b \in P : a[1] # b[1]
    OBVIOUS
  <2> HIDE DEF p
  <2>3. Plan(bw \o p, BW \cup P)
    BY <1>1, <2>1, <2>2, JoinPlan
  <2>4. Settings(screen) = bw \o p
    BY <1>2 DEF Settings, bw, p
  <2>5. SettingPairs(screen) = BW \cup P
    BY <1>2 DEF SettingPairs
  <2> QED BY <2>3, <2>4, <2>5
<1>3. CASE screen = "Receive"
  <2>1. Settings(screen) = bw
    BY <1>3 DEF Settings, bw
  <2>2. SettingPairs(screen) = BW
    BY <1>3 DEF SettingPairs
  <2> QED BY <1>1, <2>1, <2>2
<1>4. CASE screen = "N"
  <2>1. Plan(Set("ssid", "net"), {<<"ssid", "net">>}) /\ Plan(Set("ip", "host"), {<<"ip", "host">>})
    BY SetPlan DEF Files, Texts
  <2>2. \A a \in {<<"ssid", "net">>}, b \in {<<"ip", "host">>} : a[1] # b[1]
    OBVIOUS
  <2>3. Plan(Set("ssid", "net") \o Set("ip", "host"), {<<"ssid", "net">>} \cup {<<"ip", "host">>})
    BY <2>1, <2>2, JoinPlan
  <2>4. Settings(screen) = Set("ssid", "net") \o Set("ip", "host")
    BY <1>4 DEF Settings
  <2>5. SettingPairs(screen) = {<<"ssid", "net">>} \cup {<<"ip", "host">>}
    BY <1>4 DEF SettingPairs
  <2> QED BY <2>3, <2>4, <2>5
<1>5. CASE screen = "Wave"
  <2> DEFINE t == Entry(Channels20M, field.channel)
  <2>1. t \in {"1", "2", "36"}
    BY <1>5, TextsWritten DEF Screen
  <2> HIDE DEF t
  <2>2. Plan(Set("channel", t), {<<"channel", t>>}) /\ Plan(Set("dgain", "1"), {<<"dgain", "1">>})
    BY <2>1, SetPlan DEF Files, Texts
  <2>3. \A a \in {<<"channel", t>>}, b \in {<<"dgain", "1">>} : a[1] # b[1]
    OBVIOUS
  <2>4. Plan(Set("channel", t) \o Set("dgain", "1"), {<<"channel", t>>} \cup {<<"dgain", "1">>})
    BY <2>2, <2>3, JoinPlan
  <2>5. Settings(screen) = Set("channel", t) \o Set("dgain", "1")
    BY <1>5 DEF Settings, t
  <2>6. SettingPairs(screen) = {<<"channel", t>>} \cup {<<"dgain", "1">>}
    BY <1>5 DEF SettingPairs, t
  <2> QED BY <2>4, <2>5, <2>6
<1> QED BY <1>2, <1>3, <1>4, <1>5, ScreensAssumption

LEMMA StartHandled ==
    ASSUME Screen, screen \in Screens
    PROVE  Handler(StartHandler(screen), StartPairs(screen), Do("start"))
<1>1. StartType(screen) \in {"0", "1", "2", "7", "8"}
  BY DEF StartType
<1>2. Plan(Set("type", StartType(screen)), {<<"type", StartType(screen)>>})
  BY <1>1, SetPlan DEF Files, Texts, TypeTexts
<1>3. \A q \in SettingPairs(screen) : q[1] # "type"
  BY DEF SettingPairs
<1>4. Plan(Set("type", StartType(screen)) \o Settings(screen), StartPairs(screen))
  BY <1>2, <1>3, SettingsPlanned, JoinPlan DEF StartPairs
<1> QED BY <1>4, OneRequest, PlanAndRequests DEF StartHandler

StopAsks(s) == CASE s = "Receive" -> Do("start") \o Do("report") [] s = "N" -> Do("start")
                 [] OTHER -> Do("stop")
LEMMA StopHandled ==
    ASSUME screen \in Screens
    PROVE  Handler(StopHandler(screen), StopPairs(screen), StopAsks(screen))
<1>1. CASE screen = "Receive"
  <2> DEFINE g == Do("start") \o Do("report")
             h == Set("type", "6")
  <2> DEFINE a == Asks("start")
             b == Asks("report")
  <2>1. a \in Requests /\ b \in Requests /\ b.op = "report"
    BY DEF Asks, Requests
  <2>2. Do("start") = <<a>> /\ Do("report") = <<b>>
    BY OneRequest
  <2> HIDE DEF a, b
  <2>3. <<a>> \in Seq(Requests) /\ <<b>> \in Seq(Requests) /\ Len(<<a>>) = 1 /\ Len(<<b>>) = 1
        /\ <<b>>[1] = b
    BY <2>1
  <2>4. g \in Seq(Requests) /\ Len(g) = 2 /\ g[2] = b
    <3>1. g = <<a>> \o <<b>>
      BY <2>2
    <3> HIDE DEF g
    <3>2. /\ g \in Seq(Requests) /\ Len(g) = 2
          /\ \A k \in 1..Len(<<b>>) : g[k + Len(<<a>>)] = <<b>>[k]
      BY <2>3, <3>1, ConcatPlaces
    <3>3. g[1 + 1] = b
      BY <2>3, <3>2
    <3> QED BY <3>2, <3>3
  <2>5. Plan(h, {<<"type", "6">>})
    BY SetPlan DEF Files, Texts, TypeTexts
  <2>6. h \in Seq(ClickSteps) /\ Do("start") \in Seq(ClickSteps) /\ Do("report") \in Seq(ClickSteps)
    BY <2>5, OneRequest DEF Plan, ClickSteps
  <2> HIDE DEF g, h
  <2>7. Handler(h \o g, {<<"type", "6">>}, g)
    BY <2>1, <2>4, <2>5, PlanAndRequests
  <2>8. StopHandler(screen) = h \o g
    BY <1>1, <2>6, ConcatAssociative DEF StopHandler, h, g
  <2>9. StopPairs(screen) = {<<"type", "6">>} /\ StopAsks(screen) = g
    BY <1>1 DEF StopPairs, StopAsks, g
  <2> QED BY <2>7, <2>8, <2>9
<1>2. CASE screen = "N"
  <2>1. Plan(Set("type", "4"), {<<"type", "4">>})
    BY SetPlan DEF Files, Texts, TypeTexts
  <2>2. Handler(Set("type", "4") \o Do("start"), {<<"type", "4">>}, Do("start"))
    BY <2>1, OneRequest, PlanAndRequests
  <2> QED BY <1>2, <2>2 DEF StopHandler, StopPairs, StopAsks
<1>3. CASE screen \notin {"Receive", "N"}
  <2>1. Handler(<<>> \o Do("stop"), {}, Do("stop"))
    BY EmptyPlan, OneRequest, PlanAndRequests
  <2>2. <<>> \o Do("stop") = Do("stop")
    BY OneRequest, ConcatEmptySeq
  <2> QED BY <1>3, <2>1, <2>2 DEF StopHandler, StopPairs, StopAsks
<1> QED BY <1>1, <1>2, <1>3

LEMMA DestroyHandled == \E P : Handler(DestroyHandler(screen), P, <<>>)
<1>1. ASSUME NEW h, NEW P, Plan(h, P) PROVE Handler(h, P, <<>>)
  <2>1. Handler(h \o <<>>, P, <<>>)
    <3>1. <<>> \in Seq(Requests) /\ \A i \in 2..Len(<<>>) : <<>>[i].op = "report"
      BY EmptySeq
    <3> QED BY <1>1, <3>1, PlanAndRequests
  <2>2. h \o <<>> = h
    BY <1>1, ConcatEmptySeq DEF Plan
  <2> QED BY <2>1, <2>2
<1>2. Plan(Set("type", "4"), {<<"type", "4">>})
  BY SetPlan DEF Files, Texts, TypeTexts
<1> QED BY <1>1, <1>2, EmptyPlan DEF DestroyHandler

-----------------------------------------------------------------------------
(* The scripts.                                                             *)
LEMMA ArgumentAmong ==
    ASSUME NEW texts, NEW i, NEW T, \A n \in 1..Len(texts) : texts[n] \in T
    PROVE  Argument(texts, i) \in T \cup {""}
<1> DEFINE present(n) == {m \in 1..n : texts[m] # ""}
           places == {n \in present(Len(texts)) : Cardinality(present(n)) = i}
<1>1. Argument(texts, i) = IF places = {} THEN "" ELSE texts[CHOOSE n \in places : TRUE]
  BY DEF Argument
<1>2. places \subseteq 1..Len(texts)
  OBVIOUS
<1> HIDE DEF places
<1>3. CASE places # {}
  <2>1. (CHOOSE n \in places : TRUE) \in places
    BY <1>3
  <2> QED BY <1>1, <1>2, <1>3, <2>1
<1> QED BY <1>1, <1>3

LEMMA Counting ==
    ASSUME NEW N \in Nat, NEW n \in 1..N
    PROVE  (\A m \in 1..n : m \in 1..N) /\ n \in 1..n /\ Cardinality(1..n) = n
<1>1. 1 \in Int /\ n \in Int /\ ~(1 > n) /\ n - 1 + 1 = n
  OBVIOUS
<1>2. Cardinality(1..n) = n
  BY <1>1, FS_Interval
<1> QED BY <1>2

LEMMA ArgumentAll ==
    ASSUME NEW texts, NEW N \in Nat, Len(texts) = N, \A n \in 1..N : texts[n] # "",
           NEW i \in 1..N
    PROVE  Argument(texts, i) = texts[i]
<1> DEFINE present(n) == {m \in 1..n : texts[m] # ""}
           places == {n \in present(Len(texts)) : Cardinality(present(n)) = i}
<1>1. Argument(texts, i) = IF places = {} THEN "" ELSE texts[CHOOSE n \in places : TRUE]
  BY DEF Argument
<1>2. ASSUME NEW n \in 1..N PROVE present(n) = 1..n /\ Cardinality(present(n)) = n
  <2>1. \A m \in 1..n : m \in 1..N
    BY Counting, Zenon
  <2>2. present(n) = 1..n
    BY <2>1
  <2>3. Cardinality(1..n) = n
    BY Counting, Zenon
  <2> QED BY <2>2, <2>3
<1>3. places = {i}
  <2>0. present(Len(texts)) = present(N)
    OBVIOUS
  <2>1. i \in present(N)
    OBVIOUS
  <2>2. \A n \in present(N) : n \in 1..N
    OBVIOUS
  <2> HIDE DEF present
  <2> QED BY <1>2, <2>0, <2>1, <2>2
<1> HIDE DEF places
<1> QED BY <1>1, <1>3

LEMMA CommandModes ==
    ASSUME NEW op, NEW g \in [Files -> Texts], radio \in Modes
    PROVE  Command(op, g) \in Modes
<1> DEFINE four == <<g["channel"], g["rate"], g["power"], g["channel_bonding"]>>
           three == <<g["channel"], g["rate"], g["power"]>>
           rx == <<g["channel"], g["rate"], g["channel_bonding"]>>
<1>1. \A f \in {"channel", "rate", "power", "channel_bonding"} : g[f] \in Texts
  BY DEF Files
<1>2. /\ \A n \in 1..Len(four) : four[n] \in Texts
      /\ \A n \in 1..Len(three) : three[n] \in Texts
      /\ \A n \in 1..Len(rx) : rx[n] \in Texts
  BY <1>1
<1>3. "" \in Texts
  BY DEF Texts
<1> HIDE DEF four, three, rx
<1>4. \A i : /\ Argument(four, i) \in Texts
            /\ Argument(three, i) \in Texts
            /\ Argument(rx, i) \in Texts
  BY <1>2, <1>3, ArgumentAmong
<1>5. radio.channel \in Texts /\ radio.rate \in Texts /\ radio.power \in Texts
  BY DEF Modes
<1>6. \A a, b \in Texts : Keep(a, b) \in Texts
  BY DEF Keep
<1>7. ASSUME NEW m \in {"off", "tx", "rx", "cw", "joined"}, NEW a \in Texts, NEW b \in Texts,
             NEW c \in Texts, NEW d \in Texts
      PROVE  Mode(m, a, b, c, d) \in Modes
  BY DEF Mode, Modes
<1> HIDE DEF Modes, Mode, Keep, Texts
<1>8. CASE op = "myftm_tx"
  <2>1. Command(op, g) = Mode("tx", Argument(four, 1), Argument(four, 2), Argument(four, 3),
                              Argument(four, 4))
    BY <1>8 DEF Command, four
  <2> QED BY <2>1, <1>4, <1>7
<1>9. CASE op = "iwpriv_tx"
  <2>1. Command(op, g) = Mode("tx", Keep(Argument(three, 1), radio.channel),
                              Keep(Argument(three, 2), radio.rate),
                              Keep(Argument(three, 3), radio.power), "")
    BY <1>9 DEF Command, three
  <2>2. /\ Keep(Argument(three, 1), radio.channel) \in Texts
        /\ Keep(Argument(three, 2), radio.rate) \in Texts
        /\ Keep(Argument(three, 3), radio.power) \in Texts
    BY <1>4, <1>5, <1>6
  <2>3. Mode("tx", Keep(Argument(three, 1), radio.channel),
             Keep(Argument(three, 2), radio.rate),
             Keep(Argument(three, 3), radio.power), "") \in Modes
    BY <2>2, <1>3, <1>7
  <2> QED BY <2>1, <2>3
<1>10. CASE op = "myftm_rx"
  <2>1. Command(op, g) = Mode("rx", Argument(rx, 1), Argument(rx, 2), "", Argument(rx, 3))
    BY <1>10 DEF Command, rx
  <2> QED BY <2>1, <1>3, <1>4, <1>7
<1>11. CASE op = "cw"
  <2>1. Command(op, g) = Mode("cw", Keep(g["channel"], radio.channel), "", "", "")
    BY <1>11 DEF Command
  <2>2. Keep(g["channel"], radio.channel) \in Texts
    BY <1>1, <1>5, <1>6
  <2> QED BY <2>1, <2>2, <1>3, <1>7
<1>12. CASE op \in {"join", "off"}
  BY <1>12, <1>3, <1>7 DEF Command, RadioOff
<1>13. CASE op \notin {"myftm_tx", "iwpriv_tx", "myftm_rx", "cw", "join", "off"}
  <2>1. Command(op, g) = radio
    BY <1>13 DEF Command
  <2> QED BY <2>1
<1> QED BY <1>8, <1>9, <1>10, <1>11, <1>12, <1>13

LEMMA StepsTyped == \A s \in Scripts : Steps(s) \in Seq(ScriptSteps) /\ Steps(s) # <<>>
<1>1. ASSUME NEW f \in Files PROVE Read(f) \in ScriptSteps
  BY DEF Read, ScriptSteps
<1>2. ASSUME NEW op \in {"myftm_tx", "iwpriv_tx", "myftm_rx", "cw", "join", "off", "report"}
      PROVE  Run(op) \in ScriptSteps
  BY DEF Run, ScriptSteps
<1>3. {"channel", "rate", "power", "channel_bonding"} \subseteq Files
  BY DEF Files
<1> HIDE DEF Read, Run, ScriptSteps, Files
<1> SUFFICES ASSUME NEW s \in Scripts PROVE Steps(s) \in Seq(ScriptSteps) /\ Steps(s) # <<>>
  OBVIOUS
<1>4. CASE s = "tx"
  <2>1. Steps(s) = <<Read("channel_bonding"), Read("channel"), Read("rate"),
                     Read("power"), Run("myftm_tx")>>
    BY <1>4 DEF Steps
  <2> QED BY <1>1, <1>2, <1>3, <2>1
<1>5. CASE s = "fixed"
  <2>1. Steps(s) = <<Read("channel"), Read("rate"), Read("power"), Run("off"), Run("iwpriv_tx")>>
    BY <1>5 DEF Steps
  <2> QED BY <1>1, <1>2, <1>3, <2>1
<1>6. CASE s = "RxOn"
  <2>1. Steps(s) = <<Read("channel_bonding"), Read("channel"), Read("rate"), Run("myftm_rx")>>
    BY <1>6 DEF Steps
  <2> QED BY <1>1, <1>2, <1>3, <2>1
<1>7. CASE s = "RxStop"
  <2>1. Steps(s) = <<Run("report"), Run("off")>>
    BY <1>7 DEF Steps
  <2> QED BY <1>2, <2>1
<1>8. CASE s = "wg"
  <2>1. Steps(s) = <<Read("channel"), Run("cw")>>
    BY <1>8 DEF Steps
  <2> QED BY <1>1, <1>2, <1>3, <2>1
<1>9. CASE s = "txn"
  <2>1. Steps(s) = <<Run("join")>>
    BY <1>9 DEF Steps
  <2> QED BY <1>2, <2>1
<1>10. CASE s \in {"rmmod", "TxStop"}
  <2>1. Steps(s) = <<Run("off")>>
    BY <1>10 DEF Steps
  <2> QED BY <1>2, <2>1
<1> QED BY <1>4, <1>5, <1>6, <1>7, <1>8, <1>9, <1>10 DEF Scripts

-----------------------------------------------------------------------------
(* Types.                                                                   *)
Numerals == {"1", "2", "4", "5", "15", "16", "23", "36", "42", "46"}
LEMMA ShownTexts ==
    ASSUME Screen
    PROVE  /\ screen \in {"BG", "Receive"} =>
                /\ Entry(ChannelsShown(field.bonding), sel.channel) \in Numerals
                /\ Entry(RatesShown(field.bonding), sel.rate) \in Numerals
           /\ screen = "BG" => Entry(Powers, sel.power) = IF sel["power"] = 0 THEN "00" ELSE "10"
           /\ screen = "Wave" => Entry(Channels20M, sel.channel) \in Numerals
           /\ Bonding(sel.bonding) \in {"0", "1", "2", "3", "4", "5", "6"}
<1>1. ASSUME screen \in {"BG", "Receive"}
      PROVE  /\ Entry(ChannelsShown(field.bonding), sel.channel) \in Numerals
             /\ Entry(RatesShown(field.bonding), sel.rate) \in Numerals
  <2>1. {"channel", "rate"} \subseteq Visible
    BY <1>1, VisibleSpinners DEF Visible, VisibleOn, AllSpinners
  <2>2. /\ sel["channel"] \in 0..(Len(ChannelsShown(field["bonding"])) - 1)
        /\ sel["rate"] \in 0..(Len(RatesShown(field["bonding"])) - 1)
    BY <1>1, <2>1 DEF Screen, Offers
  <2>3. Entry(ChannelsShown(field.bonding), sel.channel) \in Numerals
    BY <2>2 DEF ChannelsShown, Channels24G, Channels20M, Channels80M, Entry, Numerals
  <2>4. Entry(RatesShown(field.bonding), sel.rate) \in Numerals
    BY <2>2 DEF RatesShown, Rates11b, Rates11g, Rates11n, Rates11ac, Entry, Numerals
  <2> QED BY <2>3, <2>4
<1>2. ASSUME screen = "BG"
      PROVE  Entry(Powers, sel.power) = IF sel["power"] = 0 THEN "00" ELSE "10"
  <2>1. "power" \in Visible
    BY <1>2, VisibleSpinners DEF Visible, VisibleOn, AllSpinners
  <2>2. sel["power"] \in 0..1
    BY <2>1 DEF Screen, Offers
  <2> QED BY <2>2 DEF Entry, Powers
<1>3. ASSUME screen = "Wave" PROVE Entry(Channels20M, sel.channel) \in Numerals
  <2>1. "channel" \in Visible
    BY <1>3, VisibleSpinners DEF Visible, VisibleOn
  <2>2. sel["channel"] \in 0..1
    BY <1>3, <2>1 DEF Screen, Offers
  <2> QED BY <2>2 DEF Entry, Channels20M, Numerals
<1>4. Bonding(sel.bonding) \in {"0", "1", "2", "3", "4", "5", "6"}
  <2>1. sel["bonding"] \in 0..6
    BY DEF Screen, AllSpinners
  <2> QED BY <2>1 DEF Bonding
<1> QED BY <1>1, <1>2, <1>3, <1>4

LEMMA ModeModes ==
    ASSUME NEW m \in {"off", "tx", "rx", "cw", "joined"},
           NEW a \in Texts, NEW b \in Texts, NEW c \in Texts, NEW d \in Texts
    PROVE  /\ Mode(m, a, b, c, d) \in Modes
           /\ Mode(m, a, b, c, d).mode = m /\ Mode(m, a, b, c, d).channel = a
           /\ Mode(m, a, b, c, d).rate = b /\ Mode(m, a, b, c, d).power = c
           /\ Mode(m, a, b, c, d).bonding = d
  BY DEF Mode, Modes

LEMMA ShownModes ==
    ASSUME Screen
    PROVE  screen \in Screens => Shown \in Modes
<1>1. "" \in Texts /\ Numerals \subseteq Texts /\ {"00", "10"} \subseteq Texts
      /\ {"0", "1", "2", "3", "4", "5", "6"} \subseteq Texts
  BY DEF Texts, Numerals
<1> HIDE DEF Texts, Numerals
<1>2. CASE screen = "BG"
  <2> DEFINE a == Entry(ChannelsShown(field.bonding), sel.channel)
             b == Entry(RatesShown(field.bonding), sel.rate)
             c == Entry(Powers, sel.power)
             d == IF sel.power = 0 THEN "" ELSE Bonding(sel.bonding)
  <2>1. a \in Texts /\ b \in Texts /\ c \in Texts /\ d \in Texts
    BY <1>1, <1>2, ShownTexts
  <2>2. Shown = Mode("tx", a, b, c, d)
    BY <1>2 DEF Shown
  <2> HIDE DEF a, b, c, d
  <2> QED BY <2>1, <2>2, ModeModes
<1>3. CASE screen = "Receive"
  <2> DEFINE a == Entry(ChannelsShown(field.bonding), sel.channel)
             b == Entry(RatesShown(field.bonding), sel.rate)
             d == Bonding(sel.bonding)
  <2>1. a \in Texts /\ b \in Texts /\ d \in Texts
    BY <1>1, <1>3, ShownTexts
  <2>2. Shown = Mode("rx", a, b, "", d)
    BY <1>3 DEF Shown
  <2> HIDE DEF a, b, d
  <2> QED BY <1>1, <2>1, <2>2, ModeModes
<1>4. CASE screen = "Wave"
  <2> DEFINE a == Entry(Channels20M, sel.channel)
  <2>1. a \in Texts
    BY <1>1, <1>4, ShownTexts
  <2>2. Shown = Mode("cw", a, "", "", "")
    BY <1>4 DEF Shown
  <2> HIDE DEF a
  <2> QED BY <1>1, <2>1, <2>2, ModeModes
<1>5. CASE screen = "N"
  <2>1. Shown = Mode("joined", "", "", "", "")
    BY <1>5 DEF Shown
  <2> QED BY <1>1, <2>1, ModeModes
<1> QED BY <1>2, <1>3, <1>4, <1>5, ScreensAssumption

LEMMA DataUnchanged ==
    ASSUME Data, UNCHANGED <<files, display, click, requests, todo, got, radio, asked, failed>>
    PROVE  Data'
BY DEF Data

LEMMA ClickTyped ==
    ASSUME NEW c, NEW P, NEW g, Handler(c, P, g)
    PROVE  c \in Seq(ClickSteps)
BY DEF Handler

LEMMA ButtonKeepsData ==
    ASSUME Screen, Data, NEW h \in Seq(ClickSteps), NEW want \in Modes, ClickButton(h, want)
    PROVE  Data'
<1>1. asked' \in [test : Modes, bonding : 0..6]
  <2>1. field["bonding"] \in 0..6
    BY DEF Screen, AllSpinners
  <2> QED BY <2>1 DEF ClickButton
<1>2. click' = h /\ failed' = {} /\ UNCHANGED <<files, display, requests, todo, got, radio>>
  BY DEF ClickButton, scriptVars
<1> QED BY <1>1, <1>2 DEF Data

LEMMA HandlerKeepsData == ASSUME Data, HandlerStep PROVE Data'
<1> DEFINE step == Head(click)
<1>1. step \in ClickSteps /\ click' \in Seq(ClickSteps)
  BY HeadTailProperties DEF Data, HandlerStep
<1>2. /\ step.op \in {"remove", "write"} => step.file \in Files /\ step.text \in Texts
      /\ step.file = "type" => step.text \in TypeTexts
  BY <1>1 DEF ClickSteps, Requests, Writes, Files, Texts, TypeTexts
<1>3. UNCHANGED <<todo, got, radio, asked>>
  BY DEF HandlerStep
<1>4. "" \in Texts
  BY DEF Texts
<1> HIDE DEF step
<1>5. CASE step.op = "remove" /\ RemoveFile(step.file) /\ UNCHANGED <<display, requests, failed, trouble>>
  <2>1. files' \in [Files -> Texts] /\ files'["type"] \in TypeTexts \cup {""}
    BY <1>2, <1>4, <1>5 DEF RemoveFile, Data, Files
  <2> QED BY <1>1, <1>3, <1>5, <2>1 DEF Data
<1>6. CASE step.op = "write" /\ files' = [files EXCEPT ![step.file] = step.text]
           /\ UNCHANGED <<display, requests, failed>>
  <2>1. files' \in [Files -> Texts] /\ files'["type"] \in TypeTexts \cup {""}
    BY <1>2, <1>6 DEF Data, Files
  <2> QED BY <1>1, <1>3, <1>6, <2>1 DEF Data
<1>7. CASE step.op = "write" /\ failed' = failed \cup {step.file}
           /\ UNCHANGED <<files, display, requests>>
  <2>1. failed' \subseteq Files
    BY <1>2, <1>7 DEF Data
  <2> QED BY <1>1, <1>3, <1>7, <2>1 DEF Data
<1>8. CASE step.op \in {"start", "stop"} /\ requests' = Append(requests, step.op)
           /\ UNCHANGED <<display, files, failed>>
  <2>1. requests' \in Seq({"start", "stop"})
    BY <1>8, AppendProperties DEF Data
  <2> QED BY <1>1, <1>3, <1>8, <2>1 DEF Data
<1>9. CASE step.op = "report" /\ display' = Keep(files["rxreport"], display)
           /\ UNCHANGED <<files, requests, failed>>
  <2>1. display' \in Texts
    BY <1>9 DEF Keep, Data, Files
  <2> QED BY <1>1, <1>3, <1>9, <2>1 DEF Data
<1> QED BY <1>5, <1>6, <1>7, <1>8, <1>9 DEF HandlerStep, Call, step

LEMMA DispatchKeepsData == ASSUME Data, Dispatch PROVE Data'
<1>1. Head(requests) \in {"start", "stop"} /\ requests' \in Seq({"start", "stop"})
  BY HeadTailProperties DEF Data, Dispatch
<1>2. ASSUME NEW t \in TypeTexts PROVE ScriptOf[t] \in Scripts
  BY DEF ScriptOf, TypeTexts, Scripts
<1>3. UNCHANGED todo \/ \E s \in Scripts : todo' = [todo EXCEPT ![s] = Steps(s)]
  BY <1>1, <1>2 DEF Dispatch, Data, Scripts
<1>4. /\ todo' \in [Scripts -> Seq(ScriptSteps)]
      /\ \A s \in Scripts : Len(todo'[s]) <= Len(Steps(s))
  <2>1. CASE UNCHANGED todo
    BY <2>1 DEF Data
  <2>2. ASSUME NEW s \in Scripts, todo' = [todo EXCEPT ![s] = Steps(s)]
        PROVE  /\ todo' \in [Scripts -> Seq(ScriptSteps)]
               /\ \A t \in Scripts : Len(todo'[t]) <= Len(Steps(t))
    <3>1. Steps(s) \in Seq(ScriptSteps) /\ Len(Steps(s)) \in Nat
      BY StepsTyped, LenProperties
    <3>2. todo' \in [Scripts -> Seq(ScriptSteps)]
      BY <2>2, <3>1 DEF Data
    <3>3. \A t \in Scripts : todo'[t] = IF t = s THEN Steps(s) ELSE todo[t]
      BY <2>2 DEF Data
    <3>4. \A t \in Scripts : Len(todo[t]) <= Len(Steps(t))
      BY DEF Data
    <3>5. Len(Steps(s)) <= Len(Steps(s))
      BY <3>1
    <3> QED BY <3>2, <3>3, <3>4, <3>5
  <2> QED BY <1>3, <2>1, <2>2
<1>5. UNCHANGED <<files, display, click, got, radio, asked, failed>>
  BY DEF Dispatch
<1> QED BY <1>1, <1>4, <1>5 DEF Data

LEMMA ScriptKeepsData == ASSUME Data, NEW s \in Scripts, ScriptStep(s) PROVE Data'
<1> DEFINE step == Head(todo[s])
<1>1. /\ step \in ScriptSteps /\ Tail(todo[s]) \in Seq(ScriptSteps)
      /\ Len(Tail(todo[s])) = Len(todo[s]) - 1 /\ Len(todo[s]) \in Nat /\ Len(Steps(s)) \in Nat
  <2>1. todo[s] \in Seq(ScriptSteps) /\ todo[s] # <<>>
    BY DEF Data, ScriptStep
  <2> QED BY <2>1, HeadTailProperties, LenProperties, StepsTyped
<1>2. step.op = "read" => step.file \in Files
  BY <1>1 DEF ScriptSteps
<1> HIDE DEF step
<1>3. /\ todo' \in [Scripts -> Seq(ScriptSteps)]
      /\ \A t \in Scripts : Len(todo'[t]) <= Len(Steps(t))
  <2>1. todo' = [todo EXCEPT ![s] = Tail(todo[s])]
    BY DEF ScriptStep
  <2>2. todo' \in [Scripts -> Seq(ScriptSteps)]
    BY <1>1, <2>1 DEF Data
  <2>3. \A t \in Scripts : todo'[t] = IF t = s THEN Tail(todo[s]) ELSE todo[t]
    BY <2>1 DEF Data
  <2>4. \A t \in Scripts : Len(todo[t]) <= Len(Steps(t))
    BY DEF Data
  <2> QED BY <1>1, <2>2, <2>3, <2>4
<1>4. \E g \in [Files -> Texts] : got' = [got EXCEPT ![s] = g]
  <2>1. got[s] \in [Files -> Texts] /\ files \in [Files -> Texts]
    BY DEF Data
  <2>2. Nothing \in [Files -> Texts]
    BY DEF Nothing, Texts
  <2>3. step.op = "read" => [got[s] EXCEPT ![step.file] = files[step.file]] \in [Files -> Texts]
    BY <1>2, <2>1
  <2>4. got' = [got EXCEPT ![s] = IF Len(todo[s]) = 1 THEN Nothing
                              ELSE IF step.op = "read"
                              THEN [got[s] EXCEPT ![step.file] = files[step.file]] ELSE got[s]]
    BY DEF ScriptStep, step
  <2> QED BY <2>1, <2>2, <2>3, <2>4
<1>5. got' \in [Scripts -> [Files -> Texts]]
  BY <1>4 DEF Data
<1>6. radio' \in Modes
  BY CommandModes DEF ScriptStep, Data
<1>7. files' \in [Files -> Texts] /\ files'["type"] \in TypeTexts \cup {""}
  <2>1. "empty" \in Texts /\ "rxreport" \in Files
    BY DEF Texts, Files
  <2>2. Report \in [Files -> Texts] /\ Report["type"] = files["type"]
    BY <2>1 DEF Report, Data, Files
  <2> QED BY <2>2 DEF ScriptStep, Data
<1>8. UNCHANGED <<display, click, requests, asked, failed>>
  BY DEF ScriptStep
<1> QED BY <1>3, <1>5, <1>6, <1>7, <1>8 DEF Data

LEMMA DataNext == Screen /\ Data /\ [Next]_vars => Data'
<1> SUFFICES ASSUME Screen, Data, [Next]_vars PROVE Data'
  OBVIOUS
<1>1. ASSUME NEW s \in Screens, Open(s) PROVE Data'
  <2>1. "none" \in Texts
    BY DEF Texts
  <2> QED BY <1>1, <2>1 DEF Open, Data, scriptVars
<1>2. CASE Back
  <2>1. click' \in Seq(ClickSteps)
    BY <1>2, DestroyHandled, ClickTyped DEF Back
  <2> QED BY <1>2, <2>1 DEF Back, Data, scriptVars
<1>3. CASE Crash
  <2>1. Head(click) \in ClickSteps
    BY <1>3, HeadTailProperties DEF Crash, Data
  <2>2. Head(click).file \in Files
    BY <1>3, <2>1 DEF Crash, ClickSteps, Requests, Writes, Files
  <2>3. failed' \subseteq Files
    BY <1>3, <2>2 DEF Crash, Data
  <2>4. click' \in Seq(ClickSteps) /\ UNCHANGED <<display, files, requests, todo, got, radio, asked>>
    BY <1>3 DEF Crash, scriptVars
  <2> QED BY <2>3, <2>4 DEF Data
<1>4. CASE HandleMessage
  BY <1>4, DataUnchanged DEF HandleMessage, scriptVars
<1>5. ASSUME NEW s \in AllSpinners, NEW p \in 0..2 \cup Bondings, Choose(s, p) PROVE Data'
  BY <1>5, DataUnchanged DEF Choose, scriptVars
<1>6. CASE ClickStart
  <2>1. screen \in Screens
    BY <1>6 DEF ClickStart, ClickButton, Screen
  <2>2. StartHandler(screen) \in Seq(ClickSteps)
    BY <2>1, StartHandled, ClickTyped
  <2> QED BY <1>6, <2>1, <2>2, ShownModes, ButtonKeepsData DEF ClickStart
<1>7. CASE ClickStop
  <2>1. screen \in Screens
    BY <1>7 DEF ClickStop, ClickButton, Screen
  <2>2. StopHandler(screen) \in Seq(ClickSteps)
    BY <2>1, StopHandled, ClickTyped
  <2>3. RadioOff \in Modes
    BY DEF RadioOff, Mode, Modes, Texts
  <2> QED BY <1>7, <2>2, <2>3, ButtonKeepsData DEF ClickStop
<1>8. CASE HandlerStep
  BY <1>8, HandlerKeepsData
<1>9. CASE Dispatch
  BY <1>9, DispatchKeepsData
<1>10. ASSUME NEW s \in Scripts, ScriptStep(s) PROVE Data'
  BY <1>10, ScriptKeepsData
<1>11. CASE UNCHANGED vars
  BY <1>11, DataUnchanged DEF vars, scriptVars
<1> QED BY <1>1, <1>2, <1>3, <1>4, <1>5, <1>6, <1>7, <1>8, <1>9, <1>10, <1>11
        DEF Next, Tester, MainThread

LEMMA DataInit == Init => Data
<1> SUFFICES ASSUME Init PROVE Data
  OBVIOUS
<1>1. Nothing \in [Files -> Texts] /\ Nothing["type"] = "" /\ "none" \in Texts
  BY DEF Nothing, Files, Texts
<1>2. RadioOff \in Modes
  BY DEF RadioOff, Mode, Modes, Texts
<1>3. \A s \in Scripts : Len(Steps(s)) \in Nat
  BY StepsTyped, LenProperties
<1>4. todo = [s \in Scripts |-> <<>>] /\ Len(<<>>) = 0
  BY DEF Init
<1>5. /\ todo \in [Scripts -> Seq(ScriptSteps)]
      /\ \A s \in Scripts : Len(todo[s]) <= Len(Steps(s))
  <2>1. \A s \in Scripts : todo[s] = <<>>
    BY <1>4
  <2>2. <<>> \in Seq(ScriptSteps)
    OBVIOUS
  <2>3. todo \in [Scripts -> Seq(ScriptSteps)]
    BY <1>4, <2>2, Zenon
  <2>4. \A s \in Scripts : Len(todo[s]) = 0
    BY <1>4, <2>1
  <2> QED BY <1>3, <2>3, <2>4
<1>6. asked \in [test : Modes, bonding : 0..6]
  BY <1>2 DEF Init
<1>7. got \in [Scripts -> [Files -> Texts]]
  BY <1>1 DEF Init
<1>8. click \in Seq(ClickSteps) /\ requests \in Seq({"start", "stop"}) /\ failed \subseteq Files
  BY DEF Init
<1>9. files \in [Files -> Texts] /\ files["type"] = "" /\ display \in Texts /\ radio \in Modes
  BY <1>1, <1>2 DEF Init
<1> QED BY <1>5, <1>6, <1>7, <1>8, <1>9 DEF Data

LEMMA BoundsNext == Bounds /\ [Next]_vars => Bounds'
<1> SUFFICES ASSUME Bounds, [Next]_vars PROVE Bounds'
  OBVIOUS
<1> USE BoundsAssumption DEF Bounds, boundVars, screenVars
<1>1. ASSUME NEW b \in BOOLEAN, Haste(b)
      PROVE  hasty' \in BOOLEAN /\ trouble' \in 0..MaxTrouble
  <2>1. hasty' \in BOOLEAN
    BY <1>1, Zenon DEF Haste
  <2>2. trouble' \in 0..MaxTrouble
    BY <1>1 DEF Haste
  <2> QED BY <2>1, <2>2
<1>2. ASSUME NEW s \in Screens, Open(s) PROVE Bounds'
  BY <1>2 DEF Open
<1>3. CASE Back
  BY <1>1, <1>3 DEF Back
<1>4. CASE HandleMessage \/ Crash \/ Dispatch
  BY <1>4 DEF HandleMessage, Crash, Dispatch
<1>5. ASSUME NEW s \in AllSpinners, NEW p \in 0..2 \cup Bondings, Choose(s, p) PROVE Bounds'
  BY <1>5 DEF Choose
<1>6. CASE ClickStart \/ ClickStop
  <2>1. locked' \in BOOLEAN
    BY <1>6, Zenon DEF ClickStart, ClickStop
  <2>2. Haste(FALSE) /\ clicks < MaxClicks /\ clicks' = clicks + 1 /\ UNCHANGED choices
    BY <1>6 DEF ClickStart, ClickStop, ClickButton
  <2>3. hasty' \in BOOLEAN /\ trouble' \in 0..MaxTrouble
    BY <1>1, <2>2
  <2> QED BY <2>1, <2>2, <2>3
<1>7. CASE HandlerStep
  BY <1>7 DEF HandlerStep, Call
<1>8. ASSUME NEW s \in Scripts, ScriptStep(s) PROVE Bounds'
  BY <1>8 DEF ScriptStep
<1>9. CASE UNCHANGED vars
  BY <1>9 DEF vars
<1> QED BY <1>2, <1>3, <1>4, <1>5, <1>6, <1>7, <1>8, <1>9 DEF Next, Tester, MainThread

LEMMA BoundsInit == Init => Bounds
<1> SUFFICES ASSUME Init PROVE Bounds
  OBVIOUS
<1>1. 0 \in 0..MaxChoices /\ 0 \in 0..MaxClicks /\ 0 \in 0..MaxTrouble
  BY BoundsAssumption
<1> QED BY <1>1 DEF Init, Bounds

(* The types, whatever is clicked and whichever writes fail.                *)
THEOREM TypeCorrect == Spec => []TypeOK
<1>1. Screen /\ Data /\ Bounds => TypeOK
  <2> SUFFICES ASSUME Screen, Data, Bounds PROVE TypeOK
    OBVIOUS
  <2>1. queue \in Seq({"layout"} \cup AllSpinners)
    <3>1. Visible \subseteq AllSpinners /\ queue \in Seq({"layout"} \cup Visible)
      BY VisibleSpinners DEF Screen, Visible
    <3> QED BY <3>1
  <2>2. click \in Seq([op : {"remove", "write", "start", "stop", "report"},
                      file : Files \cup {""}, text : Texts])
    <3>1. ClickSteps \subseteq [op : {"remove", "write", "start", "stop", "report"},
                               file : Files \cup {""}, text : Texts]
      BY DEF ClickSteps, Requests, Writes, Files, Texts, TypeTexts
    <3>2. \A S, T : S \subseteq T => Seq(S) \subseteq Seq(T)
      OBVIOUS
    <3> QED BY <3>1, <3>2, Zenon DEF Data
  <2> QED BY <2>1, <2>2 DEF Screen, Data, Bounds, TypeOK
<1> QED BY <1>1, ScreenInit, ScreenNext, DataInit, DataNext, BoundsInit, BoundsNext, PTL DEF Spec

-----------------------------------------------------------------------------
(* From the click to the radio.                                             *)
LEMMA ClickPlaces ==
    ASSUME Data, click # <<>>
    PROVE  /\ Head(click) = click[1] /\ click[1] \in ClickSteps /\ 1 \in 1..Len(click)
           /\ Len(click) \in Nat /\ Len(Tail(click)) = Len(click) - 1
           /\ \A k \in 1..Len(Tail(click)) : k + 1 \in 1..Len(click)
                                             /\ Tail(click)[k] = click[k + 1]
           /\ \A k \in 1..Len(click) : k = 1 \/ /\ k - 1 \in 1..Len(Tail(click))
                                                /\ Tail(click)[k - 1] = click[k]
<1>1. /\ click \in Seq(ClickSteps) /\ Len(click) \in Nat \ {0} /\ Head(click) = click[1]
      /\ Len(Tail(click)) = Len(click) - 1
      /\ \A k \in 1..Len(Tail(click)) : Tail(click)[k] = click[k + 1]
  <2>1. click \in Seq(ClickSteps)
    BY DEF Data
  <2> HIDE DEF ClickSteps
  <2> QED BY <2>1, HeadTailProperties, EmptySeq, LenProperties
<1>2. 1 \in 1..Len(click)
  BY <1>1
<1>3. click[1] \in ClickSteps
  BY <1>1, <1>2, ElementOfSeq
<1> QED BY <1>1, <1>2, <1>3

LEMMA StepFiles ==
    ASSUME Data, click # <<>>
    PROVE  /\ click[1].op \in {"remove", "write"} => click[1].file \in Files
           /\ click[1].file # "rxreport"
           /\ click[1].op \notin {"remove", "write"} => click[1].file = "" /\ click[1].text = ""
           /\ \A k \in 1..Len(click) : click[k].op \notin {"remove", "write"} =>
                                          click[k].file = ""
<1>1. \A k \in 1..Len(click) : click[k] \in ClickSteps
  BY ElementOfSeq DEF Data
<1>2. 1 \in 1..Len(click)
  BY ClickPlaces
<1>3. \A step \in ClickSteps :
        /\ step.op \in {"remove", "write"} => step.file \in Files
        /\ step.file # "rxreport"
        /\ step.op \notin {"remove", "write"} => step.file = "" /\ step.text = ""
  BY DEF ClickSteps, Requests, Writes, Files
<1> QED BY <1>1, <1>2, <1>3

(* What a step of the handler does to the files.                            *)
LEMMA StepEffect ==
    ASSUME Data, Handled, HandlerStep
    PROVE  /\ failed \subseteq failed'
           /\ \A f \in Files : f # click[1].file => files'[f] = files[f]
           /\ click[1].op \notin {"remove", "write"} => UNCHANGED <<files, failed>>
           /\ click[1].op = "remove" => files'[click[1].file] = ""
           /\ click[1].op = "write" =>
                \/ files'[click[1].file] = click[1].text
                \/ files'[click[1].file] = "" /\ click[1].file \in failed'
           /\ requests' = IF click[1].op \in {"start", "stop"}
                          THEN Append(requests, click[1].op) ELSE requests
           /\ UNCHANGED <<todo, got, radio, asked, hasty>>
<1> DEFINE step == click[1]
<1>1. click # <<>> /\ Call(step) /\ UNCHANGED <<todo, got, radio, asked, hasty>>
  BY ClickPlaces DEF HandlerStep
<1>2. step.op \in {"remove", "write"} => step.file \in Files
  BY <1>1, StepFiles
<1>3. step.op = "write" => files[step.file] = ""
  BY <1>1 DEF Handled
<1>4. files \in [Files -> Texts]
  BY DEF Data
<1> HIDE DEF step
<1>5. CASE step.op = "remove"
  BY <1>1, <1>2, <1>4, <1>5 DEF Call, RemoveFile, step
<1>6. CASE step.op = "write"
  BY <1>1, <1>2, <1>3, <1>4, <1>6 DEF Call, step
<1>7. CASE step.op \in {"start", "stop"}
  BY <1>1, <1>7 DEF Call, step
<1>8. CASE step.op = "report"
  BY <1>1, <1>8 DEF Call, step
<1> QED BY <1>1, <1>5, <1>6, <1>7, <1>8 DEF Call, step

LEMMA HandledNext ==
    ASSUME Data, Handled, HandlerStep
    PROVE  Handled'
<1>1. click # <<>> /\ click' = Tail(click)
  BY DEF HandlerStep
<1>2. /\ Len(click) \in Nat /\ Len(click') = Len(click) - 1
      /\ \A k \in 1..Len(click') : k + 1 \in 1..Len(click) /\ click'[k] = click[k + 1]
  BY <1>1, ClickPlaces
<1>3. Orderly(click)
  BY DEF Handled
<1> DEFINE c == click'
<1> HIDE DEF c
<1>4. ASSUME NEW j \in 1..Len(c), NEW k \in 1..Len(c), j < k
      PROVE  /\ c[j].op = "write" /\ c[k].op \in {"remove", "write"} => c[j].file # c[k].file
             /\ c[j].op \in {"start", "stop"} => c[k].op = "report"
  <2>1. /\ j + 1 \in 1..Len(click) /\ k + 1 \in 1..Len(click) /\ j + 1 < k + 1
        /\ c[j] = click[j + 1] /\ c[k] = click[k + 1]
    BY <1>2, <1>4 DEF c
  <2> QED BY <1>3, <2>1 DEF Orderly
<1>5. ASSUME NEW k \in 2..Len(c), c[k].op = "write"
      PROVE  c[k - 1].op = "remove" /\ c[k - 1].file = c[k].file
  <2>1. k \in 1..Len(c) /\ k - 1 \in 1..Len(c) /\ k + 1 \in 2..Len(click)
    BY <1>2 DEF c
  <2>2. c[k] = click[k + 1] /\ c[k - 1] = click[(k + 1) - 1]
    BY <1>2, <2>1 DEF c
  <2> QED BY <1>3, <1>5, <2>1, <2>2 DEF Orderly
<1>6. ASSUME c # <<>>, c[1].op = "write" PROVE files'[c[1].file] = ""
  <2>1. 1 \in 1..Len(c)
    <3>1. c \in Seq(ClickSteps)
      BY <1>1, HeadTailProperties DEF Data, c
    <3> QED BY <1>6, <3>1, EmptySeq
  <2>2. c[1] = click[2] /\ 2 \in 2..Len(click)
    BY <1>2, <2>1 DEF c
  <2>3. click[1].op = "remove" /\ click[1].file = c[1].file
    BY <1>3, <1>6, <2>2 DEF Orderly
  <2> QED BY <2>3, StepEffect
<1> QED BY <1>4, <1>5, <1>6 DEF Handled, Orderly, c

(* What is promised is kept by every step of the handler.                   *)
LEMMA PromiseKept ==
    ASSUME Data, Handled, HandlerStep, NEW f \in Files, NEW T, Promised(f, T)
    PROVE  Promised(f, T)'
<1>1. click # <<>> /\ click' = Tail(click)
  BY DEF HandlerStep
<1>2. /\ Len(click) \in Nat /\ Len(click') = Len(click) - 1 /\ 1 \in 1..Len(click)
      /\ \A k \in 1..Len(click') : k + 1 \in 1..Len(click) /\ click'[k] = click[k + 1]
      /\ \A k \in 1..Len(click) : k = 1 \/ /\ k - 1 \in 1..Len(click')
                                           /\ click'[k - 1] = click[k]
  BY <1>1, ClickPlaces
<1>3. f # ""
  BY DEF Files
<1>4. CASE Told(f, T) /\ Untouched(f)
  <2>1. click[1].file # f
    BY <1>2, <1>4 DEF Untouched
  <2>2. files'[f] = files[f] /\ failed \subseteq failed'
    BY <2>1, StepEffect
  <2>3. \A k \in 1..Len(click') : click'[k].file # f
    BY <1>2, <1>4 DEF Untouched
  <2> QED BY <1>4, <2>2, <2>3 DEF Promised, Told, Untouched
<1>5. ASSUME NEW k \in 1..Len(click), click[k].op = "write", click[k].file = f, click[k].text \in T
      PROVE  Promised(f, T)'
  <2>1. CASE k = 1
    <3>1. files'[f] = click[k].text \/ (files'[f] = "" /\ f \in failed')
      BY <1>5, <2>1, StepEffect
    <3>2. ASSUME NEW i \in 1..Len(click') PROVE click'[i].file # f
      <4>1. i + 1 \in 1..Len(click) /\ 1 < i + 1 /\ click'[i] = click[i + 1]
        BY <1>2
      <4>2. click[i + 1].op \in {"remove", "write"} => click[i + 1].file # f
        BY <1>2, <1>5, <2>1, <4>1 DEF Handled, Orderly
      <4>3. click[i + 1].op \notin {"remove", "write"} => click[i + 1].file = ""
        BY <1>1, <4>1, StepFiles
      <4> QED BY <1>3, <4>1, <4>2, <4>3
    <3> QED BY <1>5, <3>1, <3>2 DEF Promised, Told, Untouched
  <2>2. CASE k # 1
    <3>1. k - 1 \in 1..Len(click') /\ click'[k - 1] = click[k]
      BY <1>2, <2>2
    <3> QED BY <1>5, <3>1 DEF Promised, ToWrite
  <2> QED BY <2>1, <2>2
<1> QED BY <1>4, <1>5 DEF Promised, ToWrite

Pipeline == Handling \/ Requested \/ (\E s \in Scripts : Running(s)) \/ Over
Reporting == \A k \in 1..Len(click) : click[k].op = "report"

LEMMA FitsFiles ==
    /\ \A test : Reads(test) \subseteq Files \ {"rxreport", "type"}
    /\ Needed \cup {"type"} \subseteq Files
<1>1. \A test : Reads(test) \subseteq Files \ {"rxreport", "type"}
  BY DEF Reads, Files
<1> QED BY <1>1 DEF Needed, Files

LEMMA WillFitKept ==
    ASSUME Data, Handled, HandlerStep, NEW op \in {"start", "stop"}, WillFit(op)
    PROVE  WillFit(op)'
<1>1. UNCHANGED asked
  BY StepEffect
<1>2. UNCHANGED <<Test, Needed>> /\ \A f : UNCHANGED Fitting(f)
  BY <1>1 DEF Test, Needed, Fitting
<1>3. ASSUME NEW f \in Needed \cup {"type"}, Promised(f, Fitting(f))
      PROVE  Promised(f, Fitting(f))'
  <2>1. f \in Files
    BY FitsFiles
  <2> DEFINE T == Fitting(f)
  <2>2. UNCHANGED T
    BY <1>2
  <2> HIDE DEF T
  <2>3. Promised(f, T)
    BY <1>3 DEF T
  <2>4. Promised(f, T)'
    BY <2>1, <2>2, <2>3, PromiseKept DEF Promised, Told, ToWrite, Untouched
  <2> QED BY <2>4 DEF T
<1> QED BY <1>2, <1>3 DEF WillFit

(* A handler that has nothing left but to report changes nothing.           *)
LEMMA ReportingStep ==
    ASSUME Data, Handled, HandlerStep, Reporting
    PROVE  /\ Reporting' /\ \A k \in 1..Len(click') : k + 1 \in 1..Len(click)
           /\ UNCHANGED <<files, failed, requests, todo, got, radio, asked, hasty>>
<1>1. click # <<>> /\ click' = Tail(click)
  BY DEF HandlerStep
<1>2. click[1].op = "report"
  BY <1>1, ClickPlaces DEF Reporting
<1>3. Reporting' /\ \A k \in 1..Len(click') : k + 1 \in 1..Len(click)
  BY <1>1, ClickPlaces DEF Reporting
<1> QED BY <1>2, <1>3, StepEffect

LEMMA HandlingStep ==
    ASSUME Data, Handled, HandlerStep, Handling
    PROVE  Handling' \/ Requested'
<1>1. click # <<>> /\ click' = Tail(click)
  BY DEF HandlerStep
<1>2. /\ 1 \in 1..Len(click) /\ Len(click) \in Nat
      /\ \A k \in 1..Len(click') : k + 1 \in 1..Len(click) /\ click'[k] = click[k + 1]
      /\ \A k \in 1..Len(click) : k = 1 \/ /\ k - 1 \in 1..Len(click')
                                           /\ click'[k - 1] = click[k]
  BY <1>1, ClickPlaces
<1>3. UNCHANGED <<todo, asked>> /\ Quiet'
  BY StepEffect DEF Handling, Quiet
<1>4. CASE click[1].op \in {"start", "stop"}
  <2>1. requests' = <<click[1].op>>
    <3>1. requests = <<>> /\ requests' = Append(requests, click[1].op)
      BY <1>4, StepEffect, Zenon DEF Handling
    <3>2. \A x : Append(<<>>, x) = <<x>>
      OBVIOUS
    <3> QED BY <3>1, <3>2, Zenon
  <2>2. \A k \in 1..Len(click') : click'[k].op = "report"
    <3>1. \A k \in 1..Len(click) : 1 < k => click[k].op = "report"
      BY <1>2, <1>4 DEF Handled, Orderly
    <3> QED BY <1>2, <3>1
  <2>3. WillFit(click[1].op)
    BY <1>2, <1>4 DEF Handling, InClick
  <2> DEFINE op == click[1].op
  <2> HIDE DEF op
  <2>4. PICK o \in {"start", "stop"} : o = click[1].op
    BY <1>4
  <2>5. WillFit(o)'
    BY <2>3, <2>4, WillFitKept
  <2>6. requests' = <<o>>
    BY <2>1, <2>4
  <2>7. Len(requests') = 1 /\ requests'[1] = o
    BY <2>6
  <2>8. WillFit(requests[1])'
    BY <2>5, <2>7 DEF WillFit
  <2> QED BY <1>3, <2>2, <2>7, <2>8 DEF Requested
<1>5. CASE click[1].op \notin {"start", "stop"}
  <2>1. requests' = <<>>
    BY <1>5, StepEffect DEF Handling
  <2>2. ASSUME NEW op \in {"start", "stop"} PROVE InClick(op)' <=> InClick(op)
    BY <1>2, <1>5 DEF InClick
  <2>3. \A op \in {"start", "stop"} : InClick(op)' => WillFit(op)'
    BY <2>2, WillFitKept DEF Handling
  <2>4. asked'.bonding \notin {2, 4, 5} =>
          \A k \in 1..Len(click') : click'[k].text \notin {"null", "garbage"}
    BY <1>2, <1>3 DEF Handling
  <2> QED BY <1>3, <2>1, <2>2, <2>3, <2>4 DEF Handling
<1> QED BY <1>4, <1>5

LEMMA RequestedStep ==
    ASSUME Data, Handled, HandlerStep, Requested
    PROVE  Requested'
<1>1. /\ Reporting' /\ UNCHANGED <<requests, todo>>
  BY ReportingStep DEF Reporting, Requested
<1>2. requests[1] \in {"start", "stop"}
  <2>1. Len(requests) = 1 /\ requests \in Seq({"start", "stop"})
    BY Zenon DEF Requested, Data
  <2>2. 1 \in 1..Len(requests)
    BY <2>1
  <2> QED BY <2>1, <2>2, ElementOfSeq
<1>3. PICK o \in {"start", "stop"} : o = requests[1]
  BY <1>2
<1>4. WillFit(o)'
  BY <1>3, WillFitKept DEF Requested
<1>5. WillFit(requests[1])'
  BY <1>1, <1>3, <1>4 DEF WillFit
<1> QED BY <1>1, <1>5 DEF Requested, Reporting, Quiet

LEMMA RunningStep ==
    ASSUME Data, Handled, HandlerStep, NEW s \in Scripts, Running(s)
    PROVE  Running(s)'
<1>1. Reporting' /\ UNCHANGED <<files, failed, requests, todo, got, radio, asked>>
  BY ReportingStep DEF Reporting, Running
<1> QED BY <1>1 DEF Running, Reporting, ScriptFor, Done, Test, Needed, Told, Fitting

LEMMA OverKept ==
    ASSUME Over, ~InClick("start")', ~InClick("stop")', failed \subseteq failed',
           UNCHANGED <<requests, todo, radio, asked>>
    PROVE  Over'
<1>1. UNCHANGED Test
  BY DEF Test
<1>2. Quiet' /\ UNCHANGED <<AsShown, NotStale>>
  BY <1>1 DEF Over, Quiet, AsShown, NotStale
<1> QED BY <1>2 DEF Over

LEMMA OverStep ==
    ASSUME Data, Handled, HandlerStep, Over
    PROVE  Over'
<1>1. click # <<>> /\ click' = Tail(click)
  BY DEF HandlerStep
<1>2. /\ 1 \in 1..Len(click)
      /\ \A k \in 1..Len(click') : k + 1 \in 1..Len(click) /\ click'[k] = click[k + 1]
  BY <1>1, ClickPlaces
<1>3. click[1].op \notin {"start", "stop"}
  BY <1>2 DEF Over, InClick
<1>4. ~InClick("start")' /\ ~InClick("stop")'
  BY <1>2 DEF Over, InClick
<1> QED BY <1>3, <1>4, StepEffect, OverKept

(* The process is gone in the midst of a handler: a setting was not written.*)
LEMMA CrashStages ==
    ASSUME Data, Handled, Pipeline, Crash
    PROVE  Handled' /\ Over'
<1>1. /\ click # <<>> /\ click' = <<>> /\ click[1].text \in {"null", "garbage"}
      /\ click[1].op = "write" /\ failed' = failed \cup {click[1].file}
      /\ UNCHANGED <<requests, todo, radio, asked>>
  BY ClickPlaces DEF Crash, scriptVars
<1>2. 1 \in 1..Len(click)
  BY <1>1, ClickPlaces
<1>3. Handled' /\ ~InClick("start")' /\ ~InClick("stop")'
  <2>1. Len(click') = 0 /\ 1..0 = {} /\ 2..0 = {}
    BY <1>1
  <2> QED BY <1>1, <2>1 DEF Handled, Orderly, InClick
<1>4. Handling \/ Over
  BY <1>1, <1>2 DEF Pipeline, Requested, Running
<1>5. CASE Handling
  <2>1. asked.bonding \in {2, 4, 5}
    BY <1>1, <1>2, <1>5 DEF Handling
  <2>2. NotStale' /\ failed' # {}
    BY <1>1, <2>1 DEF NotStale
  <2> QED BY <1>1, <1>3, <1>5, <2>2 DEF Over, Handling, Quiet
<1>6. CASE Over
  BY <1>1, <1>3, <1>6, OverKept
<1> QED BY <1>3, <1>4, <1>5, <1>6

(* Leaving a screen asks nothing of the framework.                          *)
LEMMA BackStages ==
    ASSUME Data, Stages, Back
    PROVE  Handled' /\ Stages'
<1>1. PICK P : Handler(click', P, <<>>)
  BY DestroyHandled DEF Back
<1>2. \A k \in 1..Len(click') : click'[k].op \in {"remove", "write"}
  <2>1. {<<>>[i].op : i \in 1..Len(<<>>)} = {}
    OBVIOUS
  <2> QED BY <1>1, <2>1 DEF Handler
<1>3. Handled'
  BY <1>1 DEF Handler, Handled
<1>4. UNCHANGED <<requests, todo, radio, asked, failed>>
  BY DEF Back, scriptVars
<1>5. ASSUME ~hasty' PROVE Over'
  <2>1. ~hasty /\ click = <<>> /\ requests = <<>> /\ Quiet
    BY <1>5, Zenon DEF Back, Haste, AtRest, Settled, Quiet
  <2>2. Len(click) = 0 /\ 1..0 = {} /\ Len(requests) = 0
    BY <2>1
  <2>3. Over
    BY <2>1, <2>2 DEF Stages, Handling, Requested, Running, InClick, Quiet
  <2> QED BY <1>2, <1>4, <2>3, OverKept DEF InClick
<1> QED BY <1>3, <1>5 DEF Stages

(* A handler asks for op and for nothing else but a report; what it writes  *)
(* covers what the test reads, and comes from the lists.                    *)
AsksFor(g, op) == /\ 1 \in 1..Len(g) /\ g[1].op = op
                  /\ {g[i].op : i \in 1..Len(g)} \subseteq {op, "report"}
Covers(test, P) == \A f \in Reads(test) \cup {"type"} :
                      \E p \in P : p[1] = f /\ p[2] \in Fits(test, field.bonding, f)
Listed(P) == field.bonding \notin {2, 4, 5} => \A p \in P : p[2] \notin {"null", "garbage"}

LEMMA ClickHandling ==
    ASSUME NEW h, NEW P, NEW g, Handler(h, P, g), NEW want, ClickButton(h, want), ~hasty',
           NEW op \in {"start", "stop"}, AsksFor(g, op),
           op = "stop" => want.mode = "off", op = "start" => Covers(want, P), Listed(P)
    PROVE  Handling'
<1>1. /\ click' = h /\ asked'.test = want /\ asked'.bonding = field.bonding
      /\ UNCHANGED <<requests, todo>>
  BY DEF ClickButton, scriptVars
<1>2. requests = <<>> /\ Quiet
  BY Zenon DEF ClickButton, Haste, AtRest, Quiet
<1>3. \A o : InClick(o)' => o \in {"remove", "write", "report", op}
  BY <1>1, Zenon DEF InClick, Handler, AsksFor
<1>4. InClick(op)'
  <2>1. PICK k \in 1..Len(h) : h[k].op = op
    BY DEF Handler, AsksFor
  <2> QED BY <1>1, <2>1 DEF InClick
<1>5. ASSUME op = "start", NEW f \in Reads(want) \cup {"type"}
      PROVE  Promised(f, Fitting(f))'
  <2>1. PICK p \in P : p[1] = f /\ p[2] \in Fits(want, field.bonding, f)
    BY <1>5 DEF Covers
  <2>2. PICK k \in 1..Len(h) : h[k].op = "write" /\ h[k].file = p[1] /\ h[k].text = p[2]
    BY DEF Handler
  <2> QED BY <1>1, <2>1, <2>2 DEF Promised, ToWrite, Fitting, Test
<1>6. WillFit(op)'
  BY <1>1, <1>5 DEF WillFit, Needed, Test
<1>7. \A o \in {"start", "stop"} : InClick(o)' => WillFit(o)'
  BY <1>3, <1>6
<1>8. asked'.bonding \notin {2, 4, 5} =>
        \A k \in 1..Len(click') : click'[k].text \notin {"null", "garbage"}
  <2> SUFFICES ASSUME field.bonding \notin {2, 4, 5}, NEW k \in 1..Len(h)
               PROVE  h[k].text \notin {"null", "garbage"}
    BY <1>1
  <2>1. h[k].text = "" \/ \E p \in P : h[k].text = p[2]
    BY DEF Handler
  <2> QED BY <2>1 DEF Listed
<1> QED BY <1>1, <1>2, <1>4, <1>7, <1>8 DEF Handling, Quiet

(* What a screen shows, and what its handler writes.                        *)
ShownChannel == Entry(ChannelsShown(field.bonding), sel.channel)
ShownRate == Entry(RatesShown(field.bonding), sel.rate)

LEMMA WrittenAsShown ==
    ASSUME Screen, Reported, queue = <<>>, screen \in {"BG", "Receive"}
    PROVE  /\ ChannelText \in Texts \ {""} /\ RateText \in Texts \ {""}
           /\ field.bonding \notin {2, 5} => ChannelText = ShownChannel
           /\ field.bonding \notin {4, 5} \/ ShownRate \in {"15", "16"} => RateText = ShownRate
           /\ field.bonding = sel.bonding
<1>1. {"bonding", "channel", "rate"} \subseteq Visible
  BY VisibleSpinners DEF Visible, VisibleOn, AllSpinners
<1>2. \A s \in {"bonding", "channel", "rate"} : field[s] = sel[s]
  BY <1>1, NothingContained DEF Reported
<1>3. /\ sel["channel"] \in 0..(Len(ChannelsShown(field["bonding"])) - 1)
      /\ sel["rate"] \in 0..(Len(RatesShown(field["bonding"])) - 1)
      /\ field["bonding"] \in 0..6
  BY <1>1 DEF Screen, Offers, AllSpinners
<1>4. ChannelText \in Texts \ {""} /\ RateText \in Texts \ {""}
  BY TextsWritten DEF Texts
<1>5. field.bonding \notin {2, 5} => ChannelText = ShownChannel
  <2> SUFFICES ASSUME field.bonding \notin {2, 5} PROVE ChannelText = ShownChannel
    OBVIOUS
  <2>1. ChannelsWritten(field.bonding) = ChannelsShown(field.bonding)
    BY <1>3 DEF ChannelsWritten, ChannelsShown
  <2>2. Len(ChannelsShown(field.bonding)) \in Nat
    BY DEF ChannelsShown, Channels24G, Channels20M, Channels80M
  <2>3. field.channel < Len(ChannelsShown(field.bonding))
    BY <1>2, <1>3, <2>2
  <2> QED BY <1>2, <2>1, <2>3 DEF ChannelText, ShownChannel, EntryOr
<1>6. field.bonding \notin {4, 5} => RateText = ShownRate
  <2> SUFFICES ASSUME field.bonding \notin {4, 5} PROVE RateText = ShownRate
    OBVIOUS
  <2>1. RatesWritten(field.bonding) = RatesShown(field.bonding)
    BY <1>3 DEF RatesWritten, RatesShown
  <2>2. Len(RatesShown(field.bonding)) \in Nat
    BY DEF RatesShown, Rates11b, Rates11g, Rates11n, Rates11ac
  <2>3. field.rate < Len(RatesShown(field.bonding))
    BY <1>2, <1>3, <2>2
  <2> QED BY <1>2, <2>1, <2>3 DEF RateText, ShownRate, EntryOr
<1>7. field.bonding \in {4, 5} /\ ShownRate \in {"15", "16"} => RateText = ShownRate
  <2> SUFFICES ASSUME field.bonding \in {4, 5}, ShownRate \in {"15", "16"}
               PROVE  RateText = ShownRate
    OBVIOUS
  <2>1. RatesShown(field.bonding) = Rates11ac /\ RatesWritten(field.bonding) = Rates11n
    BY DEF RatesShown, RatesWritten
  <2>2. Len(RatesShown(field.bonding)) - 1 = 2
    BY <2>1 DEF Rates11ac
  <2>3. sel.rate \in 0..2 /\ Entry(Rates11ac, sel.rate) \in {"15", "16"}
    BY <1>3, <2>1, <2>2 DEF ShownRate
  <2>4. sel.rate \in 0..1
    BY <2>3 DEF Rates11ac, Entry
  <2> QED BY <1>2, <2>1, <2>4 DEF RateText, ShownRate, EntryOr, Entry, Rates11n, Rates11ac
<1> QED BY <1>2, <1>4, <1>5, <1>6, <1>7

LEMMA ModeFields ==
    \A m, a, b, c, d : /\ Mode(m, a, b, c, d).mode = m /\ Mode(m, a, b, c, d).channel = a
                       /\ Mode(m, a, b, c, d).rate = b /\ Mode(m, a, b, c, d).power = c
                       /\ Mode(m, a, b, c, d).bonding = d
  BY DEF Mode

LEMMA ShownFields ==
    ASSUME Screen
    PROVE  /\ screen = "BG" =>
                /\ Shown.mode = "tx" /\ Shown.channel = ShownChannel /\ Shown.rate = ShownRate
                /\ Shown.power = (IF sel["power"] = 0 THEN "00" ELSE "10")
                /\ Shown.bonding = (IF sel["power"] = 0 THEN "" ELSE Bonding(sel.bonding))
           /\ screen = "Receive" =>
                /\ Shown.mode = "rx" /\ Shown.channel = ShownChannel /\ Shown.rate = ShownRate
                /\ Shown.power = "" /\ Shown.bonding = Bonding(sel.bonding)
           /\ screen = "Wave" => Shown = Mode("cw", Entry(Channels20M, sel.channel), "", "", "")
           /\ screen = "N" => Shown = Mode("joined", "", "", "", "")
<1> DEFINE p == Entry(Powers, sel.power)
           w == Entry(Channels20M, sel.channel)
<1>1. screen = "BG" => p = IF sel["power"] = 0 THEN "00" ELSE "10"
  BY ShownTexts
<1>2. /\ screen = "BG" => Shown = Mode("tx", ShownChannel, ShownRate, p,
                              IF sel["power"] = 0 THEN "" ELSE Bonding(sel.bonding))
      /\ screen = "Receive" => Shown = Mode("rx", ShownChannel, ShownRate, "", Bonding(sel.bonding))
      /\ screen = "Wave" => Shown = Mode("cw", w, "", "", "")
      /\ screen = "N" => Shown = Mode("joined", "", "", "", "")
  BY DEF Shown, ShownChannel, ShownRate
<1> DEFINE d == IF sel["power"] = 0 THEN "" ELSE Bonding(sel.bonding)
           e == Bonding(sel.bonding)
<1> HIDE DEF p, w, d, e
<1>3. CASE screen = "BG"
  <2>1. Shown = Mode("tx", ShownChannel, ShownRate, p, d)
    BY <1>2, <1>3 DEF d
  <2>2. /\ Shown.mode = "tx" /\ Shown.channel = ShownChannel /\ Shown.rate = ShownRate
        /\ Shown.power = p /\ Shown.bonding = d
    BY <2>1 DEF Mode
  <2> QED BY <1>1, <1>3, <2>2 DEF d
<1>4. CASE screen = "Receive"
  <2>1. Shown = Mode("rx", ShownChannel, ShownRate, "", e)
    BY <1>2, <1>4 DEF e
  <2>2. /\ Shown.mode = "rx" /\ Shown.channel = ShownChannel /\ Shown.rate = ShownRate
        /\ Shown.power = "" /\ Shown.bonding = e
    BY <2>1 DEF Mode
  <2> QED BY <1>4, <2>2 DEF e
<1>5. CASE screen \notin {"BG", "Receive"}
  BY <1>2, <1>5 DEF w
<1> QED BY <1>3, <1>4, <1>5

Fit(test, P) == Covers(test, P) /\ Listed(P)

(* What Start writes fits what the screen shows, once the main thread is    *)
(* done.                                                                    *)
LEMMA StartFits ==
    ASSUME Screen, Reported, queue = <<>>, screen \in Screens
    PROVE  Fit(Shown, StartPairs(screen))
<1> DEFINE t == Shown
           b == field.bonding
           Q == StartPairs(screen)
           C == <<"channel", ChannelText>>
           R == <<"rate", RateText>>
           B == <<"channel_bonding", Bonding(b)>>
<1>1. Bonding(b) \notin {"", "null", "garbage"} /\ Numerals \cap {"", "null", "garbage"} = {}
  BY TextsWritten DEF Numerals
<1>2. CASE screen \in {"BG", "Receive"}
  <2>1. /\ ChannelText \in Texts \ {""} /\ RateText \in Texts \ {""}
        /\ b \notin {2, 5} => ChannelText = ShownChannel
        /\ b \notin {4, 5} \/ ShownRate \in {"15", "16"} => RateText = ShownRate
        /\ b = sel.bonding
    BY <1>2, WrittenAsShown
  <2>2. ShownChannel \in Numerals /\ ShownRate \in Numerals
    BY <1>2, ShownTexts DEF ShownChannel, ShownRate
  <2>3. /\ t.mode \in {"tx", "rx"} /\ t.channel = ShownChannel /\ t.rate = ShownRate
        /\ t.bonding \in {"", Bonding(b)}
    BY <1>2, <2>1, ShownFields
  <2>4. C[2] \in Fits(t, b, "channel") /\ R[2] \in Fits(t, b, "rate")
    BY <2>1, <2>3 DEF Fits
  <2>5. b \notin {2, 4, 5} => C[2] \in Numerals /\ R[2] \in Numerals
    BY <2>1, <2>2
  <2>6. CASE screen = "BG"
    <3> DEFINE W == <<"power", Entry(Powers, field.power)>>
               Y == <<"type", IF field["power"] = 0 THEN "7" ELSE "0">>
    <3>1. Q = {Y, B, R, C, W}
      BY <2>6 DEF StartPairs, StartType, SettingPairs
    <3>2. field["power"] = sel["power"]
      <4>1. "power" \in Visible
        BY <2>6, VisibleSpinners DEF Visible, VisibleOn, AllSpinners
      <4> QED BY <4>1, NothingContained DEF Reported
    <3>3. /\ t.mode = "tx" /\ t.power = W[2]
          /\ t.bonding = IF field["power"] = 0 THEN "" ELSE Bonding(b)
      BY <2>1, <2>6, <3>2, ShownFields, TextsWritten
    <3>4. /\ W[2] \in Fits(t, b, "power") /\ Y[2] \in Fits(t, b, "type")
          /\ field["power"] # 0 => B[2] \in Fits(t, b, "channel_bonding")
      BY <1>1, <3>3 DEF Fits
    <3>5. Reads(t) = IF field["power"] = 0 THEN {"channel", "rate", "power"}
                     ELSE {"channel", "rate", "power", "channel_bonding"}
      BY <1>1, <3>3 DEF Reads
    <3>6. W[2] \notin {"null", "garbage"} /\ Y[2] \notin {"null", "garbage"}
      BY TextsWritten
    <3>7. W[1] = "power" /\ Y[1] = "type" /\ B[1] = "channel_bonding" /\ R[1] = "rate"
          /\ C[1] = "channel" /\ B[2] = Bonding(b)
      OBVIOUS
    <3> HIDE DEF t, b, Q, C, R, B, W, Y
    <3>8. \A f \in Reads(t) \cup {"type"} : \E p \in Q : p[1] = f /\ p[2] \in Fits(t, b, f)
      BY <2>4, <3>1, <3>4, <3>5, <3>7
    <3>9. b \notin {2, 4, 5} => \A p \in Q : p[2] \notin {"null", "garbage"}
      BY <1>1, <2>5, <3>1, <3>6, <3>7
    <3> QED BY <3>8, <3>9 DEF Fit, Covers, Listed, t, b, Q
  <2>7. CASE screen = "Receive"
    <3> DEFINE Y == <<"type", "2">>
    <3>1. Q = {Y, B, R, C}
      BY <2>7 DEF StartPairs, StartType, SettingPairs
    <3>2. t.mode = "rx" /\ t.bonding = Bonding(b)
      BY <2>1, <2>7, ShownFields
    <3>3. Y[2] \in Fits(t, b, "type") /\ B[2] \in Fits(t, b, "channel_bonding")
      BY <3>2 DEF Fits
    <3>4. Reads(t) = {"channel", "rate", "channel_bonding"}
      BY <3>2 DEF Reads
    <3>5. Y[1] = "type" /\ Y[2] = "2" /\ B[1] = "channel_bonding" /\ R[1] = "rate"
          /\ C[1] = "channel" /\ B[2] = Bonding(b)
      OBVIOUS
    <3> HIDE DEF t, b, Q, C, R, B, Y
    <3>6. \A f \in Reads(t) \cup {"type"} : \E p \in Q : p[1] = f /\ p[2] \in Fits(t, b, f)
      BY <2>4, <3>1, <3>3, <3>4, <3>5
    <3>7. b \notin {2, 4, 5} => \A p \in Q : p[2] \notin {"null", "garbage"}
      BY <1>1, <2>5, <3>1, <3>5
    <3> QED BY <3>6, <3>7 DEF Fit, Covers, Listed, t, b, Q
  <2> QED BY <1>2, <2>6, <2>7
<1>3. CASE screen = "Wave"
  <2> DEFINE Y == <<"type", "8">>
             X == <<"channel", Entry(Channels20M, field.channel)>>
             Z == <<"dgain", "1">>
  <2>1. Q = {Y, X, Z}
    BY <1>3 DEF StartPairs, StartType, SettingPairs
  <2>2. field["channel"] = sel["channel"]
    <3>1. "channel" \in Visible
      BY <1>3, VisibleSpinners DEF Visible, VisibleOn
    <3> QED BY <3>1, NothingContained DEF Reported
  <2>3. t.mode = "cw" /\ t.channel = X[2] /\ X[2] \in Numerals
    <3>1. t = Mode("cw", X[2], "", "", "") /\ X[2] \in Numerals
      BY <1>3, <2>2, ShownFields, ShownTexts
    <3> HIDE DEF t, X
    <3> QED BY <3>1 DEF Mode
  <2>4. X[2] \in Fits(t, b, "channel") /\ Y[2] \in Fits(t, b, "type") /\ Reads(t) = {"channel"}
    BY <2>3 DEF Fits, Reads
  <2>5. Y[1] = "type" /\ X[1] = "channel" /\ Y[2] = "8" /\ Z[2] = "1"
    OBVIOUS
  <2> HIDE DEF t, b, Q, Y, X, Z
  <2>6. \A f \in Reads(t) \cup {"type"} : \E p \in Q : p[1] = f /\ p[2] \in Fits(t, b, f)
    BY <2>1, <2>4, <2>5
  <2>7. \A p \in Q : p[2] \notin {"null", "garbage"}
    BY <1>1, <2>1, <2>3, <2>5
  <2> QED BY <2>6, <2>7 DEF Fit, Covers, Listed, t, b, Q
<1>4. CASE screen = "N"
  <2>1. Q = {<<"type", "1">>, <<"ssid", "net">>, <<"ip", "host">>}
    BY <1>4 DEF StartPairs, StartType, SettingPairs
  <2>2. t.mode = "joined"
    <3>1. t = Mode("joined", "", "", "", "")
      BY <1>4, ShownFields
    <3> HIDE DEF t
    <3> QED BY <3>1 DEF Mode
  <2>3. Reads(t) = {} /\ "1" \in Fits(t, b, "type")
    BY <2>2 DEF Reads, Fits
  <2> HIDE DEF t, b, Q
  <2> QED BY <2>1, <2>3 DEF Fit, Covers, Listed, t, b, Q
<1> QED BY <1>2, <1>3, <1>4, ScreensAssumption

Askable(test, b) ==
    /\ \A f \in Reads(test) : "" \notin Fits(test, b, f)
    /\ test.mode = "off" => test = RadioOff
    /\ test.mode = "joined" => test = Mode("joined", "", "", "", "")
    /\ test.mode = "cw" => test = Mode("cw", test.channel, "", "", "")
    /\ test.mode = "rx" => test.power = ""

LEMMA AskableShown ==
    ASSUME Screen, screen \in Screens, NEW b
    PROVE  Askable(Shown, b)
<1> DEFINE t == Shown
<1>1. "" \notin Numerals /\ Bonding(sel.bonding) # ""
  BY ShownTexts DEF Numerals
<1>2. CASE screen = "BG"
  <2>1. t.mode = "tx" /\ t.channel # "" /\ t.rate # "" /\ t.power # ""
    BY <1>1, <1>2, ShownFields, ShownTexts DEF ShownChannel, ShownRate
  <2> HIDE DEF t
  <2>2. \A f \in Reads(t) : "" \notin Fits(t, b, f)
    BY <2>1 DEF Reads, Fits
  <2> QED BY <2>1, <2>2 DEF Askable, t
<1>3. CASE screen = "Receive"
  <2>1. /\ t.mode = "rx" /\ t.channel # "" /\ t.rate # "" /\ t.power = "" /\ t.bonding # ""
    BY <1>1, <1>3, ShownFields, ShownTexts DEF ShownChannel, ShownRate
  <2> HIDE DEF t
  <2>2. \A f \in Reads(t) : "" \notin Fits(t, b, f)
    BY <2>1 DEF Reads, Fits
  <2> QED BY <2>1, <2>2 DEF Askable, t
<1>4. CASE screen = "Wave"
  <2> DEFINE w == Entry(Channels20M, sel.channel)
  <2>1. t = Mode("cw", w, "", "", "") /\ w # ""
    BY <1>1, <1>4, ShownFields, ShownTexts
  <2> HIDE DEF t, w
  <2>2. t.mode = "cw" /\ t.channel = w
    BY <2>1 DEF Mode
  <2>3. \A f \in Reads(t) : "" \notin Fits(t, b, f)
    BY <2>1, <2>2 DEF Reads, Fits
  <2> QED BY <2>1, <2>2, <2>3 DEF Askable, t
<1>5. CASE screen = "N"
  <2>1. t = Mode("joined", "", "", "", "")
    BY <1>5, ShownFields
  <2> HIDE DEF t
  <2>2. t.mode = "joined"
    BY <2>1 DEF Mode
  <2>3. Reads(t) = {}
    BY <2>2 DEF Reads
  <2> QED BY <2>1, <2>2, <2>3 DEF Askable, t
<1> QED BY <1>2, <1>3, <1>4, <1>5, ScreensAssumption

LEMMA RadioIsOff ==
    RadioOff.mode = "off" /\ Reads(RadioOff) = {} /\ \A b : Fits(RadioOff, b, "type") = {"4", "6"}
<1>1. RadioOff.mode = "off"
  BY DEF RadioOff, Mode
<1> QED BY <1>1 DEF Reads, Fits

LEMMA AskableOff == \A b : Askable(RadioOff, b)
  BY RadioIsOff DEF Askable

LEMMA ClickAsked ==
    ASSUME NEW h, NEW want, ClickButton(h, want), \A b : Askable(want, b)
    PROVE  Asked'
<1>1. asked'.test = want
  BY DEF ClickButton
<1> QED BY <1>1 DEF Asked, Askable, Test, Needed, Fitting

LEMMA StartStages ==
    ASSUME Screen, Reported, ClickStart
    PROVE  Handled' /\ Asked' /\ Stages'
<1> DEFINE h == StartHandler(screen)
           want == Shown
           P == StartPairs(screen)
           g == Do("start")
<1>1. screen \in Screens /\ ClickButton(h, want)
  BY DEF ClickStart, ClickButton, Screen
<1>2. Handler(h, P, g) /\ Askable(want, field.bonding) /\ \A b : Askable(want, b)
  BY <1>1, StartHandled, AskableShown
<1>3. 1 \in 1..Len(g) /\ g[1].op = "start" /\ {g[i].op : i \in 1..Len(g)} \subseteq {"start", "report"}
  <2>1. g = <<Asks("start")>> /\ Asks("start").op = "start"
    BY OneRequest DEF Asks
  <2> HIDE DEF g, Asks
  <2> QED BY <2>1
<1>4. ~hasty' => queue = <<>>
  BY <1>1, Zenon DEF ClickButton, Haste, Settled
<1>5. ~hasty' => Fit(want, P)
  BY <1>1, <1>4, StartFits
<1> HIDE DEF h, want, P, g
<1>6. Handled' /\ Asked'
  <2>1. click' = h
    BY <1>1 DEF ClickButton
  <2> QED BY <1>1, <1>2, <2>1, ClickAsked DEF Handler, Handled
<1>7. ~hasty' => Handling'
  BY <1>1, <1>2, <1>3, <1>5, ClickHandling DEF Fit, AsksFor
<1> QED BY <1>6, <1>7 DEF Stages

LEMMA PairConcat ==
    ASSUME NEW a, NEW b
    PROVE  Len(<<a>> \o <<b>>) = 2 /\ (<<a>> \o <<b>>)[1] = a /\ (<<a>> \o <<b>>)[2] = b
<1> DEFINE S == {a, b}
           A == <<a>>
           B == <<b>>
           g == A \o B
<1>1. A \in Seq(S) /\ B \in Seq(S) /\ Len(A) = 1 /\ Len(B) = 1 /\ A[1] = a /\ B[1] = b
  OBVIOUS
<1> HIDE DEF S, A, B
<1>2. /\ Len(g) = Len(A) + 1
      /\ \A k \in 1..Len(A) : g[k] = A[k]
      /\ g[Len(A) + 1] = B[1]
  BY <1>1, ConcatOne
<1> HIDE DEF g
<1>3. Len(g) = 2 /\ g[1] = a /\ g[2] = b
  BY <1>1, <1>2
<1> QED BY <1>3 DEF g, A, B

LEMMA StopStages ==
    ASSUME Screen, ClickStop
    PROVE  Handled' /\ Asked' /\ Stages'
<1> DEFINE h == StopHandler(screen)
           P == StopPairs(screen)
           g == StopAsks(screen)
<1>1. screen \in Screens /\ ClickButton(h, RadioOff)
  BY DEF ClickStop, ClickButton, Screen
<1>2. Handler(h, P, g)
  BY <1>1, StopHandled
<1>3. Do("start") = <<Asks("start")>> /\ Do("stop") = <<Asks("stop")>>
      /\ Do("report") = <<Asks("report")>>
  BY OneRequest
<1>4. \A op : Asks(op).op = op
  BY DEF Asks
<1>5. /\ \A p \in P : p[2] \notin {"null", "garbage"}
      /\ screen \in {"Receive", "N"} => \E p \in P : p[1] = "type" /\ p[2] \in {"4", "6"}
  <2>1. CASE screen = "Receive"
    <3>1. P = {<<"type", "6">>}
      BY <2>1 DEF StopPairs
    <3> HIDE DEF P
    <3> QED BY <2>1, <3>1
  <2>2. CASE screen = "N"
    <3>1. P = {<<"type", "4">>}
      BY <2>2 DEF StopPairs
    <3> HIDE DEF P
    <3> QED BY <2>2, <3>1
  <2>3. CASE screen \notin {"Receive", "N"}
    BY <2>3 DEF StopPairs
  <2> QED BY <2>1, <2>2, <2>3
<1>6. PICK op \in {"start", "stop"} :
        /\ 1 \in 1..Len(g) /\ g[1].op = op
        /\ {g[i].op : i \in 1..Len(g)} \subseteq {op, "report"}
        /\ op = "start" => screen \in {"Receive", "N"}
  <2> DEFINE a == Asks("start")
             b == Asks("report")
             c == Asks("stop")
  <2> HIDE DEF a, b, c
  <2>1. a.op = "start" /\ b.op = "report" /\ c.op = "stop"
    BY <1>4 DEF a, b, c
  <2>2. CASE screen = "Receive"
    <3>1. g = <<a>> \o <<b>>
      BY <1>3, <2>2 DEF StopAsks, a, b
    <3> HIDE DEF g
    <3>2. Len(g) = 2 /\ g[1] = a /\ g[2] = b
      BY <3>1, PairConcat
    <3>3. 1 \in 1..Len(g) /\ \A i \in 1..Len(g) : i = 1 \/ i = 2
      BY <3>2
    <3> QED BY <2>1, <2>2, <3>2, <3>3
  <2>3. CASE screen = "N"
    <3>1. g = <<a>>
      BY <1>3, <2>3 DEF StopAsks, a
    <3> HIDE DEF g
    <3> QED BY <2>1, <2>3, <3>1
  <2>4. CASE screen \notin {"Receive", "N"}
    <3>1. g = <<c>>
      BY <1>3, <2>4 DEF StopAsks, c
    <3> HIDE DEF g
    <3> QED BY <2>1, <2>4, <3>1
  <2> QED BY <2>2, <2>3, <2>4
<1> HIDE DEF h, P, g
<1>7. Handled' /\ Asked'
  <2>1. click' = h
    BY <1>1 DEF ClickButton
  <2> QED BY <1>1, <1>2, <2>1, ClickAsked, AskableOff DEF Handler, Handled
<1>8. op = "start" => Covers(RadioOff, P)
  BY <1>5, <1>6, RadioIsOff DEF Covers
<1>9. ~hasty' => Handling'
  <2>1. AsksFor(g, op) /\ Listed(P)
    BY <1>5, <1>6 DEF AsksFor, Listed
  <2> QED BY <1>1, <1>2, <1>8, <2>1, RadioIsOff, ClickHandling
<1> QED BY <1>7, <1>9 DEF Stages

-----------------------------------------------------------------------------
(* The framework and the scripts.                                           *)
LEMMA StartsRunning ==
    ASSUME Data, Quiet, NEW s \in Scripts, requests' = <<>>, Reporting, ScriptFor(s),
           todo' = [todo EXCEPT ![s] = Steps(s)],
           \A f \in Needed : Told(f, Fitting(f)),
           UNCHANGED <<files, failed, asked, click>>
    PROVE  Running(s)'
<1>1. UNCHANGED <<Test, Needed>> /\ (\A f : UNCHANGED Fitting(f)) /\ ScriptFor(s)'
  BY DEF Test, Needed, Fitting, ScriptFor
<1>2. /\ todo'[s] = Steps(s) /\ todo'[s] # <<>> /\ \A t \in Scripts \ {s} : todo'[t] = <<>>
      /\ Len(Steps(s)) \in Nat
  BY StepsTyped, LenProperties DEF Data, Quiet
<1>3. Done(s)' = 0
  BY <1>2 DEF Done
<1>4. \A k \in 1..Len(todo'[s]) : todo'[s][k] = Steps(s)[Done(s)' + k]
  <2>1. \A k \in 1..Len(todo'[s]) : 0 + k = k
    OBVIOUS
  <2> QED BY <1>2, <1>3, <2>1
<1>5. 1..Done(s)' = {}
  BY <1>3
<1>6. \A f \in Needed' : Told(f, Fitting(f))'
  BY <1>1 DEF Told
<1>7. Reporting'
  BY DEF Reporting
<1> HIDE DEF Done
<1> QED BY <1>1, <1>2, <1>4, <1>5, <1>6, <1>7 DEF Running, Reporting

LEMMA DispatchStages ==
    ASSUME Data, Pipeline, Dispatch
    PROVE  Pipeline'
<1>1. Requested
  BY DEF Pipeline, Dispatch, Handling, Running, Over
<1>2. requests \in Seq({"start", "stop"}) /\ Len(requests) = 1
  BY <1>1, Zenon DEF Data, Requested
<1>3. Head(requests) = requests[1] /\ requests[1] \in {"start", "stop"} /\ Tail(requests) = <<>>
  <2>1. 1 \in 1..Len(requests)
    BY <1>2
  <2>2. Tail(requests) \in Seq({"start", "stop"}) /\ Len(Tail(requests)) = 0
    BY <1>2, HeadTailProperties, EmptySeq
  <2> QED BY <1>2, <2>1, <2>2, HeadTailProperties, ElementOfSeq, EmptySeq
<1>4. /\ requests' = <<>> /\ Quiet /\ Reporting /\ WillFit(requests[1])
      /\ UNCHANGED <<click, files, radio, asked, failed>>
  BY <1>1, <1>3 DEF Dispatch, Requested, Reporting
<1>5. ASSUME NEW f, Promised(f, Fitting(f)) PROVE Told(f, Fitting(f))
  BY <1>4, <1>5 DEF Promised, ToWrite, Reporting
<1>6. CASE requests[1] = "stop"
  <2>1. Test.mode = "off"
    BY <1>4, <1>6 DEF WillFit
  <2>2. Needed = {} /\ ScriptFor("TxStop") /\ "TxStop" \in Scripts
    BY <2>1 DEF Needed, Reads, ScriptFor, Scripts
  <2>3. todo' = [todo EXCEPT !["TxStop"] = Steps("TxStop")]
    BY <1>3, <1>4, <1>6, <2>2 DEF Dispatch, Quiet
  <2> QED BY <1>4, <2>2, <2>3, StartsRunning DEF Pipeline
<1>7. CASE requests[1] = "start"
  <2>1. \A f \in Needed \cup {"type"} : Told(f, Fitting(f))
    BY <1>4, <1>5, <1>7 DEF WillFit
  <2> DEFINE type == files["type"]
  <2>2. CASE type = ""
    <3>1. UNCHANGED todo
      BY <1>3, <1>7, <2>2 DEF Dispatch
    <3>2. "type" \in failed
      BY <2>1, <2>2 DEF Told, Fitting, Fits
    <3>3. Over'
      BY <1>4, <3>1, <3>2 DEF Over, Quiet, InClick, Reporting
    <3> QED BY <3>3 DEF Pipeline
  <2>3. CASE type # ""
    <3>1. type \in Fitting("type")
      BY <2>1, <2>3 DEF Told
    <3>2. ScriptFor(ScriptOf[type]) /\ ScriptOf[type] \in Scripts
      BY <3>1 DEF Fitting, Fits, ScriptFor, ScriptOf, Scripts
    <3>3. todo' = [todo EXCEPT ![ScriptOf[type]] = Steps(ScriptOf[type])]
      BY <1>3, <1>4, <1>7, <2>3, <3>2 DEF Dispatch, Quiet
    <3> QED BY <1>4, <2>1, <3>2, <3>3, StartsRunning DEF Pipeline
  <2> QED BY <2>2, <2>3
<1> QED BY <1>3, <1>6, <1>7

LEMMA StepsShape ==
    ASSUME NEW s \in Scripts, NEW k \in 1..Len(Steps(s))
    PROVE  /\ Steps(s)[k].op = "off" => k >= Len(Steps(s)) - 1
           /\ k < Len(Steps(s)) => Steps(s)[k].op \in {"read", "off", "report"}
           /\ Steps(s)[k].op = "read" => Steps(s)[k].file \in Files \ {"rxreport"}
<1> DEFINE G == Files \ {"rxreport"}
<1>1. {"channel", "rate", "power", "channel_bonding"} \subseteq G
  BY DEF Files
<1>2. \A f : Read(f).op = "read" /\ Read(f).file = f
  BY DEF Read
<1>3. \A op : Run(op).op = op
  BY DEF Run
<1> HIDE DEF G
<1>4. CASE s = "tx"
  <2>1. Steps(s) = <<Read("channel_bonding"), Read("channel"), Read("rate"),
                     Read("power"), Run("myftm_tx")>>
    BY <1>4 DEF Steps
  <2>2. /\ Len(Steps(s)) = 5 /\ Steps(s)[5].op = "myftm_tx"
        /\ \A i \in {1, 2, 3, 4} : Steps(s)[i].op = "read" /\ Steps(s)[i].file \in G
    BY <1>1, <1>2, <1>3, <2>1
  <2> QED BY <2>2 DEF G
<1>5. CASE s = "fixed"
  <2>1. Steps(s) = <<Read("channel"), Read("rate"), Read("power"), Run("off"), Run("iwpriv_tx")>>
    BY <1>5 DEF Steps
  <2>2. /\ Len(Steps(s)) = 5 /\ Steps(s)[4].op = "off" /\ Steps(s)[5].op = "iwpriv_tx"
        /\ \A i \in {1, 2, 3} : Steps(s)[i].op = "read" /\ Steps(s)[i].file \in G
    BY <1>1, <1>2, <1>3, <2>1
  <2> QED BY <2>2 DEF G
<1>6. CASE s = "RxOn"
  <2>1. Steps(s) = <<Read("channel_bonding"), Read("channel"), Read("rate"), Run("myftm_rx")>>
    BY <1>6 DEF Steps
  <2>2. /\ Len(Steps(s)) = 4 /\ Steps(s)[4].op = "myftm_rx"
        /\ \A i \in {1, 2, 3} : Steps(s)[i].op = "read" /\ Steps(s)[i].file \in G
    BY <1>1, <1>2, <1>3, <2>1
  <2> QED BY <2>2 DEF G
<1>7. CASE s = "RxStop"
  <2>1. Steps(s) = <<Run("report"), Run("off")>>
    BY <1>7 DEF Steps
  <2>2. Len(Steps(s)) = 2 /\ Steps(s)[1].op = "report" /\ Steps(s)[2].op = "off"
    BY <1>3, <2>1
  <2> QED BY <2>2
<1>8. CASE s = "wg"
  <2>1. Steps(s) = <<Read("channel"), Run("cw")>>
    BY <1>8 DEF Steps
  <2>2. /\ Len(Steps(s)) = 2 /\ Steps(s)[2].op = "cw"
        /\ Steps(s)[1].op = "read" /\ Steps(s)[1].file \in G
    BY <1>1, <1>2, <1>3, <2>1
  <2> QED BY <2>2 DEF G
<1>9. CASE s \in {"txn", "rmmod", "TxStop"}
  <2>1. Len(Steps(s)) = 1 /\ Steps(s)[1].op \in {"join", "off"}
    BY <1>9 DEF Steps, Run
  <2> QED BY <2>1
<1> QED BY <1>4, <1>5, <1>6, <1>7, <1>8, <1>9 DEF Scripts

LEMMA RunningPlaces ==
    ASSUME Data, NEW s \in Scripts, Running(s)
    PROVE  /\ Len(Steps(s)) \in Nat /\ Done(s) \in 0..(Len(Steps(s)) - 1)
           /\ Len(todo[s]) = Len(Steps(s)) - Done(s)
           /\ Head(todo[s]) = Steps(s)[Done(s) + 1]
           /\ Tail(todo[s]) \in Seq(ScriptSteps) /\ Len(Tail(todo[s])) = Len(todo[s]) - 1
           /\ \A k \in 1..Len(Tail(todo[s])) : Tail(todo[s])[k] = Steps(s)[Done(s) + 1 + k]
<1>1. /\ todo[s] \in Seq(ScriptSteps) /\ todo[s] # <<>> /\ Len(todo[s]) <= Len(Steps(s))
      /\ Len(Steps(s)) \in Nat
  BY StepsTyped, LenProperties DEF Data, Running
<1> HIDE DEF ScriptSteps
<1>2. /\ Len(todo[s]) \in Nat \ {0} /\ Head(todo[s]) = todo[s][1]
      /\ Tail(todo[s]) \in Seq(ScriptSteps) /\ Len(Tail(todo[s])) = Len(todo[s]) - 1
      /\ \A k \in 1..Len(Tail(todo[s])) : Tail(todo[s])[k] = todo[s][k + 1]
  BY <1>1, HeadTailProperties, EmptySeq, LenProperties
<1>3. Done(s) \in 0..(Len(Steps(s)) - 1) /\ Len(todo[s]) = Len(Steps(s)) - Done(s)
  BY <1>1, <1>2 DEF Done
<1>4. \A k \in 1..Len(todo[s]) : todo[s][k] = Steps(s)[Done(s) + k]
  BY DEF Running
<1>5. Head(todo[s]) = Steps(s)[Done(s) + 1]
  BY <1>2, <1>4
<1>6. ASSUME NEW k \in 1..Len(Tail(todo[s]))
      PROVE  Tail(todo[s])[k] = Steps(s)[Done(s) + 1 + k]
  <2>1. k + 1 \in 1..Len(todo[s]) /\ Done(s) + (k + 1) = Done(s) + 1 + k
    BY <1>2, <1>3
  <2> QED BY <1>2, <1>4, <2>1
<1> QED BY <1>1, <1>2, <1>3, <1>5, <1>6

(* A script goes on: what it has read is still in the files.                *)
LEMMA ScriptGoesOn ==
    ASSUME Data, NEW s \in Scripts, Running(s), ScriptStep(s), Len(todo[s]) # 1
    PROVE  Running(s)'
<1> DEFINE n == Len(Steps(s))
           d == Done(s)
           step == Steps(s)[d + 1]
<1>1. /\ n \in Nat /\ d \in 0..(n - 1) /\ Len(todo[s]) = n - d /\ Head(todo[s]) = step
      /\ Tail(todo[s]) \in Seq(ScriptSteps) /\ Len(Tail(todo[s])) = Len(todo[s]) - 1
      /\ \A k \in 1..Len(Tail(todo[s])) : Tail(todo[s])[k] = Steps(s)[d + 1 + k]
  BY RunningPlaces
<1>2. d + 1 \in 1..n /\ d + 1 < n
  BY <1>1
<1>3. step.op \in {"read", "off", "report"} /\ (step.op = "read" => step.file \in Files)
  BY <1>2, StepsShape
<1>4. /\ todo' = [todo EXCEPT ![s] = Tail(todo[s])]
      /\ got' = [got EXCEPT ![s] = IF step.op = "read"
                                   THEN [got[s] EXCEPT ![step.file] = files[step.file]] ELSE got[s]]
      /\ radio' = Command(step.op, got[s])
      /\ files' = IF step.op = "report" THEN Report ELSE files
      /\ UNCHANGED <<click, requests, asked, failed>>
  BY <1>1 DEF ScriptStep
<1>5. UNCHANGED <<Test, Needed>> /\ (\A f : UNCHANGED Fitting(f)) /\ ScriptFor(s)'
      /\ requests' = <<>> /\ \A k \in 1..Len(click') : click'[k].op = "report"
  BY <1>4 DEF Running, Test, Needed, Fitting, ScriptFor
<1>6. /\ todo'[s] = Tail(todo[s]) /\ \A t \in Scripts \ {s} : todo'[t] = <<>>
      /\ todo \in [Scripts -> Seq(ScriptSteps)]
  BY <1>4 DEF Data, Running
<1>7. Done(s)' = d + 1 /\ todo'[s] # <<>>
  <2> DEFINE l == Len(todo'[s])
  <2>1. l = (n - d) - 1
    BY <1>1, <1>6
  <2>2. Done(s)' = n - l
    BY DEF Done
  <2>3. Len(<<>>) = 0
    OBVIOUS
  <2>4. l # 0 /\ n - l = d + 1
    <3> HIDE DEF l, n, d
    <3> QED BY <1>1, <1>2, <2>1
  <2> QED BY <2>2, <2>3, <2>4
<1>8. \A k \in 1..Len(todo'[s]) : todo'[s][k] = Steps(s)[Done(s)' + k]
  BY <1>1, <1>6, <1>7
<1>9. \A f \in Files : f # "rxreport" => files'[f] = files[f]
  BY <1>4 DEF Report, Data
<1>10. \A f \in Needed' : Told(f, Fitting(f))'
  <2>1. \A f \in Needed : f \in Files /\ f # "rxreport"
    BY FitsFiles DEF Needed
  <2> QED BY <1>4, <1>5, <1>9, <2>1 DEF Running, Told
<1>11. ASSUME NEW k \in 1..(d + 1)
       PROVE  /\ Steps(s)[k].op = "read" => got'[s][Steps(s)[k].file] = files'[Steps(s)[k].file]
              /\ Steps(s)[k].op = "off" => radio' = RadioOff
  <2>1. k \in 1..n
    BY <1>1, <1>2
  <2>2. ASSUME Steps(s)[k].op = "read"
        PROVE  got'[s][Steps(s)[k].file] = files'[Steps(s)[k].file]
    <3> DEFINE f == Steps(s)[k].file
    <3>1. f \in Files /\ files'[f] = files[f]
      BY <1>9, <2>1, <2>2, StepsShape
    <3>2. k \in 1..d => got[s][f] = files[f]
      BY <2>2 DEF Running
    <3>3. got'[s] = IF step.op = "read" THEN [got[s] EXCEPT ![step.file] = files[step.file]]
                    ELSE got[s]
      BY <1>4 DEF Data
    <3>4. got[s] \in [Files -> Texts]
      BY DEF Data
    <3>5. k \in 1..d \/ k = d + 1
      BY <1>1
    <3> HIDE DEF f
    <3>6. CASE k = d + 1
      <4>1. step.op = "read" /\ step.file = f
        BY <2>2, <3>6 DEF f
      <4> QED BY <3>1, <3>3, <3>4, <4>1 DEF f
    <3>7. CASE k \in 1..d
      BY <1>3, <3>1, <3>2, <3>3, <3>4, <3>7 DEF f
    <3> QED BY <3>5, <3>6, <3>7
  <2>3. ASSUME Steps(s)[k].op = "off" PROVE radio' = RadioOff
    <3>1. k >= n - 1
      BY <2>1, <2>3, StepsShape
    <3>2. k = d + 1
      BY <1>1, <1>2, <3>1
    <3>3. step.op = "off"
      BY <2>3, <3>2
    <3> QED BY <1>4, <3>3 DEF Command
  <2> QED BY <2>2, <2>3
<1> HIDE DEF n, d, step
<1>12. /\ ScriptFor(s)' /\ todo'[s] # <<>> /\ Done(s)' = d + 1
  BY <1>5, <1>7
<1> QED BY <1>5, <1>6, <1>7, <1>8, <1>10, <1>11 DEF Running

(* What is read of the files for a test.                                    *)
TestTexts == {Test.channel, Test.rate, Test.power, Test.bonding, ""}
AsTold(g) ==
    /\ \A f \in Needed : /\ g[f] # "" \/ failed # {}
                         /\ asked.bonding \notin {2, 4, 5} => g[f] \in TestTexts
    /\ failed = {} =>
        /\ "channel" \in Needed /\ (Test.mode = "cw" \/ asked.bonding \notin {2, 5}) =>
              g["channel"] = Test.channel
        /\ "rate" \in Needed /\ (asked.bonding \notin {4, 5} \/ Test.rate \in {"15", "16"}) =>
              g["rate"] = Test.rate
        /\ "power" \in Needed => g["power"] = Test.power
        /\ "channel_bonding" \in Needed => g["channel_bonding"] = Test.bonding

LEMMA ReadTold ==
    ASSUME Asked, NEW g, \A f \in Needed : g[f] = files[f] /\ Told(f, Fitting(f))
    PROVE  AsTold(g)
<1>1. Needed \subseteq {"channel", "rate", "power", "channel_bonding"}
  BY DEF Needed, Reads
<1>2. ASSUME NEW f \in Needed
      PROVE  g[f] \in Fitting(f) \/ (g[f] = "" /\ failed # {})
  <2>1. g[f] = files[f] /\ Told(f, Fitting(f))
    BY Zenon
  <2> QED BY <2>1 DEF Told
<1>3. \A f \in Needed : "" \notin Fitting(f)
  BY DEF Asked
<1>4. /\ (Test.mode = "cw" \/ asked.bonding \notin {2, 5}) => Fitting("channel") = {Test.channel}
      /\ asked.bonding \notin {4, 5} \/ Test.rate \in {"15", "16"} => Fitting("rate") = {Test.rate}
      /\ Fitting("power") = {Test.power} /\ Fitting("channel_bonding") = {Test.bonding}
  BY DEF Fitting, Fits
<1>5. ASSUME NEW f \in Needed, asked.bonding \notin {2, 4, 5} PROVE g[f] \in TestTexts
  <2>1. Fitting(f) \subseteq TestTexts
    BY <1>1, <1>4, <1>5 DEF TestTexts
  <2>2. "" \in TestTexts
    BY DEF TestTexts
  <2> QED BY <1>2, <2>1, <2>2
<1>6. \A f \in Needed : failed = {} => g[f] \in Fitting(f)
  BY <1>2
<1>7. failed = {} =>
        /\ "channel" \in Needed /\ (Test.mode = "cw" \/ asked.bonding \notin {2, 5}) =>
              g["channel"] = Test.channel
        /\ "rate" \in Needed /\ (asked.bonding \notin {4, 5} \/ Test.rate \in {"15", "16"}) =>
              g["rate"] = Test.rate
        /\ "power" \in Needed => g["power"] = Test.power
        /\ "channel_bonding" \in Needed => g["channel_bonding"] = Test.bonding
  BY <1>4, <1>6
<1>8. \A f \in Needed : g[f] # "" \/ failed # {}
  BY <1>2, <1>3
<1> QED BY <1>5, <1>7, <1>8 DEF AsTold

(* The last command of a test.                                              *)
Took == (failed = {} => AsShown) /\ NotStale

LEMMA TxRuns ==
    ASSUME Test.mode = "tx", Needed = {"channel", "rate", "power", "channel_bonding"},
           NEW g, AsTold(g), UNCHANGED <<asked, failed>>, radio' = Command("myftm_tx", g)
    PROVE  Took'
<1> DEFINE four == <<g["channel"], g["rate"], g["power"], g["channel_bonding"]>>
<1>1. radio' = Mode("tx", Argument(four, 1), Argument(four, 2), Argument(four, 3),
                    Argument(four, 4))
  BY DEF Command
<1>2. {"channel", "rate", "power", "channel_bonding"} \subseteq Needed
  OBVIOUS
<1>3. /\ Len(four) = 4 /\ four[1] = g["channel"] /\ four[2] = g["rate"]
      /\ four[3] = g["power"] /\ four[4] = g["channel_bonding"]
  OBVIOUS
<1> HIDE DEF four
<1>4. \A n \in 1..4 : n = 1 \/ n = 2 \/ n = 3 \/ n = 4
  BY SMT
<1>5. /\ radio'.mode = "tx" /\ radio'.channel = Argument(four, 1)
      /\ radio'.rate = Argument(four, 2) /\ radio'.power = Argument(four, 3)
      /\ radio'.bonding = Argument(four, 4)
  <2> DEFINE a(i) == Argument(four, i)
  <2>1. radio' = Mode("tx", a(1), a(2), a(3), a(4))
    BY <1>1
  <2> HIDE DEF a
  <2>2. /\ radio'.mode = "tx" /\ radio'.channel = a(1) /\ radio'.rate = a(2)
        /\ radio'.power = a(3) /\ radio'.bonding = a(4)
    BY <2>1 DEF Mode
  <2> QED BY <2>2 DEF a
<1>6. UNCHANGED <<Test, TestTexts>>
  BY DEF Test, TestTexts
<1>7. ASSUME failed = {} PROVE AsShown'
  <2>1. \A n \in 1..4 : four[n] # ""
    BY <1>2, <1>3, <1>4, <1>7 DEF AsTold
  <2>2. \A i \in 1..4 : Argument(four, i) = four[i]
    BY <1>3, <2>1, ArgumentAll
  <2>3. /\ radio'.channel = g["channel"] /\ radio'.rate = g["rate"]
        /\ radio'.power = g["power"] /\ radio'.bonding = g["channel_bonding"]
    BY <1>3, <1>5, <2>2
  <2> QED BY <1>2, <1>5, <1>6, <1>7, <2>3 DEF AsShown, AsTold
<1>8. ASSUME asked.bonding \notin {2, 4, 5}
      PROVE  {radio'.channel, radio'.rate, radio'.power, radio'.bonding} \subseteq TestTexts
  <2>1. \A n \in 1..Len(four) : four[n] \in TestTexts
    BY <1>2, <1>3, <1>4, <1>8 DEF AsTold
  <2>2. \A i : Argument(four, i) \in TestTexts \cup {""}
    BY <2>1, ArgumentAmong
  <2> QED BY <1>5, <2>2 DEF TestTexts
<1>9. NotStale'
  BY <1>6, <1>8 DEF NotStale, TestTexts
<1> QED BY <1>7, <1>9 DEF Took

LEMMA RxRuns ==
    ASSUME Asked, Test.mode = "rx", Needed = {"channel", "rate", "channel_bonding"},
           NEW g, AsTold(g), UNCHANGED <<asked, failed>>, radio' = Command("myftm_rx", g)
    PROVE  Took'
<1> DEFINE rx == <<g["channel"], g["rate"], g["channel_bonding"]>>
           a(i) == Argument(rx, i)
           none == ""
<1>1. radio' = Mode("rx", a(1), a(2), none, a(3))
  BY DEF Command
<1>2. Len(rx) = 3 /\ rx[1] = g["channel"] /\ rx[2] = g["rate"] /\ rx[3] = g["channel_bonding"]
  OBVIOUS
<1>3. \A n \in 1..3 : n = 1 \/ n = 2 \/ n = 3
  BY SMT
<1> HIDE DEF rx, a, none
<1>4. /\ radio'.mode = "rx" /\ radio'.channel = a(1) /\ radio'.rate = a(2)
      /\ radio'.power = none /\ radio'.bonding = a(3)
  BY <1>1 DEF Mode
<1>5. UNCHANGED <<Test, TestTexts>>
  BY DEF Test, TestTexts
<1>6. ASSUME failed = {} PROVE AsShown'
  <2>1. \A n \in 1..3 : rx[n] # ""
    BY <1>2, <1>3, <1>6 DEF AsTold
  <2>2. \A i \in 1..3 : a(i) = rx[i]
    BY <1>2, <2>1, ArgumentAll DEF a
  <2>3. radio'.channel = g["channel"] /\ radio'.rate = g["rate"]
        /\ radio'.bonding = g["channel_bonding"]
    BY <1>2, <1>4, <2>2
  <2>4. Test.power = none
    BY DEF Asked, none
  <2> QED BY <1>4, <1>5, <1>6, <2>3, <2>4 DEF AsShown, AsTold
<1>7. ASSUME asked.bonding \notin {2, 4, 5}
      PROVE  {radio'.channel, radio'.rate, radio'.power, radio'.bonding} \subseteq TestTexts
  <2>1. \A n \in 1..Len(rx) : rx[n] \in TestTexts
    BY <1>2, <1>3, <1>7 DEF AsTold
  <2>2. \A i : a(i) \in TestTexts \cup {""}
    BY <2>1, ArgumentAmong DEF a
  <2> QED BY <1>4, <2>2 DEF TestTexts, none
<1>8. NotStale'
  BY <1>5, <1>7 DEF NotStale, TestTexts
<1> QED BY <1>6, <1>8 DEF Took

(* iwpriv without an argument would change nothing, but the driver was      *)
(* loaded anew.                                                             *)
LEMMA FixedRuns ==
    ASSUME Test.mode = "tx", Needed = {"channel", "rate", "power"}, radio = RadioOff,
           NEW g, AsTold(g), UNCHANGED <<asked, failed>>, radio' = Command("iwpriv_tx", g)
    PROVE  Took'
<1> DEFINE three == <<g["channel"], g["rate"], g["power"]>>
           a(i) == Argument(three, i)
           none == ""
<1>1. radio' = Mode("tx", a(1), a(2), a(3), none)
  <2>1. radio' = Mode("tx", Keep(a(1), radio.channel), Keep(a(2), radio.rate),
                      Keep(a(3), radio.power), "")
    BY DEF Command
  <2>2. radio.channel = "" /\ radio.rate = "" /\ radio.power = ""
    BY DEF RadioOff, Mode
  <2>3. \A x : Keep(x, "") = x
    BY DEF Keep
  <2> HIDE DEF a
  <2> QED BY <2>1, <2>2, <2>3, Zenon
<1>2. Len(three) = 3 /\ three[1] = g["channel"] /\ three[2] = g["rate"] /\ three[3] = g["power"]
  OBVIOUS
<1>3. \A n \in 1..3 : n = 1 \/ n = 2 \/ n = 3
  BY SMT
<1> HIDE DEF three, a, none
<1>4. /\ radio'.mode = "tx" /\ radio'.channel = a(1) /\ radio'.rate = a(2)
      /\ radio'.power = a(3) /\ radio'.bonding = none
  BY <1>1 DEF Mode
<1>5. UNCHANGED <<Test, TestTexts>>
  BY DEF Test, TestTexts
<1>6. ASSUME failed = {} PROVE AsShown'
  <2>1. \A n \in 1..3 : three[n] # ""
    BY <1>2, <1>3, <1>6 DEF AsTold
  <2>2. \A i \in 1..3 : a(i) = three[i]
    BY <1>2, <2>1, ArgumentAll DEF a
  <2>3. radio'.channel = g["channel"] /\ radio'.rate = g["rate"] /\ radio'.power = g["power"]
    BY <1>2, <1>4, <2>2
  <2>4. Test.bonding = none
    <3>1. "channel_bonding" \notin Needed
      OBVIOUS
    <3> QED BY <3>1 DEF Needed, Reads, none
  <2> QED BY <1>4, <1>5, <1>6, <2>3, <2>4 DEF AsShown, AsTold
<1>7. ASSUME asked.bonding \notin {2, 4, 5}
      PROVE  {radio'.channel, radio'.rate, radio'.power, radio'.bonding} \subseteq TestTexts
  <2>1. \A n \in 1..Len(three) : three[n] \in TestTexts
    BY <1>2, <1>3, <1>7 DEF AsTold
  <2>2. \A i : a(i) \in TestTexts \cup {""}
    BY <2>1, ArgumentAmong DEF a
  <2> QED BY <1>4, <2>2 DEF TestTexts, none
<1>8. NotStale'
  BY <1>5, <1>7 DEF NotStale, TestTexts
<1> QED BY <1>6, <1>8 DEF Took

LEMMA WaveRuns ==
    ASSUME Asked, Test.mode = "cw", Needed = {"channel"}, NEW g, AsTold(g), UNCHANGED <<asked, failed>>, radio' = Command("cw", g)
    PROVE  Took'
<1> DEFINE k == Keep(g["channel"], radio.channel)
           c == Test.channel
           none == ""
<1>1. radio' = Mode("cw", k, none, none, none)
  BY DEF Command
<1> HIDE DEF k, none
<1>2. /\ radio'.mode = "cw" /\ radio'.channel = k /\ radio'.rate = none
      /\ radio'.power = none /\ radio'.bonding = none
  BY <1>1 DEF Mode
<1>3. UNCHANGED Test
  BY DEF Test
<1>4. Test.rate = none /\ Test.power = none /\ Test.bonding = none
  <2> HIDE DEF c
  <2>1. Test = Mode("cw", c, none, none, none)
    BY DEF Asked, c, none
  <2> QED BY <2>1 DEF Mode
<1>5. NotStale'
  BY <1>2 DEF NotStale
<1>6. ASSUME failed = {} PROVE AsShown'
  <2>1. g["channel"] = Test.channel /\ g["channel"] # ""
    BY <1>6 DEF AsTold
  <2>2. k = Test.channel
    BY <2>1 DEF k, Keep
  <2> QED BY <1>2, <1>3, <1>4, <2>2 DEF AsShown
<1> QED BY <1>5, <1>6 DEF Took

LEMMA NetRuns ==
    ASSUME Asked, Test.mode = "joined", NEW g,
           UNCHANGED <<asked, failed>>, radio' = Command("join", g)
    PROVE  Took'
<1>1. radio' = Test /\ UNCHANGED Test
  BY DEF Asked, Command, Test
<1> QED BY <1>1 DEF Took, AsShown, NotStale

LEMMA StopRuns ==
    ASSUME Test.mode = "off", NEW g, UNCHANGED <<asked, failed>>, radio' = Command("off", g)
    PROVE  Took'
<1>1. radio' = RadioOff /\ UNCHANGED Test
  BY DEF Command, Test
<1>2. radio'.mode = "off"
  BY <1>1, RadioIsOff
<1> QED BY <1>1, <1>2 DEF Took, AsShown, NotStale

LEMMA ScriptEnds ==
    ASSUME Data, Asked, NEW s \in Scripts, Running(s), ScriptStep(s), Len(todo[s]) = 1
    PROVE  Over'
<1> DEFINE n == Len(Steps(s))
           d == Done(s)
           g == got[s]
           step == Steps(s)[d + 1]
<1>1. /\ n \in Nat /\ d \in 0..(n - 1) /\ Len(todo[s]) = n - d /\ Head(todo[s]) = step
      /\ Tail(todo[s]) \in Seq(ScriptSteps) /\ Len(Tail(todo[s])) = Len(todo[s]) - 1
  BY RunningPlaces
<1> HIDE DEF n, d, g, step
<1>2. d + 1 = n /\ Tail(todo[s]) = <<>>
  <2> DEFINE l == Len(todo[s])
             t == Tail(todo[s])
  <2>1. /\ n \in Nat /\ d \in 0..(n - 1) /\ l = n - d /\ l = 1
        /\ t \in Seq(ScriptSteps) /\ Len(t) = l - 1
    BY <1>1
  <2> HIDE DEF l, t
  <2>2. d + 1 = n
    BY <2>1
  <2>3. t = <<>>
    BY <2>1, EmptySeq
  <2> QED BY <2>2, <2>3 DEF t
<1>3. /\ todo' = [todo EXCEPT ![s] = Tail(todo[s])] /\ radio' = Command(Steps(s)[n].op, g)
      /\ UNCHANGED <<click, requests, asked, failed>>
  BY <1>1, <1>2 DEF ScriptStep, g, step
<1>4. \A k \in 1..d : Steps(s)[k].op = "read" => g[Steps(s)[k].file] = files[Steps(s)[k].file]
  BY DEF Running, d, g
<1>5. \A k \in 1..d : Steps(s)[k].op = "off" => radio = RadioOff
  BY DEF Running, d
<1>6. ScriptFor(s) /\ \A f \in Needed : Told(f, Fitting(f))
  BY DEF Running
<1>7. \A f : Read(f).op = "read" /\ Read(f).file = f
  BY DEF Read
<1>8. \A op : Run(op).op = op
  BY DEF Run
<1>9. (\A f \in Needed : g[f] = files[f]) => AsTold(g)
  BY <1>6, ReadTold
<1>10. UNCHANGED <<asked, failed>>
  BY <1>3
<1>11. ASSUME s = "tx" PROVE Took'
  <2>1. Steps(s) = <<Read("channel_bonding"), Read("channel"), Read("rate"),
                     Read("power"), Run("myftm_tx")>>
    BY <1>11 DEF Steps
  <2>2. n = 5 /\ d = 4 /\ Steps(s)[5].op = "myftm_tx"
    BY <1>1, <1>2, <1>8, <2>1 DEF n
  <2>3. \A f \in {"channel", "rate", "power", "channel_bonding"} : g[f] = files[f]
    BY <1>4, <1>7, <2>1, <2>2
  <2>4. Test.mode = "tx" /\ Needed = {"channel", "rate", "power", "channel_bonding"}
    BY <1>6, <1>11 DEF ScriptFor, Needed, Reads
  <2>5. AsTold(g) /\ radio' = Command("myftm_tx", g)
    BY <1>3, <1>9, <2>2, <2>3, <2>4
  <2> QED BY <1>10, <2>4, <2>5, TxRuns
<1>12. ASSUME s = "fixed" PROVE Took'
  <2>1. Steps(s) = <<Read("channel"), Read("rate"), Read("power"), Run("off"), Run("iwpriv_tx")>>
    BY <1>12 DEF Steps
  <2>2. n = 5 /\ d = 4 /\ Steps(s)[4].op = "off" /\ Steps(s)[5].op = "iwpriv_tx"
    BY <1>1, <1>2, <1>8, <2>1 DEF n
  <2>3. \A f \in {"channel", "rate", "power"} : g[f] = files[f]
    BY <1>4, <1>7, <2>1, <2>2
  <2>4. Test.mode = "tx" /\ Needed = {"channel", "rate", "power"}
    BY <1>6, <1>12 DEF ScriptFor, Needed, Reads
  <2>5. AsTold(g) /\ radio' = Command("iwpriv_tx", g) /\ radio = RadioOff
    BY <1>3, <1>5, <1>9, <2>2, <2>3, <2>4
  <2> QED BY <1>10, <2>4, <2>5, FixedRuns
<1>13. ASSUME s = "RxOn" PROVE Took'
  <2>1. Steps(s) = <<Read("channel_bonding"), Read("channel"), Read("rate"), Run("myftm_rx")>>
    BY <1>13 DEF Steps
  <2>2. n = 4 /\ d = 3 /\ Steps(s)[4].op = "myftm_rx"
    BY <1>1, <1>2, <1>8, <2>1 DEF n
  <2>3. \A f \in {"channel", "rate", "channel_bonding"} : g[f] = files[f]
    BY <1>4, <1>7, <2>1, <2>2
  <2>4. Test.mode = "rx" /\ Needed = {"channel", "rate", "channel_bonding"}
    BY <1>6, <1>13 DEF ScriptFor, Needed, Reads
  <2>5. AsTold(g) /\ radio' = Command("myftm_rx", g)
    BY <1>3, <1>9, <2>2, <2>3, <2>4
  <2> QED BY <1>10, <2>4, <2>5, RxRuns
<1>14. ASSUME s = "wg" PROVE Took'
  <2>1. Steps(s) = <<Read("channel"), Run("cw")>>
    BY <1>14 DEF Steps
  <2>2. n = 2 /\ d = 1 /\ Steps(s)[2].op = "cw"
    BY <1>1, <1>2, <1>8, <2>1 DEF n
  <2>3. g["channel"] = files["channel"]
    BY <1>4, <1>7, <2>1, <2>2
  <2>4. Test.mode = "cw" /\ Needed = {"channel"}
    BY <1>6, <1>14 DEF ScriptFor, Needed, Reads
  <2>5. AsTold(g) /\ radio' = Command("cw", g)
    BY <1>3, <1>9, <2>2, <2>3, <2>4
  <2> QED BY <1>10, <2>4, <2>5, WaveRuns
<1>15. ASSUME s = "txn" PROVE Took'
  <2>1. Steps(s) = <<Run("join")>>
    BY <1>15 DEF Steps
  <2>2. radio' = Command("join", g)
    BY <1>3, <1>8, <2>1 DEF n
  <2>3. Test.mode = "joined"
    BY <1>6, <1>15 DEF ScriptFor
  <2> QED BY <1>10, <2>2, <2>3, NetRuns
<1>16. ASSUME s \in {"RxStop", "rmmod", "TxStop"} PROVE Took'
  <2>1. Steps(s) = IF s = "RxStop" THEN <<Run("report"), Run("off")>> ELSE <<Run("off")>>
    BY <1>16 DEF Steps
  <2>2. radio' = Command("off", g)
    <3>1. CASE s = "RxStop"
      BY <1>3, <1>8, <2>1, <3>1 DEF n
    <3>2. CASE s # "RxStop"
      BY <1>3, <1>8, <2>1, <3>2 DEF n
    <3> QED BY <3>1, <3>2
  <2>3. Test.mode = "off"
    <3>1. Test.mode \in {"off", "tx", "rx", "cw", "joined"}
      BY DEF Data, Modes, Test
    <3> QED BY <1>6, <1>16, <3>1 DEF ScriptFor
  <2> QED BY <1>10, <2>2, <2>3, StopRuns
<1>17. Took'
  BY <1>11, <1>12, <1>13, <1>14, <1>15, <1>16 DEF Scripts
<1>18. Quiet' /\ requests' = <<>> /\ ~InClick("start")' /\ ~InClick("stop")'
  BY <1>2, <1>3 DEF Running, Quiet, InClick, Data
<1> QED BY <1>17, <1>18 DEF Took, Over

-----------------------------------------------------------------------------
(* Everything together.                                                     *)
LEMMA ScriptStages ==
    ASSUME Data, Asked, Pipeline, NEW s \in Scripts, ScriptStep(s)
    PROVE  Pipeline'
<1>1. todo[s] # <<>>
  BY DEF ScriptStep
<1>2. PICK t \in Scripts : Running(t)
  BY <1>1 DEF Pipeline, Handling, Requested, Over, Quiet
<1>3. Running(s)
  BY <1>1, <1>2 DEF Running
<1> QED BY <1>3, ScriptGoesOn, ScriptEnds DEF Pipeline

LEMMA StagesUnchanged ==
    ASSUME Handled, Asked, Stages,
           UNCHANGED <<click, files, requests, todo, got, radio, asked, failed, hasty>>
    PROVE  Handled' /\ Asked' /\ Stages'
<1>1. Handled'
  BY DEF Handled, Orderly
<1>2. UNCHANGED <<Test, Needed>> /\ \A f : UNCHANGED Fitting(f)
  BY DEF Test, Needed, Fitting
<1>3. Asked'
  BY <1>2 DEF Asked
<1>4. \A op : (InClick(op)' <=> InClick(op)) /\ (WillFit(op) => WillFit(op)')
  <2>1. \A op : InClick(op)' <=> InClick(op)
    BY DEF InClick
  <2>2. \A f : Promised(f, Fitting(f)) => Promised(f, Fitting(f))'
    BY <1>2 DEF Promised, Told, ToWrite, Untouched
  <2>3. \A op : WillFit(op) => WillFit(op)'
    BY <1>2, <2>2 DEF WillFit
  <2> QED BY <2>1, <2>3
<1>5. Handling => Handling'
  BY <1>4 DEF Handling, Quiet
<1>6. Requested => Requested'
  BY <1>4 DEF Requested, Quiet, WillFit
<1>7. \A s \in Scripts : Running(s) => Running(s)'
  BY <1>2 DEF Running, ScriptFor, Done, Told
<1>8. Over => Over'
  BY <1>4, OverKept DEF Over
<1> QED BY <1>1, <1>3, <1>5, <1>6, <1>7, <1>8 DEF Stages

LEMMA AskedUnchanged ==
    ASSUME Asked, UNCHANGED asked
    PROVE  Asked'
<1>1. UNCHANGED <<Test, Needed>> /\ \A f : UNCHANGED Fitting(f)
  BY DEF Test, Needed, Fitting
<1> QED BY <1>1 DEF Asked

LEMMA PipeNext ==
    Screen /\ Reported /\ Data /\ Pipe /\ [Next]_vars => Pipe'
<1> SUFFICES ASSUME Screen, Reported, Data, Pipe, [Next]_vars PROVE Pipe'
  OBVIOUS
<1>1. Handled /\ Asked /\ Stages /\ (~hasty => Pipeline)
  BY DEF Pipe, Stages, Pipeline
<1>2. ASSUME NEW s \in Screens, Open(s) PROVE Pipe'
  BY <1>1, <1>2, StagesUnchanged DEF Pipe, Open, scriptVars, boundVars
<1>3. CASE Back
  BY <1>1, <1>3, BackStages, AskedUnchanged DEF Pipe, Back
<1>4. CASE ClickStart
  BY <1>4, StartStages DEF Pipe
<1>5. CASE ClickStop
  BY <1>5, StopStages DEF Pipe
<1>6. ASSUME NEW s \in AllSpinners, NEW p \in 0..2 \cup Bondings, Choose(s, p) PROVE Pipe'
  BY <1>1, <1>6, StagesUnchanged DEF Pipe, Choose, scriptVars
<1>7. CASE HandleMessage
  BY <1>1, <1>7, StagesUnchanged DEF Pipe, HandleMessage, scriptVars, boundVars
<1>8. CASE HandlerStep
  <2>1. Handled' /\ Asked' /\ UNCHANGED hasty
    BY <1>1, <1>8, HandledNext, AskedUnchanged DEF HandlerStep
  <2>2. Pipeline => Pipeline'
    BY <1>1, <1>8, HandlingStep, RequestedStep, RunningStep, OverStep DEF Pipeline
  <2> QED BY <1>1, <2>1, <2>2 DEF Pipe, Stages, Pipeline
<1>9. CASE Crash
  <2>1. UNCHANGED <<asked, hasty>>
    BY <1>9 DEF Crash, boundVars
  <2>2. Handled'
    <3>1. click' = <<>>
      BY <1>9 DEF Crash
    <3>2. Len(click') = 0 /\ 1..0 = {} /\ 2..0 = {}
      BY <3>1
    <3> QED BY <3>1, <3>2 DEF Handled, Orderly
  <2> QED BY <1>1, <1>9, <2>1, <2>2, CrashStages, AskedUnchanged DEF Pipe, Stages
<1>10. CASE Dispatch
  <2>1. UNCHANGED <<click, files, asked, hasty>>
    BY <1>10 DEF Dispatch, boundVars
  <2>2. Handled' /\ Asked'
    BY <1>1, <2>1, AskedUnchanged DEF Handled, Orderly
  <2> QED BY <1>1, <1>10, <2>1, <2>2, DispatchStages DEF Pipe, Stages, Pipeline
<1>11. ASSUME NEW s \in Scripts, ScriptStep(s) PROVE Pipe'
  <2>1. UNCHANGED <<click, asked, hasty>>
    BY <1>11 DEF ScriptStep, boundVars
  <2>2. Handled'
    <3>1. click # <<>> /\ click[1].op = "write" => files'[click[1].file] = ""
      <4>1. ASSUME click # <<>>, click[1].op = "write" PROVE files'[click[1].file] = ""
        <5>1. click[1].file # "rxreport" /\ click[1].file \in Files
          BY <4>1, StepFiles
        <5>2. files'[click[1].file] = files[click[1].file]
          BY <1>11, <5>1 DEF ScriptStep, Report, Data
        <5> QED BY <1>1, <4>1, <5>2 DEF Handled
      <4> QED BY <2>1, <4>1
    <3> QED BY <1>1, <2>1, <3>1 DEF Handled, Orderly
  <2> QED BY <1>1, <1>11, <2>1, <2>2, ScriptStages, AskedUnchanged DEF Pipe, Stages, Pipeline
<1>12. CASE UNCHANGED vars
  BY <1>1, <1>12, StagesUnchanged DEF Pipe, vars, scriptVars, boundVars
<1> QED BY <1>2, <1>3, <1>4, <1>5, <1>6, <1>7, <1>8, <1>9, <1>10, <1>11, <1>12
        DEF Next, Tester, MainThread

LEMMA PipeInit == Init => Pipe
<1> SUFFICES ASSUME Init PROVE Pipe
  OBVIOUS
<1>1. Len(click) = 0 /\ 1..0 = {} /\ 2..0 = {} /\ click = <<>>
  BY DEF Init
<1>2. Handled /\ ~InClick("start") /\ ~InClick("stop")
  BY <1>1 DEF Handled, Orderly, InClick
<1>3. Test = RadioOff
  BY DEF Init, Test
<1>4. Asked
  BY <1>3, AskableOff DEF Askable, Asked, Needed, Fitting
<1>5. AsShown /\ NotStale
  BY <1>3, RadioIsOff DEF Init, AsShown, NotStale
<1>6. Over
  BY <1>2, <1>5 DEF Init, Over, Quiet
<1> QED BY <1>2, <1>4, <1>6 DEF Pipe, Stages

LEMMA Invariant == Spec => [](Screen /\ Reported /\ Data /\ Pipe)
<1>1. Init => Screen /\ Reported /\ Data /\ Pipe
  BY ScreenInit, DataInit, PipeInit
<1>2. Screen /\ Reported /\ Data /\ Pipe /\ [Next]_vars => (Screen /\ Reported /\ Data /\ Pipe)'
  BY ScreenNext, DataNext, PipeNext
<1> QED BY <1>1, <1>2, PTL DEF Spec

(* When everything has come to rest after a click that was not made in      *)
(* haste, its test is over.                                                 *)
LEMMA EffectiveIsOver == Pipe /\ Effective => Over
<1> SUFFICES ASSUME Pipe, Effective PROVE Over
  OBVIOUS
<1>1. ~hasty /\ click = <<>> /\ requests = <<>> /\ Quiet
  BY DEF Effective, Settled, AtRest, Quiet
<1>2. Len(click) = 0 /\ 1..0 = {} /\ Len(requests) = 0
  BY <1>1
<1> QED BY <1>1, <1>2 DEF Pipe, Stages, Handling, Requested, Running, InClick, Quiet

(* A test runs as its screen showed it at Start, but for the channel and    *)
(* the rate of the bondings for which screens and library have different    *)
(* lists; and a Stop ends whatever test runs.                               *)
THEOREM TestRunsAsShown == Spec => []TestAsShown
<1>1. Data /\ Pipe => TestAsShown
  <2> SUFFICES ASSUME Data, Pipe, Effective, failed = {}
               PROVE  IF Test.mode = "off" THEN radio = RadioOff
                      ELSE \A f \in DOMAIN Test \
                              ((IF asked.bonding \in {2, 5} THEN {"channel"} ELSE {})
                               \cup (IF asked.bonding \in {4, 5} /\ Test.rate \notin ToSet(Rates11n)
                                     THEN {"rate"} ELSE {})) : radio[f] = Test[f]
    BY DEF TestAsShown, Test
  <2>1. AsShown
    BY EffectiveIsOver DEF Over
  <2>2. ToSet(Rates11n) = {"15", "16"}
    BY DEF ToSet, Rates11n
  <2>3. DOMAIN Test = {"mode", "channel", "rate", "power", "bonding"}
    BY DEF Data, Modes, Test
  <2> QED BY <2>1, <2>2, <2>3 DEF AsShown
<1> QED BY <1>1, Invariant, PTL

(* What an earlier test wrote is not used in the stead of a setting that    *)
(* could not be written.                                                    *)
THEOREM NothingIsStale == Spec => []NothingStale
<1>1. Data /\ Pipe => NothingStale
  <2> SUFFICES ASSUME Data, Pipe, Effective, "type" \notin failed, radio.mode = Test.mode,
                      radio.mode \in {"tx", "rx"}, asked.bonding \notin {2, 4, 5},
                      NEW f \in DOMAIN radio
               PROVE  radio[f] \in {Test[g] : g \in DOMAIN radio} \cup {""}
    BY DEF NothingStale, Test
  <2>1. {radio.channel, radio.rate, radio.power, radio.bonding}
          \subseteq {Test.channel, Test.rate, Test.power, Test.bonding, ""}
    BY EffectiveIsOver DEF Over, NotStale
  <2>2. DOMAIN radio = {"mode", "channel", "rate", "power", "bonding"}
    BY DEF Data, Modes
  <2>3. f = "mode" \/ radio[f] \in {radio.channel, radio.rate, radio.power, radio.bonding}
    BY <2>2
  <2>4. {Test.mode, Test.channel, Test.rate, Test.power, Test.bonding}
          \subseteq {Test[g] : g \in DOMAIN radio}
    BY <2>2
  <2>5. f # "mode" => radio[f] \in {Test.channel, Test.rate, Test.power, Test.bonding, ""}
    BY <2>1, <2>3
  <2> QED BY <2>4, <2>5
<1> QED BY <1>1, Invariant, PTL
=============================================================================
