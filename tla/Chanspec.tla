------------------------------ MODULE Chanspec ------------------------------
(* Channel specifications of the wl utility, in a session of                *)
(* `wl --interactive' (wlu_linux.c, do_interactive): the user types a       *)
(* channel, wl_chanspec (wlu.c) makes a 16 bit chanspec of it with          *)
(* wf_chspec_aton (bcmwifi_channels.c), brings it into the format of the    *)
(* driver, and later shows with wf_chspec_ntoa what the driver uses.        *)
(*                                                                          *)
(* A text is a record of its parts: "2g6/40l" has a band, a number, a width *)
(* and a sideband, "36/80+80/42-155" has a pair.  Blanks, and what strtoul  *)
(* takes besides digits, are left out.  This is wl_4339, built with         *)
(* D11AC_IOTYPES and without CHANSPEC_NEW_40MHZ_FORMAT.                     *)
EXTENDS Integers, Sequences, FiniteSets, FiniteSetsExt

CONSTANTS Versions,  \* the ioctl_version of drivers: 1 for the legacy format
          Numbers,   \* typed as channels
          Pairs      \* typed behind 80+80

ASSUME VersionsAssumption == Versions \subseteq Nat
ASSUME NumbersAssumption == Numbers \subseteq Nat /\ Pairs \subseteq Nat \X Nat

VARIABLES
    ioctl_version,
    chanspec,  \* of the driver, in its format
    last       \* the last command and its result

vars == <<ioctl_version, chanspec, last>>

-----------------------------------------------------------------------------
(* The layout: the channel or two indices of 80 MHz channels, the sideband  *)
(* of the control channel, the bandwidth, the band.  CHSPEC_CHAN2 leaves    *)
(* its index where it is, in the high bits.                                 *)
Band2G == 0
Band5G == 3
BW == [b20 |-> 2, b40 |-> 3, b80 |-> 4, b160 |-> 5, b8080 |-> 6]

Top == 65535
chanspec_t == 0..Top
CHSPEC_CHANNEL(c) == c % 256
CHSPEC_CHAN1(c) == c % 16
CHSPEC_CHAN2(c) == 16 * ((c % 256) \div 16)
CHSPEC_CTL_SB(c) == (c \div 256) % 8
CHSPEC_BW(c) == (c \div 2048) % 8
CHSPEC_BAND(c) == c \div 16384

Bit(n, p) == (n \div p) % 2
EitherBit(m, n, p) == IF Bit(m, p) + Bit(n, p) > 0 THEN p ELSE 0
OrOfFour(m, n, p) ==
    EitherBit(m, n, p) + EitherBit(m, n, 2 * p) + EitherBit(m, n, 4 * p) + EitherBit(m, n, 8 * p)
Or(m, n) == OrOfFour(m, n, 1) + OrOfFour(m, n, 16) + OrOfFour(m, n, 256) + OrOfFour(m, n, 4096)
Compose(band, bw, sb, ch) == Or(16384 * band + 2048 * bw + 256 * sb, ch)

wf_5g_40m_chans == <<38, 46, 54, 62, 102, 110, 118, 126, 134, 142, 151, 159>>
wf_5g_80m_chans == <<42, 58, 106, 122, 138, 155>>
wf_5g_160m_chans == <<50, 114>>
Centers(mhz) == IF mhz = 40 THEN wf_5g_40m_chans
                ELSE IF mhz = 80 THEN wf_5g_80m_chans ELSE wf_5g_160m_chans
Elements(s) == {s[n] : n \in DOMAIN s}
Ids80 == 0..(Len(wf_5g_80m_chans) - 1)
Chan80(id) == wf_5g_80m_chans[id + 1]
Id80(ch) == CHOOSE id \in Ids80 : Chan80(id) = ch
bw_chspec_to_mhz(bw) == <<5, 10, 20, 40, 80, 160, 160, 0>>[bw + 1]

LOWER_20_SB(channel) == IF channel > 2 THEN channel - 2 ELSE 0
UPPER_20_SB(channel) == IF channel < 222 THEN channel + 2 ELSE 0

center_chan_to_edge(mhz) == ((mhz - 20) \div 2) \div 5
channel_low_edge(center, mhz) == (center - center_chan_to_edge(mhz)) % 256

(* Unsigned: a control channel below the edge is one far above it.          *)
TooHighByOne(steps, mhz) == steps > mhz \div 20   \* mutant
TooHigh(steps, mhz) == steps >= mhz \div 20
channel_to_sb(center, ctl, mhz) ==
    LET d == ctl - channel_low_edge(center, mhz)
    IN  IF d % 4 # 0 \/ d < 0 \/ TooHigh(d \div 4, mhz) THEN -1 ELSE d \div 4

-----------------------------------------------------------------------------
SbLimit(bw) == CASE bw = BW.b20 -> 0 [] bw = BW.b40 -> 1 [] bw = BW.b80 -> 3 [] OTHER -> 7

(* The index of the second channel of an 80+80 one is never below 16, unless *)
(* it is 0: there is no 80+80 chanspec that is not malformed.                *)
wf_chspec_malformed(c) ==
    \/ CHSPEC_BAND(c) \notin {Band2G, Band5G}
    \/ CHSPEC_BAND(c) = Band2G /\ CHSPEC_BW(c) \notin {BW.b20, BW.b40}
    \/ /\ CHSPEC_BAND(c) = Band5G
       /\ IF CHSPEC_BW(c) = BW.b8080
          THEN \/ {CHSPEC_CHAN1(c), CHSPEC_CHAN2(c)} \ Ids80 # {}
               \/ CHSPEC_CHAN2(c) <= CHSPEC_CHAN1(c)
          ELSE CHSPEC_BW(c) \notin BW.b20..BW.b160 \/ CHSPEC_CHANNEL(c) > 224
    \/ CHSPEC_CTL_SB(c) > SbLimit(CHSPEC_BW(c))

wf_chspec_valid(c) ==
    LET bw == CHSPEC_BW(c)
        ch == CHSPEC_CHANNEL(c)
    IN  /\ ~wf_chspec_malformed(c)
        /\ IF CHSPEC_BAND(c) = Band2G
           THEN ch \in IF bw = BW.b20 THEN 1..14 ELSE 3..11
           ELSE CASE bw = BW.b8080 -> Chan80(CHSPEC_CHAN2(c)) > Chan80(CHSPEC_CHAN1(c)) + 16
                  [] bw = BW.b20 -> \/ \E m \in Elements(wf_5g_40m_chans) :
                                           ch \in {LOWER_20_SB(m), UPPER_20_SB(m)}
                                    \/ ch \in {34, 38, 42, 46}
                  [] OTHER -> ch \in Elements(Centers(bw_chspec_to_mhz(bw)))

wf_chspec_ctlchan(c) ==
    LET sb == CHSPEC_CTL_SB(c)
        ctl(center, mhz, n) == (channel_low_edge(center, mhz) + 4 * n) % 256
    IN  CASE CHSPEC_BW(c) = BW.b20 -> CHSPEC_CHANNEL(c)
          [] CHSPEC_BW(c) = BW.b8080 -> IF sb < 4 THEN ctl(Chan80(CHSPEC_CHAN1(c)), 80, sb)
                                        ELSE ctl(Chan80(CHSPEC_CHAN2(c)), 80, sb - 4)
          [] OTHER -> ctl(CHSPEC_CHANNEL(c), bw_chspec_to_mhz(CHSPEC_BW(c)), sb)

wf_chspec_ctlchspec(c) ==
    IF CHSPEC_BW(c) = BW.b20 THEN c
    ELSE Compose(CHSPEC_BAND(c), BW.b20, 0, wf_chspec_ctlchan(c))

(* Of an 80 MHz channel, the half its control channel lies in.              *)
UpperHalfOne(sb) == sb = 3   \* mutant
UpperHalf(sb) == sb \in {2, 3}
wf_chspec_primary40_chspec(c) ==
    IF CHSPEC_BW(c) # BW.b80 THEN c
    ELSE LET sb == CHSPEC_CTL_SB(c)
         IN  IF UpperHalf(sb) THEN Compose(Band5G, BW.b40, sb - 2, CHSPEC_CHANNEL(c) + 4)
             ELSE Compose(Band5G, BW.b40, sb, CHSPEC_CHANNEL(c) - 4)

DefaultBand(number) == IF number <= 14 THEN Band2G ELSE Band5G

(* The first of the list that has the control channel: its number and       *)
(* sideband, or nothing.                                                    *)
Around(ctl, mhz) ==
    LET fit == {n \in DOMAIN Centers(mhz) : channel_to_sb(Centers(mhz)[n], ctl, mhz) >= 0}
    IN  IF fit = {} THEN <<>>
        ELSE LET center == Centers(mhz)[Min(fit)]
             IN  <<center, channel_to_sb(center, ctl, mhz)>>

wf_channel2chspec(ctl, bw) ==
    CASE bw = BW.b20 -> Compose(DefaultBand(ctl), bw, 0, ctl)
      [] bw \in BW.b40..BW.b160 ->
           LET found == Around(ctl, bw_chspec_to_mhz(bw))
           IN  IF found = <<>> THEN 0 ELSE Compose(DefaultBand(ctl), bw, found[2], found[1])
      [] OTHER -> 0

(* Frequencies, relative to a base of start_factor half MHz.                *)
Factor2G == 4814
Factor5G == 10000
wf_channel2mhz(ch, factor) ==
    IF (factor = Factor2G /\ ch \notin 1..14) \/ ch > 200 THEN -1
    ELSE IF factor = Factor2G /\ ch = 14 THEN 2484 ELSE ch * 5 + factor \div 2
DefaultFactor(freq) == IF freq \in 2400..2500 THEN Factor2G
                       ELSE IF freq \in 5000..6000 THEN Factor5G ELSE 0
wf_mhz2channel(freq, start) ==
    LET factor == IF start = 0 THEN DefaultFactor(freq) ELSE start
        offset == freq - factor \div 2
    IN  IF freq = 2484 /\ factor = Factor2G THEN 14
        ELSE IF \/ offset \notin 0..1000 \/ offset % 5 # 0
                \/ factor = Factor2G /\ offset \div 5 \notin 1..13
             THEN -1 ELSE offset \div 5

-----------------------------------------------------------------------------
(* Texts.  A width of 0 and parts that are "-" are not there.               *)
Text(band, number, width, sb, plus, pair) ==
    [band |-> band, number |-> number, width |-> width, sb |-> sb, plus |-> plus, pair |-> pair]
NoText == Text("-", 0, 0, "-", "-", <<>>)

PrintedPair(c) == <<Chan80(CHSPEC_CHAN1(c)), Chan80(CHSPEC_CHAN2(c) \div 16)>>
PrintedSbSwapped(c) == IF CHSPEC_CTL_SB(c) = 1 THEN "l" ELSE "u"   \* mutant
PrintedSb(c) == IF CHSPEC_CTL_SB(c) = 1 THEN "u" ELSE "l"
wf_chspec_ntoa(c) ==
    LET ctl == wf_chspec_ctlchan(c)
        band == IF (CHSPEC_BAND(c) = Band2G) = (CHSPEC_CHANNEL(c) <= 14) THEN "-"
                ELSE IF CHSPEC_BAND(c) = Band2G THEN "2g" ELSE "5g"
    IN  IF wf_chspec_malformed(c) THEN NoText
        ELSE CASE CHSPEC_BW(c) = BW.b8080 -> Text("-", ctl, 80, "-", "80/", PrintedPair(c))
               [] CHSPEC_BW(c) = BW.b20 -> Text(band, ctl, 0, "-", "-", <<>>)
               [] CHSPEC_BW(c) = BW.b40 -> Text(band, ctl, 0, PrintedSb(c), "-", <<>>)
               [] OTHER -> Text(band, ctl, bw_chspec_to_mhz(CHSPEC_BW(c)), "-", "-", <<>>)

BandOf(t) == IF t.band = "-" THEN DefaultBand(t.number) ELSE IF t.band = "2g" THEN Band2G ELSE Band5G

(* The parser gets to the end of the text.  It takes "+80/" behind any      *)
(* width.  (The pointer it compares "80/" with is static and stays at the   *)
(* end: only the first such text of a session gets to its end.  It is 0     *)
(* either way, so that the pointer is left out.)                            *)
Parses(t) ==
    \/ t.width = 0 /\ t.plus = "-"
    \/ t.width = 40 /\ t.sb # "-" /\ BandOf(t) = Band2G /\ t.plus = "-"
    \/ t.width \in {20, 40, 80, 160} /\ t.sb = "-" /\ t.plus \in {"-", "80/"}

(* The number, the sideband and the bandwidth of the chanspec, or nothing.  *)
PairOf(t) ==
    LET low == channel_to_sb(t.pair[1], t.number, t.width)
        high == channel_to_sb(t.pair[2], t.number, t.width)
    IN  IF \/ Elements(t.pair) \ Elements(wf_5g_80m_chans) # {} \/ t.pair[1] >= t.pair[2]
           \/ low < 0 /\ high < 0
        THEN <<>>
        ELSE <<Id80(t.pair[1]) + 16 * Id80(t.pair[2]), IF low >= 0 THEN low ELSE high + 4, BW.b8080>>
WideCode(mhz) == IF mhz = 40 THEN BW.b40 ELSE IF mhz = 80 THEN BW.b80 ELSE BW.b160
Fields(t) ==
    CASE t.plus # "-" -> PairOf(t)
      [] t.plus = "-" /\ t.sb = "l" -> <<UPPER_20_SB(t.number), 0, BW.b40>>
      [] t.plus = "-" /\ t.sb = "u" -> <<LOWER_20_SB(t.number), 1, BW.b40>>
      [] t.plus = "-" /\ t.sb = "-" /\ t.width \in {0, 20} -> <<t.number, 0, BW.b20>>
      [] OTHER -> LET found == Around(t.number, t.width)
                  IN  IF found = <<>> THEN <<>> ELSE <<found[1], found[2], WideCode(t.width)>>

(* A number of more than 8 bits gets into the other fields; one of more     *)
(* than 16 is cut off.                                                      *)
wf_chspec_aton(t) ==
    IF ~Parses(t) \/ Fields(t) = <<>> THEN 0
    ELSE LET f == Fields(t)
             c == Compose(BandOf(t), f[3], f[2], f[1])
         IN  IF wf_chspec_malformed(c) THEN 0 ELSE c

-----------------------------------------------------------------------------
(* The format of the driver.                                                *)
INVCHANSPEC == 255
Legacy == ioctl_version = 1

wl_chspec_to_legacy(c) ==
    IF wf_chspec_malformed(c) \/ CHSPEC_BW(c) \notin {BW.b20, BW.b40} THEN INVCHANSPEC
    ELSE CHSPEC_CHANNEL(c)
         + 4096 * (IF CHSPEC_BAND(c) = Band2G THEN 2 ELSE 1)
         + (IF CHSPEC_BW(c) = BW.b20 THEN 1024 * 2 + 256 * 3
            ELSE 1024 * 3 + 256 * (CHSPEC_CTL_SB(c) + 1))
wl_chspec_from_legacy(l) ==
    LET band == IF l \div 4096 = 2 THEN Band2G ELSE Band5G
        c == IF (l \div 1024) % 4 = 2 THEN Compose(band, BW.b20, 0, l % 256)
             ELSE Compose(band, BW.b40, IF (l \div 256) % 4 = 1 THEN 0 ELSE 1, l % 256)
    IN  IF wf_chspec_malformed(c) THEN INVCHANSPEC ELSE c

wl_chspec_to_driver(c) == IF Legacy THEN wl_chspec_to_legacy(c) ELSE c
wl_chspec_from_driver(c) == IF Legacy THEN wl_chspec_from_legacy(c) ELSE c
HeldAsIs == chanspec   \* mutant: not converted
Held == wl_chspec_from_driver(chanspec)

ValidChanspecs == {c \in chanspec_t : wf_chspec_valid(c)}

(* The driver may use a valid channel it can express, for its own reasons.  *)
Usable == {wl_chspec_to_driver(c) : c \in ValidChanspecs} \ {INVCHANSPEC}
DriverMoves ==
    /\ chanspec' \in Usable /\ last' = [command |-> "none"]
    /\ UNCHANGED ioctl_version

(* What is typed, and what became of it: "driver" when the driver, which    *)
(* takes nothing that is not valid, refused.                                *)
Typed(command, what, error) == [command |-> command, typed |-> what, error |-> error]
Send(c, command, what) ==
    \/ /\ wl_chspec_to_driver(c) = INVCHANSPEC
       /\ last' = Typed(command, what, "usage") /\ UNCHANGED chanspec
    \/ /\ wl_chspec_to_driver(c) # INVCHANSPEC
       /\ \/ chanspec' = wl_chspec_to_driver(c) /\ wf_chspec_valid(wl_chspec_from_driver(chanspec'))
             /\ last' = Typed(command, what, "none")
          \/ last' = Typed(command, what, "driver") /\ UNCHANGED chanspec

Texts == [band : {"-", "2g", "5g"}, number : Numbers, width : {0, 20, 40, 80, 160},
          sb : {"-", "l", "u"}, plus : {"-"}, pair : {<<>>}]
         \cup [band : {"-"}, number : Numbers, width : {20, 80}, sb : {"-"},
               plus : {"80/", "40/"}, pair : Pairs]

Set(t) ==
    /\ IF wf_chspec_aton(t) = 0 THEN last' = Typed("text", t, "usage") /\ UNCHANGED chanspec
       ELSE Send(wf_chspec_aton(t), "text", t)
    /\ UNCHANGED ioctl_version

(* wl chanspec -c <center> -b <band> -w <width> -s <sideband>; 2: no -s.    *)
Options == [c : Numbers \cap 0..224, b : {2, 5}, w : {20, 40, 80}, s : {-1, 0, 1, 2}]
SetByOptions(o) ==
    LET bw == IF o.w = 20 THEN BW.b20 ELSE IF o.w = 40 THEN BW.b40 ELSE BW.b80
        c == Compose(IF o.b = 5 THEN Band5G ELSE Band2G, bw, IF o.s = 1 THEN 1 ELSE 0, o.c)
    IN  /\ IF o.s = 2 /\ o.w # 20
           THEN last' = Typed("options", o, "usage") /\ UNCHANGED chanspec
           ELSE Send(c, "options", o)
        /\ UNCHANGED ioctl_version

Show ==
    /\ last' = [command |-> "show", text |-> wf_chspec_ntoa(Held)]
    /\ UNCHANGED <<ioctl_version, chanspec>>

Init == /\ ioctl_version \in Versions /\ chanspec \in Usable
        /\ last = [command |-> "none"]

(* The loop: the prompt, and a line.                                        *)
AtPrompt == last.command = "none"
Prompt == ~AtPrompt /\ last' = [command |-> "none"] /\ UNCHANGED <<ioctl_version, chanspec>>
Next == \/ Prompt
        \/ AtPrompt /\ (DriverMoves \/ Show)
        \/ AtPrompt /\ \E t \in Texts : Set(t)
        \/ AtPrompt /\ \E o \in Options : SetByOptions(o)
Spec == Init /\ [][Next]_vars

-----------------------------------------------------------------------------
(* What a chanspec means: the 20 MHz channels it takes up, from low to      *)
(* high, one of which is the control channel.                               *)
Block(center, n) == [k \in 1..n |-> center - 2 * (n - 1) + 4 * (k - 1)]
Slots(c) == Block(CHSPEC_CHANNEL(c), bw_chspec_to_mhz(CHSPEC_BW(c)) \div 20)
Control(c) == Slots(c)[CHSPEC_CTL_SB(c) + 1]

(* The valid chanspecs a text names.                                        *)
Names(t) ==
    {c \in ValidChanspecs :
        /\ Control(c) = t.number /\ CHSPEC_BAND(c) = BandOf(t) /\ t.plus = "-"
        /\ Len(Slots(c)) * 20 = IF t.width # 0 THEN t.width ELSE IF t.sb # "-" THEN 40 ELSE 20
        /\ t.sb # "-" => Len(Slots(c)) = 2 /\ (t.sb = "u" <=> CHSPEC_CTL_SB(c) = 1)}
NamedBy == [t \in Texts |-> Names(t)]

TypeOK ==
    /\ ioctl_version \in Versions /\ Held \in ValidChanspecs
    /\ last.command \in {"none", "show", "text", "options"}
    /\ last.command \in {"text", "options"} => last.error \in {"none", "usage", "driver"}

(* What `wl chanspec' shows can be typed: it is taken for the very chanspec *)
(* the driver uses, whichever that is and in either format.                 *)
ShownCanBeTyped == last.command = "show" => wf_chspec_aton(last.text) = Held

(* A text that was taken has set the one channel it names, and one that     *)
(* names a channel is not called wrong: except numbers that do not fit a    *)
(* byte, a sideband after "/40" for 5 GHz, or none for 2.4 GHz, which are   *)
(* errors, and what a legacy driver cannot express.  No text with 80+80 is  *)
(* taken.  The options set what they say.                                   *)
TypedIsTuned ==
    /\ last.command = "text" =>
         LET t == last.typed
         IN  /\ last.error = "none" => t.plus = "-" /\ (t.number < 256 => NamedBy[t] = {Held})
             /\ last.error = "usage" => \/ Cardinality(NamedBy[t]) # 1
                                        \/ t.width = 40 /\ (t.sb = "-" <=> BandOf(t) = Band2G)
                                        \/ Legacy /\ t.width > 40
    /\ last.command = "options" /\ last.error = "none" =>
         LET o == last.typed
         IN  /\ CHSPEC_CHANNEL(Held) = o.c /\ Len(Slots(Held)) * 20 = o.w
             /\ CHSPEC_BAND(Held) = IF o.b = 2 THEN Band2G ELSE Band5G
             /\ o.w = 40 => (Control(Held) > o.c <=> o.s = 1)

(* All the ways to look at a channel agree: its control channel, the        *)
(* chanspec of that, the 40 MHz half it lies in, the way back from control  *)
(* channel and width (2.4 GHz has no such way at 40 MHz), and to the        *)
(* frequency and back.                                                      *)
ViewsAgree == last.command = "show" =>
    LET ctl == wf_chspec_ctlchan(Held)
        half == wf_chspec_primary40_chspec(Held)
        bw == CHSPEC_BW(Held)
        factor == IF CHSPEC_BAND(Held) = Band2G THEN Factor2G ELSE Factor5G
    IN  /\ ctl = Control(Held)
        /\ {wf_chspec_ctlchspec(Held), half} \subseteq ValidChanspecs
        /\ wf_chspec_ctlchan(wf_chspec_ctlchspec(Held)) = ctl
        /\ wf_chspec_ctlchan(half) = ctl /\ Elements(Slots(half)) \subseteq Elements(Slots(Held))
        /\ CHSPEC_BAND(Held) = Band5G \/ bw = BW.b20 => wf_channel2chspec(ctl, bw) = Held
        /\ wf_mhz2channel(wf_channel2mhz(ctl, factor), 0) = ctl
=============================================================================
