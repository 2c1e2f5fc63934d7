--------------------------- MODULE FragmentsProofs ---------------------------
(* That the fragments show what they send, for all chips, countries and     *)
(* modes of use.  What makes it hard: a notifier posted by one layout pass  *)
(* is handled after other messages have changed what is shown, and writes   *)
(* the field of a spinner that is hidden by then.  The invariant Inv says   *)
(* why that is repaired: the spinner now shown at position 0 was not there  *)
(* when the last pass looked, so the next pass posts its notifier too.      *)
EXTENDS Fragments, QueueLemmas, FiniteSetTheorems

Names == {"TxRx", "Mode", "BandwidthN", "BandwidthAC",
          "Channel5G", "Channel2G", "ChannelAll", "ChannelN", "Channel5G40", "Channel5G80",
          "RateB", "RateA", "RateN", "RateAC",
          "Power11A", "Power11B", "Power11G", "Power11N", "Power11AC",
          "Antenna", "Bandwidth", "Sideband", "GuardInterval"}

LEMMA OrderIsSeq == Order \in Seq(Names) /\ Len(Order) = 23
  BY DEF Order, Names

LEMMA SpinnerNames == Spinners = Names
<1>1. \A i \in 1..23 : Order[i] \in Names
  BY OrderIsSeq, ElementOfSeq
<1>2. Names \subseteq {Order[i] : i \in 1..23}
  <2>1. /\ Order[1] = "TxRx" /\ Order[2] = "Mode" /\ Order[3] = "BandwidthN"
        /\ Order[4] = "BandwidthAC" /\ Order[5] = "Channel5G" /\ Order[6] = "Channel2G"
        /\ Order[7] = "ChannelAll" /\ Order[8] = "ChannelN" /\ Order[9] = "Channel5G40"
        /\ Order[10] = "Channel5G80" /\ Order[11] = "RateB" /\ Order[12] = "RateA"
        /\ Order[13] = "RateN" /\ Order[14] = "RateAC" /\ Order[15] = "Power11A"
        /\ Order[16] = "Power11B" /\ Order[17] = "Power11G" /\ Order[18] = "Power11N"
        /\ Order[19] = "Power11AC" /\ Order[20] = "Antenna" /\ Order[21] = "Bandwidth"
        /\ Order[22] = "Sideband" /\ Order[23] = "GuardInterval"
    BY DEF Order
  <2>2. \A i \in {1, 2, 3, 4, 5, 6, 7, 8, 9, 10, 11, 12, 13, 14, 15, 16, 17, 18, 19, 20,
                  21, 22, 23} : i \in 1..23
    OBVIOUS
  <2> DEFINE found == {Order[i] : i \in 1..23}
  <2>3. \A i \in 1..23 : Order[i] \in found
    OBVIOUS
  <2> HIDE DEF found
  <2>4. /\ {Order[1], Order[2], Order[3], Order[4], Order[5], Order[6]} \subseteq found
        /\ {Order[7], Order[8], Order[9], Order[10], Order[11], Order[12]} \subseteq found
        /\ {Order[13], Order[14], Order[15], Order[16], Order[17]} \subseteq found
        /\ {Order[18], Order[19], Order[20], Order[21], Order[22], Order[23]} \subseteq found
    BY <2>2, <2>3
  <2> QED BY <2>1, <2>4 DEF Names, found
<1>3. Spinners = {Order[i] : i \in 1..23}
  BY OrderIsSeq, LenProperties DEF Spinners, ToSet
<1> QED BY <1>1, <1>2, <1>3

(* Rows and notifiers: a pass notifies the changed spinners and no others.  *)
LEMMA Rows == \A s \in Spinners : Row(s) \in 1..23 /\ Order[Row(s)] = s
<1>1. Spinners = {Order[i] : i \in 1..23}
  BY OrderIsSeq, LenProperties DEF Spinners, ToSet
<1> QED BY <1>1, OrderIsSeq DEF Row

LEMMA SpinnersAreFinite == IsFiniteSet(Spinners)
<1> DEFINE f == [s \in Spinners |-> Row(s)]
<1>1. f \in Injection(Spinners, 1..23)
  BY Rows DEF Injection, IsInjective
<1> HIDE DEF f
<1>2. IsFiniteSet(1..23)
  <2>1. \A n \in Nat : IsFiniteSet(1..n)
    BY FS_Interval
  <2> QED BY <2>1
<1> QED BY <1>1, <1>2, FS_Injection

LEMMA NotifiersTell ==
    ASSUME shown \subseteq Spinners
    PROVE  /\ Notifiers \in Seq(Changed) /\ Len(Notifiers) = Cardinality(Changed)
           /\ \A m : Contains(Notifiers, m) <=> m \in Changed
<1> DEFINE n == Cardinality(Changed)
           place == [s \in Changed |-> Cardinality(Above(s)) + 1]
<1>1. Changed \subseteq Spinners /\ IsFiniteSet(Changed) /\ n \in Nat
  BY SpinnersAreFinite, FS_Subset, FS_CardinalityType DEF Changed
<1>2. ASSUME NEW s \in Changed
      PROVE  /\ Above(s) \subseteq Changed \ {s} /\ IsFiniteSet(Above(s))
             /\ Cardinality(Above(s)) \in 0..(n - 1)
  <2>1. Above(s) \subseteq Changed \ {s}
    BY <1>1, Rows DEF Above
  <2>2. IsFiniteSet(Changed \ {s}) /\ Cardinality(Changed \ {s}) = n - 1
    BY <1>1, FS_RemoveElement
  <2>3. IsFiniteSet(Above(s)) /\ Cardinality(Above(s)) <= n - 1
    BY <2>1, <2>2, FS_Subset
  <2> QED BY <1>1, <2>1, <2>3, FS_CardinalityType
<1>3. ASSUME NEW s \in Changed, NEW t \in Changed, Row(s) < Row(t)
      PROVE  Cardinality(Above(s)) < Cardinality(Above(t))
  <2>1. Above(s) \cup {s} \subseteq Above(t)
    BY <1>1, <1>3, Rows DEF Above
  <2>2. s \notin Above(s)
    BY <1>2
  <2>3. Cardinality(Above(s) \cup {s}) = Cardinality(Above(s)) + 1
    BY <2>2, <1>2, FS_AddElement
  <2>4. Cardinality(Above(s) \cup {s}) <= Cardinality(Above(t))
    BY <2>1, <1>2, FS_Subset
  <2> QED BY <2>3, <2>4, <1>2
<1>4. place \in Injection(Changed, 1..n)
  <2>1. \A s \in Changed : place[s] \in 1..n
    BY <1>1, <1>2
  <2>2. ASSUME NEW s \in Changed, NEW t \in Changed, place[s] = place[t] PROVE s = t
    <3>1. Cardinality(Above(s)) = Cardinality(Above(t))
      BY <1>2, <2>2
    <3>2. Row(s) \in Int /\ Row(t) \in Int /\ Order[Row(s)] = s /\ Order[Row(t)] = t
      BY <1>1, Rows
    <3>3. ~(Row(s) < Row(t)) /\ ~(Row(t) < Row(s))
      BY <3>1, <1>2, <1>3
    <3> QED BY <3>2, <3>3
  <2> QED BY <2>1, <2>2 DEF Injection, IsInjective
<1>5. place \in Surjection(Changed, 1..n)
  <2> HIDE DEF place
  <2>1. IsFiniteSet(1..n) /\ Cardinality(1..n) = n
    BY <1>1, FS_Interval
  <2> QED BY <1>4, <2>1, FS_Injection
<1>6. ASSUME NEW k \in 1..n PROVE \E s \in Changed : Cardinality(Above(s)) = k - 1
  <2>1. PICK s \in Changed : place[s] = k
    BY <1>5, Zenon DEF Surjection
  <2>2. place[s] = Cardinality(Above(s)) + 1 /\ Cardinality(Above(s)) \in Int
    BY <1>2
  <2> QED BY <2>1, <2>2
<1>7. ASSUME NEW k \in 1..n
      PROVE  Notifiers[k] \in Changed /\ Cardinality(Above(Notifiers[k])) = k - 1
  <2>1. Notifiers[k] = CHOOSE s \in Changed : Cardinality(Above(s)) = k - 1
    BY DEF Notifiers
  <2> QED BY <2>1, <1>6, Zenon
<1>8. Notifiers \in Seq(Changed) /\ Len(Notifiers) = n
  <2>1. Notifiers = [k \in 1..n |-> Notifiers[k]]
    BY DEF Notifiers
  <2> QED BY <1>1, <1>7, <2>1
<1>9. ASSUME NEW s \in Changed PROVE Contains(Notifiers, s)
  <2> DEFINE k == Cardinality(Above(s)) + 1
  <2>1. k \in 1..n
    BY <1>1, <1>2
  <2>2. Notifiers[k] \in Changed /\ Cardinality(Above(Notifiers[k])) = Cardinality(Above(s))
    BY <2>1, <1>7, <1>2
  <2>3. Notifiers[k] = s
    BY <2>2, <1>2, <1>4 DEF Injection, IsInjective
  <2> QED BY <2>1, <2>3, <1>8 DEF Contains
<1> QED BY <1>7, <1>8, <1>9 DEF Contains

-----------------------------------------------------------------------------
(* The lists.                                                               *)
Lists(records) == \A s \in DOMAIN records : Len(records[s]) \in 2..5

LEMMA ScreenNames ==
    \A x \in Screens : x \in {"BgnSiso", "AbgnSiso", "AbgnMimo", "AcSiso", "AcMimo",
                              "IDAcSiso", "MTKAcSiso", "MTKIDAcSiso"}
  BY DEF Screens, Fragment

LEMMA AcLists ==
    /\ DOMAIN AcEntries = Names \ {"ChannelN", "Bandwidth", "Sideband"}
    /\ AcEntries["TxRx"] = <<"tx", "rx", "unmodulated">>
    /\ AcEntries["Mode"] = <<"b", "g", "n", "a", "ac">>
    /\ AcEntries["BandwidthN"] = <<"20", "40">>
    /\ AcEntries["BandwidthAC"] = <<"20", "40", "80">>
    /\ AcEntries["Antenna"] = <<"0", "1">> /\ AcEntries["GuardInterval"] = <<"0", "1">>
    /\ Lists(AcEntries)
<1>1. DOMAIN AcEntries = Names \ {"ChannelN", "Bandwidth", "Sideband"}
  BY DEF AcEntries, Names
<1>2. Lists(AcEntries)
  BY DEF AcEntries, Lists
<1> QED BY <1>1, <1>2 DEF AcEntries

LEMMA OtherLists ==
    /\ Lists(IndonesianEntries) /\ Lists(MtkEntries) /\ Lists(AbgnEntries) /\ Lists(BgnEntries)
    /\ DOMAIN IndonesianEntries = {"Mode", "Channel5G", "ChannelAll", "Channel5G40"}
    /\ IndonesianEntries["Mode"] = <<"b", "g", "n", "a">>
    /\ DOMAIN MtkEntries = {"Channel5G80"}
    /\ DOMAIN AbgnEntries = {"Mode", "ChannelN", "Power11A", "Power11B", "Power11G", "Power11N",
                             "Bandwidth", "Sideband"}
    /\ AbgnEntries["Mode"] = <<"b", "g", "n", "a">> /\ AbgnEntries["Bandwidth"] = <<"20", "40">>
    /\ AbgnEntries["Sideband"] = <<"u", "l", "c">>
    /\ DOMAIN BgnEntries = {"Mode"} /\ BgnEntries["Mode"] = <<"b", "g", "n">>
  BY DEF IndonesianEntries, MtkEntries, AbgnEntries, BgnEntries, Lists

LEMMA InsteadLists ==
    ASSUME NEW lists, NEW others, NEW s \in Spinners
    PROVE  Instead(lists, others)[s] = IF s \in DOMAIN lists THEN lists[s] ELSE others[s]
  BY DEF Instead

ModeLists == {<<"b", "g", "n", "a", "ac">>, <<"b", "g", "n", "a">>, <<"b", "g", "n">>}

(* What the proofs use of the lists of a screen.                            *)
Usual(lists) ==
    /\ lists["TxRx"] = <<"tx", "rx", "unmodulated">> /\ lists["Mode"] \in ModeLists
    /\ lists["BandwidthN"] = <<"20", "40">> /\ lists["BandwidthAC"] = <<"20", "40", "80">>
    /\ lists["Antenna"] = <<"0", "1">> /\ lists["GuardInterval"] = <<"0", "1">>
    /\ \A s \in Spinners : Len(lists[s]) \in 1..5
    /\ \A s \in Spinners \ {"ChannelN", "Bandwidth", "Sideband"} : Len(lists[s]) > 1
UsualAbgn(lists) ==
    /\ Usual(lists) /\ lists["Mode"] # <<"b", "g", "n", "a", "ac">>
    /\ lists["Bandwidth"] = <<"20", "40">> /\ lists["Sideband"] = <<"u", "l", "c">>
    /\ \A s \in Spinners : Len(lists[s]) > 1

LEMMA InsteadUsual ==
    ASSUME NEW lists, NEW others, Usual(others), Lists(lists),
           DOMAIN lists \cap {"TxRx", "BandwidthN", "BandwidthAC", "Antenna", "GuardInterval"} = {},
           "Mode" \in DOMAIN lists => lists["Mode"] \in ModeLists
    PROVE  Usual(Instead(lists, others))
<1>1. \A s \in Spinners :
         Instead(lists, others)[s] = IF s \in DOMAIN lists THEN lists[s] ELSE others[s]
  BY InsteadLists
<1>2. {"TxRx", "Mode", "BandwidthN", "BandwidthAC", "Antenna", "GuardInterval"} \subseteq Spinners
  BY SpinnerNames DEF Names
<1>3. \A s \in Spinners : s \in DOMAIN lists => Len(lists[s]) \in 1..5 /\ Len(lists[s]) > 1
  <2>1. \A n \in 2..5 : n \in 1..5 /\ n > 1
    OBVIOUS
  <2> QED BY <2>1, Zenon DEF Lists
<1> HIDE DEF Lists
<1>4. /\ \A s \in Spinners : Len(Instead(lists, others)[s]) \in 1..5
      /\ \A s \in Spinners \ {"ChannelN", "Bandwidth", "Sideband"} :
            Len(Instead(lists, others)[s]) > 1
  BY <1>1, <1>3 DEF Usual
<1> QED BY <1>1, <1>2, <1>4 DEF Usual

LEMMA EntriesUsual ==
    ASSUME screen \in Screens
    PROVE  Usual(Entries) /\ (~Ac(screen) => UsualAbgn(Entries))
           /\ (screen = "BgnSiso" => Entries["Mode"] = <<"b", "g", "n">>)
<1> DEFINE ac == Instead(AcEntries, NoEntries)
           abgn == Instead(AbgnEntries, ac)
           indonesian == Instead(IndonesianEntries, ac)
           bgn == Instead(BgnEntries, abgn)
<1>1. Entries = CASE screen = "BgnSiso" -> bgn
                  [] screen \in {"AbgnSiso", "AbgnMimo"} -> abgn
                  [] screen = "IDAcSiso" -> indonesian
                  [] screen = "MTKAcSiso" -> Instead(MtkEntries, ac)
                  [] screen = "MTKIDAcSiso" -> Instead(MtkEntries, indonesian)
                  [] OTHER -> ac
  BY DEF Entries, EntriesOf
<1>2. \A s \in Names : s \in Spinners
  BY SpinnerNames
<1>3. Usual(ac)
  <2>1. \A s \in Spinners :
           ac[s] = IF s \in DOMAIN AcEntries THEN AcEntries[s] ELSE NoEntries[s]
    BY InsteadLists
  <2>2. \A s \in Spinners : Len(NoEntries[s]) = 1
    BY DEF NoEntries
  <2> HIDE DEF ac
  <2>3. \A s \in Spinners \ {"ChannelN", "Bandwidth", "Sideband"} : ac[s] = AcEntries[s]
    BY <2>1, AcLists, SpinnerNames
  <2>4. /\ \A s \in Spinners : Len(ac[s]) \in 1..5
        /\ \A s \in Spinners \ {"ChannelN", "Bandwidth", "Sideband"} : Len(ac[s]) > 1
    BY <2>1, <2>2, <2>3, AcLists, SpinnerNames DEF Lists
  <2>5. {"TxRx", "Mode", "BandwidthN", "BandwidthAC", "Antenna", "GuardInterval"}
          \subseteq Spinners \ {"ChannelN", "Bandwidth", "Sideband"}
    BY <1>2 DEF Names
  <2> QED BY <2>3, <2>4, <2>5, AcLists DEF Usual, ModeLists
<1> HIDE DEF ac
<1>4. Usual(abgn) /\ Usual(indonesian)
  BY <1>3, InsteadUsual, OtherLists DEF ModeLists
<1>5. \A s \in Spinners : abgn[s] = IF s \in DOMAIN AbgnEntries THEN AbgnEntries[s] ELSE ac[s]
  BY InsteadLists
<1> HIDE DEF abgn, indonesian
<1>6. Usual(bgn) /\ Usual(Instead(MtkEntries, ac)) /\ Usual(Instead(MtkEntries, indonesian))
  BY <1>3, <1>4, InsteadUsual, OtherLists DEF ModeLists
<1>7. \A s \in Spinners : bgn[s] = IF s \in DOMAIN BgnEntries THEN BgnEntries[s] ELSE abgn[s]
  BY InsteadLists
<1> HIDE DEF bgn
<1>8. {"Mode", "Bandwidth", "Sideband", "ChannelN"} \subseteq Spinners
  BY <1>2 DEF Names
<1>9. UsualAbgn(abgn)
  <2>1. \A s \in Spinners : Len(abgn[s]) > 1
    <3>1. CASE \A s \in DOMAIN AbgnEntries : Len(AbgnEntries[s]) \in 2..5
      <4>1. ASSUME NEW s \in Spinners, s \in DOMAIN AbgnEntries PROVE Len(abgn[s]) > 1
        BY <1>5, <3>1, <4>1
      <4>2. ASSUME NEW s \in Spinners, s \notin DOMAIN AbgnEntries PROVE Len(abgn[s]) > 1
        <5>1. s \in Spinners \ {"ChannelN", "Bandwidth", "Sideband"}
          BY <4>2, OtherLists
        <5> QED BY <1>3, <1>5, <4>2, <5>1 DEF Usual
      <4> QED BY <4>1, <4>2
    <3> QED BY <3>1, OtherLists DEF Lists
  <2>2. <<"b", "g", "n", "a">> # <<"b", "g", "n", "a", "ac">>
    OBVIOUS
  <2> QED BY <1>4, <1>5, <1>8, <2>1, <2>2, OtherLists DEF UsualAbgn
<1>10. UsualAbgn(bgn) /\ bgn["Mode"] = <<"b", "g", "n">>
  <2>1. \A s \in Spinners : Len(bgn[s]) > 1
    BY <1>7, <1>9, OtherLists DEF UsualAbgn, Lists
  <2>2. <<"b", "g", "n">> # <<"b", "g", "n", "a", "ac">>
    OBVIOUS
  <2> QED BY <1>6, <1>7, <1>8, <1>9, <2>1, <2>2, OtherLists DEF UsualAbgn
<1>11. Usual(Entries)
  BY <1>1, <1>3, <1>4, <1>6
<1>12. CASE screen = "BgnSiso"
  BY <1>1, <1>10, <1>11, <1>12 DEF Ac
<1>13. CASE screen # "BgnSiso" /\ ~Ac(screen)
  <2>1. screen \in {"AbgnSiso", "AbgnMimo"}
    BY <1>13, ScreenNames DEF Ac
  <2> QED BY <1>1, <1>9, <1>11, <1>13, <2>1
<1> QED BY <1>11, <1>12, <1>13


-----------------------------------------------------------------------------
(* What is shown.                                                           *)
Directions == {"tx", "rx", "unmodulated"}
Widths == {"20", "40", "80"}
ScreenModes == IF Ac(screen) THEN {"b", "g", "n", "a", "ac"}
               ELSE IF screen = "BgnSiso" THEN {"b", "g", "n"} ELSE {"b", "g", "n", "a"}
WidthSpins == {"BandwidthN", "BandwidthAC"}
Rated == Channels \cup Rates \cup Powers
Rival(s, t) == s # t /\ \/ {s, t} \subseteq Channels \/ {s, t} \subseteq Rates
                        \/ {s, t} \subseteq Powers
ModeFor(b) == IF b = "BandwidthAC" THEN "ac" ELSE "n"

(* The spinners a screen may show.                                          *)
Panel == IF Ac(screen) THEN Spinners \ {"ChannelN", "Bandwidth", "Sideband"}
         ELSE IF screen = "BgnSiso"
              THEN {"TxRx", "Mode", "Channel2G", "RateB", "RateA", "RateN",
                    "Power11A", "Power11B", "Power11G", "Power11N", "GuardInterval"}
              ELSE Spinners \ {"BandwidthN", "BandwidthAC", "Channel5G40", "Channel5G80",
                               "RateAC", "Power11AC"}

LEMMA AcViewMembers ==
    ASSUME NEW x \in Directions, NEW m \in {"b", "g", "n", "a", "ac"}, NEW w \in Widths,
           Known(m, w), NEW s
    PROVE  s \in AcView(x, m, w) <=>
             IF x = "unmodulated" THEN s \in {"TxRx", "ChannelAll"}
             ELSE \/ s \in {"TxRx", "Mode", ChannelSpin(m, w)}
                  \/ Wide(m) /\ s = BandwidthSpin(m)
                  \/ x = "tx" /\ \/ s \in {RateSpin[m], PowerSpin[m]}
                                 \/ Wide(m) /\ s = "GuardInterval"
<1>1. CASE x = "unmodulated"
  BY <1>1 DEF AcView
<1>2. CASE x # "unmodulated"
  <2>1. AcView(x, m, w) = {"TxRx", "Mode", ChannelSpin(m, w)}
             \cup (IF Wide(m) THEN {BandwidthSpin(m)} ELSE {})
             \cup (IF x = "tx" THEN {RateSpin[m], PowerSpin[m]} ELSE {})
             \cup (IF x = "tx" /\ Wide(m) THEN {"GuardInterval"} ELSE {})
    BY <1>2, Zenon DEF AcView
  <2> QED BY <1>2, <2>1
<1> QED BY <1>1, <1>2

(* A view has one spinner for a field, and those that fit the mode.         *)
Fitting(view, x, m, w) ==
    /\ "TxRx" \in view /\ ("Mode" \in view <=> x # "unmodulated")
    /\ \A s, t \in view : ~Rival(s, t)
    /\ \E s \in view : s \in Channels
    /\ \A b \in view \cap Bandwidths : m = ModeFor(b) /\ x # "unmodulated"
    /\ x = "unmodulated" => view \cap Rated \subseteq {"ChannelAll", "Channel2G"}
    /\ x # "unmodulated" /\ m = "b" => view \cap Rated \subseteq {"Channel2G", "RateB", "Power11B"}

LEMMA AcViewFits ==
    ASSUME NEW x \in Directions, NEW m \in {"b", "g", "n", "a", "ac"}, NEW w \in Widths,
           Known(m, w)
    PROVE  /\ Fitting(AcView(x, m, w), x, m, w)
           /\ AcView(x, m, w) \subseteq Names \ {"ChannelN", "Bandwidth", "Sideband", "Antenna"}
           /\ x # "unmodulated" /\ Wide(m) =>
                 AcView(x, m, w) \cap WidthSpins = {BandwidthSpin(m)}
           /\ "Channel5G40" \in AcView(x, m, w) <=> x # "unmodulated" /\ Wide(m) /\ w = "40"
           /\ x = "unmodulated" \/ ~Wide(m) => AcView(x, m, w) = AcView(x, m, "20")
<1> DEFINE view == AcView(x, m, w)
<1>1. CASE x = "unmodulated"
  <2>1. AcView(x, m, w) = {"TxRx", "ChannelAll"} /\ AcView(x, m, "20") = {"TxRx", "ChannelAll"}
    BY <1>1 DEF AcView
  <2> QED BY <1>1, <2>1 DEF Fitting, Names, Rival, Rated, Channels, Rates, Powers, Bandwidths
<1>2. CASE x # "unmodulated"
  <2> DEFINE c == ChannelSpin(m, w)
             b == BandwidthSpin(m)
             r == RateSpin[m]
             p == PowerSpin[m]
  <2>1. \A s : s \in view <=> \/ s \in {"TxRx", "Mode", c}
                              \/ Wide(m) /\ s = b
                              \/ x = "tx" /\ \/ s \in {r, p}
                                             \/ Wide(m) /\ s = "GuardInterval"
    BY <1>2, AcViewMembers
  <2>2. /\ c \in Channels \ {"ChannelN"} /\ r \in Rates /\ p \in Powers
        /\ c = "Channel5G40" <=> Wide(m) /\ w = "40"
        /\ Wide(m) => b \in WidthSpins /\ m = ModeFor(b)
        /\ m = "b" => c = "Channel2G" /\ r = "RateB" /\ p = "Power11B"
    BY DEF ChannelSpin, BandwidthSpin, RateSpin, PowerSpin, Channels, Rates, Powers, Wide, Known,
           WidthSpins, ModeFor, Widths
  <2>3. ~Wide(m) => ChannelSpin(m, "20") = c /\ Known(m, "20")
    <3>1. ~Wide(m) => m \in {"b", "g", "a"} /\ Known(m, "20")
      BY Zenon DEF Wide, Known
    <3>2. \A u : /\ m \in {"b", "g"} => ChannelSpin(m, u) = "Channel2G"
                 /\ m = "a" => ChannelSpin(m, u) = "Channel5G"
      BY DEF ChannelSpin
    <3> QED BY <3>1, <3>2
  <2>4. ~Wide(m) => view = AcView(x, m, "20")
    BY <2>3 DEF AcView
  <2> HIDE DEF view, c, b, r, p
  <2>5. /\ "TxRx" \in view /\ "Mode" \in view /\ \E s \in view : s \in Channels
        /\ x # "unmodulated" /\ m = "b" =>
              view \cap Rated \subseteq {"Channel2G", "RateB", "Power11B"}
        /\ \A s \in view \cap Bandwidths : m = ModeFor(s)
    BY <2>1, <2>2 DEF Rated, Channels, Rates, Powers, Bandwidths, WidthSpins, Wide
  <2>6. \A s, t \in view : ~Rival(s, t)
    BY <2>1, <2>2 DEF Channels, Rates, Powers, WidthSpins, Rival
  <2>7. view \subseteq Names \ {"ChannelN", "Bandwidth", "Sideband", "Antenna"}
    BY <2>1, <2>2 DEF Names, Channels, Rates, Powers, WidthSpins
  <2>8. /\ Wide(m) => view \cap WidthSpins = {b}
        /\ "Channel5G40" \in view <=> Wide(m) /\ w = "40"
    BY <2>1, <2>2 DEF WidthSpins, Channels, Rates, Powers
  <2> QED BY <1>2, <2>4, <2>5, <2>6, <2>7, <2>8 DEF view, b, Fitting
<1> QED BY <1>1, <1>2

LEMMA AbgnViewFits ==
    ASSUME NEW x \in Directions, NEW m \in {"b", "g", "n", "a"}, NEW w
    PROVE  /\ Fitting(AbgnView(x, m), x, m, w)
           /\ AbgnView(x, m) \subseteq
                Names \ {"BandwidthN", "BandwidthAC", "Channel5G40", "Channel5G80", "RateAC",
                         "Power11AC", "Sideband", "Antenna"}
           /\ x # "unmodulated" /\ m = "n" => "Bandwidth" \in AbgnView(x, m)
           /\ m # "a" => Fitting(BgnView(x, m), x, m, w)
           /\ m # "a" => BgnView(x, m) \subseteq
                {"TxRx", "Mode", "Channel2G", "RateB", "RateA", "RateN",
                 "Power11B", "Power11G", "Power11N", "GuardInterval"}
<1> DEFINE view == AbgnView(x, m)
           bgn == BgnView(x, m)
<1>1. CASE x = "unmodulated"
  <2>1. view = {"TxRx", "ChannelAll"} /\ bgn = {"TxRx", "Channel2G"}
    BY <1>1 DEF AbgnView, BgnView
  <2> QED BY <1>1, <2>1 DEF Fitting, Names, Rival, Rated, Channels, Rates, Powers, Bandwidths
<1>2. CASE x # "unmodulated"
  <2> DEFINE c == IF m = "n" THEN "ChannelN" ELSE IF m = "a" THEN "Channel5G" ELSE "Channel2G"
             r == RateSpin[m]
             p == PowerSpin[m]
  <2>1. view = {"TxRx", "Mode"}
               \cup (IF m = "n" THEN {"ChannelN", "Bandwidth"}
                     ELSE IF m = "a" THEN {"Channel5G"} ELSE {"Channel2G"})
               \cup (IF x = "tx" THEN {r, p} ELSE {})
               \cup (IF x = "tx" /\ m = "n" THEN {"GuardInterval"} ELSE {})
    BY <1>2 DEF AbgnView
  <2>2. \A s : s \in view <=> \/ s \in {"TxRx", "Mode", c}
                              \/ m = "n" /\ s = "Bandwidth"
                              \/ x = "tx" /\ \/ s \in {r, p}
                                             \/ m = "n" /\ s = "GuardInterval"
    BY <2>1
  <2>3. /\ r \in {"RateB", "RateA", "RateN"} /\ (m = "b" => r = "RateB")
        /\ p \in {"Power11A", "Power11B", "Power11G", "Power11N"} /\ (m = "b" => p = "Power11B")
        /\ m # "a" => p # "Power11A"
        /\ c \in {"ChannelN", "Channel5G", "Channel2G"} /\ (m = "b" => c = "Channel2G")
        /\ m # "a" => c # "Channel5G"
    BY DEF RateSpin, PowerSpin
  <2>4. bgn = (view \ {"ChannelAll", "ChannelN", "Bandwidth"}) \cup {"Channel2G"}
    BY DEF BgnView
  <2> HIDE DEF view, bgn, c, r, p
  <2>5. m # "a" => \A s : s \in bgn <=> \/ s \in {"TxRx", "Mode", "Channel2G"}
                                        \/ x = "tx" /\ \/ s \in {r, p}
                                                       \/ m = "n" /\ s = "GuardInterval"
    BY <2>2, <2>3, <2>4
  <2>6. Fitting(view, x, m, w)
    <3>1. \A s, t \in view : ~Rival(s, t)
      BY <2>2, <2>3 DEF Rival, Channels, Rates, Powers
    <3> QED BY <1>2, <2>2, <2>3, <3>1
         DEF Fitting, Rated, Channels, Rates, Powers, Bandwidths, ModeFor
  <2>7. m # "a" => Fitting(bgn, x, m, w)
    <3>1. m # "a" => \A s, t \in bgn : ~Rival(s, t)
      BY <2>5, <2>3 DEF Rival, Channels, Rates, Powers
    <3> QED BY <1>2, <2>5, <2>3, <3>1
         DEF Fitting, Rated, Channels, Rates, Powers, Bandwidths, ModeFor
  <2>8. /\ view \subseteq Names \ {"BandwidthN", "BandwidthAC", "Channel5G40", "Channel5G80",
                                   "RateAC", "Power11AC", "Sideband", "Antenna"}
        /\ m # "a" => bgn \subseteq {"TxRx", "Mode", "Channel2G", "RateB", "RateA", "RateN",
                                     "Power11B", "Power11G", "Power11N", "GuardInterval"}
        /\ m = "n" => "Bandwidth" \in view
    BY <2>2, <2>3, <2>5 DEF Names
  <2> QED BY <1>2, <2>6, <2>7, <2>8 DEF view, bgn
<1> QED BY <1>1, <1>2

(* The view of a screen: which spinners it may have, that it has one for a  *)
(* field, and how it depends on the width.                                  *)
LEMMA ViewFits ==
    ASSUME screen \in Screens, NEW x \in Directions, NEW m \in ScreenModes, NEW w \in Widths,
           Known(m, w)
    PROVE  /\ Fitting(View(x, m, w), x, m, w)
           /\ View(x, m, w) \subseteq Panel \ {"Sideband"}
           /\ screen = "BgnSiso" => View(x, m, w) \cap Channels = {"Channel2G"}
           /\ screen # "BgnSiso" /\ x = "unmodulated" => View(x, m, w) \cap Rated = {"ChannelAll"}
           /\ "Channel5G40" \in View(x, m, w) <=>
                 x # "unmodulated" /\ Ac(screen) /\ Wide(m) /\ w = "40"
           /\ x # "unmodulated" /\ Wide(m) /\ Ac(screen) =>
                 \E b \in WidthSpins : View(x, m, w) \cap Bandwidths = {b}
                                       /\ View(x, m, "20") \cap Bandwidths = {b}
           /\ x = "unmodulated" \/ ~Wide(m) \/ ~Ac(screen) => View(x, m, w) = View(x, m, "20")
           /\ x # "unmodulated" /\ m = "n" /\ ~Ac(screen) /\ screen # "BgnSiso" =>
                 "Bandwidth" \in View(x, m, w)
<1> DEFINE view == View(x, m, w)
           antenna == IF Mimo(screen) THEN {"Antenna"} ELSE {}
<1>1. antenna \in {{}, {"Antenna"}} /\ "20" \in Widths /\ Known(m, "20")
  BY DEF Widths, Known
<1>2. CASE Ac(screen)
  <2>1. /\ view = AcView(x, m, w) \cup antenna
        /\ View(x, m, "20") = AcView(x, m, "20") \cup antenna
    BY <1>2, Zenon DEF View
  <2>2. m \in {"b", "g", "n", "a", "ac"} /\ screen # "BgnSiso"
    BY <1>2 DEF ScreenModes, Ac
  <2>3. \A u \in {w, "20"} :
        /\ Fitting(AcView(x, m, u), x, m, u)
        /\ AcView(x, m, u) \subseteq Names \ {"ChannelN", "Bandwidth", "Sideband", "Antenna"}
        /\ x # "unmodulated" /\ Wide(m) => AcView(x, m, u) \cap WidthSpins = {BandwidthSpin(m)}
    BY <2>2, <1>1, AcViewFits
  <2>4. /\ "Channel5G40" \in AcView(x, m, w) <=> x # "unmodulated" /\ Wide(m) /\ w = "40"
        /\ x = "unmodulated" \/ ~Wide(m) => AcView(x, m, w) = AcView(x, m, "20")
    BY <2>2, <1>1, AcViewFits
  <2>5. Fitting(view, x, m, w)
    BY <1>1, <2>1, <2>3 DEF Fitting, Rival, Rated, Channels, Rates, Powers, Bandwidths
  <2>6. view \subseteq Panel \ {"Sideband"}
    BY <1>1, <1>2, <2>1, <2>3, SpinnerNames DEF Panel, Names
  <2>7. x = "unmodulated" => view \cap Rated = {"ChannelAll"}
    <3>1. x = "unmodulated" => AcView(x, m, w) = {"TxRx", "ChannelAll"}
      BY DEF AcView
    <3> QED BY <1>1, <2>1, <3>1 DEF Rated, Channels, Rates, Powers
  <2>8. x # "unmodulated" /\ Wide(m) =>
          /\ BandwidthSpin(m) \in WidthSpins
          /\ \A u \in {w, "20"} : (AcView(x, m, u) \cup antenna) \cap Bandwidths = {BandwidthSpin(m)}
    BY <1>1, <2>3 DEF BandwidthSpin, WidthSpins, Bandwidths
  <2>9. "Channel5G40" \in view <=> "Channel5G40" \in AcView(x, m, w)
    BY <1>1, <2>1
  <2> HIDE DEF view
  <2> QED BY <1>2, <2>1, <2>2, <2>4, <2>5, <2>6, <2>7, <2>8, <2>9 DEF view
<1>3. CASE screen = "BgnSiso"
  <2>1. view = BgnView(x, m) /\ View(x, m, "20") = BgnView(x, m)
    BY <1>3, Zenon DEF View, Ac, Mimo
  <2>2. m \in {"b", "g", "n", "a"} /\ m # "a" /\ ~Ac(screen)
    BY <1>3 DEF ScreenModes, Ac
  <2>3. /\ Fitting(view, x, m, w)
        /\ view \subseteq {"TxRx", "Mode", "Channel2G", "RateB", "RateA", "RateN",
                           "Power11B", "Power11G", "Power11N", "GuardInterval"}
    BY <2>1, <2>2, AbgnViewFits
  <2> HIDE DEF view
  <2>4. view \cap Channels = {"Channel2G"} /\ "Channel5G40" \notin view
    BY <2>3 DEF Fitting, Channels
  <2>5. view \subseteq Panel \ {"Sideband"}
    BY <1>3, <2>2, <2>3 DEF Panel
  <2> QED BY <1>3, <2>1, <2>2, <2>3, <2>4, <2>5 DEF view
<1>4. CASE ~Ac(screen) /\ screen # "BgnSiso"
  <2>1. view = AbgnView(x, m) \cup antenna /\ View(x, m, "20") = AbgnView(x, m) \cup antenna
    BY <1>4, Zenon DEF View
  <2>2. m \in {"b", "g", "n", "a"}
    BY <1>4 DEF ScreenModes
  <2>3. /\ Fitting(AbgnView(x, m), x, m, w)
        /\ AbgnView(x, m) \subseteq
                Names \ {"BandwidthN", "BandwidthAC", "Channel5G40", "Channel5G80", "RateAC",
                         "Power11AC", "Sideband", "Antenna"}
        /\ x # "unmodulated" /\ m = "n" => "Bandwidth" \in AbgnView(x, m)
    BY <2>2, AbgnViewFits
  <2>4. Fitting(view, x, m, w)
    BY <1>1, <2>1, <2>3 DEF Fitting, Rival, Rated, Channels, Rates, Powers, Bandwidths
  <2>5. view \subseteq Panel \ {"Sideband"} /\ "Channel5G40" \notin view
    BY <1>1, <1>4, <2>1, <2>3, SpinnerNames DEF Panel, Names
  <2>6. x = "unmodulated" => view \cap Rated = {"ChannelAll"}
    <3>1. x = "unmodulated" => AbgnView(x, m) = {"TxRx", "ChannelAll"}
      BY DEF AbgnView
    <3> QED BY <1>1, <2>1, <3>1 DEF Rated, Channels, Rates, Powers
  <2>7. "Bandwidth" \in AbgnView(x, m) => "Bandwidth" \in view
    BY <2>1
  <2> HIDE DEF view
  <2> QED BY <1>4, <2>1, <2>3, <2>4, <2>5, <2>6, <2>7 DEF view
<1> QED BY <1>2, <1>3, <1>4


-----------------------------------------------------------------------------
(* The invariant.                                                           *)
Buttons == {"ftm", "start"}
Messages == Panel \cup Buttons \cup {"layout"}
FieldNames == {"TxRx", "Mode", "channel", "rate", "power", "bandwidth", "Sideband", "Antenna",
               "GuardInterval"}
Entry(s, p) == Entries[s][p + 1]
Told(s) == Contains(queue, s)

(* What was posted in a layout pass is handled before the next one.         *)
Orderly(q) == \A i, j \in 1..Len(q) : i < j /\ q[i] = "layout" => q[j] \in Buttons
Alone(q, s) == \E i \in 1..Len(q) : q[i] = s /\ \A j \in 1..Len(q) : q[j] \in Spinners => j = i

IsFields(g) == /\ g = [f \in FieldNames |-> g[f]]
               /\ g.TxRx \in Directions /\ g.Mode \in ScreenModes
Typed ==
    /\ screen \in Screens /\ IsFields(fields)
    /\ pos \in [Spinners -> Nat] /\ \A s \in Spinners : pos[s] < Len(Entries[s])
    /\ old \in [Spinners -> Int]
    /\ \A s \in Spinners : -1 <= old[s] /\ old[s] < Len(Entries[s])
    /\ shown \subseteq Panel
    /\ queue \in Seq(Messages) /\ Orderly(queue)

(* A selection that differs from what the last pass found waits for the     *)
(* next.  If it was chosen by the tester that pass is the next message, and *)
(* finds nothing else changed.                                              *)
Pending(s) == /\ queue # <<>> /\ Head(queue) = "layout"
              /\ s \in shown /\ \A t \in shown \ {s} : pos[t] = old[t]
Passes ==
    /\ \A s \in shown : pos[s] # old[s] => Told("layout")
    /\ \A s \in {"TxRx", "Mode"} : pos[s] # old[s] => old[s] = -1 \/ Pending(s)
    /\ \A b \in Bandwidths : /\ pos[b] # 0 => pos[b] = old[b] \/ Pending(b)
                             /\ Told(b) /\ pos[b] # 0 => /\ fields.Mode = ModeFor(b)
                                                         /\ fields.TxRx # "unmodulated"
                                                         /\ Alone(queue, b)

(* Spinners no pass has found since the app came to the front.              *)
Fresh ==
    /\ old["TxRx"] = -1 => pos["TxRx"] = 0 /\ \A s \in Rated : old[s] = -1
    /\ old["Mode"] = -1 =>
          /\ pos["Mode"] = 0
          /\ \A s \in Rated : old[s] # -1 =>
                s = IF screen = "BgnSiso" THEN "Channel2G" ELSE "ChannelAll"

(* The fields that updateSettings does not set are those of the last pass,  *)
(* or of now, or will be told.                                              *)
Kept ==
    /\ \A s \in {"TxRx", "Mode", "Sideband"} \cap Panel :
          old[s] = -1 \/ Told(s) \/ fields[s] = Entry(s, old[s]) \/ fields[s] = Entry(s, pos[s])
    /\ \/ old["GuardInterval"] = -1 \/ Told("GuardInterval")
       \/ fields["GuardInterval"] = Entry("GuardInterval", old["GuardInterval"])
       \/ pos["GuardInterval"] = 0 /\ fields["GuardInterval"] = Entry("GuardInterval", 0)
    /\ Told("GuardInterval") => pos["GuardInterval"] \in {0, old["GuardInterval"]}

(* What is shown is the view of the fields; the abgn screens add Sideband.  *)
ShownFor(w) ==
    /\ Known(fields.Mode, w) /\ shown \ {"Sideband"} = View(fields.TxRx, fields.Mode, w)
    /\ \A b \in shown \cap WidthSpins :
          /\ fields.bandwidth = w
          /\ pos[b] = BandwidthEntry(w) \/ Told(b) \/ (pos[b] # old[b] /\ Pending(b))
Seen ==
    /\ shown \ {"Sideband"} = {} \/ \E w \in Widths : ShownFor(w)
    /\ ~Wide(fields.Mode) \/ screen = "BgnSiso" => fields.bandwidth = "20"
    /\ "Mode" \in shown /\ ~Ac(screen) => (fields.bandwidth = "40" <=> "Sideband" \in shown)

(* A notifier of a spinner that is hidden by now overwrites the field of    *)
(* the one shown in its place.  It is repaired: that one, or the bandwidth, *)
(* is told after the next pass, as position 0 is new to it.                 *)
Safe(view, t) == \A s \in view : Rival(s, t) =>
    old[s] # 0 \/ \E b \in view \cap WidthSpins : old[b] # 0
Resetters == {"TxRx", "Mode"} \cup WidthSpins
Resetting == \/ \E r \in Resetters : Told(r)
             \/ \E b \in shown \cap WidthSpins : pos[b] # old[b]
Harmless(t) ==
    /\ Safe(View(fields.TxRx, fields.Mode, "20"), t)
    /\ Told("TxRx") => Selected("TxRx") = "tx" /\ Safe(View("tx", fields.Mode, "20"), t)
    /\ Told("Mode") => /\ Selected("Mode") = "b" /\ fields.TxRx # "unmodulated"
                       /\ \A x \in {"tx", "rx"} : Safe(View(x, "b", "20"), t)
    /\ \A s \in shown : Rival(s, t) => pos[s] # old[s] \/ Resetting
Stale == \A t \in Rated : Told(t) => Harmless(t)

(* So every field that updateSettings sets is right, or is to be repaired.  *)
Right(s) ==
    /\ \/ fields[Field(s)] = Selected(s)
       \/ /\ s \in Channels /\ pos[s] = 0
          /\ FirstChannel(s) # Selected(s) /\ fields.channel = FirstChannel(s)
    /\ s = "Channel5G40" => fields.Sideband = SidebandOf(fields.channel)
Repaired == \A s \in shown \ {"TxRx", "Mode", "Sideband", "GuardInterval"} :
    Right(s) \/ pos[s] # old[s] \/ Told(s) \/ Resetting

Inv == Typed /\ Passes /\ Fresh /\ Kept /\ Seen /\ Stale /\ Repaired


-----------------------------------------------------------------------------
(* The queue.                                                               *)
LEMMA MessageKinds ==
    /\ Panel \subseteq Spinners /\ Spinners \cap Buttons = {}
    /\ "layout" \notin Spinners \cup Buttons /\ Buttons \subseteq Messages /\ "layout" \in Messages
  BY SpinnerNames DEF Panel, Buttons, Names, Messages

(* A message is taken: what the rest contains, and its order.               *)
LEMMA Taken ==
    ASSUME queue \in Seq(Messages), Orderly(queue), queue # <<>>
    PROVE  /\ Tail(queue) \in Seq(Messages) /\ Orderly(Tail(queue)) /\ Head(queue) \in Messages
           /\ \A e : Told(e) <=> e = Head(queue) \/ Contains(Tail(queue), e)
           /\ Head(queue) = "layout" => \A e : Contains(Tail(queue), e) => e \in Buttons
           /\ \A b \in Spinners : Alone(queue, b) =>
                /\ Head(queue) = b => \A s \in Spinners : ~Contains(Tail(queue), s)
                /\ Head(queue) # b => Head(queue) \notin Spinners /\ Alone(Tail(queue), b)
<1> DEFINE rest == Tail(queue)
<1>1. /\ rest \in Seq(Messages) /\ Len(rest) = Len(queue) - 1 /\ Len(queue) \in Nat \ {0}
      /\ Head(queue) = queue[1] /\ Head(queue) \in Messages
      /\ \A i \in 1..Len(rest) : rest[i] = queue[i + 1]
  BY HeadTailProperties, EmptySeq, LenProperties, ElementOfSeq
<1> HIDE DEF rest
<1>2. Orderly(rest)
  BY <1>1 DEF Orderly
<1>3. Head(queue) = "layout" => \A e : Contains(rest, e) => e \in Buttons
  BY <1>1 DEF Orderly, Contains
<1>4. ASSUME NEW b \in Spinners, Alone(queue, b)
      PROVE  /\ Head(queue) = b => \A s \in Spinners : ~Contains(rest, s)
             /\ Head(queue) # b => Head(queue) \notin Spinners /\ Alone(rest, b)
  <2>1. PICK i \in 1..Len(queue) :
               queue[i] = b /\ \A j \in 1..Len(queue) : queue[j] \in Spinners => j = i
    BY <1>4 DEF Alone
  <2>2. CASE i = 1
    BY <1>1, <2>1, <2>2 DEF Contains
  <2>3. CASE i # 1
    <3>1. i - 1 \in 1..Len(rest) /\ rest[i - 1] = b
      BY <1>1, <2>1, <2>3
    <3>2. \A j \in 1..Len(rest) : rest[j] \in Spinners => j = i - 1
      BY <1>1, <2>1
    <3> QED BY <1>1, <2>1, <2>3, <3>1, <3>2 DEF Alone
  <2> QED BY <2>2, <2>3
<1> QED BY <1>1, <1>2, <1>3, <1>4, TailContains DEF rest, Told

LEMMA Appended ==
    ASSUME NEW q \in Seq(Messages), Orderly(q), NEW m \in Buttons \cup {"layout"},
           m = "layout" => ~Contains(q, m)
    PROVE  /\ Append(q, m) \in Seq(Messages) /\ Orderly(Append(q, m))
           /\ \A e : Contains(Append(q, m), e) <=> Contains(q, e) \/ e = m
           /\ \A b \in Spinners : Alone(q, b) => Alone(Append(q, m), b)
           /\ q # <<>> => Append(q, m) # <<>> /\ Head(Append(q, m)) = Head(q)
           /\ q = <<>> => Append(q, m) # <<>> /\ Head(Append(q, m)) = m
<1> DEFINE a == Append(q, m)
<1>1. m \in Messages /\ m \notin Spinners
  BY MessageKinds
<1>2. /\ a \in Seq(Messages) /\ Len(a) = Len(q) + 1 /\ Len(q) \in Nat
      /\ \A i \in 1..Len(q) : a[i] = q[i]
      /\ a[Len(q) + 1] = m
  BY <1>1, AppendProperties, LenProperties
<1>3. \A e : Contains(a, e) <=> Contains(q, e) \/ e = m
  BY <1>1, AppendContains
<1>4. q = <<>> <=> Len(q) = 0
  BY EmptySeq
<1> HIDE DEF a
<1>5. a # <<>> /\ Head(a) = a[1]
  BY <1>2, EmptySeq, HeadTailProperties
<1>6. (q # <<>> => Head(a) = Head(q)) /\ (q = <<>> => Head(a) = m)
  BY <1>2, <1>4, <1>5, HeadTailProperties
<1>7. \A b \in Spinners : Alone(q, b) => Alone(a, b)
  BY <1>1, <1>2 DEF Alone
<1>8. Orderly(a)
  <2> SUFFICES ASSUME NEW i \in 1..Len(a), NEW j \in 1..Len(a), i < j, a[i] = "layout"
               PROVE  a[j] \in Buttons
    BY DEF Orderly
  <2>1. i \in 1..Len(q) /\ q[i] = "layout"
    BY <1>2
  <2>2. CASE j \in 1..Len(q)
    BY <1>2, <2>1, <2>2 DEF Orderly
  <2>3. CASE j = Len(q) + 1
    <3>1. CASE m \in Buttons
      BY <1>2, <2>3, <3>1
    <3>2. CASE m = "layout"
      BY <1>2, <2>1, <2>3, <3>2 DEF Contains
    <3> QED BY <3>1, <3>2
  <2> QED BY <1>2, <2>2, <2>3
<1> QED BY <1>2, <1>3, <1>5, <1>6, <1>7, <1>8 DEF a

LEMMA LayoutRequested ==
    ASSUME NEW rest \in Seq(Messages), Orderly(rest), RequestLayout(rest)
    PROVE  /\ queue' \in Seq(Messages) /\ Orderly(queue')
           /\ \A e : Contains(queue', e) <=> Contains(rest, e) \/ e = "layout"
           /\ \A b \in Spinners : Alone(rest, b) => Alone(queue', b)
<1>1. CASE Contains(rest, "layout")
  BY <1>1 DEF RequestLayout
<1>2. CASE ~Contains(rest, "layout")
  BY <1>2, Appended DEF RequestLayout
<1> QED BY <1>1, <1>2

-----------------------------------------------------------------------------
(* What updateSettings sets.                                                *)
LEMMA FieldKinds ==
    \A s \in Spinners : /\ Field(s) \in FieldNames
                        /\ Field(s) = "channel" <=> s \in Channels
                        /\ Field(s) = "rate" <=> s \in Rates
                        /\ Field(s) = "power" <=> s \in Powers
                        /\ Field(s) = "bandwidth" <=> s \in Bandwidths
                        /\ s \notin Rated \cup Bandwidths => Field(s) = s
  BY SpinnerNames DEF Names, Field, FieldNames, Rated, Channels, Rates, Powers, Bandwidths

LEMMA ResetFits ==
    ASSUME NEW g, g = [f \in FieldNames |-> g[f]], NEW view, NEW w,
           \A s, t \in view : ~Rival(s, t), \E s \in view : s \in Channels
    PROVE  LET h == Reset(g, view, w) IN
           /\ h = [f \in FieldNames |-> h[f]]
           /\ \A f \in {"TxRx", "Mode", "GuardInterval"} : h[f] = g[f]
           /\ \A s \in view \cap Channels : h["channel"] = FirstChannel(s)
           /\ \A s \in view \cap Rates : h["rate"] = Entry(s, 0)
           /\ \A s \in view \cap Powers : h["power"] = Entry(s, 0)
           /\ h["bandwidth"] = IF view \cap Bandwidths = {} THEN g["bandwidth"] ELSE w
           /\ h["Sideband"] = IF "Channel5G40" \in view THEN "l" ELSE g["Sideband"]
           /\ h["Antenna"] = "0"
<1> DEFINE h == Reset(g, view, w)
           channel == FirstChannel(CHOOSE s \in view : s \in Channels)
           rate == IF view \cap Rates # {} THEN First(view, Rates) ELSE g["rate"]
           power == IF view \cap Powers # {} THEN First(view, Powers) ELSE g["power"]
           sideband == IF "Channel5G40" \in view THEN "l" ELSE g["Sideband"]
           bandwidth == IF view \cap Bandwidths # {} THEN w ELSE g["bandwidth"]
<1>1. h = [[[[[[g EXCEPT !["channel"] = channel] EXCEPT !["Sideband"] = sideband]
                 EXCEPT !["rate"] = rate] EXCEPT !["power"] = power]
                 EXCEPT !["bandwidth"] = bandwidth] EXCEPT !["Antenna"] = "0"]
  BY DEF Reset, FieldNames
<1>2. \A s \in view \cap Channels : channel = FirstChannel(s)
  <2>1. \A s, t \in view : s \in Channels /\ t \in Channels => s = t
    BY DEF Rival
  <2>2. ASSUME NEW s \in view \cap Channels PROVE (CHOOSE t \in view : t \in Channels) = s
    BY <2>1, <2>2
  <2> QED BY <2>2
<1>3. \A s \in view \cap Rates : rate = Entry(s, 0)
  <2>1. \A s, t \in view : s \in Rates /\ t \in Rates => s = t
    BY DEF Rival
  <2>2. ASSUME NEW s \in view \cap Rates PROVE (CHOOSE t \in view : t \in Rates) = s
    BY <2>1, <2>2
  <2>3. \A s : Entry(s, 0) = Entries[s][1]
    BY DEF Entry
  <2> QED BY <2>2, <2>3 DEF First
<1>4. \A s \in view \cap Powers : power = Entry(s, 0)
  <2>1. \A s, t \in view : s \in Powers /\ t \in Powers => s = t
    BY DEF Rival
  <2>2. ASSUME NEW s \in view \cap Powers PROVE (CHOOSE t \in view : t \in Powers) = s
    BY <2>1, <2>2
  <2>3. \A s : Entry(s, 0) = Entries[s][1]
    BY DEF Entry
  <2> QED BY <2>2, <2>3 DEF First
<1> HIDE DEF channel, rate, power, h
<1>5. /\ h = [f \in FieldNames |-> h[f]]
      /\ \A f \in {"TxRx", "Mode", "GuardInterval"} : h[f] = g[f]
      /\ h["channel"] = channel /\ h["rate"] = rate /\ h["power"] = power
      /\ h["Sideband"] = sideband /\ h["bandwidth"] = bandwidth /\ h["Antenna"] = "0"
  BY <1>1 DEF FieldNames
<1> QED BY <1>2, <1>3, <1>4, <1>5 DEF h


LEMMA SameScreen ==
    ASSUME screen' = screen
    PROVE  /\ Entries' = Entries /\ Panel' = Panel /\ ScreenModes' = ScreenModes
           /\ Messages' = Messages
           /\ \A x, m, w : View(x, m, w)' = View(x, m, w)
           /\ \A w : View(fields.TxRx, fields.Mode, w)' = View(fields'.TxRx, fields'.Mode, w)
           /\ View("tx", fields.Mode, "20")' = View("tx", fields'.Mode, "20")
<1>1. Entries' = Entries /\ Panel' = Panel /\ ScreenModes' = ScreenModes
  BY DEF Entries, Panel, ScreenModes
<1>2. Messages' = Messages
  BY <1>1 DEF Messages
<1>3. /\ \A x, m, w : View(x, m, w)' = View(x, m, w)
      /\ \A w : View(fields.TxRx, fields.Mode, w)' = View(fields'.TxRx, fields'.Mode, w)
      /\ View("tx", fields.Mode, "20")' = View("tx", fields'.Mode, "20")
  BY DEF View
<1> QED BY <1>1, <1>2, <1>3

(* What the handler that calls updateSettings for the fields g must see to. *)
KeptBy(g, q) ==
    /\ \A s \in {"TxRx", "Mode", "Sideband"} \cap Panel :
          old[s] = -1 \/ Contains(q, s) \/ g[s] = Entry(s, old[s]) \/ g[s] = Entry(s, pos[s])
    /\ \/ old["GuardInterval"] = -1 \/ Contains(q, "GuardInterval")
       \/ g["GuardInterval"] = Entry("GuardInterval", old["GuardInterval"])
       \/ pos["GuardInterval"] = 0 /\ g["GuardInterval"] = Entry("GuardInterval", 0)
    /\ Contains(q, "GuardInterval") => pos["GuardInterval"] \in {0, old["GuardInterval"]}
HarmlessBy(g, q, t) ==
    /\ Safe(View(g.TxRx, g.Mode, "20"), t)
    /\ Contains(q, "TxRx") =>
          Selected("TxRx") = "tx" /\ Safe(View("tx", g.Mode, "20"), t)
    /\ Contains(q, "Mode") => /\ Selected("Mode") = "b" /\ g.TxRx # "unmodulated"
                              /\ \A x \in {"tx", "rx"} : Safe(View(x, "b", "20"), t)
Prepared(g, w, q) ==
    /\ IsFields(g) /\ w \in Widths /\ Known(g.Mode, w) /\ (~Ac(screen) => w = "20")
    /\ KeptBy(g, q)
    /\ ~Wide(g.Mode) \/ screen = "BgnSiso" => g.bandwidth = "20"
    /\ w # "20" =>
          /\ \A s \in Spinners : ~Contains(q, s)
          /\ \A b \in View(g.TxRx, g.Mode, w) \cap Bandwidths :
                pos[b] = BandwidthEntry(w) /\ pos[b] = old[b]
    /\ \A t \in Rated : Contains(q, t) => HarmlessBy(g, q, t)
    /\ \A b \in Bandwidths : Contains(q, b) /\ pos[b] # 0 =>
          b \in View(g.TxRx, g.Mode, w)
          \/ (g.Mode = ModeFor(b) /\ g.TxRx # "unmodulated" /\ Alone(q, b))

LEMMA BandwidthEntries ==
    ASSUME screen \in Screens, NEW w \in Widths, NEW b \in Bandwidths,
           NEW m, m = ModeFor(b), Known(m, w), w = "20" \/ b \in WidthSpins, b \in Panel
    PROVE  /\ BandwidthEntry(w) \in Nat /\ BandwidthEntry(w) < Len(Entries[b])
           /\ Entry(b, BandwidthEntry(w)) = w
           /\ BandwidthEntry(w) = 0 <=> w = "20"
<1>1. b \in Spinners /\ Usual(Entries) /\ (~Ac(screen) => UsualAbgn(Entries))
  BY MessageKinds, EntriesUsual
<1>2. b = "Bandwidth" => ~Ac(screen)
  BY DEF Panel
<1>3. CASE b = "BandwidthN"
  <2>1. Entries[b] = <<"20", "40">> /\ w \in {"20", "40"}
    BY <1>1, <1>3 DEF Usual, Known, ModeFor, Wide
  <2> QED BY <2>1 DEF BandwidthEntry, Entry
<1>4. CASE b = "BandwidthAC"
  <2>1. Entries[b] = <<"20", "40", "80">>
    BY <1>1, <1>4 DEF Usual
  <2> QED BY <2>1 DEF BandwidthEntry, Entry, Widths
<1>5. CASE b = "Bandwidth"
  <2>1. Entries[b] = <<"20", "40">> /\ w = "20"
    BY <1>1, <1>2, <1>5 DEF UsualAbgn, WidthSpins
  <2> QED BY <2>1 DEF BandwidthEntry, Entry
<1> QED BY <1>3, <1>4, <1>5 DEF Bandwidths


(* updateSettings keeps the invariant: what it shows it sets.               *)
LEMMA UpdateKeeps ==
    ASSUME Inv, screen' = screen, queue # <<>>, Head(queue) # "layout",
           NEW g, NEW w, Prepared(g, w, Tail(queue)), UpdateSettings(g, w, Tail(queue))
    PROVE  Inv'
<1> DEFINE rest == Tail(queue)
           view == View(g.TxRx, g.Mode, w)
<1>1. /\ screen \in Screens /\ IsFields(g) /\ w \in Widths /\ Known(g.Mode, w)
      /\ ~Ac(screen) => w = "20"
  BY DEF Inv, Typed, Prepared
<1>2. /\ Entries' = Entries /\ Panel' = Panel /\ ScreenModes' = ScreenModes /\ Messages' = Messages
      /\ \A x, m, v : View(x, m, v)' = View(x, m, v)
      /\ \A v : View(fields.TxRx, fields.Mode, v)' = View(fields'.TxRx, fields'.Mode, v)
      /\ View("tx", fields.Mode, "20")' = View("tx", fields'.Mode, "20")
  BY SameScreen
<1>3. /\ Fitting(view, g.TxRx, g.Mode, w) /\ view \subseteq Panel \ {"Sideband"}
      /\ "Channel5G40" \in view => Ac(screen)
      /\ g.TxRx # "unmodulated" /\ g.Mode = "n" /\ ~Ac(screen) /\ screen # "BgnSiso" =>
             "Bandwidth" \in view
  BY <1>1, ViewFits DEF IsFields
<1>4. /\ shown' = view /\ old' = old /\ fields' = Reset(g, view, w) /\ RequestLayout(rest)
      /\ pos' = [s \in Spinners |-> IF s \in view \cap Bandwidths THEN BandwidthEntry(w)
                                    ELSE IF s \in view \ {"TxRx", "Mode"} THEN 0 ELSE pos[s]]
  BY DEF UpdateSettings
<1>5. /\ rest \in Seq(Messages) /\ Orderly(rest)
      /\ \A e : Contains(rest, e) => Told(e)
  BY Taken DEF Inv, Typed
<1>6. /\ queue' \in Seq(Messages) /\ Orderly(queue')
      /\ \A e : Contains(queue', e) <=> Contains(rest, e) \/ e = "layout"
      /\ \A b \in Spinners : Alone(rest, b) => Alone(queue', b)
  BY <1>4, <1>5, LayoutRequested
<1>7. /\ \A s \in Spinners : Told(s)' <=> Contains(rest, s)
      /\ Told("layout")'
  BY <1>6, MessageKinds DEF Told
<1>8. /\ fields' = [f \in FieldNames |-> fields'[f]]
      /\ \A f \in {"TxRx", "Mode", "GuardInterval"} : fields'[f] = g[f]
      /\ \A s \in view \cap Channels : fields'["channel"] = FirstChannel(s)
      /\ \A s \in view \cap Rates : fields'["rate"] = Entry(s, 0)
      /\ \A s \in view \cap Powers : fields'["power"] = Entry(s, 0)
      /\ fields'["bandwidth"] = IF view \cap Bandwidths = {} THEN g["bandwidth"] ELSE w
      /\ fields'["Sideband"] = IF "Channel5G40" \in view THEN "l" ELSE g["Sideband"]
      /\ fields'["Antenna"] = "0"
  BY <1>1, <1>3, <1>4, ResetFits DEF IsFields, Fitting
<1>9. fields'.TxRx = g.TxRx /\ fields'.Mode = g.Mode /\ fields'.bandwidth = fields'["bandwidth"]
  BY <1>8
<1>10. \A b \in view \cap Bandwidths :
          /\ pos'[b] = BandwidthEntry(w) /\ pos'[b] \in Nat /\ pos'[b] < Len(Entries[b])
          /\ Entry(b, pos'[b]) = w /\ (pos'[b] = 0 <=> w = "20") /\ g.Mode = ModeFor(b)
  <2> SUFFICES ASSUME NEW b \in view \cap Bandwidths
               PROVE  /\ pos'[b] = BandwidthEntry(w) /\ pos'[b] \in Nat
                      /\ pos'[b] < Len(Entries[b])
                      /\ Entry(b, pos'[b]) = w /\ (pos'[b] = 0 <=> w = "20")
                      /\ g.Mode = ModeFor(b)
    OBVIOUS
  <2>1. b \in Spinners /\ b \in Panel /\ g.Mode = ModeFor(b) /\ pos'[b] = BandwidthEntry(w)
    BY <1>3, <1>4, MessageKinds DEF Fitting
  <2>2. w = "20" \/ b \in WidthSpins
    BY <1>1, <2>1 DEF Bandwidths, WidthSpins, Panel
  <2> QED BY <1>1, <2>1, <2>2, BandwidthEntries
<1>11. \A s \in Spinners \ Bandwidths :
          pos'[s] = IF s \in view \ {"TxRx", "Mode"} THEN 0 ELSE pos[s]
  BY <1>4
<1>12. \A s \in Spinners \ view : pos'[s] = pos[s]
  BY <1>4
<1> HIDE DEF rest, view
<1>13. Typed'
  <2>1. pos' \in [Spinners -> Nat] /\ \A s \in Spinners : pos'[s] < Len(Entries[s])
    <3>1. \A s \in Spinners : Len(Entries[s]) \in 1..5 /\ pos[s] \in Nat /\ pos[s] < Len(Entries[s])
      BY <1>1, EntriesUsual DEF Inv, Typed, Usual
    <3>2. pos' = [s \in Spinners |-> pos'[s]]
      BY <1>4
    <3>3. \A s \in Spinners : pos'[s] \in Nat /\ pos'[s] < Len(Entries[s])
      BY <1>10, <1>11, <1>12, <3>1
    <3> QED BY <3>2, <3>3
  <2>2. IsFields(fields')
    BY <1>1, <1>8, <1>9 DEF IsFields
  <2>3. IsFields(fields)'
    BY <2>2, <1>2 DEF IsFields
  <2> QED BY <1>1, <1>2, <1>3, <1>4, <1>6, <2>1, <2>3 DEF Typed, Inv
<1>14. Passes'
  <2>1. \A s \in {"TxRx", "Mode"} : s \in Spinners \ Bandwidths /\ pos'[s] = pos[s]
    BY <1>11, SpinnerNames DEF Names, Bandwidths
  <2>2. \A s \in {"TxRx", "Mode"} : pos'[s] # old'[s] => old'[s] = -1
    BY <1>4, <2>1 DEF Inv, Passes, Pending
  <2>3. ASSUME NEW b \in Bandwidths
        PROVE  /\ pos'[b] # 0 => pos'[b] = old'[b]
               /\ Told(b)' /\ pos'[b] # 0 => /\ fields'.Mode = ModeFor(b)
                                             /\ fields'.TxRx # "unmodulated"
                                             /\ Alone(queue', b)
    <3>1. b \in Spinners
      BY SpinnerNames DEF Names, Bandwidths
    <3>2. CASE b \in view
      <4>1. pos'[b] # 0 => w # "20"
        BY <1>10, <3>2
      <4>2. w # "20" => pos[b] = BandwidthEntry(w) /\ pos[b] = old[b] /\ ~Contains(rest, b)
        BY <3>1, <3>2 DEF Prepared, rest, view
      <4> QED BY <1>4, <1>7, <1>10, <3>1, <3>2, <4>1, <4>2
    <3>3. CASE b \notin view
      <4>1. pos'[b] = pos[b] /\ (Told(b)' <=> Contains(rest, b))
        BY <1>7, <1>12, <3>1, <3>3
      <4>2. pos[b] # 0 => pos[b] = old[b]
        BY DEF Inv, Passes, Pending
      <4>3. Contains(rest, b) /\ pos[b] # 0 =>
               g.Mode = ModeFor(b) /\ g.TxRx # "unmodulated" /\ Alone(rest, b)
        BY <3>3 DEF Prepared, rest, view
      <4> QED BY <1>4, <1>6, <1>9, <3>1, <4>1, <4>2, <4>3
    <3> QED BY <3>2, <3>3
  <2> QED BY <1>7, <2>2, <2>3 DEF Passes
<1>15. Fresh'
  <2>1. \A s \in {"TxRx", "Mode"} : pos'[s] = pos[s]
    BY <1>11, SpinnerNames DEF Names, Bandwidths
  <2> QED BY <1>4, <2>1 DEF Inv, Fresh
<1>16. Kept'
  <2>1. \A s, p : Entry(s, p)' = Entry(s, p)
    BY <1>2 DEF Entry
  <2>2. ASSUME NEW s \in {"TxRx", "Mode", "Sideband"} \cap Panel
        PROVE  old'[s] = -1 \/ Told(s)' \/ fields'[s] = Entry(s, old'[s])
               \/ fields'[s] = Entry(s, pos'[s])
    <3>1. s \in Spinners \ Bandwidths
      BY SpinnerNames DEF Names, Bandwidths
    <3>2. pos'[s] = pos[s]
      BY <1>3, <1>11, <3>1
    <3>3. s = "Sideband" => ~Ac(screen)
      BY DEF Panel
    <3>4. fields'[s] = g[s]
      BY <1>3, <1>8, <3>3
    <3>5. old[s] = -1 \/ Contains(rest, s) \/ g[s] = Entry(s, old[s]) \/ g[s] = Entry(s, pos[s])
      BY DEF Prepared, KeptBy, rest
    <3> QED BY <1>4, <1>7, <3>1, <3>2, <3>4, <3>5
  <2> DEFINE G == "GuardInterval"
  <2>3. G \in Spinners \ Bandwidths /\ (pos'[G] = 0 \/ pos'[G] = pos[G]) /\ fields'[G] = g[G]
    BY <1>8, <1>11, SpinnerNames DEF Names, Bandwidths
  <2>4. /\ old[G] = -1 \/ Contains(rest, G) \/ g[G] = Entry(G, old[G])
           \/ (pos[G] = 0 /\ g[G] = Entry(G, 0))
        /\ Contains(rest, G) => pos[G] \in {0, old[G]}
    BY DEF Prepared, KeptBy, rest
  <2>5. Told(G)' <=> Contains(rest, G)
    BY <1>7, <2>3
  <2> HIDE DEF G
  <2>6. /\ \/ old'[G] = -1 \/ Told(G)'
           \/ fields'[G] = Entry(G, old'[G])
           \/ pos'[G] = 0 /\ fields'[G] = Entry(G, 0)
        /\ Told(G)' => pos'[G] \in {0, old'[G]}
    BY <1>4, <2>3, <2>4, <2>5
  <2> QED BY <1>2, <2>1, <2>2, <2>6 DEF Kept, G, Entry
<1>17. Seen'
  <2>1. shown' \ {"Sideband"} = view
    BY <1>3, <1>4
  <2>2. \A b \in shown' \cap WidthSpins : fields'.bandwidth = w /\ pos'[b] = BandwidthEntry(w)
    BY <1>4, <1>8, <1>9, <1>10 DEF WidthSpins, Bandwidths
  <2>3. ShownFor(w)'
    BY <1>1, <1>2, <1>9, <2>1, <2>2 DEF ShownFor, view
  <2>4. ~Wide(g.Mode) \/ screen = "BgnSiso" => fields'.bandwidth = "20"
    <3>1. ~Wide(g.Mode) \/ screen = "BgnSiso" => g.bandwidth = "20" /\ view \cap Bandwidths = {}
      <4>1. ~Wide(g.Mode) => view \cap Bandwidths = {}
        BY <1>3 DEF Fitting, Wide, ModeFor
      <4>2. screen = "BgnSiso" => view \cap Bandwidths = {}
        BY <1>3 DEF Panel, Ac, Bandwidths
      <4> QED BY <4>1, <4>2 DEF Prepared
    <3> QED BY <1>8, <1>9, <3>1
  <2>5. "Mode" \in view /\ ~Ac(screen) => fields'.bandwidth = "20"
    <3>1. CASE g.Mode = "n" /\ screen # "BgnSiso"
      <4>1. "Mode" \in view /\ ~Ac(screen) => "Bandwidth" \in view \cap Bandwidths /\ w = "20"
        BY <1>1, <1>3, <3>1 DEF Fitting, Bandwidths
      <4> QED BY <1>8, <1>9, <4>1
    <3>2. CASE g.Mode # "n" /\ ~Ac(screen)
      BY <1>1, <2>4, <3>2 DEF IsFields, ScreenModes, Wide
    <3> QED BY <2>4, <3>1, <3>2
  <2>6. "Sideband" \notin shown' /\ fields'.bandwidth = "20" => fields'.bandwidth # "40"
    BY <1>3, <1>4
  <2> QED BY <1>1, <1>3, <1>4, <1>9, <2>3, <2>4, <2>5, <2>6 DEF Seen
<1>18. Stale'
  <2> SUFFICES ASSUME NEW t \in Rated, Told(t)' PROVE Harmless(t)'
    BY DEF Stale
  <2>1. t \in Spinners
    BY SpinnerNames DEF Names, Rated, Channels, Rates, Powers
  <2>2. Contains(rest, t)
    BY <1>7, <2>1
  <2>3. w = "20" /\ HarmlessBy(g, rest, t)
    BY <2>1, <2>2 DEF Prepared, rest
  <2>4. \A v : Safe(v, t)' <=> Safe(v, t)
    BY <1>4 DEF Safe
  <2>5. Safe(View(fields.TxRx, fields.Mode, "20"), t)'
    BY <1>2, <1>4, <1>9, <2>3 DEF Safe, HarmlessBy
  <2>6. Told("TxRx")' => Selected("TxRx")' = "tx" /\ Safe(View("tx", fields.Mode, "20"), t)'
    <3>1. Told("TxRx")' => Selected("TxRx") = "tx" /\ Safe(View("tx", g.Mode, "20"), t)
      BY <1>7, <2>3, SpinnerNames DEF HarmlessBy, Names
    <3>2. Selected("TxRx")' = Selected("TxRx")
      BY <1>2, <1>11, SpinnerNames DEF Selected, Names, Bandwidths
    <3> QED BY <1>2, <1>4, <1>9, <3>1, <3>2 DEF Safe
  <2>7. Told("Mode")' => /\ Selected("Mode")' = "b" /\ fields'.TxRx # "unmodulated"
                         /\ \A x \in {"tx", "rx"} : Safe(View(x, "b", "20"), t)'
    <3>1. Told("Mode")' => /\ Selected("Mode") = "b" /\ g.TxRx # "unmodulated"
                           /\ \A x \in {"tx", "rx"} : Safe(View(x, "b", "20"), t)
      BY <1>7, <2>3, SpinnerNames DEF HarmlessBy, Names
    <3>2. Selected("Mode")' = Selected("Mode")
      BY <1>2, <1>11, SpinnerNames DEF Selected, Names, Bandwidths
    <3> QED BY <1>2, <1>4, <1>9, <3>1, <3>2 DEF Safe
  <2>8. ASSUME NEW s \in shown', Rival(s, t)
        PROVE  \/ pos'[s] # old'[s]
               \/ \E b \in shown' \cap WidthSpins : pos'[b] # old'[b]
    <3>1. s \in view /\ Safe(view, t)
      BY <1>4, <2>3, <2>8 DEF HarmlessBy, view
    <3>2. CASE old[s] # 0
      <4>1. s \in Spinners \ Bandwidths /\ s \notin {"TxRx", "Mode"}
        BY <2>8, SpinnerNames DEF Rival, Names, Channels, Rates, Powers, Bandwidths
      <4> QED BY <1>4, <1>11, <3>1, <3>2, <4>1
    <3>3. CASE \E b \in view \cap WidthSpins : old[b] # 0
      <4>1. \A b \in view \cap WidthSpins : pos'[b] = 0
        BY <1>10, <2>3 DEF WidthSpins, Bandwidths
      <4> QED BY <1>4, <3>3, <4>1
    <3> QED BY <2>8, <3>1, <3>2, <3>3 DEF Safe
  <2>9. \A s \in shown' : Rival(s, t) => pos'[s] # old'[s] \/ Resetting'
    BY <2>8 DEF Resetting
  <2> QED BY <2>5, <2>6, <2>7, <2>9 DEF Harmless
<1>19. Repaired'
  <2> SUFFICES ASSUME NEW s \in view \ {"TxRx", "Mode", "Sideband", "GuardInterval"}
               PROVE  Right(s)'
    BY <1>4 DEF Repaired
  <2>1. s \in Spinners /\ Selected(s)' = Entry(s, pos'[s])
    BY <1>2, <1>3, MessageKinds DEF Selected, Entry
  <2>2. CASE s \in Channels
    <3>1. pos'[s] = 0 /\ fields'["channel"] = FirstChannel(s) /\ Field(s) = "channel"
      BY <1>8, <1>11, <2>1, <2>2, FieldKinds DEF Channels, Bandwidths
    <3>2. s = "Channel5G40" => fields'["Sideband"] = SidebandOf(fields'["channel"])
      BY <1>8, <3>1 DEF SidebandOf, FirstChannel
    <3> QED BY <1>8, <2>2, <3>1, <3>2 DEF Right
  <2>3. CASE s \notin Channels
    <3>1. s # "Channel5G40"
      BY <2>3 DEF Channels
    <3>2. fields'[Field(s)] = Entry(s, pos'[s])
      <4>1. CASE s \in Bandwidths
        <5>1. Field(s) = "bandwidth" /\ view \cap Bandwidths # {}
          BY <2>1, <4>1, FieldKinds
        <5> QED BY <1>8, <1>10, <4>1, <5>1
      <4>2. CASE s \in Rates \cup Powers
        <5>1. pos'[s] = 0
          BY <1>11, <2>1, <4>2 DEF Rates, Powers, Bandwidths
        <5> QED BY <1>8, <2>1, <4>2, <5>1, FieldKinds
      <4>3. CASE s \notin Rates \cup Powers \cup Bandwidths
        <5>1. s = "Antenna"
          BY <2>1, <2>3, <4>3, SpinnerNames DEF Names, Channels, Rates, Powers, Bandwidths
        <5>2. pos'[s] = 0 /\ Field(s) = "Antenna"
          BY <1>11, <2>1, <4>3, <5>1 DEF Field, Channels, Rates, Powers, Bandwidths
        <5>3. Entry(s, 0) = "0"
          <6>1. Entries[s] = <<"0", "1">>
            BY <1>1, <5>1, EntriesUsual DEF Usual
          <6> QED BY <6>1 DEF Entry
        <5> QED BY <1>8, <5>2, <5>3
      <4> QED BY <4>1, <4>2, <4>3
    <3> QED BY <2>1, <2>3, <3>1, <3>2 DEF Right
  <2> QED BY <2>2, <2>3
<1> QED BY <1>13, <1>14, <1>15, <1>16, <1>17, <1>18, <1>19 DEF Inv


-----------------------------------------------------------------------------
(* The handlers that call updateSettings.                                   *)
LEMMA RestTells ==
    ASSUME Inv, queue # <<>>
    PROVE  /\ screen \in Screens /\ IsFields(fields) /\ Head(queue) \in Messages
           /\ \A e : Told(e) <=> e = Head(queue) \/ Contains(Tail(queue), e)
           /\ \A b \in Bandwidths : Told(b) /\ pos[b] # 0 =>
                 /\ fields["Mode"] = ModeFor(b) /\ fields["TxRx"] # "unmodulated"
                 /\ Head(queue) = b => \A s \in Spinners : ~Contains(Tail(queue), s)
                 /\ Head(queue) # b => Head(queue) \notin Spinners /\ Alone(Tail(queue), b)
           /\ "20" \in Widths /\ \A m : Known(m, "20")
           /\ ~Wide(fields["Mode"]) \/ screen = "BgnSiso" => fields["bandwidth"] = "20"
<1>1. queue \in Seq(Messages) /\ Orderly(queue)
  BY DEF Inv, Typed
<1>2. \A b \in Bandwidths : b \in Spinners
  BY SpinnerNames DEF Names, Bandwidths
<1>3. "20" \in Widths /\ \A m : Known(m, "20")
  BY DEF Widths, Known
<1>4. /\ Head(queue) \in Messages
      /\ \A e : Told(e) <=> e = Head(queue) \/ Contains(Tail(queue), e)
      /\ \A b \in Spinners : Alone(queue, b) =>
            /\ Head(queue) = b => \A s \in Spinners : ~Contains(Tail(queue), s)
            /\ Head(queue) # b => Head(queue) \notin Spinners /\ Alone(Tail(queue), b)
  BY <1>1, Taken
<1>5. \A b \in Bandwidths : Told(b) /\ pos[b] # 0 =>
         fields.Mode = ModeFor(b) /\ fields.TxRx # "unmodulated" /\ Alone(queue, b)
  BY DEF Inv, Passes
<1> QED BY <1>2, <1>3, <1>4, <1>5 DEF Inv, Typed, Seen

LEMMA FtmOnKeeps ==
    ASSUME Inv, screen' = screen, queue # <<>>, Head(queue) = "ftm",
           UpdateSettings(fields, "20", Tail(queue))
    PROVE  Inv'
<1> DEFINE rest == Tail(queue)
<1>1. \A e : e # "ftm" => (Told(e) <=> Contains(rest, e))
  BY RestTells
<1>2. KeptBy(fields, rest)
  BY <1>1 DEF Inv, Kept, KeptBy
<1>3. \A t \in Rated : Contains(rest, t) => HarmlessBy(fields, rest, t)
  <2>1. \A t \in Rated : Contains(rest, t) => Harmless(t)
    BY <1>1 DEF Inv, Stale, Rated, Channels, Rates, Powers
  <2> QED BY <1>1, <2>1 DEF Harmless, HarmlessBy
<1>4. \A b \in Bandwidths : Contains(rest, b) /\ pos[b] # 0 =>
         fields.Mode = ModeFor(b) /\ fields.TxRx # "unmodulated" /\ Alone(rest, b)
  BY RestTells DEF Bandwidths
<1>5. Prepared(fields, "20", rest)
  BY <1>2, <1>3, <1>4, RestTells DEF Prepared
<1> QED BY <1>5, UpdateKeeps

LEMMA ChosenTxRxMode ==
    ASSUME Inv
    PROVE  Selected("TxRx") \in Directions /\ Selected("Mode") \in ScreenModes
<1>1. {"TxRx", "Mode"} \subseteq Spinners
  BY SpinnerNames DEF Names
<1>2. /\ Usual(Entries) /\ (~Ac(screen) => UsualAbgn(Entries))
      /\ (screen = "BgnSiso" => Entries["Mode"] = <<"b", "g", "n">>)
  BY EntriesUsual DEF Inv, Typed
<1>3. /\ pos["TxRx"] \in Nat /\ pos["TxRx"] < Len(Entries["TxRx"])
      /\ pos["Mode"] \in Nat /\ pos["Mode"] < Len(Entries["Mode"])
  BY <1>1 DEF Inv, Typed
<1>4. Selected("TxRx") \in Directions
  <2>1. Entries["TxRx"] = <<"tx", "rx", "unmodulated">>
    BY <1>2 DEF Usual
  <2> QED BY <1>3, <2>1 DEF Selected, Directions
<1>5. Selected("Mode") \in ScreenModes
  <2>1. CASE Entries["Mode"] = <<"b", "g", "n", "a", "ac">>
    <3>1. Ac(screen)
      BY <1>2, <2>1 DEF UsualAbgn
    <3> QED BY <1>3, <2>1, <3>1 DEF Selected, ScreenModes
  <2>2. CASE Entries["Mode"] = <<"b", "g", "n", "a">>
    <3>1. screen # "BgnSiso"
      BY <1>2, <2>2
    <3> QED BY <1>3, <2>2, <3>1 DEF Selected, ScreenModes
  <2>3. CASE Entries["Mode"] = <<"b", "g", "n">>
    BY <1>3, <2>3 DEF Selected, ScreenModes
  <2> QED BY <1>2, <2>1, <2>2, <2>3 DEF Usual, ModeLists
<1> QED BY <1>4, <1>5


LEMMA TxRxKeeps ==
    ASSUME Inv, screen' = screen, queue # <<>>, Head(queue) = "TxRx",
           UpdateSettings([fields EXCEPT !["TxRx"] = Selected("TxRx")], "20", Tail(queue))
    PROVE  Inv'
<1> DEFINE rest == Tail(queue)
           v == Selected("TxRx")
           g == [fields EXCEPT !["TxRx"] = v]
<1>1. /\ g = [f \in FieldNames |-> g[f]] /\ g["TxRx"] = v
      /\ \A f \in FieldNames \ {"TxRx"} : g[f] = fields[f]
      /\ g["Mode"] = fields["Mode"] /\ g["bandwidth"] = fields["bandwidth"]
  BY RestTells DEF IsFields, FieldNames
<1>2. v \in Directions /\ IsFields(g)
  BY <1>1, RestTells, ChosenTxRxMode DEF IsFields
<1>3. \A e : e # "TxRx" => (Told(e) <=> Contains(rest, e))
  BY RestTells
<1>4. v = Entry("TxRx", pos["TxRx"])
  BY DEF Selected, Entry
<1>5. Told("TxRx") /\ (Contains(rest, "TxRx") => Told("TxRx"))
  BY RestTells
<1> HIDE DEF g, v, rest
<1>6. KeptBy(g, rest)
  BY <1>1, <1>3, <1>4 DEF Inv, Kept, KeptBy, FieldNames
<1>7. ASSUME NEW t \in Rated, Contains(rest, t) PROVE HarmlessBy(g, rest, t)
  <2>1. Harmless(t)
    BY <1>3, <1>7 DEF Inv, Stale, Rated, Channels, Rates, Powers
  <2>2. v = "tx" /\ g["TxRx"] = "tx"
    BY <1>1, <1>5, <2>1 DEF Harmless, v
  <2>3. Safe(View(g.TxRx, g.Mode, "20"), t) /\ Selected("TxRx") = "tx"
        /\ Safe(View("tx", g.Mode, "20"), t)
    BY <1>1, <1>5, <2>1, <2>2 DEF Harmless
  <2>4. Contains(rest, "Mode") => Selected("Mode") = "b" /\ \A x \in {"tx", "rx"} : Safe(View(x, "b", "20"), t)
    BY <1>3, <2>1 DEF Harmless
  <2> QED BY <2>2, <2>3, <2>4 DEF HarmlessBy
<1>8. \A b \in Bandwidths : Contains(rest, b) /\ pos[b] # 0 => FALSE
  <2>1. "TxRx" \in Spinners /\ "TxRx" \notin Bandwidths
    BY SpinnerNames DEF Names, Bandwidths
  <2> QED BY <1>3, <2>1, RestTells
<1>9. Prepared(g, "20", rest)
  BY <1>1, <1>2, <1>6, <1>7, <1>8, RestTells DEF Prepared
<1> QED BY <1>9, UpdateKeeps DEF g, v, rest

LEMMA ModeKeeps ==
    ASSUME Inv, screen' = screen, queue # <<>>, Head(queue) = "Mode", NEW g,
           LET f == [fields EXCEPT !["Mode"] = Selected("Mode")]
           IN  g = IF Selected("Mode") = "n" THEN f ELSE [f EXCEPT !["bandwidth"] = "20"],
           UpdateSettings(g, "20", Tail(queue))
    PROVE  Inv'
<1> DEFINE rest == Tail(queue)
           v == Selected("Mode")
<1>1. /\ g = [f \in FieldNames |-> g[f]] /\ g["Mode"] = v
      /\ \A f \in FieldNames \ {"Mode", "bandwidth"} : g[f] = fields[f]
      /\ g["TxRx"] = fields["TxRx"]
      /\ g["bandwidth"] = IF v = "n" THEN fields["bandwidth"] ELSE "20"
  BY RestTells DEF IsFields, FieldNames
<1>2. v \in ScreenModes /\ IsFields(g)
  BY <1>1, RestTells, ChosenTxRxMode DEF IsFields
<1>3. \A e : e # "Mode" => (Told(e) <=> Contains(rest, e))
  BY RestTells
<1>4. v = Entry("Mode", pos["Mode"])
  BY DEF Selected, Entry
<1>5. Told("Mode") /\ (Contains(rest, "Mode") => Told("Mode"))
  BY RestTells
<1>6. ~Wide(v) \/ screen = "BgnSiso" => g["bandwidth"] = "20"
  <2>1. v # "n" \/ screen = "BgnSiso" => g["bandwidth"] = "20"
    BY <1>1, RestTells
  <2> QED BY <2>1 DEF Wide
<1> HIDE DEF v, rest
<1>7. KeptBy(g, rest)
  BY <1>1, <1>3, <1>4 DEF Inv, Kept, KeptBy, FieldNames
<1>8. ASSUME NEW t \in Rated, Contains(rest, t) PROVE HarmlessBy(g, rest, t)
  <2>1. Harmless(t)
    BY <1>3, <1>8 DEF Inv, Stale, Rated, Channels, Rates, Powers
  <2>2. v = "b" /\ g["Mode"] = "b" /\ g["TxRx"] \in {"tx", "rx"}
        /\ \A x \in {"tx", "rx"} : Safe(View(x, "b", "20"), t)
    BY <1>1, <1>2, <1>5, <2>1 DEF Harmless, v, IsFields, Directions
  <2>3. Contains(rest, "TxRx") => Selected("TxRx") = "tx"
    BY <1>3, <2>1 DEF Harmless
  <2> QED BY <2>2, <2>3 DEF HarmlessBy, v
<1>9. \A b \in Bandwidths : Contains(rest, b) /\ pos[b] # 0 => FALSE
  <2>1. "Mode" \in Spinners /\ "Mode" \notin Bandwidths
    BY SpinnerNames DEF Names, Bandwidths
  <2> QED BY <1>3, <2>1, RestTells
<1>10. Prepared(g, "20", rest)
  BY <1>1, <1>2, <1>6, <1>7, <1>8, <1>9, RestTells DEF Prepared
<1> QED BY <1>10, UpdateKeeps DEF rest

LEMMA WidthKeeps ==
    ASSUME Inv, screen' = screen, queue # <<>>, NEW b \in WidthSpins, Head(queue) = b,
           UpdateSettings([fields EXCEPT !["bandwidth"] = Selected(b)], Selected(b), Tail(queue))
    PROVE  Inv'
<1> DEFINE rest == Tail(queue)
           v == Selected(b)
           g == [fields EXCEPT !["bandwidth"] = v]
<1>1. /\ g = [f \in FieldNames |-> g[f]] /\ g["bandwidth"] = v
      /\ \A f \in FieldNames \ {"bandwidth"} : g[f] = fields[f]
      /\ g["TxRx"] = fields["TxRx"] /\ g["Mode"] = fields["Mode"]
  BY RestTells DEF IsFields, FieldNames
<1>2. IsFields(g)
  BY <1>1, RestTells DEF IsFields
<1>3. /\ \A e : e # b => (Told(e) <=> Contains(rest, e))
      /\ Told(b) /\ (Contains(rest, b) => Told(b))
  BY RestTells
<1>4. /\ b \in Spinners /\ b \in Bandwidths /\ b \in Panel
      /\ b \notin {"TxRx", "Mode", "Sideband", "GuardInterval"} \cup Rated
  <2>1. b \in Messages
    BY RestTells
  <2> QED BY <2>1, MessageKinds, SpinnerNames
       DEF WidthSpins, Messages, Buttons, Names, Bandwidths, Rated, Channels, Rates, Powers
<1>5. Ac(screen) /\ screen # "BgnSiso"
  BY <1>4 DEF Panel, WidthSpins, Ac
<1>6. /\ v \in Widths /\ Known(ModeFor(b), v) /\ pos[b] = BandwidthEntry(v)
      /\ pos[b] = 0 <=> v = "20"
  <2>1. /\ Usual(Entries) /\ pos[b] \in Nat /\ pos[b] < Len(Entries[b])
    BY <1>4, EntriesUsual, RestTells DEF Inv, Typed
  <2>2. CASE b = "BandwidthN"
    <3>1. Entries[b] = <<"20", "40">>
      BY <2>1, <2>2 DEF Usual
    <3> QED BY <2>1, <2>2, <3>1 DEF Selected, Widths, Known, ModeFor, BandwidthEntry
  <2>3. CASE b = "BandwidthAC"
    <3>1. Entries[b] = <<"20", "40", "80">>
      BY <2>1, <2>3 DEF Usual
    <3> QED BY <2>1, <2>3, <3>1 DEF Selected, Widths, Known, ModeFor, BandwidthEntry
  <2> QED BY <2>2, <2>3 DEF WidthSpins
<1> HIDE DEF v, g, rest
<1>7. KeptBy(g, rest)
  BY <1>1, <1>3, <1>4 DEF Inv, Kept, KeptBy, FieldNames
<1>8. ASSUME NEW t \in Rated, Contains(rest, t) PROVE HarmlessBy(g, rest, t)
  <2>1. Harmless(t)
    BY <1>3, <1>4, <1>8 DEF Inv, Stale
  <2> QED BY <1>1, <1>3, <1>4, <2>1 DEF Harmless, HarmlessBy
<1>9. \A s \in Bandwidths : Contains(rest, s) /\ pos[s] # 0 => FALSE
  BY <1>3, <1>4, RestTells DEF rest
<1>10. CASE v = "20"
  <2>1. ~Wide(g["Mode"]) \/ screen = "BgnSiso" => g["bandwidth"] = "20"
    BY <1>1, <1>10
  <2>2. Prepared(g, "20", rest)
    BY <1>2, <1>7, <1>8, <1>9, <2>1, RestTells DEF Prepared
  <2>3. UpdateSettings(g, "20", rest) /\ Head(queue) # "layout"
    BY <1>4, <1>10, MessageKinds DEF g, v, rest
  <2> QED BY <2>2, <2>3, UpdateKeeps DEF rest
<1>11. CASE v # "20"
  <2>1. /\ fields["Mode"] = ModeFor(b) /\ fields["TxRx"] # "unmodulated"
        /\ \A s \in Spinners : ~Contains(rest, s)
    BY <1>3, <1>4, <1>6, <1>11, RestTells DEF rest
  <2>2. Known(g["Mode"], v) /\ Wide(g["Mode"])
    BY <1>1, <1>6, <2>1 DEF ModeFor, Wide
  <2>3. \A s \in View(g.TxRx, g.Mode, v) \cap Bandwidths : s = b
    <3>1. g["TxRx"] \in Directions /\ g["Mode"] \in ScreenModes
      BY <1>2 DEF IsFields
    <3>2. /\ Fitting(View(g.TxRx, g.Mode, v), g.TxRx, g.Mode, v)
          /\ View(g.TxRx, g.Mode, v) \subseteq Panel
      BY <1>6, <2>2, <3>1, ViewFits, RestTells
    <3>3. \A s \in Panel \cap Bandwidths : s \in WidthSpins
      BY <1>5 DEF Panel, Bandwidths, WidthSpins
    <3>4. \A s \in View(g.TxRx, g.Mode, v) \cap Bandwidths : g["Mode"] = ModeFor(s)
      BY <3>2 DEF Fitting
    <3>5. \A s \in WidthSpins : ModeFor(s) = ModeFor(b) => s = b
      BY DEF WidthSpins, ModeFor
    <3> QED BY <1>1, <2>1, <3>2, <3>3, <3>4, <3>5
  <2>4. pos[b] = old[b]
    <3>1. b # "layout"
      BY <1>4, MessageKinds
    <3> QED BY <1>4, <1>6, <1>11, <3>1 DEF Inv, Passes, Pending
  <2>5. \A t \in Rated : ~Contains(rest, t)
    BY <2>1, SpinnerNames DEF Names, Rated, Channels, Rates, Powers
  <2>6. ~Wide(g.Mode) \/ screen = "BgnSiso" => FALSE
    BY <1>5, <2>2
  <2>7. Prepared(g, v, rest)
    <3>1. \A s \in View(g.TxRx, g.Mode, v) \cap Bandwidths :
             pos[s] = BandwidthEntry(v) /\ pos[s] = old[s]
      BY <1>6, <2>3, <2>4
    <3> QED BY <1>2, <1>5, <1>6, <1>7, <1>9, <2>1, <2>2, <2>5, <2>6, <3>1 DEF Prepared
  <2> QED BY <2>7, UpdateKeeps, <1>3, <1>4, MessageKinds DEF g, v, rest
<1> QED BY <1>10, <1>11


(* A step that changes no selection and shows nothing more.                 *)
LEMMA SameSelectionsKeep ==
    ASSUME Inv, UNCHANGED <<screen, fields, pos, old>>, shown' \in {shown, {}},
           queue' \in Seq(Messages), Orderly(queue'),
           \A s \in Spinners : Told(s)' <=> Told(s),
           \A s \in Spinners : Alone(queue, s) => Alone(queue', s),
           shown' = shown => /\ Told("layout") => Told("layout")'
                             /\ \A s : Pending(s) => Pending(s)',
           shown' = {} => \A s : ~Pending(s)
    PROVE  Inv'
<1>1. /\ Entries' = Entries /\ Panel' = Panel /\ ScreenModes' = ScreenModes /\ Messages' = Messages
      /\ \A x, m, v : View(x, m, v)' = View(x, m, v)
      /\ \A v : View(fields.TxRx, fields.Mode, v)' = View(fields.TxRx, fields.Mode, v)
      /\ View("tx", fields.Mode, "20")' = View("tx", fields.Mode, "20")
  BY SameScreen
<1>2. \A s \in {"TxRx", "Mode", "GuardInterval", "Sideband"} \cup Bandwidths \cup Rated : s \in Spinners
  BY SpinnerNames DEF Names, Bandwidths, Rated, Channels, Rates, Powers
<1>3. \A s \in WidthSpins : s \in Spinners
  BY <1>2 DEF WidthSpins, Bandwidths
<1>4. /\ \A s \in shown' : s \in shown /\ shown' = shown
      /\ \A s : Pending(s) => Pending(s)'
  OBVIOUS
<1>5. Typed'
  BY <1>1, <1>4 DEF Inv, Typed, IsFields
<1>6. Passes'
  <2>1. \A s \in shown' : pos'[s] # old'[s] => Told("layout")'
    BY <1>4 DEF Inv, Passes
  <2>2. \A s : Pending(s) => Pending(s)'
    BY <1>4
  <2> QED BY <1>2, <2>1, <2>2 DEF Inv, Passes
<1>7. Fresh'
  BY DEF Inv, Fresh
<1>8. Kept'
  BY <1>1, <1>2 DEF Inv, Kept, Entry
<1>9. Seen'
  <2>1. CASE shown' = shown
    <3>1. \A w : ShownFor(w) => ShownFor(w)'
      BY <1>1, <1>3, <1>4, <2>1 DEF ShownFor
    <3> QED BY <1>1, <2>1, <3>1 DEF Inv, Seen
  <2>2. CASE shown' = {}
    BY <2>2 DEF Inv, Seen
  <2> QED BY <2>1, <2>2
<1>10. ASSUME NEW s \in shown' PROVE Resetting => Resetting'
  <2>1. \A r \in Resetters : r \in Spinners
    BY <1>2, <1>3 DEF Resetters
  <2> QED BY <1>4, <1>10, <2>1 DEF Resetting
<1>11. Stale'
  <2> SUFFICES ASSUME NEW t \in Rated, Told(t)' PROVE Harmless(t)'
    BY DEF Stale
  <2>1. Harmless(t)
    BY <1>2 DEF Inv, Stale
  <2>2. (Told("TxRx")' <=> Told("TxRx")) /\ (Told("Mode")' <=> Told("Mode"))
    BY <1>2
  <2>3. /\ Selected("TxRx")' = Selected("TxRx") /\ Selected("Mode")' = Selected("Mode")
        /\ Safe(View(fields.TxRx, fields.Mode, "20"), t)' <=> Safe(View(fields.TxRx, fields.Mode, "20"), t)
        /\ Safe(View("tx", fields.Mode, "20"), t)' <=> Safe(View("tx", fields.Mode, "20"), t)
        /\ \A x : Safe(View(x, "b", "20"), t)' <=> Safe(View(x, "b", "20"), t)
    BY <1>1 DEF Selected, Safe
  <2>4. \A s \in shown' : Rival(s, t) => pos'[s] # old'[s] \/ Resetting'
    BY <1>4, <1>10, <2>1 DEF Harmless
  <2> QED BY <2>1, <2>2, <2>3, <2>4 DEF Harmless
<1>12. Repaired'
  <2> SUFFICES ASSUME NEW s \in shown' \ {"TxRx", "Mode", "Sideband", "GuardInterval"}
               PROVE  Right(s)' \/ pos'[s] # old'[s] \/ Told(s)' \/ Resetting'
    BY DEF Repaired
  <2>1. s \in Spinners
    BY <1>4, MessageKinds DEF Inv, Typed
  <2>2. Right(s) => Right(s)'
    BY <1>1 DEF Right, Selected
  <2>3. Right(s) \/ pos[s] # old[s] \/ Told(s) \/ Resetting
    BY <1>4 DEF Inv, Repaired
  <2> QED BY <1>10, <2>1, <2>2, <2>3
<1> QED BY <1>5, <1>6, <1>7, <1>8, <1>9, <1>11, <1>12 DEF Inv

LEMMA ClickKeeps ==
    ASSUME Inv, queue # <<>>, Head(queue) \in Buttons, UNCHANGED screen,
           \/ RemoveSettings(Tail(queue))
           \/ UNCHANGED <<fields, pos, old, shown>> /\ queue' = Tail(queue)
    PROVE  Inv'
<1>1. /\ Tail(queue) \in Seq(Messages) /\ Orderly(Tail(queue))
      /\ \A e : Told(e) <=> e = Head(queue) \/ Contains(Tail(queue), e)
      /\ \A b \in Spinners : Alone(queue, b) /\ Head(queue) # b => Alone(Tail(queue), b)
  BY Taken DEF Inv, Typed
<1>2. Head(queue) \notin Spinners /\ Head(queue) # "layout" /\ "layout" \notin Spinners
  BY MessageKinds
<1>3. /\ queue' \in Seq(Messages) /\ Orderly(queue')
      /\ \A e : Contains(queue', e) <=> Contains(Tail(queue), e) \/ (e = "layout" /\ Contains(queue', e))
      /\ \A b \in Spinners : Alone(Tail(queue), b) => Alone(queue', b)
  <2>1. CASE RemoveSettings(Tail(queue))
    BY <1>1, <2>1, LayoutRequested DEF RemoveSettings
  <2>2. CASE queue' = Tail(queue)
    BY <1>1, <2>2
  <2> QED BY <2>1, <2>2
<1>4. \A s \in Spinners : (Told(s)' <=> Told(s)) /\ (Alone(queue, s) => Alone(queue', s))
  BY <1>1, <1>2, <1>3 DEF Told
<1>5. Told("layout") => Told("layout")'
  BY <1>1, <1>2, <1>3, LayoutRequested DEF Told, RemoveSettings
<1>6. \A s : ~Pending(s)
  BY <1>2 DEF Pending
<1>7. UNCHANGED <<fields, pos, old>> /\ shown' \in {shown, {}}
  BY DEF RemoveSettings
<1> QED BY <1>3, <1>4, <1>5, <1>6, <1>7, SameSelectionsKeep


(* The other listeners: what a spinner tells is now its field, and who else *)
(* has that field is told after it.                                         *)
LEMMA ListenKeeps ==
    ASSUME Inv, screen' = screen, queue # <<>>, NEW s \in Spinners \ Resetters, Head(queue) = s,
           Listen(s, [fields EXCEPT ![Field(s)] = Selected(s)], Tail(queue))
    PROVE  Inv'
<1> DEFINE rest == Tail(queue)
           v == Selected(s)
           g == [fields EXCEPT ![Field(s)] = v]
<1>1. /\ Entries' = Entries /\ Panel' = Panel /\ ScreenModes' = ScreenModes /\ Messages' = Messages
      /\ \A x, m, u : View(x, m, u)' = View(x, m, u)
      /\ \A u : View(fields.TxRx, fields.Mode, u)' = View(fields'.TxRx, fields'.Mode, u)
      /\ View("tx", fields.Mode, "20")' = View("tx", fields'.Mode, "20")
  BY SameScreen
<1>2. /\ fields = [f \in FieldNames |-> fields[f]]
      /\ s \in Panel /\ Field(s) \in FieldNames \ {"TxRx", "Mode"} /\ s \notin WidthSpins
      /\ s \notin {"TxRx", "Mode"} /\ s # "layout"
  <2>1. s \in Panel
    BY RestTells, MessageKinds DEF Messages
  <2>2. s \notin {"TxRx", "Mode"} /\ s \notin WidthSpins
    BY DEF Resetters
  <2>3. Field(s) \notin {"TxRx", "Mode"}
    BY <2>2, FieldKinds DEF Rated, Channels, Rates, Powers, Bandwidths
  <2> QED BY <2>1, <2>2, <2>3, FieldKinds, MessageKinds, RestTells DEF IsFields
<1>3. /\ g = [f \in FieldNames |-> g[f]] /\ g[Field(s)] = v
      /\ \A f \in FieldNames \ {Field(s)} : g[f] = fields[f]
  BY <1>2
<1> HIDE DEF g
<1>4. /\ fields' = [f \in FieldNames |-> fields'[f]]
      /\ \A f \in FieldNames \ {"Sideband"} : fields'[f] = g[f]
      /\ s # "Channel5G40" => fields' = g
      /\ s = "Channel5G40" => fields'["Sideband"] = SidebandOf(fields'["channel"])
  <2>1. fields' = IF s = "Channel5G40" THEN [g EXCEPT !["Sideband"] = SidebandOf(g["channel"])]
                  ELSE g
    BY DEF Listen, g
  <2>2. {"channel", "Sideband"} \subseteq FieldNames
    BY DEF FieldNames
  <2> QED BY <1>3, <2>1, <2>2
<1>5. /\ pos' = pos /\ old' = old
      /\ shown' = IF s = "Bandwidth" THEN ShowSideband(fields'["bandwidth"]) ELSE shown
      /\ IF shown' = shown THEN queue' = rest ELSE RequestLayout(rest)
  <2>1. g["bandwidth"] = fields'["bandwidth"]
    BY <1>4 DEF FieldNames
  <2>2. shown' = IF s = "Bandwidth" THEN ShowSideband(g["bandwidth"]) ELSE shown
    BY DEF Listen, g
  <2>3. pos' = pos /\ old' = old /\ IF shown' = shown THEN queue' = rest ELSE RequestLayout(rest)
    BY Zenon DEF Listen
  <2> QED BY <2>1, <2>2, <2>3
<1>6. /\ fields'["TxRx"] = fields["TxRx"] /\ fields'["Mode"] = fields["Mode"]
      /\ \A f \in FieldNames \ {"Sideband", Field(s)} : fields'[f] = fields[f]
  BY <1>2, <1>3, <1>4 DEF FieldNames
<1>7. /\ rest \in Seq(Messages) /\ Orderly(rest)
      /\ \A e : Told(e) <=> e = s \/ Contains(rest, e)
  BY Taken DEF Inv, Typed
<1>8. /\ queue' \in Seq(Messages) /\ Orderly(queue')
      /\ \A e : Told(e)' <=> Contains(rest, e) \/ (e = "layout" /\ Told(e)')
      /\ shown' # shown => Told("layout")'
  <2>1. CASE shown' = shown
    BY <1>5, <1>7, <2>1 DEF Told
  <2>2. CASE shown' # shown
    BY <1>5, <1>7, <2>2, LayoutRequested DEF Told
  <2> QED BY <2>1, <2>2
<1>9. /\ Told(s)
      /\ \A e \in Spinners : /\ Told(e)' => Told(e)
                             /\ Told(e) /\ e # s => Told(e)'
  BY <1>7, <1>8, MessageKinds
<1>10. ~Ac(screen) => \A b \in shown' : b \notin WidthSpins
  BY <1>5 DEF Inv, Typed, Panel, ShowSideband, WidthSpins
<1>11. \A r : ~Pending(r)
  BY <1>2 DEF Pending
<1>12. /\ shown' \subseteq Panel /\ shown' \ {"Sideband"} = shown \ {"Sideband"}
       /\ s = "Bandwidth" => ~Ac(screen) /\ screen # "BgnSiso"
                             /\ (fields'["bandwidth"] = "40" <=> "Sideband" \in shown')
       /\ s # "Bandwidth" => shown' = shown
  <2>1. s = "Bandwidth" => ~Ac(screen) /\ screen # "BgnSiso" /\ "Sideband" \in Panel
    BY <1>2, SpinnerNames DEF Panel, Names
  <2>2. shown \subseteq Panel
    BY DEF Inv, Typed
  <2>3. s = "Bandwidth" => shown' = IF fields'["bandwidth"] = "40" THEN shown \cup {"Sideband"}
                                    ELSE shown \ {"Sideband"}
    BY <1>5 DEF ShowSideband
  <2> QED BY <1>5, <2>1, <2>2, <2>3
<1> HIDE DEF v, rest
<1>13. v = Entry(s, pos[s])
  BY DEF v, Selected, Entry
<1>14. \A f \in {"Sideband", "GuardInterval"} : f \in FieldNames /\ f \notin Rated \cup Bandwidths
  BY DEF FieldNames, Rated, Channels, Rates, Powers, Bandwidths
<1>15. {"TxRx", "Mode", "Sideband", "GuardInterval"} \subseteq Spinners
  BY SpinnerNames DEF Names
<1>16. Typed'
  <2>1. IsFields(fields)'
    BY <1>1, <1>4, <1>6 DEF Inv, Typed, IsFields
  <2> QED BY <1>1, <1>5, <1>8, <1>12, <2>1 DEF Inv, Typed
<1>17. Passes'
  <2>1. ASSUME NEW r \in shown', pos'[r] # old'[r] PROVE Told("layout")'
    <3>1. CASE shown' = shown
      <4>1. Told("layout")
        BY <1>5, <2>1, <3>1 DEF Inv, Passes
      <4> QED BY <1>2, <1>7, <1>8, <4>1
    <3> QED BY <1>8, <3>1
  <2>2. \A r \in {"TxRx", "Mode"} : pos'[r] # old'[r] => old'[r] = -1
    BY <1>5, <1>11 DEF Inv, Passes
  <2>3. \A b \in Bandwidths : /\ pos'[b] # 0 => pos'[b] = old'[b]
                              /\ Told(b)' /\ pos'[b] # 0 => FALSE
    <3>1. \A b \in Bandwidths : pos[b] # 0 => pos[b] = old[b]
      BY <1>11 DEF Inv, Passes
    <3>2. ASSUME NEW b \in Bandwidths, Told(b)', pos'[b] # 0 PROVE FALSE
      <4>1. b \in Spinners
        BY SpinnerNames DEF Names, Bandwidths
      <4>2. Told(b) /\ Contains(rest, b) /\ pos[b] # 0
        BY <1>5, <1>8, <1>9, <3>2, <4>1, MessageKinds
      <4> QED BY <4>1, <4>2, RestTells DEF rest
    <3> QED BY <1>5, <3>1, <3>2
  <2> QED BY <2>1, <2>2, <2>3 DEF Passes
<1>18. Fresh'
  BY <1>5 DEF Inv, Fresh
<1>19. Kept'
  <2>1. \A r, p : Entry(r, p)' = Entry(r, p)
    BY <1>1 DEF Entry
  <2>2. ASSUME NEW r \in {"TxRx", "Mode", "Sideband"} \cap Panel
        PROVE  old'[r] = -1 \/ Told(r)' \/ fields'[r] = Entry(r, old'[r])
               \/ fields'[r] = Entry(r, pos'[r])
    <3>1. CASE r = s
      <4>1. Field(s) = s /\ s # "Channel5G40"
        BY <1>2, <1>14, <3>1, FieldKinds DEF Rated, Channels
      <4>2. fields'[r] = Entry(r, pos'[r])
        BY <1>3, <1>4, <1>5, <1>13, <3>1, <4>1
      <4> QED BY <4>2
    <3>2. CASE r # s
      <4>1. r = "Sideband" => s # "Channel5G40" /\ Field(s) # r
        <5>1. s = "Channel5G40" => Ac(screen)
          BY <1>2 DEF Panel
        <5>2. r = "Sideband" => ~Ac(screen)
          BY DEF Panel
        <5>3. Field(s) = "Sideband" => s = "Sideband"
          BY FieldKinds DEF Rated, Bandwidths
        <5> QED BY <3>2, <5>1, <5>2, <5>3
      <4>2. fields'[r] = fields[r]
        BY <1>3, <1>4, <1>6, <1>14, <4>1
      <4>3. old[r] = -1 \/ Told(r) \/ fields[r] = Entry(r, old[r]) \/ fields[r] = Entry(r, pos[r])
        BY DEF Inv, Kept
      <4> QED BY <1>5, <1>9, <1>15, <3>2, <4>2, <4>3
    <3> QED BY <3>1, <3>2
  <2> DEFINE G == "GuardInterval"
  <2>3. /\ old[G] = -1 \/ Told(G) \/ fields[G] = Entry(G, old[G])
           \/ (pos[G] = 0 /\ fields[G] = Entry(G, 0))
        /\ Told(G) => pos[G] \in {0, old[G]}
    BY DEF Inv, Kept
  <2>4. G \in FieldNames \ {"Sideband"} /\ G \in Spinners /\ Field(G) = G
        /\ (Field(s) = G => s = G)
    BY <1>14, <1>15, FieldKinds DEF FieldNames, Rated, Bandwidths
  <2> HIDE DEF G
  <2>5. s = G => fields'[G] = Entry(G, pos[G])
    BY <1>3, <1>4, <1>13, <2>4
  <2>6. s # G => fields'[G] = fields[G]
    BY <1>6, <2>4
  <2>7. /\ old'[G] = -1 \/ Told(G)' \/ fields'[G] = Entry(G, old'[G])
           \/ (pos'[G] = 0 /\ fields'[G] = Entry(G, 0))
        /\ Told(G)' => pos'[G] \in {0, old'[G]}
    <3>1. CASE s = G
      <4>1. pos[G] \in {0, old[G]}
        BY <1>9, <2>3, <3>1
      <4> QED BY <1>5, <2>5, <3>1, <4>1
    <3>2. CASE s # G
      BY <1>5, <1>9, <2>3, <2>4, <2>6, <3>2
    <3> QED BY <3>1, <3>2
  <2> QED BY <1>1, <2>1, <2>2, <2>7 DEF Kept, G, Entry
<1>20. Field(s) = "bandwidth" => s = "Bandwidth"
  BY <1>2, FieldKinds DEF Bandwidths, WidthSpins
<1>21. Seen'
  <2>1. ASSUME NEW w \in Widths, ShownFor(w) PROVE ShownFor(w)'
    <3>1. ASSUME NEW b \in shown' \cap WidthSpins
          PROVE  /\ fields'.bandwidth = w
                 /\ pos'[b] = BandwidthEntry(w) \/ Told(b)'
      <4>1. b \in shown /\ b \in Spinners /\ b # s
        BY <1>2, <1>12, SpinnerNames DEF WidthSpins, Names
      <4>2. fields["bandwidth"] = w /\ (pos[b] = BandwidthEntry(w) \/ Told(b))
        BY <1>11, <2>1, <4>1 DEF ShownFor
      <4>3. Field(s) # "bandwidth"
        BY <1>10, <1>12, <1>20
      <4>4. fields'["bandwidth"] = fields["bandwidth"]
        BY <1>6, <4>3 DEF FieldNames
      <4> QED BY <1>5, <1>9, <4>1, <4>2, <4>4
    <3> QED BY <1>1, <1>6, <1>12, <2>1, <3>1 DEF ShownFor
  <2>2. ~Wide(fields'.Mode) \/ screen' = "BgnSiso" => fields'.bandwidth = "20"
    <3>1. CASE s = "Bandwidth"
      <4>1. s \in Bandwidths /\ Field(s) = "bandwidth" /\ ModeFor(s) = "n" /\ s \in Spinners
        BY <3>1, FieldKinds DEF Bandwidths, ModeFor
      <4>2. ~Wide(fields.Mode) => pos[s] = 0
        BY <1>9, <4>1 DEF Inv, Passes, Wide
      <4>3. Entry(s, 0) = "20"
        <5>1. Entries[s] = <<"20", "40">>
          BY <1>12, <3>1, RestTells, EntriesUsual DEF UsualAbgn
        <5> QED BY <5>1 DEF Entry
      <4>4. fields'["bandwidth"] = v
        BY <1>3, <1>4, <3>1, <4>1
      <4> QED BY <1>6, <1>12, <1>13, <3>1, <4>2, <4>3, <4>4
    <3>2. CASE s # "Bandwidth"
      <4>1. fields'["bandwidth"] = fields["bandwidth"]
        BY <1>6, <1>20, <3>2 DEF FieldNames
      <4> QED BY <1>6, <4>1 DEF Inv, Seen
    <3> QED BY <3>1, <3>2
  <2>3. "Mode" \in shown' /\ ~Ac(screen) => (fields'.bandwidth = "40" <=> "Sideband" \in shown')
    <3>1. CASE s = "Bandwidth"
      BY <1>12, <3>1
    <3>2. CASE s # "Bandwidth"
      <4>1. fields'["bandwidth"] = fields["bandwidth"]
        BY <1>6, <1>20, <3>2 DEF FieldNames
      <4> QED BY <1>12, <3>2, <4>1 DEF Inv, Seen
    <3> QED BY <3>1, <3>2
  <2> QED BY <1>12, <2>1, <2>2, <2>3 DEF Inv, Seen
<1>22. Resetting => Resetting'
  <2>1. \A r \in Resetters : r \in Spinners /\ r # s
    BY SpinnerNames DEF Resetters, WidthSpins, Names
  <2>2. "Sideband" \notin WidthSpins
    BY DEF WidthSpins
  <2> QED BY <1>5, <1>9, <1>12, <2>1, <2>2 DEF Resetting
<1>23. ASSUME NEW t \in Rated
       PROVE  t \in Spinners /\ \A r : Rival(r, t) => r # "Sideband"
  BY SpinnerNames DEF Rival, Names, Rated, Channels, Rates, Powers
<1>24. Stale'
  <2> SUFFICES ASSUME NEW t \in Rated, Told(t)' PROVE Harmless(t)'
    BY DEF Stale
  <2>1. Harmless(t)
    BY <1>9, <1>23 DEF Inv, Stale
  <2>2. (Told("TxRx")' => Told("TxRx")) /\ (Told("Mode")' => Told("Mode"))
    BY <1>9, <1>15
  <2>3. /\ Selected("TxRx")' = Selected("TxRx") /\ Selected("Mode")' = Selected("Mode")
        /\ Safe(View(fields.TxRx, fields.Mode, "20"), t)' <=> Safe(View(fields.TxRx, fields.Mode, "20"), t)
        /\ Safe(View("tx", fields.Mode, "20"), t)' <=> Safe(View("tx", fields.Mode, "20"), t)
        /\ \A x : Safe(View(x, "b", "20"), t)' <=> Safe(View(x, "b", "20"), t)
    BY <1>1, <1>5, <1>6 DEF Selected, Safe
  <2>4. \A r \in shown' : Rival(r, t) => pos'[r] # old'[r] \/ Resetting'
    BY <1>5, <1>12, <1>22, <1>23, <2>1 DEF Harmless
  <2> QED BY <1>6, <2>1, <2>2, <2>3, <2>4 DEF Harmless
<1>25. Repaired'
  <2> SUFFICES ASSUME NEW r \in shown' \ {"TxRx", "Mode", "Sideband", "GuardInterval"}
               PROVE  Right(r)' \/ pos'[r] # old'[r] \/ Told(r)' \/ Resetting'
    BY DEF Repaired
  <2>1. r \in Spinners /\ r \in shown /\ r \in Panel /\ Selected(r)' = Selected(r)
    BY <1>1, <1>5, <1>12, MessageKinds DEF Selected
  <2>2. Right(r) \/ pos[r] # old[r] \/ Told(r) \/ Resetting
    BY <2>1 DEF Inv, Repaired
  <2>3. CASE r = s
    <3>1. fields'[Field(s)] = v
      <4>1. Field(s) = "Sideband" => s = "Sideband"
        BY FieldKinds DEF Rated, Bandwidths
      <4> QED BY <1>2, <1>3, <1>4, <2>3, <4>1
    <3> QED BY <1>4, <2>1, <2>3, <3>1 DEF Right, v
  <2>4. CASE r # s /\ Field(r) # Field(s)
    <3>1. Field(r) \in FieldNames \ {"Sideband", Field(s)}
      <4>1. Field(r) = "Sideband" => r = "Sideband"
        BY <2>1, FieldKinds DEF Rated, Bandwidths
      <4> QED BY <2>1, <2>4, <4>1, FieldKinds
    <3>2. fields'[Field(r)] = fields[Field(r)]
      BY <1>6, <3>1
    <3>3. r \in Channels => fields'["channel"] = fields["channel"]
      BY <2>1, <3>2, FieldKinds
    <3>4. r = "Channel5G40" => r \in Channels /\ fields'["Sideband"] = fields["Sideband"]
      <4>1. r = "Channel5G40" => Ac(screen) /\ s # "Channel5G40"
        BY <2>1, <2>4 DEF Panel
      <4>2. s = "Sideband" => ~Ac(screen)
        BY <1>2 DEF Panel
      <4>3. Field(s) = "Sideband" => s = "Sideband"
        BY FieldKinds DEF Rated, Bandwidths
      <4> QED BY <1>3, <1>4, <1>14, <4>1, <4>2, <4>3 DEF Channels
    <3>5. Right(r) => Right(r)'
      BY <1>5, <2>1, <3>2, <3>3, <3>4 DEF Right
    <3> QED BY <1>5, <1>9, <1>22, <2>1, <2>2, <2>4, <3>5
  <2>5. CASE r # s /\ Field(r) = Field(s)
    <3>1. CASE s \in Rated
      <4>1. Rival(r, s) /\ Harmless(s)
        <5>1. {r, s} \subseteq Channels \/ {r, s} \subseteq Rates \/ {r, s} \subseteq Powers
          BY <2>1, <2>5, <3>1, FieldKinds DEF Rated
        <5> QED BY <1>9, <2>5, <3>1, <5>1 DEF Rival, Inv, Stale
      <4>2. pos[r] # old[r] \/ Resetting
        BY <2>1, <4>1 DEF Harmless
      <4> QED BY <1>5, <1>22, <4>2
    <3>2. CASE s \in Bandwidths
      <4>1. s = "Bandwidth" /\ r \in Bandwidths /\ r \notin WidthSpins
        BY <1>10, <1>12, <1>20, <2>1, <2>5, <3>2, FieldKinds
      <4> QED BY <2>5, <4>1 DEF Bandwidths, WidthSpins
    <3>3. CASE s \notin Rated \cup Bandwidths
      <4>1. r \notin Rated \cup Bandwidths
        BY <2>1, <2>5, <3>3, FieldKinds DEF Rated
      <4> QED BY <2>1, <2>5, <3>3, <4>1, FieldKinds
    <3> QED BY <3>1, <3>2, <3>3
  <2> QED BY <2>3, <2>4, <2>5
<1> QED BY <1>16, <1>17, <1>18, <1>19, <1>21, <1>24, <1>25 DEF Inv


LEMMA AloneAtEnd ==
    ASSUME NEW q \in Seq(Messages), \A s \in Spinners : ~Contains(q, s),
           NEW n \in Seq(Messages), NEW b \in Spinners, Len(n) = 1, n[1] = b
    PROVE  Alone(q \o n, b)
<1>1. /\ Len(q \o n) = Len(q) + 1 /\ Len(q) \in Nat
      /\ \A i \in 1..Len(q) : (q \o n)[i] = q[i]
      /\ (q \o n)[Len(q) + 1] = b
  BY ConcatOne
<1>2. \A i \in 1..Len(q) : q[i] \notin Spinners
  BY DEF Contains
<1>3. Len(q) + 1 \in 1..Len(q \o n)
  BY <1>1
<1>4. \A j \in 1..Len(q \o n) : j \in 1..Len(q) \/ j = Len(q) + 1
  BY <1>1
<1> DEFINE a == q \o n
<1> HIDE DEF a
<1>5. Alone(a, b)
  BY <1>1, <1>2, <1>3, <1>4 DEF Alone, a
<1> QED BY <1>5 DEF a

(* A layout pass: nothing of an earlier one is told any more.               *)
LEMMA LayoutKeeps ==
    ASSUME Inv, screen' = screen, queue # <<>>, Head(queue) = "layout",
           UNCHANGED <<fields, pos, shown>>, queue' = Tail(queue) \o Notifiers,
           old' = [s \in Spinners |-> IF s \in shown THEN pos[s] ELSE old[s]]
    PROVE  Inv'
<1> DEFINE rest == Tail(queue)
<1>1. /\ Entries' = Entries /\ Panel' = Panel /\ ScreenModes' = ScreenModes /\ Messages' = Messages
      /\ \A x, m, u : View(x, m, u)' = View(x, m, u)
      /\ \A u : View(fields.TxRx, fields.Mode, u)' = View(fields.TxRx, fields.Mode, u)
      /\ View("tx", fields.Mode, "20")' = View("tx", fields.Mode, "20")
  BY SameScreen
<1>2. /\ rest \in Seq(Messages) /\ \A e : Contains(rest, e) => e \in Buttons
      /\ \A e : Told(e) <=> e = "layout" \/ Contains(rest, e)
  BY Taken DEF Inv, Typed
<1>3. \A s \in Spinners : ~Told(s) /\ ~Contains(rest, s)
  BY <1>2, MessageKinds
<1>4. shown \subseteq Panel /\ shown \subseteq Spinners
  BY MessageKinds DEF Inv, Typed
<1>5. /\ Notifiers \in Seq(Messages) /\ Len(Notifiers) = Cardinality(Changed)
      /\ Notifiers \in Seq(Changed)
      /\ \A m : Contains(Notifiers, m) <=> m \in Changed
  <2>1. Changed \subseteq Messages
    BY <1>4 DEF Changed, Messages
  <2>2. /\ Notifiers \in Seq(Changed) /\ Len(Notifiers) = Cardinality(Changed)
        /\ \A m : Contains(Notifiers, m) <=> m \in Changed
    BY <1>4, NotifiersTell
  <2> HIDE DEF Changed, Notifiers
  <2> QED BY <2>1, <2>2
<1>6. queue' \in Seq(Messages) /\ \A e : Contains(queue', e) <=> Contains(rest, e) \/ e \in Changed
  <2>1. queue' = rest \o Notifiers
    OBVIOUS
  <2> HIDE DEF rest
  <2>2. rest \in Seq(Messages) /\ Notifiers \in Seq(Messages)
    BY <1>2, <1>5
  <2>3. \A e : Contains(rest \o Notifiers, e) <=> Contains(rest, e) \/ Contains(Notifiers, e)
    BY ONLY <2>2, ConcatContains
  <2>4. rest \o Notifiers \in Seq(Messages)
    BY ONLY <2>2, ConcatProperties
  <2> QED BY <1>5, <2>1, <2>3, <2>4
<1>7. \A s \in Spinners : Told(s)' <=> s \in shown /\ pos[s] # old[s]
  BY <1>3, <1>6 DEF Told, Changed
<1>8. /\ \A s \in shown : old'[s] = pos[s]
      /\ \A s \in Spinners \ shown : old'[s] = old[s]
      /\ \A s \in Spinners : pos[s] \in Nat
  BY <1>4 DEF Inv, Typed
<1>9. ASSUME NEW w \in Widths, ShownFor(w)
      PROVE  /\ fields.TxRx \in Directions /\ fields.Mode \in ScreenModes /\ Known(fields.Mode, w)
             /\ Fitting(shown \ {"Sideband"}, fields.TxRx, fields.Mode, w)
             /\ shown \ {"Sideband"} = View(fields.TxRx, fields.Mode, w)
  <2>1. /\ fields.TxRx \in Directions /\ fields.Mode \in ScreenModes /\ screen \in Screens
        /\ Known(fields.Mode, w) /\ shown \ {"Sideband"} = View(fields.TxRx, fields.Mode, w)
    BY <1>9 DEF ShownFor, Inv, Typed, IsFields
  <2>2. Fitting(View(fields.TxRx, fields.Mode, w), fields.TxRx, fields.Mode, w)
    BY <2>1, ViewFits
  <2> QED BY <2>1, <2>2
<1>10. PICK w \in Widths : shown \ {"Sideband"} = {} \/ ShownFor(w)
  <2>1. "20" \in Widths
    BY DEF Widths
  <2> QED BY <2>1 DEF Inv, Seen
<1>11. {"TxRx", "Mode", "Sideband", "GuardInterval"} \subseteq Spinners
  BY SpinnerNames DEF Names
<1>12. \A s \in Bandwidths \cup Rated : s \in Spinners /\ s # "Sideband" /\ s \notin {"TxRx", "Mode"}
  BY SpinnerNames DEF Names, Bandwidths, Rated, Channels, Rates, Powers
<1>13. \A s \in WidthSpins : s \in Bandwidths
  BY DEF WidthSpins, Bandwidths
<1> HIDE DEF rest
<1>14. Typed'
  <2>1. Orderly(queue')
    <3>1. ~Contains(queue', "layout")
      BY <1>2, <1>4, <1>6, MessageKinds DEF Changed
    <3> QED BY <3>1 DEF Orderly, Contains
  <2>2. old' \in [Spinners -> Int] /\ \A s \in Spinners : -1 <= old'[s] /\ old'[s] < Len(Entries[s])
    <3>1. \A s \in Spinners : /\ old[s] \in Int /\ -1 <= old[s] /\ old[s] < Len(Entries[s])
                              /\ pos[s] \in Nat /\ pos[s] < Len(Entries[s])
      BY DEF Inv, Typed
    <3>2. \A s \in Spinners : old'[s] \in Int /\ -1 <= old'[s] /\ old'[s] < Len(Entries[s])
      BY <1>8, <3>1
    <3> QED BY <3>2
  <2>3. IsFields(fields)'
    BY <1>1 DEF Inv, Typed, IsFields
  <2> QED BY <1>1, <1>6, <2>1, <2>2, <2>3 DEF Inv, Typed
<1>15. Passes'
  <2>1. \A s \in {"TxRx", "Mode"} : pos'[s] # old'[s] => old'[s] = -1
    BY <1>8, <1>11 DEF Inv, Passes, Pending
  <2>2. ASSUME NEW b \in Bandwidths
        PROVE  /\ pos'[b] # 0 => pos'[b] = old'[b]
               /\ Told(b)' /\ pos'[b] # 0 => /\ fields.Mode = ModeFor(b) /\ fields.TxRx # "unmodulated"
                                             /\ Alone(queue', b)
    <3>1. pos[b] # 0 => pos[b] = old[b] \/ Pending(b)
      BY DEF Inv, Passes
    <3>2. pos[b] # 0 => pos[b] = old'[b]
      BY <1>8, <1>12, <3>1 DEF Pending
    <3>3. ASSUME Told(b)', pos[b] # 0
          PROVE  fields.Mode = ModeFor(b) /\ fields.TxRx # "unmodulated" /\ Alone(queue', b)
      <4>1. b \in shown \ {"Sideband"} /\ pos[b] # old[b] /\ Pending(b)
        BY <1>7, <1>12, <3>1, <3>3
      <4>2. fields.Mode = ModeFor(b) /\ fields.TxRx # "unmodulated"
        BY <1>9, <1>10, <4>1 DEF Fitting
      <4>3. Changed = {b}
        BY <4>1 DEF Changed, Pending
      <4>4. Len(Notifiers) = 1 /\ Notifiers[1] = b
        <5>1. Cardinality({b}) = 1
          BY FS_Singleton
        <5>2. Len(Notifiers) = 1
          BY <1>5, <4>3, <5>1
        <5>3. Contains(Notifiers, b)
          BY <1>5, <4>3
        <5> QED BY <5>2, <5>3 DEF Contains
      <4>5. Alone(queue', b)
        <5>1. rest \in Seq(Messages) /\ Notifiers \in Seq(Messages) /\ b \in Spinners
          BY <1>2, <1>5, <1>12
        <5>2. queue' = rest \o Notifiers
          BY DEF rest
        <5> QED BY <1>3, <4>4, <5>1, <5>2, AloneAtEnd
      <4> QED BY <4>2, <4>5
    <3> QED BY <3>2, <3>3
  <2> QED BY <1>8, <2>1, <2>2 DEF Passes
<1>16. Fresh'
  <2>1. /\ "TxRx" \notin shown => shown \ {"Sideband"} = {}
        /\ "Mode" \notin shown => shown \ {"Sideband"} = {} \/ fields.TxRx = "unmodulated"
    BY <1>9, <1>10 DEF Fitting
  <2>2. old'["TxRx"] = -1 => pos["TxRx"] = 0 /\ \A s \in Rated : old'[s] = -1
    <3>1. old'["TxRx"] = -1 => "TxRx" \notin shown /\ old["TxRx"] = -1
      BY <1>8, <1>11
    <3> QED BY <1>8, <1>12, <2>1, <3>1 DEF Inv, Fresh
  <2>3. old'["Mode"] = -1 =>
           /\ pos["Mode"] = 0
           /\ \A s \in Rated : old'[s] # -1 =>
                 s = IF screen = "BgnSiso" THEN "Channel2G" ELSE "ChannelAll"
    <3> SUFFICES ASSUME old'["Mode"] = -1
                 PROVE  /\ pos["Mode"] = 0
                        /\ \A s \in Rated : old'[s] # -1 =>
                              s = IF screen = "BgnSiso" THEN "Channel2G" ELSE "ChannelAll"
      OBVIOUS
    <3>1. "Mode" \notin shown /\ old["Mode"] = -1
      BY <1>8, <1>11
    <3>2. ASSUME NEW s \in Rated \cap shown
          PROVE  s = IF screen = "BgnSiso" THEN "Channel2G" ELSE "ChannelAll"
      <4>1. s \in shown \ {"Sideband"}
        BY <1>12
      <4>2. ShownFor(w) /\ fields.TxRx = "unmodulated"
        BY <1>10, <2>1, <3>1, <4>1
      <4>3. /\ screen # "BgnSiso" => (shown \ {"Sideband"}) \cap Rated = {"ChannelAll"}
            /\ (shown \ {"Sideband"}) \cap Rated \subseteq {"ChannelAll", "Channel2G"}
        <5>1. /\ "unmodulated" \in Directions /\ fields.Mode \in ScreenModes
              /\ Known(fields.Mode, w) /\ screen \in Screens
              /\ Fitting(shown \ {"Sideband"}, "unmodulated", fields.Mode, w)
              /\ shown \ {"Sideband"} = View("unmodulated", fields.Mode, w)
          BY <1>9, <4>2 DEF Directions, Inv, Typed
        <5>2. screen # "BgnSiso" => View("unmodulated", fields.Mode, w) \cap Rated = {"ChannelAll"}
          BY <5>1, ViewFits
        <5> QED BY <5>1, <5>2 DEF Fitting
      <4>4. screen = "BgnSiso" => "ChannelAll" \notin shown
        BY <1>4 DEF Panel, Ac
      <4> QED BY <4>1, <4>3, <4>4
    <3>3. ASSUME NEW s \in Rated, s \notin shown, old'[s] # -1
          PROVE  s = IF screen = "BgnSiso" THEN "Channel2G" ELSE "ChannelAll"
      BY <1>8, <1>12, <3>1, <3>3 DEF Inv, Fresh
    <3> QED BY <3>1, <3>2, <3>3 DEF Inv, Fresh
  <2> QED BY <2>2, <2>3 DEF Fresh
<1>17. Kept'
  <2>1. \A r, p : Entry(r, p)' = Entry(r, p)
    BY <1>1 DEF Entry
  <2>2. ASSUME NEW s \in {"TxRx", "Mode", "Sideband"} \cap Panel
        PROVE  old'[s] = -1 \/ Told(s)' \/ fields[s] = Entry(s, old'[s])
               \/ fields[s] = Entry(s, pos[s])
    <3>1. old[s] = -1 \/ fields[s] = Entry(s, old[s]) \/ fields[s] = Entry(s, pos[s])
      BY <1>3, <1>11 DEF Inv, Kept
    <3> QED BY <1>7, <1>8, <1>11, <3>1
  <2> DEFINE G == "GuardInterval"
  <2>3. G \in Spinners /\ ~Told(G)
    BY <1>3, <1>11
  <2>4. old[G] = -1 \/ fields[G] = Entry(G, old[G]) \/ (pos[G] = 0 /\ fields[G] = Entry(G, 0))
    BY <2>3 DEF Inv, Kept
  <2> HIDE DEF G
  <2>5. /\ old'[G] = -1 \/ Told(G)' \/ fields[G] = Entry(G, old'[G])
           \/ (pos[G] = 0 /\ fields[G] = Entry(G, 0))
        /\ Told(G)' => pos[G] \in {0, old'[G]}
    BY <1>7, <1>8, <2>3, <2>4
  <2> QED BY <1>1, <2>1, <2>2, <2>5 DEF Kept, G, Entry
<1>18. Seen'
  <2>1. ASSUME NEW u \in Widths, ShownFor(u) PROVE ShownFor(u)'
    <3>1. ASSUME NEW b \in shown \cap WidthSpins
          PROVE  fields.bandwidth = u /\ (pos[b] = BandwidthEntry(u) \/ Told(b)')
      <4>1. b \in Spinners
        BY <1>4
      <4> QED BY <1>3, <1>7, <2>1, <4>1 DEF ShownFor
    <3> QED BY <1>1, <2>1, <3>1 DEF ShownFor
  <2> QED BY <1>1, <2>1 DEF Inv, Seen
<1>19. Stale'
  <2> SUFFICES ASSUME NEW t \in Rated, Told(t)' PROVE Harmless(t)'
    BY DEF Stale
  <2>1. t \in shown \ {"Sideband"} /\ pos[t] # old[t]
    BY <1>7, <1>12
  <2>2. ShownFor(w)
    BY <1>10, <2>1
  <2>3. /\ fields.TxRx \in Directions /\ fields.Mode \in ScreenModes /\ Known(fields.Mode, w)
        /\ Fitting(shown \ {"Sideband"}, fields.TxRx, fields.Mode, w)
        /\ shown \ {"Sideband"} = View(fields.TxRx, fields.Mode, w)
    BY <1>9, <2>2
  <2>4. \A s : Rival(s, t) => s \in Rated /\ s \notin shown
    <3>1. \A s : Rival(s, t) => s \in Rated
      BY DEF Rival, Rated
    <3> QED BY <1>12, <2>1, <2>3, <3>1 DEF Fitting
  <2>5. \A s : s # t => ~Pending(s)
    BY <2>1 DEF Pending
  <2>6. Safe(View(fields.TxRx, fields.Mode, "20"), t)'
    <3>1. CASE View(fields.TxRx, fields.Mode, "20") = shown \ {"Sideband"}
      BY <1>1, <2>4, <3>1 DEF Safe
    <3>2. CASE View(fields.TxRx, fields.Mode, "20") # shown \ {"Sideband"}
      <4>1. fields.TxRx # "unmodulated" /\ Wide(fields.Mode) /\ Ac(screen)
        BY <2>3, <3>2, ViewFits DEF Inv, Typed
      <4>2. PICK b \in WidthSpins : /\ (shown \ {"Sideband"}) \cap Bandwidths = {b}
                                    /\ View(fields.TxRx, fields.Mode, "20") \cap Bandwidths = {b}
        BY <2>3, <4>1, ViewFits DEF Inv, Typed
      <4>3. /\ b \in shown \cap WidthSpins /\ b \in Spinners /\ b # t
            /\ b \in View(fields.TxRx, fields.Mode, "20") \cap WidthSpins
        BY <1>12, <1>13, <4>2 DEF WidthSpins, Rated, Channels, Rates, Powers
      <4>4. pos[b] = BandwidthEntry(w)
        BY <1>3, <2>2, <2>5, <4>3 DEF ShownFor
      <4>5. w # "20"
        BY <2>3, <3>2
      <4>6. old'[b] # 0
        BY <1>8, <4>3, <4>4, <4>5 DEF BandwidthEntry, Widths
      <4> QED BY <1>1, <4>3, <4>6 DEF Safe
    <3> QED BY <3>1, <3>2
  <2>7. Told("TxRx")' => Selected("TxRx")' = "tx" /\ Safe(View("tx", fields.Mode, "20"), t)'
    <3> SUFFICES ASSUME Told("TxRx")'
                 PROVE  Selected("TxRx")' = "tx" /\ Safe(View("tx", fields.Mode, "20"), t)'
      OBVIOUS
    <3>1. old["TxRx"] = -1
      BY <1>7, <1>11, <1>12, <2>5 DEF Inv, Passes
    <3>2. pos["TxRx"] = 0 /\ \A s \in Rated : old[s] = -1
      BY <3>1 DEF Inv, Fresh
    <3>3. Selected("TxRx")' = "tx"
      <4>1. Entries["TxRx"] = <<"tx", "rx", "unmodulated">>
        BY EntriesUsual DEF Usual, Inv, Typed
      <4> QED BY <1>1, <3>2, <4>1 DEF Selected
    <3>4. \A s : Rival(s, t) => old'[s] # 0
      BY <1>8, <1>12, <2>4, <3>2
    <3> QED BY <1>1, <3>3, <3>4 DEF Safe
  <2>8. Told("Mode")' => /\ Selected("Mode")' = "b" /\ fields.TxRx # "unmodulated"
                         /\ \A x \in {"tx", "rx"} : Safe(View(x, "b", "20"), t)'
    <3> SUFFICES ASSUME Told("Mode")'
                 PROVE  /\ Selected("Mode")' = "b" /\ fields.TxRx # "unmodulated"
                        /\ \A x \in {"tx", "rx"} : Safe(View(x, "b", "20"), t)'
      OBVIOUS
    <3>1. old["Mode"] = -1 /\ "Mode" \in shown \ {"Sideband"}
      BY <1>7, <1>11, <1>12, <2>5 DEF Inv, Passes
    <3>2. /\ pos["Mode"] = 0
          /\ \A s \in Rated : old[s] # -1 =>
                s = IF screen = "BgnSiso" THEN "Channel2G" ELSE "ChannelAll"
      BY <3>1 DEF Inv, Fresh
    <3>3. Selected("Mode")' = "b"
      <4>1. Entries["Mode"] \in ModeLists
        BY EntriesUsual DEF Usual, Inv, Typed
      <4> QED BY <1>1, <3>2, <4>1 DEF Selected, ModeLists
    <3>4. fields.TxRx # "unmodulated"
      BY <2>3, <3>1 DEF Fitting
    <3>5. ASSUME NEW x \in {"tx", "rx"}, NEW s \in View(x, "b", "20"), Rival(s, t)
          PROVE  old'[s] # 0
      <4>1. x \in Directions /\ "b" \in ScreenModes /\ "20" \in Widths /\ Known("b", "20")
        BY DEF Directions, ScreenModes, Widths, Known
      <4>2. Fitting(View(x, "b", "20"), x, "b", "20")
        BY <4>1, ViewFits DEF Inv, Typed
      <4>3. s \in {"Channel2G", "RateB", "Power11B"} /\ s \notin shown /\ s \in Rated
        BY <2>4, <3>5, <4>2 DEF Fitting
      <4>4. screen = "BgnSiso" => "Channel2G" \in shown
        BY <2>3, ViewFits DEF Inv, Typed
      <4>5. old[s] = -1
        BY <3>2, <4>3, <4>4
      <4> QED BY <1>8, <1>12, <4>3, <4>5
    <3> QED BY <1>1, <3>3, <3>4, <3>5 DEF Safe
  <2>9. \A s \in shown' : ~Rival(s, t)
    BY <2>4
  <2> QED BY <2>6, <2>7, <2>8, <2>9 DEF Harmless
<1>20. Repaired'
  <2> SUFFICES ASSUME NEW s \in shown \ {"TxRx", "Mode", "Sideband", "GuardInterval"}
               PROVE  Right(s)' \/ Told(s)' \/ Resetting'
    BY DEF Repaired
  <2>1. Right(s) \/ pos[s] # old[s] \/ Resetting
    BY <1>3, <1>4 DEF Inv, Repaired
  <2>2. Right(s) => Right(s)'
    BY <1>1 DEF Right, Selected
  <2>3. Resetting => Resetting'
    <3>1. \A r \in Resetters : ~Told(r)
      BY <1>3, <1>11, <1>12, <1>13 DEF Resetters
    <3>2. \A b \in shown \cap WidthSpins : pos[b] # old[b] => Told(b)' /\ b \in Resetters
      BY <1>4, <1>7 DEF Resetters
    <3> QED BY <3>1, <3>2 DEF Resetting
  <2> QED BY <1>4, <1>7, <2>1, <2>2, <2>3
<1> QED BY <1>14, <1>15, <1>16, <1>17, <1>18, <1>19, <1>20 DEF Inv


-----------------------------------------------------------------------------
(* The tester.                                                              *)
Blank ==
    /\ screen \in Screens /\ IsFields(fields)
    /\ ~Wide(fields.Mode) \/ screen = "BgnSiso" => fields.bandwidth = "20"
    /\ pos = [s \in Spinners |-> 0] /\ old = [s \in Spinners |-> -1]
    /\ shown = {} /\ queue \in Seq({"layout"}) /\ Len(queue) <= 1

LEMMA BlankKeeps == Blank => Inv
<1> SUFFICES ASSUME Blank PROVE Inv
  OBVIOUS
<1>1. /\ \A s \in Spinners : pos[s] = 0 /\ old[s] = -1
      /\ shown = {} /\ queue \in Seq({"layout"}) /\ Len(queue) <= 1
  BY DEF Blank
<1>2. \A s \in Spinners : ~Told(s)
  <2>1. \A i \in 1..Len(queue) : queue[i] = "layout"
    BY <1>1, ElementOfSeq
  <2> QED BY <2>1, MessageKinds DEF Told, Contains
<1>3. Typed
  <2>1. queue \in Seq(Messages)
    BY <1>1 DEF Messages
  <2>2. Orderly(queue)
    BY <1>1 DEF Orderly
  <2>3. \A s \in Spinners : Len(Entries[s]) \in 1..5
    BY EntriesUsual DEF Usual, Blank
  <2>4. /\ pos \in [Spinners -> Nat] /\ \A s \in Spinners : pos[s] < Len(Entries[s])
        /\ old \in [Spinners -> Int] /\ \A s \in Spinners : -1 <= old[s] /\ old[s] < Len(Entries[s])
    BY <1>1, <2>3 DEF Blank
  <2> QED BY <1>1, <2>1, <2>2, <2>4 DEF Typed, Blank
<1>4. {"TxRx", "Mode", "GuardInterval", "Sideband"} \subseteq Spinners
      /\ Bandwidths \subseteq Spinners /\ Rated \subseteq Spinners
  BY SpinnerNames DEF Names, Bandwidths, Rated, Channels, Rates, Powers
<1>5. Passes
  BY <1>1, <1>4 DEF Passes
<1>6. Fresh
  BY <1>1, <1>4 DEF Fresh
<1>7. Kept
  BY <1>1, <1>2, <1>4 DEF Kept
<1>8. Seen
  BY <1>1 DEF Blank, Seen
<1>9. Stale
  BY <1>2, <1>4 DEF Stale
<1>10. Repaired
  BY <1>1 DEF Repaired
<1> QED BY <1>3, <1>5, <1>6, <1>7, <1>8, <1>9, <1>10 DEF Inv

LEMMA InitBlank == Init => Blank
<1> SUFFICES ASSUME Init PROVE Blank
  OBVIOUS
<1>1. IsFields(fields) /\ ~Wide(fields.Mode) /\ fields.bandwidth = "20"
  BY DEF Init, IsFields, FieldNames, Directions, ScreenModes, Wide
<1>2. queue \in Seq({"layout"}) /\ Len(queue) <= 1
  BY DEF Init
<1> QED BY <1>1, <1>2 DEF Init, Blank

LEMMA OnStartKeeps ==
    ASSUME Inv, OnStart
    PROVE  Inv'
<1>1. queue = <<>> /\ queue' = <<"layout">>
  BY NothingContained DEF OnStart, Settled, RequestLayout
<1>2. queue' \in Seq({"layout"}) /\ Len(queue') <= 1
  BY <1>1
<1>3. screen' = screen /\ fields' = fields /\ ScreenModes' = ScreenModes
  BY DEF OnStart, ScreenModes
<1>4. IsFields(fields)'
  BY <1>3 DEF Inv, Typed, IsFields
<1>5. Blank'
  BY <1>2, <1>3, <1>4 DEF Blank, OnStart, Inv, Typed, Seen
<1>6. Blank' => Inv'
  BY BlankKeeps, PTL
<1> QED BY <1>5, <1>6

LEMMA TapKeeps ==
    ASSUME Inv, NEW button \in Buttons, TapButton(button)
    PROVE  Inv'
<1>1. /\ queue' = Append(queue, button)
      /\ UNCHANGED <<screen, fields, pos, old, shown>>
  BY DEF TapButton, screenVars
<1>2. queue \in Seq(Messages) /\ Orderly(queue) /\ button \notin Spinners /\ button # "layout"
  BY MessageKinds DEF Inv, Typed
<1>3. /\ queue' \in Seq(Messages) /\ Orderly(queue')
      /\ \A e : Contains(queue', e) <=> Contains(queue, e) \/ e = button
      /\ \A b \in Spinners : Alone(queue, b) => Alone(queue', b)
      /\ queue # <<>> => queue' # <<>> /\ Head(queue') = Head(queue)
  BY <1>1, <1>2, Appended
<1>4. \A s \in Spinners : Told(s)' <=> Told(s)
  BY <1>2, <1>3 DEF Told
<1>5. Told("layout") => Told("layout")'
  BY <1>3 DEF Told
<1>6. \A s : Pending(s) => Pending(s)'
  BY <1>1, <1>3 DEF Pending
<1>7. CASE shown = {}
  <2>1. \A s : ~Pending(s)
    BY <1>7 DEF Pending
  <2> QED BY <1>1, <1>3, <1>4, <1>5, <1>6, <2>1, SameSelectionsKeep
<1>8. CASE shown # {}
  BY <1>1, <1>3, <1>4, <1>5, <1>6, <1>8, SameSelectionsKeep
<1> QED BY <1>7, <1>8

LEMMA SettledSelections ==
    ASSUME Inv, queue = <<>>
    PROVE  /\ \A e : ~Told(e)
           /\ \A s : ~Pending(s)
           /\ \A s \in shown : pos[s] = old[s]
           /\ ~Resetting
<1>1. \A e : ~Told(e)
  BY NothingContained DEF Told
<1>2. \A s \in shown : pos[s] = old[s]
  BY <1>1 DEF Inv, Passes
<1> QED BY <1>1, <1>2 DEF Pending, Resetting

LEMMA ChooseKeeps ==
    ASSUME Inv, NEW s \in Spinners, NEW p \in 0..(Len(Entries[s]) - 1), Choose(s, p)
    PROVE  Inv'
<1>1. /\ queue = <<>> /\ queue' = <<"layout">> /\ s \in shown /\ p # pos[s]
      /\ UNCHANGED <<screen, fields, old, shown>>
      /\ pos' = [pos EXCEPT ![s] = p]
  BY NothingContained DEF Choose, Settled, RequestLayout
<1>2. /\ Entries' = Entries /\ Panel' = Panel /\ ScreenModes' = ScreenModes /\ Messages' = Messages
      /\ \A u : View(fields.TxRx, fields.Mode, u)' = View(fields.TxRx, fields.Mode, u)
  BY <1>1, SameScreen
<1>3. /\ \A e : ~Told(e) /\ \A r : ~Pending(r) /\ ~Resetting
      /\ \A r \in shown : pos[r] = old[r]
  BY <1>1, SettledSelections
<1>4. \A e : Told(e)' <=> e = "layout"
  BY <1>1 DEF Told, Contains
<1>5. /\ pos \in [Spinners -> Nat] /\ \A r \in Spinners : pos[r] < Len(Entries[r])
      /\ shown \subseteq Spinners /\ p \in Nat /\ p < Len(Entries[s])
  <2>1. Len(Entries[s]) \in Nat
    BY EntriesUsual DEF Usual, Inv, Typed
  <2> QED BY <2>1, MessageKinds DEF Inv, Typed
<1>6. /\ pos' \in [Spinners -> Nat] /\ pos'[s] = p
      /\ \A r \in Spinners \ {s} : pos'[r] = pos[r]
  BY <1>1, <1>5
<1>7. Pending(s)'
  BY <1>1, <1>3, <1>5, <1>6 DEF Pending
<1>8. \A r \in Spinners : ~Told(r)'
  BY <1>4, MessageKinds
<1>9. {"TxRx", "Mode", "GuardInterval", "Sideband"} \subseteq Spinners
      /\ Bandwidths \subseteq Spinners /\ Rated \subseteq Spinners /\ WidthSpins \subseteq Spinners
  BY SpinnerNames DEF Names, Bandwidths, WidthSpins, Rated, Channels, Rates, Powers
<1>10. Typed'
  <2>1. queue' \in Seq(Messages) /\ Orderly(queue')
    BY <1>1 DEF Messages, Orderly
  <2>2. \A r \in Spinners : pos'[r] < Len(Entries[r])
    BY <1>5, <1>6
  <2>3. IsFields(fields)'
    BY <1>1, <1>2 DEF Inv, Typed, IsFields
  <2> QED BY <1>1, <1>2, <1>6, <2>1, <2>2, <2>3 DEF Inv, Typed
<1>11. Passes'
  <2>1. \A r \in {"TxRx", "Mode"} : pos'[r] # old'[r] => old'[r] = -1 \/ Pending(r)'
    BY <1>1, <1>3, <1>6, <1>7, <1>9 DEF Inv, Passes
  <2>2. \A b \in Bandwidths : pos'[b] # 0 => pos'[b] = old'[b] \/ Pending(b)'
    BY <1>1, <1>3, <1>6, <1>7, <1>9 DEF Inv, Passes
  <2> QED BY <1>4, <1>8, <1>9, <2>1, <2>2 DEF Passes
<1>12. Fresh'
  <2>1. old[s] # -1
    BY <1>1, <1>3, <1>5
  <2> QED BY <1>1, <1>6, <1>9, <2>1 DEF Inv, Fresh
<1>13. Kept'
  <2>1. \A r, q : Entry(r, q)' = Entry(r, q)
    BY <1>2 DEF Entry
  <2>2. pos[s] = old[s]
    BY <1>1, <1>3
  <2>3. ASSUME NEW r \in {"TxRx", "Mode", "Sideband"} \cap Panel
        PROVE  old[r] = -1 \/ fields[r] = Entry(r, old[r]) \/ fields[r] = Entry(r, pos'[r])
    <3>1. old[r] = -1 \/ fields[r] = Entry(r, old[r]) \/ fields[r] = Entry(r, pos[r])
      BY <1>3 DEF Inv, Kept
    <3> QED BY <1>6, <1>9, <2>2, <3>1
  <2> DEFINE G == "GuardInterval"
  <2>4. old[G] = -1 \/ fields[G] = Entry(G, old[G]) \/ (pos[G] = 0 /\ fields[G] = Entry(G, 0))
    BY <1>3 DEF Inv, Kept
  <2>5. G \in Spinners
    BY <1>9
  <2> HIDE DEF G
  <2>6. old[G] = -1 \/ fields[G] = Entry(G, old[G]) \/ (pos'[G] = 0 /\ fields[G] = Entry(G, 0))
    BY <1>6, <2>2, <2>4, <2>5
  <2> QED BY <1>1, <1>2, <1>8, <1>9, <2>1, <2>3, <2>6 DEF Kept, G, Entry
<1>14. Seen'
  <2>1. ASSUME NEW w \in Widths, ShownFor(w) PROVE ShownFor(w)'
    <3>1. ASSUME NEW b \in shown \cap WidthSpins
          PROVE  /\ fields.bandwidth = w
                 /\ pos'[b] = BandwidthEntry(w) \/ (pos'[b] # old[b] /\ Pending(b)')
      <4>1. fields.bandwidth = w /\ pos[b] = BandwidthEntry(w)
        BY <1>3, <2>1 DEF ShownFor
      <4>2. b = s => pos'[b] # old[b]
        BY <1>1, <1>3, <1>6
      <4> QED BY <1>6, <1>7, <1>9, <4>1, <4>2
    <3> QED BY <1>1, <1>2, <2>1, <3>1 DEF ShownFor
  <2> QED BY <1>1, <1>2, <2>1 DEF Inv, Seen
<1>15. Stale'
  BY <1>8, <1>9 DEF Stale
<1>16. Repaired'
  <2> SUFFICES ASSUME NEW r \in shown \ {"TxRx", "Mode", "Sideband", "GuardInterval"}
               PROVE  Right(r)' \/ pos'[r] # old'[r]
    BY <1>1 DEF Repaired
  <2>1. CASE r = s
    BY <1>1, <1>3, <1>6, <2>1
  <2>2. CASE r # s
    <3>1. Right(r)
      BY <1>3 DEF Inv, Repaired
    <3>2. pos'[r] = pos[r]
      BY <1>5, <1>6, <2>2
    <3> QED BY <1>1, <1>2, <3>1, <3>2 DEF Right, Selected
  <2> QED BY <2>1, <2>2
<1> QED BY <1>10, <1>11, <1>12, <1>13, <1>14, <1>15, <1>16 DEF Inv


-----------------------------------------------------------------------------
(* Every step keeps the invariant.                                          *)
LEMMA NotifierKeeps ==
    ASSUME Inv, screen' = screen, queue # <<>>, Head(queue) \in Spinners,
           OnItemSelected(Head(queue), Tail(queue))
    PROVE  Inv'
<1> DEFINE s == Head(queue)
           rest == Tail(queue)
           v == Selected(s)
           g == [fields EXCEPT ![Field(s)] = v]
<1>1. s \in Spinners
  OBVIOUS
<1>2. \/ s = "TxRx" /\ UpdateSettings(g, "20", rest)
      \/ s = "Mode" /\ UpdateSettings(IF v = "n" THEN g ELSE [g EXCEPT !["bandwidth"] = "20"],
                                      "20", rest)
      \/ s \in WidthSpins /\ UpdateSettings(g, v, rest)
      \/ s \notin Resetters /\ Listen(s, g, rest)
  BY DEF OnItemSelected, WidthSpins, Resetters
<1>3. /\ Field("TxRx") = "TxRx" /\ Field("Mode") = "Mode"
      /\ \A b \in WidthSpins : Field(b) = "bandwidth"
  BY DEF Field, WidthSpins, Channels, Rates, Powers, Bandwidths
<1>4. CASE s = "TxRx" /\ UpdateSettings(g, "20", rest)
  BY <1>3, <1>4, TxRxKeeps
<1>5. CASE s = "Mode" /\ UpdateSettings(IF v = "n" THEN g ELSE [g EXCEPT !["bandwidth"] = "20"],
                                        "20", rest)
  <2> DEFINE f == [fields EXCEPT !["Mode"] = Selected("Mode")]
             h == IF Selected("Mode") = "n" THEN f ELSE [f EXCEPT !["bandwidth"] = "20"]
  <2>1. UpdateSettings(h, "20", rest)
    BY <1>3, <1>5
  <2> QED BY <1>5, <2>1, ModeKeeps
<1>6. CASE s \in WidthSpins /\ UpdateSettings(g, v, rest)
  BY <1>3, <1>6, WidthKeeps
<1>7. CASE s \notin Resetters /\ Listen(s, g, rest)
  BY <1>1, <1>7, ListenKeeps
<1> QED BY <1>2, <1>4, <1>5, <1>6, <1>7

LEMMA HandleKeeps ==
    ASSUME Inv, Handle
    PROVE  Inv'
<1>1. queue # <<>> /\ screen' = screen
  BY DEF Handle
<1>2. CASE Head(queue) = "layout" /\ Layout(Tail(queue))
  BY <1>1, <1>2, LayoutKeeps DEF Layout
<1>3. CASE Head(queue) \in Spinners /\ OnItemSelected(Head(queue), Tail(queue))
  BY <1>1, <1>3, NotifierKeeps
<1>4. CASE Head(queue) = "ftm" /\ ClickFtm(Tail(queue))
  <2>1. CASE UpdateSettings(fields, "20", Tail(queue))
    BY <1>1, <1>4, <2>1, FtmOnKeeps
  <2>2. CASE RemoveSettings(Tail(queue))
    BY <1>1, <1>4, <2>2, ClickKeeps DEF Buttons
  <2>3. CASE UNCHANGED <<fields, pos, old, shown>> /\ queue' = Tail(queue)
    BY <1>1, <1>4, <2>3, ClickKeeps DEF Buttons
  <2> QED BY <1>4, <2>1, <2>2, <2>3 DEF ClickFtm
<1>5. CASE Head(queue) = "start" /\ ClickStart(Tail(queue))
  <2>1. UNCHANGED <<fields, pos, old, shown>> /\ queue' = Tail(queue)
    BY <1>5 DEF ClickStart
  <2> QED BY <1>1, <1>5, <2>1, ClickKeeps DEF Buttons
<1> QED BY <1>2, <1>3, <1>4, <1>5 DEF Handle

LEMMA StutterKeeps ==
    ASSUME Inv, UNCHANGED <<screen, fields, pos, old, shown, queue>>
    PROVE  Inv'
<1>1. \A s \in Spinners : Told(s)' <=> Told(s)
  BY DEF Told
<1>2. \A s : Pending(s) => Pending(s)'
  BY DEF Pending
<1>3. shown' = {} => \A s : ~Pending(s)
  BY DEF Pending
<1>4. Told("layout") => Told("layout")'
  BY DEF Told
<1>5. queue' \in Seq(Messages) /\ Orderly(queue')
  BY DEF Inv, Typed
<1> QED BY <1>1, <1>2, <1>3, <1>4, <1>5, SameSelectionsKeep

LEMMA NextKeeps == Inv /\ [Next]_vars => Inv'
<1> SUFFICES ASSUME Inv, [Next]_vars PROVE Inv'
  OBVIOUS
<1>1. CASE Handle
  BY <1>1, HandleKeeps
<1>2. CASE OnStart
  BY <1>2, OnStartKeeps
<1>3. ASSUME NEW s \in Spinners, NEW p \in 0..(Len(Entries[s]) - 1), Choose(s, p) PROVE Inv'
  BY <1>3, ChooseKeeps
<1>4. ASSUME NEW button \in {"ftm", "start"}, TapButton(button) PROVE Inv'
  BY <1>4, TapKeeps DEF Buttons
<1>5. CASE UNCHANGED vars
  BY <1>5, StutterKeeps DEF vars, screenVars
<1> QED BY <1>1, <1>2, <1>3, <1>4, <1>5 DEF Next

LEMMA Invariant == Spec => []Inv
<1>1. Init => Inv
  BY InitBlank, BlankKeeps
<1> QED BY <1>1, NextKeeps, PTL DEF Spec

(* Once the screen is settled, what it shows is what Start would send.      *)
THEOREM ScreenTellsFieldsHolds == Spec => []ScreenTellsFields
<1>1. Inv => ScreenTellsFields
  <2> SUFFICES ASSUME Inv, queue = <<>>
               PROVE  /\ \A s \in shown :
                           \/ fields[Field(s)] = Selected(s)
                           \/ /\ s \in Channels /\ pos[s] = 0
                              /\ FirstChannel(s) # Selected(s)
                              /\ fields.channel = FirstChannel(s)
                      /\ shown # {} /\ ~Wide(fields.Mode) => fields.bandwidth = "20"
                      /\ "Channel5G40" \in shown => fields.Sideband = SidebandOf(fields.channel)
                      /\ "Mode" \in shown =>
                           (fields.bandwidth = "40" <=>
                               shown \cap {"Channel5G40", "Sideband"} # {})
    BY DEF ScreenTellsFields, Settled
  <2>1. /\ \A e : ~Told(e)
        /\ ~Resetting
        /\ \A s \in shown : pos[s] = old[s]
    BY SettledSelections
  <2>2. shown \subseteq Spinners /\ shown \subseteq Panel /\ \A s \in shown : old[s] # -1
    <3>1. shown \subseteq Spinners /\ shown \subseteq Panel /\ \A s \in Spinners : pos[s] \in Nat
      BY MessageKinds DEF Inv, Typed
    <3> QED BY <2>1, <3>1
  <2>3. \A s \in shown \ {"TxRx", "Mode", "Sideband", "GuardInterval"} : Right(s)
    BY <2>1 DEF Inv, Repaired
  <2>4. ASSUME NEW s \in shown \cap {"TxRx", "Mode", "Sideband", "GuardInterval"}
        PROVE  fields[Field(s)] = Selected(s)
    <3>1. Field(s) = s
      BY DEF Field, Channels, Rates, Powers, Bandwidths
    <3>2. fields[s] = Entry(s, old[s])
      <4>1. CASE s = "GuardInterval"
        BY <2>1, <2>2, <4>1 DEF Inv, Kept
      <4>2. CASE s # "GuardInterval"
        BY <2>1, <2>2, <4>2 DEF Inv, Kept
      <4> QED BY <4>1, <4>2
    <3> QED BY <2>1, <3>1, <3>2 DEF Selected, Entry
  <2>5. "Channel5G40" \in shown => fields.Sideband = SidebandOf(fields.channel)
    BY <2>3 DEF Right
  <2>6. ASSUME "Mode" \in shown
        PROVE  fields.bandwidth = "40" <=> shown \cap {"Channel5G40", "Sideband"} # {}
    <3>1. PICK w \in Widths : ShownFor(w)
      BY <2>6 DEF Inv, Seen
    <3>2. /\ screen \in Screens /\ fields.TxRx \in Directions /\ fields.Mode \in ScreenModes
          /\ Known(fields.Mode, w) /\ shown \ {"Sideband"} = View(fields.TxRx, fields.Mode, w)
      BY <3>1 DEF ShownFor, Inv, Typed, IsFields
    <3>3. fields.TxRx # "unmodulated"
      <4>1. Fitting(View(fields.TxRx, fields.Mode, w), fields.TxRx, fields.Mode, w)
        BY <3>2, ViewFits
      <4> QED BY <2>6, <3>2, <4>1 DEF Fitting
    <3>4. "Channel5G40" \in shown <=> Ac(screen) /\ Wide(fields.Mode) /\ w = "40"
      <4>1. "Channel5G40" \in View(fields.TxRx, fields.Mode, w) <=>
               fields.TxRx # "unmodulated" /\ Ac(screen) /\ Wide(fields.Mode) /\ w = "40"
        BY <3>2, ViewFits
      <4> QED BY <3>2, <3>3, <4>1
    <3>5. CASE Ac(screen)
      <4>1. "Sideband" \notin shown
        BY <2>2, <3>5 DEF Panel
      <4>2. Wide(fields.Mode) => fields.bandwidth = w
        <5>1. Wide(fields.Mode) =>
                \E b \in WidthSpins : View(fields.TxRx, fields.Mode, w) \cap Bandwidths = {b}
          BY <3>2, <3>3, <3>5, ViewFits
        <5> QED BY <3>1, <3>2, <5>1 DEF ShownFor
      <4>3. ~Wide(fields.Mode) => fields.bandwidth = "20"
        BY DEF Inv, Seen
      <4> QED BY <3>4, <3>5, <4>1, <4>2, <4>3
    <3>6. CASE ~Ac(screen)
      BY <2>6, <3>4, <3>6 DEF Inv, Seen
    <3> QED BY <3>5, <3>6
  <2>7. ~Wide(fields.Mode) => fields.bandwidth = "20"
    BY DEF Inv, Seen
  <2>8. \A s \in shown : \/ fields[Field(s)] = Selected(s)
                         \/ /\ s \in Channels /\ pos[s] = 0
                            /\ FirstChannel(s) # Selected(s)
                            /\ fields.channel = FirstChannel(s)
    BY <2>3, <2>4 DEF Right
  <2> QED BY <2>5, <2>6, <2>7, <2>8
<1> QED BY <1>1, Invariant, PTL


-----------------------------------------------------------------------------
(* The buttons.                                                             *)
Flags ==
    /\ {ftm, start, startClickable, locked, capture} \subseteq BOOLEAN
    /\ asked \in {"none"} \cup Directions
    /\ taps \in 0..MaxTaps /\ early \in 0..MaxEarly /\ starts \in 0..MaxStarts

LEMMA FlagsKept == Inv /\ Flags /\ [Next]_vars => Flags'
<1> SUFFICES ASSUME Inv, Flags, [Next]_vars PROVE Flags'
  OBVIOUS
<1>1. /\ ftm \in BOOLEAN /\ start \in BOOLEAN /\ startClickable \in BOOLEAN
      /\ locked \in BOOLEAN /\ capture \in BOOLEAN /\ asked \in {"none"} \cup Directions
      /\ taps \in 0..MaxTaps /\ early \in 0..MaxEarly /\ starts \in 0..MaxStarts
      /\ fields.TxRx \in Directions
  BY DEF Flags, Inv, Typed, IsFields
<1> SUFFICES /\ ftm' \in BOOLEAN /\ start' \in BOOLEAN /\ startClickable' \in BOOLEAN
             /\ locked' \in BOOLEAN /\ capture' \in BOOLEAN /\ asked' \in {"none"} \cup Directions
             /\ taps' \in 0..MaxTaps /\ early' \in 0..MaxEarly /\ starts' \in 0..MaxStarts
  BY DEF Flags
<1>2. CASE Handle
  <2>1. taps' = taps /\ early' = early /\ starts' = starts
    BY <1>2 DEF Handle, userVars
  <2>2. CASE Layout(Tail(queue))
    BY <1>1, <2>1, <2>2 DEF Layout
  <2>3. CASE OnItemSelected(Head(queue), Tail(queue))
    <3>1. UNCHANGED <<ftm, start, locked, asked>>
      BY <2>3 DEF OnItemSelected
    <3>2. \/ startClickable' = TRUE /\ capture' = FALSE
          \/ startClickable' = startClickable /\ capture' = capture
      BY <2>3 DEF OnItemSelected, UpdateSettings, Listen
    <3> QED BY <1>1, <2>1, <3>1, <3>2
  <2>4. CASE ClickFtm(Tail(queue))
    <3>1. UNCHANGED <<start, locked, asked>> /\ ftm' \in BOOLEAN
      BY <2>4 DEF ClickFtm
    <3>2. \/ startClickable' = TRUE /\ capture' = FALSE
          \/ startClickable' = FALSE /\ capture' = FALSE
          \/ startClickable' = startClickable /\ capture' = capture
      BY <2>4 DEF ClickFtm, UpdateSettings, RemoveSettings
    <3> QED BY <1>1, <2>1, <3>1, <3>2
  <2>5. CASE ClickStart(Tail(queue))
    <3>1. UNCHANGED <<ftm, startClickable>> /\ start' \in BOOLEAN
      BY <2>5 DEF ClickStart
    <3>2. locked' \in BOOLEAN /\ asked' \in {"none"} \cup Directions
      BY <1>1, <2>5 DEF ClickStart, DisableSpin, StopEnds
    <3>3. capture' \in BOOLEAN
      BY <1>1, <2>5 DEF ClickStart, StopHidesCapture
    <3> QED BY <1>1, <2>1, <3>1, <3>2, <3>3
  <2> QED BY <1>2, <2>2, <2>3, <2>4, <2>5 DEF Handle
<1>3. CASE OnStart
  <2>1. /\ startClickable' = FALSE /\ capture' = FALSE
        /\ UNCHANGED <<ftm, start, locked, asked, taps, early>>
    BY <1>3 DEF OnStart
  <2>2. starts' \in 0..MaxStarts
    BY <1>1, <1>3, BoundsAssumption DEF OnStart
  <2> QED BY <1>1, <2>1, <2>2
<1>4. ASSUME NEW s \in Spinners, NEW p \in 0..(Len(Entries[s]) - 1), Choose(s, p) PROVE Flags'
  BY <1>1, <1>4, BoundsAssumption DEF Choose, Tap, Flags
<1>5. ASSUME NEW button \in {"ftm", "start"}, TapButton(button) PROVE Flags'
  BY <1>1, <1>5, BoundsAssumption DEF TapButton, Tap, screenVars, Flags
<1>6. CASE UNCHANGED vars
  BY <1>1, <1>6 DEF vars, screenVars, userVars
<1> QED BY <1>2, <1>3, <1>4, <1>5, <1>6 DEF Next, Flags

LEMMA FlagsInvariant == Spec => []Flags
<1>1. Init => Flags
  <2> SUFFICES ASSUME Init PROVE Flags
    OBVIOUS
  <2>1. /\ 0 \in 0..MaxTaps /\ 0 \in 0..MaxEarly /\ 0 \in 0..MaxStarts
    BY BoundsAssumption
  <2>2. /\ ftm = FALSE /\ start = FALSE /\ startClickable = FALSE /\ locked = FALSE
        /\ capture = FALSE /\ asked = "none" /\ taps = 0 /\ early = 0 /\ starts = 0
    BY DEF Init
  <2> QED BY <2>1, <2>2 DEF Flags
<1> QED BY <1>1, FlagsKept, Invariant, PTL DEF Spec

(* Every position is one of its list, every message one the thread knows,   *)
(* and a screen shows only spinners that have a list.                       *)
THEOREM TypeCorrect == Spec => []TypeOK
<1>1. Inv /\ Flags => TypeOK
  <2> SUFFICES ASSUME Inv, Flags PROVE TypeOK
    OBVIOUS
  <2>1. /\ screen \in Screens /\ shown \subseteq Panel /\ queue \in Seq(Messages)
        /\ fields = [f \in FieldNames |-> fields[f]]
        /\ \A s \in Spinners : /\ pos[s] \in Nat /\ pos[s] < Len(Entries[s])
                               /\ old[s] \in Int /\ -1 <= old[s] /\ old[s] < Len(Entries[s])
    BY DEF Inv, Typed, IsFields
  <2>2. Usual(Entries) /\ (~Ac(screen) => UsualAbgn(Entries))
    BY <2>1, EntriesUsual
  <2>3. \A s \in Spinners : Len(Entries[s]) \in Nat /\ Field(s) \in DOMAIN fields
    BY <2>1, <2>2, FieldKinds DEF Usual
  <2>4. \A s \in Spinners : /\ pos[s] \in 0..(Len(Entries[s]) - 1)
                            /\ old[s] \in -1..(Len(Entries[s]) - 1)
    BY <2>1, <2>3
  <2>5. \A s \in Panel : s \in Spinners /\ Len(Entries[s]) > 1
    BY <2>2, MessageKinds DEF Usual, UsualAbgn, Panel
  <2>6. \A s \in Panel : Entries[s] # NoEntries[s]
    <3>1. \A s \in Spinners : Len(NoEntries[s]) = 1
      BY DEF NoEntries
    <3> HIDE DEF NoEntries
    <3>2. ASSUME NEW s \in Panel, Entries[s] = NoEntries[s] PROVE FALSE
      <4>1. Len(Entries[s]) = 1 /\ Len(Entries[s]) > 1
        BY <2>5, <3>1, <3>2, Zenon
      <4> QED BY <4>1
    <3> QED BY <3>2
  <2>7. ToSet(queue) \subseteq Spinners \cup {"layout", "ftm", "start"}
    <3>1. ToSet(queue) \subseteq Messages
      BY <2>1, ElementOfSeq, LenProperties DEF ToSet
    <3> QED BY <3>1, MessageKinds DEF Messages, Buttons
  <2>8. asked \in {"none"} \cup ToSet(Entries.TxRx)
    <3>1. Entries["TxRx"] = <<"tx", "rx", "unmodulated">>
      BY <2>2 DEF Usual
    <3>2. ToSet(<<"tx", "rx", "unmodulated">>) = Directions
      BY DEF ToSet, Directions
    <3> QED BY <3>1, <3>2 DEF Flags
  <2> QED BY <2>1, <2>3, <2>4, <2>5, <2>6, <2>7, <2>8 DEF TypeOK, Flags
<1> QED BY <1>1, Invariant, FlagsInvariant, PTL

(* While nobody taps too early a click is alone in the queue, and while a   *)
(* test runs nothing but its stop is.                                       *)
Calm ==
    /\ capture => asked = "rx" /\ fields.TxRx = "rx"
    /\ early = 0 =>
          /\ \A b \in Buttons : Told(b) => queue = <<b>>
          /\ Told("start") => startClickable
          /\ ~start => asked = "none"
          /\ start => /\ locked /\ asked = fields.TxRx
                      /\ \/ queue = <<>> \/ queue = <<"start">>
                         \/ queue = <<"layout">> /\ shown = {} /\ starts # 0
                      /\ starts = 0 => startClickable


LEMMA CalmHandled ==
    ASSUME Inv, Flags, Calm, Handle
    PROVE  Calm'
<1> DEFINE h == Head(queue)
           rest == Tail(queue)
<1>1. /\ queue # <<>> /\ screen' = screen /\ early' = early /\ starts' = starts
  BY DEF Handle, userVars
<1>2. /\ rest \in Seq(Messages) /\ Orderly(rest) /\ h \in Messages
      /\ \A e : Told(e) <=> e = h \/ Contains(rest, e)
  BY <1>1, Taken DEF Inv, Typed
<1>3. early = 0 => \A b \in Buttons : Told(b) => queue = <<b>> /\ h = b /\ rest = <<>>
  <2>1. \A b : queue = <<b>> => h = b /\ rest = <<>>
    OBVIOUS
  <2> HIDE DEF h, rest
  <2>2. early = 0 => \A b \in Buttons : Told(b) => queue = <<b>>
    BY DEF Calm
  <2> QED BY <2>1, <2>2
<1>4. ASSUME early = 0, h \notin Buttons
      PROVE  /\ \A b \in Buttons : ~Contains(rest, b)
             /\ start => h = "layout" /\ rest = <<>> /\ shown = {} /\ starts # 0
             /\ ~start => asked = "none"
             /\ start => locked /\ asked = fields.TxRx
  <2>1. \A b \in Buttons : ~Contains(rest, b)
    BY <1>2, <1>3, <1>4
  <2>2. start => queue # <<"start">>
    BY <1>4 DEF Buttons
  <2>3. queue = <<"layout">> => h = "layout" /\ rest = <<>>
    OBVIOUS
  <2> QED BY <1>1, <1>4, <2>1, <2>2, <2>3 DEF Calm
<1> HIDE DEF h, rest
<1>5. CASE h = "layout" /\ Layout(rest)
  <2>1. h \notin Buttons
    BY <1>5, MessageKinds
  <2>2. /\ UNCHANGED <<fields, pos, shown, ftm, start, startClickable, locked, capture, asked>>
        /\ queue' = rest \o Notifiers
    BY <1>5 DEF Layout
  <2>3. shown \subseteq Panel /\ shown \subseteq Spinners
    BY MessageKinds DEF Inv, Typed
  <2>4. Changed \subseteq Spinners /\ Changed \subseteq Messages /\ (shown = {} => Changed = {})
    BY <2>3 DEF Changed, Messages
  <2>5. /\ Notifiers \in Seq(Changed) /\ Len(Notifiers) = Cardinality(Changed)
        /\ \A m : Contains(Notifiers, m) <=> m \in Changed
    BY <2>3, NotifiersTell
  <2>6. Notifiers \in Seq(Messages)
    BY <2>4, <2>5
  <2>7. \A e : Contains(rest \o Notifiers, e) <=> Contains(rest, e) \/ Contains(Notifiers, e)
    BY ONLY <1>2, <2>6, ConcatContains
  <2>8. early = 0 => \A b \in Buttons : ~Told(b)'
    BY <1>4, <2>1, <2>2, <2>4, <2>5, <2>7, MessageKinds DEF Told
  <2>9. early = 0 /\ start => queue' = <<>>
    <3>1. early = 0 /\ start => rest = <<>> /\ Changed = {}
      BY <1>4, <2>1, <2>4
    <3>2. Changed = {} => Notifiers = <<>>
      BY <2>5, FS_EmptySet, EmptySeq
    <3> QED BY <2>2, <3>1, <3>2
  <2>10. "start" \in Buttons
    BY DEF Buttons
  <2>11. early = 0 => (~start => asked = "none") /\ (start => locked /\ asked = fields.TxRx /\ starts # 0)
    BY <1>4, <2>1
  <2>12. capture' => asked' = "rx" /\ fields'.TxRx = "rx"
    BY <2>2 DEF Calm
  <2> QED BY <1>1, <2>2, <2>8, <2>9, <2>10, <2>11, <2>12 DEF Calm
<1>6. CASE h \in Spinners /\ OnItemSelected(h, rest)
  <2>1. h \notin Buttons /\ h # "layout"
    BY <1>6, MessageKinds
  <2>2. UNCHANGED <<ftm, start, locked, asked>>
    BY <1>6 DEF OnItemSelected
  <2>3. RequestLayout(rest) \/ queue' = rest
    BY <1>6 DEF OnItemSelected, UpdateSettings, Listen
  <2>4. \A b \in Buttons : Told(b)' => Contains(rest, b)
    BY <1>2, <2>3, LayoutRequested, MessageKinds DEF Told
  <2>5. capture' => capture /\ fields'.TxRx = fields.TxRx
    <3>1. \/ capture' = FALSE
          \/ /\ h \notin Resetters
             /\ Listen(h, [fields EXCEPT ![Field(h)] = Selected(h)], rest)
      BY <1>6 DEF OnItemSelected, UpdateSettings, Resetters, WidthSpins
    <3>2. ASSUME h \notin Resetters, Listen(h, [fields EXCEPT ![Field(h)] = Selected(h)], rest)
          PROVE  capture' = capture /\ fields'.TxRx = fields.TxRx
      <4>1. Field(h) # "TxRx" /\ Field(h) \in FieldNames
        BY <1>6, <3>2, FieldKinds DEF Resetters, Rated, Bandwidths
      <4>2. fields = [f \in FieldNames |-> fields[f]] /\ "TxRx" \in FieldNames
        BY DEF Inv, Typed, IsFields, FieldNames
      <4> DEFINE g == [fields EXCEPT ![Field(h)] = Selected(h)]
      <4>3. g["TxRx"] = fields["TxRx"] /\ g = [f \in FieldNames |-> g[f]]
        BY <4>1, <4>2
      <4> HIDE DEF g
      <4>4. \/ fields' = g
            \/ fields' = [g EXCEPT !["Sideband"] = SidebandOf(g.channel)]
        BY <3>2 DEF Listen, g
      <4>5. capture' = capture
        BY <3>2 DEF Listen
      <4> QED BY <4>2, <4>3, <4>4, <4>5
    <3> QED BY <3>1, <3>2
  <2>6. early = 0 => ~start /\ asked = "none" /\ \A b \in Buttons : ~Told(b)'
    BY <1>4, <2>1, <2>4
  <2>7. "start" \in Buttons
    BY DEF Buttons
  <2>8. capture' => asked' = "rx" /\ fields'.TxRx = "rx"
    BY <2>2, <2>5 DEF Calm
  <2> QED BY <1>1, <2>2, <2>6, <2>7, <2>8 DEF Calm
<1>7. CASE h = "ftm" /\ ClickFtm(rest)
  <2>1. "ftm" \in Buttons /\ "start" \in Buttons /\ Told("ftm")
    BY <1>2, <1>7 DEF Buttons
  <2>2. early = 0 => queue = <<"ftm">> /\ rest = <<>> /\ ~start /\ asked = "none"
    <3>1. early = 0 => queue = <<"ftm">> /\ rest = <<>>
      BY <1>3, <2>1
    <3>2. <<"ftm">> # <<>> /\ <<"ftm">> # <<"start">> /\ <<"ftm">> # <<"layout">>
      OBVIOUS
    <3> QED BY <3>1, <3>2 DEF Calm
  <2>3. UNCHANGED <<start, locked, asked>>
    BY <1>7 DEF ClickFtm
  <2>4. RequestLayout(rest) \/ queue' = rest
    BY <1>7 DEF ClickFtm, UpdateSettings, RemoveSettings
  <2>5. early = 0 => \A b \in Buttons : ~Told(b)'
    <3>1. \A b \in Buttons : Told(b)' => Contains(rest, b)
      BY <1>2, <2>4, LayoutRequested, MessageKinds DEF Told
    <3> QED BY <2>2, <3>1, NothingContained
  <2>6. capture' => capture /\ fields'.TxRx = fields.TxRx
    BY <1>7 DEF ClickFtm, UpdateSettings, RemoveSettings
  <2>7. capture' => asked' = "rx" /\ fields'.TxRx = "rx"
    BY <2>3, <2>6 DEF Calm
  <2> QED BY <1>1, <2>1, <2>2, <2>3, <2>5, <2>7 DEF Calm
<1>8. CASE h = "start" /\ ClickStart(rest)
  <2>1. "start" \in Buttons /\ Told("start")
    BY <1>2, <1>8 DEF Buttons
  <2>2. early = 0 => /\ rest = <<>> /\ startClickable
                     /\ (start => asked = fields.TxRx) /\ (~start => asked = "none")
    BY <1>3, <2>1 DEF Calm
  <2>3. queue' = rest /\ UNCHANGED <<fields, startClickable>>
    BY <1>8 DEF ClickStart
  <2>4. early = 0 => queue' = <<>> /\ \A b \in Buttons : ~Told(b)'
    BY <2>2, <2>3, NothingContained DEF Told
  <2>5. CASE ~start
    <3>1. /\ start' = ~start /\ locked' = TRUE /\ asked' = fields.TxRx
          /\ capture' = (capture \/ fields.TxRx = "rx")
      BY <1>8, <2>5 DEF ClickStart, DisableSpin
    <3>2. capture' => asked' = "rx" /\ fields'.TxRx = "rx"
      BY <2>3, <3>1 DEF Calm
    <3> QED BY <1>1, <2>1, <2>2, <2>3, <2>4, <2>5, <3>1, <3>2 DEF Calm
  <2>6. CASE start
    <3>1. /\ start' = ~start /\ asked' = StopEnds(fields.TxRx) /\ capture' = StopHidesCapture
      BY <1>8, <2>6 DEF ClickStart
    <3>2. ~capture'
      BY <3>1 DEF StopHidesCapture, Calm
    <3>3. early = 0 => asked' = "none"
      BY <2>2, <2>6, <3>1 DEF StopEnds
    <3> QED BY <1>1, <2>1, <2>4, <2>6, <3>1, <3>2, <3>3 DEF Calm
  <2> QED BY <2>5, <2>6
<1> QED BY <1>5, <1>6, <1>7, <1>8 DEF Handle, h, rest

LEMMA CalmKept == Inv /\ Flags /\ Calm /\ [Next]_vars => Calm'
<1> SUFFICES ASSUME Inv, Flags, Calm, [Next]_vars PROVE Calm'
  OBVIOUS
<1>1. \A b \in Buttons : b # "layout"
  BY DEF Buttons
<1>2. early \in Nat /\ starts \in Nat /\ start \in BOOLEAN
  BY BoundsAssumption DEF Flags
<1>3. CASE OnStart
  <2>1. /\ queue' = <<"layout">> /\ shown' = {} /\ ~capture' /\ starts' = starts + 1
        /\ UNCHANGED <<fields, start, locked, asked, early>>
    BY <1>3, NothingContained DEF OnStart, Settled, RequestLayout
  <2>2. \A b \in Buttons : ~Told(b)'
    BY <1>1, <2>1 DEF Told, Contains
  <2>3. "start" \in Buttons /\ starts' # 0
    BY <1>2, <2>1 DEF Buttons
  <2> QED BY <2>1, <2>2, <2>3 DEF Calm
<1>4. ASSUME NEW s \in Spinners, NEW p \in 0..(Len(Entries[s]) - 1), Choose(s, p) PROVE Calm'
  <2>1. /\ queue' = <<"layout">> /\ ~locked
        /\ UNCHANGED <<fields, start, startClickable, locked, capture, asked, early, starts>>
    BY <1>4, NothingContained DEF Choose, Settled, RequestLayout
  <2>2. \A b \in Buttons : ~Told(b)'
    BY <1>1, <2>1 DEF Told, Contains
  <2>3. "start" \in Buttons
    BY DEF Buttons
  <2> QED BY <2>1, <2>2, <2>3 DEF Calm
<1>5. ASSUME NEW button \in Buttons, TapButton(button) PROVE Calm'
  <2>1. /\ queue' = Append(queue, button)
        /\ UNCHANGED <<fields, shown, start, startClickable, locked, capture, asked, starts>>
        /\ early' = IF queue = <<>> THEN early ELSE early + 1
        /\ button = "start" => startClickable
        /\ button = "ftm" => ~locked
    BY <1>5 DEF TapButton, screenVars, Settled
  <2>2. early' = 0 => early = 0 /\ queue' = <<button>>
    <3>1. queue = <<>> => queue' = <<button>>
      BY <2>1
    <3>2. queue # <<>> => early' # 0
      BY <1>2, <2>1
    <3> QED BY <2>1, <3>1, <3>2
  <2>3. queue' = <<button>> => \A b \in Buttons : Told(b)' => b = button
    BY DEF Told, Contains
  <2>4. early' = 0 /\ start => button = "start"
    BY <2>1, <2>2 DEF Calm, Buttons
  <2>5. "start" \in Buttons
    BY DEF Buttons
  <2>6. capture' => asked' = "rx" /\ fields'.TxRx = "rx"
    BY <2>1 DEF Calm
  <2> QED BY <2>1, <2>2, <2>3, <2>4, <2>5, <2>6 DEF Calm
<1>6. CASE UNCHANGED vars
  BY <1>6 DEF vars, screenVars, userVars, Calm, Told
<1>7. CASE Handle
  BY <1>7, CalmHandled
<1> QED BY <1>3, <1>4, <1>5, <1>6, <1>7 DEF Next, Buttons

(* Who taps no faster than the screen settles stops what he started, and    *)
(* packets can be asked for only while a test receives.                     *)
THEOREM StopsWhatRunsHolds == Spec => []StopsWhatRuns
<1>1. Init => Calm
  <2> SUFFICES ASSUME Init PROVE Calm
    OBVIOUS
  <2>1. queue = <<>> /\ capture = FALSE /\ start = FALSE /\ asked = "none"
    BY DEF Init
  <2>2. \A e : ~Told(e)
    BY <2>1, NothingContained DEF Told
  <2> QED BY <2>1, <2>2 DEF Calm
<1>2. Spec => []Calm
  BY <1>1, CalmKept, Invariant, FlagsInvariant, PTL DEF Spec
<1>3. Inv /\ Calm => StopsWhatRuns
  <2> SUFFICES ASSUME Inv, Calm PROVE StopsWhatRuns
    OBVIOUS
  <2>1. fields.TxRx # "none"
    BY DEF Inv, Typed, IsFields, Directions
  <2> QED BY <2>1 DEF Calm, StopsWhatRuns
<1> QED BY <1>2, <1>3, Invariant, PTL

=============================================================================
