--------------------------- MODULE ChanspecProofs ----------------------------
EXTENDS Chanspec, FiniteSetTheorems, TLAPS

(* The bits of a byte, and what Or makes of fields that do not overlap.     *)

Weigh(n, p) == p * Bit(n, p)
LEMMA ByteBits ==
    ASSUME NEW n \in Nat, n < 256
    PROVE  n = Weigh(n, 1) + Weigh(n, 2) + Weigh(n, 4) + Weigh(n, 8)
               + Weigh(n, 16) + Weigh(n, 32) + Weigh(n, 64) + Weigh(n, 128)
<1>1. /\ n \div 1 = n /\ (n \div 2) \div 2 = n \div 4 /\ (n \div 4) \div 2 = n \div 8
      /\ (n \div 8) \div 2 = n \div 16
  OBVIOUS
<1>2. /\ (n \div 16) \div 2 = n \div 32
      /\ (n \div 32) \div 2 = n \div 64 /\ (n \div 64) \div 2 = n \div 128
      /\ n \div 128 \in {0, 1}
  OBVIOUS
<1> QED BY <1>1, <1>2 DEF Weigh, Bit

LEMMA ChanspecRange ==
    \A c : c \in chanspec_t <=> c \in Nat /\ c < 65536
<1>1. Top \in Int /\ Top + 1 = 65536
  BY SMT DEF Top
<1> QED BY <1>1, SMT DEF chanspec_t

LEMMA OrOfFourRange ==
    ASSUME NEW m, NEW n, NEW p \in Nat
    PROVE  OrOfFour(m, n, p) \in Nat /\ OrOfFour(m, n, p) <= 15 * p
<1>1. /\ EitherBit(m, n, p) \in {0, p} /\ EitherBit(m, n, 2 * p) \in {0, 2 * p}
      /\ EitherBit(m, n, 4 * p) \in {0, 4 * p} /\ EitherBit(m, n, 8 * p) \in {0, 8 * p}
  BY DEF EitherBit
<1> QED BY <1>1 DEF OrOfFour

LEMMA OrRange ==
    ASSUME NEW m \in Nat, NEW n \in Nat
    PROVE  Or(m, n) \in chanspec_t
<1>1. /\ OrOfFour(m, n, 1) \in Nat /\ OrOfFour(m, n, 1) <= 15
      /\ OrOfFour(m, n, 16) \in Nat /\ OrOfFour(m, n, 16) <= 240
      /\ OrOfFour(m, n, 256) \in Nat /\ OrOfFour(m, n, 256) <= 3840
      /\ OrOfFour(m, n, 4096) \in Nat /\ OrOfFour(m, n, 4096) <= 61440
  BY OrOfFourRange, SMT
<1> QED BY <1>1, ChanspecRange, SMT DEF Or

LEMMA EitherLow ==
    ASSUME NEW h \in Nat, NEW n \in Nat, h < 256, n < 256
    PROVE  /\ EitherBit(256 * h, n, 1) = Weigh(n, 1) /\ EitherBit(256 * h, n, 2) = Weigh(n, 2)
           /\ EitherBit(256 * h, n, 4) = Weigh(n, 4) /\ EitherBit(256 * h, n, 8) = Weigh(n, 8)
           /\ EitherBit(256 * h, n, 16) = Weigh(n, 16) /\ EitherBit(256 * h, n, 32) = Weigh(n, 32)
           /\ EitherBit(256 * h, n, 64) = Weigh(n, 64) /\ EitherBit(256 * h, n, 128) = Weigh(n, 128)
<1>1. /\ Bit(256 * h, 1) = 0 /\ Bit(256 * h, 2) = 0 /\ Bit(256 * h, 4) = 0
      /\ Bit(256 * h, 8) = 0 /\ Bit(256 * h, 16) = 0 /\ Bit(256 * h, 32) = 0
      /\ Bit(256 * h, 64) = 0 /\ Bit(256 * h, 128) = 0
  BY DEF Bit
<1>2. \A p \in {1, 2, 4, 8, 16, 32, 64, 128} : Bit(n, p) \in {0, 1}
  BY DEF Bit
<1>3. ASSUME NEW p \in {1, 2, 4, 8, 16, 32, 64, 128}, Bit(256 * h, p) = 0
      PROVE  EitherBit(256 * h, n, p) = Weigh(n, p)
  BY <1>2, <1>3 DEF EitherBit, Weigh
<1> QED BY <1>1, <1>3

LEMMA EitherHigh ==
    ASSUME NEW h \in Nat, NEW n \in Nat, h < 256, n < 256
    PROVE  /\ EitherBit(256 * h, n, 256) = 256 * Weigh(h, 1)
           /\ EitherBit(256 * h, n, 512) = 256 * Weigh(h, 2)
           /\ EitherBit(256 * h, n, 1024) = 256 * Weigh(h, 4)
           /\ EitherBit(256 * h, n, 2048) = 256 * Weigh(h, 8)
           /\ EitherBit(256 * h, n, 4096) = 256 * Weigh(h, 16)
           /\ EitherBit(256 * h, n, 8192) = 256 * Weigh(h, 32)
           /\ EitherBit(256 * h, n, 16384) = 256 * Weigh(h, 64)
           /\ EitherBit(256 * h, n, 32768) = 256 * Weigh(h, 128)
<1>1. /\ Bit(n, 256) = 0 /\ Bit(n, 512) = 0 /\ Bit(n, 1024) = 0 /\ Bit(n, 2048) = 0
      /\ Bit(n, 4096) = 0 /\ Bit(n, 8192) = 0 /\ Bit(n, 16384) = 0 /\ Bit(n, 32768) = 0
  BY SMT DEF Bit
<1>2. /\ Bit(256 * h, 256) = Bit(h, 1) /\ Bit(256 * h, 512) = Bit(h, 2)
      /\ Bit(256 * h, 1024) = Bit(h, 4) /\ Bit(256 * h, 2048) = Bit(h, 8)
  BY SMT DEF Bit
<1>3. /\ Bit(256 * h, 4096) = Bit(h, 16) /\ Bit(256 * h, 8192) = Bit(h, 32)
      /\ Bit(256 * h, 16384) = Bit(h, 64) /\ Bit(256 * h, 32768) = Bit(h, 128)
  BY SMT DEF Bit
<1>4. \A p \in {1, 2, 4, 8, 16, 32, 64, 128} : Bit(h, p) \in {0, 1}
  BY DEF Bit
<1>5. ASSUME NEW p \in {1, 2, 4, 8, 16, 32, 64, 128},
             Bit(n, 256 * p) = 0, Bit(256 * h, 256 * p) = Bit(h, p)
      PROVE  EitherBit(256 * h, n, 256 * p) = 256 * Weigh(h, p)
  <2>1. Bit(h, p) \in {0, 1}
    BY <1>4
  <2> QED BY <1>5, <2>1 DEF EitherBit, Weigh
<1>6. /\ 256 * 1 = 256 /\ 256 * 2 = 512 /\ 256 * 4 = 1024 /\ 256 * 8 = 2048
      /\ 256 * 16 = 4096 /\ 256 * 32 = 8192 /\ 256 * 64 = 16384 /\ 256 * 128 = 32768
  BY SMT
<1> QED BY <1>1, <1>2, <1>3, <1>5, <1>6, SMT

LEMMA OrJoins ==
    ASSUME NEW h \in Nat, NEW n \in Nat, h < 256, n < 256
    PROVE  Or(256 * h, n) = 256 * h + n
<1> DEFINE W(m, p) == Weigh(m, p)
<1>1. ASSUME NEW m \in Nat
      PROVE  /\ W(m, 1) \in Int /\ W(m, 2) \in Int /\ W(m, 4) \in Int /\ W(m, 8) \in Int
             /\ W(m, 16) \in Int /\ W(m, 32) \in Int /\ W(m, 64) \in Int /\ W(m, 128) \in Int
  BY SMT DEF Weigh, Bit
<1>2. /\ 2 * 1 = 2 /\ 4 * 1 = 4 /\ 8 * 1 = 8 /\ 2 * 16 = 32 /\ 4 * 16 = 64 /\ 8 * 16 = 128
      /\ 2 * 256 = 512 /\ 4 * 256 = 1024 /\ 8 * 256 = 2048
      /\ 2 * 4096 = 8192 /\ 4 * 4096 = 16384 /\ 8 * 4096 = 32768
  BY SMT
<1>3. OrOfFour(256 * h, n, 1) = W(n, 1) + W(n, 2) + W(n, 4) + W(n, 8)
  BY <1>2, EitherLow, SMT DEF OrOfFour
<1>4. OrOfFour(256 * h, n, 16) = W(n, 16) + W(n, 32) + W(n, 64) + W(n, 128)
  BY <1>2, EitherLow, SMT DEF OrOfFour
<1>5. OrOfFour(256 * h, n, 256) = 256 * W(h, 1) + 256 * W(h, 2) + 256 * W(h, 4) + 256 * W(h, 8)
  BY <1>2, EitherHigh, SMT DEF OrOfFour
<1>6. OrOfFour(256 * h, n, 4096)
        = 256 * W(h, 16) + 256 * W(h, 32) + 256 * W(h, 64) + 256 * W(h, 128)
  BY <1>2, EitherHigh, SMT DEF OrOfFour
<1>7. /\ n = W(n, 1) + W(n, 2) + W(n, 4) + W(n, 8) + W(n, 16) + W(n, 32) + W(n, 64) + W(n, 128)
      /\ h = W(h, 1) + W(h, 2) + W(h, 4) + W(h, 8) + W(h, 16) + W(h, 32) + W(h, 64) + W(h, 128)
  BY ByteBits
<1> HIDE DEF W
<1> QED BY <1>1, <1>3, <1>4, <1>5, <1>6, <1>7, SMT DEF Or

(* A chanspec, by its fields.                                               *)
Of(band, bw, sb, ch) == 16384 * band + 2048 * bw + 256 * sb + ch

LEMMA FieldsOf ==
    ASSUME NEW band \in 0..3, NEW bw \in 0..7, NEW sb \in 0..7, NEW ch \in Nat, ch < 256
    PROVE  /\ Of(band, bw, sb, ch) \in chanspec_t
           /\ CHSPEC_BAND(Of(band, bw, sb, ch)) = band
           /\ CHSPEC_BW(Of(band, bw, sb, ch)) = bw
           /\ CHSPEC_CTL_SB(Of(band, bw, sb, ch)) = sb
           /\ CHSPEC_CHANNEL(Of(band, bw, sb, ch)) = ch
<1> DEFINE c == Of(band, bw, sb, ch)
<1>1. c \div 256 = 64 * band + 8 * bw + sb /\ c % 256 = ch
  BY SMT DEF Of
<1>2. c \div 2048 = 8 * band + bw /\ c \div 16384 = band
  BY SMT DEF Of
<1>3. c \in Nat /\ c < 65536
  BY SMT DEF Of
<1>4. (64 * band + 8 * bw + sb) % 8 = sb /\ (8 * band + bw) % 8 = bw
  BY SMT
<1> QED BY <1>1, <1>2, <1>3, <1>4, ChanspecRange, SMT
        DEF CHSPEC_BAND, CHSPEC_BW, CHSPEC_CTL_SB, CHSPEC_CHANNEL

LEMMA OfFields ==
    ASSUME NEW c \in chanspec_t
    PROVE  /\ CHSPEC_BAND(c) \in 0..3 /\ CHSPEC_BW(c) \in 0..7 /\ CHSPEC_CTL_SB(c) \in 0..7
           /\ CHSPEC_CHANNEL(c) \in Nat /\ CHSPEC_CHANNEL(c) < 256
           /\ c = Of(CHSPEC_BAND(c), CHSPEC_BW(c), CHSPEC_CTL_SB(c), CHSPEC_CHANNEL(c))
<1>1. c \in Nat /\ c < 65536
  BY ChanspecRange
<1> DEFINE q == c \div 256
           r == c \div 2048
           s == c \div 16384
<1>2. c = 256 * q + (c % 256) /\ q \in Nat /\ q < 256
  BY <1>1, SMT
<1>3. r = q \div 8 /\ s = r \div 8
  BY <1>1, SMT
<1>4. q = 8 * (q \div 8) + (q % 8) /\ r \in Nat /\ r < 32
  BY <1>2, <1>3, SMT
<1>5. r = 8 * (r \div 8) + (r % 8) /\ s \in Nat /\ s < 4
  BY <1>3, <1>4, SMT
<1>6. q % 8 \in 0..7 /\ r % 8 \in 0..7 /\ c % 256 \in Nat /\ c % 256 < 256
  BY <1>1, <1>2, <1>4, SMT
<1>7. c = 16384 * s + 2048 * (r % 8) + 256 * (q % 8) + (c % 256)
  BY <1>1, <1>2, <1>3, <1>4, <1>5, SMT
<1> QED BY <1>1, <1>5, <1>6, <1>7, SMT
        DEF Of, CHSPEC_BAND, CHSPEC_BW, CHSPEC_CTL_SB, CHSPEC_CHANNEL

LEMMA ComposeIsOf ==
    ASSUME NEW band \in 0..3, NEW bw \in 0..7, NEW sb \in 0..7, NEW ch \in Nat, ch < 256
    PROVE  Compose(band, bw, sb, ch) = Of(band, bw, sb, ch)
<1>1. 64 * band + 8 * bw + sb \in Nat /\ 64 * band + 8 * bw + sb < 256
  BY SMT
<1>2. 16384 * band + 2048 * bw + 256 * sb = 256 * (64 * band + 8 * bw + sb)
  BY SMT
<1> QED BY <1>1, <1>2, OrJoins DEF Compose, Of
(* The lists: closed forms, the distances of the centers, and which of the  *)
(* channels around a center is the control channel.                         *)
Wide == {40, 80, 160}
Slots20(mhz) == mhz \div 20
Reach(mhz) == center_chan_to_edge(mhz)

LEMMA Widths ==
    /\ Reach(20) = 0 /\ Reach(40) = 2 /\ Reach(80) = 6 /\ Reach(160) = 14
    /\ Slots20(20) = 1 /\ Slots20(40) = 2 /\ Slots20(80) = 4 /\ Slots20(160) = 8
  BY DEF Reach, Slots20, center_chan_to_edge

LEMMA List40 ==
    /\ DOMAIN wf_5g_40m_chans = 1..12
    /\ \A n \in 1..12 : wf_5g_40m_chans[n] =
           8 * n + (IF n <= 4 THEN 30 ELSE IF n <= 10 THEN 62 ELSE 63)
  BY DEF wf_5g_40m_chans

LEMMA List80 ==
    /\ DOMAIN wf_5g_80m_chans = 1..6
    /\ \A n \in 1..6 : wf_5g_80m_chans[n] =
           16 * n + (IF n <= 2 THEN 26 ELSE IF n <= 5 THEN 58 ELSE 59)
  BY DEF wf_5g_80m_chans

LEMMA List160 ==
    /\ DOMAIN wf_5g_160m_chans = 1..2
    /\ wf_5g_160m_chans[1] = 50 /\ wf_5g_160m_chans[2] = 114
  BY DEF wf_5g_160m_chans

LEMMA CentersAre ==
    ASSUME NEW mhz \in Wide, NEW n \in DOMAIN Centers(mhz)
    PROVE  /\ n \in Nat /\ Centers(mhz)[n] \in Nat
           /\ Centers(mhz)[n] - Reach(mhz) >= 36 /\ Centers(mhz)[n] + Reach(mhz) <= 161
<1>1. CASE mhz = 40
  BY <1>1, List40, Widths DEF Centers
<1>2. CASE mhz = 80
  BY <1>2, List80, Widths DEF Centers
<1>3. CASE mhz = 160
  BY <1>3, List160, Widths DEF Centers
<1> QED BY <1>1, <1>2, <1>3 DEF Wide

LEMMA Spaced ==
    ASSUME NEW mhz \in Wide, NEW m \in DOMAIN Centers(mhz), NEW n \in DOMAIN Centers(mhz), m < n
    PROVE  Centers(mhz)[m] + 4 * Slots20(mhz) <= Centers(mhz)[n]
<1>1. CASE mhz = 40
  BY <1>1, List40, Widths DEF Centers
<1>2. CASE mhz = 80
  BY <1>2, List80, Widths DEF Centers
<1>3. CASE mhz = 160
  BY <1>3, List160, Widths DEF Centers
<1> QED BY <1>1, <1>2, <1>3 DEF Wide

LEMMA SidebandIs ==
    ASSUME NEW mhz \in {20, 40, 80, 160}, NEW ctl \in Nat,
           NEW center \in Nat, center >= Reach(mhz), center < 256
    PROVE  LET sb == channel_to_sb(center, ctl, mhz)
           IN  /\ sb \in Int /\ sb < Slots20(mhz)
               /\ sb >= 0 => ctl = center - Reach(mhz) + 4 * sb
               /\ \A k \in Nat : k < Slots20(mhz) /\ ctl = center - Reach(mhz) + 4 * k => sb = k
<1> DEFINE low == center - Reach(mhz)
           d == ctl - low
           sb == channel_to_sb(center, ctl, mhz)
<1>1. Reach(mhz) \in Nat /\ Slots20(mhz) \in Nat /\ Slots20(mhz) >= 1
  BY Widths
<1>2. channel_low_edge(center, mhz) = low
  BY <1>1 DEF channel_low_edge, Reach
<1>3. sb = IF d % 4 # 0 \/ d < 0 \/ TooHigh(d \div 4, mhz) THEN -1 ELSE d \div 4
  BY <1>2 DEF channel_to_sb
<1>4. TooHigh(d \div 4, mhz) <=> d \div 4 >= Slots20(mhz)
  BY DEF TooHigh, Slots20
<1>5. d \in Int
  BY <1>1
<1> HIDE DEF sb, d
<1>6. sb \in Int /\ sb < Slots20(mhz) /\ (sb >= 0 => d = 4 * sb)
  BY <1>1, <1>3, <1>4, <1>5
<1>7. ASSUME NEW k \in Nat, k < Slots20(mhz), d = 4 * k
      PROVE  sb = k
  BY <1>1, <1>3, <1>4, <1>5, <1>7
<1> QED BY <1>1, <1>6, <1>7 DEF sb, d

LEMMA AroundOne ==
    ASSUME NEW mhz \in Wide, NEW n \in DOMAIN Centers(mhz), NEW k \in Nat, k < Slots20(mhz)
    PROVE  Around(Centers(mhz)[n] - Reach(mhz) + 4 * k, mhz) = <<Centers(mhz)[n], k>>
<1> DEFINE ctl == Centers(mhz)[n] - Reach(mhz) + 4 * k
           fit == {m \in DOMAIN Centers(mhz) : channel_to_sb(Centers(mhz)[m], ctl, mhz) >= 0}
<1>1. /\ mhz \in {20, 40, 80, 160} /\ Slots20(mhz) \in Nat /\ Reach(mhz) \in Nat
      /\ ctl \in Nat /\ Reach(mhz) = 2 * (Slots20(mhz) - 1)
  BY CentersAre, Widths DEF Wide
<1>2. \A m \in DOMAIN Centers(mhz) : /\ Centers(mhz)[m] \in Nat /\ Centers(mhz)[m] >= Reach(mhz)
                                     /\ Centers(mhz)[m] < 256
  BY <1>1, CentersAre
<1>3. channel_to_sb(Centers(mhz)[n], ctl, mhz) = k
  BY <1>1, <1>2, SidebandIs
<1>4. ASSUME NEW m \in fit
      PROVE  m = n
  <2>1. PICK j \in Int : j >= 0 /\ j < Slots20(mhz) /\ ctl = Centers(mhz)[m] - Reach(mhz) + 4 * j
    BY <1>1, <1>2, SidebandIs
  <2>2. m \in Nat /\ n \in Nat
    BY CentersAre
  <2>3. ~(m < n) /\ ~(n < m)
    BY <1>1, <1>2, <2>1, Spaced
  <2> QED BY <2>2, <2>3
<1>5. fit = {n} /\ n \in Nat
  BY <1>3, <1>4, CentersAre
<1>6. Min(fit) = n
  BY <1>5 DEF Min
<1>7. ASSUME NEW x, {m \in DOMAIN Centers(mhz) : channel_to_sb(Centers(mhz)[m], x, mhz) >= 0} = {n},
             Min({n}) = n, channel_to_sb(Centers(mhz)[n], x, mhz) = k
      PROVE  Around(x, mhz) = <<Centers(mhz)[n], k>>
  BY <1>7 DEF Around
<1> HIDE DEF ctl
<1>8. Around(ctl, mhz) = <<Centers(mhz)[n], k>>
  BY <1>3, <1>5, <1>6, <1>7
<1> QED BY <1>8 DEF ctl

LEMMA AroundOnly ==
    ASSUME NEW mhz \in Wide, NEW ctl \in Nat, Around(ctl, mhz) # <<>>
    PROVE  \E n \in DOMAIN Centers(mhz), k \in Nat :
              /\ k < Slots20(mhz) /\ ctl = Centers(mhz)[n] - Reach(mhz) + 4 * k
              /\ Around(ctl, mhz) = <<Centers(mhz)[n], k>>
<1> DEFINE fit == {m \in DOMAIN Centers(mhz) : channel_to_sb(Centers(mhz)[m], ctl, mhz) >= 0}
<1>1. PICK n \in fit : TRUE
  BY DEF Around
<1>2. mhz \in {20, 40, 80, 160} /\ Slots20(mhz) \in Nat /\ Reach(mhz) \in Nat
  BY Widths DEF Wide
<1>3. n \in DOMAIN Centers(mhz) /\ channel_to_sb(Centers(mhz)[n], ctl, mhz) >= 0
  OBVIOUS
<1>4. /\ Centers(mhz)[n] \in Nat /\ Centers(mhz)[n] >= Reach(mhz) /\ Centers(mhz)[n] < 256
  BY <1>2, <1>3, CentersAre
<1> DEFINE k == channel_to_sb(Centers(mhz)[n], ctl, mhz)
<1>5. k \in Nat /\ k < Slots20(mhz) /\ ctl = Centers(mhz)[n] - Reach(mhz) + 4 * k
  BY <1>2, <1>3, <1>4, SidebandIs
<1> HIDE DEF k, fit
<1> QED BY <1>3, <1>5, AroundOne
(* What is well-formed, and what is valid, field by field.                  *)
Codes == /\ BW.b20 = 2 /\ BW.b40 = 3 /\ BW.b80 = 4 /\ BW.b160 = 5 /\ BW.b8080 = 6
         /\ Band2G = 0 /\ Band5G = 3
LEMMA CodesAre == Codes
  BY DEF Codes, BW, Band2G, Band5G

Mhz(c) == bw_chspec_to_mhz(CHSPEC_BW(c))
LEMMA MhzIs ==
    /\ bw_chspec_to_mhz(2) = 20 /\ bw_chspec_to_mhz(3) = 40
    /\ bw_chspec_to_mhz(4) = 80 /\ bw_chspec_to_mhz(5) = 160
  BY DEF bw_chspec_to_mhz

Singles == {34, 38, 42, 46} \cup {m - 2 : m \in Elements(wf_5g_40m_chans)}
                            \cup {m + 2 : m \in Elements(wf_5g_40m_chans)}
WellFormed(band, bw, sb, ch) ==
    \/ band = 0 /\ bw = 2 /\ sb = 0
    \/ band = 0 /\ bw = 3 /\ sb <= 1
    \/ band = 3 /\ bw = 2 /\ sb = 0 /\ ch <= 224
    \/ band = 3 /\ bw \in 3..5 /\ sb < Slots20(bw_chspec_to_mhz(bw)) /\ ch <= 224
Allowed(band, bw, sb, ch) ==
    \/ band = 0 /\ bw = 2 /\ sb = 0 /\ ch \in 1..14
    \/ band = 0 /\ bw = 3 /\ sb <= 1 /\ ch \in 3..11
    \/ band = 3 /\ bw = 2 /\ sb = 0 /\ ch \in Singles
    \/ /\ band = 3 /\ bw \in 3..5 /\ sb < Slots20(bw_chspec_to_mhz(bw))
       /\ ch \in Elements(Centers(bw_chspec_to_mhz(bw)))

LEMMA CenterElements ==
    ASSUME NEW mhz \in Wide, NEW ch \in Elements(Centers(mhz))
    PROVE  /\ ch \in Nat /\ ch - Reach(mhz) >= 36 /\ ch + Reach(mhz) <= 161
           /\ \E n \in DOMAIN Centers(mhz) : Centers(mhz)[n] = ch
  BY CentersAre DEF Elements

LEMMA Center40 ==
    ASSUME NEW m \in Elements(wf_5g_40m_chans)
    PROVE  m \in Nat /\ m >= 38 /\ m <= 159
<1>1. 40 \in Wide /\ Centers(40) = wf_5g_40m_chans
  BY DEF Wide, Centers
<1> QED BY <1>1, CenterElements, Widths

LEMMA SinglesAre ==
    ASSUME NEW ch \in Singles
    PROVE  ch \in Nat /\ ch >= 34 /\ ch <= 161
  BY Center40 DEF Singles

LEMMA MalformedIs ==
    ASSUME NEW c \in chanspec_t
    PROVE  wf_chspec_malformed(c)
             <=> ~WellFormed(CHSPEC_BAND(c), CHSPEC_BW(c), CHSPEC_CTL_SB(c), CHSPEC_CHANNEL(c))
<1> DEFINE band == CHSPEC_BAND(c)
           bw == CHSPEC_BW(c)
           sb == CHSPEC_CTL_SB(c)
           ch == CHSPEC_CHANNEL(c)
<1>1. band \in 0..3 /\ bw \in 0..7 /\ sb \in 0..7 /\ ch \in Nat /\ ch < 256
  BY OfFields
<1>2. CHSPEC_CHAN1(c) \in Nat /\ CHSPEC_CHAN2(c) \in Nat
  BY <1>1, ChanspecRange DEF CHSPEC_CHAN1, CHSPEC_CHAN2, CHSPEC_CHANNEL
<1>3. ASSUME {CHSPEC_CHAN1(c), CHSPEC_CHAN2(c)} \ Ids80 = {}
      PROVE  CHSPEC_CHAN2(c) <= CHSPEC_CHAN1(c)
  <2>1. Ids80 \subseteq 0..5
    BY DEF Ids80, wf_5g_80m_chans
  <2>2. CHSPEC_CHAN2(c) = 16 * ((c % 256) \div 16) /\ (c % 256) \div 16 \in Nat
    BY <1>1 DEF CHSPEC_CHAN2, CHSPEC_CHANNEL
  <2>3. CHSPEC_CHAN2(c) \in 0..5
    BY <1>3, <2>1, Zenon
  <2>4. CHSPEC_CHAN2(c) = 0
    BY <2>2, <2>3
  <2> QED BY <1>2, <2>4
<1> HIDE DEF band, bw, sb, ch
<1>4. wf_chspec_malformed(c) <=>
         \/ band \notin {0, 3}
         \/ band = 0 /\ bw \notin {2, 3}
         \/ band = 3 /\ (bw = 6 \/ bw \notin 2..5 \/ ch > 224)
         \/ sb > SbLimit(bw)
  BY <1>3, CodesAre, Zenon DEF wf_chspec_malformed, Codes, band, bw, sb, ch
<1>5. SbLimit(2) = 0 /\ SbLimit(3) = 1 /\ SbLimit(4) = 3 /\ SbLimit(5) = 7
  BY CodesAre DEF SbLimit, Codes
<1>6. wf_chspec_malformed(c) <=> ~WellFormed(band, bw, sb, ch)
  BY <1>1, <1>4, <1>5, MhzIs, Widths DEF WellFormed
<1> QED BY <1>6 DEF band, bw, sb, ch

LEMMA ValidIs ==
    ASSUME NEW c \in chanspec_t
    PROVE  wf_chspec_valid(c)
             <=> Allowed(CHSPEC_BAND(c), CHSPEC_BW(c), CHSPEC_CTL_SB(c), CHSPEC_CHANNEL(c))
<1> DEFINE band == CHSPEC_BAND(c)
           bw == CHSPEC_BW(c)
           sb == CHSPEC_CTL_SB(c)
           ch == CHSPEC_CHANNEL(c)
<1>1. band \in 0..3 /\ bw \in 0..7 /\ sb \in 0..7 /\ ch \in Nat /\ ch < 256
  BY OfFields
<1>2. wf_chspec_malformed(c) <=> ~WellFormed(band, bw, sb, ch)
  BY MalformedIs
<1>3. (\/ \E m \in Elements(wf_5g_40m_chans) : ch \in {LOWER_20_SB(m), UPPER_20_SB(m)}
       \/ ch \in {34, 38, 42, 46}) <=> ch \in Singles
  BY Center40 DEF LOWER_20_SB, UPPER_20_SB, Singles
<1>4. ASSUME bw \in 3..5
      PROVE  bw_chspec_to_mhz(bw) \in Wide
  BY <1>4, MhzIs DEF Wide
<1> HIDE DEF band, bw, sb, ch
<1>5. CASE band = 0
  <2>1. ~wf_chspec_malformed(c) => bw \in {2, 3}
    BY <1>2, <1>5 DEF WellFormed
  <2>2. wf_chspec_valid(c) <=>
          ~wf_chspec_malformed(c) /\ ch \in IF bw = 2 THEN 1..14 ELSE 3..11
    BY <1>5, CodesAre, Zenon DEF wf_chspec_valid, Codes, band, bw, sb, ch
  <2>3. wf_chspec_valid(c) <=> Allowed(band, bw, sb, ch)
    BY <1>1, <1>2, <1>5, <2>1, <2>2 DEF WellFormed, Allowed
  <2> QED BY <2>3 DEF band, bw, sb, ch
<1>6. CASE band = 3 /\ bw = 2
  <2>1. wf_chspec_valid(c) <=> ~wf_chspec_malformed(c) /\ ch \in Singles
    BY <1>3, <1>6, CodesAre DEF wf_chspec_valid, Codes, band, bw, sb, ch
  <2>2. wf_chspec_valid(c) <=> Allowed(band, bw, sb, ch)
    BY <1>1, <1>2, <1>6, <2>1, SinglesAre DEF WellFormed, Allowed
  <2> QED BY <2>2 DEF band, bw, sb, ch
<1>7. CASE band = 3 /\ bw \in 3..5
  <2>1. wf_chspec_valid(c) <=>
          ~wf_chspec_malformed(c) /\ ch \in Elements(Centers(bw_chspec_to_mhz(bw)))
    BY <1>7, CodesAre DEF wf_chspec_valid, Codes, band, bw, sb, ch
  <2>2. ch \in Elements(Centers(bw_chspec_to_mhz(bw))) => ch <= 224
    BY <1>4, <1>7, CenterElements, MhzIs, Widths DEF Wide
  <2>3. wf_chspec_valid(c) <=> Allowed(band, bw, sb, ch)
    BY <1>1, <1>2, <1>7, <2>1, <2>2 DEF WellFormed, Allowed
  <2> QED BY <2>3 DEF band, bw, sb, ch
<1>8. CASE band \notin {0, 3} \/ (band = 3 /\ bw \notin 2..5)
  <2>1. wf_chspec_malformed(c)
    BY <1>1, <1>2, <1>8 DEF WellFormed
  <2>2. ~Allowed(band, bw, sb, ch)
    BY <1>1, <1>8 DEF Allowed
  <2> QED BY <2>1, <2>2 DEF wf_chspec_valid, band, bw, sb, ch
<1> QED BY <1>1, <1>5, <1>6, <1>7, <1>8
(* What a valid chanspec takes up, and its control channel.                 *)
LEMMA SlotsAre ==
    ASSUME NEW c \in chanspec_t, CHSPEC_BW(c) \in 2..5
    PROVE  /\ Len(Slots(c)) = Slots20(Mhz(c)) /\ DOMAIN Slots(c) = 1..Slots20(Mhz(c))
           /\ \A k \in 1..Slots20(Mhz(c)) :
                 Slots(c)[k] = CHSPEC_CHANNEL(c) - Reach(Mhz(c)) + 4 * (k - 1)
<1> DEFINE ch == CHSPEC_CHANNEL(c)
           n == Slots20(Mhz(c))
<1>1. n \in Nat /\ Reach(Mhz(c)) = 2 * (n - 1) /\ ch \in Nat
  BY MhzIs, Widths, OfFields DEF Mhz
<1>2. Slots(c) = [k \in 1..n |-> ch - 2 * (n - 1) + 4 * (k - 1)]
  BY DEF Slots, Block, Slots20, Mhz
<1> HIDE DEF ch, n
<1>3. Slots(c) \in Seq(Int) /\ DOMAIN Slots(c) = 1..n
  BY <1>1, <1>2
<1>4. Len(Slots(c)) = n
  BY <1>1, <1>3
<1>5. \A k \in 1..n : Slots(c)[k] = ch - Reach(Mhz(c)) + 4 * (k - 1)
  BY <1>1, <1>2
<1> QED BY <1>3, <1>4, <1>5 DEF ch, n

LEMMA ValidFields ==
    ASSUME NEW c \in ValidChanspecs
    PROVE  /\ c \in chanspec_t /\ wf_chspec_valid(c) /\ ~wf_chspec_malformed(c)
           /\ CHSPEC_BAND(c) \in {0, 3} /\ CHSPEC_BW(c) \in 2..5
           /\ CHSPEC_CTL_SB(c) \in 0..7 /\ CHSPEC_CTL_SB(c) < Slots20(Mhz(c))
           /\ CHSPEC_CHANNEL(c) \in Nat /\ CHSPEC_CHANNEL(c) > Reach(Mhz(c))
           /\ CHSPEC_CHANNEL(c) + Reach(Mhz(c)) <= 161
           /\ CHSPEC_BAND(c) = 0 => CHSPEC_BW(c) \in 2..3
                                    /\ CHSPEC_CHANNEL(c) + Reach(Mhz(c)) <= 14
           /\ CHSPEC_BAND(c) = 3 => CHSPEC_CHANNEL(c) - Reach(Mhz(c)) >= 34
<1>1. c \in chanspec_t /\ wf_chspec_valid(c) /\ ~wf_chspec_malformed(c)
  BY DEF ValidChanspecs, wf_chspec_valid
<1> DEFINE band == CHSPEC_BAND(c)
           bw == CHSPEC_BW(c)
           sb == CHSPEC_CTL_SB(c)
           ch == CHSPEC_CHANNEL(c)
<1>2. band \in 0..3 /\ bw \in 0..7 /\ sb \in 0..7 /\ ch \in Nat /\ ch < 256
  BY <1>1, OfFields
<1>3. Allowed(band, bw, sb, ch)
  BY <1>1, ValidIs
<1> HIDE DEF band, bw, sb, ch
<1> DEFINE mhz == bw_chspec_to_mhz(bw)
           Goal == /\ band \in {0, 3} /\ bw \in 2..5 /\ sb < Slots20(mhz) /\ ch > Reach(mhz)
                   /\ ch + Reach(mhz) <= 161
                   /\ band = 0 => bw \in 2..3 /\ ch + Reach(mhz) <= 14
                   /\ band = 3 => ch - Reach(mhz) >= 34
<1>4. ASSUME band = 0
      PROVE  Goal
  <2>1. \/ bw = 2 /\ sb = 0 /\ ch \in 1..14
        \/ bw = 3 /\ sb <= 1 /\ ch \in 3..11
    BY <1>3, <1>4 DEF Allowed
  <2> QED BY <1>2, <1>4, <2>1, MhzIs, Widths
<1>5. ASSUME band = 3, bw = 2
      PROVE  Goal
  BY <1>2, <1>3, <1>5, SinglesAre, MhzIs, Widths DEF Allowed
<1>6. ASSUME band = 3, bw \in 3..5
      PROVE  Goal
  <2>1. mhz \in Wide /\ Slots20(mhz) \in Nat /\ Reach(mhz) \in Nat
    BY <1>6, MhzIs, Widths DEF Wide
  <2>2. sb < Slots20(mhz) /\ ch \in Elements(Centers(mhz))
    BY <1>3, <1>6 DEF Allowed
  <2>3. ch - Reach(mhz) >= 36 /\ ch + Reach(mhz) <= 161
    BY <2>1, <2>2, CenterElements
  <2> QED BY <1>2, <1>6, <2>1, <2>2, <2>3
<1>7. Goal
  BY <1>3, <1>4, <1>5, <1>6 DEF Allowed
<1> QED BY <1>1, <1>2, <1>7 DEF Mhz, band, bw, sb, ch

LEMMA ValidControl ==
    ASSUME NEW c \in ValidChanspecs
    PROVE  /\ Len(Slots(c)) * 20 = Mhz(c) /\ Mhz(c) \in {20, 40, 80, 160}
           /\ Control(c) = CHSPEC_CHANNEL(c) - Reach(Mhz(c)) + 4 * CHSPEC_CTL_SB(c)
           /\ Control(c) \in Nat /\ Control(c) >= 1 /\ Control(c) <= 161
           /\ (Control(c) <= 14 <=> CHSPEC_BAND(c) = 0)
           /\ wf_chspec_ctlchan(c) = Control(c)
<1> DEFINE mhz == Mhz(c)
           sb == CHSPEC_CTL_SB(c)
           ch == CHSPEC_CHANNEL(c)
           bw == CHSPEC_BW(c)
<1>1. c \in chanspec_t /\ CHSPEC_BAND(c) \in {0, 3} /\ bw \in 2..5
  BY ValidFields
<1>2. sb \in Nat /\ sb < Slots20(mhz) /\ ch \in Nat /\ ch > Reach(mhz) /\ ch + Reach(mhz) <= 161
  BY ValidFields
<1>3. (CHSPEC_BAND(c) = 0 => ch + Reach(mhz) <= 14) /\ (CHSPEC_BAND(c) = 3 => ch - Reach(mhz) >= 34)
  BY ValidFields
<1>4. mhz = bw_chspec_to_mhz(bw) /\ mhz \in {20, 40, 80, 160}
  BY <1>1, MhzIs DEF Mhz
<1>5. Slots20(mhz) \in Nat /\ Reach(mhz) = 2 * (Slots20(mhz) - 1) /\ mhz = 20 * Slots20(mhz)
  BY <1>4, Widths
<1>6. Len(Slots(c)) = Slots20(mhz) /\ Slots(c)[sb + 1] = ch - Reach(mhz) + 4 * ((sb + 1) - 1)
  <2>1. sb + 1 \in 1..Slots20(mhz)
    BY <1>2, <1>5
  <2> QED BY <1>1, <2>1, SlotsAre
<1> HIDE DEF mhz, sb, ch, bw
<1>7. Control(c) = ch - Reach(mhz) + 4 * sb
  BY <1>2, <1>5, <1>6 DEF Control, sb
<1>8. /\ Control(c) \in Nat /\ Control(c) >= 1 /\ Control(c) <= 161
      /\ (Control(c) <= 14 <=> CHSPEC_BAND(c) = 0)
  <2>1. Control(c) >= ch - Reach(mhz) /\ Control(c) <= ch + Reach(mhz)
    BY <1>2, <1>5, <1>7
  <2> QED BY <1>1, <1>2, <1>3, <1>5, <1>7, <2>1
<1>9. (ch - Reach(mhz) + 4 * sb) % 256 = ch - Reach(mhz) + 4 * sb
  BY <1>2, <1>5
<1>10. CASE bw = 2
  <2>1. wf_chspec_ctlchan(c) = ch
    BY <1>10, CodesAre DEF wf_chspec_ctlchan, Codes, bw, ch
  <2>2. Reach(mhz) = 0 /\ sb = 0
    BY <1>2, <1>4, <1>10, MhzIs, Widths
  <2>3. wf_chspec_ctlchan(c) = Control(c)
    BY <1>2, <1>7, <2>1, <2>2
  <2> QED BY <1>4, <1>5, <1>6, <1>7, <1>8, <2>3 DEF mhz, sb, ch
<1>11. CASE bw \in 3..5
  <2>1. channel_low_edge(ch, mhz) = ch - Reach(mhz)
    BY <1>2, <1>5 DEF channel_low_edge, Reach
  <2>2. wf_chspec_ctlchan(c) = (channel_low_edge(ch, mhz) + 4 * sb) % 256
    BY <1>4, <1>11, CodesAre DEF wf_chspec_ctlchan, Codes, bw, ch, sb
  <2>3. wf_chspec_ctlchan(c) = Control(c)
    BY <1>7, <1>9, <2>1, <2>2
  <2> QED BY <1>4, <1>5, <1>6, <1>7, <1>8, <2>3 DEF mhz, sb, ch
<1> QED BY <1>1, <1>10, <1>11
LEMMA ValidOf ==
    ASSUME NEW band \in {0, 3}, NEW bw \in 2..5, NEW sb \in 0..7, NEW ch \in Nat, ch < 256
    PROVE  Of(band, bw, sb, ch) \in ValidChanspecs <=> Allowed(band, bw, sb, ch)
  BY FieldsOf, ValidIs DEF ValidChanspecs

(* The legacy format holds what is not wider than 40 MHz, and gives it back. *)
LEMMA LegacyBack ==
    ASSUME NEW c \in chanspec_t, wl_chspec_to_legacy(c) # INVCHANSPEC
    PROVE  wl_chspec_from_legacy(wl_chspec_to_legacy(c)) = c
<1> DEFINE band == CHSPEC_BAND(c)
           bw == CHSPEC_BW(c)
           sb == CHSPEC_CTL_SB(c)
           ch == CHSPEC_CHANNEL(c)
           l == wl_chspec_to_legacy(c)
<1>1. ~wf_chspec_malformed(c) /\ bw \in {2, 3}
  BY CodesAre DEF wl_chspec_to_legacy, Codes
<1>2. WellFormed(band, bw, sb, ch) /\ sb \in 0..7 /\ ch \in Nat /\ ch < 256
  BY <1>1, MalformedIs, OfFields
<1>3. c = Of(band, bw, sb, ch)
  BY OfFields
<1>4. l = ch + 4096 * (IF band = 0 THEN 2 ELSE 1)
            + (IF bw = 2 THEN 2816 ELSE 3072 + 256 * (sb + 1))
  BY <1>1, CodesAre DEF wl_chspec_to_legacy, Codes
<1> HIDE DEF band, bw, sb, ch, l
<1>5. /\ band \in {0, 3} /\ bw \in {2, 3}
      /\ bw = 2 => sb = 0
      /\ bw = 3 => sb \in {0, 1}
  BY <1>1, <1>2, MhzIs, Widths DEF WellFormed
<1>6. /\ l % 256 = ch
      /\ l \div 4096 = 2 <=> band = 0
      /\ (l \div 1024) % 4 = bw
      /\ bw = 3 => ((l \div 256) % 4 = 1 <=> sb = 0)
  <2> DEFINE q == l \div 256
             hi == 16 * (IF band = 0 THEN 2 ELSE 1) + (IF bw = 2 THEN 11 ELSE 12 + (sb + 1))
  <2>1. l = 256 * hi + ch /\ hi \in Nat
    BY <1>2, <1>4, <1>5
  <2> HIDE DEF hi
  <2>2. l % 256 = ch /\ q = hi /\ l \in Nat
    BY <1>2, <2>1
  <2>3. l \div 1024 = hi \div 4 /\ l \div 4096 = hi \div 16
    BY <2>2
  <2>4. /\ hi \div 16 = 2 <=> band = 0
        /\ (hi \div 4) % 4 = bw
        /\ bw = 3 => (hi % 4 = 1 <=> sb = 0)
    BY <1>5 DEF hi
  <2> QED BY <2>2, <2>3, <2>4
<1>7. wl_chspec_from_legacy(l) =
        LET d == IF bw = 2 THEN Compose(band, 2, 0, ch)
                 ELSE Compose(band, 3, IF sb = 0 THEN 0 ELSE 1, ch)
        IN  IF wf_chspec_malformed(d) THEN INVCHANSPEC ELSE d
  BY <1>5, <1>6, CodesAre DEF wl_chspec_from_legacy, Codes
<1>8. (IF bw = 2 THEN Compose(band, 2, 0, ch)
       ELSE Compose(band, 3, IF sb = 0 THEN 0 ELSE 1, ch)) = c
  BY <1>2, <1>3, <1>5, ComposeIsOf
<1> QED BY <1>1, <1>7, <1>8 DEF l

LEMMA LegacyTakes ==
    ASSUME NEW c \in chanspec_t, ~wf_chspec_malformed(c), CHSPEC_BW(c) \in {2, 3}
    PROVE  wl_chspec_to_legacy(c) # INVCHANSPEC
<1>1. CHSPEC_CHANNEL(c) \in Nat /\ CHSPEC_CTL_SB(c) \in Nat
  BY OfFields
<1>2. wl_chspec_to_legacy(c) = CHSPEC_CHANNEL(c) + 4096 * (IF CHSPEC_BAND(c) = 0 THEN 2 ELSE 1)
            + (IF CHSPEC_BW(c) = 2 THEN 2816 ELSE 3072 + 256 * (CHSPEC_CTL_SB(c) + 1))
  BY CodesAre DEF wl_chspec_to_legacy, Codes
<1> QED BY <1>1, <1>2 DEF INVCHANSPEC

LEMMA DriverBack ==
    ASSUME NEW c \in chanspec_t, wl_chspec_to_driver(c) # INVCHANSPEC
    PROVE  wl_chspec_from_driver(wl_chspec_to_driver(c)) = c
  BY LegacyBack DEF wl_chspec_to_driver, wl_chspec_from_driver
(* Texts without 80+80.  What is named is found, if it is not refused; what *)
(* is taken is named.                                                       *)
Plain(t) == /\ t.band \in {"-", "2g", "5g"} /\ t.number \in Nat /\ t.width \in {0, 20, 40, 80, 160}
            /\ t.sb \in {"-", "l", "u"} /\ t.plus = "-"
Refused(t) == t.width = 40 /\ (t.sb = "-" <=> BandOf(t) = Band2G)

LEMMA BandIs == \A t : BandOf(t) \in {0, 3}
  BY DEF BandOf, DefaultBand, Band2G, Band5G

LEMMA NamedIs ==
    ASSUME NEW t, Plain(t), NEW c
    PROVE  c \in Names(t) <=>
             /\ c \in ValidChanspecs
             /\ Control(c) = t.number /\ CHSPEC_BAND(c) = BandOf(t)
             /\ Mhz(c) = IF t.width # 0 THEN t.width ELSE IF t.sb # "-" THEN 40 ELSE 20
             /\ t.sb # "-" => Mhz(c) = 40 /\ (t.sb = "u" <=> CHSPEC_CTL_SB(c) = 1)
<1>1. ASSUME c \in ValidChanspecs
      PROVE  Len(Slots(c)) * 20 = Mhz(c) /\ (Len(Slots(c)) = 2 <=> Mhz(c) = 40)
  <2>1. Len(Slots(c)) = Slots20(Mhz(c))
    BY <1>1, SlotsAre, ValidFields
  <2> QED BY <1>1, <2>1, ValidControl, Widths
<1> QED BY <1>1 DEF Names, Plain

LEMMA AtonIs ==
    ASSUME NEW t, Parses(t), NEW bw \in 2..5, NEW sb \in 0..7, NEW ch \in Nat, ch < 256,
           Fields(t) = <<ch, sb, bw>>
    PROVE  wf_chspec_aton(t) = IF wf_chspec_malformed(Of(BandOf(t), bw, sb, ch)) THEN 0
                               ELSE Of(BandOf(t), bw, sb, ch)
<1>1. Fields(t) # <<>>
  OBVIOUS
<1>2. Compose(BandOf(t), bw, sb, ch) = Of(BandOf(t), bw, sb, ch)
  BY BandIs, ComposeIsOf
<1>3. Fields(t)[1] = ch /\ Fields(t)[2] = sb /\ Fields(t)[3] = bw
  OBVIOUS
<1> QED BY <1>1, <1>2, <1>3 DEF wf_chspec_aton

LEMMA FieldsOfLower ==
    ASSUME NEW t, Plain(t), t.sb = "l"
    PROVE  Fields(t) = <<UPPER_20_SB(t.number), 0, 3>>
  BY CodesAre DEF Fields, Plain, Codes

LEMMA FieldsOfUpper ==
    ASSUME NEW t, Plain(t), t.sb = "u"
    PROVE  Fields(t) = <<LOWER_20_SB(t.number), 1, 3>>
  BY CodesAre DEF Fields, Plain, Codes

LEMMA FieldsOfSingle ==
    ASSUME NEW t, Plain(t), t.sb = "-", t.width \in {0, 20}
    PROVE  Fields(t) = <<t.number, 0, 2>>
  BY CodesAre DEF Fields, Plain, Codes

LEMMA WideCodes ==
    /\ WideCode(40) = 3 /\ WideCode(80) = 4 /\ WideCode(160) = 5
    /\ \A mhz \in Wide : WideCode(mhz) \in 3..5 /\ bw_chspec_to_mhz(WideCode(mhz)) = mhz
  BY CodesAre, MhzIs DEF WideCode, Codes, Wide

LEMMA FieldsOfWide ==
    ASSUME NEW t, Plain(t), t.sb = "-", t.width \in Wide
    PROVE  /\ Around(t.number, t.width) = <<>> => Fields(t) = <<>>
           /\ \A ch, sb : Around(t.number, t.width) = <<ch, sb>>
                             => Fields(t) = <<ch, sb, WideCode(t.width)>>
<1>1. t.width \notin {0, 20} /\ t.plus = "-" /\ t.sb # "l" /\ t.sb # "u"
  BY DEF Wide, Plain
<1>2. Fields(t) = IF Around(t.number, t.width) = <<>> THEN <<>>
                  ELSE <<Around(t.number, t.width)[1], Around(t.number, t.width)[2],
                         WideCode(t.width)>>
  BY <1>1 DEF Fields
<1>3. \A ch, sb : <<ch, sb>> # <<>>
  OBVIOUS
<1> QED BY <1>2, <1>3

LEMMA Found ==
    ASSUME NEW t, Plain(t), ~Refused(t), NEW c \in Names(t)
    PROVE  wf_chspec_aton(t) = c
<1> DEFINE band == CHSPEC_BAND(c)
           bw == CHSPEC_BW(c)
           sb == CHSPEC_CTL_SB(c)
           ch == CHSPEC_CHANNEL(c)
           mhz == Mhz(c)
<1>1. /\ c \in ValidChanspecs /\ Control(c) = t.number /\ band = BandOf(t)
      /\ mhz = IF t.width # 0 THEN t.width ELSE IF t.sb # "-" THEN 40 ELSE 20
      /\ t.sb # "-" => mhz = 40 /\ (t.sb = "u" <=> sb = 1)
  BY NamedIs
<1>2. /\ c \in chanspec_t /\ ~wf_chspec_malformed(c) /\ band \in {0, 3} /\ bw \in 2..5
      /\ sb \in 0..7 /\ sb < Slots20(mhz) /\ ch \in Nat /\ ch > Reach(mhz)
      /\ ch + Reach(mhz) <= 161 /\ (band = 0 => bw \in 2..3)
  BY <1>1, ValidFields
<1>3. c = Of(band, bw, sb, ch) /\ t.number = ch - Reach(mhz) + 4 * sb
  BY <1>1, <1>2, OfFields, ValidControl
<1>4. mhz = bw_chspec_to_mhz(bw)
  BY DEF Mhz
<1>5. Allowed(band, bw, sb, ch)
  BY <1>2, ValidIs, ValidFields, <1>1
<1>6. /\ t.band \in {"-", "2g", "5g"} /\ t.number \in Nat /\ t.width \in {0, 20, 40, 80, 160}
      /\ t.sb \in {"-", "l", "u"} /\ t.plus = "-"
  BY DEF Plain
<1> HIDE DEF band, bw, sb, ch, mhz
<1>7. Parses(t)
  BY <1>1, <1>6, CodesAre DEF Parses, Refused, Codes
<1>8. Fields(t) = <<ch, sb, bw>>
  <2>1. CASE t.sb = "l"
    <3>1. bw = 3 /\ sb = 0 /\ Reach(mhz) = 2
      BY <1>1, <1>2, <1>4, <2>1, MhzIs, Widths
    <3>2. UPPER_20_SB(t.number) = ch
      BY <1>2, <1>3, <3>1 DEF UPPER_20_SB
    <3> QED BY <2>1, <3>1, <3>2, FieldsOfLower
  <2>2. CASE t.sb = "u"
    <3>1. bw = 3 /\ sb = 1 /\ Reach(mhz) = 2
      BY <1>1, <1>2, <1>4, <2>2, MhzIs, Widths
    <3>2. LOWER_20_SB(t.number) = ch
      BY <1>2, <1>3, <3>1 DEF LOWER_20_SB
    <3> QED BY <2>2, <3>1, <3>2, FieldsOfUpper
  <2>3. CASE t.sb = "-" /\ t.width \in {0, 20}
    <3>1. bw = 2 /\ sb = 0 /\ Reach(mhz) = 0
      BY <1>1, <1>2, <1>4, <2>3, MhzIs, Widths
    <3>2. t.number = ch
      BY <1>2, <1>3, <3>1
    <3> QED BY <2>3, <3>1, <3>2, FieldsOfSingle
  <2>4. CASE t.sb = "-" /\ t.width \in Wide
    <3>1. bw \in 3..5 /\ mhz = t.width /\ bw = WideCode(t.width)
      BY <1>1, <1>2, <1>4, <2>4, MhzIs, WideCodes DEF Wide
    <3>2. ASSUME band = 0
          PROVE  FALSE
      <4>1. bw = 3
        BY <1>2, <3>1, <3>2
      <4>2. WideCode(t.width) = 3 /\ t.width \in {40, 80, 160}
        BY <2>4, <3>1, <4>1 DEF Wide
      <4>4. t.width = 40
        BY <4>2, WideCodes
      <4>3. BandOf(t) = Band2G
        BY <1>1, <3>2 DEF Band2G
      <4> QED BY <2>4, <4>4, <4>3 DEF Refused
    <3>3. ch \in Elements(Centers(mhz))
      BY <1>2, <1>4, <1>5, <3>1, <3>2 DEF Allowed
    <3>4. PICK n \in DOMAIN Centers(mhz) : Centers(mhz)[n] = ch
      BY <2>4, <3>1, <3>3, CenterElements
    <3>5. Around(t.number, mhz) = <<ch, sb>>
      BY <1>2, <1>3, <2>4, <3>1, <3>4, AroundOne
    <3> QED BY <2>4, <3>1, <3>5, FieldsOfWide
  <2> QED BY <1>6, <2>1, <2>2, <2>3, <2>4 DEF Wide
<1>9. ch < 256
  <2>1. Reach(mhz) \in Nat
    BY <1>2, <1>4, MhzIs, Widths
  <2> QED BY <1>2, <2>1
<1> QED BY <1>1, <1>2, <1>3, <1>7, <1>8, <1>9, AtonIs
LEMMA TakenSideband ==
    ASSUME NEW t, Plain(t), t.number < 256, t.sb # "-", NEW c,
           c = wf_chspec_aton(t), c # 0, wf_chspec_valid(c)
    PROVE  c \in Names(t) /\ ~Refused(t)
<1> DEFINE sb == IF t.sb = "u" THEN 1 ELSE 0
           ch == IF t.sb = "u" THEN LOWER_20_SB(t.number) ELSE UPPER_20_SB(t.number)
<1>1. /\ t.number \in Nat /\ t.width \in {0, 20, 40, 80, 160}
      /\ t.sb \in {"l", "u"} /\ t.plus = "-"
  BY DEF Plain
<1>2. ch \in Nat /\ ch < 256 /\ sb \in {0, 1}
  BY <1>1 DEF LOWER_20_SB, UPPER_20_SB
<1>3. Parses(t) /\ (t.width = 0 \/ (t.width = 40 /\ BandOf(t) = 0))
  BY <1>1, CodesAre DEF wf_chspec_aton, Parses, Codes
<1>4. Fields(t) = <<ch, sb, 3>>
  BY <1>1, FieldsOfLower, FieldsOfUpper
<1>5. c = Of(BandOf(t), 3, sb, ch)
  BY <1>2, <1>3, <1>4, AtonIs
<1>6. /\ c \in chanspec_t /\ CHSPEC_BAND(c) = BandOf(t) /\ CHSPEC_BW(c) = 3
      /\ CHSPEC_CTL_SB(c) = sb /\ CHSPEC_CHANNEL(c) = ch
  BY <1>2, <1>5, BandIs, FieldsOf
<1>7. c \in ValidChanspecs /\ Mhz(c) = 40
  BY <1>6, MhzIs DEF ValidChanspecs, Mhz
<1>8. ch > 2 /\ Control(c) = ch - 2 + 4 * sb
  BY <1>6, <1>7, ValidFields, ValidControl, Widths
<1>9. Control(c) = t.number
  BY <1>1, <1>2, <1>8 DEF LOWER_20_SB, UPPER_20_SB
<1>10. c \in Names(t)
  BY <1>1, <1>3, <1>6, <1>7, <1>9, NamedIs
<1>11. ~Refused(t)
  BY <1>1, <1>3 DEF Refused, Band2G
<1> QED BY <1>10, <1>11

LEMMA TakenSingle ==
    ASSUME NEW t, Plain(t), t.number < 256, t.sb = "-", t.width \in {0, 20}, NEW c,
           c = wf_chspec_aton(t), c # 0, wf_chspec_valid(c)
    PROVE  c \in Names(t) /\ ~Refused(t)
<1>1. t.number \in Nat /\ Parses(t)
  BY DEF Plain, wf_chspec_aton
<1>2. Fields(t) = <<t.number, 0, 2>>
  BY FieldsOfSingle
<1>3. c = Of(BandOf(t), 2, 0, t.number)
  BY <1>1, <1>2, AtonIs
<1>4. /\ c \in chanspec_t /\ CHSPEC_BAND(c) = BandOf(t) /\ CHSPEC_BW(c) = 2
      /\ CHSPEC_CTL_SB(c) = 0 /\ CHSPEC_CHANNEL(c) = t.number
  BY <1>1, <1>3, BandIs, FieldsOf
<1>5. c \in ValidChanspecs /\ Mhz(c) = 20
  BY <1>4, MhzIs DEF ValidChanspecs, Mhz
<1>6. Control(c) = t.number
  BY <1>1, <1>4, <1>5, ValidControl, Widths
<1>7. c \in Names(t)
  BY <1>4, <1>5, <1>6, NamedIs
<1> QED BY <1>7 DEF Refused

LEMMA TakenWide ==
    ASSUME NEW t, Plain(t), t.number < 256, t.sb = "-", t.width \in Wide, NEW c,
           c = wf_chspec_aton(t), c # 0, wf_chspec_valid(c)
    PROVE  c \in Names(t) /\ ~Refused(t)
<1> DEFINE bw == WideCode(t.width)
<1>1. t.number \in Nat /\ Parses(t) /\ Fields(t) # <<>>
  BY DEF Plain, wf_chspec_aton
<1>2. Around(t.number, t.width) # <<>>
  BY <1>1, FieldsOfWide
<1>3. PICK n \in DOMAIN Centers(t.width), k \in Nat :
        /\ k < Slots20(t.width) /\ t.number = Centers(t.width)[n] - Reach(t.width) + 4 * k
        /\ Around(t.number, t.width) = <<Centers(t.width)[n], k>>
  BY <1>1, <1>2, AroundOnly
<1> DEFINE ch == Centers(t.width)[n]
<1>4. Fields(t) = <<ch, k, bw>>
  BY <1>3, FieldsOfWide
<1>5. bw \in 3..5 /\ bw_chspec_to_mhz(bw) = t.width
  BY WideCodes
<1>6. Slots20(t.width) \in Nat /\ Slots20(t.width) <= 8 /\ Reach(t.width) \in Nat
  BY Widths DEF Wide
<1>7. k \in 0..7
  BY <1>3, <1>6
<1>8. ch \in Nat /\ ch - Reach(t.width) >= 36 /\ ch + Reach(t.width) <= 161
  BY CentersAre
<1> HIDE DEF ch, bw
<1>9. ch < 256 /\ ch > 11
  BY <1>6, <1>8
<1>10. c = Of(BandOf(t), bw, k, ch)
  BY <1>1, <1>4, <1>5, <1>7, <1>8, <1>9, AtonIs
<1>11. /\ c \in chanspec_t /\ CHSPEC_BAND(c) = BandOf(t) /\ CHSPEC_BW(c) = bw
       /\ CHSPEC_CTL_SB(c) = k /\ CHSPEC_CHANNEL(c) = ch
  BY <1>5, <1>7, <1>8, <1>9, <1>10, BandIs, FieldsOf
<1>12. c \in ValidChanspecs /\ Mhz(c) = t.width
  BY <1>5, <1>11 DEF ValidChanspecs, Mhz
<1>13. Control(c) = t.number
  BY <1>3, <1>11, <1>12, ValidControl DEF ch
<1>14. t.width # 0
  BY DEF Wide
<1>15. c \in Names(t)
  BY <1>11, <1>12, <1>13, <1>14, NamedIs
<1>16. ~Refused(t)
  <2>1. Allowed(BandOf(t), bw, k, ch)
    BY <1>11, <1>12, ValidIs, ValidFields
  <2>2. BandOf(t) # 0
    BY <1>5, <1>8, <1>9, <2>1 DEF Allowed
  <2> QED BY <2>2 DEF Refused, Band2G
<1> QED BY <1>15, <1>16

LEMMA Taken ==
    ASSUME NEW t, Plain(t), t.number < 256, NEW c,
           c = wf_chspec_aton(t), c # 0, wf_chspec_valid(c)
    PROVE  Names(t) = {c}
<1>1. c \in Names(t) /\ ~Refused(t)
  <2>1. CASE t.sb # "-"
    BY <2>1, TakenSideband
  <2>2. CASE t.sb = "-" /\ t.width \in {0, 20}
    BY <2>2, TakenSingle
  <2>3. CASE t.sb = "-" /\ t.width \in Wide
    BY <2>3, TakenWide
  <2> QED BY <2>1, <2>2, <2>3 DEF Plain, Wide
<1>2. \A d \in Names(t) : d = c
  BY <1>1, Found
<1> QED BY <1>1, <1>2

(* No text with 80+80 is taken.                                             *)
PairText(t) == /\ t.number \in Nat /\ t.width \in {20, 80} /\ t.plus \in {"80/", "40/"}
               /\ t.pair \in Nat \X Nat

LEMMA PairsRefused ==
    ASSUME NEW t, PairText(t)
    PROVE  wf_chspec_aton(t) = 0
<1> SUFFICES ASSUME Parses(t), Fields(t) # <<>>
             PROVE  wf_chspec_aton(t) = 0
  BY DEF wf_chspec_aton
<1> DEFINE low == channel_to_sb(t.pair[1], t.number, t.width)
           high == channel_to_sb(t.pair[2], t.number, t.width)
           p == Id80(t.pair[1])
           q == Id80(t.pair[2])
           sb == IF low >= 0 THEN low ELSE high + 4
<1>1. /\ t.plus # "-" /\ t.number \in Nat /\ t.width \in {20, 40, 80, 160}
      /\ t.width \in {20, 80} /\ t.pair \in Nat \X Nat
  BY DEF PairText
<1>2. /\ ~(low < 0 /\ high < 0) /\ Elements(t.pair) \subseteq Elements(wf_5g_80m_chans)
      /\ Fields(t) = <<p + 16 * q, sb, 6>>
  <2>1. Fields(t) = PairOf(t)
    BY <1>1 DEF Fields
  <2>2. PairOf(t) # <<>>
    BY <2>1
  <2>3. /\ ~(low < 0 /\ high < 0) /\ Elements(t.pair) \ Elements(wf_5g_80m_chans) = {}
        /\ PairOf(t) = <<p + 16 * q, sb, BW.b8080>>
    BY <2>2, Zenon DEF PairOf
  <2>4. BW.b8080 = 6
    BY DEF BW
  <2> QED BY <2>1, <2>3, <2>4
<1>3. t.pair[1] \in Elements(wf_5g_80m_chans) /\ t.pair[2] \in Elements(wf_5g_80m_chans)
  BY <1>1, <1>2 DEF Elements
<1>4. 80 \in Wide /\ Centers(80) = wf_5g_80m_chans
  BY DEF Wide, Centers
<1>5. \A ch \in Elements(wf_5g_80m_chans) : ch \in Nat /\ ch >= 42 /\ ch < 256
  BY <1>4, CenterElements, Widths
<1>6. \A ch \in Elements(wf_5g_80m_chans) : Id80(ch) \in 0..5
  <2> SUFFICES ASSUME NEW ch \in Elements(wf_5g_80m_chans)
               PROVE  Id80(ch) \in 0..5
    OBVIOUS
  <2>1. PICK n \in 1..6 : ch = wf_5g_80m_chans[n]
    BY List80 DEF Elements
  <2>2. Ids80 = 0..5
    BY DEF Ids80, wf_5g_80m_chans
  <2>3. n - 1 \in Ids80 /\ Chan80(n - 1) = ch
    BY <2>1, <2>2 DEF Chan80
  <2>4. \E m \in Ids80 : Chan80(m) = ch
    BY <2>3
  <2> QED BY <2>2, <2>4 DEF Id80
<1>7. p \in 0..5 /\ q \in 0..5
  BY <1>3, <1>6
<1>8. sb \in 0..7
  <2>1. Reach(t.width) <= 6 /\ Slots20(t.width) <= 4 /\ Reach(t.width) \in Nat
        /\ Slots20(t.width) \in Nat
    BY <1>1, Widths
  <2>2. /\ t.pair[1] \in Nat /\ t.pair[1] >= Reach(t.width) /\ t.pair[1] < 256
        /\ t.pair[2] \in Nat /\ t.pair[2] >= Reach(t.width) /\ t.pair[2] < 256
    BY <1>3, <1>5, <2>1
  <2> DEFINE w == t.width
  <2>3. w \in {20, 40, 80, 160} /\ t.number \in Nat
    BY <1>1
  <2> HIDE DEF w
  <2>4. ASSUME NEW center \in Nat, center >= Reach(w), center < 256
        PROVE  /\ channel_to_sb(center, t.number, w) \in Int
               /\ channel_to_sb(center, t.number, w) < Slots20(w)
    BY <2>3, <2>4, SidebandIs
  <2>5. low \in Int /\ low < Slots20(t.width) /\ high \in Int /\ high < Slots20(t.width)
    BY <2>2, <2>4 DEF w
  <2> HIDE DEF low, high
  <2> QED BY <1>2, <2>1, <2>5
<1> HIDE DEF low, high, p, q, sb
<1> DEFINE ch == p + 16 * q
           c == Of(BandOf(t), 6, sb, ch)
<1>9. ch \in Nat /\ ch < 256
  BY <1>7
<1>10. Fields(t)[1] = ch /\ Fields(t)[2] = sb /\ Fields(t)[3] = 6
  BY <1>2
<1> HIDE DEF ch
<1>11. Compose(BandOf(t), Fields(t)[3], Fields(t)[2], Fields(t)[1]) = c
  BY <1>8, <1>9, <1>10, BandIs, ComposeIsOf
<1>12. c \in chanspec_t /\ CHSPEC_BW(c) = 6
  BY <1>8, <1>9, BandIs, FieldsOf
<1>13. wf_chspec_malformed(c)
  BY <1>12, MalformedIs DEF WellFormed
<1> HIDE DEF c
<1> QED BY <1>11, <1>13 DEF wf_chspec_aton
(* What is printed for a valid chanspec names it.                           *)
LEMMA PrintedIsRead ==
    ASSUME NEW c \in ValidChanspecs
    PROVE  wf_chspec_aton(wf_chspec_ntoa(c)) = c
<1> DEFINE t == wf_chspec_ntoa(c)
           band == CHSPEC_BAND(c)
           bw == CHSPEC_BW(c)
           sb == CHSPEC_CTL_SB(c)
           ch == CHSPEC_CHANNEL(c)
<1>1. /\ ~wf_chspec_malformed(c) /\ band \in {0, 3} /\ bw \in 2..5 /\ sb \in 0..7
      /\ sb < Slots20(Mhz(c)) /\ ch \in Nat /\ Reach(Mhz(c)) \in Nat
      /\ (band = 0 => ch + Reach(Mhz(c)) <= 14) /\ (band = 3 => ch - Reach(Mhz(c)) >= 34)
  <2>1. Reach(Mhz(c)) \in Nat
    BY ValidFields, MhzIs, Widths DEF Mhz
  <2> QED BY <2>1, ValidFields
<1>2. /\ wf_chspec_ctlchan(c) = Control(c) /\ Control(c) \in Nat
      /\ (Control(c) <= 14 <=> band = 0) /\ Mhz(c) = bw_chspec_to_mhz(bw)
  BY ValidControl DEF Mhz
<1>3. band = 0 <=> ch <= 14
  BY <1>1
<1> HIDE DEF band, bw, sb, ch
<1> DEFINE width == IF bw \in {2, 3} THEN 0 ELSE bw_chspec_to_mhz(bw)
           side == IF bw = 3 THEN PrintedSb(c) ELSE "-"
<1>4. t = Text("-", Control(c), width, side, "-", <<>>)
  <2>1. (CHSPEC_BAND(c) = Band2G) = (CHSPEC_CHANNEL(c) <= 14)
    BY <1>3 DEF Band2G, band, ch
  <2> DEFINE no == IF (CHSPEC_BAND(c) = Band2G) = (CHSPEC_CHANNEL(c) <= 14) THEN "-"
                   ELSE IF CHSPEC_BAND(c) = Band2G THEN "2g" ELSE "5g"
  <2>2. no = "-"
    BY <2>1
  <2> HIDE DEF no
  <2>3. wf_chspec_ntoa(c) =
          CASE bw = 6 -> Text("-", wf_chspec_ctlchan(c), 80, "-", "80/", PrintedPair(c))
            [] bw = 2 -> Text(no, wf_chspec_ctlchan(c), 0, "-", "-", <<>>)
            [] bw = 3 -> Text(no, wf_chspec_ctlchan(c), 0, PrintedSb(c), "-", <<>>)
            [] OTHER -> Text(no, wf_chspec_ctlchan(c), bw_chspec_to_mhz(bw), "-", "-", <<>>)
    BY <1>1, CodesAre, Zenon DEF wf_chspec_ntoa, Codes, no, bw
  <2> QED BY <1>1, <1>2, <2>2, <2>3
<1>5. /\ t.band = "-" /\ t.number = Control(c) /\ t.width = width /\ t.sb = side /\ t.plus = "-"
  BY <1>4 DEF Text
<1>6. width \in {0, 80, 160} /\ side \in {"-", "l", "u"} /\ (side = "-" <=> bw # 3)
  BY <1>1, MhzIs DEF PrintedSb
<1> HIDE DEF t, width, side
<1>7. Plain(t) /\ ~Refused(t)
  BY <1>2, <1>5, <1>6 DEF Plain, Refused
<1>8. BandOf(t) = band
  BY <1>1, <1>2, <1>5 DEF BandOf, DefaultBand, Band2G, Band5G
<1>9. Mhz(c) = IF t.width # 0 THEN t.width ELSE IF t.sb # "-" THEN 40 ELSE 20
  <2>1. CASE bw = 2
    <3>1. width = 0 /\ side = "-"
      BY <2>1 DEF width, side
    <3> QED BY <1>2, <1>5, <2>1, <3>1, MhzIs
  <2>2. CASE bw = 3
    <3>1. width = 0 /\ side # "-"
      BY <1>6, <2>2 DEF width
    <3> QED BY <1>2, <1>5, <2>2, <3>1, MhzIs
  <2>3. CASE bw \in {4, 5}
    <3>1. width = bw_chspec_to_mhz(bw) /\ width # 0
      BY <2>3, MhzIs DEF width
    <3> QED BY <1>2, <1>5, <3>1
  <2> QED BY <1>1, <2>1, <2>2, <2>3
<1>10. t.sb # "-" => Mhz(c) = 40 /\ (t.sb = "u" <=> CHSPEC_CTL_SB(c) = 1)
  BY <1>2, <1>5, <1>6, MhzIs DEF side, PrintedSb
<1>11. c \in Names(t)
  BY <1>5, <1>7, <1>8, <1>9, <1>10, NamedIs DEF band
<1> QED BY <1>7, <1>11, Found DEF t

(* All views of a valid chanspec agree.                                     *)
Agree(c) ==
    LET ctl == wf_chspec_ctlchan(c)
        half == wf_chspec_primary40_chspec(c)
        bw == CHSPEC_BW(c)
        factor == IF CHSPEC_BAND(c) = Band2G THEN Factor2G ELSE Factor5G
    IN  /\ ctl = Control(c)
        /\ {wf_chspec_ctlchspec(c), half} \subseteq ValidChanspecs
        /\ wf_chspec_ctlchan(wf_chspec_ctlchspec(c)) = ctl
        /\ wf_chspec_ctlchan(half) = ctl /\ Elements(Slots(half)) \subseteq Elements(Slots(c))
        /\ CHSPEC_BAND(c) = Band5G \/ bw = BW.b20 => wf_channel2chspec(ctl, bw) = c
        /\ wf_mhz2channel(wf_channel2mhz(ctl, factor), 0) = ctl

LEMMA FrequencyBack ==
    ASSUME NEW ctl \in Nat, ctl >= 1, ctl <= 161
    PROVE  /\ ctl <= 14 => wf_mhz2channel(wf_channel2mhz(ctl, Factor2G), 0) = ctl
           /\ wf_mhz2channel(wf_channel2mhz(ctl, Factor5G), 0) = ctl
<1>1. ASSUME ctl <= 13
      PROVE  wf_mhz2channel(wf_channel2mhz(ctl, Factor2G), 0) = ctl
  <2>1. wf_channel2mhz(ctl, Factor2G) = 5 * ctl + 2407
    BY <1>1 DEF wf_channel2mhz, Factor2G
  <2>2. DefaultFactor(5 * ctl + 2407) = 4814
    BY <1>1 DEF DefaultFactor, Factor2G
  <2>3. (5 * ctl + 2407) - (4814 \div 2) = 5 * ctl /\ (5 * ctl) % 5 = 0 /\ (5 * ctl) \div 5 = ctl
    OBVIOUS
  <2>4. 5 * ctl \in 0..1000 /\ ctl \in 1..13 /\ 5 * ctl + 2407 # 2484
    BY <1>1
  <2> QED BY <2>1, <2>2, <2>3, <2>4 DEF wf_mhz2channel, Factor2G
<1>2. ASSUME ctl = 14
      PROVE  wf_mhz2channel(wf_channel2mhz(ctl, Factor2G), 0) = ctl
  <2>1. wf_channel2mhz(ctl, Factor2G) = 2484
    BY <1>2 DEF wf_channel2mhz, Factor2G
  <2>2. DefaultFactor(2484) = Factor2G
    BY DEF DefaultFactor
  <2> QED BY <1>2, <2>1, <2>2 DEF wf_mhz2channel
<1>3. wf_mhz2channel(wf_channel2mhz(ctl, Factor5G), 0) = ctl
  <2>1. wf_channel2mhz(ctl, Factor5G) = 5 * ctl + 5000
    BY DEF wf_channel2mhz, Factor2G, Factor5G
  <2>2. DefaultFactor(5 * ctl + 5000) = 10000
    BY DEF DefaultFactor, Factor5G
  <2>3. (5 * ctl + 5000) - (10000 \div 2) = 5 * ctl /\ (5 * ctl) % 5 = 0 /\ (5 * ctl) \div 5 = ctl
    OBVIOUS
  <2>4. 5 * ctl \in 0..1000
    OBVIOUS
  <2> QED BY <2>1, <2>2, <2>3, <2>4 DEF wf_mhz2channel, Factor2G
<1> QED BY <1>1, <1>2, <1>3
(* Half a wide channel is a channel, down to the single one.                *)
LEMMA Halves ==
    /\ \A ch \in Elements(wf_5g_80m_chans) :
          ch - 4 \in Elements(wf_5g_40m_chans) /\ ch + 4 \in Elements(wf_5g_40m_chans)
    /\ \A ch \in Elements(wf_5g_160m_chans) :
          ch - 8 \in Elements(wf_5g_80m_chans) /\ ch + 8 \in Elements(wf_5g_80m_chans)
<1>1. ASSUME NEW n \in 1..6
      PROVE  \E i \in 1..12 : /\ i + 1 \in 1..12
                              /\ wf_5g_40m_chans[i] = wf_5g_80m_chans[n] - 4
                              /\ wf_5g_40m_chans[i + 1] = wf_5g_80m_chans[n] + 4
  <2> DEFINE i == IF n <= 2 THEN 2 * n - 1 ELSE IF n <= 5 THEN 2 * n - 1 ELSE 11
  <2>1. i \in 1..12 /\ i + 1 \in 1..12
    OBVIOUS
  <2>2. CASE n <= 2
    <3>1. i = 2 * n - 1 /\ i + 1 <= 4
      BY <2>2
    <3> HIDE DEF i
    <3>2. wf_5g_40m_chans[i] = 8 * i + 30 /\ wf_5g_40m_chans[i + 1] = 8 * (i + 1) + 30
      BY <2>1, <2>2, <3>1, List40
    <3>3. wf_5g_80m_chans[n] = 16 * n + 26
      BY <2>2, List80
    <3> QED BY <2>1, <3>1, <3>2, <3>3
  <2>3. CASE n > 2 /\ n <= 5
    <3>1. i = 2 * n - 1 /\ i > 4 /\ i + 1 <= 10
      BY <2>3
    <3> HIDE DEF i
    <3>2. wf_5g_40m_chans[i] = 8 * i + 62 /\ wf_5g_40m_chans[i + 1] = 8 * (i + 1) + 62
      BY <2>1, <2>3, <3>1, List40
    <3>3. wf_5g_80m_chans[n] = 16 * n + 58
      BY <2>3, List80
    <3> QED BY <2>1, <3>1, <3>2, <3>3
  <2>4. CASE n = 6
    <3>1. wf_5g_80m_chans[n] = 155 /\ wf_5g_40m_chans[11] = 151 /\ wf_5g_40m_chans[11 + 1] = 159
      BY <2>4, List40, List80
    <3> QED BY <3>1
  <2> QED BY <2>2, <2>3, <2>4
<1>2. /\ wf_5g_80m_chans[1] = 42 /\ wf_5g_80m_chans[2] = 58
      /\ wf_5g_80m_chans[3] = 106 /\ wf_5g_80m_chans[4] = 122
  BY List80
<1>3. ASSUME NEW ch \in Elements(wf_5g_80m_chans)
      PROVE  ch - 4 \in Elements(wf_5g_40m_chans) /\ ch + 4 \in Elements(wf_5g_40m_chans)
  <2>1. PICK n \in 1..6 : ch = wf_5g_80m_chans[n]
    BY <1>3, List80 DEF Elements
  <2> QED BY <1>1, <2>1, List40 DEF Elements
<1>4. ASSUME NEW ch \in Elements(wf_5g_160m_chans)
      PROVE  ch - 8 \in Elements(wf_5g_80m_chans) /\ ch + 8 \in Elements(wf_5g_80m_chans)
  <2>1. ch = 50 \/ ch = 114
    BY <1>4, List160 DEF Elements
  <2> QED BY <1>2, <2>1, List80 DEF Elements
<1> QED BY <1>3, <1>4

LEMMA ControlOf40 ==
    ASSUME NEW ch \in Elements(wf_5g_40m_chans), NEW sb \in 0..1
    PROVE  ch - 2 + 4 * sb \in Singles
<1>1. ch \in Nat
  BY Center40
<1>2. ch - 2 \in Singles /\ ch + 2 \in Singles
  BY DEF Singles
<1>3. ch - 2 + 4 * 0 = ch - 2 /\ ch - 2 + 4 * 1 = ch + 2
  BY <1>1
<1>4. sb = 0 \/ sb = 1
  OBVIOUS
<1> QED BY <1>2, <1>3, <1>4

LEMMA ControlOf80 ==
    ASSUME NEW ch \in Elements(wf_5g_80m_chans), NEW sb \in 0..3
    PROVE  ch - 6 + 4 * sb \in Singles
<1>1. ch \in Nat
  <2>1. 80 \in Wide /\ Centers(80) = wf_5g_80m_chans
    BY DEF Wide, Centers
  <2> QED BY <2>1, CenterElements
<1>2. CASE sb \in 0..1
  <2>1. (ch - 4) - 2 + 4 * sb \in Singles
    BY <1>2, Halves, ControlOf40
  <2>2. (ch - 4) - 2 + 4 * sb = ch - 6 + 4 * sb
    BY <1>1
  <2> QED BY <2>1, <2>2
<1>3. CASE sb \in 2..3
  <2>1. (ch + 4) - 2 + 4 * (sb - 2) \in Singles
    <3>1. sb - 2 \in 0..1
      BY <1>3
    <3> QED BY <3>1, Halves, ControlOf40
  <2>2. (ch + 4) - 2 + 4 * (sb - 2) = ch - 6 + 4 * sb
    BY <1>1
  <2> QED BY <2>1, <2>2
<1> QED BY <1>2, <1>3

LEMMA ControlOf160 ==
    ASSUME NEW ch \in Elements(wf_5g_160m_chans), NEW sb \in 0..7
    PROVE  ch - 14 + 4 * sb \in Singles
<1>1. ch \in Nat
  BY List160 DEF Elements
<1>2. CASE sb \in 0..3
  <2>1. (ch - 8) - 6 + 4 * sb \in Singles
    BY <1>2, Halves, ControlOf80
  <2>2. (ch - 8) - 6 + 4 * sb = ch - 14 + 4 * sb
    BY <1>1
  <2> QED BY <2>1, <2>2
<1>3. CASE sb \in 4..7
  <2>1. (ch + 8) - 6 + 4 * (sb - 4) \in Singles
    <3>1. sb - 4 \in 0..3
      BY <1>3
    <3> QED BY <3>1, Halves, ControlOf80
  <2>2. (ch + 8) - 6 + 4 * (sb - 4) = ch - 14 + 4 * sb
    BY <1>1
  <2> QED BY <2>1, <2>2
<1> QED BY <1>2, <1>3

LEMMA ControlIsSingle ==
    ASSUME NEW c \in ValidChanspecs, CHSPEC_BAND(c) = 3
    PROVE  Control(c) \in Singles
<1> DEFINE bw == CHSPEC_BW(c)
           sb == CHSPEC_CTL_SB(c)
           ch == CHSPEC_CHANNEL(c)
<1>1. /\ Allowed(3, bw, sb, ch) /\ bw \in 2..5 /\ sb \in 0..7 /\ ch \in Nat
      /\ sb < Slots20(bw_chspec_to_mhz(bw))
  BY ValidIs, ValidFields DEF Mhz
<1>2. Control(c) = ch - Reach(bw_chspec_to_mhz(bw)) + 4 * sb
  BY ValidControl DEF Mhz
<1> HIDE DEF bw, sb, ch
<1>3. CASE bw = 2
  <2>1. ch \in Singles /\ sb = 0
    BY <1>1, <1>3 DEF Allowed
  <2> QED BY <1>1, <1>2, <1>3, <2>1, MhzIs, Widths
<1>4. bw \in 3..5 => ch \in Elements(Centers(bw_chspec_to_mhz(bw)))
  BY <1>1 DEF Allowed
<1>5. CASE bw = 3
  BY <1>1, <1>2, <1>4, <1>5, ControlOf40, MhzIs, Widths DEF Centers
<1>6. CASE bw = 4
  BY <1>1, <1>2, <1>4, <1>6, ControlOf80, MhzIs, Widths DEF Centers
<1>7. CASE bw = 5
  BY <1>1, <1>2, <1>4, <1>7, ControlOf160, MhzIs, Widths DEF Centers
<1> QED BY <1>1, <1>3, <1>5, <1>6, <1>7

LEMMA ControlChanspec ==
    ASSUME NEW c \in ValidChanspecs
    PROVE  /\ wf_chspec_ctlchspec(c) \in ValidChanspecs
           /\ wf_chspec_ctlchan(wf_chspec_ctlchspec(c)) = Control(c)
<1>1. CASE CHSPEC_BW(c) = 2
  BY <1>1, CodesAre, ValidControl DEF wf_chspec_ctlchspec, Codes
<1>2. CASE CHSPEC_BW(c) # 2
  <2> DEFINE ctl == Control(c)
             band == CHSPEC_BAND(c)
             d == Of(band, 2, 0, ctl)
  <2>1. /\ ctl \in Nat /\ ctl >= 1 /\ ctl <= 161 /\ (ctl <= 14 <=> band = 0)
        /\ wf_chspec_ctlchan(c) = ctl /\ band \in {0, 3}
    BY ValidControl, ValidFields
  <2>2. band = 3 => ctl \in Singles
    BY ControlIsSingle
  <2> HIDE DEF ctl, band
  <2>3. wf_chspec_ctlchspec(c) = d
    <3>1. wf_chspec_ctlchspec(c) = Compose(band, 2, 0, ctl)
      BY <1>2, <2>1, CodesAre DEF wf_chspec_ctlchspec, Codes, band
    <3> QED BY <2>1, <3>1, ComposeIsOf
  <2>4. Allowed(band, 2, 0, ctl)
    BY <2>1, <2>2 DEF Allowed
  <2>5. d \in ValidChanspecs
    BY <2>1, <2>4, ValidOf
  <2>6. CHSPEC_BW(d) = 2 /\ CHSPEC_CHANNEL(d) = ctl
    BY <2>1, FieldsOf
  <2>7. wf_chspec_ctlchan(d) = ctl
    BY <2>6, CodesAre DEF wf_chspec_ctlchan, Codes
  <2> QED BY <2>3, <2>5, <2>7 DEF ctl
<1> QED BY <1>1, <1>2
LEMMA PrimaryHalf ==
    ASSUME NEW c \in ValidChanspecs
    PROVE  LET half == wf_chspec_primary40_chspec(c)
           IN  /\ half \in ValidChanspecs /\ wf_chspec_ctlchan(half) = Control(c)
               /\ Elements(Slots(half)) \subseteq Elements(Slots(c))
<1>1. CASE CHSPEC_BW(c) # 4
  BY <1>1, CodesAre, ValidControl DEF wf_chspec_primary40_chspec, Codes
<1>2. CASE CHSPEC_BW(c) = 4
  <2> DEFINE sb == CHSPEC_CTL_SB(c)
             ch == CHSPEC_CHANNEL(c)
             up == UpperHalf(sb)
             hsb == IF up THEN sb - 2 ELSE sb
             hch == IF up THEN ch + 4 ELSE ch - 4
             d == Of(3, 3, hsb, hch)
  <2>1. /\ c \in chanspec_t /\ CHSPEC_BAND(c) = 3 /\ Mhz(c) = 80 /\ sb \in 0..7 /\ sb < 4
        /\ ch \in Nat /\ ch >= 40 /\ ch <= 155
    BY <1>2, ValidFields, MhzIs, Widths DEF Mhz
  <2>2. ch \in Elements(wf_5g_80m_chans)
    <3>1. Allowed(3, 4, sb, ch)
      BY <1>2, <2>1, ValidIs, ValidFields
    <3> QED BY <3>1, MhzIs DEF Allowed, Centers
  <2>3. up <=> sb >= 2
    BY <2>1 DEF UpperHalf
  <2>4. hch \in Elements(wf_5g_40m_chans)
    BY <2>2, Halves
  <2> HIDE DEF sb, ch, up
  <2>5. hsb \in 0..7 /\ hsb <= 1 /\ hch \in Nat /\ hch < 256
    BY <2>1, <2>3
  <2>6. wf_chspec_primary40_chspec(c) = d
    <3>1. wf_chspec_primary40_chspec(c) = Compose(3, 3, hsb, hch)
      BY <1>2, CodesAre DEF wf_chspec_primary40_chspec, Codes, sb, ch, up
    <3> QED BY <2>5, <3>1, ComposeIsOf
  <2> HIDE DEF hsb, hch
  <2>7. d \in ValidChanspecs
    <3>1. Allowed(3, 3, hsb, hch)
      BY <2>4, <2>5, MhzIs, Widths DEF Allowed, Centers
    <3> QED BY <2>5, <3>1, ValidOf
  <2>8. /\ d \in chanspec_t /\ CHSPEC_BW(d) = 3 /\ CHSPEC_CTL_SB(d) = hsb
        /\ CHSPEC_CHANNEL(d) = hch
    BY <2>5, FieldsOf
  <2>9. Mhz(d) = 40
    BY <2>8, MhzIs DEF Mhz
  <2> HIDE DEF d
  <2>10. Control(d) = hch - 2 + 4 * hsb /\ Control(c) = ch - 6 + 4 * sb
    BY <2>1, <2>7, <2>8, <2>9, ValidControl, Widths DEF ch, sb
  <2>11. Control(d) = Control(c)
    BY <2>1, <2>3, <2>10 DEF hch, hsb
  <2>12. /\ DOMAIN Slots(d) = 1..2 /\ DOMAIN Slots(c) = 1..4
         /\ \A k \in 1..2 : Slots(d)[k] = hch - 2 + 4 * (k - 1)
         /\ \A k \in 1..4 : Slots(c)[k] = ch - 6 + 4 * (k - 1)
    <3>1. ASSUME NEW e \in chanspec_t, CHSPEC_BW(e) \in 2..5, NEW mhz, Mhz(e) = mhz
          PROVE  /\ DOMAIN Slots(e) = 1..Slots20(mhz)
                 /\ \A k \in 1..Slots20(mhz) :
                       Slots(e)[k] = CHSPEC_CHANNEL(e) - Reach(mhz) + 4 * (k - 1)
      BY <3>1, SlotsAre
    <3>2. /\ DOMAIN Slots(d) = 1..Slots20(40)
          /\ \A k \in 1..Slots20(40) : Slots(d)[k] = hch - Reach(40) + 4 * (k - 1)
      BY <2>8, <2>9, <3>1
    <3>3. /\ DOMAIN Slots(c) = 1..Slots20(80)
          /\ \A k \in 1..Slots20(80) : Slots(c)[k] = ch - Reach(80) + 4 * (k - 1)
      BY <1>2, <2>1, <3>1 DEF ch
    <3> QED BY <3>2, <3>3, Widths
  <2>13. \A k \in 1..2 : \E j \in 1..4 : Slots(d)[k] = Slots(c)[j]
    <3> SUFFICES ASSUME NEW k \in 1..2
                 PROVE  \E j \in 1..4 : Slots(d)[k] = Slots(c)[j]
      OBVIOUS
    <3>1. CASE up
      <4>1. Slots(d)[k] = Slots(c)[k + 2] /\ k + 2 \in 1..4
        BY <2>1, <2>12, <3>1 DEF hch
      <4> QED BY <4>1
    <3>2. CASE ~up
      <4>1. Slots(d)[k] = Slots(c)[k] /\ k \in 1..4
        BY <2>1, <2>12, <3>2 DEF hch
      <4> QED BY <4>1
    <3> QED BY <3>1, <3>2
  <2>14. Elements(Slots(d)) \subseteq Elements(Slots(c))
    BY <2>12, <2>13 DEF Elements
  <2> QED BY <2>6, <2>7, <2>11, <2>14, ValidControl
<1> QED BY <1>1, <1>2

LEMMA ChannelBack ==
    ASSUME NEW c \in ValidChanspecs, CHSPEC_BAND(c) = 3 \/ CHSPEC_BW(c) = 2
    PROVE  wf_channel2chspec(Control(c), CHSPEC_BW(c)) = c
<1> DEFINE band == CHSPEC_BAND(c)
           bw == CHSPEC_BW(c)
           sb == CHSPEC_CTL_SB(c)
           ch == CHSPEC_CHANNEL(c)
           ctl == Control(c)
           mhz == bw_chspec_to_mhz(bw)
<1>1. /\ c \in chanspec_t /\ band \in {0, 3} /\ bw \in 2..5 /\ sb \in 0..7 /\ sb < Slots20(mhz)
      /\ ch \in Nat /\ ch + Reach(mhz) <= 161 /\ Reach(mhz) \in Nat
  <2>1. Reach(Mhz(c)) \in Nat
    BY ValidFields, MhzIs, Widths DEF Mhz
  <2> QED BY <2>1, ValidFields DEF Mhz
<1>2. ctl \in Nat /\ (ctl <= 14 <=> band = 0) /\ ctl = ch - Reach(mhz) + 4 * sb
  BY ValidControl DEF Mhz
<1>3. Allowed(band, bw, sb, ch) /\ c = Of(band, bw, sb, ch)
  BY <1>1, ValidIs, ValidFields, OfFields
<1>4. band = 3 \/ bw = 2
  OBVIOUS
<1> HIDE DEF band, bw, sb, ch, ctl
<1>5. DefaultBand(ctl) = band
  BY <1>1, <1>2 DEF DefaultBand, Band2G, Band5G
<1>6. CASE bw = 2
  <2>1. sb = 0 /\ ctl = ch
    BY <1>1, <1>2, <1>6, MhzIs, Widths
  <2>2. wf_channel2chspec(ctl, bw) = Compose(band, bw, 0, ctl)
    BY <1>5, <1>6, CodesAre DEF wf_channel2chspec, Codes
  <2>3. wf_channel2chspec(ctl, bw) = c
    BY <1>1, <1>3, <1>6, <2>1, <2>2, ComposeIsOf
  <2> QED BY <2>3 DEF ctl, bw
<1>7. CASE bw \in 3..5
  <2>1. band = 3 /\ mhz \in Wide
    BY <1>4, <1>7, MhzIs DEF Wide
  <2>2. ch \in Elements(Centers(mhz))
    BY <1>3, <1>7, <2>1 DEF Allowed
  <2>3. PICK n \in DOMAIN Centers(mhz) : Centers(mhz)[n] = ch
    BY <2>1, <2>2, CenterElements
  <2>4. Around(ctl, mhz) = <<ch, sb>>
    BY <1>1, <1>2, <2>1, <2>3, AroundOne
  <2>5. <<ch, sb>> # <<>> /\ <<ch, sb>>[1] = ch /\ <<ch, sb>>[2] = sb
    OBVIOUS
  <2>6. wf_channel2chspec(ctl, bw) = Compose(band, bw, sb, ch)
    BY <1>5, <1>7, <2>4, <2>5, CodesAre DEF wf_channel2chspec, Codes
  <2>7. wf_channel2chspec(ctl, bw) = c
    BY <1>1, <1>3, <1>7, <2>6, ComposeIsOf
  <2> QED BY <2>7 DEF ctl, bw
<1> QED BY <1>1, <1>6, <1>7

LEMMA AllAgree ==
    ASSUME NEW c \in ValidChanspecs
    PROVE  Agree(c)
<1>1. wf_chspec_ctlchan(c) = Control(c) /\ CHSPEC_BAND(c) \in {0, 3}
  BY ValidControl, ValidFields
<1>2. /\ {wf_chspec_ctlchspec(c), wf_chspec_primary40_chspec(c)} \subseteq ValidChanspecs
      /\ wf_chspec_ctlchan(wf_chspec_ctlchspec(c)) = Control(c)
      /\ wf_chspec_ctlchan(wf_chspec_primary40_chspec(c)) = Control(c)
      /\ Elements(Slots(wf_chspec_primary40_chspec(c))) \subseteq Elements(Slots(c))
  BY ControlChanspec, PrimaryHalf
<1>3. CHSPEC_BAND(c) = Band5G \/ CHSPEC_BW(c) = BW.b20
        => wf_channel2chspec(Control(c), CHSPEC_BW(c)) = c
  BY ChannelBack, CodesAre DEF Codes
<1>4. wf_mhz2channel(wf_channel2mhz(Control(c),
          IF CHSPEC_BAND(c) = Band2G THEN Factor2G ELSE Factor5G), 0) = Control(c)
  BY ValidControl, FrequencyBack, CodesAre DEF Codes
<1> QED BY <1>1, <1>2, <1>3, <1>4 DEF Agree
(* What the command makes of a text: always sixteen bits.                   *)
LEMMA ComposeRange ==
    ASSUME NEW band \in Nat, NEW bw \in Nat, NEW sb \in Nat, NEW ch \in Nat
    PROVE  Compose(band, bw, sb, ch) \in chanspec_t
<1>1. 16384 * band + 2048 * bw + 256 * sb \in Nat
  OBVIOUS
<1> QED BY <1>1, OrRange DEF Compose

LEMMA AtonRange ==
    ASSUME NEW t, Plain(t) \/ PairText(t)
    PROVE  wf_chspec_aton(t) \in chanspec_t
<1>1. 0 \in chanspec_t
  BY ChanspecRange
<1>2. CASE PairText(t)
  BY <1>1, <1>2, PairsRefused
<1>3. CASE Plain(t) /\ Fields(t) # <<>>
  <2>1. \E ch, sb, bw \in Nat : Fields(t) = <<ch, sb, bw>>
    <3>1. t.number \in Nat /\ t.sb \in {"-", "l", "u"} /\ t.width \in {0, 20, 40, 80, 160}
      BY <1>3 DEF Plain
    <3>2. CASE t.sb = "l"
      <4>1. UPPER_20_SB(t.number) \in Nat
        BY <3>1 DEF UPPER_20_SB
      <4> QED BY <1>3, <3>2, <4>1, FieldsOfLower
    <3>3. CASE t.sb = "u"
      <4>1. LOWER_20_SB(t.number) \in Nat
        BY <3>1 DEF LOWER_20_SB
      <4> QED BY <1>3, <3>3, <4>1, FieldsOfUpper
    <3>4. CASE t.sb = "-" /\ t.width \in {0, 20}
      BY <1>3, <3>1, <3>4, FieldsOfSingle
    <3>5. CASE t.sb = "-" /\ t.width \in Wide
      <4>1. Around(t.number, t.width) # <<>>
        BY <1>3, <3>5, FieldsOfWide
      <4>2. PICK n \in DOMAIN Centers(t.width), k \in Nat :
              Around(t.number, t.width) = <<Centers(t.width)[n], k>>
        BY <3>1, <3>5, <4>1, AroundOnly
      <4>3. Fields(t) = <<Centers(t.width)[n], k, WideCode(t.width)>>
        BY <1>3, <3>5, <4>2, FieldsOfWide
      <4>4. Centers(t.width)[n] \in Nat /\ WideCode(t.width) \in 3..5
        BY <3>5, CentersAre, WideCodes
      <4>5. WideCode(t.width) \in Nat
        BY <4>4
      <4> QED BY <4>3, <4>4, <4>5
    <3> QED BY <3>1, <3>2, <3>3, <3>4, <3>5 DEF Wide
  <2>2. PICK ch, sb, bw \in Nat : Fields(t) = <<ch, sb, bw>>
    BY <2>1
  <2>3. Compose(BandOf(t), Fields(t)[3], Fields(t)[2], Fields(t)[1]) \in chanspec_t
    BY <2>2, BandIs, ComposeRange
  <2> QED BY <1>1, <2>3 DEF wf_chspec_aton
<1>4. CASE Fields(t) = <<>>
  BY <1>1, <1>4 DEF wf_chspec_aton
<1> QED BY <1>2, <1>3, <1>4

LEMMA NotChanspecs ==
    /\ 0 \notin ValidChanspecs /\ INVCHANSPEC \in chanspec_t
    /\ wf_chspec_malformed(INVCHANSPEC)
<1>1. 0 \in chanspec_t /\ 255 \in chanspec_t
  BY ChanspecRange
<1>2. CHSPEC_BW(0) = 0 /\ CHSPEC_BW(255) = 0
  BY DEF CHSPEC_BW
<1> QED BY <1>1, <1>2, ValidFields, MalformedIs DEF WellFormed, INVCHANSPEC

LEMMA TakenByDriver ==
    ASSUME NEW c \in chanspec_t, ~wf_chspec_malformed(c), wl_chspec_to_driver(c) = INVCHANSPEC
    PROVE  Legacy /\ CHSPEC_BW(c) \notin {2, 3}
  BY NotChanspecs, LegacyTakes DEF wl_chspec_to_driver

(* A text called wrong names nothing, or is one of the excused ones.        *)
LEMMA UsageIsRight ==
    ASSUME NEW t, Plain(t),
           wf_chspec_aton(t) = 0 \/ wl_chspec_to_driver(wf_chspec_aton(t)) = INVCHANSPEC
    PROVE  Names(t) = {} \/ Refused(t) \/ (Legacy /\ t.width > 40)
<1> SUFFICES ASSUME NEW c \in Names(t), ~Refused(t)
             PROVE  Legacy /\ t.width > 40
  OBVIOUS
<1>1. wf_chspec_aton(t) = c /\ c \in ValidChanspecs
  BY Found, NamedIs
<1>2. wl_chspec_to_driver(c) = INVCHANSPEC
  BY <1>1, NotChanspecs
<1>3. Legacy /\ CHSPEC_BW(c) \notin {2, 3} /\ CHSPEC_BW(c) \in 2..5
  BY <1>1, <1>2, TakenByDriver, ValidFields
<1>4. Mhz(c) \in {80, 160}
  BY <1>3, MhzIs DEF Mhz
<1>5. Mhz(c) = IF t.width # 0 THEN t.width ELSE IF t.sb # "-" THEN 40 ELSE 20
  BY NamedIs
<1>6. t.width \in {0, 20, 40, 80, 160}
  BY DEF Plain
<1> QED BY <1>3, <1>4, <1>5, <1>6

(* The options, put together, are what they say.                            *)
Chosen(o) ==
    Compose(IF o.b = 5 THEN Band5G ELSE Band2G,
            IF o.w = 20 THEN BW.b20 ELSE IF o.w = 40 THEN BW.b40 ELSE BW.b80,
            IF o.s = 1 THEN 1 ELSE 0, o.c)
LEMMA ChosenIs ==
    ASSUME NEW o \in Options
    PROVE  /\ Chosen(o) \in chanspec_t
           /\ wf_chspec_valid(Chosen(o)) =>
                /\ CHSPEC_CHANNEL(Chosen(o)) = o.c /\ Len(Slots(Chosen(o))) * 20 = o.w
                /\ CHSPEC_BAND(Chosen(o)) = IF o.b = 2 THEN Band2G ELSE Band5G
                /\ o.w = 40 => (Control(Chosen(o)) > o.c <=> o.s = 1)
<1> DEFINE band == IF o.b = 5 THEN 3 ELSE 0
           bw == IF o.w = 20 THEN 2 ELSE IF o.w = 40 THEN 3 ELSE 4
           sb == IF o.s = 1 THEN 1 ELSE 0
           c == Chosen(o)
<1>1. o.c \in Nat /\ o.c < 256 /\ o.b \in {2, 5} /\ o.w \in {20, 40, 80} /\ o.s \in {-1, 0, 1, 2}
  <2>1. o.c \in 0..224 /\ o.b \in {2, 5} /\ o.w \in {20, 40, 80} /\ o.s \in {-1, 0, 1, 2}
    BY Zenon DEF Options
  <2> QED BY <2>1
<1>2. c = Compose(band, bw, sb, o.c)
  BY CodesAre DEF Chosen, Codes
<1>3. band \in {0, 3} /\ bw \in 2..4 /\ sb \in 0..1
  BY <1>1
<1>4. bw_chspec_to_mhz(bw) = o.w
  BY <1>1, MhzIs
<1>5. (IF o.b = 2 THEN Band2G ELSE Band5G) = band
  BY <1>1 DEF Band2G, Band5G
<1>6. o.s = 1 <=> sb = 1
  OBVIOUS
<1> HIDE DEF band, bw, sb, c
<1>7. c = Of(band, bw, sb, o.c)
  BY <1>1, <1>2, <1>3, ComposeIsOf
<1>8. /\ c \in chanspec_t /\ CHSPEC_BAND(c) = band /\ CHSPEC_BW(c) = bw
      /\ CHSPEC_CTL_SB(c) = sb /\ CHSPEC_CHANNEL(c) = o.c
  BY <1>1, <1>3, <1>7, FieldsOf
<1>9. Mhz(c) = o.w
  BY <1>4, <1>8 DEF Mhz
<1>10. ASSUME wf_chspec_valid(c)
       PROVE  Len(Slots(c)) * 20 = o.w /\ Control(c) = o.c - Reach(o.w) + 4 * sb
  BY <1>8, <1>9, <1>10, ValidControl DEF ValidChanspecs
<1>11. ASSUME wf_chspec_valid(c), o.w = 40
       PROVE  Control(c) > o.c <=> o.s = 1
  <2>1. Control(c) = o.c - 2 + 4 * sb
    BY <1>10, <1>11, Widths
  <2> QED BY <1>1, <1>3, <1>6, <2>1
<1> QED BY <1>5, <1>8, <1>10, <1>11 DEF c
(* The session.  The driver's chanspec is always the converted form of a    *)
(* valid one; what was typed last was treated as TypedIsTuned says; and     *)
(* what was shown last is the text of the chanspec in use.                  *)
ShownIsHeld == last.command = "show" => last.text = wf_chspec_ntoa(Held)
Inv == TypeOK /\ TypedIsTuned /\ ShownIsHeld

LEMMA TextsAre ==
    ASSUME NEW t \in Texts
    PROVE  Plain(t) \/ PairText(t)
<1>1. CASE t \in [band : {"-", "2g", "5g"}, number : Numbers, width : {0, 20, 40, 80, 160},
                  sb : {"-", "l", "u"}, plus : {"-"}, pair : {<<>>}]
  BY <1>1, NumbersAssumption DEF Plain
<1>2. CASE t \in [band : {"-"}, number : Numbers, width : {20, 80}, sb : {"-"},
                  plus : {"80/", "40/"}, pair : Pairs]
  BY <1>2, NumbersAssumption DEF PairText
<1> QED BY <1>1, <1>2 DEF Texts

LEMMA UsableIsConverted ==
    ASSUME NEW d \in Usable
    PROVE  \E c \in ValidChanspecs : d = wl_chspec_to_driver(c) /\ wl_chspec_from_driver(d) = c
<1>1. PICK c \in ValidChanspecs : d = wl_chspec_to_driver(c) /\ d # INVCHANSPEC
  BY DEF Usable
<1>2. c \in chanspec_t
  BY ValidFields
<1> QED BY <1>1, <1>2, DriverBack

LEMMA SameHeld ==
    ASSUME UNCHANGED <<ioctl_version, chanspec>>
    PROVE  Held' = Held
  BY DEF Held, wl_chspec_from_driver, Legacy

LEMMA HeldAfter ==
    ASSUME UNCHANGED ioctl_version
    PROVE  Held' = wl_chspec_from_driver(chanspec')
  BY DEF Held, wl_chspec_from_driver, Legacy

LEMMA InitInv == Init => Inv
<1> SUFFICES ASSUME Init
             PROVE  Inv
  OBVIOUS
<1>1. last = [command |-> "none"] /\ ioctl_version \in Versions
  BY DEF Init
<1>2. Held \in ValidChanspecs
  BY UsableIsConverted DEF Init, Held
<1>3. last.command = "none"
  BY <1>1
<1> QED BY <1>1, <1>2, <1>3 DEF Inv, TypeOK, TypedIsTuned, ShownIsHeld

(* A command sent to the driver: refused as it cannot be expressed, taken,  *)
(* or refused by the driver.                                                *)
LEMMA SendDoes ==
    ASSUME NEW c \in chanspec_t, NEW command, NEW what, Send(c, command, what),
           UNCHANGED ioctl_version, Held \in ValidChanspecs
    PROVE  \/ /\ last' = Typed(command, what, "usage") /\ Held' = Held
              /\ wl_chspec_to_driver(c) = INVCHANSPEC
           \/ /\ last' = Typed(command, what, "none") /\ Held' = c /\ wf_chspec_valid(c)
           \/ /\ last' = Typed(command, what, "driver") /\ Held' = Held
<1>1. CASE wl_chspec_to_driver(c) = INVCHANSPEC
  BY <1>1, SameHeld DEF Send
<1>2. CASE wl_chspec_to_driver(c) # INVCHANSPEC
  <2>1. wl_chspec_from_driver(wl_chspec_to_driver(c)) = c
    BY <1>2, DriverBack
  <2>2. CASE /\ chanspec' = wl_chspec_to_driver(c)
             /\ wf_chspec_valid(wl_chspec_from_driver(chanspec'))
             /\ last' = Typed(command, what, "none")
    BY <2>1, <2>2, HeldAfter
  <2>3. CASE last' = Typed(command, what, "driver") /\ UNCHANGED chanspec
    BY <2>3, SameHeld
  <2> QED BY <1>2, <2>2, <2>3 DEF Send
<1> QED BY <1>1, <1>2

LEMMA TypedFields ==
    ASSUME NEW command, NEW what, NEW error
    PROVE  /\ Typed(command, what, error).command = command
           /\ Typed(command, what, error).typed = what
           /\ Typed(command, what, error).error = error
  BY DEF Typed

LEMMA SetInv ==
    ASSUME Inv, NEW t \in Texts, Set(t)
    PROVE  Inv'
<1> DEFINE c == wf_chspec_aton(t)
<1>1. UNCHANGED ioctl_version /\ Held \in ValidChanspecs /\ ioctl_version \in Versions
  BY DEF Set, Inv, TypeOK
<1>2. Plain(t) \/ PairText(t)
  BY TextsAre
<1>3. c \in chanspec_t
  BY <1>2, AtonRange
<1>4. \/ /\ last' = Typed("text", t, "usage") /\ Held' = Held
         /\ c = 0 \/ wl_chspec_to_driver(c) = INVCHANSPEC
      \/ /\ last' = Typed("text", t, "none") /\ Held' = c /\ wf_chspec_valid(c) /\ c # 0
      \/ /\ last' = Typed("text", t, "driver") /\ Held' = Held
  <2>1. CASE c = 0
    BY <1>1, <2>1, SameHeld DEF Set
  <2>2. CASE c # 0
    <3>1. Send(c, "text", t)
      BY <2>2 DEF Set
    <3> QED BY <1>1, <1>3, <2>2, <3>1, SendDoes
  <2> QED BY <2>1, <2>2
<1>5. NamedBy[t] = Names(t)
  BY DEF NamedBy
<1>6. ASSUME c # 0, wf_chspec_valid(c)
      PROVE  t.plus = "-" /\ (t.number < 256 => NamedBy[t] = {c})
  <2>1. Plain(t)
    BY <1>2, <1>6, PairsRefused
  <2> QED BY <1>5, <1>6, <2>1, Taken DEF Plain
<1>7. ASSUME c = 0 \/ wl_chspec_to_driver(c) = INVCHANSPEC
      PROVE  \/ Cardinality(NamedBy[t]) # 1
             \/ t.width = 40 /\ (t.sb = "-" <=> BandOf(t) = Band2G)
             \/ Legacy' /\ t.width > 40
  <2>1. Names(t) = {} \/ Refused(t) \/ (Legacy /\ t.width > 40)
    <3>1. CASE Plain(t)
      BY <1>7, <3>1, UsageIsRight
    <3>2. CASE PairText(t)
      BY <3>2 DEF PairText, Names
    <3> QED BY <1>2, <3>1, <3>2
  <2>2. Cardinality({}) # 1
    BY FS_EmptySet
  <2>3. Legacy' <=> Legacy
    BY <1>1 DEF Legacy
  <2> QED BY <1>5, <2>1, <2>2, <2>3 DEF Refused
<1> HIDE DEF c
<1>8. /\ last'.command = "text" /\ last'.typed = t /\ last'.error \in {"none", "usage", "driver"}
      /\ last'.error = "none" => Held' = c /\ wf_chspec_valid(c) /\ c # 0
      /\ last'.error = "usage" => c = 0 \/ wl_chspec_to_driver(c) = INVCHANSPEC
      /\ Held' \in ValidChanspecs
  BY <1>1, <1>3, <1>4, TypedFields DEF ValidChanspecs
<1>9. TypeOK'
  BY <1>1, <1>8 DEF TypeOK
<1>10. TypedIsTuned'
  BY <1>6, <1>7, <1>8 DEF TypedIsTuned
<1>11. ShownIsHeld'
  BY <1>8 DEF ShownIsHeld
<1> QED BY <1>9, <1>10, <1>11 DEF Inv

LEMMA OptionsInv ==
    ASSUME Inv, NEW o \in Options, SetByOptions(o)
    PROVE  Inv'
<1> DEFINE c == Chosen(o)
<1>1. UNCHANGED ioctl_version /\ Held \in ValidChanspecs /\ ioctl_version \in Versions
  BY DEF SetByOptions, Inv, TypeOK
<1>2. \/ /\ last' = Typed("options", o, "usage") /\ Held' = Held
      \/ /\ last' = Typed("options", o, "none") /\ Held' = c /\ wf_chspec_valid(c)
      \/ /\ last' = Typed("options", o, "driver") /\ Held' = Held
  <2>1. CASE last' = Typed("options", o, "usage") /\ UNCHANGED chanspec
    BY <1>1, <2>1, SameHeld
  <2>2. CASE Send(c, "options", o)
    BY <1>1, <2>2, ChosenIs, SendDoes
  <2> QED BY <2>1, <2>2 DEF SetByOptions, Chosen
<1>3. /\ last'.command = "options" /\ last'.typed = o /\ last'.error \in {"none", "usage", "driver"}
      /\ last'.error = "none" => Held' = c /\ wf_chspec_valid(c)
      /\ Held' \in ValidChanspecs
  BY <1>1, <1>2, ChosenIs, TypedFields DEF ValidChanspecs
<1>4. TypeOK'
  BY <1>1, <1>3 DEF TypeOK
<1>5. wf_chspec_valid(c) =>
        /\ CHSPEC_CHANNEL(c) = o.c /\ Len(Slots(c)) * 20 = o.w
        /\ CHSPEC_BAND(c) = IF o.b = 2 THEN Band2G ELSE Band5G
        /\ o.w = 40 => (Control(c) > o.c <=> o.s = 1)
  BY ChosenIs
<1> HIDE DEF c
<1>6. TypedIsTuned'
  BY <1>3, <1>5 DEF TypedIsTuned
<1>7. ShownIsHeld'
  BY <1>3 DEF ShownIsHeld
<1> QED BY <1>4, <1>6, <1>7 DEF Inv

LEMMA NextInv == Inv /\ [Next]_vars => Inv'
<1> SUFFICES ASSUME Inv, [Next]_vars
             PROVE  Inv'
  OBVIOUS
<1>1. CASE Prompt
  <2>1. last'.command = "none" /\ Held' = Held /\ ioctl_version' = ioctl_version
    BY <1>1, SameHeld DEF Prompt
  <2> QED BY <2>1 DEF Inv, TypeOK, TypedIsTuned, ShownIsHeld
<1>2. CASE DriverMoves
  <2>1. last'.command = "none" /\ ioctl_version' = ioctl_version
    BY <1>2 DEF DriverMoves
  <2>2. Held' \in ValidChanspecs
    BY <1>2, UsableIsConverted, HeldAfter DEF DriverMoves
  <2> QED BY <2>1, <2>2 DEF Inv, TypeOK, TypedIsTuned, ShownIsHeld
<1>3. CASE Show
  <2>1. last' = [command |-> "show", text |-> wf_chspec_ntoa(Held)] /\ Held' = Held
        /\ ioctl_version' = ioctl_version
    BY <1>3, SameHeld DEF Show
  <2>2. last'.command = "show" /\ last'.text = wf_chspec_ntoa(Held)
    BY <2>1
  <2> QED BY <2>1, <2>2 DEF Inv, TypeOK, TypedIsTuned, ShownIsHeld
<1>4. ASSUME NEW t \in Texts, Set(t)
      PROVE  Inv'
  BY <1>4, SetInv
<1>5. ASSUME NEW o \in Options, SetByOptions(o)
      PROVE  Inv'
  BY <1>5, OptionsInv
<1>6. CASE UNCHANGED vars
  <2>1. last' = last /\ Held' = Held /\ ioctl_version' = ioctl_version
    BY <1>6, SameHeld DEF vars
  <2> QED BY <2>1 DEF Inv, TypeOK, TypedIsTuned, ShownIsHeld, Legacy
<1> QED BY <1>1, <1>2, <1>3, <1>4, <1>5, <1>6 DEF Next

THEOREM Invariant == Spec => []Inv
  BY InitInv, NextInv, PTL DEF Spec

(* What the driver uses, brought back from its format, is always a valid    *)
(* chanspec.                                                                *)
THEOREM ChanspecStaysValid == Spec => []TypeOK
<1>1. Inv => TypeOK
  BY DEF Inv
<1> QED BY <1>1, Invariant, PTL

(* What `wl chanspec' shows can be typed back, in either format and for     *)
(* whatever channel the driver uses (wf_chspec_ntoa and wf_chspec_aton).    *)
THEOREM ShownCanBeTypedBack == Spec => []ShownCanBeTyped
<1>1. Inv => ShownCanBeTyped
  BY PrintedIsRead DEF Inv, TypeOK, ShownIsHeld, ShownCanBeTyped
<1> QED BY <1>1, Invariant, PTL

(* A text that was taken has set the one channel it names and a text that   *)
(* names one is not called wrong, but for the cases TypedIsTuned excuses:   *)
(* for every number that can be typed, and every list of pairs.             *)
THEOREM TypedIsWhatIsTuned == Spec => []TypedIsTuned
<1>1. Inv => TypedIsTuned
  BY DEF Inv
<1> QED BY <1>1, Invariant, PTL

(* The control channel, its chanspec, the primary half, the way back from   *)
(* control channel and width, and the frequency of what is in use agree.    *)
THEOREM AllViewsAgree == Spec => []ViewsAgree
<1>1. Inv => ViewsAgree
  BY AllAgree DEF Inv, TypeOK, ViewsAgree, Agree
<1> QED BY <1>1, Invariant, PTL
=============================================================================
