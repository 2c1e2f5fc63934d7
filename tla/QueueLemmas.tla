---------------------------- MODULE QueueLemmas ------------------------------
(* What a queue of messages contains: for the proofs about the apps' main   *)
(* threads.                                                                 *)
EXTENDS Integers, Sequences, SequencesExt, SequenceTheorems, TLAPS

LEMMA ConcatContains ==
    ASSUME NEW S, NEW s \in Seq(S), NEW t \in Seq(S), NEW e
    PROVE  Contains(s \o t, e) <=> Contains(s, e) \/ Contains(t, e)
<1>1. /\ Len(s \o t) = Len(s) + Len(t)
      /\ \A i \in 1..Len(s) + Len(t) :
            (s \o t)[i] = IF i <= Len(s) THEN s[i] ELSE t[i - Len(s)]
      /\ Len(s) \in Nat /\ Len(t) \in Nat
  BY ConcatProperties, LenProperties
<1>2. ASSUME NEW i \in 1..Len(s) PROVE i \in 1..Len(s \o t) /\ (s \o t)[i] = s[i]
  BY <1>1
<1>3. ASSUME NEW i \in 1..Len(t)
      PROVE  i + Len(s) \in 1..Len(s \o t) /\ (s \o t)[i + Len(s)] = t[i]
  BY <1>1
<1>4. ASSUME NEW i \in 1..Len(s \o t)
      PROVE  \/ i \in 1..Len(s) /\ (s \o t)[i] = s[i]
             \/ i - Len(s) \in 1..Len(t) /\ (s \o t)[i] = t[i - Len(s)]
  BY <1>1
<1> QED BY <1>2, <1>3, <1>4 DEF Contains

LEMMA ConcatOne ==
    ASSUME NEW S, NEW s \in Seq(S), NEW t \in Seq(S), Len(t) = 1
    PROVE  /\ Len(s \o t) = Len(s) + 1 /\ Len(s) \in Nat
           /\ \A i \in 1..Len(s) : (s \o t)[i] = s[i]
           /\ (s \o t)[Len(s) + 1] = t[1]
<1>1. /\ Len(s \o t) = Len(s) + Len(t)
      /\ \A i \in 1..Len(s) + Len(t) :
            (s \o t)[i] = IF i <= Len(s) THEN s[i] ELSE t[i - Len(s)]
      /\ Len(s) \in Nat
  BY ConcatProperties, LenProperties
<1> QED BY <1>1

LEMMA TailContains ==
    ASSUME NEW S, NEW s \in Seq(S), s # <<>>, NEW e
    PROVE  Contains(s, e) <=> e = Head(s) \/ Contains(Tail(s), e)
<1>1. /\ Len(Tail(s)) = Len(s) - 1 /\ Len(s) \in Nat \ {0} /\ Head(s) = s[1]
      /\ \A i \in 1..Len(Tail(s)) : Tail(s)[i] = s[i + 1]
  BY HeadTailProperties, EmptySeq
<1>2. ASSUME NEW i \in 1..Len(Tail(s)) PROVE i + 1 \in 1..Len(s) /\ s[i + 1] = Tail(s)[i]
  BY <1>1
<1>3. ASSUME NEW i \in 1..Len(s), i # 1
      PROVE  i - 1 \in 1..Len(Tail(s)) /\ Tail(s)[i - 1] = s[i]
  BY <1>1, <1>3
<1>4. Contains(s, e) => e = Head(s) \/ Contains(Tail(s), e)
  BY <1>1, <1>3 DEF Contains
<1>5. e = Head(s) \/ Contains(Tail(s), e) => Contains(s, e)
  <2>1. 1 \in 1..Len(s)
    BY <1>1
  <2> QED BY <2>1, <1>1, <1>2, Zenon DEF Contains
<1> QED BY <1>4, <1>5

LEMMA AppendContains ==
    ASSUME NEW S, NEW s \in Seq(S), NEW d \in S, NEW e
    PROVE  Contains(Append(s, d), e) <=> Contains(s, e) \/ e = d
<1>1. /\ Len(Append(s, d)) = Len(s) + 1 /\ Len(s) \in Nat
      /\ \A i \in 1..Len(s) : Append(s, d)[i] = s[i]
      /\ Append(s, d)[Len(s) + 1] = d
  BY AppendProperties, LenProperties
<1> QED BY <1>1 DEF Contains

LEMMA NothingContained == \A e : ~Contains(<<>>, e)
  BY DEF Contains

=============================================================================
