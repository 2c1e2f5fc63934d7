---------------------------- MODULE RwlWifiProofs ----------------------------
(***************************************************************************)
(* For any fragment size, menu, number of tries and length of the queue:   *)
(* what the reader of fragments holds and has counted.  The invariant      *)
(* knows every frame there is as a fragment of a response to something the *)
(* server executed, relates the count to the slots filled, and says that   *)
(* everything queued and held is of one execution, until something else    *)
(* came in.                                                                *)
(***************************************************************************)
EXTENDS RwlWifi, FiniteSetTheorems, SequenceTheorems, TLAPS

FrameShape == [exec : Nat, piece : Nat, sub : Nat, len : Nat]
Requests == [call : Nat, try : Nat, cmd : Menu]

Shape == /\ cpc \in {"idle", "purge", "send", "read", "check", "copy"}
         /\ cmd \in Menu \cup {NoCommand}
         /\ cpc # "idle" => cmd \in Menu
         /\ try \in 0..Retry /\ ret \in {"none", "done", "failed"}
         /\ list \in [Slots -> FrameShape \cup {Missing}]
         /\ num \in 0..(FragCount + 1) /\ total \in 0..FragCount
         /\ last \in Nat \cup {-1}
         /\ queue \in Seq(FrameShape) /\ Len(queue) <= QMax
         /\ serial \in 0..MaxCalls /\ stale \in BOOLEAN /\ odd \in 0..MaxOdd

(* Requests and executions are of calls that were made.                     *)
Called == /\ req \subseteq Requests /\ ran \in Seq(Requests)
          /\ \A r \in req : r.call <= serial
          /\ \A e \in 1..Len(ran) : ran[e].call <= serial

(* A frame is noise or a fragment of a response to something executed.      *)
Known(f) == /\ f \in FrameShape /\ Full(f.len) < FragCount
            /\ f.exec <= Len(ran)
            /\ f.exec > 0 =>
                 LET reply == ran[f.exec].cmd.reply
                 IN  /\ f.piece \in 1..Len(reply) /\ f.len = reply[f.piece]
                     /\ f.sub \in Fragments(f.len)

Filled == {s \in Slots : list[s] # Missing}
Reading == cpc \in {"read", "check", "copy"}

Frames == /\ \A s \in Filled : Known(list[s]) /\ list[s].sub = s
          /\ \A i \in 1..Len(queue) : Known(queue[i])
          /\ \A f \in air : Known(f)

(* The reader has counted at least the slots it filled, and no more unless  *)
(* something odd came in.                                                   *)
Counted == /\ Cardinality(Filled) <= num
           /\ Reading =>
                total = IF list[0] = Missing THEN FragCount ELSE Full(list[0].len)
           /\ cpc = "read" => num <= total
           /\ cpc \in {"check", "copy"} => num > total
           /\ cpc = "copy" => \A s \in 0..(total - 1) : list[s] # Missing
           /\ Reading /\ ~stale => num = Cardinality(Filled)

OfThisTry ==
    /\ (cpc = "send" \/ Reading) /\ ~stale => \A i \in 1..Len(queue) : Fresh(queue[i])
    /\ Reading /\ ~stale => \A s \in Filled : Fresh(list[s])

Rest == Shape /\ Called /\ Frames /\ Counted /\ OfThisTry
Inv == Rest /\ OwnResponse

-----------------------------------------------------------------------------
(* How a response is cut up.                                                *)

LEMMA Division ==
  ASSUME NEW len \in Nat
  PROVE  /\ Full(len) \in Nat
         /\ Full(len) * FragSize <= len
         /\ (len % FragSize = 0) <=> (Full(len) * FragSize = len)
         /\ len <= FragSize => Full(len) \in {0, 1}
         /\ Full(len) = 0 => len < FragSize
         /\ len > FragSize => Full(len) > 0
  BY SizeAssumption, SMTT(30) DEF Full

(* Numbers are at most Full, and every number is used unless the last       *)
(* fragment would be empty.                                                 *)
LEMMA Numbers ==
  ASSUME NEW len \in Nat
  PROVE  /\ Fragments(len) \subseteq 0..Full(len)
         /\ 0 \in Fragments(len)
         /\ len % FragSize # 0 => Fragments(len) = 0..Full(len)
         /\ Full(len) \in Fragments(len) => len % FragSize # 0 \/ Full(len) = 0
<1> DEFINE n == Full(len)
<1>1. /\ n \in Nat /\ n * FragSize <= len
      /\ (len % FragSize = 0) <=> (n * FragSize = len)
      /\ len <= FragSize => n \in {0, 1}
      /\ n = 0 => len < FragSize
      /\ len > FragSize => n > 0
  BY Division
<1>2. CASE len > FragSize
  <2>1. Fragments(len) = {s \in 0..n : s * FragSize # len}
    BY <1>2 DEF Fragments
  <2>2. 0 * FragSize # len
    BY <1>2, SizeAssumption
  <2>3. \A s \in 0..n : s * FragSize <= n * FragSize
    BY <1>1, SizeAssumption
  <2>4. len % FragSize # 0 => \A s \in 0..n : s * FragSize # len
    BY <1>1, <2>3, SizeAssumption
  <2> HIDE DEF n
  <2>5. 0 \in Fragments(len) /\ Fragments(len) \subseteq 0..n
    BY <1>1, <2>1, <2>2
  <2>6. len % FragSize # 0 => Fragments(len) = 0..n
    BY <2>1, <2>4
  <2>7. n \in Fragments(len) => len % FragSize # 0
    BY <1>1, <2>1
  <2> QED BY <2>5, <2>6, <2>7 DEF n
<1>3. CASE ~(len > FragSize)
  <2>1. Fragments(len) = {0}
    BY <1>3 DEF Fragments
  <2>2. len % FragSize # 0 => n = 0
    BY <1>1, <1>3, SizeAssumption
  <2> QED BY <1>1, <2>1, <2>2
<1> QED BY <1>2, <1>3

-----------------------------------------------------------------------------
(* Slots and queue.                                                         *)

LEMMA FilledIsFinite == IsFiniteSet(Filled) /\ Cardinality(Filled) \in 0..FragCount
<1>1. IsFiniteSet(Slots) /\ Cardinality(Slots) = FragCount
  BY FS_Interval, SizeAssumption DEF Slots
<1>2. Filled \in SUBSET Slots
  BY DEF Filled
<1> QED BY <1>1, <1>2, FS_Subset, FS_CardinalityType, SizeAssumption

LEMMA MissingIsNoFrame == Missing \notin FrameShape
  BY DEF Missing, Frame, FrameShape

LEMMA NothingFilled == list = Empty => Filled = {} /\ Cardinality(Filled) = 0
  BY FS_EmptySet DEF Empty, Filled

LEMMA QueuedIsKnown ==
  ASSUME Shape, Frames, queue # <<>>
  PROVE  /\ Head(queue) \in FrameShape /\ Head(queue) = queue[1] /\ 1 \in 1..Len(queue)
         /\ Tail(queue) \in Seq(FrameShape) /\ Len(Tail(queue)) = Len(queue) - 1
         /\ \A i \in 1..Len(Tail(queue)) : Tail(queue)[i] = queue[i + 1]
         /\ Known(Head(queue))
<1>1. queue \in Seq(FrameShape)
  BY DEF Shape
<1> QED BY <1>1, HeadTailProperties, EmptySeq, LenProperties DEF Frames

(* What the client does to the queue: it takes from the front of it.        *)
Shortened == /\ queue' \in Seq(FrameShape) /\ Len(queue') <= Len(queue)
             /\ \A i \in 1..Len(queue') : \E j \in 1..Len(queue) : queue'[i] = queue[j]

LEMMA Shortening ==
  ASSUME Shape, Frames
  PROVE  /\ UNCHANGED queue => Shortened
         /\ queue # <<>> /\ queue' = Tail(queue) => Shortened
<1>1. UNCHANGED queue => Shortened
  BY DEF Shape, Shortened
<1>2. ASSUME queue # <<>>, queue' = Tail(queue) PROVE Shortened
  BY <1>2, QueuedIsKnown, LenProperties DEF Shape, Shortened
<1> QED BY <1>1, <1>2

(* Frames stay known, and of this try or not, while the server goes on.     *)
LEMMA RanGrows ==
  ASSUME Shape, Called, NEW f, Known(f),
         ran' = ran \/ \E r \in Requests : ran' = Append(ran, r)
  PROVE  Known(f)' /\ (UNCHANGED callVars => (Fresh(f)' <=> Fresh(f)))
<1>1. ran \in Seq(Requests) /\ Len(ran) \in Nat /\ f.exec \in Nat /\ f.exec <= Len(ran)
  BY LenProperties DEF Called, Known, FrameShape
<1>2. \A e \in 1..Len(ran) : ran'[e] = ran[e]
  BY <1>1, AppendProperties
<1>3. Len(ran') \in Nat /\ Len(ran') >= Len(ran)
  BY <1>1, AppendProperties
<1>4. Known(f)'
  BY <1>1, <1>2, <1>3 DEF Known
<1>5. UNCHANGED callVars => (Fresh(f)' <=> Fresh(f))
  BY <1>1, <1>2 DEF Fresh, Request, callVars
<1> QED BY <1>4, <1>5

-----------------------------------------------------------------------------
(* What the steps of the client have in common: what they leave alone,      *)
(* where they end, and what becomes of the list.                            *)
Alone == /\ UNCHANGED <<cmd, serial, air, odd, ran>>
         /\ Shortened
         /\ try' \in 0..Retry /\ ret' \in {"none", "done", "failed"}
         /\ last' \in Nat \cup {-1} /\ stale' \in BOOLEAN
         /\ cpc # "idle"

LEMMA AloneKeeps ==
  ASSUME Rest, Alone, req' \subseteq req \cup {Request}
  PROVE  /\ Called'
         /\ \A f : Known(f)' <=> Known(f)
         /\ \A i \in 1..Len(queue') : Known(queue'[i])
         /\ \A f \in air' : Known(f)'
<1>1. Request \in Requests
  BY DEF Rest, Shape, Alone, Request, Requests, SizeAssumption
<1>2. Called'
  BY <1>1 DEF Rest, Shape, Called, Alone, Request, Requests
<1>3. \A f : Known(f)' <=> Known(f)
  BY DEF Alone, Known
<1>4. \A i \in 1..Len(queue') : Known(queue'[i])
  BY DEF Rest, Frames, Alone, Shortened
<1> QED BY <1>2, <1>3, <1>4 DEF Rest, Frames, Alone

(* A step that ends outside the reader.                                     *)
LEMMA Leaves ==
  ASSUME Rest, Alone, UNCHANGED <<rxVars, req>>, cpc' \in {"idle", "purge"}
  PROVE  Rest'
<1>1. Shape'
  BY SizeAssumption DEF Rest, Shape, Alone, Shortened, rxVars
<1>2. Frames'
  BY AloneKeeps DEF Rest, Frames, Filled, rxVars
<1>3. Counted'
  BY DEF Rest, Counted, Filled, Reading, rxVars
<1>4. OfThisTry'
  BY DEF OfThisTry, Reading
<1> QED BY <1>1, <1>2, <1>3, <1>4, AloneKeeps DEF Rest

(* A step that starts to read.                                              *)
LEMMA Restarts ==
  ASSUME Rest, Alone, StartReading, cpc = "send" \/ Reading,
         UNCHANGED <<try, stale, queue>>, req' \subseteq req \cup {Request}
  PROVE  Rest'
<1>1. Filled' = {} /\ Cardinality(Filled') = 0
  <2>1. (list = Empty => Filled = {} /\ Cardinality(Filled) = 0)'
    BY NothingFilled, PTL
  <2> QED BY <2>1 DEF StartReading, Empty
<1>2. Shape'
  BY SizeAssumption DEF Rest, Shape, Alone, Shortened, StartReading, Empty, Goto
<1>3. Frames'
  BY <1>1, AloneKeeps DEF Frames
<1>4. Counted'
  BY <1>1, SizeAssumption DEF Counted, StartReading, Goto, Reading, Empty, Slots
<1>5. OfThisTry'
  BY <1>1 DEF Rest, OfThisTry, Alone, Fresh, Request, Reading
<1> QED BY <1>2, <1>3, <1>4, <1>5, AloneKeeps DEF Rest

(* What a fragment read does to the list and to the count.                  *)
LEMMA Fragment ==
  ASSUME Rest, TakeFragment
  PROVE  /\ list' \in [Slots -> FrameShape \cup {Missing}]
         /\ \A s \in Filled' : list'[s] = IF s \in Filled THEN list[s] ELSE Head(queue)
         /\ \A s \in Filled' \ Filled : s = Head(queue).sub
         /\ Cardinality(Filled') <= num' /\ num' \in {num, num + 1}
         /\ ~stale => num' = Cardinality(Filled')
         /\ total' = IF list'[0] = Missing THEN FragCount ELSE Full(list'[0].len)
<1> DEFINE f == Head(queue)
<1>1. /\ cpc = "read" /\ queue # <<>> /\ list' = Keep(f)
      /\ num' = IF Counts(f) THEN num + 1 ELSE num
      /\ total' = IF f.sub = 0 THEN Full(list'[0].len) ELSE total
  BY DEF TakeFragment
<1>2. Known(f) /\ f \in FrameShape /\ f # Missing /\ f = queue[1] /\ 1 \in 1..Len(queue)
  BY <1>1, QueuedIsKnown, MissingIsNoFrame DEF Rest
<1>3. /\ list \in [Slots -> FrameShape \cup {Missing}] /\ num \in Nat
      /\ Cardinality(Filled) <= num /\ (~stale => num = Cardinality(Filled))
      /\ total = IF list[0] = Missing THEN FragCount ELSE Full(list[0].len)
      /\ IsFiniteSet(Filled) /\ Cardinality(Filled) \in Nat
  BY <1>1, FilledIsFinite DEF Rest, Shape, Counted, Reading
<1>4. 0 \in Slots
  BY SizeAssumption DEF Slots
<1> HIDE DEF f
<1>5. total' = IF list'[0] = Missing THEN FragCount ELSE Full(list'[0].len)
  BY <1>1, <1>2, <1>3, <1>4 DEF Keep
<1>6. CASE f.sub \in Slots /\ list[f.sub] = Missing
  <2>1. list' = [list EXCEPT ![f.sub] = f] /\ num' = num + 1
    BY <1>1, <1>6 DEF Keep, Counts
  <2>2. list' \in [Slots -> FrameShape \cup {Missing}]
    BY <1>2, <1>3, <2>1
  <2>3. f.sub \notin Filled /\ Filled' = Filled \cup {f.sub}
    BY <1>2, <1>3, <1>6, <2>1 DEF Filled
  <2>4. Cardinality(Filled') = Cardinality(Filled) + 1
    BY <1>3, <2>3, FS_AddElement
  <2>5. \A s \in Filled' : list'[s] = IF s \in Filled THEN list[s] ELSE f
    BY <1>3, <2>1, <2>3 DEF Filled
  <2> QED BY <1>3, <1>5, <2>1, <2>2, <2>3, <2>4, <2>5 DEF f
<1>7. CASE ~(f.sub \in Slots /\ list[f.sub] = Missing)
  <2>1. list' = list /\ Filled' = Filled
    BY <1>1, <1>7 DEF Keep, Filled
  <2>2. ~stale => f.sub \in Slots
    <3>1. ASSUME ~stale PROVE Fresh(f)
      BY <1>1, <1>2, <3>1 DEF Rest, OfThisTry, Reading
    <3>2. f.exec > 0 => f.sub \in 0..Full(f.len) /\ Full(f.len) < FragCount /\ Full(f.len) \in Nat
      BY <1>2, Numbers, Division DEF Known, FrameShape
    <3> QED BY <3>1, <3>2, SizeAssumption DEF Fresh, Slots
  <2>3. ~stale => num' = num
    BY <1>1, <1>7, <2>2 DEF Counts
  <2> QED BY <1>1, <1>3, <1>5, <2>1, <2>3
<1> QED BY <1>6, <1>7

LEMMA TakeFragmentKeeps == ASSUME Rest, TakeFragment PROVE Rest'
<1> DEFINE f == Head(queue)
<1>1. /\ cpc = "read" /\ queue # <<>> /\ queue' = Tail(queue)
      /\ cpc' = IF num' <= total' THEN "read" ELSE "check"
      /\ UNCHANGED <<callVars, ret, last, req, air, odd, ran, stale>>
  BY DEF TakeFragment, Goto
<1>2. /\ Known(f) /\ f = queue[1] /\ 1 \in 1..Len(queue)
      /\ \A i \in 1..Len(Tail(queue)) : Tail(queue)[i] = queue[i + 1]
      /\ Len(Tail(queue)) = Len(queue) - 1 /\ Len(queue) \in Nat
  BY <1>1, QueuedIsKnown, LenProperties DEF Rest, Shape
<1>3. Alone
  BY <1>1, Shortening DEF Rest, Shape, Alone, callVars
<1>4. \A s \in Filled' : Known(list'[s]) /\ list'[s].sub = s
  BY <1>2, Fragment DEF Rest, Frames
<1>5. Frames'
  BY <1>1, <1>3, <1>4, AloneKeeps DEF Frames
<1>6. num \in 0..total /\ total \in 0..FragCount
  BY <1>1 DEF Rest, Counted, Shape
<1>7. total' \in 0..FragCount
  <2>1. CASE list'[0] = Missing
    BY <2>1, Fragment, SizeAssumption
  <2>2. CASE list'[0] # Missing
    <3>1. 0 \in Filled'
      BY <2>2, SizeAssumption DEF Filled, Slots
    <3>2. list'[0] \in FrameShape /\ Full(list'[0].len) < FragCount
      BY <3>1, <1>4 DEF Known
    <3>3. Full(list'[0].len) \in Nat
      BY <3>2, Division DEF FrameShape
    <3> QED BY <2>2, <3>2, <3>3, Fragment, SizeAssumption
  <2> QED BY <2>1, <2>2
<1>8. Shape'
  BY <1>1, <1>3, <1>6, <1>7, Fragment, SizeAssumption DEF Rest, Shape, Alone, Shortened, callVars
<1>9. Counted'
  <2>1. num' \in Nat /\ total' \in Nat
    BY <1>6, <1>7, Fragment, SizeAssumption
  <2> QED BY <1>1, <2>1, Fragment DEF Counted, Reading
<1>10. OfThisTry'
  <2>1. \A g : Fresh(g)' <=> Fresh(g)
    BY <1>1 DEF Fresh, Request, callVars
  <2>2. ASSUME ~stale PROVE \A i \in 1..Len(queue) : Fresh(queue[i])
    BY <1>1, <2>2 DEF Rest, OfThisTry, Reading
  <2>3. ASSUME ~stale PROVE \A i \in 1..Len(queue') : Fresh(queue'[i])
    BY <1>1, <1>2, <2>2, <2>3
  <2>4. ASSUME ~stale PROVE \A s \in Filled' : Fresh(list'[s])
    BY <1>1, <1>2, <2>2, <2>4, Fragment DEF Rest, OfThisTry, Reading
  <2> QED BY <1>1, <2>1, <2>3, <2>4 DEF OfThisTry
<1> QED BY <1>3, <1>5, <1>8, <1>9, <1>10, AloneKeeps, <1>1 DEF Rest

LEMMA PurgeKeeps == ASSUME Rest, Purge PROVE Rest'
<1>1. PICK n \in 0..Len(queue) : queue' = SubSeq(queue, n + 1, Len(queue))
  BY DEF Purge
<1>2. queue \in Seq(FrameShape) /\ Len(queue) \in Nat
  BY LenProperties DEF Rest, Shape
<1>3. \A i \in (n + 1)..Len(queue) : queue[i] \in FrameShape
  BY <1>2, ElementOfSeq
<1>4. /\ queue' \in Seq(FrameShape) /\ Len(queue') = Len(queue) - n
      /\ \A i \in 1..(Len(queue) - n) : queue'[i] = queue[n + i]
  <2> DEFINE q == SubSeq(queue, n + 1, Len(queue))
  <2>1. /\ q \in Seq(FrameShape)
        /\ Len(q) = IF n + 1 <= Len(queue) THEN Len(queue) - (n + 1) + 1 ELSE 0
        /\ \A i \in 1..(Len(queue) - (n + 1) + 1) : q[i] = queue[n + 1 + i - 1]
    BY <1>2, <1>3, SubSeqProperties
  <2> HIDE DEF q
  <2>2. queue' = q
    BY <1>1 DEF q
  <2>3. Len(q) = Len(queue) - n
    BY <1>2, <2>1
  <2>4. \A i \in 1..(Len(queue) - n) : q[i] = queue[n + i]
    BY <1>2, <2>1
  <2> QED BY <2>1, <2>2, <2>3, <2>4
<1>5. Shortened
  BY <1>2, <1>4 DEF Shortened
<1>6. Alone
  BY <1>5 DEF Purge, Alone, Rest, Shape, callVars
<1>7. Shape'
  BY <1>6, SizeAssumption DEF Rest, Shape, Purge, Alone, Shortened, callVars, rxVars, Goto
<1>8. Frames'
  BY <1>6, AloneKeeps DEF Rest, Frames, Purge, Filled, rxVars
<1>9. Counted'
  BY DEF Rest, Counted, Purge, Filled, Reading, rxVars, Goto
<1>10. OfThisTry'
  <2>1. cpc' = "send" /\ stale' = (queue' # <<>>)
    BY DEF Purge, Goto
  <2>2. ~stale' => queue' = <<>>
    BY <2>1, Zenon
  <2>3. ~stale' => 1..Len(queue') = {}
    BY <2>2
  <2> QED BY <2>1, <2>3, Zenon DEF OfThisTry, Reading
<1> QED BY <1>6, <1>7, <1>8, <1>9, <1>10, AloneKeeps DEF Rest, Purge

LEMMA ReadingFails ==
  ASSUME Rest, ReadingFailed, cpc \in {"read", "check"},
         UNCHANGED <<cmd, serial, netVars, ran, stale>>
  PROVE  Rest'
<1>1. Shortened /\ UNCHANGED <<cmd, serial, air, odd, ran, req, queue, stale>>
  BY Shortening DEF Rest, netVars
<1>2. try \in 0..Retry /\ ret \in {"none", "done", "failed"} /\ last \in Nat \cup {-1}
      /\ stale \in BOOLEAN
  BY DEF Rest, Shape
<1>3. CASE StartReading /\ UNCHANGED <<ret, try, last>>
  <2>1. Alone
    BY <1>1, <1>2, <1>3 DEF Alone
  <2> QED BY <1>1, <1>3, <2>1, Restarts DEF Reading
<1>4. CASE (Again("failed") \/ Return("failed")) /\ UNCHANGED <<rxVars, last>>
  <2>1. cpc' \in {"idle", "purge"} /\ try' \in 0..Retry /\ ret' \in {"none", "done", "failed"}
    BY <1>2, <1>4, SizeAssumption DEF Again, Return, Goto
  <2>2. Alone
    BY <1>1, <1>2, <1>4, <2>1 DEF Alone
  <2> QED BY <1>1, <1>4, <2>1, <2>2, Leaves
<1> QED BY <1>3, <1>4 DEF ReadingFailed

LEMMA ClientKeeps == ASSUME Rest, Client PROVE Rest'
<1> USE DEF Goto
<1>1. try \in 0..Retry /\ ret \in {"none", "done", "failed"} /\ last \in Nat \cup {-1}
      /\ stale \in BOOLEAN
  BY DEF Rest, Shape
<1>2. \A r \in {"done", "failed"} : Again(r) \/ Return(r) =>
        cpc' \in {"idle", "purge"} /\ try' \in 0..Retry /\ ret' \in {"none", "done", "failed"}
  BY <1>1, SizeAssumption DEF Again, Return
<1>3. CASE Transmit
  <2>1. /\ cpc = "send" /\ StartReading /\ UNCHANGED <<try, stale, queue>>
        /\ req' \subseteq req \cup {Request}
    BY <1>3 DEF Transmit, callVars
  <2>2. Alone
    BY <1>1, <1>3, Shortening DEF Transmit, callVars, Alone, Rest
  <2> QED BY <2>1, <2>2, Restarts
<1>4. CASE TransmitFails
  <2>1. Again("failed") \/ Return("failed")
    BY <1>4 DEF TransmitFails
  <2>2. Alone /\ UNCHANGED <<rxVars, req>>
    BY <1>1, <1>2, <1>4, <2>1, Shortening DEF TransmitFails, netVars, Alone, Rest
  <2> QED BY <1>2, <2>1, <2>2, Leaves
<1>5. CASE GiveUp
  BY <1>5, ReadingFails DEF GiveUp
<1>6. CASE Check
  <2>1. CASE \A s \in 0..(total - 1) : list[s] # Missing
    <3>1. /\ cpc = "check" /\ cpc' = "copy"
          /\ UNCHANGED <<rxVars, cmd, serial, netVars, ran, stale, try, ret, last>>
      BY <1>6, <2>1 DEF Check
    <3>2. Alone
      BY <1>1, <3>1, Shortening DEF netVars, Alone, Rest
    <3>3. Shape'
      BY <3>1, SizeAssumption DEF Rest, Shape, rxVars, netVars
    <3>4. Frames'
      <4>1. \A f : Known(f)' <=> Known(f)
        BY <3>1 DEF Known
      <4>2. list' = list /\ queue' = queue /\ air' = air /\ Filled' = Filled
        BY <3>1 DEF rxVars, netVars, Filled
      <4> QED BY <4>1, <4>2 DEF Rest, Frames
    <3>5. Counted'
      BY <2>1, <3>1 DEF Rest, Counted, rxVars, Filled, Reading
    <3>6. OfThisTry'
      <4>1. \A f : Fresh(f)' <=> Fresh(f)
        BY <3>1 DEF Fresh, Request
      <4> QED BY <3>1, <4>1 DEF Rest, OfThisTry, rxVars, netVars, Filled, Reading
    <3> QED BY <3>1, <3>2, <3>3, <3>4, <3>5, <3>6, AloneKeeps DEF Rest, netVars
  <2>2. CASE ~(\A s \in 0..(total - 1) : list[s] # Missing)
    BY <1>6, <2>2, ReadingFails DEF Check
  <2> QED BY <2>1, <2>2
<1>7. CASE CopyGet
  <2>1. Again("done") \/ Return("done")
    BY <1>7 DEF CopyGet
  <2>2. Alone /\ UNCHANGED <<rxVars, req>>
    BY <1>1, <1>2, <1>7, <2>1, Shortening DEF CopyGet, netVars, Alone, Rest
  <2> QED BY <1>2, <2>1, <2>2, Leaves
<1>8. CASE CopyShell
  <2>1. /\ cpc = "copy" /\ Whole /\ last' = list[0].len
        /\ UNCHANGED <<cmd, serial, netVars, ran, stale, try>>
    BY <1>8 DEF CopyShell, Return
  <2>2. list[0] # Missing
    <3>1. total \in Nat
      BY SizeAssumption DEF Rest, Shape
    <3> QED BY <2>1, <3>1 DEF Whole, Copied
  <2>3. last' \in Nat
    BY <2>1, <2>2, SizeAssumption DEF Rest, Shape, Slots, FrameShape
  <2>4. ret' \in {"none", "done", "failed"}
    BY <1>1, <1>8 DEF CopyShell, Return
  <2>5. Alone
    BY <1>1, <2>1, <2>3, <2>4, Shortening DEF netVars, Alone, Rest
  <2>6. CASE Return("done") /\ UNCHANGED rxVars
    BY <1>2, <2>1, <2>5, <2>6, Leaves DEF netVars
  <2>7. CASE StartReading
    BY <2>1, <2>5, <2>7, Restarts DEF netVars, Reading
  <2> QED BY <1>8, <2>6, <2>7 DEF CopyShell
<1>9. CASE Crash
  <2>1. Shortened /\ cpc # "idle"
    BY <1>9, Shortening DEF Crash, Rest
  <2>2. Alone /\ UNCHANGED <<rxVars, req>> /\ cpc' = "idle"
    BY <1>1, <1>9, <2>1 DEF Crash, Alone, Return
  <2> QED BY <2>2, Leaves
<1>10. CASE TakeReply
  <2>1. Again("done") \/ Return("done")
    BY <1>10 DEF TakeReply
  <2>2. Alone /\ UNCHANGED <<rxVars, req>>
    BY <1>1, <1>2, <1>10, <2>1, Shortening DEF TakeReply, Alone, Rest
  <2> QED BY <1>2, <2>1, <2>2, Leaves
<1> QED BY <1>3, <1>4, <1>5, <1>6, <1>7, <1>8, <1>9, <1>10, PurgeKeeps, TakeFragmentKeeps
        DEF Client

(* The air adds frames at the back of the queue.                            *)
LEMMA ArrivesKeeps ==
  ASSUME Rest, NEW f, Known(f), Arrives(f), air' \subseteq air, odd' \in 0..MaxOdd,
         UNCHANGED <<cpc, callVars, ret, rxVars, last, req, ran>>
  PROVE  Rest'
<1>1. queue \in Seq(FrameShape) /\ f \in FrameShape /\ Len(queue) \in Nat /\ Len(queue) < QMax
  BY LenProperties DEF Rest, Shape, Known, Arrives
<1>2. /\ queue' \in Seq(FrameShape) /\ Len(queue') = Len(queue) + 1
      /\ \A i \in 1..Len(queue) : queue'[i] = queue[i]
      /\ queue'[Len(queue) + 1] = f
  BY <1>1, AppendProperties DEF Arrives
<1>3. \A g : (Known(g)' <=> Known(g)) /\ (Fresh(g)' <=> Fresh(g))
  BY DEF Known, Fresh, Request, callVars
<1>4. \A i \in 1..Len(queue') : queue'[i] = f \/ (i \in 1..Len(queue) /\ queue'[i] = queue[i])
  BY <1>1, <1>2
<1>5. Shape'
  <2>1. Len(queue') <= QMax
    BY <1>1, <1>2, SizeAssumption
  <2>2. stale' \in BOOLEAN
    BY DEF Arrives, Rest, Shape
  <2> QED BY <1>2, <2>1, <2>2, SizeAssumption DEF Rest, Shape, callVars, rxVars
<1>6. Frames'
  BY <1>3, <1>4 DEF Rest, Frames, Filled, rxVars
<1>7. ~stale' => ~stale /\ (cpc # "idle" => Fresh(f))
  BY DEF Arrives
<1>8. Counted'
  BY <1>7 DEF Rest, Counted, Filled, Reading, rxVars
<1>9. OfThisTry'
  BY <1>3, <1>4, <1>7 DEF Rest, OfThisTry, Filled, Reading, rxVars
<1>10. Called'
  BY DEF Rest, Called, callVars
<1> QED BY <1>5, <1>6, <1>8, <1>9, <1>10 DEF Rest

LEMMA ExecuteKeeps ==
  ASSUME Rest, NEW r \in req, NEW again \in BOOLEAN, Execute(r, again)
  PROVE  Rest'
<1>1. r \in Requests /\ ran \in Seq(Requests) /\ r.cmd \in Menu /\ Len(ran) \in Nat
  BY LenProperties DEF Rest, Called, Requests
<1>2. /\ ran' \in Seq(Requests) /\ Len(ran') = Len(ran) + 1 /\ ran'[Len(ran) + 1] = r
      /\ \A e \in 1..Len(ran) : ran'[e] = ran[e]
  BY <1>1, AppendProperties DEF Execute
<1>3. /\ UNCHANGED <<cpc, callVars, ret, rxVars, last, queue, stale>>
      /\ req' \subseteq req /\ odd' \in 0..MaxOdd
  BY SizeAssumption DEF Execute, Rest, Shape
<1>4. Called'
  BY <1>1, <1>2, <1>3 DEF Rest, Called, callVars
<1>5. Shape'
  BY <1>3, SizeAssumption DEF Rest, Shape, callVars, rxVars
<1>6. \A f : Known(f) => Known(f)' /\ (Fresh(f)' <=> Fresh(f))
  BY <1>1, <1>3, RanGrows DEF Rest, Execute
<1>7. \A f \in air' : Known(f)'
  <2> SUFFICES ASSUME NEW f \in air' PROVE Known(f)'
    OBVIOUS
  <2>1. CASE f \in air
    BY <1>6, <2>1 DEF Rest, Frames
  <2>2. CASE f \notin air
    <3> DEFINE reply == r.cmd.reply
    <3>1. PICK p \in 1..Len(reply) : \E s \in Fragments(reply[p]) :
            f = Frame(Len(ran'), p, s, reply[p])
      BY <2>2 DEF Execute, Response
    <3>2. reply[p] \in Nat /\ Full(reply[p]) < FragCount /\ p \in Nat
      BY <1>1, MenuAssumption, ElementOfSeq, LenProperties
    <3>3. PICK s \in Fragments(reply[p]) : f = Frame(Len(ran'), p, s, reply[p])
      BY <3>1
    <3>4. s \in Nat
      <4>1. s \in 0..Full(reply[p]) /\ Full(reply[p]) \in Nat
        BY <3>2, <3>3, Numbers, Division
      <4> QED BY <4>1
    <3>5. f \in FrameShape /\ f.exec = Len(ran') /\ f.piece = p /\ f.sub = s /\ f.len = reply[p]
      BY <1>1, <1>2, <3>2, <3>3, <3>4 DEF Frame, FrameShape
    <3>6. ran'[f.exec].cmd.reply = reply
      BY <1>2, <3>5
    <3> QED BY <1>2, <3>2, <3>5, <3>6 DEF Known
  <2> QED BY <2>1, <2>2
<1>8. Frames'
  BY <1>3, <1>6, <1>7 DEF Rest, Frames, Filled, rxVars
<1>9. Counted'
  BY <1>3 DEF Rest, Counted, Filled, Reading, rxVars
<1>10. OfThisTry'
  BY <1>3, <1>6 DEF Rest, OfThisTry, Frames, Filled, Reading, rxVars
<1> QED BY <1>4, <1>5, <1>8, <1>9, <1>10 DEF Rest

LEMMA NoiseIsKnown == ASSUME Rest, NEW f \in NoiseFrames PROVE Known(f)
<1>1. PICK n \in Noise : f = Frame(0, 0, n.sub, n.len)
  BY DEF NoiseFrames
<1>2. n.sub \in Nat /\ n.len \in Nat /\ Full(n.len) < FragCount
  BY NoiseAssumption, SizeAssumption
<1>3. Len(ran) \in Nat
  BY LenProperties DEF Rest, Called
<1> QED BY <1>1, <1>2, <1>3 DEF Known, Frame, FrameShape

LEMMA AirKeeps == ASSUME Rest, Air PROVE Rest'
<1>1. CASE \E f \in air : Deliver(f)
  <2>1. PICK f \in air : Deliver(f)
    BY <1>1
  <2>2. Known(f) /\ odd \in 0..MaxOdd
    BY DEF Rest, Frames, Shape
  <2> QED BY <2>1, <2>2, ArrivesKeeps DEF Deliver
<1>2. CASE \E f \in air \cup NoiseFrames : Repeat(f)
  <2>1. PICK f \in air \cup NoiseFrames : Repeat(f)
    BY <1>2
  <2>2. Known(f)
    BY NoiseIsKnown DEF Rest, Frames
  <2>3. odd' \in 0..MaxOdd
    BY <2>1, SizeAssumption DEF Repeat, Rest, Shape
  <2> QED BY <2>1, <2>2, <2>3, ArrivesKeeps DEF Repeat
<1> QED BY <1>1, <1>2, ExecuteKeeps DEF Air

LEMMA CallKeeps == ASSUME Rest, NEW c \in Menu, Call(c) PROVE Rest'
<1>1. \A f : Known(f)' <=> Known(f)
  BY DEF Call, Known
<1>2. Shape'
  BY SizeAssumption DEF Rest, Shape, Call, Goto, rxVars, netVars
<1>3. Frames'
  BY <1>1 DEF Rest, Frames, Call, Filled, rxVars, netVars
<1>4. Called'
  <2>1. serial \in Nat /\ serial' = serial + 1 /\ req' = req /\ ran' = ran
    BY SizeAssumption DEF Rest, Shape, Call, netVars
  <2>2. \A r \in Requests : r.call <= serial => r.call <= serial'
    BY <2>1 DEF Requests
  <2> QED BY <2>1, <2>2, ElementOfSeq DEF Rest, Called
<1>5. Counted'
  BY DEF Rest, Counted, Call, Filled, Reading, rxVars, Goto
<1>6. OfThisTry'
  BY DEF OfThisTry, Call, Reading, Goto
<1> QED BY <1>2, <1>3, <1>4, <1>5, <1>6 DEF Rest

LEMMA RestInit == Init => Rest
<1> SUFFICES ASSUME Init PROVE Rest
  OBVIOUS
<1>1. Filled = {} /\ Cardinality(Filled) = 0
  BY NothingFilled DEF Init
<1>2. Shape
  <2>1. /\ Retry \in Nat /\ FragCount \in Nat /\ MaxCalls \in Nat /\ MaxOdd \in Nat /\ QMax \in Nat
        /\ queue \in Seq(FrameShape) /\ Len(queue) = 0
    BY SizeAssumption DEF Init
  <2>2. list \in [Slots -> FrameShape \cup {Missing}]
    BY DEF Init, Empty
  <2>3. /\ cpc = "idle" /\ cmd = NoCommand /\ try = 0 /\ ret = "none" /\ num = 0
        /\ total = 0 /\ last = -1 /\ serial = 0 /\ stale = FALSE /\ odd = 0
    BY DEF Init
  <2>4. try \in 0..Retry /\ num \in 0..(FragCount + 1) /\ total \in 0..FragCount
    BY <2>1, <2>3
  <2>5. serial \in 0..MaxCalls /\ odd \in 0..MaxOdd /\ Len(queue) <= QMax
    BY <2>1, <2>3
  <2>6. last \in Nat \cup {-1} /\ stale \in BOOLEAN /\ cmd \in Menu \cup {NoCommand}
    BY <2>1, <2>3
  <2> QED BY <2>1, <2>2, <2>3, <2>4, <2>5, <2>6 DEF Shape
<1>3. Frames
  BY <1>1 DEF Init, Frames
<1>4. Called
  BY DEF Init, Called
<1>5. Counted
  BY <1>1 DEF Init, Counted, Reading
<1>6. OfThisTry
  BY DEF Init, OfThisTry, Reading
<1> QED BY <1>2, <1>3, <1>4, <1>5, <1>6 DEF Rest

LEMMA RestNext == ASSUME Rest, [Next]_vars PROVE Rest'
<1>1. CASE UNCHANGED vars
  <2>1. \A f : (Known(f)' <=> Known(f)) /\ (Fresh(f)' <=> Fresh(f))
    BY <1>1 DEF Known, Fresh, Request, vars
  <2>2. Shape' /\ Called'
    BY <1>1 DEF Rest, Shape, Called, vars, rxVars
  <2>3. Frames' /\ Counted'
    BY <1>1, <2>1 DEF Rest, Frames, Counted, Filled, Reading, vars, rxVars
  <2>4. OfThisTry'
    BY <1>1, <2>1 DEF Rest, OfThisTry, Filled, Reading, vars, rxVars
  <2> QED BY <2>2, <2>3, <2>4 DEF Rest
<1> QED BY <1>1, CallKeeps, ClientKeeps, AirKeeps DEF Next

-----------------------------------------------------------------------------
(* What the reader took as whole is one response to this very call.         *)

LEMMA OneResponse ==
  ASSUME Rest, cpc = "copy", cmd.kind = "get", ~stale
  PROVE  LET e == list[0].exec
             n == cmd.reply[1]
         IN  /\ e \in 1..Len(ran) /\ ran[e] = Request /\ e > 0
             /\ n \in Nat /\ total = Full(n) /\ Full(n) < FragCount
             /\ 0 \in Filled /\ list[0].len = n
             /\ \A s \in Filled : list[s] = Frame(e, 1, s, n) /\ s \in Fragments(n)
             /\ Cardinality(Filled) > Full(n)
<1> DEFINE e == list[0].exec
           n == cmd.reply[1]
<1>1. /\ Cardinality(Filled) = num /\ num > total
      /\ total = IF list[0] = Missing THEN FragCount ELSE Full(list[0].len)
  BY DEF Rest, Counted, Reading
<1>2. 0 \in Slots /\ Cardinality(Filled) \in 0..FragCount
  BY FilledIsFinite, SizeAssumption DEF Slots
<1>3. 0 \in Filled
  BY <1>1, <1>2, SizeAssumption DEF Filled
<1>4. \A s \in Filled : /\ Known(list[s]) /\ list[s].sub = s /\ Fresh(list[s])
                        /\ list[s] \in FrameShape
  BY DEF Rest, Frames, OfThisTry, Reading, Known
<1>5. e \in Nat /\ e > 0 /\ e <= Len(ran) /\ Len(ran) \in Nat /\ ran[e] = Request
  BY <1>3, <1>4, LenProperties DEF Known, Fresh, FrameShape, Rest, Called
<1>6. \A s \in Filled : list[s].exec = e
  <2> SUFFICES ASSUME NEW s \in Filled PROVE list[s].exec = e
    OBVIOUS
  <2> DEFINE d == list[s].exec
  <2>1. d \in Nat /\ d > 0 /\ ran[d] = Request
    BY <1>4 DEF Fresh, FrameShape
  <2>2. /\ \A x \in 1..(d - 1) : ran[x] # ran[d]
        /\ \A x \in 1..(e - 1) : ran[x] # ran[e]
    BY <1>3, <1>4 DEF Fresh
  <2> QED BY <1>5, <2>1, <2>2
<1>7. cmd \in Menu /\ cmd.reply \in Seq(Nat) /\ Len(cmd.reply) = 1 /\ n \in Nat
      /\ Full(n) < FragCount
  BY MenuAssumption, ElementOfSeq DEF Rest, Shape
<1>8. ran[e].cmd = cmd
  BY <1>5 DEF Request
<1>9. \A s \in Filled : /\ list[s].piece = 1 /\ list[s].len = n /\ s \in Fragments(n)
  <2> SUFFICES ASSUME NEW s \in Filled
               PROVE  list[s].piece = 1 /\ list[s].len = n /\ s \in Fragments(n)
    OBVIOUS
  <2> DEFINE f == list[s]
  <2>1. /\ f.piece \in 1..Len(cmd.reply) /\ f.len = cmd.reply[f.piece]
        /\ f.sub \in Fragments(f.len)
    BY <1>4, <1>5, <1>6, <1>8 DEF Known
  <2>2. f.piece = 1
    BY <1>7, <2>1
  <2> QED BY <1>4, <2>1, <2>2
<1>10. \A s \in Filled : list[s] = Frame(e, 1, s, n)
  BY <1>4, <1>6, <1>9 DEF Frame, FrameShape
<1>11. list[0] # Missing /\ list[0].len = n /\ total = Full(n)
  BY <1>1, <1>3, <1>9 DEF Filled
<1> QED BY <1>1, <1>3, <1>5, <1>7, <1>9, <1>10, <1>11

LEMMA NoneMissing ==
  ASSUME Rest, cpc = "copy", cmd.kind = "get", ~stale
  PROVE  Whole /\ Fragments(cmd.reply[1]) \subseteq Filled
<1> DEFINE n == cmd.reply[1]
<1>1. /\ n \in Nat /\ total = Full(n) /\ Full(n) < FragCount /\ Full(n) \in Nat
      /\ 0 \in Filled /\ list[0].len = n
      /\ \A s \in Filled : s \in Fragments(n)
      /\ Cardinality(Filled) > Full(n)
  BY OneResponse, Division
<1>2. \A s \in 0..(Full(n) - 1) : s \in Filled
  BY <1>1, SizeAssumption DEF Rest, Counted, Filled, Slots
<1>3. Fragments(n) \subseteq 0..Full(n)
  BY <1>1, Numbers
<1>4. Full(n) \in Filled
  <2>1. SUFFICES ASSUME Full(n) \notin Filled PROVE FALSE
    OBVIOUS
  <2> DEFINE below == 0..(Full(n) - 1)
  <2>2. Filled \in SUBSET below
    BY <1>1, <1>3, <2>1
  <2>3. IsFiniteSet(below) /\ Cardinality(below) = Full(n)
    <3> DEFINE m == Full(n) - 1
    <3>1. m \in Int /\ 0 \in Int
      BY <1>1
    <3>2. IsFiniteSet(0..m) /\ Cardinality(0..m) = IF 0 > m THEN 0 ELSE m - 0 + 1
      BY <3>1, FS_Interval
    <3> QED BY <1>1, <3>2
  <2> HIDE DEF below
  <2>4. Cardinality(Filled) <= Cardinality(below)
    BY <2>2, <2>3, FS_Subset
  <2> QED BY <1>1, <2>3, <2>4, FilledIsFinite
<1>5. \A s \in 0..Full(n) : s \in Filled
  BY <1>1, <1>2, <1>4
<1>6. Whole
  BY <1>1, <1>5 DEF Whole, Copied, Filled
<1> QED BY <1>3, <1>5, <1>6

LEMMA OwnNext == ASSUME Inv, [Next]_vars PROVE OwnResponse'
<1>1. CASE UNCHANGED vars
  BY <1>1 DEF Inv, OwnResponse, vars, rxVars
<1>2. ASSUME NEW c \in Menu, Call(c) PROVE OwnResponse'
  BY <1>2 DEF Call, OwnResponse, Goto
<1>3. CASE Client
  <2> SUFFICES ASSUME cpc' = "idle", cmd'.kind = "get", ret' = "done", ~stale'
               PROVE  LET n == cmd'.reply[1]
                      IN  /\ list'[0].exec \in 1..Len(ran') /\ ran'[list'[0].exec].call = serial'
                          /\ \A s \in Fragments(n) : list'[s] = Frame(list'[0].exec, 1, s, n)
    BY DEF OwnResponse
  <2>1. CASE CopyGet
    <3>1. /\ cpc = "copy" /\ cmd.kind = "get" /\ ~stale
          /\ UNCHANGED <<cmd, serial, list, ran>>
      BY <2>1 DEF CopyGet, rxVars
    <3> QED BY <3>1, OneResponse, NoneMissing DEF Inv, Request
  <2>2. CASE TakeReply
    BY <2>2 DEF TakeReply
  <2>3. CASE ~(CopyGet \/ TakeReply)
    <3>1. ReadingFailed => ret' # "done" \/ cpc' # "idle"
      BY DEF ReadingFailed, Again, Return, StartReading, Goto
    <3> QED BY <1>3, <2>3, <3>1 DEF Client, Purge, Transmit, TransmitFails, TakeFragment,
          GiveUp, Check, CopyShell, Crash, Again, Return, StartReading, Goto
  <2> QED BY <2>1, <2>2, <2>3
<1>4. CASE Air
  <2>1. /\ UNCHANGED <<cpc, cmd, ret, list, serial>>
        /\ ran' = ran \/ \E r \in req : ran' = Append(ran, r)
        /\ cpc = "idle" => stale' = stale
    BY <1>4, Zenon DEF Air, Execute, Deliver, Repeat, Arrives, callVars, rxVars, Inv, Rest, Shape
  <2>2. ran \in Seq(Requests) /\ req \subseteq Requests /\ Len(ran) \in Nat
    BY LenProperties DEF Inv, Rest, Called
  <2>3. Len(ran') \in Nat /\ Len(ran') >= Len(ran) /\ \A e \in 1..Len(ran) : ran'[e] = ran[e]
    BY <2>1, <2>2, AppendProperties
  <2> QED BY <2>1, <2>2, <2>3 DEF Inv, OwnResponse
<1> QED BY <1>1, <1>2, <1>3, <1>4 DEF Next

LEMMA InvHolds == Spec => []Inv
<1>1. Init => Inv
  BY RestInit DEF Inv, Init, OwnResponse
<1>2. Inv /\ [Next]_vars => Inv'
  BY RestNext, OwnNext DEF Inv
<1> QED BY <1>1, <1>2, PTL DEF Spec

(* Every variable keeps its type: what is put together fits its slots, and  *)
(* the count stays within one of the slots there are.                       *)
THEOREM TypeCorrect == Spec => []TypeOK
<1>1. Inv => TypeOK
  BY DEF Inv, Rest, Shape, Frames, Filled, TypeOK
<1> QED BY <1>1, InvHolds, PTL

(* A get that succeeds has, fragment by fragment, one response of the       *)
(* server to this very call, however many fragments there are and whatever  *)
(* the air did, unless a frame of something else came in after the purge.   *)
THEOREM GetHasOwnResponse == Spec => []OwnResponse
<1>1. Inv => OwnResponse
  BY DEF Inv
<1> QED BY <1>1, InvHolds, PTL

(* The reader never waits for a fragment when it holds a whole response     *)
(* that does not fill its last one; and nothing is missing from what a get  *)
(* copies, unless a frame of something else was counted.                    *)
THEOREM ReaderStopsWhenWhole == Spec => []StopsWhenWhole
<1>1. ASSUME Inv, cpc = "read", cmd.kind # "set", IsReply(list[0]),
             \A s \in Fragments(list[0].len) : list[s] # Missing,
             list[0].len % FragSize # 0
      PROVE  FALSE
  <2> DEFINE n == list[0].len
  <2>1. 0 \in Slots
    BY SizeAssumption DEF Slots
  <2>2. list[0] # Missing
    BY <1>1 DEF IsReply, Missing, Frame
  <2>3. n \in Nat /\ Full(n) < FragCount /\ Full(n) \in Nat
    <3> 0 \in Filled
      BY <2>1, <2>2 DEF Filled
    <3>1. Known(list[0])
      BY <1>1 DEF Inv, Rest, Frames
    <3>2. n \in Nat /\ Full(n) < FragCount
      BY <3>1 DEF Known, FrameShape
    <3> QED BY <3>2, Division
  <2>4. Fragments(n) = 0..Full(n)
    BY <1>1, <2>3, Numbers
  <2>5. 0..Full(n) \in SUBSET Filled
    BY <1>1, <2>3, <2>4, SizeAssumption DEF Filled, Slots
  <2>6. Cardinality(0..Full(n)) = Full(n) + 1
    BY <2>3, FS_Interval
  <2>7. Full(n) + 1 <= Cardinality(Filled) /\ Cardinality(Filled) \in Nat
    <3>1. Cardinality(0..Full(n)) <= Cardinality(Filled)
      BY <2>5, FilledIsFinite, FS_Subset
    <3> QED BY <2>6, <3>1, FilledIsFinite
  <2>8. Cardinality(Filled) <= num /\ num <= Full(n) /\ num \in Nat
    BY <1>1, <2>2, SizeAssumption DEF Inv, Rest, Counted, Reading, Shape
  <2> QED BY <2>3, <2>7, <2>8
<1>2. Inv => StopsWhenWhole
  BY <1>1, NoneMissing DEF Inv, StopsWhenWhole
<1> QED BY <1>2, InvHolds, PTL

-----------------------------------------------------------------------------
(* The call as RemoteCall promises it: what a step does to "executed".      *)

LEMMA FreshIsExecuted ==
  ASSUME Rest, NEW f, Known(f), Fresh(f)
  PROVE  Executed
<1>1. f.exec \in 1..Len(ran) /\ ran[f.exec] = Request
  BY LenProperties DEF Known, Fresh, FrameShape, Rest, Called
<1> QED BY <1>1 DEF Executed, Request

LEMMA ClientRefines == ASSUME Inv, Client PROVE [Abstract!Next]_Abstract!vars
<1> USE DEF Goto
<1>1. Executed' = Executed /\ cpc # "idle"
  <2>1. UNCHANGED <<ran, serial>>
    BY DEF Client, Purge, Transmit, TransmitFails, TakeFragment, GiveUp, Check, CopyGet,
           CopyShell, Crash, TakeReply, callVars
  <2> QED BY <2>1 DEF Executed, Client, Purge, Transmit, TransmitFails, TakeFragment,
             GiveUp, Check, CopyGet, CopyShell, Crash, TakeReply
<1>2. CASE Purge
  BY <1>1, <1>2 DEF Purge, Abstract!Next, Abstract!Excuse
<1>3. ASSUME UNCHANGED stale,
             \/ cpc' # "idle" /\ UNCHANGED ret
             \/ cpc' = "idle" /\ ret' = "failed"
             \/ cpc' = "idle" /\ ret' = "done" /\ (Executed \/ stale)
      PROVE  [Abstract!Next]_Abstract!vars
  BY <1>1, <1>3 DEF Abstract!Next, Abstract!Return, Abstract!vars
<1>4. \A r \in {"done", "failed"} :
        Again(r) => \/ cpc' # "idle" /\ UNCHANGED ret
                    \/ cpc' = "idle" /\ ret' = r
  BY DEF Again, Return
<1>5. CASE Transmit \/ TakeFragment
  BY <1>3, <1>5 DEF Transmit, TakeFragment, StartReading
<1>6. CASE TransmitFails \/ Crash
  BY <1>3, <1>4, <1>6 DEF TransmitFails, Crash, Return
<1>7. ReadingFailed => \/ cpc' # "idle" /\ UNCHANGED ret
                       \/ cpc' = "idle" /\ ret' = "failed"
  BY <1>4 DEF ReadingFailed, StartReading, Return
<1>8. CASE GiveUp \/ Check
  BY <1>3, <1>7, <1>8 DEF GiveUp, Check
<1>9. CASE CopyGet
  <2>1. cpc = "copy" /\ cmd.kind = "get"
    BY <1>9 DEF CopyGet
  <2>2. ~stale => Executed
    BY <2>1, OneResponse DEF Inv, Executed, Request
  <2> QED BY <1>3, <1>4, <1>9, <2>2 DEF CopyGet, Return
<1>10. CASE CopyShell
  <2>1. cpc = "copy" /\ Whole /\ stale' = stale
    BY <1>10 DEF CopyShell
  <2>2. 0 \in Filled
    <3>1. total \in Nat /\ 0 \in Slots
      BY SizeAssumption DEF Inv, Rest, Shape, Slots
    <3> QED BY <2>1, <3>1 DEF Whole, Copied, Filled
  <2>3. ~stale => Executed
    BY <2>1, <2>2, FreshIsExecuted DEF Inv, Rest, Frames, OfThisTry, Reading
  <2> QED BY <1>3, <1>10, <2>1, <2>3 DEF CopyShell, Return, StartReading
<1>11. CASE TakeReply
  <2>1. queue # <<>> /\ cpc = "read" /\ stale' = stale
    BY <1>11 DEF TakeReply
  <2>2. Head(queue) = queue[1] /\ 1 \in 1..Len(queue) /\ Known(Head(queue))
    BY <2>1, QueuedIsKnown DEF Inv, Rest
  <2>3. ~stale => Executed
    BY <2>1, <2>2, FreshIsExecuted DEF Inv, Rest, OfThisTry, Reading
  <2> QED BY <1>3, <1>4, <1>11, <2>1, <2>3 DEF TakeReply, Return
<1> QED BY <1>2, <1>5, <1>6, <1>8, <1>9, <1>10, <1>11 DEF Client

LEMMA AirRefines == ASSUME Inv, Air PROVE [Abstract!Next]_Abstract!vars
<1>1. ran \in Seq(Requests) /\ Len(ran) \in Nat /\ stale \in BOOLEAN
  BY LenProperties DEF Inv, Rest, Called, Shape
<1>2. ASSUME NEW r \in req, NEW again \in BOOLEAN, Execute(r, again)
      PROVE  [Abstract!Next]_Abstract!vars
  <2>1. UNCHANGED <<cpc, serial, ret, stale>> /\ ran' = Append(ran, r) /\ r \in Requests
    BY <1>2 DEF Execute, callVars, Inv, Rest, Called
  <2>2. Len(ran') = Len(ran) + 1 /\ \A e \in 1..Len(ran) : ran'[e] = ran[e]
    BY <1>1, <2>1, AppendProperties
  <2>3. Executed => Executed'
    BY <1>1, <2>1, <2>2 DEF Executed
  <2>4. Executed \in BOOLEAN /\ Executed' \in BOOLEAN
    BY DEF Executed
  <2>5. Executed' = TRUE \/ Executed' = Executed
    BY <2>3, <2>4
  <2> QED BY <2>1, <2>5 DEF Abstract!Next, Abstract!Execute, Abstract!vars
<1>3. ASSUME NEW f, Arrives(f), UNCHANGED <<cpc, callVars, ret, ran>>
      PROVE  [Abstract!Next]_Abstract!vars
  <2>1. Executed' = Executed /\ UNCHANGED <<cpc, ret>>
    BY <1>3 DEF Executed, callVars
  <2>2. stale' \in BOOLEAN /\ (cpc = "idle" => stale' = stale)
    BY <1>1, <1>3, Zenon DEF Arrives
  <2> QED BY <2>1, <2>2 DEF Abstract!Next, Abstract!Excuse, Abstract!vars
<1>4. ASSUME NEW f \in air, Deliver(f) PROVE [Abstract!Next]_Abstract!vars
  BY <1>3, <1>4 DEF Deliver
<1>5. ASSUME NEW f \in air \cup NoiseFrames, Repeat(f) PROVE [Abstract!Next]_Abstract!vars
  BY <1>3, <1>5 DEF Repeat
<1> QED BY <1>2, <1>4, <1>5 DEF Air

LEMMA CallRefines == ASSUME Inv, NEW c \in Menu, Call(c) PROVE Abstract!Begin
<1>1. ~Executed'
  <2>1. ran' = ran /\ serial' = serial + 1 /\ serial \in Nat
    BY SizeAssumption DEF Call, Inv, Rest, Shape
  <2>2. \A e \in 1..Len(ran) : ran[e].call <= serial /\ ran[e].call \in Nat
    BY ElementOfSeq DEF Inv, Rest, Called, Requests
  <2> QED BY <2>1, <2>2 DEF Executed
<1>2. Executed' = FALSE
  BY <1>1 DEF Executed
<1> QED BY <1>2 DEF Call, Goto, Abstract!Begin

(* A remote wl call is an at-least-once call: what returns a success was    *)
(* executed by the server since the call began, unless a frame of something *)
(* else came in.  Each step of client, server and air is a step of          *)
(* RemoteCall or none.                                                      *)
THEOREM CallIsAtLeastOnce == Spec => AtLeastOnce
<1>1. Init => Abstract!Init
  <2>1. Init => ~Executed
    BY DEF Init, Executed
  <2> QED BY <2>1 DEF Init, Abstract!Init, Executed
<1>2. Inv /\ [Next]_vars => [Abstract!Next]_Abstract!vars
  <2> SUFFICES ASSUME Inv, [Next]_vars PROVE [Abstract!Next]_Abstract!vars
    OBVIOUS
  <2>1. CASE UNCHANGED vars
    BY <2>1 DEF vars, Abstract!vars, Executed
  <2> QED BY <2>1, CallRefines, ClientRefines, AirRefines DEF Next, Abstract!Next
<1> QED BY <1>1, <1>2, InvHolds, PTL DEF Spec, AtLeastOnce, Abstract!Spec

=============================================================================
