-------------------------- MODULE FindServerProofs ---------------------------
(***************************************************************************)
(* For any list of channels, neighbourhood, homes and room in the queues:  *)
(* what a search that is over may say.  The invariant dates every answer   *)
(* by the server's moves and by the try it was received in, and follows a  *)
(* search in which nothing went wrong from channel to channel: while it    *)
(* reads on the server's channel, its question, the answer or a copy of it *)
(* is somewhere, so that it does not go on to the next.                    *)
(***************************************************************************)
EXTENDS FindServer, SequenceTheorems, TLAPS

Places == Channels \cup Homes
Heard == [type : {"found"}, client : Places, server : Places,
          moves : 0..MaxMoves, round : Nat]

Shape ==
    /\ pc \in {"idle", "begin", "purge", "address", "set", "send", "read", "back"}
    /\ i \in 0..Len(wifichannel) /\ (pc \in {"set", "send", "read"} => i >= 1)
    /\ try \in 0..Retry /\ (pc # "idle" => try < Retry)
    /\ speedy \in BOOLEAN /\ returned \in {-1, 0, 1}
    /\ channel \in Places /\ home \in Homes
    /\ queue \in Seq(Heard \cup {Noise}) /\ Len(queue) <= Room
    /\ inbox \in Seq(Places) /\ Len(inbox) <= Room
    /\ answer \in [frame : Heard, left : 1..Copies] \cup {NoAnswer}
    /\ found \in Heard \cup {NoFrame}
    /\ pc \in {"purge", "address", "set", "send", "read"} => found = NoFrame
    /\ pc = "back" => found # NoFrame
    /\ unpurged \in BOOLEAN /\ noise \in BOOLEAN /\ early \in BOOLEAN /\ trouble \in BOOLEAN
    /\ calls \in 0..MaxCalls /\ (pc # "idle" => calls > 0)
    /\ moves \in 0..MaxMoves /\ noises \in 0..MaxNoise

(* Tries begun, of those there were.                                        *)
Rounds == /\ round \in Nat
          /\ pc = "idle" => round <= calls * Retry
          /\ pc = "begin" => round + Retry <= calls * Retry + try
          /\ pc \notin {"idle", "begin"} => round + Retry <= calls * Retry + try + 1

(* An answer tells where the server was when it was sent.                   *)
Dated(f) == f.moves <= moves /\ (f.moves = moves => f.server = home)
Told == /\ \A n \in 1..Len(queue) : queue[n] # Noise => Dated(queue[n])
        /\ answer # NoAnswer => Dated(answer.frame)
        /\ found # NoFrame => Dated(found)

(* What is queued after a purge that left nothing is of this try.           *)
Current ==
    /\ pc \notin {"idle", "begin", "purge"} /\ ~unpurged =>
           \A n \in 1..Len(queue) : queue[n] # Noise => queue[n].round = round
    /\ found # NoFrame => found.round = round \/ unpurged

Ended == pc = "idle" => /\ ~speedy \/ early
                        /\ returned = 0 => found # NoFrame \/ noise
                        /\ returned = 0 /\ found # NoFrame => channel = found.server

(* A search without trouble: the channels behind it are not the server's,   *)
(* and it leaves none while its question is under way.                      *)
Quiet == inbox = <<>> /\ answer = NoAnswer
Own(f) == f # Noise /\ f.client = home /\ f.server = home
Asking == /\ \A n \in 1..Len(queue) : Own(queue[n])
          /\ \A n \in 1..Len(inbox) : inbox[n] = channel
          /\ answer # NoAnswer => Own(answer.frame)
          /\ channel = home => queue # <<>> \/ ~Quiet
Smooth == ~trouble =>
    /\ pc \in {"begin", "purge", "address", "set", "send"} => Quiet
    /\ pc \in {"address", "set", "send"} => queue = <<>>
    /\ pc \in {"send", "read"} => channel = wifichannel[i]
    /\ pc \in {"set", "send", "read"} => \A j \in 1..(i - 1) : wifichannel[j] # home
    /\ pc = "read" => Asking
    /\ pc = "back" => found.server = home
    /\ pc = "idle" /\ calls > 0 /\ home \in Channels => returned = 0 /\ channel = home

Inv == Shape /\ Rounds /\ Told /\ Current /\ Ended /\ Smooth

-----------------------------------------------------------------------------
LEMMA Counts == /\ Retry \in Nat /\ Retry > 0 /\ Copies \in Nat /\ Copies > 0
                /\ Room \in Nat /\ Room > 0
                /\ MaxCalls \in Nat /\ MaxMoves \in Nat /\ MaxNoise \in Nat
  BY CountAssumption, BoundAssumption

LEMMA ChannelFacts ==
  /\ Len(wifichannel) \in Nat /\ Len(wifichannel) > 0
  /\ \A j \in 1..Len(wifichannel) : wifichannel[j] \in Channels
  /\ \A c \in Channels : \E j \in 1..Len(wifichannel) : wifichannel[j] = c
<1>1. wifichannel \in Seq(Nat) /\ wifichannel # <<>>
  BY ChannelAssumption
<1>2. Len(wifichannel) \in Nat /\ Len(wifichannel) > 0
  BY <1>1, LenProperties, EmptySeq
<1> QED BY <1>1, <1>2 DEF Channels, ToSet

(* A frame is an answer or noise, and not both.                             *)
LEMMA Kinds == \A f \in Heard : f.type = "found" /\ f # Noise /\ f # NoFrame
  BY DEF Heard, Noise, NoFrame

LEMMA InvInit == Init => Inv
<1> SUFFICES ASSUME Init PROVE Inv
  OBVIOUS
<1>1. Shape
  <2>1. channel \in Places /\ home \in Homes /\ queue \in Seq(Heard \cup {Noise})
        /\ inbox \in Seq(Places) /\ Len(queue) = 0 /\ Len(inbox) = 0
    BY DEF Init, Places, Channels
  <2>2. i = 0 /\ try = 0 /\ calls = 0 /\ moves = 0 /\ noises = 0 /\ returned = -1
    BY DEF Init
  <2>3. /\ i \in 0..Len(wifichannel) /\ try \in 0..Retry /\ calls \in 0..MaxCalls
        /\ moves \in 0..MaxMoves /\ noises \in 0..MaxNoise /\ returned \in {-1, 0, 1}
        /\ Len(queue) <= Room /\ Len(inbox) <= Room
    BY <2>1, <2>2, Counts, ChannelFacts
  <2> QED BY <2>1, <2>3 DEF Init, Shape
<1>2. Rounds
  BY Counts DEF Init, Rounds
<1>3. Told /\ Current
  BY DEF Init, Told, Current
<1>4. Ended /\ Smooth
  BY DEF Init, Ended, Smooth, Quiet
<1> QED BY <1>1, <1>2, <1>3, <1>4 DEF Inv

LEMMA CallKeeps == ASSUME Inv, Call PROVE Inv'
<1>1. Shape'
  BY Counts DEF Inv, Shape, Call, Goto, serverVars, tryVars
<1>2. Rounds'
  <2>1. (calls + 1) * Retry = calls * Retry + Retry /\ calls * Retry \in Nat
    BY Counts DEF Inv, Shape
  <2> QED BY <2>1, Counts DEF Inv, Shape, Rounds, Call, Goto, tryVars
<1>3. Told'
  BY DEF Inv, Told, Dated, Call, serverVars, tryVars
<1>4. Current'
  BY DEF Inv, Current, Call, Goto, tryVars
<1>5. Ended' /\ Smooth'
  BY DEF Ended, Smooth, Call, Goto, Quiet, serverVars
<1> QED BY <1>1, <1>2, <1>3, <1>4, <1>5 DEF Inv

LEMMA BeginKeeps == ASSUME Inv, Begin PROVE Inv'
<1>1. Shape'
  BY DEF Inv, Shape, Begin, Goto, serverVars, boundVars
<1>2. Rounds'
  BY Counts DEF Inv, Shape, Rounds, Begin, Goto, boundVars
<1>3. Told'
  BY DEF Inv, Told, Dated, Begin, serverVars, boundVars
<1>4. Current'
  BY DEF Inv, Current, Begin, Goto
<1>5. Ended' /\ Smooth'
  BY DEF Inv, Ended, Smooth, Begin, Goto, Quiet, serverVars
<1> QED BY <1>1, <1>2, <1>3, <1>4, <1>5 DEF Inv

-----------------------------------------------------------------------------
(* The rest of a try.  A try that ends, and what it leaves behind.          *)

LEMMA FinishFacts ==
  ASSUME Inv, pc \notin {"idle", "begin"}, NEW error \in {-1, 0, 1}, Return(error),
         UNCHANGED <<round, calls>>
  PROVE  /\ pc' \in {"idle", "begin"} /\ returned' = error
         /\ error = 0 => pc' = "idle"
         /\ try' \in 0..Retry /\ (pc' # "idle" => try' < Retry)
         /\ Rounds'
<1>1. try \in 0..Retry /\ try < Retry /\ try' = try + 1 /\ Retry \in Nat
  BY Counts DEF Inv, Shape, Return
<1>2. calls * Retry \in Nat
  BY Counts DEF Inv, Shape
<1>3. Rounds'
  BY <1>1, <1>2 DEF Inv, Rounds, Return
<1> QED BY <1>1, <1>3 DEF Return

LEMMA PurgeKeeps ==
  ASSUME Inv, Purge, UNCHANGED <<i, try, speedy, returned, channel, serverVars, found,
                                 round, noise, early, boundVars>>
  PROVE  Inv'
<1>1. PICK n \in 0..Len(queue) : queue' = SubSeq(queue, n + 1, Len(queue))
  BY DEF Purge
<1>2. queue \in Seq(Heard \cup {Noise}) /\ Len(queue) \in Nat
  BY LenProperties DEF Inv, Shape
<1>3. \A k \in (n + 1)..Len(queue) : queue[k] \in Heard \cup {Noise}
  BY <1>2, ElementOfSeq
<1>4. /\ queue' \in Seq(Heard \cup {Noise}) /\ Len(queue') = Len(queue) - n
      /\ \A k \in 1..(Len(queue) - n) : queue'[k] = queue[n + k]
  <2> DEFINE q == SubSeq(queue, n + 1, Len(queue))
  <2>1. /\ q \in Seq(Heard \cup {Noise})
        /\ Len(q) = IF n + 1 <= Len(queue) THEN Len(queue) - (n + 1) + 1 ELSE 0
        /\ \A k \in 1..(Len(queue) - (n + 1) + 1) : q[k] = queue[n + 1 + k - 1]
    BY <1>2, <1>3, SubSeqProperties
  <2> HIDE DEF q
  <2>2. queue' = q
    BY <1>1 DEF q
  <2>3. Len(q) = Len(queue) - n
    BY <1>2, <2>1
  <2>4. \A k \in 1..(Len(queue) - n) : q[k] = queue[n + k]
    BY <1>2, <2>1
  <2> QED BY <2>1, <2>2, <2>3, <2>4
<1>5. /\ pc = "purge" /\ pc' = "address"
      /\ unpurged' = (queue' # <<>>) /\ trouble' = (trouble \/ queue' # <<>>)
  BY DEF Purge, Goto
<1>6. unpurged' \in BOOLEAN /\ trouble' \in BOOLEAN
      /\ (~unpurged' => queue' = <<>>) /\ (~trouble' => ~trouble /\ queue' = <<>>)
  BY <1>5, Zenon
<1>7. Shape'
  BY <1>2, <1>4, <1>5, <1>6, Counts DEF Inv, Shape, serverVars, boundVars
<1>8. Rounds'
  BY <1>5 DEF Inv, Rounds, boundVars
<1>9. Told'
  <2>1. \A k \in 1..Len(queue') : n + k \in 1..Len(queue) /\ queue'[k] = queue[n + k]
    BY <1>2, <1>4
  <2>2. \A f : Dated(f)' <=> Dated(f)
    BY DEF Dated, serverVars, boundVars
  <2> QED BY <2>1, <2>2 DEF Inv, Told, serverVars
<1>10. Current'
  <2>1. ~unpurged' => Len(queue') = 0
    BY <1>6
  <2> QED BY <1>5, <2>1, <1>6 DEF Inv, Current, Shape
<1>11. Ended' /\ Smooth'
  BY <1>5, <1>6 DEF Inv, Ended, Smooth, Quiet, serverVars
<1> QED BY <1>7, <1>8, <1>9, <1>10, <1>11 DEF Inv

LEMMA AddressKeeps ==
  ASSUME Inv, Address \/ NoAddress,
         UNCHANGED <<channel, queue, serverVars, found, round, unpurged, noise, boundVars>>
  PROVE  Inv'
<1>1. Told' /\ Current'
  BY DEF Inv, Shape, Told, Dated, Current, Address, NoAddress, Return, Goto, serverVars, boundVars
<1>2. CASE Address
  <2>1. Shape' /\ Rounds'
    BY <1>2, ChannelFacts DEF Inv, Shape, Rounds, Address, Goto, serverVars, boundVars
  <2>2. Ended' /\ Smooth'
    BY <1>2 DEF Inv, Ended, Smooth, Quiet, Address, Goto, serverVars
  <2> QED BY <1>1, <2>1, <2>2 DEF Inv
<1>3. CASE NoAddress
  <2>1. /\ pc = "address" /\ Return(-1) /\ early' = TRUE /\ trouble' = TRUE
        /\ UNCHANGED <<i, speedy>>
    BY <1>3 DEF NoAddress
  <2>2. /\ pc' \in {"idle", "begin"} /\ returned' = -1 /\ Rounds'
        /\ try' \in 0..Retry /\ (pc' # "idle" => try' < Retry)
    BY <2>1, FinishFacts DEF boundVars
  <2>3. Shape'
    BY <2>1, <2>2 DEF Inv, Shape, serverVars, boundVars
  <2>4. Ended' /\ Smooth'
    BY <2>1, <2>2 DEF Ended, Smooth
  <2> QED BY <1>1, <2>2, <2>3, <2>4 DEF Inv
<1> QED BY <1>2, <1>3

LEMMA SetChannelKeeps ==
  ASSUME Inv, SetChannel,
         UNCHANGED <<i, queue, serverVars, found, round, unpurged, noise, boundVars>>
  PROVE  Inv'
<1>1. Told' /\ Current'
  BY DEF Inv, Shape, Told, Dated, Current, SetChannel, Finish, Return, serverVars, boundVars
<1>2. CASE /\ pc = "set" /\ pc' = "send" /\ channel' = wifichannel[i]
           /\ UNCHANGED <<speedy, try, returned, early, trouble>>
  <2>1. channel' \in Places
    BY <1>2, ChannelFacts DEF Inv, Shape, Places
  <2>2. Shape' /\ Rounds'
    BY <1>2, <2>1 DEF Inv, Shape, Rounds, serverVars, boundVars
  <2>3. Ended' /\ Smooth'
    BY <1>2 DEF Inv, Ended, Smooth, Quiet, serverVars
  <2> QED BY <1>1, <2>2, <2>3 DEF Inv
<1>3. CASE pc = "set" /\ Finish(-1) /\ trouble' = TRUE /\ UNCHANGED channel
  <2>1. /\ pc' \in {"idle", "begin"} /\ returned' = -1 /\ Rounds'
        /\ try' \in 0..Retry /\ (pc' # "idle" => try' < Retry)
        /\ speedy' = FALSE /\ early' = FALSE
    BY <1>3, FinishFacts DEF Finish, boundVars
  <2>2. Shape'
    BY <1>3, <2>1 DEF Inv, Shape, serverVars, boundVars
  <2>3. Ended' /\ Smooth'
    BY <1>3, <2>1 DEF Ended, Smooth
  <2> QED BY <1>1, <2>1, <2>2, <2>3 DEF Inv
<1> QED BY <1>2, <1>3 DEF SetChannel

LEMMA SendKeeps ==
  ASSUME Inv, Send,
         UNCHANGED <<i, channel, queue, home, answer, found, round, unpurged, noise, boundVars>>
  PROVE  Inv'
<1>1. Told' /\ Current'
  BY DEF Inv, Shape, Told, Dated, Current, Send, Finish, Return, boundVars
<1>2. inbox \in Seq(Places) /\ channel \in Places /\ Len(inbox) \in Nat
      /\ queue \in Seq(Heard \cup {Noise})
  BY LenProperties DEF Inv, Shape
<1>3. CASE /\ pc = "send" /\ pc' = "read"
           /\ Len(inbox) < Room /\ inbox' = Append(inbox, channel)
           /\ UNCHANGED <<speedy, try, returned, early, trouble>>
  <2>1. /\ inbox' \in Seq(Places) /\ Len(inbox') = Len(inbox) + 1 /\ inbox' # <<>>
        /\ inbox'[Len(inbox) + 1] = channel
    BY <1>2, <1>3, AppendProperties
  <2>2. Shape' /\ Rounds'
    BY <1>3, <2>1, Counts DEF Inv, Shape, Rounds, boundVars
  <2>3. ~trouble => inbox = <<>> /\ answer = NoAnswer /\ queue = <<>>
    BY <1>3 DEF Inv, Smooth, Quiet
  <2>4. ~trouble => Asking'
    BY <1>3, <2>1, <2>3 DEF Asking, Quiet
  <2>5. Ended' /\ Smooth'
    BY <1>3, <2>4 DEF Inv, Ended, Smooth
  <2> QED BY <1>1, <2>2, <2>5 DEF Inv
<1>4. CASE /\ pc = "send" /\ pc' = "read"
           /\ UNCHANGED inbox /\ trouble' = (trouble \/ channel = home)
           /\ UNCHANGED <<speedy, try, returned, early>>
  <2>1. trouble' \in BOOLEAN /\ (~trouble' => ~trouble /\ channel # home)
    BY <1>4, Zenon
  <2>2. Shape' /\ Rounds'
    BY <1>4, <2>1 DEF Inv, Shape, Rounds, boundVars
  <2>3. ~trouble' => inbox = <<>> /\ answer = NoAnswer /\ queue = <<>>
    BY <1>4, <2>1 DEF Inv, Smooth, Quiet
  <2>4. ~trouble' => Asking'
    BY <1>4, <2>1, <2>3 DEF Asking, Quiet
  <2>5. Ended' /\ Smooth'
    BY <1>4, <2>1, <2>4 DEF Inv, Ended, Smooth
  <2> QED BY <1>1, <2>2, <2>5 DEF Inv
<1>5. CASE pc = "send" /\ Finish(-1) /\ trouble' = TRUE /\ UNCHANGED inbox
  <2>1. /\ pc' \in {"idle", "begin"} /\ returned' = -1 /\ Rounds'
        /\ try' \in 0..Retry /\ (pc' # "idle" => try' < Retry)
        /\ speedy' = FALSE /\ early' = FALSE
    BY <1>5, FinishFacts DEF Finish, boundVars
  <2>2. Shape'
    BY <1>5, <2>1 DEF Inv, Shape, boundVars
  <2>3. Ended' /\ Smooth'
    BY <1>5, <2>1 DEF Ended, Smooth
  <2> QED BY <1>1, <2>1, <2>2, <2>3 DEF Inv
<1> QED BY <1>3, <1>4, <1>5 DEF Send

(* The frame at the head of the queue.                                      *)
LEMMA HeadFacts ==
  ASSUME Inv, queue # <<>>
  PROVE  /\ Head(queue) = queue[1] /\ 1 \in 1..Len(queue)
         /\ Head(queue) \in Heard \cup {Noise}
         /\ Tail(queue) \in Seq(Heard \cup {Noise}) /\ Len(Tail(queue)) = Len(queue) - 1
         /\ \A n \in 1..Len(Tail(queue)) : Tail(queue)[n] = queue[n + 1] /\ n + 1 \in 1..Len(queue)
         /\ Len(queue) \in Nat
<1>1. queue \in Seq(Heard \cup {Noise})
  BY DEF Inv, Shape
<1> QED BY <1>1, HeadTailProperties, EmptySeq, LenProperties

(* On to the next channel, or the end of the list: nothing of the server's  *)
(* is changed, and without trouble nothing is under way.                    *)
LEMMA NextKeeps ==
  ASSUME Inv, pc = "read", NEW error \in {-1, 0}, NextChannel(error),
         UNCHANGED <<channel, serverVars, found, round, unpurged, boundVars>>,
         queue' \in Seq(Heard \cup {Noise}), Len(queue') <= Len(queue), Told', Current',
         noise' \in BOOLEAN, trouble' \in BOOLEAN,
         error = 0 => noise' = TRUE,
         ~trouble' => ~trouble /\ queue' = <<>> /\ Quiet /\ channel # home
  PROVE  Inv'
<1>1. pc = "read" /\ i \in 1..Len(wifichannel) /\ Len(wifichannel) \in Nat /\ Len(queue) \in Nat
  BY ChannelFacts, LenProperties DEF Inv, Shape
<1>2. ~trouble' => \A j \in 1..i : wifichannel[j] # home
  <2>1. ~trouble => wifichannel[i] = channel /\ \A j \in 1..(i - 1) : wifichannel[j] # home
    BY <1>1 DEF Inv, Smooth
  <2> QED BY <1>1, <2>1
<1>5. Len(queue') <= Room /\ found' = NoFrame /\ noise' \in BOOLEAN
  BY <1>1, LenProperties, Counts DEF Inv, Shape
<1>3. CASE i < Len(wifichannel) /\ i' = i + 1 /\ pc' = "set"
           /\ UNCHANGED <<speedy, try, returned, early>>
  <2>1. Shape'
    <3>1. i' \in 0..Len(wifichannel) /\ i' >= 1
      BY <1>1, <1>3
    <3> QED BY <1>1, <1>3, <1>5, <3>1 DEF Inv, Shape, serverVars, boundVars
  <2>2. Rounds'
    BY <1>1, <1>3 DEF Inv, Rounds, boundVars
  <2>3. Ended' /\ Smooth'
    BY <1>1, <1>2, <1>3 DEF Ended, Smooth, Quiet, serverVars
  <2> QED BY <2>1, <2>2, <2>3 DEF Inv
<1>4. CASE i = Len(wifichannel) /\ Finish(error) /\ UNCHANGED i
  <2>1. /\ pc' \in {"idle", "begin"} /\ returned' = error /\ Rounds'
        /\ try' \in 0..Retry /\ (pc' # "idle" => try' < Retry)
        /\ speedy' = FALSE /\ early' = FALSE
    BY <1>1, <1>4, FinishFacts DEF Finish, boundVars
  <2>2. Shape'
    BY <1>1, <1>4, <1>5, <2>1 DEF Inv, Shape, serverVars, boundVars
  <2>3. ~trouble' => home' \notin Channels
    BY <1>2, <1>4, ChannelFacts DEF serverVars
  <2>4. found' = NoFrame
    BY <1>1 DEF Inv, Shape
  <2>5. Ended' /\ Smooth'
    BY <1>1, <2>1, <2>3, <2>4 DEF Ended, Smooth, Quiet, serverVars
  <2> QED BY <2>1, <2>2, <2>5 DEF Inv
<1> QED BY <1>3, <1>4 DEF NextChannel

LEMMA ReadKeeps ==
  ASSUME Inv, Read, UNCHANGED <<channel, serverVars, round, unpurged, trouble, boundVars>>
  PROVE  Inv'
<1> DEFINE f == Head(queue)
<1>1. /\ pc = "read" /\ queue # <<>> /\ queue' = Tail(queue)
      /\ queue' \in Seq(Heard \cup {Noise}) /\ Len(queue') <= Len(queue)
      /\ f = queue[1] /\ 1 \in 1..Len(queue) /\ f \in Heard \cup {Noise}
      /\ \A n \in 1..Len(queue') : queue'[n] = queue[n + 1] /\ n + 1 \in 1..Len(queue)
      /\ found = NoFrame /\ unpurged \in BOOLEAN /\ trouble \in BOOLEAN
  BY HeadFacts DEF Read, Inv, Shape
<1>2. \A g : Dated(g)' <=> Dated(g)
  BY DEF Dated, serverVars, boundVars
<1>3. Noise.type = "other" /\ (f \in Heard => f.type = "found" /\ f # Noise /\ f # NoFrame)
  BY Kinds DEF Noise
<1>4. CASE /\ IsAnswer(f) /\ found' = f
           /\ pc' = "back" /\ UNCHANGED <<i, speedy, try, returned, early, noise>>
  <2>1. f \in Heard /\ f # Noise /\ f # NoFrame
    BY <1>1, <1>3, <1>4 DEF IsAnswer
  <2>2. Shape'
    <3>1. Len(queue') <= Room
      BY <1>1, HeadFacts, Counts DEF Inv, Shape
    <3> QED BY <1>1, <1>4, <2>1, <3>1 DEF Inv, Shape, serverVars, boundVars
  <2>3. Rounds'
    BY <1>1, <1>4 DEF Inv, Rounds, boundVars
  <2>4. Told'
    BY <1>1, <1>2, <1>4, <2>1 DEF Inv, Told, serverVars
  <2>5. Current'
    BY <1>1, <1>4, <2>1 DEF Inv, Current
  <2>6. ~trouble => f.server = home
    BY <1>1 DEF Inv, Smooth, Asking, Own
  <2>7. Ended' /\ Smooth'
    BY <1>4, <2>6 DEF Ended, Smooth, serverVars
  <2> QED BY <2>2, <2>3, <2>4, <2>5, <2>7 DEF Inv
<1>5. CASE ~IsAnswer(f) /\ noise' = TRUE /\ NextChannel(0) /\ UNCHANGED found
  <2>1. Told'
    BY <1>1, <1>2, <1>5 DEF Inv, Told, serverVars
  <2>2. Current'
    BY <1>1, <1>5 DEF Inv, Current
  <2>3. trouble
    BY <1>1, <1>3, <1>5 DEF Inv, Smooth, Asking, Own, IsAnswer
  <2> QED BY <1>1, <1>5, <2>1, <2>2, <2>3, NextKeeps
<1> QED BY <1>4, <1>5 DEF Read

LEMMA GiveUpKeeps ==
  ASSUME Inv, GiveUp,
         UNCHANGED <<channel, queue, serverVars, found, round, unpurged, noise, boundVars>>
  PROVE  Inv'
<1>1. /\ pc = "read" /\ NextChannel(-1)
      /\ trouble' = (trouble \/ queue # <<>> \/ inbox # <<>> \/ answer # NoAnswer)
  BY DEF GiveUp, NothingRead
<1>2. trouble' \in BOOLEAN /\ (~trouble' => ~trouble /\ queue = <<>> /\ Quiet)
  BY <1>1, Zenon DEF Quiet
<1>3. ~trouble' => channel # home
  BY <1>1, <1>2 DEF Inv, Smooth, Asking
<1>4. Told'
  BY DEF Inv, Told, Dated, serverVars, boundVars
<1>5. Current'
  BY <1>1 DEF Inv, Current
<1>6. queue \in Seq(Heard \cup {Noise}) /\ Len(queue) \in Nat /\ noise \in BOOLEAN
  BY LenProperties DEF Inv, Shape
<1> QED BY <1>1, <1>2, <1>3, <1>4, <1>5, <1>6, NextKeeps

LEMMA BackKeeps ==
  ASSUME Inv, Back,
         UNCHANGED <<i, queue, serverVars, found, round, unpurged, noise, boundVars>>
  PROVE  Inv'
<1>1. /\ pc = "back" /\ found \in Heard /\ found # NoFrame
  BY DEF Back, Inv, Shape
<1>2. PICK error \in {0, 1} :
        /\ Finish(error)
        /\ error = 0 => channel' = found.server /\ UNCHANGED trouble
        /\ error = 1 => trouble' = TRUE /\ UNCHANGED channel
  BY DEF Back, ServersChannel
<1>3. /\ pc' \in {"idle", "begin"} /\ returned' = error /\ Rounds' /\ (error = 0 => pc' = "idle")
      /\ try' \in 0..Retry /\ (pc' # "idle" => try' < Retry)
      /\ speedy' = FALSE /\ early' = FALSE
  BY <1>1, <1>2, FinishFacts DEF Finish, boundVars
<1>4. channel' \in Places
  BY <1>1, <1>2 DEF Inv, Shape, Heard
<1>5. Shape'
  BY <1>1, <1>2, <1>3, <1>4 DEF Inv, Shape, serverVars, boundVars
<1>6. Told'
  BY DEF Inv, Told, Dated, serverVars, boundVars
<1>7. Current'
  BY <1>1, <1>3 DEF Inv, Current
<1>8. Ended' /\ Smooth'
  BY <1>1, <1>2, <1>3 DEF Inv, Ended, Smooth, serverVars
<1> QED BY <1>3, <1>5, <1>6, <1>7, <1>8 DEF Inv

LEMMA ClientKeeps == ASSUME Inv, Client PROVE Inv'
  BY BeginKeeps, PurgeKeeps, AddressKeeps, SetChannelKeeps, SendKeeps, ReadKeeps,
     GiveUpKeeps, BackKeeps DEF Client

-----------------------------------------------------------------------------
(* The server and the air.                                                  *)

LEMMA RespondKeeps ==
  ASSUME Inv, Respond, UNCHANGED <<clientVars, channel, tryVars, calls>>
  PROVE  Inv'
<1>1. /\ inbox # <<>> /\ answer = NoAnswer /\ inbox' = Tail(inbox)
      /\ answer' = IF Head(inbox) = home
                   THEN [frame |-> FoundPeer(Head(inbox), home), left |-> Copies] ELSE NoAnswer
      /\ UNCHANGED <<home, queue, trouble, moves, noises>>
  BY DEF Respond, Answers
<1>2. inbox \in Seq(Places) /\ home \in Homes /\ moves \in 0..MaxMoves
  BY DEF Inv, Shape
<1>3. /\ Head(inbox) \in Places /\ Tail(inbox) \in Seq(Places) /\ Head(inbox) = inbox[1]
      /\ Len(Tail(inbox)) = Len(inbox) - 1 /\ Len(inbox) \in Nat /\ 1 \in 1..Len(inbox)
      /\ \A n \in 1..Len(Tail(inbox)) : Tail(inbox)[n] = inbox[n + 1] /\ n + 1 \in 1..Len(inbox)
  BY <1>1, <1>2, HeadTailProperties, EmptySeq, LenProperties
<1>4. ASSUME answer' # NoAnswer
      PROVE  /\ Head(inbox) = home /\ answer' = [frame |-> FoundPeer(home, home), left |-> Copies]
             /\ FoundPeer(home, home) \in Heard
  <2>1. Head(inbox) = home
    BY <1>1, <1>4
  <2>2. FoundPeer(home, home) \in Heard
    BY <1>2 DEF FoundPeer, Heard, Places
  <2> QED BY <1>1, <2>1, <2>2
<1>5. answer' \in [frame : Heard, left : 1..Copies] \cup {NoAnswer}
  BY <1>4, Counts
<1>6. Shape'
  <2>1. Len(inbox') <= Room /\ inbox' \in Seq(Places)
    BY <1>1, <1>3, Counts DEF Inv, Shape
  <2> QED BY <1>1, <1>5, <2>1 DEF Inv, Shape, clientVars, tryVars
<1>7. Told'
  <2>1. answer' # NoAnswer => Dated(answer'.frame)
    BY <1>2, <1>4 DEF Dated, FoundPeer
  <2>2. \A f : Dated(f)' <=> Dated(f)
    BY <1>1 DEF Dated
  <2> QED BY <1>1, <2>1, <2>2 DEF Inv, Told, tryVars
<1>8. Rounds' /\ Current' /\ Ended'
  BY <1>1 DEF Inv, Rounds, Current, Ended, clientVars, tryVars
<1>9. Smooth'
  <2>1. ~trouble => pc \in {"read", "back", "idle"}
    BY <1>1 DEF Inv, Shape, Smooth, Quiet
  <2>2. ASSUME ~trouble, pc = "read" PROVE Asking'
    <3>1. Head(inbox) = channel
      BY <1>3, <2>2 DEF Inv, Smooth, Asking
    <3>2. (answer # NoAnswer => Own(answer.frame))'
      BY <1>1, <1>4, Kinds DEF Own, FoundPeer
    <3>3. channel = home => answer' # NoAnswer
      BY <1>1, <3>1 DEF NoAnswer, NoFrame, FoundPeer
    <3>4. Asking
      BY <2>2 DEF Inv, Smooth
    <3>5. \A n \in 1..Len(inbox') : inbox'[n] = channel
      BY <1>1, <1>3, <3>4 DEF Asking
    <3> QED BY <1>1, <3>2, <3>3, <3>4, <3>5 DEF Asking, Own, Quiet
  <2> QED BY <1>1, <2>1, <2>2 DEF Inv, Smooth, clientVars, tryVars
<1> QED BY <1>6, <1>7, <1>8, <1>9 DEF Inv

(* A frame is added to the queue.                                           *)
LEMMA QueueGrows ==
  ASSUME Inv, NEW f \in Heard \cup {Noise}, queue' = Append(queue, f), Len(queue) < Room
  PROVE  /\ queue' \in Seq(Heard \cup {Noise}) /\ Len(queue') <= Room /\ queue' # <<>>
         /\ \A n \in 1..Len(queue') :
                queue'[n] = f \/ (n \in 1..Len(queue) /\ queue'[n] = queue[n])
<1>1. queue \in Seq(Heard \cup {Noise}) /\ Len(queue) \in Nat
  BY LenProperties DEF Inv, Shape
<1>2. /\ queue' \in Seq(Heard \cup {Noise}) /\ Len(queue') = Len(queue) + 1 /\ queue' # <<>>
      /\ \A n \in 1..Len(queue) : queue'[n] = queue[n]
      /\ queue'[Len(queue) + 1] = f
  BY <1>1, AppendProperties
<1> QED BY <1>1, <1>2, Counts

LEMMA SendCopyKeeps ==
  ASSUME Inv, SendCopy, UNCHANGED <<clientVars, channel, tryVars, calls>>
  PROVE  Inv'
<1> DEFINE f == [answer.frame EXCEPT !.round = round]
<1>1. /\ answer \in [frame : Heard, left : 1..Copies] /\ answer # NoAnswer
      /\ UNCHANGED <<home, inbox, moves, noises>>
  BY DEF SendCopy, Inv, Shape
<1>2. /\ f \in Heard /\ f.client = answer.frame.client /\ f.server = answer.frame.server
      /\ f.moves = answer.frame.moves /\ f.round = round
  BY <1>1 DEF Heard, Inv, Rounds
<1>3. /\ answer' \in [frame : Heard, left : 1..Copies] \cup {NoAnswer}
      /\ answer' # NoAnswer => answer'.frame = answer.frame
  <2>1. CASE answer' = [answer EXCEPT !.left = @ - 1] /\ answer.left > 1
    BY <1>1, <2>1, Counts
  <2>2. CASE answer' = NoAnswer
    BY <2>2
  <2> QED BY <2>1, <2>2 DEF SendCopy
<1> HIDE DEF f
<1>4. /\ queue' \in Seq(Heard \cup {Noise}) /\ Len(queue') <= Room
      /\ \A n \in 1..Len(queue') :
             queue'[n] = f \/ (n \in 1..Len(queue) /\ queue'[n] = queue[n])
      /\ trouble' \in BOOLEAN
      /\ ~trouble' => ~trouble /\ (queue' # <<>> \/ channel # home)
  <2>1. CASE Len(queue) < Room /\ queue' = Append(queue, f) /\ UNCHANGED trouble
    BY <1>2, <2>1, QueueGrows DEF Inv, Shape
  <2>2. CASE UNCHANGED queue /\ trouble' = (trouble \/ channel = home)
    <3>1. trouble' \in BOOLEAN /\ (~trouble' => ~trouble /\ channel # home)
      BY <2>2, Zenon
    <3> QED BY <2>2, <3>1 DEF Inv, Shape
  <2> QED BY <2>1, <2>2 DEF SendCopy, f
<1>5. Shape'
  BY <1>1, <1>3, <1>4 DEF Inv, Shape, clientVars, tryVars
<1>6. Told'
  <2>1. Dated(f) /\ \A g : Dated(g)' <=> Dated(g)
    BY <1>1, <1>2 DEF Inv, Told, Dated
  <2> QED BY <1>1, <1>3, <1>4, <2>1 DEF Inv, Told, tryVars
<1>7. Current'
  BY <1>2, <1>4 DEF Inv, Current, clientVars, tryVars
<1>8. Rounds' /\ Ended'
  BY DEF Inv, Rounds, Ended, clientVars, tryVars
<1>9. Smooth'
  <2>1. ~trouble => pc \in {"read", "back", "idle"}
    BY <1>1 DEF Inv, Shape, Smooth, Quiet
  <2>2. ASSUME ~trouble', pc = "read" PROVE Asking'
    <3>1. ~trouble /\ Asking
      BY <1>4, <2>2 DEF Inv, Smooth
    <3>2. Own(f)
      BY <1>1, <1>2, <3>1, Kinds DEF Asking, Own
    <3> QED BY <1>1, <1>3, <1>4, <2>2, <3>1, <3>2 DEF Asking, Own, Quiet
  <2> QED BY <1>1, <1>4, <2>1, <2>2 DEF Inv, Smooth, clientVars, tryVars
<1> QED BY <1>5, <1>6, <1>7, <1>8, <1>9 DEF Inv

LEMMA MoveKeeps ==
  ASSUME Inv, Move, UNCHANGED <<clientVars, channel, tryVars, calls>>
  PROVE  Inv'
<1>1. Shape'
  BY Counts DEF Inv, Shape, Move, clientVars, tryVars
<1>2. Told'
  <2>1. moves \in Nat /\ moves' = moves + 1
    BY Counts DEF Inv, Shape, Move
  <2>2. \A f \in Heard : Dated(f) => Dated(f)'
    BY <2>1, Counts DEF Dated, Heard
  <2>3. \A n \in 1..Len(queue) : queue[n] # Noise => queue[n] \in Heard
    BY ElementOfSeq DEF Inv, Shape
  <2>4. /\ answer # NoAnswer => answer.frame \in Heard
        /\ found # NoFrame => found \in Heard
    BY DEF Inv, Shape
  <2> QED BY <2>2, <2>3, <2>4 DEF Inv, Told, Move, tryVars
<1>3. Rounds' /\ Current' /\ Ended'
  BY DEF Inv, Rounds, Current, Ended, Move, clientVars, tryVars
<1>4. Smooth'
  BY DEF Smooth, Move
<1> QED BY <1>1, <1>2, <1>3, <1>4 DEF Inv

LEMMA OtherKeeps ==
  ASSUME Inv, Other, UNCHANGED <<clientVars, channel, tryVars, calls>>
  PROVE  Inv'
<1>1. /\ queue' \in Seq(Heard \cup {Noise}) /\ Len(queue') <= Room
      /\ \A n \in 1..Len(queue') :
             queue'[n] = Noise \/ (n \in 1..Len(queue) /\ queue'[n] = queue[n])
  BY QueueGrows DEF Other
<1>2. Shape'
  BY <1>1, Counts DEF Inv, Shape, Other, clientVars, serverVars, tryVars
<1>3. Told'
  BY <1>1 DEF Inv, Told, Dated, Other, serverVars, tryVars
<1>4. Rounds' /\ Current' /\ Ended'
  BY <1>1 DEF Inv, Rounds, Current, Ended, Other, clientVars, tryVars
<1>5. Smooth'
  BY DEF Smooth, Other
<1> QED BY <1>2, <1>3, <1>4, <1>5 DEF Inv

LEMMA InvHolds == Spec => []Inv
<1>1. Inv /\ [Next]_vars => Inv'
  <2> SUFFICES ASSUME Inv, [Next]_vars PROVE Inv'
    OBVIOUS
  <2>1. CASE UNCHANGED vars
    <3>1. Shape' /\ Rounds'
      BY <2>1 DEF Inv, Shape, Rounds, vars, clientVars, serverVars, tryVars, boundVars
    <3>2. Told' /\ Current' /\ Ended'
      BY <2>1 DEF Inv, Told, Dated, Current, Ended, vars, clientVars, serverVars, tryVars, boundVars
    <3>3. Smooth'
      BY <2>1 DEF Inv, Smooth, Asking, Own, Quiet, vars, clientVars, serverVars, tryVars, boundVars
    <3> QED BY <3>1, <3>2, <3>3 DEF Inv
  <2>2. CASE Server
    BY <2>2, RespondKeeps, SendCopyKeeps, MoveKeeps, OtherKeeps DEF Server
  <2> QED BY <2>1, <2>2, CallKeeps, ClientKeeps DEF Next
<1> QED BY <1>1, InvInit, PTL DEF Spec

(* Every variable keeps its type: the search looks at no channel beyond     *)
(* its list, and tries no more often than it may.                           *)
THEOREM TypeCorrect == Spec => []TypeOK
<1>1. Inv => round \in 0..(MaxCalls * Retry)
  <2> SUFFICES ASSUME Inv PROVE round <= MaxCalls * Retry
    BY DEF Inv, Rounds
  <2>1. calls \in Nat /\ calls <= MaxCalls /\ try \in Nat /\ round \in Nat
        /\ (pc # "idle" => try < Retry)
    BY Counts DEF Inv, Shape, Rounds
  <2>2. calls * Retry <= MaxCalls * Retry /\ calls * Retry \in Nat /\ MaxCalls * Retry \in Nat
    BY <2>1, Counts
  <2> DEFINE all == calls * Retry
             most == MaxCalls * Retry
  <2>3. round <= all
    <3>1. /\ pc = "idle" => round <= all
          /\ pc = "begin" => round + Retry <= all + try
          /\ pc \notin {"idle", "begin"} => round + Retry <= all + try + 1
      BY DEF Inv, Rounds
    <3>2. all \in Nat
      BY <2>2
    <3> HIDE DEF all
    <3> QED BY <2>1, <3>1, <3>2, Counts
  <2> HIDE DEF all, most
  <2>4. round <= most
    BY <2>1, <2>2, <2>3 DEF all, most
  <2> QED BY <2>4 DEF most
<1>2. Inv => TypeOK
  <2> SUFFICES ASSUME Inv PROVE TypeOK
    OBVIOUS
  <2>1. \A f \in Heard \cup {NoFrame, Noise} : IsFrame(f)
    BY DEF IsFrame, Heard, Places
  <2>2. \A n \in 1..Len(queue) : IsFrame(queue[n])
    BY <2>1, ElementOfSeq DEF Inv, Shape
  <2>3. IsFrame(answer.frame) /\ answer.left \in 0..Copies /\ IsFrame(found)
    BY <2>1, Counts DEF Inv, Shape, NoAnswer
  <2> QED BY <1>1, <2>2, <2>3 DEF Inv, Shape, TypeOK, Places
<1> QED BY <1>2, InvHolds, PTL

(* After a search that found it, the client is on the server's channel, and *)
(* it took an answer of this try.                                           *)
THEOREM MeetsOnServersChannel == Spec => []MetOnServersChannel
<1>1. Inv => MetOnServersChannel
  BY DEF Inv, Ended, Told, Dated, Current, MetOnServersChannel, Over
<1> QED BY <1>1, InvHolds, PTL

(* A search that says 0 found the server, or read something else.           *)
THEOREM ZeroIsFound == Spec => []ZeroMeansFound
<1>1. Inv => ZeroMeansFound
  BY DEF Inv, Ended, ZeroMeansFound, Over
<1> QED BY <1>1, InvHolds, PTL

(* The short waits end with the search.                                     *)
THEOREM PatientAgain == Spec => []PatientAfterSearch
<1>1. Inv => PatientAfterSearch
  BY DEF Inv, Ended, PatientAfterSearch, Over
<1> QED BY <1>1, InvHolds, PTL

(* A server on one of the channels is found when nothing goes wrong,        *)
(* wherever it is in the list and whatever channels overhear it.            *)
THEOREM ServerIsFound == Spec => []FindsServer
<1>1. Inv => FindsServer
  BY DEF Inv, Smooth, FindsServer, Over
<1> QED BY <1>1, InvHolds, PTL

=============================================================================
