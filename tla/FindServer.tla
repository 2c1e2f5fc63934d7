----------------------------- MODULE FindServer -----------------------------
(* The search of the remote wl client for its server (wlu_pipe.c,           *)
(* rwl_find_remote_wifi_server): the client sets one channel after the      *)
(* other, sends a FIND_MY_PEER frame and waits a short time for FOUND_PEER. *)
(* The server answers, several times over, if the frame came on its own     *)
(* channel.  Neighbouring channels are heard too, frames are lost and late, *)
(* and the server moves: it is after a join that the client searches.       *)
EXTENDS Integers, Sequences, SequencesExt

CONSTANTS wifichannel,  \* the channels searched, in order
          Near,         \* external: pairs of channels that hear each other
          Homes,        \* where the server may be
          Retry,        \* RWL_WIFI_RETRY
          Copies,       \* RWL_WIFI_SEND: how often an answer is sent
          Room,         \* bound: frames queued in a driver
          MaxCalls, MaxMoves, MaxNoise  \* bounds: searches, moves, other frames

ASSUME ChannelAssumption == wifichannel \in Seq(Nat) /\ wifichannel # <<>> /\ Homes \subseteq Nat
ASSUME CountAssumption == {Retry, Copies, Room} \subseteq Nat \ {0}
ASSUME BoundAssumption == {MaxCalls, MaxMoves, MaxNoise} \subseteq Nat

VARIABLES
    pc, i,         \* the client: where it is, and in the list of channels
    try,           \* of RWL_WIFI_RETRY
    channel,       \* of the client's radio
    speedy,        \* need_speedy_response
    returned,      \* by the last call: an error, or 0
    queue,         \* frames the client's driver has received
    home, inbox,   \* the server's channel; frames its driver has received
    answer,        \* FOUND_PEER frame it is sending, and copies still to send
    \* history
    found,         \* the answer this try has taken, or NoFrame
    round,         \* tries begun so far
    unpurged,      \* the purge of this try has left frames
    noise,         \* this try has read a frame that is no answer
    early,         \* the last call ended before it searched
    trouble,       \* something was lost, late, refused or moved in this call
    calls, moves, noises

clientVars == <<pc, i, try, speedy, returned>>
serverVars == <<home, inbox, answer>>
tryVars == <<found, round, unpurged, noise, early>>
boundVars == <<calls, moves, noises>>
vars == <<clientVars, channel, queue, serverVars, tryVars, trouble, boundVars>>

NoFrame == [type |-> "none"]
Noise == [type |-> "other"]
(* moves and round are ghosts: when it was sent, and received.              *)
FoundPeer(client, server) ==
    [type |-> "found", client |-> client, server |-> server, moves |-> moves, round |-> 0]
NoAnswer == [frame |-> NoFrame, left |-> 0]
Hears(a, b) == a = b \/ <<a, b>> \in Near \/ <<b, a>> \in Near

Init == /\ pc = "idle" /\ i = 0 /\ try = 0 /\ speedy = FALSE /\ returned = -1
        /\ channel \in ToSet(wifichannel) /\ home \in Homes
        /\ queue = <<>> /\ inbox = <<>> /\ answer = NoAnswer
        /\ found = NoFrame /\ round = 0 /\ unpurged = FALSE /\ noise = FALSE /\ early = FALSE
        /\ trouble = FALSE /\ calls = 0 /\ moves = 0 /\ noises = 0

-----------------------------------------------------------------------------
(* The client.  The callers (findserver, join, ssid) repeat the search      *)
(* until it returns 0.                                                      *)
Goto(from, to) == pc = from /\ pc' = to

Return(error) ==
    /\ returned' = error /\ try' = try + 1
    /\ pc' = IF error = 0 \/ try' = Retry THEN "idle" ELSE "begin"

FinishSpeedy(error) == speedy' = speedy /\ early' = FALSE /\ Return(error)   \* mutant
Finish(error) == speedy' = FALSE /\ early' = FALSE /\ Return(error)

Call ==
    /\ Goto("idle", "begin") /\ calls < MaxCalls
    /\ calls' = calls + 1 /\ try' = 0
    /\ trouble' = (inbox # <<>> \/ answer # NoAnswer)
    /\ UNCHANGED <<i, speedy, returned, channel, queue, serverVars, tryVars, moves, noises>>

(* need_speedy_response is set before the frames are allocated.             *)
Begin ==
    /\ Goto("begin", "purge") /\ speedy' = TRUE
    /\ round' = round + 1 /\ found' = NoFrame /\ noise' = FALSE
    /\ UNCHANGED <<i, try, returned, channel, queue, serverVars, unpurged, early,
                   trouble, boundVars>>

(* rwl_wifi_purge_actionframes ends early if the driver fails.              *)
Purge ==
    /\ Goto("purge", "address")
    /\ \E n \in 0..Len(queue) : queue' = SubSeq(queue, n + 1, Len(queue))
    /\ unpurged' = (queue' # <<>>)
    /\ trouble' = (trouble \/ queue' # <<>>)

Address ==
    /\ Goto("address", "set") /\ i' = 1
    /\ UNCHANGED <<speedy, try, returned, early, trouble>>
(* An allocation or "cur_etheraddr" fails: need_speedy_response remains.    *)
NoAddress ==
    /\ pc = "address" /\ Return(-1) /\ early' = TRUE /\ trouble' = TRUE
    /\ UNCHANGED <<i, speedy>>

SetChannel ==
    /\ pc = "set"
    /\ \/ /\ pc' = "send" /\ channel' = wifichannel[i]
          /\ UNCHANGED <<speedy, try, returned, early, trouble>>
       \/ Finish(-1) /\ trouble' = TRUE /\ UNCHANGED channel

Send ==
    /\ pc = "send"
    /\ \/ /\ pc' = "read"
          /\ \/ /\ Hears(channel, home) /\ Len(inbox) < Room
                /\ inbox' = Append(inbox, channel) /\ UNCHANGED trouble
             \/ UNCHANGED inbox /\ trouble' = (trouble \/ channel = home)
          /\ UNCHANGED <<speedy, try, returned, early>>
       \/ Finish(-1) /\ trouble' = TRUE /\ UNCHANGED inbox

(* The next channel, or the end of the list, with the error of the last     *)
(* read.                                                                    *)
NextChannelTooFew(error) ==   \* mutant: the last channel is left out
    \/ i < Len(wifichannel) - 1 /\ i' = i + 1 /\ pc' = "set"
       /\ UNCHANGED <<speedy, try, returned, early>>
    \/ i >= Len(wifichannel) - 1 /\ Finish(error) /\ UNCHANGED i
NextChannelTooFar(error) ==   \* mutant: i <= channel_count
    \/ i <= Len(wifichannel) /\ i' = i + 1 /\ pc' = "set"
       /\ UNCHANGED <<speedy, try, returned, early>>
    \/ i > Len(wifichannel) /\ Finish(error) /\ UNCHANGED i
NextChannelAround(error) ==   \* mutant: from the last to the first
    /\ i' = (i % Len(wifichannel)) + 1 /\ pc' = "set"
    /\ UNCHANGED <<speedy, try, returned, early>>
NextChannel(error) ==
    \/ i < Len(wifichannel) /\ i' = i + 1 /\ pc' = "set"
       /\ UNCHANGED <<speedy, try, returned, early>>
    \/ i = Len(wifichannel) /\ Finish(error) /\ UNCHANGED i

IsAnswer(f) == f.type = "found" /\ f.server = f.client

Read ==
    /\ pc = "read" /\ queue # <<>> /\ queue' = Tail(queue)
    /\ \/ /\ IsAnswer(Head(queue)) /\ found' = Head(queue)
          /\ pc' = "back" /\ UNCHANGED <<i, speedy, try, returned, early, noise>>
       \/ /\ ~IsAnswer(Head(queue)) /\ noise' = TRUE
          /\ NextChannel(0) /\ UNCHANGED found

(* RWL_WIFI_RX_RETRY reads without a frame, or one that fails.              *)
NothingReadZero == 0   \* mutant: remote_CDC_DATA_wifi_rx without its last check
NothingRead == -1
GiveUp ==
    /\ pc = "read" /\ NextChannel(NothingRead)
    /\ trouble' = (trouble \/ queue # <<>> \/ inbox # <<>> \/ answer # NoAnswer)

(* The answer may come from another channel than the one now set.           *)
ServersChannelSkipped == wifichannel[i]   \* mutant: the channel is not set back
ServersChannel == found.server
Back ==
    /\ pc = "back"
    /\ \/ channel' = ServersChannel /\ Finish(0) /\ UNCHANGED trouble
       \/ Finish(1) /\ trouble' = TRUE /\ UNCHANGED channel

Client ==
    \/ Begin
    \/ Purge /\ UNCHANGED <<i, try, speedy, returned, channel, serverVars, found,
                            round, noise, early, boundVars>>
    \/ /\ Address \/ NoAddress
       /\ UNCHANGED <<channel, queue, serverVars, found, round, unpurged, noise, boundVars>>
    \/ /\ SetChannel
       /\ UNCHANGED <<i, queue, serverVars, found, round, unpurged, noise, boundVars>>
    \/ /\ Send
       /\ UNCHANGED <<i, channel, queue, home, answer, found, round, unpurged, noise, boundVars>>
    \/ Read /\ UNCHANGED <<channel, serverVars, round, unpurged, trouble, boundVars>>
    \/ GiveUp /\ UNCHANGED <<channel, queue, serverVars, found, round, unpurged, noise, boundVars>>
    \/ /\ Back
       /\ UNCHANGED <<i, queue, serverVars, found, round, unpurged, noise, boundVars>>

-----------------------------------------------------------------------------
(* The server and the air.                                                  *)

(* rwl_wifi_find_server_response: overlapping channels are not answered.    *)
Answers(client) == client = home
Respond ==
    /\ inbox # <<>> /\ answer = NoAnswer /\ inbox' = Tail(inbox)
    /\ answer' = IF Answers(Head(inbox))
                 THEN [frame |-> FoundPeer(Head(inbox), home), left |-> Copies] ELSE NoAnswer
    /\ UNCHANGED <<home, queue, trouble, moves, noises>>

(* A copy is heard, or not, or cannot be sent, and then no more are.        *)
SendCopy ==
    /\ answer # NoAnswer
    /\ \/ /\ Hears(channel, home) /\ Len(queue) < Room
          /\ queue' = Append(queue, [answer.frame EXCEPT !.round = round])
          /\ UNCHANGED trouble
       \/ UNCHANGED queue /\ trouble' = (trouble \/ channel = home)
    /\ \/ answer' = [answer EXCEPT !.left = @ - 1] /\ answer.left > 1
       \/ answer' = NoAnswer
    /\ UNCHANGED <<home, inbox, moves, noises>>

(* A join makes the server move. *)
Move ==
    /\ moves < MaxMoves /\ moves' = moves + 1
    /\ home' \in Homes \ {home} /\ trouble' = TRUE
    /\ UNCHANGED <<inbox, answer, queue, noises>>

(* A late response to an earlier command. *)
Other ==
    /\ noises < MaxNoise /\ noises' = noises + 1 /\ Len(queue) < Room
    /\ queue' = Append(queue, Noise) /\ trouble' = TRUE
    /\ UNCHANGED <<serverVars, moves>>

Server == /\ Respond \/ SendCopy \/ Move \/ Other
          /\ UNCHANGED <<clientVars, channel, tryVars, calls>>

Next == Call \/ Client \/ Server

(* Every read and every wait of the client is bounded. *)
Spec == Init /\ [][Next]_vars /\ WF_vars(Client)

-----------------------------------------------------------------------------
Channels == ToSet(wifichannel)
IsFrame(f) == \/ f \in {NoFrame, Noise}
              \/ f.type = "found" /\ {f.client, f.server} \subseteq Channels \cup Homes

TypeOK ==
    /\ pc \in {"idle", "begin", "purge", "address", "set", "send", "read", "back"}
    /\ i \in 0..Len(wifichannel) /\ try \in 0..Retry /\ speedy \in BOOLEAN
    /\ returned \in {-1, 0, 1} /\ channel \in Channels \cup Homes /\ home \in Homes
    /\ Len(queue) <= Room /\ \A n \in 1..Len(queue) : IsFrame(queue[n])
    /\ inbox \in Seq(Channels \cup Homes) /\ Len(inbox) <= Room
    /\ IsFrame(answer.frame) /\ answer.left \in 0..Copies
    /\ IsFrame(found) /\ {unpurged, noise, early, trouble} \subseteq BOOLEAN
    /\ round \in 0..(MaxCalls * Retry) /\ calls \in 0..MaxCalls
    /\ moves \in 0..MaxMoves /\ noises \in 0..MaxNoise

Over == pc = "idle" /\ calls > 0

(* After a search that found it, the client is on the channel of the        *)
(* server, wherever it was when it read the answer: copies come late and    *)
(* over neighbouring channels.  Not so if the server has moved since it     *)
(* answered.  The answer was received since this try began, unless the      *)
(* purge failed: one to an earlier search tells where the server was.       *)
MetOnServersChannel ==
    /\ Over /\ returned = 0 /\ found # NoFrame =>
           channel = found.server /\ (found.moves = moves => channel = home)
    /\ found # NoFrame => found.round = round \/ unpurged

(* A search that says 0 has found the server, so that the callers repeat    *)
(* one that has not; unless it read a frame that is no answer (on the last  *)
(* channel, where nothing follows that would make it an error).             *)
ZeroMeansFound == Over /\ returned = 0 => found # NoFrame \/ noise

(* A server on one of the channels is found when nothing is lost, late,     *)
(* refused or moved: no channel is skipped, and none left too soon.         *)
FindsServer ==
    Over /\ ~trouble /\ home \in Channels => returned = 0 /\ channel = home

(* Reads of other calls wait as long as they should: the short waits end    *)
(* with the search; but for one that failed before it began.                *)
PatientAfterSearch == Over => ~speedy \/ early

(* A search comes to its end, whoever answers or not.                       *)
SearchEnds == pc # "idle" ~> pc = "idle"
=============================================================================
