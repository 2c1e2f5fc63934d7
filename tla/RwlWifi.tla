------------------------------- MODULE RwlWifi --------------------------------
(***************************************************************************)
(* The remote wl client over Wi-Fi (wlu_client_shared.c, wlu_pipe.c): one  *)
(* get, set or shell call at a time is sent to a server as a vendor action *)
(* frame, and the server's response comes back in numbered fragments,      *)
(* which are put together again.  Nothing in a frame says which request it *)
(* answers: frames still queued are purged before each try, later ones are *)
(* not noticed.  Every wait is bounded: a step takes a queued frame, or    *)
(* gives up because none came or the local driver failed.  The air loses,  *)
(* repeats and reorders.                                                   *)
(***************************************************************************)
EXTENDS Integers, Sequences

CONSTANTS
    FragSize,   \* RWL_WIFI_FRAG_DATA_SIZE
    FragCount,  \* RWL_DEFAULT_WIFI_FRAG_COUNT
    Retry,      \* RWL_WIFI_RETRY
    Menu,       \* the commands issued
    Noise,      \* external: frames of the category that answer no request
    QMax,       \* bound: frames the driver queues
    MaxCalls,   \* bound: calls made
    MaxOdd      \* bound: frames repeated by the air, or of Noise

(* A command: its kind and the lengths of the responses it draws from the   *)
(* server, one for a get or a set; a shell command's pieces end with an     *)
(* empty one.                                                               *)
Get(len) == [kind |-> "get", reply |-> <<len>>]
Set == [kind |-> "set", reply |-> <<0>>]
Shell(pieces) == [kind |-> "shell", reply |-> Append(pieces, 0)]
NoCommand == [kind |-> "none", reply |-> <<>>]

(* The frames of a response: the header, with the length, is in number 0.   *)
(* exec and piece are ghosts: 0 for noise.                                  *)
Frame(e, p, s, len) == [exec |-> e, piece |-> p, sub |-> s, len |-> len]
Missing == Frame(-1, -1, -1, -1)
NoiseFrames == {Frame(0, 0, n.sub, n.len) : n \in Noise}

(* remote_CDC_tx: how a response is cut up. *)
Full(len) == len \div FragSize
FragmentsDropRest(len) == IF len > FragSize THEN 0..(Full(len) - 1) ELSE {0}  \* mutant
Fragments(len) == IF len > FragSize
                  THEN {s \in 0..Full(len) : s * FragSize # len}
                  ELSE {0}

ASSUME SizeAssumption == /\ FragSize \in Nat \ {0} /\ FragCount \in Nat \ {0}
                         /\ Retry \in Nat \ {0} /\ QMax \in Nat \ {0}
                         /\ MaxCalls \in Nat /\ MaxOdd \in Nat
ASSUME MenuAssumption ==
    \A c \in Menu : /\ c.kind \in {"get", "set", "shell"}
                    /\ c.reply \in Seq(Nat) /\ c.reply # <<>>
                    /\ c.kind # "shell" => Len(c.reply) = 1
                    /\ \A i \in 1..Len(c.reply) :
                           Full(c.reply[i]) < FragCount
ASSUME NoiseAssumption == /\ Noise \subseteq [sub : 0..FragCount, len : Nat]
                          /\ \A n \in Noise : Full(n.len) < FragCount

VARIABLES
    cpc, cmd, try, ret,  \* the call, its retry count and its result
    list, num, total,    \* master_list, num_frags, totalfrag
    last,                \* msg_len of rwl_wifi_shellresp, -1 before it is set
    queue,               \* external: the driver's queue of action frames
    req,                 \* requests in the air
    air,                 \* responses in the air
    \* history
    serial,              \* calls made
    ran,                 \* what the server executed: the call and the try
    stale,               \* since the purge, a frame other than of the first
                         \* execution of this try has been queued
    odd

rxVars == <<list, num, total>>
callVars == <<cmd, serial, try>>
netVars == <<queue, req, air, odd>>
vars == <<cpc, cmd, try, ret, rxVars, last, queue, req, air, serial, ran, stale, odd>>

Slots == 0..(FragCount - 1)
Empty == [s \in Slots |-> Missing]

Init == /\ cpc = "idle" /\ cmd = NoCommand /\ try = 0 /\ ret = "none"
        /\ list = Empty /\ num = 0 /\ total = 0 /\ last = -1
        /\ queue = <<>> /\ req = {} /\ air = {}
        /\ serial = 0 /\ ran = <<>> /\ stale = FALSE /\ odd = 0

-----------------------------------------------------------------------------
(* The client.                                                              *)

Goto(place) == cpc' = place
Return(r) == Goto("idle") /\ ret' = r /\ UNCHANGED try

Call(c) == /\ cpc = "idle" /\ serial < MaxCalls
           /\ cmd' = c /\ serial' = serial + 1 /\ try' = 1
           /\ ret' = "none" /\ last' = -1
           /\ Goto("purge")
           /\ UNCHANGED <<rxVars, netVars, ran, stale>>

(* rwl_wifi_purge_actionframes: reads until there is nothing to read, or    *)
(* the driver fails.                                                        *)
PurgeNothing == /\ cpc = "purge" /\ stale' = FALSE /\ Goto("send")   \* mutant
                /\ UNCHANGED <<callVars, ret, rxVars, last, netVars, ran>>
Purge == /\ cpc = "purge"
         /\ \E n \in 0..Len(queue) : queue' = SubSeq(queue, n + 1, Len(queue))
         /\ stale' = (queue' # <<>>)
         /\ Goto("send")
         /\ UNCHANGED <<callVars, ret, rxVars, last, req, air, odd, ran>>

(* What remote_CDC_DATA_wifi_rx_frag starts with. *)
StartReading == /\ list' = Empty /\ num' = 0 /\ total' = FragCount
                /\ Goto("read")

(* The next turn of the loop over retry, which ends with error r. *)
AgainForever(r) == r \in {"done", "failed"}   \* mutant: try is not counted
                   /\ Goto("purge") /\ UNCHANGED <<try, ret>>
AgainUnbounded(r) == r \in {"done", "failed"}   \* mutant: the bound is dropped
                     /\ try' = try + 1 /\ Goto("purge") /\ UNCHANGED ret
Again(r) == IF try < Retry THEN try' = try + 1 /\ Goto("purge") /\ UNCHANGED ret
                           ELSE Return(r)

(* remote_CDC_wifi_tx, remote_CDC_tx; call and try are ghosts. *)
Request == [call |-> serial, try |-> try, cmd |-> cmd]
Transmit == /\ cpc = "send"
            /\ req' = req \cup {Request}
            /\ StartReading
            /\ UNCHANGED <<callVars, ret, last, queue, air, odd, ran, stale>>

(* The local driver refuses the frame: a shell call fails at once. *)
TransmitFailsUnnoticed ==   \* mutant: what send returned is not kept
    /\ cpc = "send" /\ Again("done")
    /\ UNCHANGED <<cmd, serial, rxVars, last, netVars, ran, stale>>
TransmitFails == /\ cpc = "send"
                 /\ IF cmd.kind = "shell" THEN Return("failed") ELSE Again("failed")
                 /\ UNCHANGED <<cmd, serial, rxVars, last, netVars, ran, stale>>

(* One turn of the loop of remote_CDC_DATA_wifi_rx_frag: a fragment it has  *)
(* already is not counted, one with a bogus number is; the header tells how *)
(* many more to count.                                                      *)
Keep(f) == IF f.sub \in Slots /\ list[f.sub] = Missing
           THEN [list EXCEPT ![f.sub] = f] ELSE list
Counts(f) == f.sub \notin Slots \/ list[f.sub] = Missing

TakeFragment ==
    /\ cpc = "read" /\ cmd.kind # "set"
    /\ queue # <<>>
    /\ LET f == Head(queue) IN
       /\ list' = Keep(f)
       /\ num' = IF Counts(f) THEN num + 1 ELSE num
       /\ total' = IF f.sub = 0 THEN Full(list'[0].len) ELSE total
       /\ Goto(IF num' <= total' THEN "read" ELSE "check")
    /\ queue' = Tail(queue)
    /\ UNCHANGED <<callVars, ret, last, req, air, odd, ran, stale>>

(* A reading that failed.  A shell call starts another one, for ever, as    *)
(* long as msg_len is not 0; before it is set it may be anything, and so    *)
(* may the length the caller then looks at, unless a header had come.       *)
ReadingFailed ==
    IF cmd.kind # "shell" THEN Again("failed") /\ UNCHANGED <<rxVars, last>>
    ELSE \/ StartReading /\ UNCHANGED <<ret, try, last>>
         \/ last = -1 /\ Again("failed") /\ UNCHANGED <<rxVars, last>>
         \/ last = -1 /\ list[0] = Missing /\ Return("failed")
            /\ UNCHANGED <<rxVars, last>>

GiveUp == /\ cpc = "read"
          /\ ReadingFailed
          /\ UNCHANGED <<cmd, serial, netVars, ran, stale>>

(* "Check for missing frags": all but the last. *)
Check == /\ cpc = "check"
         /\ IF \A s \in 0..(total - 1) : list[s] # Missing
            THEN Goto("copy") /\ UNCHANGED <<ret, try, rxVars, last>>
            ELSE ReadingFailed
         /\ UNCHANGED <<cmd, serial, netVars, ran, stale>>

(* The fragments the copying takes. *)
Copied == 0..(total - 1) \cup IF total = 0 \/ list[0].len % FragSize # 0
                              THEN {total} ELSE {}
Whole == \A s \in Copied : list[s] # Missing

(* Only the server's responses carry REMOTE_REPLY; a get that reads one     *)
(* without goes round again and ends with error 0.                          *)
IsReply(f) == f.exec > 0

CopyGet ==
    /\ cpc = "copy" /\ cmd.kind = "get" /\ Whole
    /\ IF IsReply(list[0]) THEN Return("done") ELSE Again("done")
    /\ UNCHANGED <<cmd, serial, rxVars, last, netVars, ran, stale>>

(* rwl_wifi_shellresp: until a piece is empty. *)
CopyShell ==
    /\ cpc = "copy" /\ cmd.kind = "shell" /\ Whole
    /\ last' = list[0].len
    /\ IF last' = 0 THEN Return("done") /\ UNCHANGED rxVars
                    ELSE StartReading /\ UNCHANGED <<ret, try>>
    /\ UNCHANGED <<cmd, serial, netVars, ran, stale>>

(* A fragment that never came is copied through a null pointer; and the     *)
(* subtype of a duplicate is looked at once more after it was freed, which  *)
(* when it reads as 0 takes the header from where there is none.  The       *)
(* client is gone, and the user starts another.                             *)
Crash == /\ \/ cpc = "copy" /\ ~Whole /\ UNCHANGED queue
            \/ /\ cpc = "read" /\ cmd.kind # "set" /\ list[0] = Missing
               /\ queue # <<>> /\ ~Counts(Head(queue)) /\ queue' = Tail(queue)
         /\ Return("failed")
         /\ UNCHANGED <<cmd, serial, rxVars, last, req, air, odd, ran, stale>>

(* A set reads one frame, takes its start for a header, and believes it;    *)
(* in any fragment but the first that is data, which may look like a reply. *)
TakeReply ==
    /\ cpc = "read" /\ cmd.kind = "set"
    /\ queue # <<>> /\ queue' = Tail(queue)
    /\ \/ Head(queue).sub = 0 /\ IsReply(Head(queue)) /\ Return("done")
       \/ Head(queue).sub # 0 /\ Return("done")
       \/ ~(Head(queue).sub = 0 /\ IsReply(Head(queue))) /\ Again("done")
    /\ UNCHANGED <<cmd, serial, rxVars, last, req, air, odd, ran, stale>>

Client == \/ Purge \/ Transmit \/ TransmitFails \/ TakeFragment \/ GiveUp
          \/ Check \/ CopyGet \/ CopyShell \/ Crash \/ TakeReply

-----------------------------------------------------------------------------
(* The server executes every request it hears and responds with             *)
(* remote_CDC_tx.                                                           *)

Response(e, reply) ==
    UNION {{Frame(e, p, s, reply[p]) : s \in Fragments(reply[p])} : p \in 1..Len(reply)}

Execute(r, again) ==
    /\ r \in req /\ req' = IF again THEN req ELSE req \ {r}
    /\ odd' = IF again THEN odd + 1 ELSE odd
    /\ odd' <= MaxOdd
    /\ ran' = Append(ran, r)
    /\ air' = air \cup Response(Len(ran'), r.cmd.reply)
    /\ UNCHANGED <<cpc, callVars, ret, rxVars, last, queue, stale>>

(* The air.  What is lost is never delivered. *)
Fresh(f) == /\ f.exec > 0
            /\ ran[f.exec] = Request
            /\ \A e \in 1..(f.exec - 1) : ran[e] # ran[f.exec]
Arrives(f) == /\ Len(queue) < QMax /\ queue' = Append(queue, f)
              /\ stale' = (stale \/ (cpc # "idle" /\ ~Fresh(f)))

Deliver(f) == /\ f \in air /\ air' = air \ {f}
              /\ Arrives(f)
              /\ UNCHANGED <<cpc, callVars, ret, rxVars, last, req, odd, ran>>
Repeat(f) == /\ f \in air \cup NoiseFrames
             /\ odd < MaxOdd /\ odd' = odd + 1
             /\ Arrives(f)
             /\ UNCHANGED <<cpc, callVars, ret, rxVars, last, req, air, ran>>
Air == \/ \E r \in req, again \in BOOLEAN : Execute(r, again)
       \/ \E f \in air : Deliver(f)
       \/ \E f \in air \cup NoiseFrames : Repeat(f)

Next == (\E c \in Menu : Call(c)) \/ Client \/ Air

Spec == Init /\ [][Next]_vars /\ WF_vars(Client)

-----------------------------------------------------------------------------
TypeOK ==
    /\ cpc \in {"idle", "purge", "send", "read", "check", "copy"}
    /\ cmd \in Menu \cup {NoCommand}
    /\ try \in 0..Retry /\ ret \in {"none", "done", "failed"}
    /\ \A s \in Slots : list[s] # Missing => list[s].sub = s
    /\ num \in 0..(FragCount + 1) /\ total \in 0..FragCount
    /\ last \in Nat \cup {-1}
    /\ Len(queue) <= QMax
    /\ serial \in 0..MaxCalls /\ stale \in BOOLEAN /\ odd \in 0..MaxOdd

(* A get that succeeds has, fragment by fragment, one response of the       *)
(* server to this very call, in order and without a gap, however the air    *)
(* lost, repeated and reordered: unless a frame that is not of this try     *)
(* came in after the purge.                                                 *)
OwnResponse ==
    cpc = "idle" /\ cmd.kind = "get" /\ ret = "done" /\ ~stale =>
        LET e == list[0].exec
            n == cmd.reply[1]
        IN  /\ e \in 1..Len(ran) /\ ran[e].call = serial
            /\ \A s \in Fragments(n) : list[s] = Frame(e, 1, s, n)

(* remote_CDC_DATA_wifi_rx_frag reads no further once it holds every        *)
(* fragment of the response whose header it has: a response of which        *)
(* nothing was lost is not given up.  Not so if it fills its last fragment: *)
(* then the reader waits for one more.  And what passed the check for       *)
(* missing fragments has none missing: here only for a get, and as long as  *)
(* no frame of another try or of noise was counted.  A shell command's      *)
(* pieces mix in one list, and the rest of one piece is counted for the     *)
(* next.                                                                    *)
StopsWhenWhole ==
    /\ cpc = "read" /\ cmd.kind # "set" /\ IsReply(list[0]) =>
           \/ \E s \in Fragments(list[0].len) : list[s] = Missing
           \/ list[0].len % FragSize = 0
    /\ cpc = "copy" /\ cmd.kind = "get" /\ ~stale => Whole

(* A get and a set return, whatever the air does.                           *)
CallReturns == cpc # "idle" /\ cmd.kind # "shell" ~> cpc = "idle"

(* A call is an at-least-once call, as RemoteCall says.                     *)
Executed == \E e \in 1..Len(ran) : ran[e].call = serial
Abstract == INSTANCE RemoteCall WITH busy <- cpc # "idle", executed <- Executed,
                                     excused <- stale, outcome <- ret
AtLeastOnce == Abstract!Spec

=============================================================================
