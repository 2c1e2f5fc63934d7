------------------------------ MODULE FtmDaemon ------------------------------
(***************************************************************************)
(* wifi_ftmd: the daemon that drives the radio in factory test mode.       *)
(* WifiFtmController receives one datagram at a time and dispatches it;    *)
(* WifiFtmTest stages the settings and turns each command into a sequence  *)
(* of ioctls on wlan0.  Every ioctl is a step of its own, since init may   *)
(* kill the process between two of them, packets may arrive, and clients   *)
(* queue further datagrams.  The driver is external: it remembers the last *)
(* value of every request it accepted and may refuse any request.          *)
(***************************************************************************)
EXTENDS Integers, Sequences

CONSTANTS Used,         \* the commands clients send
          Refusable,    \* the requests the driver may refuse
          GarbageRates, \* what the fresh tx_rate buffer may hold
          QLen,         \* datagrams the socket queues before send() blocks
          MaxRx         \* bound: packets counted by the driver

Keys == {"CHANNEL", "CB", "TX_POWER", "TX_RATE", "PWR_MODE",
         "PACKET_LEN", "PACKET_CNT", "PACKET_INTERVAL"}

(* What the driver remembers: the settings and its own switches; RX_PKT_CNT *)
(* is the counter WE_CLEAR_RX_PKT_CNT zeroes and WE_GET_RX_PKT_CNT reads.   *)
Reqs == Keys \cup {"FTM", "TX_PKT_GEN", "RX", "TX_CW_RF_GEN", "CHAIN",
                   "WF_GAIN", "RX_PKT_CNT"}

Cmd(verb, arg, val) == [verb |-> verb, arg |-> arg, val |-> val]
NoCmd == Cmd("NONE", "none", 0)

(* The datagrams the daemon understands, and one that it ignores.  The val  *)
(* of a REPORT is a serial number of the model: it is not on the wire.      *)
Commands == [verb : {"START", "STOP"}, arg : {"FTM", "TX", "RX", "SCW"}, val : {0}]
       \cup [verb : {"SET"}, arg : Keys, val : Int]
       \cup [verb : {"REPORT"}, arg : {"RX", "BAND"}, val : Nat]
       \cup {Cmd("OTHER", "none", 0)}

ASSUME UsedAssumption == Used \subseteq Commands
ASSUME RefusableAssumption == Refusable \subseteq Reqs
ASSUME RatesAssumption == GarbageRates \subseteq Int /\ GarbageRates # {}
ASSUME BoundsAssumption == QLen \in Nat \ {0} /\ MaxRx \in Nat

Ioctl(req, val) == [op |-> "ioctl", arg |-> req, val |-> val]
Probe(band) == [op |-> "probe", arg |-> "CHANNEL", val |-> band]
Get == [op |-> "get", arg |-> "RX_PKT_CNT", val |-> 0]
Reply(kind, val) == [op |-> "reply", arg |-> kind, val |-> val]
Exit == [op |-> "exit", arg |-> "none", val |-> 0]

WE_GET_RX_PKT_CNT == 3   \* the sub-command number reportRx leaves in the request
ProbeChannel == 46       \* the channel reportBand tries

DefaultSettingsForgetInterval(rate) ==   \* mutant
    [k \in Keys \ {"PACKET_INTERVAL"} |-> 1]
DefaultSettings(rate) ==
    [CHANNEL |-> 1, CB |-> 0, TX_POWER |-> 9, PWR_MODE |-> 1, PACKET_LEN |-> 1000,
     PACKET_CNT |-> 0, PACKET_INTERVAL |-> 200, TX_RATE |-> rate]

-----------------------------------------------------------------------------
(* The ioctl sequences of WifiFtmTest, as functions of the staged settings. *)

TxProgramKeepsSending(s) ==   \* mutant: the generator is not stopped first
    <<Ioctl("CB", s["CB"]), Ioctl("CHANNEL", s["CHANNEL"]),
      Ioctl("TX_POWER", s["TX_POWER"]), Ioctl("TX_PKT_GEN", 1)>>
TxProgram(s) ==
    <<Ioctl("TX_PKT_GEN", 0), Ioctl("CB", s["CB"]), Ioctl("CHANNEL", s["CHANNEL"])>>
    \o (IF s["CHANNEL"] >= 36 THEN <<Ioctl("CHANNEL", s["CHANNEL"])>> ELSE <<>>)
    \o <<Ioctl("CHAIN", 2), Ioctl("PWR_MODE", s["PWR_MODE"]),
         Ioctl("TX_POWER", s["TX_POWER"]), Ioctl("TX_RATE", s["TX_RATE"]),
         Ioctl("PACKET_LEN", s["PACKET_LEN"]), Ioctl("PACKET_CNT", s["PACKET_CNT"]),
         Ioctl("PACKET_INTERVAL", s["PACKET_INTERVAL"]), Ioctl("TX_PKT_GEN", 1)>>

StopRxProgram == <<Ioctl("RX", 0), Ioctl("RX_PKT_CNT", 0)>>
StartRxProgramKeepsReceiving(s) ==   \* mutant: the receiver is not stopped first
    <<Ioctl("CHANNEL", s["CHANNEL"]), Ioctl("RX_PKT_CNT", 0), Ioctl("RX", 1)>>
StartRxProgram(s) == <<Ioctl("CHANNEL", s["CHANNEL"]), Ioctl("RX", 0),
                       Ioctl("RX_PKT_CNT", 0), Ioctl("RX", 1)>>

ScwProgram(s) == <<Ioctl("CHANNEL", s["CHANNEL"]), Ioctl("CHAIN", 2),
                   Ioctl("WF_GAIN", 0), Ioctl("TX_CW_RF_GEN", 1)>>

(* reportBand: the first accepted probe ends the search.  The two requests  *)
(* built at "done:" are never handed to ioctl, so no step restores anything.*)
BandProgramDefaults5G == <<Ioctl("CB", 10), Probe(2), Ioctl("CB", 1), Probe(1),
                           Reply("BAND", 1)>>   \* mutant: band starts at 1
BandProgram == <<Ioctl("CB", 10), Probe(2), Ioctl("CB", 1), Probe(1),
                 Reply("BAND", 0)>>

StartProgram(s) == [FTM |-> <<Ioctl("FTM", 1)>>, TX |-> TxProgram(s),
                    RX |-> StartRxProgram(s), SCW |-> ScwProgram(s)]
StopProgramExitsFirst ==   \* mutant: STOP FTM leaves the loop before the ioctl
    [FTM |-> <<Exit>>, TX |-> <<Ioctl("TX_PKT_GEN", 0)>>,
     RX |-> StopRxProgram, SCW |-> <<Ioctl("TX_CW_RF_GEN", 0)>>]
StopProgram == [FTM |-> <<Ioctl("FTM", 0), Exit>>, TX |-> <<Ioctl("TX_PKT_GEN", 0)>>,
                RX |-> StopRxProgram, SCW |-> <<Ioctl("TX_CW_RF_GEN", 0)>>]
ReportProgram == [RX |-> <<Get>>, BAND |-> BandProgram]

(* processMessage: what a command makes the daemon do; SET and unknown      *)
(* commands touch no hardware.                                              *)
Programs(s) == [START |-> StartProgram(s), STOP |-> StopProgram,
                REPORT |-> ReportProgram]
Program(c, s) == IF c.verb \in {"START", "STOP", "REPORT"}
                 THEN Programs(s)[c.verb][c.arg] ELSE <<>>

-----------------------------------------------------------------------------
VARIABLES
    up,      \* the process runs and holds the control socket
    inq,     \* datagrams queued on wififtmd_server
    staged,  \* the members of WifiFtmTest the SET commands write
    cur,     \* the message in start()'s buffer
    prog,    \* the steps it asks for
    pc,      \* the next of them
    drv,     \* external: the driver's state, survives the daemon
    reply,   \* the property wifi.ftmd.reply, survives the daemon
    \* history
    failed,  \* an ioctl of the current command was refused
    armed,   \* settings of the running transmission, NoRun if not known
    retuned, \* settings of it another command overwrote in the driver
    seen     \* packets since a cleanly started reception, -1 if not known

procVars == <<up, inq, staged, cur, prog, pc>>
runVars == <<armed, retuned, seen>>
vars == <<up, inq, staged, cur, prog, pc, drv, reply, failed, armed, retuned, seen>>

NoRun == [k \in {} |-> 0]
NoReply == [kind |-> "NONE", val |-> 0, tag |-> 0]

Idle == pc > Len(prog)
IsTx == cur.verb = "START" /\ cur.arg = "TX"
IsRx == cur.verb \in {"START", "STOP"} /\ cur.arg = "RX"

Step == [op : {"ioctl"}, arg : Reqs, val : Int]
   \cup [op : {"reply"}, arg : {"RX", "BAND"}, val : Int]
   \cup {Probe(1), Probe(2), Get, Exit}

TypeOK == /\ up \in BOOLEAN
          /\ inq \in Seq(Commands)
          /\ staged \in [Keys -> Int]
          /\ cur \in Commands \cup {NoCmd}
          /\ prog \in Seq(Step)
          /\ pc \in Nat \ {0}
          /\ drv \in [Reqs -> Int]
          /\ reply \in [kind : {"NONE", "RX", "BAND"}, val : Int, tag : Nat]
          /\ failed \in BOOLEAN
          /\ armed \in [Keys -> Int] \cup {NoRun}
          /\ retuned \subseteq Keys
          /\ seen \in Int

Init == /\ up = FALSE /\ inq = <<>> /\ cur = NoCmd /\ prog = <<>> /\ pc = 1
        /\ staged \in {DefaultSettings(r) : r \in GarbageRates}
        /\ drv = [r \in Reqs |-> 0]
        /\ reply = NoReply
        /\ failed = FALSE /\ armed = NoRun /\ retuned = {} /\ seen = -1

-----------------------------------------------------------------------------
(* init executes the daemon with the control socket it has just bound.      *)
Spawn == /\ ~up
         /\ up' = TRUE /\ inq' = <<>> /\ cur' = NoCmd /\ prog' = <<>> /\ pc' = 1
         /\ staged' \in {DefaultSettings(r) : r \in GarbageRates}
         /\ UNCHANGED <<drv, reply, failed, runVars>>

(* The process ends, by itself or killed: queued datagrams are gone.        *)
Gone == /\ up' = FALSE /\ inq' = <<>> /\ cur' = NoCmd /\ prog' = <<>> /\ pc' = 1
        /\ UNCHANGED <<staged, drv, reply, failed, runVars>>

Kill == up /\ Gone

(* A client's send() on its connected datagram socket. *)
Send(c) == /\ up
           /\ Len(inq) < QLen
           /\ inq' = Append(inq, c)
           /\ UNCHANGED <<up, staged, cur, prog, pc, drv, reply, failed, runVars>>

(* start(): recvfrom() and processMessage(). *)
Receive == /\ up /\ Idle /\ inq # <<>>
           /\ LET c == Head(inq) IN
                /\ cur' = c
                /\ prog' = Program(c, staged)
                /\ staged' = IF c.verb = "SET" THEN [staged EXCEPT ![c.arg] = c.val]
                                               ELSE staged
           /\ inq' = Tail(inq) /\ pc' = 1 /\ failed' = FALSE
           /\ UNCHANGED <<up, drv, reply, runVars>>

(* recvfrom() fails: the loop breaks and main() returns. *)
ReceiveFails == up /\ Idle /\ Gone

(* What the history records of an ioctl that set req, or was refused. *)
Record(ok, req, val) ==
    /\ failed' = (failed \/ ~ok)
    /\ armed' = IF ~IsTx THEN armed
                ELSE IF ~ok THEN NoRun
                ELSE IF req = "TX_PKT_GEN" /\ val = 1 /\ ~failed THEN staged
                ELSE armed
    /\ retuned' = IF ok /\ IsTx /\ req = "TX_PKT_GEN" THEN {}
                  ELSE IF ok /\ ~IsTx THEN retuned \cup ({req} \cap Keys)
                  ELSE retuned
    /\ seen' = IF ~IsRx THEN seen
               ELSE IF ~ok THEN -1
               ELSE IF req = "RX" /\ val = 1 /\ ~failed THEN 0
               ELSE seen

MayBe(ok) == ok \/ prog[pc].arg \in Refusable

(* doIoctl(): a refusal is logged and the sequence goes on. *)
DoIoctl(ok) == /\ up /\ ~Idle /\ prog[pc].op = "ioctl" /\ MayBe(ok)
               /\ LET s == prog[pc] IN
                    /\ drv' = IF ok THEN [drv EXCEPT ![s.arg] = s.val] ELSE drv
                    /\ Record(ok, s.arg, s.val)
               /\ pc' = pc + 1
               /\ UNCHANGED <<up, inq, staged, cur, prog, reply>>

(* reportBand: the channel is accepted, "goto done"; or the next band is tried. *)
DoProbe(ok) == /\ up /\ ~Idle /\ prog[pc].op = "probe" /\ MayBe(ok)
               /\ drv' = IF ok THEN [drv EXCEPT !["CHANNEL"] = ProbeChannel] ELSE drv
               /\ Record(ok, "CHANNEL", ProbeChannel)
               /\ IF ok THEN prog' = <<Reply("BAND", prog[pc].val)>> /\ pc' = 1
                        ELSE prog' = prog /\ pc' = pc + 1
               /\ UNCHANGED <<up, inq, staged, cur, reply>>

(* reportRx: when the driver refuses, the request buffer still holds the    *)
(* sub-command number and that is what is reported.                         *)
DoGet(ok) == /\ up /\ ~Idle /\ prog[pc].op = "get" /\ MayBe(ok)
             /\ prog' = <<Reply("RX", IF ok THEN drv["RX_PKT_CNT"]
                                            ELSE WE_GET_RX_PKT_CNT)>>
             /\ pc' = 1
             /\ failed' = (failed \/ ~ok)
             /\ UNCHANGED <<up, inq, staged, cur, drv, reply, runVars>>

(* processReportCmd: property_set("wifi.ftmd.reply"). *)
DoReply == /\ up /\ ~Idle /\ prog[pc].op = "reply"
           /\ reply' = [kind |-> prog[pc].arg, val |-> prog[pc].val, tag |-> cur.val]
           /\ pc' = pc + 1
           /\ UNCHANGED <<up, inq, staged, cur, prog, drv, failed, runVars>>

(* processStopCmd returned 0 after STOP FTM: start() returns. *)
DoExit == up /\ ~Idle /\ prog[pc].op = "exit" /\ Gone

(* External: the radio receives a packet. *)
RxPacket == /\ drv["RX"] = 1 /\ drv["RX_PKT_CNT"] < MaxRx
            /\ drv' = [drv EXCEPT !["RX_PKT_CNT"] = @ + 1]
            /\ seen' = IF seen = -1 THEN -1 ELSE seen + 1
            /\ UNCHANGED <<procVars, reply, failed, armed, retuned>>

Work == \/ Receive
        \/ \E ok \in BOOLEAN : DoIoctl(ok) \/ DoProbe(ok) \/ DoGet(ok)
        \/ DoReply \/ DoExit

Next == \/ Work \/ ReceiveFails \/ RxPacket
        \/ Spawn \/ Kill
        \/ \E c \in Used : Send(c)

Spec == Init /\ [][Next]_vars /\ WF_vars(Work)

-----------------------------------------------------------------------------
(* While packets are generated by a START TX none of whose ioctls failed,   *)
(* every parameter in the driver is the one staged when the generator was   *)
(* switched on, at every moment (the generator is off while it is being     *)
(* reprogrammed), except the channel and the channel bonding, which START   *)
(* RX, START SCW and REPORT BAND may overwrite (WifiFtmTest::startTx).      *)
TransmissionAsStaged ==
    drv["TX_PKT_GEN"] = 1 /\ armed # NoRun =>
        /\ \A k \in Keys \ retuned : drv[k] = armed[k]
        /\ retuned \subseteq {"CHANNEL", "CB"}

(* The driver's counter holds exactly the packets received since the last   *)
(* START RX whose ioctls all succeeded switched the receiver on: none of an *)
(* earlier reception, none missed (WifiFtmTest::startRx, stopRx).  A STOP   *)
(* RX that went through leaves the counter at zero: the receiver is off     *)
(* before the counter is cleared and no packet slips in between.            *)
RxCountIsFresh ==
    /\ drv["RX"] = 1 /\ seen # -1 => drv["RX_PKT_CNT"] = seen
    /\ cur = Cmd("STOP", "RX", 0) /\ Idle /\ ~failed => drv["RX_PKT_CNT"] = 0

(* The band answered tells what the search left in the driver: any band     *)
(* above 2G was found by tuning the radio to channel 46, where it stays; 2G *)
(* means no probe was accepted (WifiFtmTest::reportBand).                   *)
BandAnswerTellsTuning ==
    cur.verb = "REPORT" /\ cur.arg = "BAND" /\ Idle =>
        /\ reply.kind = "BAND" /\ reply.tag = cur.val
        /\ reply.val > 0 => drv["CHANNEL"] = ProbeChannel
        /\ reply.val = 0 => failed

=============================================================================
