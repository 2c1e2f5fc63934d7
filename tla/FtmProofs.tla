------------------------------ MODULE FtmProofs ------------------------------
(***************************************************************************)
(* What the runs of FtmDaemon check on small instances, proved for every   *)
(* set of commands, every set of refusable requests and every bound; then  *)
(* that the composed FtmSystem implements the daemon in its arbitrary      *)
(* environment, so that all of it holds of the deployed stack, and what    *)
(* the system promises beyond that.                                        *)
(***************************************************************************)
EXTENDS FtmSystem, WellFoundedInduction, SequenceTheorems, TLAPS

(* What the fields of a command can be. *)
LEMMA CommandFields ==
    ASSUME NEW c \in Commands
    PROVE  /\ c.verb \in {"START", "STOP"} => c.arg \in {"FTM", "TX", "RX", "SCW"}
           /\ c.verb = "SET" => c.arg \in Keys /\ c.val \in Int
           /\ c.verb = "REPORT" => c.arg \in {"RX", "BAND"} /\ c.val \in Nat
<1>1. CASE c \in [verb : {"START", "STOP"}, arg : {"FTM", "TX", "RX", "SCW"}, val : {0}]
  BY <1>1
<1>2. CASE c \in [verb : {"SET"}, arg : Keys, val : Int]
  BY <1>2
<1>3. CASE c \in [verb : {"REPORT"}, arg : {"RX", "BAND"}, val : Nat]
  BY <1>3
<1>4. CASE c = Cmd("OTHER", "none", 0)
  BY <1>4 DEF Cmd
<1> QED BY <1>1, <1>2, <1>3, <1>4 DEF Commands

-----------------------------------------------------------------------------
IoctlStep == [op : {"ioctl"}, arg : Reqs, val : Int]

LEMMA IoctlType == \A r \in Reqs, v \in Int : Ioctl(r, v) \in IoctlStep
BY DEF Ioctl, IoctlStep

(* Every sequence but that of a REPORT consists of ioctls, and of the exit  *)
(* after STOP FTM.                                                          *)
LEMMA TxProgramType ==
    ASSUME NEW s \in [Keys -> Int]
    PROVE  TxProgram(s) \in Seq(IoctlStep)
<1> DEFINE a == <<Ioctl("TX_PKT_GEN", 0), Ioctl("CB", s["CB"]),
                  Ioctl("CHANNEL", s["CHANNEL"])>>
           b == IF s["CHANNEL"] >= 36 THEN <<Ioctl("CHANNEL", s["CHANNEL"])>> ELSE <<>>
           c == <<Ioctl("CHAIN", 2), Ioctl("PWR_MODE", s["PWR_MODE"]),
                  Ioctl("TX_POWER", s["TX_POWER"]), Ioctl("TX_RATE", s["TX_RATE"]),
                  Ioctl("PACKET_LEN", s["PACKET_LEN"]),
                  Ioctl("PACKET_CNT", s["PACKET_CNT"]),
                  Ioctl("PACKET_INTERVAL", s["PACKET_INTERVAL"]),
                  Ioctl("TX_PKT_GEN", 1)>>
<1>0. /\ \A k \in Keys : s[k] \in Int
      /\ \A k \in Keys : k \in Reqs
  BY DEF Reqs
<1>1. a \in Seq(IoctlStep)
  BY <1>0, IoctlType DEF Keys, Reqs
<1>2. b \in Seq(IoctlStep)
  BY <1>0, IoctlType DEF Keys, Reqs
<1>3. c \in Seq(IoctlStep)
  BY <1>0, IoctlType DEF Keys, Reqs
<1>4. TxProgram(s) = (a \o b) \o c
  BY DEF TxProgram
<1> HIDE DEF a, b, c
<1> QED BY <1>1, <1>2, <1>3, <1>4

LEMMA CommandProgramType ==
    ASSUME NEW c \in Commands, NEW s \in [Keys -> Int], c.verb # "REPORT"
    PROVE  Program(c, s) \in Seq(IoctlStep \cup {Exit})
<1> USE IoctlType
<1>0. s["CHANNEL"] \in Int
  BY DEF Keys
<1>1. CASE c.verb = "START"
  <2>1. c.arg \in {"FTM", "TX", "RX", "SCW"}
    BY <1>1, CommandFields
  <2>2. /\ <<Ioctl("FTM", 1)>> \in Seq(IoctlStep \cup {Exit})
        /\ TxProgram(s) \in Seq(IoctlStep \cup {Exit})
        /\ StartRxProgram(s) \in Seq(IoctlStep \cup {Exit})
        /\ ScwProgram(s) \in Seq(IoctlStep \cup {Exit})
    BY <1>0, TxProgramType DEF StartRxProgram, ScwProgram, Reqs, Keys
  <2>3. Program(c, s) = StartProgram(s)[c.arg]
    BY <1>1 DEF Program, Programs
  <2>4. Program(c, s) \in {<<Ioctl("FTM", 1)>>, TxProgram(s), StartRxProgram(s), ScwProgram(s)}
    BY <2>1, <2>3 DEF StartProgram
  <2> QED BY <2>2, <2>4
<1>2. CASE c.verb = "STOP"
  <2>1. c.arg \in {"FTM", "TX", "RX", "SCW"}
    BY <1>2, CommandFields
  <2>2. /\ <<Ioctl("FTM", 0), Exit>> \in Seq(IoctlStep \cup {Exit})
        /\ <<Ioctl("TX_PKT_GEN", 0)>> \in Seq(IoctlStep \cup {Exit})
        /\ <<Ioctl("TX_CW_RF_GEN", 0)>> \in Seq(IoctlStep \cup {Exit})
        /\ StopRxProgram \in Seq(IoctlStep \cup {Exit})
    BY DEF StopRxProgram, Reqs
  <2>3. Program(c, s) = StopProgram[c.arg]
    BY <1>2 DEF Program, Programs
  <2>4. Program(c, s) \in {<<Ioctl("FTM", 0), Exit>>, <<Ioctl("TX_PKT_GEN", 0)>>,
                           <<Ioctl("TX_CW_RF_GEN", 0)>>, StopRxProgram}
    BY <2>1, <2>3 DEF StopProgram
  <2> QED BY <2>2, <2>4
<1>3. CASE c.verb \notin {"START", "STOP"}
  BY <1>3 DEF Program
<1> QED BY <1>1, <1>2, <1>3

LEMMA StepTypes ==
    ASSUME NEW e \in IoctlStep \cup {Exit}
    PROVE  e \in Step /\ e.op \in {"ioctl", "exit"}
<1>1. CASE e \in IoctlStep
  BY <1>1 DEF IoctlStep, Step
<1>2. CASE e = Exit
  BY <1>2 DEF Exit, Step
<1> QED BY <1>1, <1>2

LEMMA ReportProgramType ==
    ASSUME NEW c \in Commands, NEW s \in [Keys -> Int], c.verb = "REPORT"
    PROVE  Program(c, s) \in Seq(Step)
<1>1. Get \in Step /\ Probe(1) \in Step /\ Probe(2) \in Step
      /\ Ioctl("CB", 10) \in Step /\ Ioctl("CB", 1) \in Step /\ Reply("BAND", 0) \in Step
  BY DEF Step, Ioctl, Reply, Reqs, Keys, Get, Probe
<1>2. c.arg \in {"RX", "BAND"} /\ Program(c, s) = ReportProgram[c.arg]
  BY CommandFields DEF Program, Programs
<1>3. <<Get>> \in Seq(Step) /\ BandProgram \in Seq(Step)
  BY <1>1 DEF BandProgram
<1>4. Program(c, s) \in {<<Get>>, BandProgram}
  BY <1>2 DEF ReportProgram
<1> QED BY <1>3, <1>4

-----------------------------------------------------------------------------
(* Type correctness.  The answering steps are found only under a REPORT.    *)
ReportSteps == \A i \in 1..Len(prog) :
                   prog[i].op \notin {"ioctl", "exit"} => cur.verb = "REPORT"
TypeInv == TypeOK /\ ReportSteps

LEMMA TypeInit == Init => TypeInv
<1> SUFFICES ASSUME Init PROVE TypeInv
  OBVIOUS
<1>1. staged \in [Keys -> Int]
  BY RatesAssumption DEF Init, DefaultSettings, Keys
<1>2. reply \in [kind : {"NONE", "RX", "BAND"}, val : Int, tag : Nat]
  BY DEF Init, NoReply
<1>3. inq \in Seq(Commands) /\ prog \in Seq(Step) /\ ReportSteps
  BY DEF Init, ReportSteps
<1>4. drv \in [Reqs -> Int] /\ cur \in Commands \cup {NoCmd} /\ pc \in Nat \ {0}
  BY DEF Init
<1>5. up \in BOOLEAN /\ failed \in BOOLEAN /\ armed \in [Keys -> Int] \cup {NoRun}
  BY Zenon DEF Init
<1>6. retuned \subseteq Keys /\ seen \in Int
  BY DEF Init
<1> QED BY <1>1, <1>2, <1>3, <1>4, <1>5, <1>6 DEF TypeInv, TypeOK

LEMMA ReceiveType ==
    ASSUME TypeInv, Receive
    PROVE  TypeInv'
<1> DEFINE c == Head(inq)
<1>1. c \in Commands /\ inq' \in Seq(Commands)
  BY DEF TypeInv, TypeOK, Receive
<1>2. staged' \in [Keys -> Int]
  BY <1>1, CommandFields DEF TypeInv, TypeOK, Receive
<1>3. cur' = c /\ prog' = Program(c, staged) /\ staged \in [Keys -> Int]
  BY DEF TypeInv, TypeOK, Receive
<1>4. ASSUME c.verb = "REPORT" PROVE prog' \in Seq(Step) /\ ReportSteps'
  <2>1. prog' \in Seq(Step)
    BY <1>1, <1>3, <1>4, ReportProgramType
  <2> QED BY <1>3, <1>4, <2>1 DEF ReportSteps
<1>5. ASSUME c.verb # "REPORT" PROVE prog' \in Seq(Step) /\ ReportSteps'
  <2>1. prog' \in Seq(IoctlStep \cup {Exit})
    BY <1>1, <1>3, <1>5, CommandProgramType
  <2>2. prog' \in Seq(Step)
        /\ \A i \in 1..Len(prog') : prog'[i].op \in {"ioctl", "exit"}
    BY <2>1, StepTypes
  <2> QED BY <2>2 DEF ReportSteps
<1>6. prog' \in Seq(Step) /\ ReportSteps'
  BY <1>4, <1>5
<1>7. pc' \in Nat \ {0}
  BY DEF Receive
<1>9. cur' \in Commands \cup {NoCmd} /\ failed' \in BOOLEAN
  BY <1>1, <1>3, Zenon DEF Receive
<1>8. /\ up' \in BOOLEAN /\ drv' \in [Reqs -> Int]
      /\ reply' \in [kind : {"NONE", "RX", "BAND"}, val : Int, tag : Nat]
      /\ armed' \in [Keys -> Int] \cup {NoRun} /\ retuned' \subseteq Keys /\ seen' \in Int
  BY DEF TypeInv, TypeOK, Receive, runVars
<1> QED BY <1>1, <1>2, <1>6, <1>7, <1>8, <1>9 DEF TypeInv, TypeOK

LEMMA RecordType ==
    ASSUME TypeInv, NEW ok \in BOOLEAN, NEW req, NEW val, Record(ok, req, val)
    PROVE  /\ failed' \in BOOLEAN
           /\ armed' \in [Keys -> Int] \cup {NoRun}
           /\ retuned' \subseteq Keys
           /\ seen' \in Int
BY DEF TypeInv, TypeOK, Record

(* The step the daemon is at. *)
LEMMA CurrentStep ==
    ASSUME TypeInv, ~Idle
    PROVE  /\ pc \in 1..Len(prog) /\ prog[pc] \in Step
           /\ prog[pc].op = "ioctl" => prog[pc].arg \in Reqs /\ prog[pc].val \in Int
           /\ prog[pc].op = "probe" => prog[pc].val \in {1, 2}
           /\ prog[pc].op = "reply" => prog[pc].arg \in {"RX", "BAND"} /\ prog[pc].val \in Int
           /\ prog[pc].op \in {"probe", "get", "reply"} => cur.verb = "REPORT"
<1> DEFINE e == prog[pc]
<1>1. pc \in 1..Len(prog) /\ e \in Step
  BY DEF TypeInv, TypeOK, Idle
<1>2. e.op \in {"probe", "get", "reply"} => cur.verb = "REPORT"
  BY <1>1 DEF TypeInv, ReportSteps
<1>3. CASE e \in [op : {"ioctl"}, arg : Reqs, val : Int]
  BY <1>1, <1>2, <1>3
<1>4. CASE e \in [op : {"reply"}, arg : {"RX", "BAND"}, val : Int]
  BY <1>1, <1>2, <1>4
<1>5. CASE e = Probe(1)
  BY <1>1, <1>2, <1>5 DEF Probe
<1>6. CASE e = Probe(2)
  BY <1>1, <1>2, <1>6 DEF Probe
<1>7. CASE e = Get
  BY <1>1, <1>2, <1>7 DEF Get
<1>8. CASE e = Exit
  BY <1>1, <1>2, <1>8 DEF Exit
<1> QED BY <1>1, <1>3, <1>4, <1>5, <1>6, <1>7, <1>8 DEF Step

LEMMA EmptyProgram ==
    ASSUME inq' = <<>>, cur' = NoCmd, prog' = <<>>, pc' = 1
    PROVE  /\ inq' \in Seq(Commands) /\ prog' \in Seq(Step) /\ ReportSteps'
           /\ cur' \in Commands \cup {NoCmd} /\ pc' \in Nat \ {0}
BY DEF ReportSteps

LEMMA TypeNext == TypeInv /\ [Next]_vars => TypeInv'
<1> SUFFICES ASSUME TypeInv, [Next]_vars PROVE TypeInv'
  OBVIOUS
<1> USE DEF runVars
<1>1. CASE Spawn
  <2>1. staged' \in [Keys -> Int]
    BY <1>1, RatesAssumption DEF Spawn, DefaultSettings, Keys
  <2> QED BY <1>1, <2>1, EmptyProgram DEF Spawn, TypeInv, TypeOK
<1>2. ASSUME Gone PROVE TypeInv'
  BY <1>2, EmptyProgram DEF Gone, TypeInv, TypeOK
<1>3. ASSUME NEW c \in Used, Send(c) PROVE TypeInv'
  BY <1>3, UsedAssumption DEF Send, TypeInv, TypeOK, ReportSteps
<1>4. CASE Receive
  BY <1>4, ReceiveType
<1>5. ASSUME NEW ok \in BOOLEAN, DoIoctl(ok) PROVE TypeInv'
  <2>1. drv' \in [Reqs -> Int]
    BY <1>5, CurrentStep DEF DoIoctl, TypeInv, TypeOK
  <2>2. Record(ok, prog[pc].arg, prog[pc].val)
    BY <1>5 DEF DoIoctl
  <2> QED BY <1>5, <2>1, <2>2, RecordType DEF DoIoctl, TypeInv, TypeOK, ReportSteps
<1>6. ASSUME NEW ok \in BOOLEAN, DoProbe(ok) PROVE TypeInv'
  <2>1. drv' \in [Reqs -> Int]
    <3>1. ProbeChannel \in Int
      BY DEF ProbeChannel
    <3> QED BY <1>6, <3>1 DEF DoProbe, TypeInv, TypeOK
  <2>2. Record(ok, "CHANNEL", ProbeChannel)
    BY <1>6 DEF DoProbe
  <2>3. Reply("BAND", prog[pc].val) \in Step /\ cur.verb = "REPORT"
    BY <1>6, CurrentStep DEF DoProbe, Reply, Step
  <2>4. prog' \in Seq(Step) /\ pc' \in Nat \ {0} /\ ReportSteps'
    <3>1. CASE ok = TRUE
      <4>1. prog' = <<Reply("BAND", prog[pc].val)>> /\ pc' = 1 /\ cur' = cur
        BY <1>6, <3>1 DEF DoProbe
      <4> QED BY <2>3, <4>1 DEF ReportSteps
    <3>2. CASE ok = FALSE
      BY <1>6, <3>2 DEF DoProbe, TypeInv, TypeOK, ReportSteps
    <3> QED BY <3>1, <3>2
  <2> QED BY <1>6, <2>1, <2>2, <2>4, RecordType DEF DoProbe, TypeInv, TypeOK
<1>7. ASSUME NEW ok \in BOOLEAN, DoGet(ok) PROVE TypeInv'
  <2>1. drv["RX_PKT_CNT"] \in Int
    BY DEF TypeInv, TypeOK, Reqs
  <2>2. prog' \in Seq(Step) /\ pc' \in Nat \ {0}
    BY <1>7, <2>1 DEF DoGet, Reply, Step, WE_GET_RX_PKT_CNT
  <2>3. ReportSteps'
    BY <1>7, CurrentStep DEF DoGet, ReportSteps
  <2> QED BY <1>7, <2>2, <2>3 DEF DoGet, TypeInv, TypeOK
<1>8. CASE DoReply
  <2>1. reply' \in [kind : {"NONE", "RX", "BAND"}, val : Int, tag : Nat]
    <3>1. cur.verb = "REPORT" /\ NoCmd.verb # "REPORT"
      BY <1>8, CurrentStep DEF DoReply, NoCmd, Cmd
    <3>2. cur \in Commands
      BY <3>1 DEF TypeInv, TypeOK
    <3> QED BY <1>8, <3>1, <3>2, CurrentStep, CommandFields DEF DoReply
  <2> QED BY <1>8, <2>1 DEF DoReply, TypeInv, TypeOK, ReportSteps
<1>9. CASE RxPacket
  <2>1. drv' \in [Reqs -> Int] /\ seen' \in Int
    BY <1>9 DEF RxPacket, TypeInv, TypeOK, Reqs
  <2> QED BY <1>9, <2>1 DEF RxPacket, procVars, TypeInv, TypeOK, ReportSteps
<1>10. CASE UNCHANGED vars
  BY <1>10 DEF vars, TypeInv, TypeOK, ReportSteps
<1> QED BY <1>1, <1>2, <1>3, <1>4, <1>5, <1>6, <1>7, <1>8, <1>9, <1>10
        DEF Next, Work, ReceiveFails, Kill, DoExit

LEMMA TypeInvariant == Spec => []TypeInv
<1>1. Init => TypeInv
  BY TypeInit
<1>2. TypeInv /\ [Next]_vars => TypeInv'
  BY TypeNext
<1> QED BY <1>1, <1>2, PTL DEF Spec

(* In every behaviour of the daemon each variable keeps its type; in        *)
(* particular an answer carries a kind and a serial number of a report.     *)
THEOREM TypeCorrect == Spec => []TypeOK
<1>1. TypeInv => TypeOK
  BY DEF TypeInv
<1> QED BY <1>1, TypeInvariant, PTL

-----------------------------------------------------------------------------
(* The transmitter.  The shape of START TX: the generator off, everything   *)
(* staged set, the generator on.                                            *)
LEMMA TxProgramShape ==
    ASSUME NEW s \in [Keys -> Int]
    PROVE  \E n \in {11, 12} :
              /\ Len(TxProgram(s)) = n
              /\ TxProgram(s)[1] = Ioctl("TX_PKT_GEN", 0)
              /\ TxProgram(s)[n] = Ioctl("TX_PKT_GEN", 1)
              /\ \A i \in 2..(n-1) : \E k \in Keys \cup {"CHAIN"} :
                     /\ TxProgram(s)[i] = Ioctl(k, IF k = "CHAIN" THEN 2 ELSE s[k])
              /\ \A k \in Keys : \E i \in 2..(n-1) : TxProgram(s)[i] = Ioctl(k, s[k])
<1> DEFINE P == TxProgram(s)
<1>0. s["CHANNEL"] \in Int
  BY DEF Keys
<1>1. CASE s["CHANNEL"] >= 36
  <2>1. /\ Len(P) = 12
        /\ P[1] = Ioctl("TX_PKT_GEN", 0) /\ P[2] = Ioctl("CB", s["CB"])
        /\ P[3] = Ioctl("CHANNEL", s["CHANNEL"]) /\ P[4] = Ioctl("CHANNEL", s["CHANNEL"])
        /\ P[5] = Ioctl("CHAIN", 2) /\ P[6] = Ioctl("PWR_MODE", s["PWR_MODE"])
        /\ P[7] = Ioctl("TX_POWER", s["TX_POWER"]) /\ P[8] = Ioctl("TX_RATE", s["TX_RATE"])
        /\ P[9] = Ioctl("PACKET_LEN", s["PACKET_LEN"])
        /\ P[10] = Ioctl("PACKET_CNT", s["PACKET_CNT"])
        /\ P[11] = Ioctl("PACKET_INTERVAL", s["PACKET_INTERVAL"])
        /\ P[12] = Ioctl("TX_PKT_GEN", 1)
    BY <1>0, <1>1 DEF TxProgram
  <2> HIDE DEF P
  <2>2. \A i \in 2..11 : \E k \in Keys \cup {"CHAIN"} :
           P[i] = Ioctl(k, IF k = "CHAIN" THEN 2 ELSE s[k])
    BY <2>1 DEF Keys
  <2>3. \A k \in Keys : \E i \in 2..11 : P[i] = Ioctl(k, s[k])
    BY <2>1 DEF Keys
  <2> QED BY <2>1, <2>2, <2>3 DEF P
<1>2. CASE ~(s["CHANNEL"] >= 36)
  <2>1. /\ Len(P) = 11
        /\ P[1] = Ioctl("TX_PKT_GEN", 0) /\ P[2] = Ioctl("CB", s["CB"])
        /\ P[3] = Ioctl("CHANNEL", s["CHANNEL"])
        /\ P[4] = Ioctl("CHAIN", 2) /\ P[5] = Ioctl("PWR_MODE", s["PWR_MODE"])
        /\ P[6] = Ioctl("TX_POWER", s["TX_POWER"]) /\ P[7] = Ioctl("TX_RATE", s["TX_RATE"])
        /\ P[8] = Ioctl("PACKET_LEN", s["PACKET_LEN"])
        /\ P[9] = Ioctl("PACKET_CNT", s["PACKET_CNT"])
        /\ P[10] = Ioctl("PACKET_INTERVAL", s["PACKET_INTERVAL"])
        /\ P[11] = Ioctl("TX_PKT_GEN", 1)
    BY <1>0, <1>2 DEF TxProgram
  <2> HIDE DEF P
  <2>2. \A i \in 2..10 : \E k \in Keys \cup {"CHAIN"} :
           P[i] = Ioctl(k, IF k = "CHAIN" THEN 2 ELSE s[k])
    BY <2>1 DEF Keys
  <2>3. \A k \in Keys : \E i \in 2..10 : P[i] = Ioctl(k, s[k])
    BY <2>1 DEF Keys
  <2> QED BY <2>1, <2>2, <2>3 DEF P
<1> QED BY <1>1, <1>2

(* No other command switches the generator on, and none but the channel and *)
(* the channel bonding is set by them.                                      *)
Harmless(e) == e.op = "ioctl" => /\ e.arg = "TX_PKT_GEN" => e.val = 0
                                 /\ e.arg \in Keys => e.arg \in {"CHANNEL", "CB"}

LEMMA OtherProgramsHarmless ==
    ASSUME NEW c \in Commands, NEW s \in [Keys -> Int],
           ~(c.verb = "START" /\ c.arg = "TX")
    PROVE  \A i \in 1..Len(Program(c, s)) : Harmless(Program(c, s)[i])
<1> DEFINE P == Program(c, s)
<1>1. CASE c.verb = "START"
  <2>1. P \in {<<Ioctl("FTM", 1)>>, StartRxProgram(s), ScwProgram(s)}
    <3>1. c.arg \in {"FTM", "RX", "SCW"}
      BY <1>1, CommandFields
    <3>2. P = StartProgram(s)[c.arg]
      BY <1>1 DEF Program, Programs
    <3> QED BY <3>1, <3>2 DEF StartProgram
  <2>2. CASE P = <<Ioctl("FTM", 1)>>
    BY <2>2 DEF Harmless, Ioctl, Keys
  <2>3. CASE P = StartRxProgram(s)
    BY <2>3 DEF Harmless, Ioctl, StartRxProgram, Keys
  <2>4. CASE P = ScwProgram(s)
    BY <2>4 DEF Harmless, Ioctl, ScwProgram, Keys
  <2> QED BY <2>1, <2>2, <2>3, <2>4
<1>2. CASE c.verb = "STOP"
  <2>1. P \in {<<Ioctl("FTM", 0), Exit>>, <<Ioctl("TX_PKT_GEN", 0)>>,
               <<Ioctl("TX_CW_RF_GEN", 0)>>, StopRxProgram}
    <3>1. c.arg \in {"FTM", "TX", "RX", "SCW"}
      BY <1>2, CommandFields
    <3>2. P = StopProgram[c.arg]
      BY <1>2 DEF Program, Programs
    <3> QED BY <3>1, <3>2 DEF StopProgram
  <2> QED BY <2>1 DEF Harmless, Ioctl, Exit, StopRxProgram, Keys
<1>3. CASE c.verb = "REPORT"
  <2>1. P \in {<<Get>>, BandProgram}
    <3>1. c.arg \in {"RX", "BAND"}
      BY <1>3, CommandFields
    <3>2. P = ReportProgram[c.arg]
      BY <1>3 DEF Program, Programs
    <3> QED BY <3>1, <3>2 DEF ReportProgram
  <2>2. CASE P = <<Get>>
    BY <2>2 DEF Harmless, Get
  <2>3. CASE P = BandProgram
    <3>1. /\ \A i \in {2, 4, 5} : P[i].op # "ioctl"
          /\ \A i \in {1, 3} : P[i].arg = "CB"
          /\ Len(P) = 5
      BY <2>3 DEF BandProgram, Ioctl, Probe, Reply
    <3>2. ASSUME NEW i \in 1..Len(P) PROVE Harmless(P[i])
      <4> HIDE DEF P
      <4>1. i \in {1, 2, 3, 4, 5}
        BY <3>1
      <4> QED BY <3>1, <4>1 DEF Harmless
    <3> QED BY <3>2
  <2> QED BY <2>1, <2>2, <2>3
<1>4. CASE c.verb \notin {"START", "STOP", "REPORT"}
  BY <1>4 DEF Program
<1> QED BY <1>1, <1>2, <1>3, <1>4

(* The inductive invariant: how far a START TX has got, as long as none of  *)
(* its ioctls was refused, and what every other command leaves alone.       *)
TxProgress == IsTx /\ ~failed =>
    /\ 1 < pc /\ pc <= Len(prog) => drv["TX_PKT_GEN"] = 0
    /\ \A i \in 1..Len(prog) : i < pc /\ prog[i].arg \in Keys =>
          drv[prog[i].arg] = staged[prog[i].arg]
OnAir == drv["TX_PKT_GEN"] = 1 /\ armed # NoRun =>
             \A k \in Keys \ retuned : drv[k] = armed[k]
TxInv == /\ IsTx => prog = TxProgram(staged)
         /\ IsTx /\ failed => armed = NoRun
         /\ TxProgress
         /\ ~IsTx => \A i \in 1..Len(prog) : Harmless(prog[i])
         /\ retuned \subseteq {"CHANNEL", "CB"}
         /\ OnAir

LEMMA TxInit == Init => TxInv
<1> SUFFICES ASSUME Init PROVE TxInv
  OBVIOUS
<1>1. ~IsTx
  BY DEF Init, IsTx, NoCmd, Cmd
<1>2. prog = <<>> /\ retuned = {} /\ armed = NoRun
  BY DEF Init
<1> QED BY <1>1, <1>2 DEF TxInv, TxProgress, OnAir

LEMMA TxReceive ==
    ASSUME TypeInv, TxInv, Receive
    PROVE  TxInv'
<1> DEFINE c == Head(inq)
<1>1. /\ c \in Commands /\ staged \in [Keys -> Int]
      /\ cur' = c /\ prog' = Program(c, staged) /\ pc' = 1 /\ failed' = FALSE
  BY DEF TypeInv, TypeOK, Receive
<1>2. UNCHANGED <<drv, armed, retuned>>
  BY DEF Receive, runVars
<1>3. OnAir' /\ retuned' \subseteq {"CHANNEL", "CB"}
  BY <1>2 DEF TxInv, OnAir
<1>4. CASE c.verb = "START" /\ c.arg = "TX"
  <2>1. staged' = staged /\ prog' = TxProgram(staged)
    BY <1>1, <1>4 DEF Receive, Program, Programs, StartProgram
  <2> QED BY <1>1, <1>3, <1>4, <2>1 DEF TxInv, TxProgress, IsTx
<1>5. CASE ~(c.verb = "START" /\ c.arg = "TX")
  <2>1. ~IsTx' /\ \A i \in 1..Len(prog') : Harmless(prog'[i])
    BY <1>1, <1>5, OtherProgramsHarmless DEF IsTx
  <2> QED BY <1>3, <2>1 DEF TxInv, TxProgress, Harmless
<1> QED BY <1>4, <1>5

LEMMA TxIoctl ==
    ASSUME TypeInv, TxInv, NEW ok \in BOOLEAN, DoIoctl(ok)
    PROVE  TxInv'
<1> DEFINE e == prog[pc]
<1>1. /\ pc \in 1..Len(prog) /\ e.arg \in Reqs /\ e.op = "ioctl"
      /\ drv \in [Reqs -> Int] /\ staged \in [Keys -> Int] /\ Keys \subseteq Reqs
      /\ "TX_PKT_GEN" \in Reqs
  BY CurrentStep DEF DoIoctl, TypeInv, TypeOK, Reqs
<1>2. pc' = pc + 1 /\ cur' = cur /\ prog' = prog /\ staged' = staged /\ IsTx' = IsTx
  BY DEF DoIoctl, IsTx
<1>3. CASE IsTx /\ ok = FALSE
  <2>1. failed' = TRUE /\ armed' = NoRun /\ retuned' = retuned /\ drv' = drv
    BY <1>3 DEF DoIoctl, Record
  <2> QED BY <1>2, <1>3, <2>1 DEF TxInv, TxProgress, OnAir
<1>4. CASE IsTx /\ ok = TRUE /\ failed = TRUE
  <2>1. failed' = TRUE /\ armed' = NoRun /\ (retuned' = retuned \/ retuned' = {})
    BY <1>4 DEF DoIoctl, Record, TxInv
  <2> QED BY <1>2, <1>4, <2>1 DEF TxInv, TxProgress, OnAir
<1>5. CASE IsTx /\ ok = TRUE /\ failed = FALSE
  <2>1. failed' = FALSE /\ drv' = [drv EXCEPT ![e.arg] = e.val]
    BY <1>5 DEF DoIoctl, Record
  <2>2. prog = TxProgram(staged) /\ TxProgress
    BY <1>5 DEF TxInv
  <2>3. PICK n \in {11, 12} :
              /\ Len(prog) = n
              /\ prog[1] = Ioctl("TX_PKT_GEN", 0)
              /\ prog[n] = Ioctl("TX_PKT_GEN", 1)
              /\ \A i \in 2..(n-1) : \E k \in Keys \cup {"CHAIN"} :
                     prog[i] = Ioctl(k, IF k = "CHAIN" THEN 2 ELSE staged[k])
              /\ \A k \in Keys : \E i \in 2..(n-1) : prog[i] = Ioctl(k, staged[k])
    BY <1>1, <2>2, TxProgramShape
  <2>4. "TX_PKT_GEN" \notin Keys /\ "CHAIN" \notin Keys
    BY DEF Keys
  <2>5. CASE pc = 1
    <3>1. e.arg = "TX_PKT_GEN" /\ e.val = 0
      BY <2>3, <2>5 DEF Ioctl
    <3>2. drv'["TX_PKT_GEN"] = 0 /\ retuned' = {}
      BY <1>1, <1>5, <2>1, <3>1 DEF DoIoctl, Record
    <3>3. TxProgress'
      BY <1>2, <2>1, <2>3, <2>4, <2>5, <3>1, <3>2 DEF TxProgress
    <3> QED BY <1>2, <1>5, <2>1, <2>2, <3>2, <3>3 DEF TxInv, OnAir
  <2>6. CASE pc \in 2..(n-1)
    <3>0. PICK k \in Keys \cup {"CHAIN"} :
             prog[pc] = Ioctl(k, IF k = "CHAIN" THEN 2 ELSE staged[k])
      BY <2>3, <2>6
    <3>1. e.arg = k /\ e.val = (IF k = "CHAIN" THEN 2 ELSE staged[k])
      BY <3>0 DEF Ioctl
    <3>2. drv["TX_PKT_GEN"] = 0 /\ drv'["TX_PKT_GEN"] = 0
      BY <1>1, <1>5, <2>1, <2>2, <2>3, <2>4, <2>6, <3>1 DEF TxProgress
    <3>3. retuned' = retuned
      BY <1>5, <2>4, <3>1 DEF DoIoctl, Record
    <3>4. ASSUME NEW i \in 1..Len(prog), i < pc + 1, prog[i].arg \in Keys
          PROVE  drv'[prog[i].arg] = staged[prog[i].arg]
      <4>1. CASE prog[i].arg = k
        BY <1>1, <2>1, <2>4, <3>1, <3>4, <4>1
      <4>2. CASE prog[i].arg # k
        <5>1. i < pc
          BY <1>1, <3>1, <3>4, <4>2
        <5>2. drv[prog[i].arg] = staged[prog[i].arg]
          BY <1>5, <2>2, <3>4, <5>1 DEF TxProgress
        <5> QED BY <1>1, <2>1, <3>1, <3>4, <4>2, <5>2
      <4> QED BY <4>1, <4>2
    <3>5. TxProgress'
      BY <1>2, <3>2, <3>4 DEF TxProgress
    <3> QED BY <1>2, <1>5, <2>1, <2>2, <3>2, <3>3, <3>5 DEF TxInv, OnAir
  <2>7. CASE pc = n
    <3>1. e.arg = "TX_PKT_GEN" /\ e.val = 1
      BY <2>3, <2>7 DEF Ioctl
    <3>2. armed' = staged /\ retuned' = {}
      BY <1>5, <3>1 DEF DoIoctl, Record
    <3>3. \A k \in Keys : drv'[k] = drv[k]
      BY <1>1, <2>1, <2>4, <3>1
    <3>4. ASSUME NEW k \in Keys PROVE drv[k] = staged[k]
      <4>1. PICK i \in 2..(n-1) : prog[i] = Ioctl(k, staged[k])
        BY <2>3
      <4>2. prog[i].arg = k
        BY <4>1 DEF Ioctl
      <4> QED BY <1>5, <2>2, <2>3, <2>7, <4>2 DEF TxProgress
    <3>5. OnAir'
      BY <3>2, <3>3, <3>4 DEF OnAir
    <3>6. TxProgress'
      <4>1. ASSUME NEW i \in 1..Len(prog), prog[i].arg \in Keys
            PROVE  drv'[prog[i].arg] = staged[prog[i].arg]
        BY <3>3, <3>4, <4>1
      <4> QED BY <1>2, <2>3, <2>7, <4>1 DEF TxProgress
    <3> QED BY <1>2, <1>5, <2>1, <2>2, <3>2, <3>5, <3>6 DEF TxInv
  <2> QED BY <1>1, <2>3, <2>5, <2>6, <2>7
<1>6. CASE ~IsTx
  <2>1. armed' = armed /\ Harmless(e)
    BY <1>1, <1>6 DEF DoIoctl, Record, TxInv
  <2>2. retuned' = (IF ok = TRUE THEN retuned \cup ({e.arg} \cap Keys) ELSE retuned)
    BY <1>6 DEF DoIoctl, Record
  <2>3. retuned' \subseteq {"CHANNEL", "CB"}
    BY <1>1, <2>1, <2>2 DEF TxInv, Harmless
  <2>4. drv' = IF ok = TRUE THEN [drv EXCEPT ![e.arg] = e.val] ELSE drv
    BY DEF DoIoctl
  <2>5. OnAir'
    <3> SUFFICES ASSUME drv'["TX_PKT_GEN"] = 1, armed # NoRun, NEW k \in Keys \ retuned'
                 PROVE  drv'[k] = armed[k]
      BY <2>1 DEF OnAir
    <3>1. drv["TX_PKT_GEN"] = 1
      <4>1. CASE ok = TRUE /\ e.arg = "TX_PKT_GEN"
        <5>1. e.val = 0
          BY <1>1, <2>1, <4>1 DEF Harmless
        <5>2. drv'["TX_PKT_GEN"] = 0
          BY <1>1, <2>4, <4>1, <5>1
        <5> QED BY <5>2
      <4>2. CASE ~(ok = TRUE /\ e.arg = "TX_PKT_GEN")
        BY <1>1, <2>4, <4>2
      <4> QED BY <4>1, <4>2
    <3>2. drv[k] = armed[k]
      BY <2>2, <3>1 DEF TxInv, OnAir
    <3> QED BY <1>1, <2>2, <2>4, <3>2
  <2> QED BY <1>2, <1>6, <2>3, <2>5 DEF TxInv, TxProgress
<1>7. failed \in {TRUE, FALSE} /\ ok \in {TRUE, FALSE}
  BY Zenon DEF TypeInv, TypeOK
<1> QED BY <1>3, <1>4, <1>5, <1>6, <1>7, Zenon

LEMMA TxNext == TypeInv /\ TxInv /\ [Next]_vars => TxInv'
<1> SUFFICES ASSUME TypeInv, TxInv, [Next]_vars PROVE TxInv'
  OBVIOUS
<1> USE DEF runVars
<1>1. ASSUME cur' = NoCmd, prog' = <<>>, UNCHANGED <<drv, armed, retuned>>
      PROVE  TxInv'
  <2>1. ~IsTx'
    BY <1>1 DEF IsTx, NoCmd, Cmd
  <2> QED BY <1>1, <2>1 DEF TxInv, TxProgress, OnAir
<1>2. ASSUME NEW c \in Used, Send(c) PROVE TxInv'
  BY <1>2 DEF Send, TxInv, TxProgress, OnAir, IsTx
<1>3. CASE Receive
  BY <1>3, TxReceive
<1>4. ASSUME NEW ok \in BOOLEAN, DoIoctl(ok) PROVE TxInv'
  BY <1>4, TxIoctl
<1>5. ASSUME NEW ok \in BOOLEAN, DoProbe(ok) PROVE TxInv'
  <2>1. ~IsTx /\ ~IsTx' /\ drv \in [Reqs -> Int]
    BY <1>5, CurrentStep DEF DoProbe, IsTx, TypeInv, TypeOK
  <2>2. armed' = armed
    BY <1>5, <2>1 DEF DoProbe, Record
  <2>3. retuned' = IF ok = TRUE THEN retuned \cup ({"CHANNEL"} \cap Keys) ELSE retuned
    BY <1>5, <2>1 DEF DoProbe, Record
  <2>4. drv' = IF ok = TRUE THEN [drv EXCEPT !["CHANNEL"] = ProbeChannel] ELSE drv
    BY <1>5 DEF DoProbe
  <2>5. \A i \in 1..Len(prog') : Harmless(prog'[i])
    <3>1. CASE ok = TRUE
      <4>1. prog' = <<Reply("BAND", prog[pc].val)>>
        BY <1>5, <3>1 DEF DoProbe
      <4> QED BY <4>1 DEF Harmless, Reply
    <3>2. CASE ok = FALSE
      <4>1. prog' = prog
        BY <1>5, <3>2 DEF DoProbe
      <4> QED BY <2>1, <4>1 DEF TxInv
    <3> QED BY <3>1, <3>2
  <2>6. OnAir'
    BY <2>1, <2>2, <2>3, <2>4 DEF TxInv, OnAir, Keys
  <2> QED BY <2>1, <2>3, <2>5, <2>6 DEF TxInv, TxProgress
<1>6. ASSUME NEW ok \in BOOLEAN, DoGet(ok) PROVE TxInv'
  <2>1. ~IsTx'
    BY <1>6, CurrentStep DEF DoGet, IsTx
  <2>2. \A i \in 1..Len(prog') : Harmless(prog'[i])
    BY <1>6 DEF DoGet, Harmless, Reply
  <2> QED BY <1>6, <2>1, <2>2 DEF DoGet, TxInv, TxProgress, OnAir
<1>7. CASE DoReply
  <2>1. ~IsTx /\ ~IsTx'
    BY <1>7, CurrentStep DEF DoReply, IsTx
  <2> QED BY <1>7, <2>1 DEF DoReply, TxInv, TxProgress, OnAir
<1>8. CASE RxPacket
  <2>1. /\ \A k \in Keys \cup {"TX_PKT_GEN"} : drv'[k] = drv[k]
    BY <1>8 DEF RxPacket, TypeInv, TypeOK, Reqs, Keys
  <2> QED BY <1>8, <2>1 DEF RxPacket, procVars, TxInv, TxProgress, OnAir, IsTx
<1>9. CASE UNCHANGED vars
  BY <1>9 DEF vars, TxInv, TxProgress, OnAir, IsTx
<1>10. ASSUME Gone \/ Spawn PROVE TxInv'
  BY <1>1, <1>10 DEF Gone, Spawn
<1> QED BY <1>2, <1>3, <1>4, <1>5, <1>6, <1>7, <1>8, <1>9, <1>10
        DEF Next, Work, ReceiveFails, Kill, DoExit

(* For every set of commands and of refusable requests: a transmission      *)
(* whose START TX went through keeps the parameters staged for it, the      *)
(* channel and the channel bonding excepted (WifiFtmTest::startTx).         *)
THEOREM TransmissionKeepsSettings == Spec => []TransmissionAsStaged
<1>1. TxInv => TransmissionAsStaged
  BY DEF TxInv, OnAir, TransmissionAsStaged
<1>2. Init => TxInv
  BY TxInit
<1>3. TypeInv /\ TxInv /\ [Next]_vars => TxInv'
  BY TxNext
<1> QED BY <1>1, <1>2, <1>3, TypeInvariant, PTL DEF Spec

-----------------------------------------------------------------------------
(* The receiver.  No command but START RX and STOP RX touches it or its     *)
(* counter.                                                                 *)
RxQuiet(e) == e.op = "ioctl" => e.arg \notin {"RX", "RX_PKT_CNT"}

LEMMA OtherProgramsQuiet ==
    ASSUME NEW c \in Commands, NEW s \in [Keys -> Int],
           ~(c.verb \in {"START", "STOP"} /\ c.arg = "RX")
    PROVE  \A i \in 1..Len(Program(c, s)) : RxQuiet(Program(c, s)[i])
<1> DEFINE P == Program(c, s)
<1>1. CASE c.verb = "START"
  <2>1. P \in {<<Ioctl("FTM", 1)>>, TxProgram(s), ScwProgram(s)}
    <3>1. c.arg \in {"FTM", "TX", "SCW"} /\ P = StartProgram(s)[c.arg]
      BY <1>1, CommandFields DEF Program, Programs
    <3> QED BY <3>1 DEF StartProgram
  <2>2. CASE P = <<Ioctl("FTM", 1)>>
    BY <2>2 DEF RxQuiet, Ioctl
  <2>3. CASE P = ScwProgram(s)
    BY <2>3 DEF RxQuiet, Ioctl, ScwProgram
  <2>4. CASE P = TxProgram(s)
    <3>1. PICK n \in {11, 12} :
              /\ Len(P) = n
              /\ P[1] = Ioctl("TX_PKT_GEN", 0)
              /\ P[n] = Ioctl("TX_PKT_GEN", 1)
              /\ \A i \in 2..(n-1) : \E k \in Keys \cup {"CHAIN"} :
                     P[i] = Ioctl(k, IF k = "CHAIN" THEN 2 ELSE s[k])
      BY <2>4, TxProgramShape
    <3> HIDE DEF P
    <3>2. ASSUME NEW i \in 1..Len(P) PROVE RxQuiet(P[i])
      <4>1. CASE i = 1 \/ i = n
        BY <3>1, <4>1 DEF RxQuiet, Ioctl
      <4>2. CASE i \in 2..(n-1)
        BY <3>1, <4>2 DEF RxQuiet, Ioctl, Keys
      <4> QED BY <3>1, <4>1, <4>2
    <3> QED BY <3>2 DEF P
  <2> QED BY <2>1, <2>2, <2>3, <2>4
<1>2. CASE c.verb = "STOP"
  <2>1. c.arg \in {"FTM", "TX", "SCW"} /\ P = StopProgram[c.arg]
    BY <1>2, CommandFields DEF Program, Programs
  <2>2. P \in {<<Ioctl("FTM", 0), Exit>>, <<Ioctl("TX_PKT_GEN", 0)>>,
               <<Ioctl("TX_CW_RF_GEN", 0)>>}
    BY <2>1 DEF StopProgram
  <2> QED BY <2>2 DEF RxQuiet, Ioctl, Exit
<1>3. CASE c.verb = "REPORT"
  <2>1. c.arg \in {"RX", "BAND"} /\ P = ReportProgram[c.arg]
    BY <1>3, CommandFields DEF Program, Programs
  <2>2. P \in {<<Get>>, BandProgram}
    BY <2>1 DEF ReportProgram
  <2>3. CASE P = <<Get>>
    BY <2>3 DEF RxQuiet, Get
  <2>4. CASE P = BandProgram
    BY <2>4 DEF BandProgram, RxQuiet, Ioctl, Probe, Reply
  <2> QED BY <2>2, <2>3, <2>4
<1>4. CASE c.verb \notin {"START", "STOP", "REPORT"}
  BY <1>4 DEF Program
<1> QED BY <1>1, <1>2, <1>3, <1>4

(* The inductive invariant: how far a START RX or STOP RX has got, as long  *)
(* as none of its ioctls was refused; once one was, nothing is claimed of   *)
(* the counter until the next START RX.                                     *)
RxProgram == IF cur.verb = "START" THEN StartRxProgram(staged) ELSE StopRxProgram
RxStarting == /\ pc \in {3, 4} => drv["RX"] = 0
              /\ pc = 4 => drv["RX_PKT_CNT"] = 0
RxStopping == /\ pc > 1 => drv["RX"] = 0
              /\ pc > 2 => drv["RX_PKT_CNT"] = 0
Counted == drv["RX"] = 1 /\ seen # -1 => drv["RX_PKT_CNT"] = seen
RxInv == /\ IsRx => prog = RxProgram
         /\ IsRx /\ failed => seen = -1
         /\ IsRx /\ ~failed => IF cur.verb = "START" THEN RxStarting ELSE RxStopping
         /\ ~IsRx => \A i \in 1..Len(prog) : RxQuiet(prog[i])
         /\ Counted

LEMMA RxInit == Init => RxInv
BY DEF Init, RxInv, IsRx, NoCmd, Cmd, Counted

LEMMA RxReceive ==
    ASSUME TypeInv, RxInv, Receive
    PROVE  RxInv'
<1> DEFINE c == Head(inq)
<1>1. /\ c \in Commands /\ staged \in [Keys -> Int]
      /\ cur' = c /\ prog' = Program(c, staged) /\ pc' = 1 /\ failed' = FALSE
  BY DEF TypeInv, TypeOK, Receive
<1>2. Counted'
  BY DEF Receive, runVars, RxInv, Counted
<1>3. CASE c.verb = "START" /\ c.arg = "RX"
  <2>1. prog' = StartRxProgram(staged) /\ staged' = staged
    BY <1>1, <1>3 DEF Receive, Program, Programs, StartProgram
  <2> QED BY <1>1, <1>2, <1>3, <2>1 DEF RxInv, IsRx, RxProgram, RxStarting
<1>4. CASE c.verb = "STOP" /\ c.arg = "RX"
  <2>1. prog' = StopRxProgram
    BY <1>1, <1>4 DEF Receive, Program, Programs, StopProgram
  <2> QED BY <1>1, <1>2, <1>4, <2>1 DEF RxInv, IsRx, RxProgram, RxStopping
<1>5. CASE ~(c.verb \in {"START", "STOP"} /\ c.arg = "RX")
  <2>1. ~IsRx' /\ \A i \in 1..Len(prog') : RxQuiet(prog'[i])
    BY <1>1, <1>5, OtherProgramsQuiet DEF IsRx
  <2> QED BY <1>2, <2>1 DEF RxInv, RxQuiet
<1> QED BY <1>3, <1>4, <1>5

LEMMA RxIoctl ==
    ASSUME TypeInv, RxInv, NEW ok \in BOOLEAN, DoIoctl(ok)
    PROVE  RxInv'
<1> DEFINE e == prog[pc]
<1>1. /\ pc \in 1..Len(prog) /\ e.arg \in Reqs /\ e.op = "ioctl"
      /\ drv \in [Reqs -> Int] /\ {"RX", "RX_PKT_CNT", "CHANNEL"} \subseteq Reqs
  BY CurrentStep DEF DoIoctl, TypeInv, TypeOK, Reqs, Keys
<1>2. pc' = pc + 1 /\ cur' = cur /\ prog' = prog /\ staged' = staged /\ IsRx' = IsRx
  BY DEF DoIoctl, IsRx
<1>3. CASE IsRx /\ (ok = FALSE \/ failed = TRUE)
  <2>1. failed' = TRUE /\ seen' = -1
    BY <1>3, Zenon DEF DoIoctl, Record, RxInv
  <2> QED BY <1>2, <1>3, <2>1 DEF RxInv, RxProgram, Counted
<1>4. CASE IsRx /\ ok = TRUE /\ failed = FALSE
  <2>1. /\ failed' = FALSE /\ drv' = [drv EXCEPT ![e.arg] = e.val]
        /\ seen' = IF e.arg = "RX" /\ e.val = 1 THEN 0 ELSE seen
    BY <1>4 DEF DoIoctl, Record
  <2>2. prog = RxProgram /\ prog' = RxProgram'
    BY <1>2, <1>4 DEF RxInv, RxProgram
  <2>3. CASE cur.verb = "START"
    <3>1. RxStarting /\ Counted
      BY <1>4, <2>3 DEF RxInv
    <3>2. /\ Len(prog) = 4 /\ prog[1].arg = "CHANNEL"
          /\ prog[2] = Ioctl("RX", 0) /\ prog[3] = Ioctl("RX_PKT_CNT", 0)
          /\ prog[4] = Ioctl("RX", 1)
      BY <2>2, <2>3 DEF RxProgram, StartRxProgram, Ioctl
    <3>3. RxStarting' /\ Counted'
      <4>1. CASE pc = 1
        BY <1>1, <1>2, <2>1, <3>1, <3>2, <4>1 DEF RxStarting, Counted
      <4>2. CASE pc = 2
        BY <1>1, <1>2, <2>1, <3>1, <3>2, <4>2 DEF RxStarting, Counted, Ioctl
      <4>3. CASE pc = 3
        BY <1>1, <1>2, <2>1, <3>1, <3>2, <4>3 DEF RxStarting, Counted, Ioctl
      <4>4. CASE pc = 4
        BY <1>1, <1>2, <2>1, <3>1, <3>2, <4>4 DEF RxStarting, Counted, Ioctl
      <4> QED BY <1>1, <3>2, <4>1, <4>2, <4>3, <4>4
    <3> QED BY <1>2, <1>4, <2>1, <2>2, <2>3, <3>3 DEF RxInv
  <2>4. CASE cur.verb # "START"
    <3>1. RxStopping /\ Counted
      BY <1>4, <2>4 DEF RxInv
    <3>2. /\ Len(prog) = 2 /\ prog[1] = Ioctl("RX", 0)
          /\ prog[2] = Ioctl("RX_PKT_CNT", 0)
      BY <2>2, <2>4 DEF RxProgram, StopRxProgram
    <3>3. RxStopping' /\ Counted'
      <4>1. CASE pc = 1
        BY <1>1, <1>2, <2>1, <3>1, <3>2, <4>1 DEF RxStopping, Counted, Ioctl
      <4>2. CASE pc = 2
        BY <1>1, <1>2, <2>1, <3>1, <3>2, <4>2 DEF RxStopping, Counted, Ioctl
      <4> QED BY <1>1, <3>2, <4>1, <4>2
    <3> QED BY <1>2, <1>4, <2>1, <2>2, <2>4, <3>3 DEF RxInv
  <2> QED BY <2>3, <2>4
<1>5. CASE ~IsRx
  <2>1. seen' = seen /\ e.arg \notin {"RX", "RX_PKT_CNT"}
    BY <1>1, <1>5 DEF DoIoctl, Record, RxInv, RxQuiet
  <2>2. drv'["RX"] = drv["RX"] /\ drv'["RX_PKT_CNT"] = drv["RX_PKT_CNT"]
    BY <1>1, <2>1 DEF DoIoctl
  <2> QED BY <1>2, <1>5, <2>1, <2>2 DEF RxInv, Counted
<1>6. failed \in {TRUE, FALSE} /\ ok \in {TRUE, FALSE}
  BY Zenon DEF TypeInv, TypeOK
<1> QED BY <1>3, <1>4, <1>5, <1>6, Zenon

LEMMA RxNext == TypeInv /\ RxInv /\ [Next]_vars => RxInv'
<1> SUFFICES ASSUME TypeInv, RxInv, [Next]_vars PROVE RxInv'
  OBVIOUS
<1> USE DEF runVars
<1>1. ASSUME cur' = NoCmd, prog' = <<>>, UNCHANGED <<drv, seen>>
      PROVE  RxInv'
  <2>1. ~IsRx'
    BY <1>1 DEF IsRx, NoCmd, Cmd
  <2> QED BY <1>1, <2>1 DEF RxInv, Counted
<1>2. ASSUME NEW c \in Used, Send(c) PROVE RxInv'
  BY <1>2 DEF Send, RxInv, Counted, IsRx, RxProgram, RxStarting, RxStopping
<1>3. CASE Receive
  BY <1>3, RxReceive
<1>4. ASSUME NEW ok \in BOOLEAN, DoIoctl(ok) PROVE RxInv'
  BY <1>4, RxIoctl
<1>5. ASSUME NEW ok \in BOOLEAN, DoProbe(ok) PROVE RxInv'
  <2>1. ~IsRx /\ ~IsRx' /\ drv \in [Reqs -> Int]
    BY <1>5, CurrentStep DEF DoProbe, IsRx, TypeInv, TypeOK
  <2>2. seen' = seen
    BY <1>5, <2>1 DEF DoProbe, Record
  <2>3. drv' = drv \/ drv' = [drv EXCEPT !["CHANNEL"] = ProbeChannel]
    BY <1>5 DEF DoProbe
  <2>4. drv'["RX"] = drv["RX"] /\ drv'["RX_PKT_CNT"] = drv["RX_PKT_CNT"]
    BY <2>1, <2>3 DEF Reqs
  <2>5. \A i \in 1..Len(prog') : RxQuiet(prog'[i])
    <3>1. prog' = prog \/ prog' = <<Reply("BAND", prog[pc].val)>>
      BY <1>5 DEF DoProbe
    <3> QED BY <2>1, <3>1 DEF RxInv, RxQuiet, Reply
  <2> QED BY <2>1, <2>2, <2>4, <2>5 DEF RxInv, Counted
<1>6. ASSUME NEW ok \in BOOLEAN, DoGet(ok) PROVE RxInv'
  <2>1. ~IsRx'
    BY <1>6, CurrentStep DEF DoGet, IsRx
  <2>2. \A i \in 1..Len(prog') : RxQuiet(prog'[i])
    BY <1>6 DEF DoGet, RxQuiet, Reply
  <2> QED BY <1>6, <2>1, <2>2 DEF DoGet, RxInv, Counted
<1>7. CASE DoReply
  <2>1. ~IsRx /\ ~IsRx'
    BY <1>7, CurrentStep DEF DoReply, IsRx
  <2> QED BY <1>7, <2>1 DEF DoReply, RxInv, Counted
<1>8. CASE RxPacket
  <2>1. /\ drv["RX"] = 1 /\ drv'["RX"] = 1
        /\ drv'["RX_PKT_CNT"] = drv["RX_PKT_CNT"] + 1
        /\ seen' = (IF seen = -1 THEN -1 ELSE seen + 1)
    BY <1>8 DEF RxPacket, TypeInv, TypeOK, Reqs
  <2>2. seen \in Int /\ drv["RX_PKT_CNT"] \in Int
    BY DEF TypeInv, TypeOK, Reqs
  <2>3. Counted'
    BY <2>1, <2>2 DEF RxInv, Counted
  <2>4. /\ UNCHANGED <<cur, prog, pc, staged, failed>> /\ IsRx' = IsRx
        /\ RxProgram' = RxProgram
    BY <1>8 DEF RxPacket, procVars, IsRx, RxProgram
  <2>5. CASE IsRx /\ failed
    BY <2>1, <2>3, <2>4, <2>5 DEF RxInv
  <2>6. CASE IsRx /\ ~failed
    <3>1. CASE cur.verb = "START"
      <4>1. pc \notin {3, 4}
        BY <2>1, <2>6, <3>1 DEF RxInv, RxStarting
      <4> QED BY <2>3, <2>4, <2>6, <3>1, <4>1 DEF RxInv, RxStarting
    <3>2. CASE cur.verb # "START"
      <4>1. ~(pc > 1) /\ ~(pc > 2)
        BY <2>1, <2>6, <3>2 DEF RxInv, RxStopping, TypeInv, TypeOK
      <4> QED BY <2>3, <2>4, <2>6, <3>2, <4>1 DEF RxInv, RxStopping
    <3> QED BY <3>1, <3>2
  <2>7. CASE ~IsRx
    BY <2>3, <2>4, <2>7 DEF RxInv
  <2> QED BY <2>5, <2>6, <2>7
<1>9. CASE UNCHANGED vars
  BY <1>9 DEF vars, RxInv, Counted, IsRx, RxProgram, RxStarting, RxStopping
<1>10. ASSUME Gone \/ Spawn PROVE RxInv'
  BY <1>1, <1>10 DEF Gone, Spawn
<1> QED BY <1>2, <1>3, <1>4, <1>5, <1>6, <1>7, <1>8, <1>9, <1>10
        DEF Next, Work, ReceiveFails, Kill, DoExit

LEMMA RxIsFresh == TypeInv /\ RxInv => RxCountIsFresh
<1> SUFFICES ASSUME TypeInv, RxInv, cur = Cmd("STOP", "RX", 0), Idle, ~failed
             PROVE  drv["RX_PKT_CNT"] = 0
  BY DEF RxInv, Counted, RxCountIsFresh
<1>1. IsRx /\ cur.verb = "STOP" /\ prog = StopRxProgram
  BY DEF IsRx, Cmd, RxInv, RxProgram
<1>2. pc > 2
  BY <1>1 DEF Idle, StopRxProgram
<1> QED BY <1>1, <1>2 DEF RxInv, RxStopping

(* For every set of commands, of refusable requests and every bound on the  *)
(* packets: the counter holds the packets of the reception that is on, and  *)
(* nothing once it was stopped (WifiFtmTest::startRx, stopRx).              *)
THEOREM ReceptionCountedFromStart == Spec => []RxCountIsFresh
<1>1. TypeInv /\ RxInv => RxCountIsFresh
  BY RxIsFresh
<1>2. Init => RxInv
  BY RxInit
<1>3. TypeInv /\ RxInv /\ [Next]_vars => RxInv'
  BY RxNext
<1> QED BY <1>1, <1>2, <1>3, TypeInvariant, PTL DEF Spec

-----------------------------------------------------------------------------
(* reportBand.  The search goes on over the bands as long as the driver     *)
(* refuses the channel; once it accepts, the answer is all that is left.    *)
BandReply(b) == [kind |-> "BAND", val |-> b, tag |-> cur.val]
Searching == /\ prog = BandProgram /\ pc \in 1..6
             /\ pc > 2 => failed
             /\ pc = 6 => reply = BandReply(0)
Tuned == \E b \in {1, 2} : /\ prog = <<Reply("BAND", b)>> /\ pc \in {1, 2}
                           /\ drv["CHANNEL"] = ProbeChannel
                           /\ pc = 2 => reply = BandReply(b)
BandInv == cur.verb = "REPORT" /\ cur.arg = "BAND" => Searching \/ Tuned

LEMMA BandProgramShape ==
    /\ Len(BandProgram) = 5
    /\ BandProgram[1] = Ioctl("CB", 10) /\ BandProgram[2] = Probe(2)
    /\ BandProgram[3] = Ioctl("CB", 1) /\ BandProgram[4] = Probe(1)
    /\ BandProgram[5] = Reply("BAND", 0)
BY DEF BandProgram

LEMMA BandInit == Init => BandInv
BY DEF Init, BandInv, NoCmd, Cmd

LEMMA BandNext == TypeInv /\ BandInv /\ [Next]_vars => BandInv'
<1> SUFFICES ASSUME TypeInv, BandInv, [Next]_vars,
                    cur'.verb = "REPORT", cur'.arg = "BAND"
             PROVE  Searching' \/ Tuned'
  BY DEF BandInv
<1> USE DEF runVars
<1>0. /\ drv \in [Reqs -> Int] /\ {"CHANNEL", "CB", "RX_PKT_CNT"} \subseteq Reqs
      /\ pc \in Nat
  BY DEF TypeInv, TypeOK, Reqs, Keys
<1>1. ASSUME cur' = cur PROVE Searching \/ Tuned
  BY <1>1 DEF BandInv
<1>2. ASSUME UNCHANGED <<cur, prog, pc, failed, reply>>, drv'["CHANNEL"] = drv["CHANNEL"]
      PROVE  Searching' \/ Tuned'
  BY <1>1, <1>2 DEF Searching, Tuned, BandReply
<1>3. CASE Receive
  <2>1. prog' = Program(Head(inq), staged) /\ cur' = Head(inq) /\ pc' = 1
    BY <1>3 DEF Receive
  <2>2. prog' = BandProgram
    BY <2>1 DEF Program, Programs, ReportProgram
  <2> QED BY <2>1, <2>2 DEF Searching
<1>4. ASSUME NEW ok \in BOOLEAN, DoIoctl(ok) PROVE Searching' \/ Tuned'
  <2>1. /\ cur' = cur /\ prog' = prog /\ pc' = pc + 1 /\ reply' = reply
        /\ ~Idle /\ prog[pc].op = "ioctl"
        /\ failed => failed'
    BY <1>4, Zenon DEF DoIoctl, Record
  <2>2. CASE Searching
    <3>1. pc \in {1, 3}
      BY <2>1, <2>2, BandProgramShape DEF Searching, Idle, Ioctl, Probe, Reply
    <3> QED BY <2>1, <2>2, <3>1 DEF Searching
  <2>3. CASE Tuned
    BY <2>1, <2>3 DEF Tuned, Idle, Reply
  <2> QED BY <1>1, <2>1, <2>2, <2>3
<1>5. ASSUME NEW ok \in BOOLEAN, DoProbe(ok) PROVE Searching' \/ Tuned'
  <2>1. /\ cur' = cur /\ reply' = reply /\ ~Idle /\ prog[pc].op = "probe"
        /\ Record(ok, "CHANNEL", ProbeChannel)
    BY <1>5 DEF DoProbe
  <2>2. CASE ok = TRUE
    <3>1. prog[pc].val \in {1, 2}
      BY <2>1, CurrentStep
    <3>2. /\ prog' = <<Reply("BAND", prog[pc].val)>> /\ pc' = 1
          /\ drv'["CHANNEL"] = ProbeChannel
      BY <1>0, <1>5, <2>2 DEF DoProbe
    <3> QED BY <3>1, <3>2 DEF Tuned
  <2>3. CASE ok = FALSE
    <3>1. prog' = prog /\ pc' = pc + 1 /\ failed' = TRUE
      BY <1>5, <2>3 DEF DoProbe, Record
    <3>2. CASE Searching
      <4>1. pc \in {2, 4}
        BY <2>1, <3>2, BandProgramShape DEF Searching, Idle, Ioctl, Probe, Reply
      <4> QED BY <3>1, <3>2, <4>1 DEF Searching
    <3>3. CASE Tuned
      BY <2>1, <3>3 DEF Tuned, Idle, Reply
    <3> QED BY <1>1, <2>1, <3>2, <3>3
  <2> QED BY <2>2, <2>3
<1>6. ASSUME NEW ok \in BOOLEAN, DoGet(ok) PROVE Searching' \/ Tuned'
  <2>1. cur' = cur /\ ~Idle /\ prog[pc].op = "get"
    BY <1>6 DEF DoGet
  <2>2. ~Searching
    BY <2>1, BandProgramShape DEF Searching, Idle, Ioctl, Probe, Reply
  <2>3. ~Tuned
    BY <2>1 DEF Tuned, Idle, Reply
  <2> QED BY <1>1, <2>1, <2>2, <2>3
<1>7. CASE DoReply
  <2>1. /\ UNCHANGED <<cur, prog, drv, failed>> /\ pc' = pc + 1
        /\ ~Idle /\ prog[pc].op = "reply"
        /\ reply' = [kind |-> prog[pc].arg, val |-> prog[pc].val, tag |-> cur.val]
    BY <1>7 DEF DoReply
  <2>2. CASE Searching
    <3>1. pc = 5
      BY <2>1, <2>2, BandProgramShape DEF Searching, Idle, Ioctl, Probe, Reply
    <3>2. reply' = BandReply(0)'
      BY <2>1, <2>2, <3>1, BandProgramShape DEF Searching, BandReply, Reply
    <3> QED BY <2>1, <2>2, <3>1, <3>2 DEF Searching
  <2>3. CASE Tuned
    <3>1. PICK b \in {1, 2} : prog = <<Reply("BAND", b)>> /\ drv["CHANNEL"] = ProbeChannel
      BY <2>3 DEF Tuned
    <3>2. pc = 1
      BY <2>1, <2>3 DEF Tuned, Idle
    <3>3. reply' = BandReply(b)'
      BY <2>1, <3>1, <3>2 DEF BandReply, Reply
    <3> QED BY <2>1, <3>1, <3>2, <3>3 DEF Tuned
  <2> QED BY <1>1, <2>1, <2>2, <2>3
<1>8. CASE RxPacket
  BY <1>0, <1>2, <1>8 DEF RxPacket, procVars
<1>9. ASSUME NEW c \in Used, Send(c) PROVE Searching' \/ Tuned'
  BY <1>2, <1>9 DEF Send
<1>10. CASE UNCHANGED vars
  BY <1>2, <1>10 DEF vars
<1>11. ASSUME Gone \/ Spawn PROVE FALSE
  BY <1>11 DEF Gone, Spawn, NoCmd, Cmd
<1> QED BY <1>3, <1>4, <1>5, <1>6, <1>7, <1>8, <1>9, <1>10, <1>11
        DEF Next, Work, ReceiveFails, Kill, DoExit

LEMMA BandTold == TypeInv /\ BandInv => BandAnswerTellsTuning
<1> SUFFICES ASSUME BandInv, cur.verb = "REPORT", cur.arg = "BAND", Idle
             PROVE  /\ reply.kind = "BAND" /\ reply.tag = cur.val
                    /\ reply.val > 0 => drv["CHANNEL"] = ProbeChannel
                    /\ reply.val = 0 => failed
  BY DEF BandAnswerTellsTuning
<1>1. CASE Searching
  <2>1. pc = 6
    BY <1>1, BandProgramShape DEF Searching, Idle
  <2> QED BY <1>1, <2>1 DEF Searching, BandReply
<1>2. CASE Tuned
  BY <1>2 DEF Tuned, Idle, BandReply
<1> QED BY <1>1, <1>2 DEF BandInv

(* For every set of refusable requests and whatever the radio and init do   *)
(* meanwhile: a band above 2G is answered only with the radio left on the   *)
(* channel that proved it, 2G only when no probe was accepted, and the      *)
(* answer carries its request's number (WifiFtmTest::reportBand).           *)
THEOREM BandAnswerIsTrue == Spec => []BandAnswerTellsTuning
<1>1. TypeInv /\ BandInv => BandAnswerTellsTuning
  BY BandTold
<1>2. Init => BandInv
  BY BandInit
<1>3. TypeInv /\ BandInv /\ [Next]_vars => BandInv'
  BY BandNext
<1> QED BY <1>1, <1>2, <1>3, TypeInvariant, PTL DEF Spec


-----------------------------------------------------------------------------
(* The composed system.                                                     *)


(* What a call is about to send is a command clients send. *)
MsgInv == cpc \in {"poll", "socket", "connect", "send"} => msg \in Used

LEMMA MsgInit == SysInit => MsgInv
BY DEF SysInit, MsgInv

LEMMA MsgNext == MsgInv /\ [SysNext]_sysVars => MsgInv'
<1> SUFFICES ASSUME MsgInv, [SysNext]_sysVars PROVE MsgInv'
  OBVIOUS
<1> USE DEF MsgInv, clientVars, Goto, Return
<1>1. CASE StartTest
  BY <1>1, SessionAssumption DEF StartTest
<1>2. CASE StopTest
  BY <1>2, SessionAssumption DEF StopTest
<1>3. ASSUME NEW c \in Used, Command(c) PROVE MsgInv'
  BY <1>3 DEF Command
<1>4. ASSUME NEW a \in {"RX", "BAND"}, Report(a) PROVE MsgInv'
  BY <1>4 DEF Report
<1>5. CASE PollService \/ OpenSocket \/ Connect
  BY <1>5 DEF PollService, OpenSocket, Connect
<1>6. ASSUME NEW r \in {0, -1}, AfterSend(r) PROVE MsgInv'
  BY <1>6 DEF AfterSend
<1>7. CASE SendOk \/ SendElsewhere
  BY <1>6, <1>7 DEF SendOk, SendElsewhere
<1>8. CASE Await \/ CloseSocket \/ StopService
  BY <1>8 DEF Await, CloseSocket, StopService
<1>9. CASE OtherOpens \/ OtherCloses \/ Daemon \/ Service
  BY <1>9 DEF OtherOpens, OtherCloses, Daemon, Service, HandleStart, HandleStop, Reap, Restart
<1>10. CASE UNCHANGED sysVars
  BY <1>10 DEF sysVars
<1> QED BY <1>1, <1>2, <1>3, <1>4, <1>5, <1>7, <1>8, <1>9, <1>10 DEF SysNext, Client

(* Every step of the system is a step of the daemon or leaves it alone.     *)
LEMMA StepSimulation == MsgInv /\ [SysNext]_sysVars => [Next]_vars
<1> SUFFICES ASSUME MsgInv, [SysNext]_sysVars PROVE [Next]_vars
  OBVIOUS
<1>1. CASE StartTest \/ StopTest \/ PollService \/ OpenSocket \/ Connect
  BY <1>1 DEF StartTest, StopTest, PollService, OpenSocket, Connect
<1>2. ASSUME NEW c \in Used, Command(c) PROVE UNCHANGED vars
  BY <1>2 DEF Command
<1>3. ASSUME NEW a \in {"RX", "BAND"}, Report(a) PROVE UNCHANGED vars
  BY <1>3 DEF Report
<1>4. CASE SendOk
  BY <1>4 DEF SendOk, MsgInv, Next
<1>5. CASE SendElsewhere \/ Await \/ CloseSocket \/ StopService
  BY <1>5 DEF SendElsewhere, Await, CloseSocket, StopService
<1>6. CASE OtherOpens \/ OtherCloses
  BY <1>6 DEF OtherOpens, OtherCloses
<1>7. CASE Daemon
  BY <1>7 DEF Daemon, Next
<1>8. CASE Service
  BY <1>8 DEF Service, HandleStart, HandleStop, Reap, Restart, Next
<1>9. CASE UNCHANGED sysVars
  BY <1>9 DEF sysVars
<1> QED BY <1>1, <1>2, <1>3, <1>4, <1>5, <1>6, <1>7, <1>8, <1>9 DEF SysNext, Client

(* The composition of client library, init and daemon is one of the         *)
(* environments FtmDaemon allows its daemon.                                *)
THEOREM SystemImplementsDaemon == SysSpec => DaemonSpec
<1>1. SysInit => MsgInv /\ Init
  BY MsgInit DEF SysInit
<1>2. MsgInv /\ [SysNext]_sysVars => MsgInv'
  BY MsgNext
<1>3. MsgInv /\ [SysNext]_sysVars => [Next]_vars
  BY StepSimulation
<1> QED BY <1>1, <1>2, <1>3, PTL DEF SysSpec, DaemonSpec

(* In the deployed stack, too, a transmission keeps its settings.           *)
THEOREM SystemKeepsSettings == SysSpec => []TransmissionAsStaged
<1>1. TxInv => TransmissionAsStaged
  BY DEF TxInv, OnAir, TransmissionAsStaged
<1>2. Init => TypeInv /\ TxInv
  BY TypeInit, TxInit
<1>3. TypeInv /\ TxInv /\ [Next]_vars => TypeInv' /\ TxInv'
  BY TypeNext, TxNext
<1> QED BY <1>1, <1>2, <1>3, SystemImplementsDaemon, PTL DEF DaemonSpec

(* And so are receptions counted from their start, and bands told truly.    *)
THEOREM SystemReportsTruly == SysSpec => [](RxCountIsFresh /\ BandAnswerTellsTuning)
<1>1. TypeInv /\ RxInv /\ BandInv => RxCountIsFresh /\ BandAnswerTellsTuning
  BY RxIsFresh, BandTold
<1>2. Init => TypeInv /\ RxInv /\ BandInv
  BY TypeInit, RxInit, BandInit
<1>3. TypeInv /\ RxInv /\ BandInv /\ [Next]_vars => TypeInv' /\ RxInv' /\ BandInv'
  BY TypeNext, RxNext, BandNext
<1> QED BY <1>1, <1>2, <1>3, SystemImplementsDaemon, PTL DEF DaemonSpec

-----------------------------------------------------------------------------
(* Types of the whole stack, and whose descriptor ctrl_socket is.           *)
LEMMA LowestIsMember ==
    ASSUME NEW S \in SUBSET Fds, S # {}
    PROVE  Lowest(S) \in S
<1>1. S \subseteq Nat
  BY FdsAssumption
<1>2. PICK f \in S : \A g \in S : <<g, f>> \notin OpToRel(<, Nat)
  BY <1>1, NatLessThanWellFounded, WFMin
<1>3. ASSUME NEW g \in S PROVE f <= g
  <2>1. f \in Nat /\ g \in Nat /\ ~(g < f)
    BY <1>1, <1>2 DEF OpToRel
  <2> QED BY <2>1
<1> QED BY <1>3 DEF Lowest

(* The library's own socket, and the type of everything the client, init    *)
(* and the other threads write.                                             *)
OwnSocket == /\ cpc = "connect" => sock # -1
             /\ owned => sock # -1 /\ fd[sock] \in {"live", "dead"}
ClientTypes == /\ svc \in {"stopped", "running", "restarting"}
               /\ ctl \in Seq({"start", "stop"})
               /\ sock \in Fds \cup {-1}
               /\ fd \in [Fds -> {"free", "other", "dead", "live"}]
               /\ cpc \in Places /\ call \in Calls
               /\ msg \in Commands \cup {NoCmd}
               /\ ret \in {0, -1} /\ serial \in Nat
               /\ got \in [kind : {"NONE", "RX", "BAND"}, val : Int, tag : Nat]
Flags == load \in BOOLEAN /\ {excuse, owned, late, cut} \subseteq BOOLEAN
SysInv == TypeInv /\ MsgInv /\ ClientTypes /\ Flags /\ OwnSocket

LEMMA SysInitInv == SysInit => SysInv
<1> SUFFICES ASSUME SysInit PROVE SysInv
  OBVIOUS
<1>1. TypeInv /\ MsgInv
  BY TypeInit, MsgInit DEF SysInit
<1>2. ClientTypes
  BY DEF SysInit, ClientTypes, NoReply, Places, Calls
<1>3. Flags
  BY Zenon DEF SysInit, Flags
<1> QED BY <1>1, <1>2, <1>3 DEF SysInv, SysInit, OwnSocket

LEMMA PeersFollowKeeps ==
    ASSUME ClientTypes, PeersFollow
    PROVE  /\ fd' \in [Fds -> {"free", "other", "dead", "live"}]
           /\ \A f \in Fds : fd[f] \in {"live", "dead"} => fd'[f] \in {"live", "dead"}
BY DEF ClientTypes, PeersFollow

LEMMA AfterSendTypes ==
    ASSUME ClientTypes, NEW r \in {0, -1}, AfterSend(r)
    PROVE  cpc' \in {"idle", "close", "await"} /\ ret' \in {0, -1}
BY DEF ClientTypes, AfterSend, Goto, Return

LEMMA LowestIsFree == FreeFds # {} => Lowest(FreeFds) \in FreeFds
<1>1. FreeFds \in SUBSET Fds
  BY DEF FreeFds
<1> QED BY <1>1, LowestIsMember

LEMMA OpenSocketTypes == ASSUME ClientTypes, OpenSocket PROVE ClientTypes'
<1>1. /\ sock' \in Fds \cup {-1} /\ cpc' \in Places
      /\ fd' \in [Fds -> {"free", "other", "dead", "live"}]
  <2>1. CASE FreeFds # {}
    <3>1. Lowest(FreeFds) \in Fds
      BY <2>1, LowestIsFree DEF FreeFds
    <3> QED BY <2>1, <3>1 DEF OpenSocket, ClientTypes, Goto, Places
  <2>2. CASE FreeFds = {}
    BY <2>2 DEF OpenSocket, ClientTypes, Goto, Places
  <2> QED BY <2>1, <2>2
<1>2. ctl' \in Seq({"start", "stop"})
  BY DEF OpenSocket, ClientTypes, PropertySet
<1>3. UNCHANGED <<svc, call, msg, ret, serial, got>>
  BY DEF OpenSocket
<1> QED BY <1>1, <1>2, <1>3 DEF ClientTypes

LEMMA ClientTypesNext == SysInv /\ [SysNext]_sysVars => ClientTypes'
<1> SUFFICES ASSUME SysInv, [SysNext]_sysVars PROVE ClientTypes'
  OBVIOUS
<1> USE DEF SysInv, ClientTypes, clientVars, initVars, Goto, Return, PropertySet,
            Places, Calls
<1>1. CASE StartTest
  BY <1>1, SessionAssumption, UsedAssumption DEF StartTest
<1>2. CASE StopTest
  BY <1>2, SessionAssumption, UsedAssumption DEF StopTest
<1>3. ASSUME NEW c \in Used, Command(c) PROVE ClientTypes'
  BY <1>3, UsedAssumption DEF Command
<1>4. ASSUME NEW a \in {"RX", "BAND"}, Report(a) PROVE ClientTypes'
  BY <1>4, UsedAssumption DEF Report
<1>5. CASE PollService
  BY <1>5 DEF PollService
<1>6. CASE OpenSocket
  BY <1>6, OpenSocketTypes
<1>7. CASE Connect
  <2>1. fd' \in [Fds -> {"free", "other", "dead", "live"}]
    BY <1>7 DEF Connect
  <2>2. ctl' \in Seq({"start", "stop"})
    BY <1>7 DEF Connect
  <2>3. /\ cpc' = "send"
        /\ UNCHANGED <<svc, sock, call, msg, ret, serial, got>>
    BY <1>7 DEF Connect
  <2> QED BY <2>1, <2>2, <2>3
<1>8. CASE SendOk \/ SendElsewhere
  <2>1. PICK r \in {0, -1} : AfterSend(r)
    BY <1>8 DEF SendOk, SendElsewhere
  <2>2. cpc' \in {"idle", "close", "await"} /\ ret' \in {0, -1}
    BY <2>1, AfterSendTypes
  <2> QED BY <2>1, <2>2 DEF AfterSend
<1>10. CASE Await
  <2>1. reply \in [kind : {"NONE", "RX", "BAND"}, val : Int, tag : Nat]
    BY DEF TypeInv, TypeOK
  <2> QED BY <1>10, <2>1 DEF Await
<1>11. CASE CloseSocket \/ StopService
  <2>1. CASE CloseSocket
    BY <2>1 DEF CloseSocket
  <2>2. CASE StopService
    BY <2>2 DEF StopService
  <2> QED BY <1>11, <2>1, <2>2
<1>12. CASE OtherOpens \/ OtherCloses
  BY <1>12 DEF OtherOpens, OtherCloses
<1>13. CASE Daemon
  <2>1. fd' \in [Fds -> {"free", "other", "dead", "live"}]
    BY <1>13, PeersFollowKeeps DEF Daemon
  <2> QED BY <1>13, <2>1 DEF Daemon
<1>14. CASE HandleStart \/ Reap \/ Restart
  <2>1. svc' \in {"stopped", "running", "restarting"}
    BY <1>14 DEF HandleStart, Reap, Restart
  <2>3. ctl' = ctl \/ (ctl # <<>> /\ ctl' = Tail(ctl))
    BY <1>14 DEF HandleStart, Reap, Restart
  <2>4. ctl' \in Seq({"start", "stop"})
    BY <2>3, HeadTailProperties
  <2>2. UNCHANGED <<fd, clientVars>>
    BY <1>14 DEF HandleStart, Reap, Restart
  <2> QED BY <2>1, <2>2, <2>4
<1>15. CASE HandleStop
  BY <1>15, PeersFollowKeeps DEF HandleStop
<1>16. CASE UNCHANGED sysVars
  BY <1>16 DEF sysVars
<1> QED BY <1>1, <1>2, <1>3, <1>4, <1>5, <1>6, <1>7, <1>8, <1>10, <1>11,
           <1>12, <1>13, <1>14, <1>15, <1>16 DEF SysNext, Client, Service

LEMMA FlagsNext == SysInv /\ [SysNext]_sysVars => Flags'
<1> SUFFICES ASSUME SysInv, [SysNext]_sysVars PROVE Flags'
  OBVIOUS
<1> USE DEF SysInv, Flags, clientVars, initVars
<1>1. CASE StartTest \/ StopTest \/ PollService
  BY <1>1, Zenon DEF StartTest, StopTest, PollService
<1>2. ASSUME NEW c \in Used, Command(c) PROVE Flags'
  BY <1>2, Zenon DEF Command
<1>3. ASSUME NEW a \in {"RX", "BAND"}, Report(a) PROVE Flags'
  BY <1>3, Zenon DEF Report
<1>4. CASE OpenSocket \/ Connect
  BY <1>4, Zenon DEF OpenSocket, Connect
<1>5. CASE SendOk \/ SendElsewhere
  BY <1>5, Zenon DEF SendOk, SendElsewhere, AfterSend
<1>6. CASE Await \/ CloseSocket \/ StopService
  BY <1>6, Zenon DEF Await, CloseSocket, StopService
<1>7. CASE OtherOpens \/ OtherCloses
  BY <1>7, Zenon DEF OtherOpens, OtherCloses
<1>8. CASE Daemon \/ HandleStop
  BY <1>8, Zenon DEF Daemon, HandleStop
<1>9. CASE HandleStart \/ Reap \/ Restart
  BY <1>9, Zenon DEF HandleStart, Reap, Restart
<1>10. CASE UNCHANGED sysVars
  BY <1>10, Zenon DEF sysVars
<1> QED BY <1>1, <1>2, <1>3, <1>4, <1>5, <1>6, <1>7, <1>8, <1>9, <1>10, Zenon
        DEF SysNext, Client, Service

LEMMA OwnSocketNext == SysInv /\ [SysNext]_sysVars => OwnSocket'
<1> SUFFICES ASSUME SysInv, [SysNext]_sysVars PROVE OwnSocket'
  OBVIOUS
<1> USE DEF SysInv, OwnSocket, clientVars, initVars, Goto, Return
<1>0. fd \in [Fds -> {"free", "other", "dead", "live"}] /\ sock \in Fds \cup {-1}
  BY DEF ClientTypes
<1>1. CASE StartTest \/ StopTest \/ PollService
  BY <1>1 DEF StartTest, StopTest, PollService
<1>2. ASSUME NEW c \in Used, Command(c) PROVE OwnSocket'
  BY <1>2 DEF Command
<1>3. ASSUME NEW a \in {"RX", "BAND"}, Report(a) PROVE OwnSocket'
  BY <1>3 DEF Report
<1>4. CASE OpenSocket
  <2>1. CASE FreeFds # {}
    <3>1. Lowest(FreeFds) \in Fds /\ Fds \subseteq Nat
      BY <2>1, LowestIsFree, FdsAssumption DEF FreeFds
    <3> QED BY <1>4, <2>1, <3>1 DEF OpenSocket
  <2>2. CASE FreeFds = {}
    BY <1>4, <2>2 DEF OpenSocket
  <2> QED BY <2>1, <2>2
<1>5. CASE Connect
  BY <1>0, <1>5 DEF Connect
<1>6. CASE SendOk \/ SendElsewhere
  <2>1. PICK r \in {0, -1} : AfterSend(r)
    BY <1>6 DEF SendOk, SendElsewhere
  <2>2. cpc' # "connect" /\ UNCHANGED <<fd, sock, owned>>
    BY <2>1 DEF AfterSend
  <2> QED BY <2>2
<1>7. CASE Await \/ CloseSocket \/ StopService
  BY <1>7 DEF Await, CloseSocket, StopService
<1>8. CASE OtherOpens
  <2>1. Lowest(FreeFds) \in FreeFds
    BY <1>8, LowestIsFree DEF OtherOpens, FreeFds
  <2> QED BY <1>0, <1>8, <2>1 DEF OtherOpens, FreeFds
<1>9. CASE OtherCloses
  BY <1>0, <1>9 DEF OtherCloses
<1>10. CASE Daemon
  BY <1>0, <1>10, PeersFollowKeeps DEF Daemon
<1>11. CASE HandleStop
  BY <1>0, <1>11, PeersFollowKeeps DEF HandleStop
<1>12. CASE HandleStart \/ Reap \/ Restart
  BY <1>12 DEF HandleStart, Reap, Restart
<1>13. CASE UNCHANGED sysVars
  BY <1>13 DEF sysVars
<1> QED BY <1>1, <1>2, <1>3, <1>4, <1>5, <1>6, <1>7, <1>8, <1>9, <1>10, <1>11,
           <1>12, <1>13 DEF SysNext, Client, Service

LEMMA SysInvNext == SysInv /\ [SysNext]_sysVars => SysInv'
<1>1. SysInv /\ [SysNext]_sysVars => TypeInv' /\ MsgInv'
  BY StepSimulation, TypeNext, MsgNext DEF SysInv
<1> QED BY <1>1, ClientTypesNext, FlagsNext, OwnSocketNext DEF SysInv

LEMMA SysInvariant == SysSpec => []SysInv
<1>1. SysInit => SysInv
  BY SysInitInv
<1>2. SysInv /\ [SysNext]_sysVars => SysInv'
  BY SysInvNext
<1> QED BY <1>1, <1>2, PTL DEF SysSpec

(* Every variable of client, init and daemon keeps its type.                *)
THEOREM SystemTypeCorrect == SysSpec => []SysTypeOK
<1>1. SysInv => SysTypeOK
  BY DEF SysInv, TypeInv, ClientTypes, Flags, SysTypeOK
<1> QED BY <1>1, SysInvariant, PTL

(* However the threads of the application open and close descriptors: from  *)
(* a start that got its connection until the next stop, ctrl_socket is the  *)
(* number of the library's own socket (wifi_ftm_connect_ftmd,               *)
(* wifi_ftmd_stop).                                                         *)
THEOREM ConnectedSocketIsOwn == SysSpec => []HoldsOwnSocket
<1>1. SysInv => HoldsOwnSocket
  BY DEF SysInv, OwnSocket, HoldsOwnSocket, SockState
<1> QED BY <1>1, SysInvariant, PTL

-----------------------------------------------------------------------------
(* StopTest.  After a send that went through, STOP FTM is the last datagram *)
(* of the daemon's queue, or the command it is about to execute, or it has  *)
(* been executed and nothing follows it: the client sends no more.          *)
Undone == /\ up
          /\ \/ inq # <<>> /\ inq[Len(inq)] = StopFtm
             \/ /\ inq = <<>> /\ cur = StopFtm
                /\ prog = <<Ioctl("FTM", 0), Exit>> /\ pc = 1
LeftFtm == /\ drv["FTM"] = 0 /\ inq = <<>>
           /\ \/ prog = <<>>
              \/ cur = StopFtm /\ prog = <<Ioctl("FTM", 0), Exit>> /\ pc > 1
StopSent == cpc \in {"close", "unload", "idle"} /\ call = "StopTest" /\ ret = 0 /\ ~cut
StopInv == /\ cpc = "send" /\ call = "StopTest" => msg = StopFtm
           /\ cpc \in {"poll", "socket", "connect"} => call = "StartTest"
           /\ cpc = "await" => call = "report"
           /\ StopSent => Undone \/ LeftFtm

LEMMA StopFtmProgram ==
    ASSUME NEW s
    PROVE  Program(StopFtm, s) = <<Ioctl("FTM", 0), Exit>>
BY DEF StopFtm, Cmd, Program, Programs, StopProgram

(* A step of the daemon after which no cut is recorded. *)
LEMMA DaemonStops ==
    ASSUME SysInv, Daemon, Undone \/ LeftFtm, ~cut'
    PROVE  (Undone \/ LeftFtm)'
<1> DEFINE P == <<Ioctl("FTM", 0), Exit>>
<1> USE DEF runVars
<1>0. /\ drv \in [Reqs -> Int] /\ inq \in Seq(Commands) /\ pc \in Nat \ {0}
      /\ {"FTM", "CHANNEL", "RX_PKT_CNT"} \subseteq Reqs
      /\ Len(P) = 2 /\ P[1] = Ioctl("FTM", 0) /\ P[2] = Exit
  BY DEF SysInv, TypeInv, TypeOK, Reqs, Keys
<1>1. /\ ~cut
      /\ ~(failed' /\ cur' = StopFtm)
      /\ ~(up /\ ~up' /\ StopUndone)
  BY DEF Daemon
<1>2. Undone => StopUndone
  <2>1. ASSUME inq # <<>>, inq[Len(inq)] = StopFtm PROVE StopUndone
    <3>1. Len(inq) \in 1..Len(inq)
      BY <1>0, <2>1
    <3> QED BY <2>1, <3>1 DEF StopUndone
  <2>2. ASSUME cur = StopFtm, prog = P, pc = 1 PROVE StopUndone
    BY <1>0, <2>2 DEF StopUndone, Idle, Ioctl
  <2> QED BY <2>1, <2>2 DEF Undone
<1>3. ASSUME Gone, up PROVE LeftFtm'
  <2>1. LeftFtm
    BY <1>1, <1>2, <1>3 DEF Gone
  <2> QED BY <1>3, <2>1 DEF Gone, LeftFtm
<1>4. CASE Receive
  <2>1. Undone /\ inq # <<>> /\ inq[Len(inq)] = StopFtm
    BY <1>4 DEF Receive, Undone, LeftFtm
  <2>2. CASE Len(inq) = 1
    <3>1. Head(inq) = inq[1] /\ Len(Tail(inq)) = 0 /\ Tail(inq) \in Seq(Commands)
      BY <1>0, <2>1, <2>2, HeadTailProperties
    <3>2. Head(inq) = StopFtm /\ Tail(inq) = <<>>
      BY <2>1, <2>2, <3>1, EmptySeq
    <3> QED BY <1>4, <2>1, <3>2, StopFtmProgram DEF Receive, Undone
  <2>3. CASE Len(inq) # 1
    <3>0. Len(inq) \in Nat \ {0}
      BY <1>0, <2>1, EmptySeq
    <3>4. \A n \in Nat \ {0} : n # 1 => n \in Nat /\ n > 1
      OBVIOUS
    <3>1. Len(inq) \in Nat /\ Len(inq) > 1
      BY <2>3, <3>0, <3>4, Zenon
    <3>2. /\ Len(Tail(inq)) = Len(inq) - 1
          /\ \A i \in 1 .. Len(Tail(inq)) : Tail(inq)[i] = inq[i+1]
      BY <1>0, <2>1, HeadTailProperties
    <3>3. Tail(inq) # <<>> /\ Tail(inq)[Len(Tail(inq))] = StopFtm
      BY <2>1, <3>1, <3>2
    <3> QED BY <1>4, <2>1, <3>3 DEF Receive, Undone
  <2> QED BY <2>2, <2>3
<1>5. ASSUME NEW ok \in BOOLEAN, DoIoctl(ok) PROVE (Undone \/ LeftFtm)'
  <2>1. /\ up /\ ~Idle /\ prog[pc].op = "ioctl" /\ pc' = pc + 1
        /\ UNCHANGED <<up, inq, cur, prog>>
    BY <1>5 DEF DoIoctl
  <2>2. CASE inq # <<>> /\ inq[Len(inq)] = StopFtm
    BY <2>1, <2>2 DEF Undone
  <2>3. CASE inq = <<>> /\ cur = StopFtm /\ prog = P /\ pc = 1
    <3>1. ok = TRUE
      BY <1>1, <1>5, <2>1, <2>3, Zenon DEF DoIoctl, Record
    <3>2. drv'["FTM"] = 0
      BY <1>0, <1>5, <2>3, <3>1 DEF DoIoctl, Ioctl
    <3> QED BY <2>1, <2>3, <3>2 DEF LeftFtm
  <2>4. CASE LeftFtm
    BY <1>0, <2>1, <2>4 DEF LeftFtm, Idle, Exit
  <2> QED BY <2>2, <2>3, <2>4 DEF Undone
<1>6. ASSUME up, up' = up, inq' = inq, ~Idle, prog[pc].op \in {"probe", "get", "reply"}
      PROVE  (Undone \/ LeftFtm)'
  <2>1. CASE inq # <<>> /\ inq[Len(inq)] = StopFtm
    BY <1>6, <2>1 DEF Undone
  <2>2. CASE cur = StopFtm /\ prog = P
    <3>1. pc \in {1, 2}
      BY <1>0, <1>6, <2>2 DEF Idle
    <3> QED BY <1>0, <1>6, <2>2, <3>1 DEF Ioctl, Exit
  <2>3. CASE prog = <<>>
    BY <1>0, <1>6, <2>3 DEF Idle
  <2> QED BY <2>1, <2>2, <2>3 DEF Undone, LeftFtm
<1>7. ASSUME NEW ok \in BOOLEAN, DoProbe(ok) \/ DoGet(ok) PROVE (Undone \/ LeftFtm)'
  BY <1>6, <1>7 DEF DoProbe, DoGet
<1>8. CASE DoReply
  BY <1>6, <1>8 DEF DoReply
<1>9. CASE DoExit \/ ReceiveFails
  BY <1>3, <1>9 DEF DoExit, ReceiveFails
<1>10. CASE RxPacket
  <2>1. drv'["FTM"] = drv["FTM"]
    BY <1>0, <1>10 DEF RxPacket
  <2> QED BY <1>10, <2>1 DEF RxPacket, procVars, Undone, LeftFtm
<1> QED BY <1>4, <1>5, <1>7, <1>8, <1>9, <1>10 DEF Daemon, Work

LEMMA StopInit == SysInit => StopInv
BY DEF SysInit, StopInv, StopSent

LEMMA StopNext == SysInv /\ StopInv /\ [SysNext]_sysVars => StopInv'
<1> SUFFICES ASSUME SysInv, StopInv, [SysNext]_sysVars PROVE StopInv'
  OBVIOUS
<1> USE DEF clientVars, initVars, Goto, Return
<1>0. ASSUME UNCHANGED vars PROVE (Undone \/ LeftFtm)' = (Undone \/ LeftFtm)
  BY <1>0 DEF vars, Undone, LeftFtm
<1>1. CASE StartTest \/ PollService \/ OpenSocket \/ Connect
  BY <1>1 DEF StartTest, PollService, OpenSocket, Connect, StopInv, StopSent
<1>2. CASE StopTest
  BY <1>2 DEF StopTest, StopInv, StopSent
<1>3. ASSUME NEW c \in Used, Command(c) PROVE StopInv'
  BY <1>3 DEF Command, StopInv, StopSent
<1>4. ASSUME NEW a \in {"RX", "BAND"}, Report(a) PROVE StopInv'
  BY <1>4 DEF Report, StopInv, StopSent
<1>5. CASE SendOk
  <2>1. AfterSend(0) /\ Send(msg) /\ cpc = "send"
    BY <1>5 DEF SendOk
  <2>2. CASE call = "StopTest"
    <3>1. msg = StopFtm /\ inq \in Seq(Commands) /\ msg \in Commands
      BY <2>1, <2>2, UsedAssumption DEF StopInv, SysInv, TypeInv, TypeOK, MsgInv
    <3>2. up' /\ inq' = Append(inq, StopFtm)
      BY <2>1, <3>1 DEF Send
    <3>3. inq' # <<>> /\ inq'[Len(inq')] = StopFtm
      BY <3>1, <3>2
    <3>4. Undone'
      BY <3>2, <3>3 DEF Undone
    <3> QED BY <2>1, <2>2, <3>4 DEF AfterSend, StopInv
  <2>3. CASE call # "StopTest"
    BY <2>1, <2>3 DEF AfterSend, StopInv, StopSent
  <2> QED BY <2>2, <2>3
<1>6. CASE SendElsewhere
  <2>1. PICK r \in {0, -1} : AfterSend(r) /\ cpc = "send"
    BY <1>6 DEF SendElsewhere
  <2>2. CASE call = "StopTest"
    <3>1. cut' /\ call' = "StopTest" /\ cpc' = "close"
      BY <1>6, <2>1, <2>2 DEF SendElsewhere, AfterSend
    <3> QED BY <3>1 DEF StopInv, StopSent
  <2>3. CASE call # "StopTest"
    BY <2>1, <2>3 DEF AfterSend, StopInv, StopSent
  <2> QED BY <2>2, <2>3
<1>7. CASE Await
  <2>1. call' = "report" /\ cpc' = "idle"
    BY <1>7 DEF Await, StopInv
  <2> QED BY <2>1 DEF StopInv, StopSent
<1>8. CASE CloseSocket \/ StopService
  <2>1. /\ UNCHANGED <<vars, call, ret, cut>> /\ cpc \in {"close", "unload"}
        /\ cpc' \in {"unload", "idle"}
    BY <1>8 DEF CloseSocket, StopService
  <2> QED BY <1>0, <2>1 DEF StopInv, StopSent
<1>9. CASE OtherOpens \/ OtherCloses \/ Reap
  <2>1. UNCHANGED <<vars, cpc, call, msg, ret, cut>>
    BY <1>9 DEF OtherOpens, OtherCloses, Reap
  <2> QED BY <1>0, <2>1 DEF StopInv, StopSent
<1>10. CASE Daemon
  <2>1. UNCHANGED <<cpc, call, msg, ret>> /\ (cut => cut')
    BY <1>10 DEF Daemon
  <2>2. StopSent' => StopSent /\ ~cut'
    BY <2>1 DEF StopSent
  <2> QED BY <1>10, <2>1, <2>2, DaemonStops DEF StopInv
<1>11. CASE HandleStart \/ Restart
  <2>1. UNCHANGED <<cpc, call, msg, ret, cut>> /\ (UNCHANGED vars \/ Spawn)
    BY <1>11 DEF HandleStart, Restart
  <2>2. CASE Spawn
    BY <2>1, <2>2 DEF Spawn, StopInv, StopSent, Undone, LeftFtm
  <2> QED BY <1>0, <2>1, <2>2 DEF StopInv, StopSent
<1>12. CASE HandleStop
  <2>1. /\ UNCHANGED <<cpc, call, msg, ret>> /\ (cut => cut')
        /\ up /\ StopUndone => cut'
    BY <1>12 DEF HandleStop
  <2>2. CASE UNCHANGED vars
    BY <1>0, <2>1, <2>2 DEF StopInv, StopSent
  <2>3. CASE up /\ Kill
    <3>1. ASSUME StopSent' PROVE LeftFtm
      <4>1. StopSent /\ ~StopUndone
        BY <2>1, <2>3, <3>1 DEF StopSent
      <4>2. ~Undone
        <5>1. ASSUME inq # <<>>, inq[Len(inq)] = StopFtm PROVE StopUndone
          <6>1. inq \in Seq(Commands)
            BY DEF SysInv, TypeInv, TypeOK
          <6>2. Len(inq) \in 1..Len(inq)
            BY <5>1, <6>1
          <6> QED BY <5>1, <6>2 DEF StopUndone
        <5>2. ASSUME cur = StopFtm, prog = <<Ioctl("FTM", 0), Exit>>, pc = 1
              PROVE  StopUndone
          BY <5>2 DEF StopUndone, Idle, Ioctl
        <5> QED BY <4>1, <5>1, <5>2 DEF Undone
      <4> QED BY <4>1, <4>2 DEF StopInv
    <3>2. ASSUME StopSent' PROVE LeftFtm'
      BY <2>3, <3>1, <3>2 DEF Kill, Gone, LeftFtm
    <3> QED BY <2>1, <3>2 DEF StopInv
  <2> QED BY <1>12, <2>2, <2>3 DEF HandleStop
<1>13. CASE UNCHANGED sysVars
  BY <1>0, <1>13 DEF sysVars, StopInv, StopSent
<1> QED BY <1>1, <1>2, <1>3, <1>4, <1>5, <1>6, <1>7, <1>8, <1>9, <1>10, <1>11,
           <1>12, <1>13 DEF SysNext, Client, Service

LEMMA StopIsDone == SysInv /\ StopInv => StopTestEndsFtm
<1> SUFFICES ASSUME StopInv, cpc = "idle", call = "StopTest", ret = 0, ~up, ~cut
             PROVE  drv["FTM"] = 0
  BY DEF StopTestEndsFtm
<1> QED BY DEF StopInv, StopSent, Undone, LeftFtm

(* Whatever the order in which init, the daemon and the client move: when   *)
(* StopTest returned success and the daemon is gone, the radio has left     *)
(* factory test mode, unless the daemon was killed with STOP FTM unexecuted *)
(* or the driver refused it (wifi_ftm_stop, processStopCmd).                *)
THEOREM StopTestLeavesFtm == SysSpec => []StopTestEndsFtm
<1>1. SysInit => StopInv
  BY StopInit
<1>2. SysInv /\ StopInv /\ [SysNext]_sysVars => StopInv'
  BY StopNext
<1>3. SysInv /\ StopInv => StopTestEndsFtm
  BY StopIsDone
<1> QED BY <1>1, <1>2, <1>3, SysInvariant, PTL DEF SysSpec

-----------------------------------------------------------------------------
(* Answers.  Reports are numbered as they are made, so that no number in    *)
(* the system is greater than the last one given.                           *)
IsReport(c) == c.verb = "REPORT"
SerialInv == /\ IsReport(msg) => msg.val <= serial
             /\ cpc = "send" => (call = "report" <=> IsReport(msg))
             /\ cpc = "send" /\ call = "report" => msg.val = serial
             /\ cpc = "await" => call = "report"
             /\ cpc \in {"close", "unload"} => call = "StopTest"
             /\ cpc \in {"poll", "socket", "connect"} =>
                    call = "StartTest" /\ ~IsReport(msg)
             /\ \A i \in 1..Len(inq) : IsReport(inq[i]) => inq[i].val <= serial
             /\ IsReport(cur) => cur.val <= serial
             /\ reply.tag <= serial /\ got.tag <= serial

(* The number of the last report handed to send().                          *)
Sent == IF cpc = "send" /\ call = "report" THEN serial - 1 ELSE serial

(* As long as no report was sent while an answer was there and none gave up *)
(* waiting, at most one is under way, and it is the one Await waits for.    *)
FreshInv == ~excuse =>
    /\ \A i \in 1..Len(inq) : IsReport(inq[i]) => inq[i].val = Sent
    /\ IsReport(cur) => cur.val = Sent
    /\ reply = NoReply \/ reply.tag = Sent
    /\ reply = NoReply /\ cpc # "await" =>
          ~IsReport(cur) /\ \A i \in 1..Len(inq) : ~IsReport(inq[i])
    /\ cpc = "idle" /\ call = "report" /\ ret = 0 => got.tag = serial
AnswerInv == SerialInv /\ FreshInv

LEMMA AnswerInit == SysInit => AnswerInv
BY DEF SysInit, Init, AnswerInv, SerialInv, FreshInv, IsReport, NoCmd, Cmd, NoReply

(* What the daemon does with the reports it was sent, between two sends.    *)
BetweenSends == Work \/ ReceiveFails \/ RxPacket \/ Spawn \/ Kill

LEMMA DaemonReports ==
    ASSUME SysInv, [BetweenSends]_vars
    PROVE  /\ \A i \in 1..Len(inq') : \E j \in 1..Len(inq) : inq'[i] = inq[j]
           /\ cur' = cur \/ ~IsReport(cur') \/ \E j \in 1..Len(inq) : cur' = inq[j]
           /\ \/ reply' = reply
              \/ reply' # NoReply /\ IsReport(cur) /\ reply'.tag = cur.val
<1> USE DEF runVars
<1>0. inq \in Seq(Commands) /\ TypeInv
  BY DEF SysInv, TypeInv, TypeOK
<1>1. CASE UNCHANGED vars
  BY <1>1 DEF vars
<1>2. CASE Receive
  <2>1. /\ inq # <<>> /\ cur' = Head(inq) /\ inq' = Tail(inq) /\ reply' = reply
    BY <1>2 DEF Receive
  <2>2. Len(inq) \in Nat \ {0} /\ Head(inq) = inq[1]
    BY <1>0, <2>1, EmptySeq
  <2>3. /\ Len(Tail(inq)) = Len(inq) - 1
        /\ \A i \in 1 .. Len(Tail(inq)) : Tail(inq)[i] = inq[i+1]
    BY <1>0, <2>1, HeadTailProperties
  <2>4. \A i \in 1..Len(inq') : inq'[i] = inq[i+1] /\ i+1 \in 1..Len(inq)
    BY <2>1, <2>2, <2>3
  <2> QED BY <2>1, <2>2, <2>4
<1>3. ASSUME NEW ok \in BOOLEAN, DoIoctl(ok) \/ DoProbe(ok) \/ DoGet(ok)
      PROVE  UNCHANGED <<inq, cur, reply>>
  BY <1>3 DEF DoIoctl, DoProbe, DoGet
<1>4. CASE DoReply
  <2>1. /\ UNCHANGED <<inq, cur>>
        /\ reply' = [kind |-> prog[pc].arg, val |-> prog[pc].val, tag |-> cur.val]
    BY <1>4 DEF DoReply
  <2>2. IsReport(cur) /\ prog[pc].arg \in {"RX", "BAND"}
    BY <1>0, <1>4, CurrentStep DEF DoReply, IsReport
  <2> QED BY <2>1, <2>2 DEF NoReply
<1>5. ASSUME Gone \/ Spawn
      PROVE  inq' = <<>> /\ ~IsReport(cur') /\ reply' = reply
  BY <1>5 DEF Gone, Spawn, NoCmd, Cmd, IsReport
<1>6. CASE RxPacket
  BY <1>6 DEF RxPacket, procVars
<1> QED BY <1>1, <1>2, <1>3, <1>4, <1>5, <1>6 DEF BetweenSends, Work, ReceiveFails, Kill, DoExit

LEMMA DaemonAnswers ==
    ASSUME SysInv, AnswerInv, [BetweenSends]_vars,
           UNCHANGED <<cpc, call, msg, ret, serial, got, excuse>>
    PROVE  AnswerInv'
<1>1. /\ \A i \in 1..Len(inq') : \E j \in 1..Len(inq) : inq'[i] = inq[j]
      /\ cur' = cur \/ ~IsReport(cur') \/ \E j \in 1..Len(inq) : cur' = inq[j]
      /\ \/ reply' = reply
         \/ reply' # NoReply /\ IsReport(cur) /\ reply'.tag = cur.val
  BY DaemonReports
<1>2. SerialInv'
  BY <1>1 DEF AnswerInv, SerialInv, IsReport
<1>3. Sent' = Sent
  BY DEF Sent
<1>4. FreshInv'
  BY <1>1, <1>3 DEF AnswerInv, FreshInv, IsReport
<1> QED BY <1>2, <1>4 DEF AnswerInv

LEMMA AnswerNext == SysInv /\ AnswerInv /\ [SysNext]_sysVars => AnswerInv'
<1> SUFFICES ASSUME SysInv, AnswerInv, [SysNext]_sysVars PROVE AnswerInv'
  OBVIOUS
<1> USE DEF clientVars, initVars, Goto, Return
<1>0. /\ serial \in Nat /\ inq \in Seq(Commands) /\ Len(inq) \in Nat
      /\ reply.tag \in Nat /\ got.tag \in Nat
  BY EmptySeq DEF SysInv, ClientTypes, TypeInv, TypeOK
<1>1. ASSUME UNCHANGED vars PROVE UNCHANGED <<inq, cur, reply>>
  BY <1>1 DEF vars
<1>2. CASE StartTest \/ StopTest
  <2>1. /\ cpc = "idle" /\ cpc' \in {"socket", "poll", "send"}
        /\ cpc' = "send" <=> call' = "StopTest"
        /\ call' \in {"StartTest", "StopTest"} /\ ~IsReport(msg')
        /\ UNCHANGED <<inq, cur, reply, serial, got, excuse>>
    BY <1>1, <1>2 DEF StartTest, StopTest, IsReport, StartFtm, StopFtm, Cmd
  <2> QED BY <2>1 DEF AnswerInv, SerialInv, FreshInv, Sent
<1>3. ASSUME NEW c \in Used, Command(c) PROVE AnswerInv'
  <2>1. /\ cpc = "idle" /\ cpc' = "send" /\ call' = "command" /\ ~IsReport(msg')
        /\ UNCHANGED <<inq, cur, reply, serial, got, excuse>>
    BY <1>1, <1>3 DEF Command, IsReport
  <2> QED BY <2>1 DEF AnswerInv, SerialInv, FreshInv, Sent
<1>4. ASSUME NEW a \in {"RX", "BAND"}, Report(a) PROVE AnswerInv'
  <2>1. /\ cpc = "idle" /\ cpc' = "send" /\ call' = "report"
        /\ IsReport(msg') /\ msg'.val = serial + 1 /\ serial' = serial + 1
        /\ UNCHANGED <<inq, cur, reply, got, excuse>>
    BY <1>1, <1>4 DEF Report, IsReport, Cmd
  <2>2. SerialInv'
    <3>1. \A n : n \in Int /\ n <= serial => n <= serial + 1
      BY <1>0
    <3>2. \A i \in 1..Len(inq) : inq[i] \in Commands
      BY <1>0, ElementOfSeq
    <3>3. \A d \in Commands : IsReport(d) => d.val \in Int
      BY CommandFields DEF IsReport
    <3>4. IsReport(cur) => cur \in Commands
      BY DEF SysInv, TypeInv, TypeOK, IsReport, NoCmd, Cmd
    <3> QED BY <1>0, <2>1, <3>1, <3>2, <3>3, <3>4 DEF AnswerInv, SerialInv
  <2>3. Sent' = Sent
    BY <1>0, <2>1 DEF Sent
  <2>4. FreshInv'
    BY <2>1, <2>3 DEF AnswerInv, FreshInv
  <2> QED BY <2>2, <2>4 DEF AnswerInv
<1>5. CASE PollService \/ OpenSocket \/ Connect
  <2>1. /\ cpc \in {"poll", "socket", "connect"}
        /\ cpc' \in {"socket", "connect", "send"}
        /\ UNCHANGED <<inq, cur, reply, call, msg, serial, got, excuse>>
    BY <1>1, <1>5 DEF PollService, OpenSocket, Connect
  <2> QED BY <2>1 DEF AnswerInv, SerialInv, FreshInv, Sent
<1>6. ASSUME NEW r \in {0, -1}, AfterSend(r), cpc = "send", UNCHANGED <<cur, reply>>,
             inq' = inq \/ (r = 0 /\ inq' = Append(inq, msg))
      PROVE  AnswerInv'
  <2>1. /\ excuse' = (excuse \/ (call = "report" /\ reply # NoReply))
        /\ UNCHANGED <<call, msg, serial, got>>
    BY <1>6 DEF AfterSend
  <2>2. /\ call = "report" /\ r = 0 => cpc' = "await"
        /\ call = "report" /\ r = -1 => cpc' = "idle" /\ ret' = -1
        /\ call = "StopTest" => cpc' = "close"
        /\ call \notin {"report", "StopTest"} => cpc' = "idle"
    BY <1>6 DEF AfterSend
  <2>3. msg \in Commands
    BY <1>6, UsedAssumption DEF SysInv, MsgInv
  <2>4. \A i \in 1..Len(inq') : \/ i \in 1..Len(inq) /\ inq'[i] = inq[i]
                                \/ r = 0 /\ inq'[i] = msg
    BY <1>0, <1>6, <2>3
  <2>5. SerialInv'
    <3>1. cpc' # "send" /\ cpc' \notin {"poll", "socket", "connect"}
      BY <2>2
    <3>2. cpc' = "await" => call = "report"
      BY <2>2
    <3>3. ASSUME NEW i \in 1..Len(inq'), IsReport(inq'[i])
          PROVE  inq'[i].val <= serial
      <4>1. CASE inq'[i] = msg
        BY <3>3, <4>1 DEF AnswerInv, SerialInv
      <4>2. CASE i \in 1..Len(inq) /\ inq'[i] = inq[i]
        BY <3>3, <4>2 DEF AnswerInv, SerialInv
      <4> QED BY <2>4, <4>1, <4>2
    <3>4. cpc' \in {"close", "unload"} => call = "StopTest"
      BY <2>2
    <3> QED BY <1>6, <2>1, <3>1, <3>2, <3>3, <3>4 DEF AnswerInv, SerialInv
  <2>6. FreshInv'
    <3> SUFFICES ASSUME ~excuse' PROVE FreshInv'
      BY DEF FreshInv
    <3>1. ~excuse /\ (call = "report" => reply = NoReply)
      BY <2>1, Zenon
    <3>2. Sent' = serial
      BY <2>1, <2>2 DEF Sent
    <3>3. CASE call = "report"
      <4>1. IsReport(msg) /\ msg.val = serial
        BY <1>6, <3>3 DEF AnswerInv, SerialInv
      <4>2. ~IsReport(cur) /\ \A i \in 1..Len(inq) : ~IsReport(inq[i])
        BY <1>6, <3>1, <3>3 DEF AnswerInv, FreshInv
      <4>3. CASE r = 0
        BY <1>6, <2>1, <2>2, <2>4, <3>1, <3>2, <3>3, <4>1, <4>2, <4>3 DEF FreshInv
      <4>4. CASE r = -1
        BY <1>6, <2>1, <2>2, <2>4, <3>1, <3>2, <3>3, <4>1, <4>2, <4>4 DEF FreshInv
      <4> QED BY <4>3, <4>4
    <3>4. CASE call # "report"
      <4>1. ~IsReport(msg) /\ Sent = serial
        BY <1>6, <3>4 DEF AnswerInv, SerialInv, Sent
      <4>2. cpc' # "await"
        BY <2>2, <3>4
      <4> QED BY <1>6, <2>1, <2>4, <3>1, <3>2, <3>4, <4>1, <4>2 DEF AnswerInv, FreshInv
    <3> QED BY <3>3, <3>4
  <2> QED BY <2>5, <2>6 DEF AnswerInv
<1>7. CASE SendOk
  BY <1>6, <1>7 DEF SendOk, Send
<1>8. CASE SendElsewhere
  BY <1>1, <1>6, <1>8 DEF SendElsewhere
<1>9. CASE Await
  <2>1. /\ cpc = "await" /\ cpc' = "idle"
        /\ UNCHANGED <<inq, cur, reply, call, msg, serial>>
        /\ \/ reply # NoReply /\ got' = reply /\ excuse' = excuse
           \/ got' = got /\ excuse'
    BY <1>1, <1>9 DEF Await
  <2>2. SerialInv'
    BY <2>1 DEF AnswerInv, SerialInv
  <2>3. FreshInv'
    BY <2>1 DEF AnswerInv, FreshInv, Sent
  <2> QED BY <2>2, <2>3 DEF AnswerInv
<1>10. CASE CloseSocket \/ StopService
  <2>1. /\ cpc' \in {"unload", "idle"} /\ cpc \in {"close", "unload"}
        /\ UNCHANGED <<inq, cur, reply, call, msg, ret, serial, got, excuse>>
    BY <1>1, <1>10 DEF CloseSocket, StopService
  <2> QED BY <2>1 DEF AnswerInv, SerialInv, FreshInv, Sent
<1>11. CASE OtherOpens \/ OtherCloses \/ Daemon \/ Service \/ UNCHANGED sysVars
  <2>1. UNCHANGED <<cpc, call, msg, ret, serial, got, excuse>>
    BY <1>11 DEF OtherOpens, OtherCloses, Daemon, Service, HandleStart, HandleStop,
                 Reap, Restart, sysVars
  <2>2. [BetweenSends]_vars
    BY <1>11 DEF OtherOpens, OtherCloses, Daemon, Service, HandleStart, HandleStop,
                 Reap, Restart, sysVars, BetweenSends
  <2> QED BY <2>1, <2>2, DaemonAnswers
<1> QED BY <1>2, <1>3, <1>4, <1>5, <1>7, <1>8, <1>9, <1>10, <1>11
        DEF SysNext, Client

(* An answer that get_band or rx_report returns is never one to a later     *)
(* request; and it is the answer to that very request, unless               *)
(* wifi.ftmd.reply was set when some report was sent or an earlier report   *)
(* gave up: the property is never cleared (wifi_ftm_send_cmd).              *)
THEOREM AnswersAreFresh == SysSpec => []FreshUnlessExcused
<1>1. AnswerInv => FreshUnlessExcused
  BY DEF AnswerInv, SerialInv, FreshInv, FreshUnlessExcused
<1>2. SysInit => AnswerInv
  BY AnswerInit
<1>3. SysInv /\ AnswerInv /\ [SysNext]_sysVars => AnswerInv'
  BY AnswerNext
<1> QED BY <1>1, <1>2, <1>3, SysInvariant, PTL DEF SysSpec

=============================================================================
