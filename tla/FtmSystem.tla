------------------------------ MODULE FtmSystem ------------------------------
(***************************************************************************)
(* The factory test mode stack: the client library (wifi_ftm.cpp under     *)
(* wifi_ftm_jni.cpp) in an application process, init, which starts and     *)
(* kills the wifi_ftmd service on ctl.start and ctl.stop, and the daemon   *)
(* of FtmDaemon.  One JNI call runs at a time; other threads of the        *)
(* application open and close descriptors of their own.  A bounded poll is *)
(* a step that finds what it waits for or, not finding it, gives up: the   *)
(* tenths of a second are not counted.                                     *)
(***************************************************************************)
EXTENDS FtmDaemon, FiniteSets

CONSTANTS Fds,      \* descriptor numbers of the application process
          MaxCtl,   \* bound: requests waiting for init
          OneShot   \* external: the service is declared oneshot in the .rc file

ASSUME FdsAssumption == Fds \subseteq Nat \ {0} /\ IsFiniteSet(Fds)
ASSUME MaxCtlAssumption == MaxCtl \in Nat \ {0}
ASSUME OneShotAssumption == OneShot \in BOOLEAN

VARIABLES
    svc,     \* external: the property init.svc.wifi_ftmd
    ctl,     \* external: ctl.start and ctl.stop init has not handled yet
    load,    \* the property wifi.ftmd.load
    sock,    \* ctrl_socket
    fd,      \* the process's descriptors: "free", another thread's ("other"),
             \* or the library's, "live" if its peer is, else "dead"
    cpc,     \* where the JNI call is
    call,    \* which call it is, or was last
    msg,     \* the command it sends
    ret,     \* its result
    \* history
    serial,  \* REPORT calls made
    got,     \* the last answer one of them returned
    excuse,  \* an answer was there when it was sent, or an earlier call gave up
    owned,   \* the last start got its connection and no stop closed it
    late,    \* a start gave up before init handled its ctl.start
    cut      \* the daemon died with work left, or refused to leave FTM

clientVars == <<load, sock, cpc, call, msg, ret, serial, got, excuse, owned, late>>
initVars == <<svc, ctl>>
sysVars == <<vars, clientVars, initVars, fd, cut>>

StartFtm == Cmd("START", "FTM", 0)
StopFtm == Cmd("STOP", "FTM", 0)
ASSUME SessionAssumption == {StartFtm, StopFtm} \subseteq Used

Calls == {"none", "StartTest", "StopTest", "command", "report"}
Places == {"idle", "poll", "socket", "connect", "send", "close", "unload", "await"}

SysTypeOK == /\ TypeOK
             /\ svc \in {"stopped", "running", "restarting"}
             /\ ctl \in Seq({"start", "stop"})
             /\ load \in BOOLEAN
             /\ sock \in Fds \cup {-1}
             /\ fd \in [Fds -> {"free", "other", "dead", "live"}]
             /\ cpc \in Places /\ call \in Calls
             /\ msg \in Commands \cup {NoCmd}
             /\ ret \in {0, -1}
             /\ serial \in Nat
             /\ got \in [kind : {"NONE", "RX", "BAND"}, val : Int, tag : Nat]
             /\ {excuse, owned, late, cut} \subseteq BOOLEAN

SysInit == /\ Init
           /\ svc = "stopped" /\ ctl = <<>> /\ load = FALSE
           /\ sock = -1 /\ fd = [f \in Fds |-> "free"]
           /\ cpc = "idle" /\ call = "none" /\ msg = NoCmd /\ ret = 0
           /\ serial = 0 /\ got = NoReply
           /\ excuse = FALSE /\ owned = FALSE /\ late = FALSE /\ cut = FALSE

-----------------------------------------------------------------------------
(* The client: StartTest.                                                   *)

(* property_set("ctl....") *)
PropertySet(request) == Len(ctl) < MaxCtl /\ ctl' = Append(ctl, request)

Goto(place) == cpc' = place
Return(r) == cpc' = "idle" /\ ret' = r

(* _wifi_ftmd_start up to its poll. *)
StartTest ==
    /\ cpc = "idle"
    /\ call' = "StartTest" /\ msg' = StartFtm /\ load' = TRUE
    /\ IF svc = "running" THEN Goto("socket") /\ UNCHANGED ctl
                          ELSE Goto("poll") /\ PropertySet("start")
    /\ UNCHANGED <<vars, svc, sock, fd, ret, serial, got, excuse, owned, late, cut>>

(* Running at last; or not after twenty looks.  wifi_ftm_start ignores the  *)
(* failure and sends START FTM on whatever ctrl_socket holds.               *)
PollService ==
    /\ cpc = "poll"
    /\ IF svc = "running" THEN Goto("socket") /\ UNCHANGED late
                          ELSE Goto("send") /\ late' = (late \/ ctl # <<>>)
    /\ UNCHANGED <<vars, initVars, load, sock, fd, call, msg, ret, serial, got,
                   excuse, owned, cut>>

FreeFds == {f \in Fds : fd[f] = "free"}
Lowest(S) == CHOOSE f \in S : \A g \in S : f <= g

(* _wifi_ftm_connect_ftmd: socket(); wifi_ftmd_start stops the service when *)
(* there is none to be had.                                                 *)
OpenSocket ==
    /\ cpc = "socket"
    /\ IF FreeFds # {}
       THEN /\ sock' = Lowest(FreeFds)
            /\ fd' = [fd EXCEPT ![Lowest(FreeFds)] = "dead"]
            /\ Goto("connect") /\ UNCHANGED ctl
       ELSE /\ sock' = -1 /\ PropertySet("stop")
            /\ Goto("send") /\ UNCHANGED fd
    /\ owned' = FALSE
    /\ UNCHANGED <<vars, svc, load, call, msg, ret, serial, got, excuse, late, cut>>

(* Thirty tries to connect: on failure the socket is closed, its number     *)
(* stays in ctrl_socket, and the service is stopped.                        *)
Connect ==
    /\ cpc = "connect"
    /\ IF up THEN fd' = [fd EXCEPT ![sock] = "live"] /\ owned' = TRUE /\ UNCHANGED ctl
             ELSE fd' = [fd EXCEPT ![sock] = "free"] /\ owned' = FALSE
                  /\ PropertySet("stop")
    /\ Goto("send")
    /\ UNCHANGED <<vars, svc, load, sock, call, msg, ret, serial, got, excuse,
                   late, cut>>

-----------------------------------------------------------------------------
(* The client: the other calls, and wifi_ftm_send_cmd.                      *)

StopTest ==
    /\ cpc = "idle"
    /\ call' = "StopTest" /\ msg' = StopFtm /\ Goto("send")
    /\ cut' = FALSE
    /\ UNCHANGED <<vars, initVars, load, sock, fd, ret, serial, got, excuse,
                   owned, late>>

(* wifi_ftm_set_*, wifi_ftm_tx_*, wifi_ftm_rx_*, wifi_ftm_scw_*. *)
Command(c) ==
    /\ cpc = "idle"
    /\ c \in Used \ {StartFtm, StopFtm} /\ c.verb \in {"START", "STOP", "SET"}
    /\ call' = "command" /\ msg' = c /\ Goto("send")
    /\ UNCHANGED <<vars, initVars, load, sock, fd, ret, serial, got, excuse,
                   owned, late, cut>>

(* wifi_ftm_get_band, wifi_ftm_rx_report. *)
Report(a) ==
    /\ cpc = "idle"
    /\ Cmd("REPORT", a, serial + 1) \in Used
    /\ call' = "report" /\ msg' = Cmd("REPORT", a, serial + 1) /\ Goto("send")
    /\ serial' = serial + 1
    /\ UNCHANGED <<vars, initVars, load, sock, fd, ret, got, excuse, owned, late, cut>>

(* What follows the send: StopTest goes on whatever its result. *)
AfterSend(r) ==
    /\ CASE call = "StopTest" -> Goto("close") /\ ret' = r
         [] call = "report" /\ r = 0 -> Goto("await") /\ UNCHANGED ret
         [] OTHER -> Return(r)
    /\ excuse' = (excuse \/ (call = "report" /\ reply # NoReply))
    /\ UNCHANGED <<initVars, load, sock, fd, call, msg, serial, got, owned, late>>

SockState == IF sock = -1 THEN "none" ELSE fd[sock]

(* send() queues the datagram on the daemon's socket, blocking while the    *)
(* queue is full.                                                           *)
SendOkToDeadPeer == /\ cpc = "send" /\ SockState \in {"live", "dead"}   \* mutant
                    /\ inq' = Append(inq, msg)
                    /\ UNCHANGED <<up, staged, cur, prog, pc, drv, reply, failed, runVars>>
                    /\ AfterSend(0)
                    /\ UNCHANGED cut
SendOk == /\ cpc = "send" /\ SockState = "live"
          /\ Send(msg)
          /\ AfterSend(0)
          /\ UNCHANGED cut

(* No socket, a closed one, a dead peer; or ctrl_socket is the number of a  *)
(* descriptor that now belongs to another thread, which may take the bytes. *)
SendElsewhereCloses ==   \* mutant: a failed send closes the socket
    /\ cpc = "send" /\ SockState = "dead"
    /\ fd' = [fd EXCEPT ![sock] = "free"]
    /\ Return(-1)
    /\ UNCHANGED <<vars, initVars, load, sock, call, msg, serial, got, excuse,
                   owned, late, cut>>
SendElsewhere ==
    /\ cpc = "send"
    /\ SockState # "live"
    /\ \E r \in {0, -1} : (r = 0 => SockState = "other") /\ AfterSend(r)
    /\ cut' = (cut \/ call = "StopTest")
    /\ UNCHANGED vars

(* wifi_ftm_send_cmd: the first look at the property that finds it set ends *)
(* the call; the property is never cleared.                                 *)
AwaitTakesEmpty ==   \* mutant: an empty property is taken for an answer
    /\ cpc = "await" /\ got' = reply /\ Return(0)
    /\ UNCHANGED <<vars, initVars, load, sock, fd, call, msg, serial, excuse,
                   owned, late, cut>>
AwaitForever ==   \* mutant: the poll has no count
    /\ cpc = "await" /\ reply # NoReply /\ got' = reply /\ Return(0)
    /\ UNCHANGED <<vars, initVars, load, sock, fd, call, msg, serial, excuse,
                   owned, late, cut>>
Await == /\ cpc = "await"
         /\ IF reply # NoReply
            THEN got' = reply /\ Return(0) /\ UNCHANGED excuse
            ELSE UNCHANGED got /\ Return(-1) /\ excuse' = TRUE
         /\ UNCHANGED <<vars, initVars, load, sock, fd, call, msg, serial, owned,
                        late, cut>>

(* wifi_ftmd_stop: close() whatever has the number; ctrl_socket keeps it.   *)
CloseSocketZeroes ==   \* mutant: ctrl_socket is reset, to 0
    /\ cpc = "close"
    /\ fd' = IF sock # -1 THEN [fd EXCEPT ![sock] = "free"] ELSE fd
    /\ sock' = 0 /\ load' = FALSE /\ owned' = FALSE /\ Goto("unload")
    /\ UNCHANGED <<vars, initVars, call, msg, ret, serial, got, excuse, late, cut>>
CloseSocket ==
    /\ cpc = "close"
    /\ fd' = IF sock # -1 THEN [fd EXCEPT ![sock] = "free"] ELSE fd
    /\ load' = FALSE /\ owned' = FALSE
    /\ Goto("unload")
    /\ UNCHANGED <<vars, initVars, sock, call, msg, ret, serial, got, excuse,
                   late, cut>>

StopServiceStarts ==   \* mutant: ctl.start pasted from _wifi_ftmd_start
    /\ cpc = "unload"
    /\ IF svc = "running" THEN PropertySet("start") ELSE UNCHANGED ctl
    /\ Goto("idle")
    /\ UNCHANGED <<vars, svc, load, sock, fd, call, msg, ret, serial, got, excuse,
                   owned, late, cut>>
StopService ==
    /\ cpc = "unload"
    /\ IF svc = "running" THEN PropertySet("stop") ELSE UNCHANGED ctl
    /\ Goto("idle")
    /\ UNCHANGED <<vars, svc, load, sock, fd, call, msg, ret, serial, got, excuse,
                   owned, late, cut>>

Client == \/ StartTest \/ PollService \/ OpenSocket \/ Connect \/ StopTest
          \/ \E c \in Used : Command(c)
          \/ \E a \in {"RX", "BAND"} : Report(a)
          \/ SendOk \/ SendElsewhere \/ Await \/ CloseSocket \/ StopService

(* A call that has begun goes on: what the fairness assumes of the client.  *)
InCall == \/ PollService \/ OpenSocket \/ Connect \/ SendOk \/ SendElsewhere
          \/ Await \/ CloseSocket \/ StopService

-----------------------------------------------------------------------------
(* Other threads of the application.                                        *)

OtherOpens == /\ FreeFds # {}
              /\ fd' = [fd EXCEPT ![Lowest(FreeFds)] = "other"]
              /\ UNCHANGED <<vars, clientVars, initVars, cut>>
OtherCloses == /\ \E f \in Fds : fd[f] = "other" /\ fd' = [fd EXCEPT ![f] = "free"]
               /\ UNCHANGED <<vars, clientVars, initVars, cut>>

-----------------------------------------------------------------------------
(* init and the daemon.  A process that ends takes its socket along: the    *)
(* library's connected descriptors have no peer any more.                   *)

PeersFollow == fd' = [f \in Fds |-> IF fd[f] = "live" /\ ~up' THEN "dead" ELSE fd[f]]

StopUndone == \/ \E i \in 1..Len(inq) : inq[i] = StopFtm
              \/ cur = StopFtm /\ ~Idle /\ prog[pc].op = "ioctl"

Daemon == /\ Work \/ ReceiveFails \/ RxPacket
          /\ PeersFollow
          /\ cut' = (cut \/ (failed' /\ cur' = StopFtm) \/ (up /\ ~up' /\ StopUndone))
          /\ UNCHANGED <<clientVars, initVars>>

HandleStart == /\ ctl # <<>> /\ Head(ctl) = "start" /\ ctl' = Tail(ctl)
               /\ IF svc = "running" THEN UNCHANGED <<svc, vars>>
                                     ELSE svc' = "running" /\ Spawn
               /\ UNCHANGED <<clientVars, fd, cut>>

HandleStop == /\ ctl # <<>> /\ Head(ctl) = "stop" /\ ctl' = Tail(ctl)
              /\ svc' = "stopped"
              /\ IF up THEN Kill ELSE UNCHANGED vars
              /\ PeersFollow
              /\ cut' = (cut \/ (up /\ StopUndone))
              /\ UNCHANGED clientVars

(* The daemon has exited: init notices, and restarts a service that is not  *)
(* oneshot.                                                                 *)
Reap == /\ svc = "running" /\ ~up
        /\ svc' = IF OneShot THEN "stopped" ELSE "restarting"
        /\ UNCHANGED <<vars, clientVars, ctl, fd, cut>>
Restart == /\ svc = "restarting"
           /\ svc' = "running" /\ Spawn
           /\ UNCHANGED <<clientVars, ctl, fd, cut>>

Service == HandleStart \/ HandleStop \/ Reap \/ Restart

SysNext == Client \/ OtherOpens \/ OtherCloses \/ Daemon \/ Service

DaemonWork == Daemon /\ Work
SysSpec == /\ SysInit /\ [][SysNext]_sysVars
           /\ WF_sysVars(InCall) /\ WF_sysVars(DaemonWork) /\ WF_sysVars(Service)

-----------------------------------------------------------------------------
(* In the composed system the daemon behaves as FtmDaemon says, whose own   *)
(* environment may do anything: what is shown of FtmDaemon holds here.      *)
DaemonSpec == Init /\ [][Next]_vars

(* Once StopTest has returned success and the daemon is gone, the radio has *)
(* left factory test mode, unless the daemon died with STOP FTM unexecuted, *)
(* or the driver refused it (wifi_ftm_stop waits a second, no more, before  *)
(* it has the service killed).                                              *)
StopTestEndsFtm ==
    cpc = "idle" /\ call = "StopTest" /\ ret = 0 /\ ~up /\ ~cut => drv["FTM"] = 0

(* From a start that got its connection until the next stop, the library    *)
(* holds the very socket it connected, so that the stop closes its own      *)
(* descriptor: only a stop after a failed start or after another stop can   *)
(* close one of another thread (wifi_ftmd_stop never resets ctrl_socket).   *)
HoldsOwnSocket == owned => SockState \in {"live", "dead"}

(* An answer returned by get_band or rx_report is the answer to that very   *)
(* request, unless wifi.ftmd.reply was already set when some report was     *)
(* sent or an earlier report gave up waiting; never to a later one          *)
(* (wifi_ftm_send_cmd never clears the property).                           *)
FreshUnlessExcused ==
    cpc = "idle" /\ call = "report" /\ ret = 0 =>
        got.tag <= serial /\ (~excuse => got.tag = serial)

(* Every call of the library returns: polls are bounded, and a send blocked *)
(* on a full queue is released by the daemon's progress or its death.       *)
CallsReturn == cpc # "idle" ~> cpc = "idle"

(* After StopTest the service does come to rest, unless another call        *)
(* follows or a start gave up before init had handled its ctl.start.        *)
StopTestStopsService ==
    cpc = "idle" /\ call = "StopTest" /\ ~late ~> svc = "stopped" \/ cpc # "idle"

=============================================================================
