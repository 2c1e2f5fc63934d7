------------------------------- MODULE RfTestd --------------------------------
(***************************************************************************)
(* WifiTest (WifiTest.c) and the service it asks, wifirftestd (server.c).  *)
(* A client connects to the service, sends the test script's command line  *)
(* and prints what comes back.  The service forks a child for a            *)
(* connection and waits for it; the child runs the command in a pipe and   *)
(* sends the last line of its output, without a newline: the client reads  *)
(* on until the connection is closed.  Processes are killed and restarted, *)
(* and fork, popen, bind and socket calls fail.                            *)
(***************************************************************************)
EXTENDS Naturals, Sequences

CONSTANTS
    Clients,    \* runs of WifiTest, each with a test to run
    NoClient,
    Outputs,    \* external: what a command may write to its pipe
    Backlog,    \* connections the kernel queues for listen(sockfd, 1)
    MaxKill     \* bound: times the service is killed
ASSUME ClientAssumption == NoClient \notin Clients
ASSUME BoundAssumption == Backlog \in Nat \ {0} /\ MaxKill \in Nat

(* An output: its lines, and whether the last one ends with a newline.      *)
Texts == {"PASS", "FAIL", "other", "cut", "none"}
ASSUME OutputAssumption == \A o \in Outputs : /\ o.lines \in Seq({"PASS", "FAIL", "other"})
                                              /\ o.ended \in BOOLEAN

Nothing == [lines |-> <<>>, ended |-> TRUE]

VARIABLES
    ppc,       \* the service's process
    newsockfd, \* the connection it has accepted, and holds open
    bound,     \* the service listens on SERV_TCP_PORT
    backlog,   \* connections not yet accepted
    child,     \* by connection: the child that serves it
    fp,        \* by connection: the command: "none", "runs", "silent" (it has
               \* closed its output), "gone"
    out,       \* its output
    pc,        \* the clients
    sent,      \* the command line is on its way or read
    reply,     \* what the child has sent, "none" for nothing or an empty line
    printed,   \* what the client shows at its end
    kills

serviceVars == <<ppc, newsockfd, bound, backlog>>
childVars == <<child, fp, out, reply>>
clientVars == <<pc, sent, printed>>
vars == <<serviceVars, childVars, clientVars, kills>>

Init == /\ ppc = "bind" /\ newsockfd = NoClient /\ bound = FALSE /\ backlog = <<>>
        /\ child = [c \in Clients |-> "none"] /\ fp = [c \in Clients |-> "none"]
        /\ out = [c \in Clients |-> Nothing] /\ reply = [c \in Clients |-> "none"]
        /\ pc = [c \in Clients |-> "setup"] /\ sent = [c \in Clients |-> FALSE]
        /\ printed = [c \in Clients |-> "none"] /\ kills = 0

-----------------------------------------------------------------------------
(* The service.                                                             *)

Serve(from, to) == ppc = from /\ ppc' = to

(* A failing bind is logged only; listen then takes a port of its own.      *)
Bind == /\ Serve("bind", "accept")
        /\ bound' \in BOOLEAN
        /\ UNCHANGED <<newsockfd, backlog, childVars, clientVars, kills>>

Accept == /\ Serve("accept", "fork")
          /\ backlog # <<>>
          /\ newsockfd' = Head(backlog) /\ backlog' = Tail(backlog)
          /\ UNCHANGED <<bound, childVars, clientVars, kills>>

Fork == /\ Serve("fork", "wait")
        /\ child' = [child EXCEPT ![newsockfd] = "readline"]
        /\ UNCHANGED <<newsockfd, bound, backlog, fp, out, reply, clientVars, kills>>
ForkFails == /\ Serve("fork", "close")
             /\ UNCHANGED <<newsockfd, bound, backlog, childVars, clientVars, kills>>

WaitNot == /\ Serve("wait", "close")   \* mutant: the parent does not wait
           /\ UNCHANGED <<newsockfd, bound, backlog, childVars, clientVars, kills>>
Wait == /\ Serve("wait", "close")
        /\ child[newsockfd] = "gone"
        /\ UNCHANGED <<newsockfd, bound, backlog, childVars, clientVars, kills>>

CloseKeeps == /\ Serve("close", "accept")   \* mutant: the connection stays open
              /\ UNCHANGED <<newsockfd, bound, backlog, childVars, clientVars, kills>>
Close == /\ Serve("close", "accept")
         /\ newsockfd' = NoClient
         /\ UNCHANGED <<bound, backlog, childVars, clientVars, kills>>

Service == Bind \/ Accept \/ Fork \/ ForkFails \/ Wait \/ Close

-----------------------------------------------------------------------------
(* The child of connection c.                                               *)

Child(c, from, to) == child[c] = from /\ child' = [child EXCEPT ![c] = to]

(* readline: the whole of the line the client has written, or the end of a  *)
(* connection whose client is gone.                                         *)
Readline(c) ==
    /\ \/ Child(c, "readline", "popen") /\ sent[c]
       \/ Child(c, "readline", "gone") /\ ~sent[c] /\ pc[c] = "gone"
    /\ UNCHANGED <<serviceVars, fp, out, reply, clientVars, kills>>

(* popen, and the loop of fgets, which needs the command to write an end.   *)
Popen(c) == /\ Child(c, "popen", "fgets")
            /\ fp' = [fp EXCEPT ![c] = "runs"]
            /\ UNCHANGED <<serviceVars, out, reply, clientVars, kills>>
(* A popen that fails is logged only: fgets then fails on a null pointer.   *)
PopenFails(c) == /\ Child(c, "popen", "gone")
                 /\ UNCHANGED <<serviceVars, fp, out, reply, clientVars, kills>>
Fgets(c) == /\ Child(c, "fgets", "writen")
            /\ fp[c] \in {"silent", "gone"}
            /\ UNCHANGED <<serviceVars, fp, out, reply, clientVars, kills>>

(* Of each line the last character is cut off, newline or not.              *)
RunStatusOfFirst(o) == IF o.lines = <<>> THEN "none" ELSE Head(o.lines)   \* mutant
RunStatus(o) == IF o.lines = <<>> THEN "none"
                ELSE IF o.ended THEN o.lines[Len(o.lines)] ELSE "cut"
Writen(c) == /\ Child(c, "writen", "pclose")
             /\ reply' = [reply EXCEPT ![c] = RunStatus(out[c])]
             /\ UNCHANGED <<serviceVars, fp, out, clientVars, kills>>

Pclose(c) == /\ Child(c, "pclose", "gone")
             /\ fp[c] = "gone"
             /\ UNCHANGED <<serviceVars, fp, out, reply, clientVars, kills>>

ChildStep(c) == \/ Readline(c) \/ Popen(c) \/ PopenFails(c)
                \/ Fgets(c) \/ Writen(c) \/ Pclose(c)

(* external: the script under sh.                                           *)
CloseOutput(c) == /\ fp[c] = "runs" /\ fp' = [fp EXCEPT ![c] = "silent"]
                  /\ \E o \in Outputs : out' = [out EXCEPT ![c] = o]
                  /\ UNCHANGED <<serviceVars, child, reply, clientVars, kills>>
End(c) == /\ fp[c] = "silent" /\ fp' = [fp EXCEPT ![c] = "gone"]
          /\ UNCHANGED <<serviceVars, child, out, reply, clientVars, kills>>
Command(c) == CloseOutput(c) \/ End(c)

(* external: the service is killed, and with it its connections; init kills *)
(* the rest of its process group and starts it again.                       *)
Kill == /\ ppc \notin {"dead", "bind"} /\ kills < MaxKill
        /\ kills' = kills + 1 /\ ppc' = "dead"
        /\ newsockfd' = NoClient /\ bound' = FALSE /\ backlog' = <<>>
        /\ UNCHANGED <<childVars, clientVars>>
Restart == /\ Serve("dead", "bind")
           /\ child' = [c \in Clients |-> IF child[c] = "none" THEN "none" ELSE "gone"]
           /\ fp' = [c \in Clients |-> IF fp[c] = "none" THEN "none" ELSE "gone"]
           /\ UNCHANGED <<newsockfd, bound, backlog, out, reply, clientVars, kills>>

-----------------------------------------------------------------------------
(* The client c.                                                            *)

Goto(c, from, to) == pc[c] = from /\ pc' = [pc EXCEPT ![c] = to]
Leave(c, from, text) == /\ Goto(c, from, "gone")
                        /\ printed' = [printed EXCEPT ![c] = text]

(* is_asus_project: a device WifiSetup does not know passes every test; so  *)
(* may one where popen of WifiSetup fails, its answer is not initialised.   *)
Setup(c) == /\ \/ Goto(c, "setup", "connect") /\ UNCHANGED printed
               \/ Leave(c, "setup", "PASS")
            /\ UNCHANGED <<serviceVars, childVars, sent, kills>>

Connect(c) == /\ Goto(c, "connect", "write")
              /\ bound /\ ppc # "dead" /\ Len(backlog) < Backlog
              /\ backlog' = Append(backlog, c)
              /\ UNCHANGED <<ppc, newsockfd, bound, childVars, sent, printed, kills>>
(* Nobody listens, the queue stays full, or there is no socket: it is       *)
(* logged only, and the write that follows ends the client.                 *)
ConnectFails(c) == /\ Leave(c, "connect", "none")
                   /\ UNCHANGED <<serviceVars, childVars, sent, kills>>

(* A descriptor of the service's is open, or the kernel queues it.          *)
Open(c) == \/ newsockfd = c
           \/ child[c] \notin {"none", "gone"}
           \/ \E i \in DOMAIN backlog : backlog[i] = c

Write(c) == /\ Goto(c, "write", "readline")
            /\ sent' = [sent EXCEPT ![c] = Open(c)]
            /\ UNCHANGED <<serviceVars, childVars, printed, kills>>

(* Nothing in the reply ends a line, so that it takes the end of the        *)
(* connection, or its reset, to print what has come.                        *)
ReadlineToNul(c) ==   \* mutant: a reply is complete at its null character
    /\ reply[c] # "none" \/ ~Open(c)
    /\ Leave(c, "readline", reply[c])
    /\ UNCHANGED <<serviceVars, childVars, sent, kills>>
ReadReply(c) == /\ ~Open(c)
                /\ Leave(c, "readline", reply[c])
                /\ UNCHANGED <<serviceVars, childVars, sent, kills>>

Client(c) == Setup(c) \/ Connect(c) \/ ConnectFails(c) \/ Write(c) \/ ReadReply(c)

(* external: the user interrupts it.                                        *)
Interrupt(c) == /\ pc[c] \in {"write", "readline"} /\ Leave(c, pc[c], "none")
                /\ UNCHANGED <<serviceVars, childVars, sent, kills>>

-----------------------------------------------------------------------------
Next == \/ Service \/ Kill \/ Restart
        \/ \E c \in Clients : \/ ChildStep(c) \/ Command(c)
                              \/ Client(c) \/ Interrupt(c)

Spec == Init /\ [][Next]_vars

(* The scheduler runs every process that can run, scripts come to an end,   *)
(* and init restarts the service.                                           *)
Fairness == /\ WF_vars(Service) /\ WF_vars(Restart)
            /\ \A c \in Clients : /\ WF_vars(ChildStep(c)) /\ WF_vars(Command(c))
                                  /\ WF_vars(Client(c))
FairSpec == Spec /\ Fairness

-----------------------------------------------------------------------------
TypeOK ==
    /\ ppc \in {"bind", "accept", "fork", "wait", "close", "dead"}
    /\ newsockfd \in IF ppc \in {"fork", "wait", "close"} THEN Clients ELSE {NoClient}
    /\ bound \in BOOLEAN
    /\ backlog \in Seq(Clients)
    /\ child \in [Clients -> {"none", "readline", "popen", "fgets", "writen", "pclose", "gone"}]
    /\ fp \in [Clients -> {"none", "runs", "silent", "gone"}]
    /\ out \in [Clients -> Outputs \cup {Nothing}]
    /\ reply \in [Clients -> Texts]
    /\ pc \in [Clients -> {"setup", "connect", "write", "readline", "gone"}]
    /\ sent \in [Clients -> BOOLEAN] /\ printed \in [Clients -> Texts]
    /\ kills \in Nat

(* The radio belongs to one test at a time: the commands of two clients     *)
(* never run together, whoever is killed, interrupted or fails.             *)
Running(c) == fp[c] \in {"runs", "silent"}
OneTestAtATime == \A c, d \in Clients : Running(c) /\ Running(d) => c = d

(* A client that came to an end of its own with an answer to show can rely  *)
(* on the command being over, its process too: the next test finds the      *)
(* radio as this one left it.                                               *)
OverWhenShown == \A c \in Clients :
    sent[c] /\ pc[c] = "gone" /\ printed[c] # "none" => fp[c] = "gone"

(* What a client shows as a verdict is that of its own command, which was   *)
(* the last line of its output; and as long as the service lives, no        *)
(* verdict of a command that ran is lost.                                   *)
Verdict(c) == IF out[c].lines # <<>> /\ out[c].ended
              THEN out[c].lines[Len(out[c].lines)] ELSE "none"
VerdictShown == \A c \in Clients :
    /\ sent[c] /\ printed[c] \in {"PASS", "FAIL"} => Verdict(c) = printed[c]
    /\ kills = 0 /\ fp[c] = "gone" /\ pc[c] = "readline" /\ ~Open(c) =>
           reply[c] = Verdict(c) \/ Verdict(c) = "none"

(* Every WifiTest that has sent its command comes to its end, also if the   *)
(* service is killed.                                                       *)
ClientReturns == \A c \in Clients : pc[c] = "readline" ~> pc[c] = "gone"

=============================================================================
