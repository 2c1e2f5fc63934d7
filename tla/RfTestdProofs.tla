---------------------------- MODULE RfTestdProofs -----------------------------
(***************************************************************************)
(* For any number of clients, queue length and outputs: no two commands    *)
(* run together.  The invariant follows who may have a child: none before  *)
(* the service waits, the accepted connection while it waits, and at most  *)
(* one connection when the service was killed.                             *)
(***************************************************************************)
EXTENDS RfTestd, SequenceTheorems, TLAPS

Active(c) == child[c] \in {"readline", "popen", "fgets", "writen", "pclose"}

Places == {"none", "readline", "popen", "fgets", "writen", "pclose", "gone"}
Shape == /\ ppc \in {"bind", "accept", "fork", "wait", "close", "dead"}
         /\ newsockfd \in IF ppc \in {"fork", "wait", "close"} THEN Clients ELSE {NoClient}
         /\ backlog \in Seq(Clients)
         /\ child \in [Clients -> Places]
         /\ fp \in [Clients -> {"none", "runs", "silent", "gone"}]

(* A command runs only under its child.                                     *)
UnderChild == \A c \in Clients : Running(c) => child[c] \in {"fgets", "writen", "pclose"}

(* Who has a child.                                                         *)
OneChild == \A c \in Clients : Active(c) =>
    /\ ppc \in {"wait", "dead"}
    /\ ppc = "wait" => c = newsockfd
    /\ \A d \in Clients : Active(d) => c = d

Inv == Shape /\ UnderChild /\ OneChild

LEMMA Start == Init => Inv
  BY DEF Init, Inv, Shape, UnderChild, OneChild, Active, Running, Places

LEMMA ServiceKeeps == Inv /\ Service => Inv'
<1> SUFFICES ASSUME Inv, Service PROVE Inv'
  OBVIOUS
<1> USE DEF Inv, Serve, childVars
<1>1. CASE Bind
  BY <1>1 DEF Bind, Shape, UnderChild, OneChild, Active, Running
<1>2. CASE Accept
  <2>1. Head(backlog) \in Clients /\ Tail(backlog) \in Seq(Clients)
    BY <1>2 DEF Accept, Shape
  <2> QED BY <1>2, <2>1 DEF Accept, Shape, UnderChild, OneChild, Active, Running
<1>3. CASE Fork
  <2>1. \A c \in Clients : ~Active(c)
    BY <1>3 DEF Fork, OneChild
  <2>2. /\ newsockfd \in Clients
        /\ \A c \in Clients : child'[c] = IF c = newsockfd THEN "readline" ELSE child[c]
    BY <1>3 DEF Fork, Shape
  <2>3. Shape'
    BY <1>3, <2>2 DEF Fork, Shape, Places
  <2>4. UnderChild'
    BY <1>3, <2>1, <2>2 DEF Fork, UnderChild, Active, Running
  <2>5. OneChild'
    BY <1>3, <2>1, <2>2 DEF Fork, OneChild, Active
  <2> QED BY <2>3, <2>4, <2>5
<1>4. CASE ForkFails
  BY <1>4 DEF ForkFails, Shape, UnderChild, OneChild, Active, Running
<1>5. CASE Wait
  BY <1>5 DEF Wait, Shape, UnderChild, OneChild, Active, Running
<1>6. CASE Close
  BY <1>6 DEF Close, Shape, UnderChild, OneChild, Active, Running
<1> QED BY <1>1, <1>2, <1>3, <1>4, <1>5, <1>6 DEF Service

(* A step of the child of c that takes it from one of its places to the     *)
(* next, and leaves everybody else alone.                                   *)
LEMMA ChildMoves ==
  ASSUME NEW c \in Clients, NEW from, NEW to \in Places, Inv,
         from \in {"readline", "popen", "fgets", "writen", "pclose"},
         Child(c, from, to), UNCHANGED serviceVars,
         \A d \in Clients \ {c} : fp'[d] = fp[d],
         fp' \in [Clients -> {"none", "runs", "silent", "gone"}],
         Running(c)' => to \in {"fgets", "writen", "pclose"}
  PROVE  Inv'
<1>1. \A d \in Clients : child'[d] = IF d = c THEN to ELSE child[d]
  BY DEF Child, Inv, Shape
<1>2. Active(c)
  BY DEF Child, Active
<1>3. Shape'
  BY <1>1 DEF Inv, Shape, Child, serviceVars
<1>4. UnderChild'
  BY <1>1 DEF Inv, UnderChild, Running
<1>5. OneChild'
  BY <1>1, <1>2 DEF Inv, OneChild, Active, serviceVars
<1> QED BY <1>3, <1>4, <1>5 DEF Inv

LEMMA ChildKeeps == ASSUME NEW c \in Clients, Inv, ChildStep(c) PROVE Inv'
<1>1. CASE Readline(c)
  <2>1. fp' = fp /\ UNCHANGED serviceVars /\ ~Running(c)
    BY <1>1 DEF Readline, Child, Inv, UnderChild
  <2>2. \/ Child(c, "readline", "popen") \/ Child(c, "readline", "gone")
    BY <1>1 DEF Readline
  <2> QED BY <2>1, <2>2, ChildMoves DEF Inv, Shape, Running, Places
<1>2. CASE Popen(c)
  <2>1. Child(c, "popen", "fgets") /\ fp' = [fp EXCEPT ![c] = "runs"] /\ UNCHANGED serviceVars
    BY <1>2 DEF Popen
  <2> QED BY <2>1, ChildMoves DEF Inv, Shape, Places
<1>3. CASE PopenFails(c)
  <2>1. Child(c, "popen", "gone") /\ fp' = fp /\ UNCHANGED serviceVars /\ ~Running(c)
    BY <1>3 DEF PopenFails, Child, Inv, UnderChild
  <2> QED BY <2>1, ChildMoves DEF Inv, Shape, Running, Places
<1>4. CASE Fgets(c)
  BY <1>4, ChildMoves DEF Fgets, Inv, Shape, Places
<1>5. CASE Writen(c)
  BY <1>5, ChildMoves DEF Writen, Inv, Shape, Places
<1>6. CASE Pclose(c)
  BY <1>6, ChildMoves DEF Pclose, Inv, Shape, Places, Running
<1> QED BY <1>1, <1>2, <1>3, <1>4, <1>5, <1>6 DEF ChildStep

LEMMA CommandKeeps == ASSUME NEW c \in Clients, Inv, Command(c) PROVE Inv'
<1>1. PICK f \in {"silent", "gone"} : fp' = [fp EXCEPT ![c] = f]
  BY DEF Command, CloseOutput, End
<1>2. Running(c) /\ UNCHANGED <<serviceVars, child>>
  BY DEF Command, CloseOutput, End, Running
<1>3. \A d \in Clients : fp'[d] = IF d = c THEN f ELSE fp[d]
  BY <1>1 DEF Inv, Shape
<1> QED BY <1>1, <1>2, <1>3 DEF Inv, Shape, UnderChild, OneChild, Active, Running, serviceVars

LEMMA KillKeeps == Inv /\ (Kill \/ Restart) => Inv'
<1> SUFFICES ASSUME Inv, Kill \/ Restart PROVE Inv'
  OBVIOUS
<1>1. CASE Kill
  BY <1>1 DEF Kill, Inv, Shape, UnderChild, OneChild, Active, Running, childVars
<1>2. CASE Restart
  <2>1. \A c \in Clients : child'[c] \in {"none", "gone"} /\ fp'[c] \in {"none", "gone"}
    BY <1>2 DEF Restart
  <2>2. Shape'
    BY <1>2 DEF Restart, Serve, Inv, Shape, Places
  <2>3. UnderChild' /\ OneChild'
    BY <2>1 DEF UnderChild, OneChild, Active, Running
  <2> QED BY <2>2, <2>3 DEF Inv
<1> QED BY <1>1, <1>2

(* Clients touch only the queue of connections.                             *)
LEMMA ClientKeeps == ASSUME NEW c \in Clients, Inv, Client(c) \/ Interrupt(c) PROVE Inv'
<1>1. UNCHANGED <<ppc, newsockfd, child, fp>>
  BY DEF Client, Interrupt, Setup, Connect, ConnectFails, Write, ReadReply, childVars, serviceVars
<1>2. backlog' \in Seq(Clients)
  <2>1. backlog' = backlog \/ backlog' = Append(backlog, c)
    BY DEF Client, Interrupt, Setup, Connect, ConnectFails, Write, ReadReply, serviceVars
  <2> QED BY <2>1 DEF Inv, Shape
<1> QED BY <1>1, <1>2 DEF Inv, Shape, UnderChild, OneChild, Active, Running

LEMMA Inductive == Inv /\ [Next]_vars => Inv'
<1> SUFFICES ASSUME Inv, [Next]_vars PROVE Inv'
  OBVIOUS
<1>1. CASE UNCHANGED vars
  BY <1>1 DEF vars, serviceVars, childVars, Inv, Shape, UnderChild, OneChild, Active, Running
<1>2. CASE Next
  BY <1>2, ServiceKeeps, ChildKeeps, CommandKeeps, KillKeeps, ClientKeeps DEF Next
<1> QED BY <1>1, <1>2

LEMMA Always == Spec => []Inv
  BY Start, Inductive, PTL DEF Spec

(* server.c runs at most one client's command at any time, for every set    *)
(* of clients and however often it is killed: the radio is never driven by  *)
(* two test scripts.                                                        *)
THEOREM NeverTwoTests == Spec => []OneTestAtATime
<1>1. Inv => OneTestAtATime
  BY DEF Inv, UnderChild, OneChild, OneTestAtATime, Active
<1> QED BY <1>1, Always, PTL

-----------------------------------------------------------------------------
(* Answers.  A connection is made once and served once.                     *)
Queued(c) == \E i \in 1..Len(backlog) : backlog[i] = c
Pending(c) == Queued(c) \/ (ppc = "fork" /\ newsockfd = c)
Fresh(c) == child[c] = "none" /\ fp[c] = "none"
Once == /\ \A c \in Clients : Pending(c) => Fresh(c) /\ pc[c] \notin {"setup", "connect"}
        /\ \A c \in Clients : Queued(c) => newsockfd # c
        /\ \A i, j \in 1..Len(backlog) : backlog[i] = backlog[j] => i = j
        /\ \A c \in Clients : pc[c] \in {"setup", "connect"} =>
               Fresh(c) /\ newsockfd # c

(* What the child of a connection has made of its command's output.         *)
Answering(c) ==
    /\ child[c] \in {"none", "readline", "popen"} => fp[c] = "none"
    /\ child[c] = "fgets" => fp[c] # "none"
    /\ child[c] \in {"writen", "pclose"} => fp[c] \in {"silent", "gone"}
    /\ child[c] = "gone" => fp[c] \in {"none", "gone"}
    /\ fp[c] \in {"none", "runs"} => out[c] = Nothing
    /\ child[c] \notin {"pclose", "gone"} => reply[c] = "none"
    /\ child[c] = "gone" /\ fp[c] = "none" => reply[c] = "none"
    /\ child[c] = "gone" /\ fp[c] = "gone" => reply[c] \in {"none", RunStatus(out[c])}
    /\ child[c] = "pclose" => reply[c] = RunStatus(out[c])
    /\ child[c] = "gone" /\ fp[c] = "gone" /\ kills = 0 => reply[c] = RunStatus(out[c])

(* What a client has shown.                                                 *)
Shown(c) ==
    /\ pc[c] \in {"setup", "connect", "write"} => ~sent[c]
    /\ pc[c] # "gone" => printed[c] = "none"
    /\ sent[c] /\ printed[c] # "none" =>
           child[c] = "gone" /\ fp[c] = "gone" /\ printed[c] = reply[c]

Rest == /\ bound \in BOOLEAN
        /\ out \in [Clients -> Outputs \cup {Nothing}]
        /\ reply \in [Clients -> Texts]
        /\ pc \in [Clients -> {"setup", "connect", "write", "readline", "gone"}]
        /\ sent \in [Clients -> BOOLEAN] /\ printed \in [Clients -> Texts]
        /\ kills \in Nat /\ (ppc = "dead" => kills > 0)

AnswerInv == /\ Rest /\ Once
             /\ \A c \in Clients : Answering(c) /\ Shown(c)

LEMMA AnswerStart == Init => AnswerInv
<1> SUFFICES ASSUME Init PROVE AnswerInv
  OBVIOUS
<1>1. bound \in BOOLEAN /\ sent \in [Clients -> BOOLEAN]
  BY Zenon DEF Init
<1>2. Rest
  BY <1>1 DEF Init, Rest, Texts
<1>3. Once
  BY ClientAssumption DEF Init, Once, Pending, Queued, Fresh
<1>4. \A c \in Clients : Answering(c) /\ Shown(c)
  BY DEF Init, Answering, Shown
<1> QED BY <1>2, <1>3, <1>4 DEF AnswerInv

(* What the service leaves alone when it takes a connection.                *)
LEMMA TailOnce ==
    ASSUME Inv, Once, Accept
    PROVE  Once'
<1>1. /\ backlog \in Seq(Clients) /\ backlog # <<>> /\ newsockfd' = Head(backlog)
      /\ backlog' = Tail(backlog) /\ ppc' = "fork" /\ UNCHANGED <<child, fp, pc>>
  BY DEF Accept, Serve, childVars, clientVars, Inv, Shape
<1>2. Len(backlog) \in Nat \ {0} /\ Head(backlog) = backlog[1]
  BY <1>1, EmptySeq
<1>3. /\ Len(backlog') = Len(backlog) - 1
      /\ \A i \in 1 .. Len(backlog') : backlog'[i] = backlog[i+1]
  BY <1>1, HeadTailProperties
<1>4. \A i \in 1..Len(backlog') :
          /\ i+1 \in 1..Len(backlog) /\ backlog'[i] = backlog[i+1] /\ i+1 # 1
  BY <1>2, <1>3
<1>5. ASSUME NEW c \in Clients, Queued(c)' PROVE Queued(c) /\ newsockfd' # c
  <2>1. PICK i \in 1..Len(backlog') : backlog'[i] = c
    BY <1>5 DEF Queued
  <2>2. i+1 \in 1..Len(backlog) /\ backlog[i+1] = c /\ i+1 # 1
    BY <1>4, <2>1
  <2>3. Queued(c)
    BY <2>2 DEF Queued
  <2>4. backlog[1] # c
    BY <1>2, <2>2 DEF Once
  <2> QED BY <1>1, <1>2, <2>3, <2>4
<1>6. ASSUME NEW c \in Clients, newsockfd' = c PROVE Queued(c)
  <2>1. 1 \in 1..Len(backlog)
    BY <1>2
  <2> QED BY <1>1, <1>2, <1>6, <2>1 DEF Queued
<1>7. \A c \in Clients : Pending(c)' => Queued(c)
  BY <1>5, <1>6 DEF Pending
<1>8. \A i, j \in 1..Len(backlog') : backlog'[i] = backlog'[j] => i = j
  <2> SUFFICES ASSUME NEW i \in 1..Len(backlog'), NEW j \in 1..Len(backlog'),
                      backlog'[i] = backlog'[j]
               PROVE  i = j
    OBVIOUS
  <2>1. i+1 = j+1
    BY <1>4 DEF Once
  <2> QED BY <2>1
<1>9. \A c \in Clients : Queued(c) => Fresh(c) /\ pc[c] \notin {"setup", "connect"}
  BY DEF Once, Pending
<1>10. UNCHANGED pc /\ \A c \in Clients : Fresh(c)' = Fresh(c)
  BY <1>1 DEF Fresh
<1> QED BY <1>5, <1>6, <1>7, <1>8, <1>9, <1>10 DEF Once

(* A step that touches no queue, and no connection that is not served yet.  *)
LEMMA OnceKept ==
    ASSUME Once, UNCHANGED <<backlog, newsockfd>>, ppc' = "fork" => ppc = "fork",
           \A c \in Clients : pc'[c] \in {"setup", "connect"} => pc[c] \in {"setup", "connect"},
           \A c \in Clients : Fresh(c) /\ (Pending(c)' \/ newsockfd # c) => Fresh(c)'
    PROVE  Once'
<1>1. \A c \in Clients : Queued(c)' = Queued(c) /\ (Pending(c)' => Pending(c))
  BY DEF Queued, Pending
<1> QED BY <1>1 DEF Once

LEMMA ServiceAnswers == Inv /\ AnswerInv /\ Service => AnswerInv'
<1> SUFFICES ASSUME Inv, AnswerInv, Service PROVE AnswerInv'
  OBVIOUS
<1> USE DEF Serve
<1>1. UNCHANGED <<fp, out, reply, pc, sent, printed, kills>> /\ ppc' # "dead"
  BY DEF Service, Bind, Accept, Fork, ForkFails, Wait, Close, childVars, clientVars
<1>2. Rest'
  <2>1. bound' \in BOOLEAN
    BY DEF Service, Bind, Accept, Fork, ForkFails, Wait, Close, AnswerInv, Rest
  <2> QED BY <1>1, <2>1 DEF AnswerInv, Rest
<1>3. ASSUME child' = child
      PROVE  \A c \in Clients : Answering(c)' /\ Shown(c)'
  BY <1>1, <1>3 DEF AnswerInv, Answering, Shown
<1>4. CASE Bind \/ ForkFails \/ Wait
  <2>1. UNCHANGED <<child, backlog, newsockfd>> /\ ppc' # "fork"
    BY <1>4 DEF Bind, ForkFails, Wait, childVars
  <2>2. Once'
    BY <1>1, <2>1, OnceKept DEF AnswerInv, Fresh
  <2> QED BY <1>2, <1>3, <2>1, <2>2 DEF AnswerInv
<1>5. CASE Accept
  <2>1. child' = child
    BY <1>5 DEF Accept, childVars
  <2> QED BY <1>2, <1>3, <1>5, <2>1, TailOnce DEF AnswerInv
<1>6. CASE Fork
  <2>1. /\ newsockfd \in Clients /\ ppc = "fork" /\ ppc' = "wait"
        /\ UNCHANGED <<backlog, newsockfd>>
        /\ \A c \in Clients : child'[c] = IF c = newsockfd THEN "readline" ELSE child[c]
    BY <1>6 DEF Fork, Inv, Shape
  <2>2. Fresh(newsockfd)
    BY <2>1 DEF AnswerInv, Once, Pending
  <2>3. \A c \in Clients : Answering(c)' /\ Shown(c)'
    <3>1. ASSUME NEW c \in Clients, c # newsockfd PROVE Answering(c)' /\ Shown(c)'
      BY <1>1, <2>1, <3>1 DEF AnswerInv, Answering, Shown
    <3>2. ASSUME NEW c \in Clients, c = newsockfd PROVE Answering(c)' /\ Shown(c)'
      BY <1>1, <2>1, <2>2, <3>2 DEF AnswerInv, Answering, Shown, Fresh
    <3> QED BY <3>1, <3>2
  <2>4. Once'
    <3>1. ASSUME NEW c \in Clients, Pending(c)' \/ newsockfd # c, Fresh(c) PROVE Fresh(c)'
      <4>1. newsockfd # c
        BY <2>1, <3>1 DEF Pending, Queued, AnswerInv, Once
      <4> QED BY <1>1, <2>1, <3>1, <4>1 DEF Fresh
    <3> QED BY <1>1, <2>1, <3>1, OnceKept DEF AnswerInv
  <2> QED BY <1>2, <2>3, <2>4 DEF AnswerInv
<1>7. CASE Close
  <2>1. UNCHANGED <<child, backlog>> /\ ppc' = "accept" /\ newsockfd' = NoClient
    BY <1>7 DEF Close, childVars
  <2>2. \A c \in Clients : newsockfd' # c /\ (Pending(c)' => Pending(c)) /\ Fresh(c)' = Fresh(c)
    BY <1>1, <2>1, ClientAssumption DEF Pending, Queued, Fresh
  <2>3. Once'
    BY <1>1, <2>1, <2>2 DEF AnswerInv, Once
  <2> QED BY <1>2, <1>3, <2>1, <2>3 DEF AnswerInv
<1> QED BY <1>4, <1>5, <1>6, <1>7 DEF Service

LEMMA RunStatusType == ASSUME NEW o \in Outputs \cup {Nothing} PROVE RunStatus(o) \in Texts
<1>1. CASE o = Nothing
  BY <1>1 DEF Nothing, RunStatus, Texts
<1>2. CASE o \in Outputs
  <2>1. o.lines \in Seq({"PASS", "FAIL", "other"}) /\ o.ended \in BOOLEAN
    BY <1>2, OutputAssumption
  <2>2. o.lines # <<>> => o.lines[Len(o.lines)] \in {"PASS", "FAIL", "other"}
    <3>1. o.lines # <<>> => Len(o.lines) \in 1..Len(o.lines)
      BY <2>1, EmptySeq
    <3> QED BY <2>1, <3>1, ElementOfSeq
  <2> QED BY <2>1, <2>2 DEF RunStatus, Texts
<1> QED BY <1>1, <1>2

LEMMA ChildAnswers == ASSUME NEW c \in Clients, Inv, AnswerInv, ChildStep(c) PROVE AnswerInv'
<1> USE DEF Child
<1>1. /\ UNCHANGED <<serviceVars, out, clientVars, kills>>
      /\ \A d \in Clients \ {c} : /\ child'[d] = child[d] /\ fp'[d] = fp[d]
                                  /\ reply'[d] = reply[d]
  <2>1. UNCHANGED <<serviceVars, out, clientVars, kills>>
    BY DEF ChildStep, Readline, Popen, PopenFails, Fgets, Writen, Pclose
  <2>2. \E to : child' = [child EXCEPT ![c] = to]
    BY DEF ChildStep, Readline, Popen, PopenFails, Fgets, Writen, Pclose
  <2>3. fp' = fp \/ fp' = [fp EXCEPT ![c] = "runs"]
    BY DEF ChildStep, Readline, Popen, PopenFails, Fgets, Writen, Pclose
  <2>4. reply' = reply \/ reply' = [reply EXCEPT ![c] = RunStatus(out[c])]
    BY DEF ChildStep, Readline, Popen, PopenFails, Fgets, Writen, Pclose
  <2> QED BY <2>1, <2>2, <2>3, <2>4 DEF Inv, Shape, AnswerInv, Rest
<1>2. child[c] \notin {"none", "gone"}
  BY DEF ChildStep, Readline, Popen, PopenFails, Fgets, Writen, Pclose
<1>3. Rest'
  <2>1. reply' \in [Clients -> Texts]
    <3>1. reply' = reply \/ reply' = [reply EXCEPT ![c] = RunStatus(out[c])]
      BY DEF ChildStep, Readline, Popen, PopenFails, Fgets, Writen, Pclose
    <3>2. RunStatus(out[c]) \in Texts
      BY RunStatusType DEF AnswerInv, Rest
    <3> QED BY <3>1, <3>2 DEF AnswerInv, Rest
  <2> QED BY <1>1, <2>1 DEF AnswerInv, Rest, serviceVars, clientVars
<1>4. Once'
  BY <1>1, <1>2, OnceKept DEF AnswerInv, Fresh, serviceVars, clientVars
<1>5. ASSUME NEW d \in Clients \ {c} PROVE Answering(d)' /\ Shown(d)'
  BY <1>1, <1>5 DEF AnswerInv, Answering, Shown, clientVars
<1>6. Shown(c)'
  BY <1>1, <1>2 DEF AnswerInv, Shown, clientVars
<1>7. Answering(c)'
  <2>0. Answering(c) /\ c \in Clients
    BY DEF AnswerInv
  <2>1. CASE Readline(c)
    BY <2>0, <2>1 DEF Readline, Answering, Inv, Shape
  <2>2. CASE Popen(c)
    BY <2>0, <2>2 DEF Popen, Answering, Inv, Shape
  <2>3. CASE PopenFails(c)
    BY <2>0, <2>3 DEF PopenFails, Answering, Inv, Shape
  <2>4. CASE Fgets(c)
    BY <2>0, <2>4 DEF Fgets, Answering, Inv, Shape
  <2>5. CASE Writen(c)
    BY <2>0, <2>5 DEF Writen, Answering, Inv, Shape, AnswerInv, Rest
  <2>6. CASE Pclose(c)
    BY <2>0, <2>6 DEF Pclose, Answering, Inv, Shape
  <2> QED BY <2>1, <2>2, <2>3, <2>4, <2>5, <2>6 DEF ChildStep
<1> QED BY <1>3, <1>4, <1>5, <1>6, <1>7 DEF AnswerInv

LEMMA CommandAnswers == ASSUME NEW c \in Clients, Inv, AnswerInv, Command(c) PROVE AnswerInv'
<1>1. /\ UNCHANGED <<serviceVars, child, reply, clientVars, kills>>
      /\ \A d \in Clients \ {c} : fp'[d] = fp[d] /\ out'[d] = out[d]
      /\ Running(c)
  BY DEF Command, CloseOutput, End, Inv, Shape, AnswerInv, Rest, Running
<1>2. Rest'
  <2>1. out' \in [Clients -> Outputs \cup {Nothing}]
    BY DEF Command, CloseOutput, End, AnswerInv, Rest
  <2> QED BY <1>1, <2>1 DEF AnswerInv, Rest, serviceVars, clientVars
<1>3. Once'
  BY <1>1, OnceKept DEF AnswerInv, Fresh, Running, serviceVars, clientVars
<1>4. ASSUME NEW d \in Clients \ {c} PROVE Answering(d)' /\ Shown(d)'
  BY <1>1, <1>4 DEF AnswerInv, Answering, Shown, clientVars
<1>5. Answering(c) /\ Shown(c) /\ child[c] \in {"fgets", "writen", "pclose"}
  BY <1>1 DEF AnswerInv, Inv, UnderChild
<1>6. Shown(c)'
  BY <1>1, <1>5 DEF Shown, clientVars
<1>7. Answering(c)'
  <2>1. CASE CloseOutput(c)
    BY <1>1, <1>5, <2>1 DEF CloseOutput, Answering, Inv, Shape
  <2>2. CASE End(c)
    BY <1>1, <1>5, <2>2 DEF End, Answering, Inv, Shape
  <2> QED BY <2>1, <2>2 DEF Command
<1> QED BY <1>2, <1>3, <1>4, <1>6, <1>7 DEF AnswerInv

LEMMA KillAnswers == Inv /\ AnswerInv /\ (Kill \/ Restart) => AnswerInv'
<1> SUFFICES ASSUME Inv, AnswerInv, Kill \/ Restart PROVE AnswerInv'
  OBVIOUS
<1>1. CASE Kill
  <2>1. /\ UNCHANGED <<child, fp, out, reply, pc, sent, printed>>
        /\ kills' = kills + 1 /\ ppc' = "dead" /\ newsockfd' = NoClient
        /\ backlog' = <<>> /\ kills \in Nat /\ bound' = FALSE
    BY <1>1 DEF Kill, childVars, clientVars, AnswerInv, Rest
  <2>2. Rest'
    <3>1. kills' \in Nat /\ kills' > 0
      BY <2>1
    <3>2. bound' \in BOOLEAN
      BY <2>1, Zenon
    <3> QED BY <2>1, <3>1, <3>2 DEF AnswerInv, Rest
  <2>3. Once'
    BY <2>1, ClientAssumption DEF AnswerInv, Once, Pending, Queued, Fresh
  <2>4. \A c \in Clients : Answering(c)' /\ Shown(c)'
    BY <2>1 DEF AnswerInv, Answering, Shown
  <2> QED BY <2>2, <2>3, <2>4 DEF AnswerInv
<1>2. CASE Restart
  <2>1. /\ UNCHANGED <<newsockfd, bound, backlog, out, reply, pc, sent, printed, kills>>
        /\ ppc = "dead" /\ ppc' = "bind" /\ kills > 0 /\ kills \in Nat
        /\ \A c \in Clients : /\ child'[c] = IF child[c] = "none" THEN "none" ELSE "gone"
                              /\ fp'[c] = IF fp[c] = "none" THEN "none" ELSE "gone"
    BY <1>2 DEF Restart, Serve, clientVars, AnswerInv, Rest
  <2>2. Rest'
    BY <2>1 DEF AnswerInv, Rest
  <2>3. Once'
    BY <2>1, OnceKept DEF AnswerInv, Fresh
  <2>4. ASSUME NEW c \in Clients PROVE Answering(c)' /\ Shown(c)'
    <3>1. Answering(c) /\ Shown(c) /\ child[c] \in Places
          /\ fp[c] \in {"none", "runs", "silent", "gone"}
      BY DEF AnswerInv, Inv, Shape
    <3>2. Answering(c)'
      BY <2>1, <3>1 DEF Answering, Places
    <3>3. Shown(c)'
      BY <2>1, <3>1 DEF Shown
    <3> QED BY <3>2, <3>3
  <2> QED BY <2>2, <2>3, <2>4 DEF AnswerInv
<1> QED BY <1>1, <1>2

LEMMA ClientAnswers ==
    ASSUME NEW c \in Clients, Inv, AnswerInv, Client(c) \/ Interrupt(c)
    PROVE  AnswerInv'
<1> USE DEF Goto, Leave
<1>1. /\ UNCHANGED <<ppc, newsockfd, bound, child, fp, out, reply, kills>>
      /\ \A d \in Clients \ {c} : /\ pc'[d] = pc[d] /\ sent'[d] = sent[d]
                                  /\ printed'[d] = printed[d]
  BY DEF Client, Interrupt, Setup, Connect, ConnectFails, Write, ReadReply,
         childVars, serviceVars, AnswerInv, Rest
<1>2. Rest'
  <2>1. pc' \in [Clients -> {"setup", "connect", "write", "readline", "gone"}]
    BY DEF Client, Interrupt, Setup, Connect, ConnectFails, Write, ReadReply, AnswerInv, Rest
  <2>2. printed' \in [Clients -> Texts]
    BY DEF Client, Interrupt, Setup, Connect, ConnectFails, Write, ReadReply,
           AnswerInv, Rest, Texts
  <2>3. sent' \in [Clients -> BOOLEAN]
    BY DEF Client, Interrupt, Setup, Connect, ConnectFails, Write, ReadReply,
           AnswerInv, Rest, Open
  <2> QED BY <1>1, <2>1, <2>2, <2>3 DEF AnswerInv, Rest
<1>3. Once'
  <2>1. CASE Connect(c)
    <3>1. /\ backlog \in Seq(Clients) /\ backlog' = Append(backlog, c)
          /\ pc[c] = "connect" /\ pc'[c] = "write" /\ Len(backlog) \in Nat
      BY <2>1, EmptySeq DEF Connect, Inv, Shape, AnswerInv, Rest
    <3>2. Fresh(c) /\ newsockfd # c /\ ~Queued(c)
      BY <3>1 DEF AnswerInv, Once, Pending
    <3>3. /\ Len(backlog') = Len(backlog) + 1 /\ backlog'[Len(backlog) + 1] = c
          /\ \A i \in 1..Len(backlog) : backlog'[i] = backlog[i]
      BY <3>1
    <3>4. \A d \in Clients : Queued(d)' => Queued(d) \/ d = c
      BY <3>1, <3>3 DEF Queued
    <3>5. \A i, j \in 1..Len(backlog') : backlog'[i] = backlog'[j] => i = j
      BY <3>1, <3>2, <3>3 DEF Queued, AnswerInv, Once
    <3>6. \A d \in Clients : Fresh(d)' = Fresh(d) /\ (Pending(d)' => Pending(d) \/ d = c)
      BY <1>1, <3>4 DEF Fresh, Pending
    <3> QED BY <1>1, <3>1, <3>2, <3>4, <3>5, <3>6 DEF AnswerInv, Once
  <2>2. CASE ~Connect(c)
    <3>1. backlog' = backlog
      BY <2>2 DEF Client, Interrupt, Setup, ConnectFails, Write, ReadReply, serviceVars
    <3>2. pc'[c] \in {"setup", "connect"} => pc[c] \in {"setup", "connect"}
      BY <2>2 DEF Client, Interrupt, Setup, ConnectFails, Write, ReadReply, AnswerInv, Rest
    <3> QED BY <1>1, <3>1, <3>2, OnceKept DEF AnswerInv, Fresh
  <2> QED BY <2>1, <2>2
<1>4. \A d \in Clients : Answering(d)'
  BY <1>1 DEF AnswerInv, Answering
<1>5. ASSUME NEW d \in Clients \ {c} PROVE Shown(d)'
  BY <1>1, <1>5 DEF AnswerInv, Shown
<1>6. Shown(c)'
  <2>0. Shown(c) /\ Answering(c)
    BY DEF AnswerInv
  <2>1. CASE Setup(c) \/ Connect(c) \/ ConnectFails(c) \/ Interrupt(c)
    BY <1>1, <2>0, <2>1 DEF Setup, Connect, ConnectFails, Interrupt, Shown, AnswerInv, Rest
  <2>2. CASE Write(c)
    BY <1>1, <2>0, <2>2 DEF Write, Shown, AnswerInv, Rest
  <2>3. CASE ReadReply(c)
    <3>1. /\ printed'[c] = reply[c] /\ pc'[c] = "gone" /\ sent' = sent
          /\ child[c] \in {"none", "gone"}
      BY <2>3 DEF ReadReply, Open, AnswerInv, Rest
    <3> QED BY <1>1, <2>0, <3>1 DEF Shown, Answering, Inv, Shape
  <2> QED BY <2>1, <2>2, <2>3 DEF Client
<1> QED BY <1>2, <1>3, <1>4, <1>5, <1>6 DEF AnswerInv

LEMMA AnswersInductive == Inv /\ AnswerInv /\ [Next]_vars => AnswerInv'
<1> SUFFICES ASSUME Inv, AnswerInv, [Next]_vars PROVE AnswerInv'
  OBVIOUS
<1>1. CASE UNCHANGED vars
  BY <1>1 DEF vars, serviceVars, childVars, clientVars, AnswerInv, Rest, Once, Pending,
              Queued, Fresh, Answering, Shown
<1>2. CASE Next
  BY <1>2, ServiceAnswers, ChildAnswers, CommandAnswers, KillAnswers, ClientAnswers DEF Next
<1> QED BY <1>1, <1>2

LEMMA AnswersAlways == Spec => []AnswerInv
  BY AnswerStart, AnswersInductive, Always, PTL DEF Spec

(* Every variable of service, children and clients keeps its type.          *)
THEOREM TypeCorrect == Spec => []TypeOK
<1>1. Inv /\ AnswerInv => TypeOK
  BY DEF Inv, Shape, AnswerInv, Rest, TypeOK, Places
<1> QED BY <1>1, Always, AnswersAlways, PTL

(* A client that has shown an answer leaves no command behind: also when    *)
(* the service was killed under it and restarted (server.c, pclose before   *)
(* the child exits).                                                        *)
THEOREM CommandOverWhenShown == Spec => []OverWhenShown
<1>1. AnswerInv => OverWhenShown
  BY DEF AnswerInv, Shown, OverWhenShown
<1> QED BY <1>1, AnswersAlways, PTL

(* The verdict shown is that of the client's own command, for every command *)
(* output; without a kill no verdict is lost (server.c: Run, WifiTest.c).   *)
THEOREM VerdictIsOwn == Spec => []VerdictShown
<1>1. Inv /\ AnswerInv => VerdictShown
  <2> SUFFICES ASSUME Inv, AnswerInv, NEW c \in Clients
               PROVE  /\ sent[c] /\ printed[c] \in {"PASS", "FAIL"} => Verdict(c) = printed[c]
                      /\ kills = 0 /\ fp[c] = "gone" /\ pc[c] = "readline" /\ ~Open(c) =>
                             reply[c] = Verdict(c) \/ Verdict(c) = "none"
    BY DEF VerdictShown
  <2>1. Answering(c) /\ Shown(c)
    BY DEF AnswerInv
  <2>2. RunStatus(out[c]) \in {"PASS", "FAIL"} => Verdict(c) = RunStatus(out[c])
    BY DEF RunStatus, Verdict
  <2>3. sent[c] /\ printed[c] \in {"PASS", "FAIL"} => Verdict(c) = printed[c]
    BY <2>1, <2>2 DEF Shown, Answering
  <2>4. ASSUME kills = 0, fp[c] = "gone", ~Open(c)
        PROVE  reply[c] = Verdict(c) \/ Verdict(c) = "none"
    <3>1. child[c] = "gone" /\ reply[c] = RunStatus(out[c])
      BY <2>1, <2>4 DEF Open, Answering
    <3> QED BY <3>1 DEF RunStatus, Verdict
  <2> QED BY <2>3, <2>4
<1> QED BY <1>1, Always, AnswersAlways, PTL
=============================================================================
