-------------------------- MODULE ServerCallsProofs --------------------------
(***************************************************************************)
(* Proofs about the RPCs of a server for any set of calls and threads.     *)
(*                                                                         *)
(* The properties rest on where the three tags of a call can be.  A call   *)
(* has one RequestCall tag, one CallFinishedTag and at most one tag of     *)
(* _stream.Finish; each is in one place (begun, completed, being handled)  *)
(* and restricts _status, and they exclude each other except while Proceed *)
(* handles the connection, when the library may complete the Done tag.     *)
(***************************************************************************)
EXTENDS ServerCalls, FiniteSetTheorems, TLAPS

\* The run thread handles an event exactly when it is inside Proceed, and
\* holds _stateMutex only for a connection that is being set up.
RunThreadInv ==
    /\ runPc \in {"next", "exited"} => cur = NoEvent
    /\ runPc \in {"create", "publish", "connect"} =>
          /\ cur.kind = "Request"
          /\ cur.ok

\* A LabVIEW thread inside an operation on a call has that call.
ThreadInv ==
    \A t \in Threads : /\ pc[t] # "idle" => arg[t] \in Calls
                       /\ pc[t] \in {"lock", "submit"} => op[t] \in IoKinds

\* A tag that the library knows of is in one place only.
OnePlace(k, c) ==
    /\ \A e, f \in queue : /\ e.kind = k /\ e.call = c
                           /\ f.kind = k /\ f.call = c
                           => e = f
    /\ \A e \in queue : e.kind = k /\ e.call = c =>
          <<k, c>> \notin ops /\ ~(cur.kind = k /\ cur.call = c)
    /\ <<k, c>> \in ops => ~(cur.kind = k /\ cur.call = c)

\* A call whose RequestCall tag is around waits for its connection.  LabVIEW
\* does not know it, unless Proceed has just published it.
RequestInv(c) ==
    InFlight("Request", c) =>
        /\ status[c] = "WaitingForConnection"
        /\ finishedTag[c]
        /\ c \in registered \/ (\E t \in Threads : arg[t] = c) =>
              runPc = "connect" /\ cur.call = c
        /\ InFlight("Done", c) =>
              cur.kind = "Request" /\ cur.call = c /\ cur.ok

\* A call whose Finish tag is around is over.
FinishInv(c) ==
    InFlight("Finish", c) => status[c] \in {"Finishing", "Finished"}

\* Finish was called only for a call that is over, and only once.
SentInv(c) ==
    /\ Len(sent[c]) <= 1
    /\ status[c] \notin {"Finishing", "Finished"} => sent[c] = <<>>

\* A RequestCall fails only when the server shuts down.
ShutdownInv ==
    /\ \A e \in queue : e.kind = "Request" /\ ~e.ok => server = "shutdown"
    /\ cur.kind = "Request" /\ ~cur.ok => server = "shutdown"
    /\ cqShutdown => server = "shutdown"
    /\ stopPc # "idle" => server = "shutdown"

TagInv(c) ==
    /\ OnePlace("Request", c)
    /\ OnePlace("Done", c)
    /\ RequestInv(c)
    /\ FinishInv(c)
    /\ SentInv(c)

\* The inductive invariant.
IInv ==
    /\ TypeOK
    /\ ThreadInv
    /\ RunThreadInv
    /\ ShutdownInv
    /\ \A c \in Calls : TagInv(c)
    /\ DoneTagExists
    /\ AlwaysListening

----------------------------------------------------------------------------
(* Type correctness.  It needs RunThreadInv: the run thread publishes and    *)
(* rejects only calls that exist.                                            *)

\* What the run thread handles is an event of a call.
LEMMA CurIsEvent ==
  ASSUME TypeOK, cur.kind # "None"
  PROVE  cur \in Event /\ cur.call \in Calls
  BY DEF TypeOK, Event, NoEvent

\* Beginning an operation keeps the types.
LEMMA BeginType ==
  ASSUME TypeOK, NEW k \in OpKinds, NEW c \in Calls, Begin(k, c)
  PROVE  /\ ops' \subseteq OpKinds \X Calls
         /\ aborted' \in BOOLEAN
<1>1. CASE QueueClosed
  <2>1. ops' = ops /\ aborted' = TRUE
    BY <1>1 DEF Begin
  <2> QED
    BY <2>1 DEF TypeOK
<1>2. CASE ~QueueClosed
  <2>1. ops' = ops \cup {<<k, c>>} /\ aborted' = aborted
    BY <1>2 DEF Begin
  <2> QED
    BY <2>1 DEF TypeOK
<1> QED
  BY <1>1, <1>2

\* So does handing a status to _stream.Finish.
LEMMA StreamFinishType ==
  ASSUME TypeOK, NEW c \in Calls, NEW s \in StatusCodes, StreamFinish(c, s)
  PROVE  /\ ops' \subseteq OpKinds \X Calls
         /\ aborted' \in BOOLEAN
         /\ sent' \in [Calls -> Seq(StatusCodes)]
<1>1. sent' \in [Calls -> Seq(StatusCodes)]
  BY DEF TypeOK, StreamFinish
<1> QED
  BY <1>1, BeginType DEF StreamFinish, OpKinds

\* The initial state has the types of TypeOK.
LEMMA InitTypeOK == Init => TypeOK
<1> SUFFICES ASSUME Init PROVE TypeOK
  OBVIOUS
<1>1. ops \subseteq OpKinds \X Calls
  BY DEF Init, OpKinds
<1>2. finishedTag \in [Calls -> BOOLEAN]
  BY DEF Init
<1>3. isCancelled \in [Calls -> BOOLEAN]
  BY DEF Init
<1>4. sent \in [Calls -> Seq(StatusCodes)]
  BY DEF Init
<1>5. status \in [Calls -> CallStatus \cup {"NotCreated"}]
  BY DEF Init, CallStatus
<1>6. callStatus \in [Calls -> StatusCodes] /\ rpc \in [Calls -> RpcStates]
  BY DEF Init, StatusCodes, RpcStates
<1>7. /\ pc \in [Threads -> Pcs]
      /\ arg \in [Threads -> Calls \cup {NoCall}]
      /\ op \in [Threads -> IoKinds \cup {"Close", "Status", "None"}]
  BY DEF Init, Pcs
<1> QED
  BY <1>1, <1>2, <1>3, <1>4, <1>5, <1>6, <1>7
     DEF Init, TypeOK, RunPcs, StopPcs

\* The library completes the operation k of c.
Completes(k, c, ok) ==
    /\ <<k, c>> \in ops
    /\ Enqueue(k, c, ok)
    /\ k = "Request" /\ ~ok => server = "shutdown"
    /\ rpc' \in [Calls -> RpcStates]
    /\ UNCHANGED <<callVars, idVars, isCancelled, server, cqShutdown, aborted,
                   runVars, stopPc, threadVars>>

\* Every step of the library completes an operation or cancels an RPC.
LEMMA LibraryStep ==
  ASSUME TypeOK, Library
  PROVE  \/ \E c \in Calls : ClientCancel(c)
         \/ \E c \in Calls, k \in OpKinds, ok \in BOOLEAN : Completes(k, c, ok)
<1> PICK c \in Calls :
           \/ ClientConnect(c) \/ ClientCancel(c) \/ FailRequest(c)
           \/ \E k \in IoKinds, ok \in BOOLEAN : CompleteIo(k, c, ok)
           \/ \E k \in IoKinds : FailIo(k, c)
           \/ CompleteFinish(c) \/ CompleteDone(c)
  BY DEF Library
<1> USE DEF Completes, OpKinds
<1>0. rpc \in [Calls -> RpcStates]
  BY DEF TypeOK
<1>1. CASE ClientConnect(c)
  <2>1. Completes("Request", c, TRUE)
    BY <1>0, <1>1 DEF ClientConnect, RpcStates
  <2> QED
    BY <2>1
<1>2. CASE FailRequest(c)
  <2>1. Completes("Request", c, FALSE)
    BY <1>0, <1>2 DEF FailRequest
  <2> QED
    BY <2>1
<1>3. CASE \E k \in IoKinds, ok \in BOOLEAN : CompleteIo(k, c, ok)
  <2> PICK k \in IoKinds, ok \in BOOLEAN : CompleteIo(k, c, ok)
    BY <1>3
  <2>1. Completes(k, c, ok)
    BY <1>0 DEF CompleteIo, IoKinds
  <2> QED
    BY <2>1
<1>4. CASE \E k \in IoKinds : FailIo(k, c)
  <2> PICK k \in IoKinds : FailIo(k, c)
    BY <1>4
  <2>1. Completes(k, c, FALSE)
    BY <1>0 DEF FailIo, IoKinds
  <2> QED
    BY <2>1
<1>5. CASE CompleteFinish(c)
  <2>1. rpc' \in [Calls -> RpcStates]
    BY <1>0, <1>5 DEF CompleteFinish, RpcStates
  <2>2. Completes("Finish", c, rpc[c] # "cancelled")
    BY <2>1, <1>5 DEF CompleteFinish
  <2>3. (rpc[c] # "cancelled") \in BOOLEAN
    OBVIOUS
  <2> QED
    BY <2>2, <2>3
<1>6. CASE CompleteDone(c)
  <2>1. Completes("Done", c, TRUE)
    BY <1>0, <1>6 DEF CompleteDone
  <2> QED
    BY <2>1
<1> QED
  BY <1>1, <1>2, <1>3, <1>4, <1>5, <1>6

\* Completing an operation keeps the types.
LEMMA CompletesTypeOK ==
  ASSUME TypeOK, NEW c \in Calls, NEW k \in OpKinds, NEW ok \in BOOLEAN,
         Completes(k, c, ok)
  PROVE  TypeOK'
<1>1. ops' \subseteq OpKinds \X Calls
  BY DEF TypeOK, Completes, Enqueue
<1>2. [kind |-> k, call |-> c, ok |-> ok] \in Event
  BY DEF Event
<1>3. queue' \subseteq Event
  BY <1>2 DEF TypeOK, Completes, Enqueue
<1> QED
  BY <1>1, <1>3
     DEF TypeOK, Completes, callVars, idVars, runVars, threadVars

\* Steps of the run thread keep the types.
LEMMA RunThreadTypeOK ==
  ASSUME TypeOK, RunThreadInv, RunThread
  PROVE  TypeOK'
<1> USE DEF TypeOK, callVars, idVars, grpcVars, threadVars, NextEvent,
            CallStatus, RunPcs
<1>1. CASE \E e \in queue : CqNext(e)
  <2> PICK e \in queue : CqNext(e)
    BY <1>1
  <2>1. e \in Event /\ e.call \in Calls
    BY DEF Event
  <2>2. ops' \subseteq OpKinds \X Calls
    BY <2>1 DEF CqNext, OpKinds
  <2>3. isCancelled' \in [Calls -> BOOLEAN]
    <3>1. CASE e.kind = "Done"
      BY <2>1, <3>1 DEF CqNext
    <3>2. CASE e.kind # "Done"
      BY <3>2 DEF CqNext
    <3> QED
      BY <3>1, <3>2
  <2> QED
    BY <2>1, <2>2, <2>3 DEF CqNext
<1>2. CASE CqDrained
  BY <1>2 DEF CqDrained
<1>3. CASE ProceedNotOk
  BY <1>3 DEF ProceedNotOk
<1>4. CASE ProceedFinish
  BY <1>4 DEF ProceedFinish
<1>5. CASE ProceedConnection
  BY <1>5 DEF ProceedConnection
<1>6. CASE SpawnNext
  <2> PICK d \in Calls : Create(d)
    BY <1>6 DEF SpawnNext
  <2>1. ops' \subseteq OpKinds \X Calls /\ aborted' \in BOOLEAN
    BY BeginType DEF Create, OpKinds
  <2>2. status' \in [Calls -> CallStatus \cup {"NotCreated"}]
    BY DEF Create
  <2>3. /\ finishedTag' \in [Calls -> BOOLEAN]
        /\ isCancelled' \in [Calls -> BOOLEAN]
    BY DEF Create
  <2>4. /\ callStatus' \in [Calls -> StatusCodes]
        /\ sent' \in [Calls -> Seq(StatusCodes)]
    BY DEF Create, StatusCodes
  <2>5. rpc' \in [Calls -> RpcStates]
    BY DEF Create, RpcStates
  <2>6. cleanup' \subseteq Calls /\ posted' \subseteq Calls
    BY DEF Create
  <2> QED
    BY <1>6, <2>1, <2>2, <2>3, <2>4, <2>5, <2>6 DEF SpawnNext
<1>7. CASE Publish
  <2>1. cur.call \in Calls
    BY <1>7, CurIsEvent DEF Publish, RunThreadInv
  <2> QED
    BY <1>7, <2>1 DEF Publish
<1>8. CASE Connect
  BY <1>8 DEF Connect
<1>9. CASE RejectUnimplemented
  <2>1. cur.call \in Calls
    BY <1>9, CurIsEvent DEF RejectUnimplemented, RunThreadInv
  <2> QED
    BY <1>9, <2>1, StreamFinishType DEF RejectUnimplemented, StatusCodes
<1>10. CASE FinishFromCompletionQueue
  BY <1>10 DEF FinishFromCompletionQueue
<1>11. CASE \E t \in Threads : SignalIo(t)
  BY <1>11 DEF SignalIo, Pcs
<1> QED
  BY <1>1, <1>2, <1>3, <1>4, <1>5, <1>6, <1>7, <1>8, <1>9, <1>10, <1>11
     DEF RunThread

\* Steps of the LabVIEW threads keep the types.
LEMMA ThreadTypeOK ==
  ASSUME TypeOK, ThreadInv, NEW t \in Threads, Continue(t) \/ CallApi(t)
  PROVE  TypeOK' /\ ThreadInv'
<1> USE DEF TypeOK, ThreadInv, callVars, idVars, grpcVars, runVars,
            threadVars, Pcs, Leave, Enter
<1>1. CASE CheckActive(t)
  BY <1>1 DEF CheckActive
<1>2. CASE SubmitIo(t)
  <2>1. op[t] \in OpKinds /\ arg[t] \in Calls
    BY <1>2 DEF SubmitIo, OpKinds
  <2>2. ops' \subseteq OpKinds \X Calls /\ aborted' \in BOOLEAN
    BY <1>2, <2>1, BeginType DEF SubmitIo
  <2> QED
    BY <1>2, <2>2 DEF SubmitIo
<1>3. CASE CopyFromClusterThrows(t)
  BY <1>3 DEF CopyFromClusterThrows
<1>4. CASE EndIo(t)
  BY <1>4 DEF EndIo
<1>5. CASE FinishFromLabVIEW(t)
  <2>1. arg[t] \in Calls
    BY <1>5 DEF FinishFromLabVIEW
  <2>2. callStatus[arg[t]] \in StatusCodes
    BY <2>1
  <2>3. /\ ops' \subseteq OpKinds \X Calls
        /\ aborted' \in BOOLEAN
        /\ sent' \in [Calls -> Seq(StatusCodes)]
    <3>1. CASE StreamFinish(arg[t], callStatus[arg[t]])
      BY <2>1, <2>2, <3>1, StreamFinishType
    <3>2. CASE UNCHANGED <<sent, ops, aborted>>
      BY <3>2
    <3> QED
      BY <1>5, <3>1, <3>2 DEF FinishFromLabVIEW
  <2>4. status' \in [Calls -> CallStatus \cup {"NotCreated"}]
    BY <1>5 DEF FinishFromLabVIEW, CallStatus
  <2> QED
    BY <1>5, <2>3, <2>4 DEF FinishFromLabVIEW
<1>6. CASE DeregisterCleanupProc(t)
  BY <1>6 DEF DeregisterCleanupProc
<1>7. CASE UnregisterPointer(t)
  BY <1>7 DEF UnregisterPointer
<1>8. CASE \E c \in Calls, k \in IoKinds : BeginIo(t, c, k)
  BY <1>8 DEF BeginIo
<1>9. CASE \E c \in Calls : BeginClose(t, c)
  BY <1>9 DEF BeginClose
<1>10. CASE \E c \in Calls : SetCallStatus(t, c)
  BY <1>10 DEF SetCallStatus
<1>11. CASE \E s \in {"OK", "INTERNAL"} : SetCallStatusError(t, s)
  BY <1>11 DEF SetCallStatusError, StatusCodes
<1>12. CASE ReturnStatus(t)
  BY <1>12 DEF ReturnStatus
<1> QED
  BY <1>1, <1>2, <1>3, <1>4, <1>5, <1>6, <1>7, <1>8, <1>9, <1>10, <1>11, <1>12
     DEF Continue, CallApi

\* Every step keeps the types and what the program counters say.
LEMMA NextTypeOK ==
  ASSUME TypeOK, ThreadInv, RunThreadInv, [Next]_vars
  PROVE  TypeOK' /\ ThreadInv'
<1>1. CASE Library
  <2>1. CASE \E c \in Calls : ClientCancel(c)
    BY <2>1 DEF ClientCancel, TypeOK, ThreadInv, callVars, idVars, runVars,
                threadVars, RpcStates
  <2>2. CASE \E c \in Calls, k \in OpKinds, ok \in BOOLEAN :
                Completes(k, c, ok)
    <3>1. TypeOK'
      BY <2>2, CompletesTypeOK
    <3>2. UNCHANGED threadVars
      BY <2>2 DEF Completes
    <3> QED
      BY <3>1, <3>2 DEF ThreadInv, threadVars
  <2> QED
    BY <1>1, <2>1, <2>2, LibraryStep
<1>2. CASE RunThread
  <2>1. TypeOK'
    BY <1>2, RunThreadTypeOK
  <2>2. CASE \E t \in Threads : SignalIo(t)
    BY <2>1, <2>2 DEF SignalIo, ThreadInv, TypeOK
  <2>3. CASE UNCHANGED threadVars
    BY <2>1, <2>3 DEF ThreadInv, threadVars
  <2>4. RunThread => UNCHANGED threadVars \/ \E t \in Threads : SignalIo(t)
    BY DEF RunThread, CqNext, CqDrained, ProceedNotOk, ProceedFinish,
           ProceedConnection, SpawnNext, Publish, Connect,
           RejectUnimplemented, FinishFromCompletionQueue
  <2> QED
    BY <1>2, <2>1, <2>2, <2>3, <2>4
<1>3. CASE \E t \in Threads : Continue(t) \/ CallApi(t)
  BY <1>3, ThreadTypeOK
<1>4. CASE StopServer
  BY <1>4 DEF StopServer, StopShutdown, StopCq, StopJoin, TypeOK, ThreadInv,
              callVars, idVars, grpcVars, runVars, threadVars, RpcStates,
              StopPcs
<1>5. CASE UNCHANGED vars
  BY <1>5 DEF vars, TypeOK, ThreadInv, callVars, idVars, grpcVars, runVars,
              threadVars
<1> QED
  BY <1>1, <1>2, <1>3, <1>4, <1>5 DEF Next, Terminated

----------------------------------------------------------------------------
(* The run thread and the shutdown *)

\* Every step keeps the relation between the run thread's position and the
\* event it handles.
LEMMA NextRunThreadInv ==
  ASSUME TypeOK, RunThreadInv, \A c \in Calls : FinishInv(c), [Next]_vars
  PROVE  RunThreadInv'
<1> USE DEF RunThreadInv
<1>1. CASE UNCHANGED runVars
  BY <1>1 DEF runVars
<1>2. CASE RunThread
  <2>1. CASE \E e \in queue : CqNext(e)
    BY <2>1 DEF CqNext
  <2>2. CASE CqDrained
    BY <2>2 DEF CqDrained
  <2>3. CASE NextEvent
    BY <2>3 DEF NextEvent
  <2>4. CASE ProceedConnection
    <3>1. status[cur.call] = "WaitingForConnection" /\ cur.ok /\ UNCHANGED cur
      BY <2>4 DEF ProceedConnection
    <3>2. cur.kind = "Request"
      BY <2>4, <3>1, CurIsEvent
         DEF ProceedConnection, IsCallTag, FinishInv, InFlight
    <3> QED
      BY <2>4, <3>1, <3>2 DEF ProceedConnection
  <2>5. CASE SpawnNext \/ Publish
    BY <2>5 DEF SpawnNext, Publish
  <2> QED
    BY <1>2, <2>1, <2>2, <2>3, <2>4, <2>5
       DEF RunThread, ProceedNotOk, ProceedFinish, Connect,
           RejectUnimplemented, FinishFromCompletionQueue, SignalIo
<1>3. Library => UNCHANGED runVars
  BY DEF Library, ClientConnect, ClientCancel, FailRequest, CompleteIo, FailIo,
         CompleteFinish, CompleteDone
<1>4. (\E t \in Threads : Continue(t) \/ CallApi(t)) => UNCHANGED runVars
  BY DEF Continue, CallApi, CheckActive, SubmitIo, CopyFromClusterThrows, EndIo,
         FinishFromLabVIEW, DeregisterCleanupProc, UnregisterPointer, BeginIo,
         BeginClose, SetCallStatus, SetCallStatusError, ReturnStatus
<1>5. StopServer \/ UNCHANGED vars => UNCHANGED runVars
  BY DEF StopServer, StopShutdown, StopCq, StopJoin, vars
<1> QED
  BY <1>1, <1>2, <1>3, <1>4, <1>5 DEF Next, Terminated

\* Every step keeps ShutdownInv and AlwaysListening.
LEMMA NextListening ==
  ASSUME IInv, [Next]_vars
  PROVE  ShutdownInv' /\ AlwaysListening'
<1> USE DEF IInv, ShutdownInv
<1>1. CASE UNCHANGED <<ops, queue, runVars, server, cqShutdown, stopPc>>
  BY <1>1 DEF AlwaysListening, runVars
<1>2. ASSUME NEW c \in Calls, NEW k \in OpKinds, NEW ok \in BOOLEAN,
             Completes(k, c, ok)
      PROVE  ShutdownInv' /\ AlwaysListening'
  <2> DEFINE e == [kind |-> k, call |-> c, ok |-> ok]
  <2>1. /\ ops' = ops \ {<<k, c>>} /\ queue' = queue \cup {e}
        /\ UNCHANGED <<server, cqShutdown, stopPc, cur, runPc>>
    BY <1>2 DEF Completes, Enqueue, runVars
  <2>2. e.kind = k /\ e.call = c /\ e.ok = ok
    OBVIOUS
  <2>3. k = "Request" /\ ~ok => server = "shutdown"
    BY <1>2 DEF Completes
  <2>4. ShutdownInv'
    BY <2>1, <2>2, <2>3
  <2>5. AlwaysListening'
    BY <2>1, <2>2 DEF AlwaysListening
  <2> QED
    BY <2>4, <2>5
<1>3. CASE \E e \in queue : CqNext(e)
  <2> PICK e \in queue : CqNext(e)
    BY <1>3
  <2>1. /\ queue' = queue \ {e} /\ cur' = e /\ runPc' = "proceed"
        /\ ops \subseteq ops'
        /\ UNCHANGED <<server, cqShutdown, stopPc>>
    BY DEF CqNext
  <2>2. cur.kind # "Request"
    BY DEF CqNext, RunThreadInv, NoEvent
  <2> QED
    BY <2>1, <2>2 DEF AlwaysListening
<1>4. CASE CqDrained
  BY <1>4 DEF CqDrained, grpcVars, AlwaysListening
<1>5. CASE ProceedConnection
  BY <1>5 DEF ProceedConnection, grpcVars, AlwaysListening
<1>6. CASE SpawnNext
  <2>1. /\ UNCHANGED <<queue, server, cqShutdown, stopPc, cur>>
        /\ runPc = "create" /\ runPc' = "publish"
    BY <1>6 DEF SpawnNext
  <2>2. cqShutdown \/ \E d \in Calls : ops' = ops \cup {<<"Request", d>>}
    BY <1>6 DEF SpawnNext, Create, Begin, QueueClosed
  <2> QED
    BY <2>1, <2>2 DEF AlwaysListening
<1>7. CASE Publish
  BY <1>7 DEF Publish, grpcVars, AlwaysListening
<1>8. ASSUME NextEvent, runPc # "create", ops \subseteq ops', queue' = queue,
             UNCHANGED <<server, cqShutdown, stopPc>>,
             cur.kind = "Request" /\ runPc = "proceed" => ~cur.ok
      PROVE  ShutdownInv' /\ AlwaysListening'
  BY <1>8 DEF NextEvent, NoEvent, AlwaysListening
<1>9. CASE ProceedNotOk
  BY <1>8, <1>9 DEF ProceedNotOk, grpcVars
<1>10. CASE ProceedFinish
  <2>1. cur.kind # "Request"
    BY <1>10, CurIsEvent DEF ProceedFinish, TagInv, RequestInv, InFlight
  <2> QED
    BY <1>8, <1>10, <2>1 DEF ProceedFinish, grpcVars
<1>11. CASE Connect
  BY <1>8, <1>11 DEF Connect, grpcVars
<1>12. CASE RejectUnimplemented
  <2>1. ops \subseteq ops'
    BY <1>12 DEF RejectUnimplemented, StreamFinish, Begin
  <2> QED
    BY <1>8, <1>12, <2>1 DEF RejectUnimplemented
<1>13. CASE FinishFromCompletionQueue
  BY <1>8, <1>13 DEF FinishFromCompletionQueue, grpcVars
<1>14. CASE \E t \in Threads : SignalIo(t)
  BY <1>8, <1>14 DEF SignalIo, grpcVars, IoKinds
<1>15. ASSUME ops \subseteq ops',
              UNCHANGED <<queue, runVars, server, cqShutdown, stopPc>>
       PROVE  ShutdownInv' /\ AlwaysListening'
  BY <1>15 DEF AlwaysListening, runVars
<1>16. CASE \E t \in Threads : Continue(t) \/ CallApi(t)
  <2> PICK t \in Threads : Continue(t) \/ CallApi(t)
    BY <1>16
  <2>1. CASE SubmitIo(t)
    BY <2>1, <1>15 DEF SubmitIo, Begin
  <2>2. CASE FinishFromLabVIEW(t)
    BY <2>2, <1>15 DEF FinishFromLabVIEW, StreamFinish, Begin
  <2>3. CASE UNCHANGED <<grpcVars, runVars, stopPc>>
    BY <2>3, <1>1 DEF grpcVars
  <2> QED
    BY <2>1, <2>2, <2>3
       DEF Continue, CallApi, CheckActive, CopyFromClusterThrows, EndIo,
           DeregisterCleanupProc, UnregisterPointer, BeginIo, BeginClose,
           SetCallStatus, SetCallStatusError, ReturnStatus
<1>17. CASE StopServer
  <2>1. CASE StopShutdown
    BY <2>1 DEF StopShutdown, AlwaysListening
  <2>2. CASE StopCq
    BY <2>2 DEF StopCq, AlwaysListening, runVars
  <2>3. CASE StopJoin
    BY <2>3 DEF StopJoin, AlwaysListening, runVars, grpcVars
  <2> QED
    BY <1>17, <2>1, <2>2, <2>3 DEF StopServer
<1>18. CASE Library
  <2>1. CASE \E c \in Calls : ClientCancel(c)
    BY <2>1, <1>1 DEF ClientCancel
  <2> QED
    BY <1>18, <2>1, <1>2, LibraryStep
<1>19. CASE UNCHANGED vars
  BY <1>1, <1>19 DEF vars, grpcVars
<1> QED
  BY <1>3, <1>4, <1>5, <1>6, <1>7, <1>9, <1>10, <1>11, <1>12, <1>13, <1>14,
     <1>16, <1>17, <1>18, <1>19
     DEF Next, RunThread, Terminated

----------------------------------------------------------------------------
(* The tags of a call *)

TagKinds == {"Request", "Done", "Finish"}

\* A step that leaves the state and the tags of c alone, and lets LabVIEW
\* threads at it only if it is registered.
LEMMA CallKeepsTags ==
  ASSUME IInv, NEW c \in Calls,
         cur' = cur \/ (cur.call # c /\ cur' = NoEvent), queue' = queue,
         cur.call = c /\ runPc = "connect" => runPc' = "connect",
         status'[c] = status[c], finishedTag'[c] = finishedTag[c],
         sent'[c] = sent[c],
         \A k \in TagKinds : <<k, c>> \in ops' <=> <<k, c>> \in ops,
         c \in registered' => c \in registered,
         \A t \in Threads : arg'[t] = c => arg[t] = c \/ c \in registered
  PROVE  TagInv(c)' /\ (InFlight("Done", c) => finishedTag[c])'
<1>1. cur' = cur \/ (cur.call # c /\ cur'.call # c)
  BY CallsAssumption DEF NoEvent
<1>2. \A k \in TagKinds : InFlight(k, c)' <=> InFlight(k, c)
  BY <1>1 DEF InFlight
<1>3. TagInv(c) /\ (InFlight("Done", c) => finishedTag[c])
  BY DEF IInv, DoneTagExists
<1>4. OnePlace("Request", c)' /\ OnePlace("Done", c)'
  BY <1>1, <1>3 DEF TagInv, OnePlace, TagKinds
<1>5. RequestInv(c)' /\ FinishInv(c)' /\ SentInv(c)'
  BY <1>1, <1>2, <1>3 DEF TagInv, RequestInv, FinishInv, SentInv, TagKinds
<1> QED
  BY <1>2, <1>3, <1>4, <1>5 DEF TagInv, TagKinds

\* The library moves a tag from one place to the next.
LEMMA CompletesKeepsTags ==
  ASSUME IInv, NEW d \in Calls, NEW k \in OpKinds, NEW ok \in BOOLEAN,
         Completes(k, d, ok)
  PROVE  (\A c \in Calls : TagInv(c)') /\ DoneTagExists'
<1> DEFINE e == [kind |-> k, call |-> d, ok |-> ok]
<1> SUFFICES ASSUME NEW c \in Calls
             PROVE  TagInv(c)' /\ (InFlight("Done", c) => finishedTag[c])'
  BY DEF DoneTagExists
<1>1. /\ ops' = ops \ {<<k, d>>} /\ queue' = queue \cup {e}
      /\ <<k, d>> \in ops
      /\ UNCHANGED <<status, finishedTag, sent, registered, arg, cur, runPc>>
  BY DEF Completes, Enqueue, callVars, idVars, runVars, threadVars
<1>2. e.kind = k /\ e.call = d
  OBVIOUS
<1> HIDE DEF e
<1>3. \A j \in OpKinds : InFlight(j, c)' <=> InFlight(j, c)
  BY <1>1, <1>2 DEF InFlight
<1>4. TagInv(c) /\ (InFlight("Done", c) => finishedTag[c])
  BY DEF IInv, DoneTagExists
<1>5. OnePlace("Request", c)' /\ OnePlace("Done", c)'
  BY <1>1, <1>2, <1>4 DEF TagInv, OnePlace
<1>6. RequestInv(c)' /\ FinishInv(c)' /\ SentInv(c)'
  BY <1>1, <1>3, <1>4 DEF TagInv, RequestInv, FinishInv, SentInv, OpKinds
<1> QED
  BY <1>1, <1>3, <1>4, <1>5, <1>6 DEF TagInv, OpKinds

\* The run thread takes an event.  With a connection the library begins the
\* Done operation.
LEMMA CqNextKeepsTags ==
  ASSUME IInv, NEW e \in queue, CqNext(e)
  PROVE  (\A c \in Calls : TagInv(c)') /\ DoneTagExists'
<1> SUFFICES ASSUME NEW c \in Calls
             PROVE  TagInv(c)' /\ (InFlight("Done", c) => finishedTag[c])'
  BY DEF DoneTagExists
<1>1. /\ queue' = queue \ {e} /\ cur' = e /\ cur = NoEvent
      /\ ops' = IF e.kind = "Request" /\ e.ok
                THEN ops \cup {<<"Done", e.call>>} ELSE ops
      /\ runPc = "next" /\ runPc' = "proceed"
      /\ UNCHANGED <<status, finishedTag, sent, registered, arg>>
  BY DEF IInv, RunThreadInv, CqNext, callVars, idVars, threadVars
<1>2. e.call \in Calls
  BY DEF IInv, TypeOK, Event
<1>3. TagInv(c) /\ (InFlight("Done", c) => finishedTag[c])
  BY DEF IInv, DoneTagExists
<1>4. cur.kind = "None" /\ cur.call # c
  BY <1>1, CallsAssumption DEF NoEvent
<1>5. \A k \in {"Request", "Finish"} : InFlight(k, c)' <=> InFlight(k, c)
  BY <1>1, <1>4 DEF InFlight
<1>6. CASE e.call = c /\ e.kind = "Request"
  <2>1. InFlight("Request", c)
    BY <1>6 DEF InFlight
  <2>2. ~InFlight("Done", c) /\ finishedTag[c]
    BY <1>3, <1>4, <2>1 DEF TagInv, RequestInv
  <2>3. OnePlace("Request", c)'
    BY <1>1, <1>3, <1>4, <1>6 DEF TagInv, OnePlace
  <2>4. OnePlace("Done", c)'
    BY <1>1, <1>6, <2>2 DEF OnePlace, InFlight
  <2>5. InFlight("Done", c)' => e.ok
    BY <1>1, <1>6, <2>2 DEF InFlight
  <2>6. RequestInv(c)'
    BY <1>1, <1>3, <1>6, <2>1, <2>5 DEF TagInv, RequestInv
  <2> QED
    BY <1>1, <1>3, <1>5, <2>2, <2>3, <2>4, <2>6
       DEF TagInv, FinishInv, SentInv
<1>7. CASE ~(e.call = c /\ e.kind = "Request")
  <2>1. InFlight("Done", c)' <=> InFlight("Done", c)
    BY <1>1, <1>4, <1>7 DEF InFlight
  <2>2. OnePlace("Request", c)' /\ OnePlace("Done", c)'
    BY <1>1, <1>3, <1>4, <1>7 DEF TagInv, OnePlace
  <2>3. ~(InFlight("Request", c) /\ InFlight("Done", c))
    BY <1>3, <1>4 DEF TagInv, RequestInv
  <2>4. RequestInv(c)'
    BY <1>1, <1>3, <1>5, <2>1, <2>3 DEF TagInv, RequestInv
  <2> QED
    BY <1>1, <1>3, <1>5, <2>1, <2>2, <2>4 DEF TagInv, FinishInv, SentInv
<1> QED
  BY <1>6, <1>7

\* When the run thread is through with an event its tag is gone.
LEMMA EventConsumed ==
  ASSUME NEW c \in Calls, NEW k \in {"Request", "Done"}, OnePlace(k, c),
         cur.kind = k, cur.call = c, NextEvent, queue' = queue,
         <<k, c>> \in ops' <=> <<k, c>> \in ops
  PROVE  ~InFlight(k, c)'
  BY CallsAssumption DEF OnePlace, InFlight, NextEvent, NoEvent

\* Consuming an event leaves every other tag where it is.
LEMMA EventsKept ==
  ASSUME NEW c \in Calls, NEW k \in TagKinds, cur.kind # k \/ cur.call # c,
         NextEvent, queue' = queue,
         <<k, c>> \in ops' <=> <<k, c>> \in ops
  PROVE  /\ InFlight(k, c)' <=> InFlight(k, c)
         /\ OnePlace(k, c) => OnePlace(k, c)'
  BY CallsAssumption DEF OnePlace, InFlight, NextEvent, NoEvent

\* A tag that is nowhere is in one place at most.
LEMMA NowhereIsOnePlace ==
  ASSUME NEW c \in Calls, NEW k \in TagKinds, ~InFlight(k, c)'
  PROVE  OnePlace(k, c)'
  BY DEF OnePlace, InFlight

\* Proceed(false): a failed RequestCall is gone for good and with it the
\* CallFinishedTag; a failed Finish ends a call that was finishing.
LEMMA ProceedNotOkKeepsTags ==
  ASSUME IInv, ProceedNotOk
  PROVE  (\A c \in Calls : TagInv(c)') /\ DoneTagExists'
<1> SUFFICES ASSUME NEW c \in Calls
             PROVE  TagInv(c)' /\ (InFlight("Done", c) => finishedTag[c])'
  BY DEF DoneTagExists
<1>1. /\ NextEvent /\ UNCHANGED <<ops, queue, sent, registered, arg>>
      /\ cur.kind \in {"Request", "Finish"} /\ ~cur.ok
      /\ status' = [status EXCEPT ![cur.call] = "Finished"]
      /\ finishedTag' = [finishedTag EXCEPT ![cur.call] =
                           @ /\ status[cur.call] # "WaitingForConnection"]
  BY DEF ProceedNotOk, IsCallTag, idVars, grpcVars, threadVars
<1>2. TypeOK /\ TagInv(c) /\ (InFlight("Done", c) => finishedTag[c])
  BY DEF IInv, DoneTagExists
<1>3. CASE cur.call # c
  BY <1>1, <1>2, <1>3, CallKeepsTags DEF NextEvent, TypeOK
<1>4. CASE cur.call = c /\ cur.kind = "Request"
  <2>1. InFlight("Request", c)
    BY <1>4 DEF InFlight
  <2>2. ~InFlight("Request", c)'
    BY <1>1, <1>2, <1>4, EventConsumed DEF TagInv
  <2>3. ~InFlight("Done", c)'
    BY <1>1, <1>2, <1>4, <2>1, EventsKept DEF TagInv, RequestInv, TagKinds
  <2>4. status'[c] = "Finished"
    BY <1>1, <1>2, <1>4 DEF TypeOK
  <2> QED
    BY <1>1, <1>2, <2>2, <2>3, <2>4, NowhereIsOnePlace
       DEF TagInv, RequestInv, FinishInv, SentInv, TagKinds
<1>5. CASE cur.call = c /\ cur.kind = "Finish"
  <2>1. status[c] \in {"Finishing", "Finished"}
    BY <1>2, <1>5 DEF TagInv, FinishInv, InFlight
  <2>2. ~InFlight("Request", c)'
    BY <1>1, <1>2, <1>5, <2>1, EventsKept DEF TagInv, RequestInv, TagKinds
  <2>3. /\ InFlight("Done", c)' <=> InFlight("Done", c)
        /\ OnePlace("Done", c)'
    BY <1>1, <1>2, <1>5, EventsKept DEF TagInv, TagKinds
  <2>4. status'[c] = "Finished" /\ finishedTag'[c] = finishedTag[c]
    BY <1>1, <1>2, <1>5, <2>1 DEF TypeOK
  <2> QED
    BY <1>1, <1>2, <2>2, <2>3, <2>4, NowhereIsOnePlace
       DEF TagInv, RequestInv, FinishInv, SentInv, TagKinds
<1> QED
  BY <1>1, <1>3, <1>4, <1>5

\* Proceed(true) after Finish.
LEMMA ProceedFinishKeepsTags ==
  ASSUME IInv, ProceedFinish
  PROVE  (\A c \in Calls : TagInv(c)') /\ DoneTagExists'
<1> SUFFICES ASSUME NEW c \in Calls
             PROVE  TagInv(c)' /\ (InFlight("Done", c) => finishedTag[c])'
  BY DEF DoneTagExists
<1>1. /\ NextEvent
      /\ UNCHANGED <<ops, queue, sent, registered, arg, finishedTag>>
      /\ cur.kind \in {"Request", "Finish"}
      /\ status[cur.call] \in {"Finishing", "Finished"}
      /\ status' = [status EXCEPT ![cur.call] = "Finished"]
  BY DEF ProceedFinish, IsCallTag, idVars, grpcVars, threadVars
<1>2. TypeOK /\ TagInv(c) /\ (InFlight("Done", c) => finishedTag[c])
  BY DEF IInv, DoneTagExists
<1>3. CASE cur.call # c
  BY <1>1, <1>2, <1>3, CallKeepsTags DEF NextEvent, TypeOK
<1>4. CASE cur.call = c
  <2>1. ~InFlight("Request", c) /\ cur.kind = "Finish"
    BY <1>1, <1>2, <1>4 DEF TagInv, RequestInv, InFlight
  <2>2. ~InFlight("Request", c)'
    BY <1>1, <1>4, <2>1, EventsKept DEF TagKinds
  <2>3. /\ InFlight("Done", c)' <=> InFlight("Done", c)
        /\ OnePlace("Done", c)'
    BY <1>1, <1>2, <2>1, EventsKept DEF TagInv, TagKinds
  <2>4. status'[c] = "Finished"
    BY <1>1, <1>2, <1>4 DEF TypeOK
  <2> QED
    BY <1>1, <1>2, <2>2, <2>3, <2>4, NowhereIsOnePlace
       DEF TagInv, RequestInv, FinishInv, SentInv, TagKinds
<1> QED
  BY <1>3, <1>4

\* CallFinishedTag::Proceed deletes the tag after its only delivery.
LEMMA FinishFromCompletionQueueKeepsTags ==
  ASSUME IInv, FinishFromCompletionQueue
  PROVE  (\A c \in Calls : TagInv(c)') /\ DoneTagExists'
<1> SUFFICES ASSUME NEW c \in Calls
             PROVE  TagInv(c)' /\ (InFlight("Done", c) => finishedTag[c])'
  BY DEF DoneTagExists
<1>1. /\ NextEvent /\ UNCHANGED <<ops, queue, sent, registered, arg>>
      /\ cur.kind = "Done"
      /\ finishedTag' = [finishedTag EXCEPT ![cur.call] = FALSE]
      /\ status' = [status EXCEPT ![cur.call] =
                      IF @ \in {"Finishing", "Finished"} THEN @ ELSE "Finished"]
  BY DEF FinishFromCompletionQueue, idVars, grpcVars, threadVars
<1>2. TypeOK /\ TagInv(c)
  BY DEF IInv
<1>3. CASE cur.call # c
  BY <1>1, <1>2, <1>3, CallKeepsTags DEF NextEvent, TypeOK
<1>4. CASE cur.call = c
  <2>1. ~InFlight("Request", c)
    BY <1>1, <1>2, <1>4 DEF TagInv, RequestInv, InFlight
  <2>2. ~InFlight("Request", c)'
    BY <1>1, <2>1, EventsKept DEF TagKinds
  <2>3. ~InFlight("Done", c)'
    BY <1>1, <1>2, <1>4, EventConsumed DEF TagInv
  <2>4. status'[c] \in {"Finishing", "Finished"}
    BY <1>1, <1>2, <1>4 DEF TypeOK
  <2> QED
    BY <1>1, <1>2, <2>2, <2>3, <2>4, NowhereIsOnePlace
       DEF TagInv, RequestInv, FinishInv, SentInv, TagKinds
<1> QED
  BY <1>3, <1>4

\* A connection becomes Connected when its RequestCall tag is used up.
LEMMA ConnectKeepsTags ==
  ASSUME IInv, Connect
  PROVE  (\A c \in Calls : TagInv(c)') /\ DoneTagExists'
<1> SUFFICES ASSUME NEW c \in Calls
             PROVE  TagInv(c)' /\ (InFlight("Done", c) => finishedTag[c])'
  BY DEF DoneTagExists
<1>1. /\ NextEvent
      /\ UNCHANGED <<ops, queue, sent, registered, arg, finishedTag>>
      /\ cur.kind = "Request"
      /\ status' = [status EXCEPT ![cur.call] = "Connected"]
  BY DEF Connect, IInv, RunThreadInv, idVars, grpcVars, threadVars
<1>2. TypeOK /\ TagInv(c) /\ (InFlight("Done", c) => finishedTag[c])
  BY DEF IInv, DoneTagExists
<1>3. CASE cur.call # c
  BY <1>1, <1>2, <1>3, CallKeepsTags DEF NextEvent, TypeOK
<1>4. CASE cur.call = c
  <2>1. status[c] = "WaitingForConnection"
    BY <1>1, <1>2, <1>4 DEF TagInv, RequestInv, InFlight
  <2>2. ~InFlight("Request", c)'
    BY <1>1, <1>2, <1>4, EventConsumed DEF TagInv
  <2>3. /\ InFlight("Done", c)' <=> InFlight("Done", c)
        /\ OnePlace("Done", c)'
    BY <1>1, <1>2, EventsKept DEF TagInv, TagKinds
  <2>4. ~InFlight("Finish", c)'
    BY <1>1, <1>2, <2>1, EventsKept DEF TagInv, FinishInv, TagKinds
  <2>5. sent'[c] = <<>>
    BY <1>1, <1>2, <2>1 DEF TagInv, SentInv
  <2> QED
    BY <1>1, <1>2, <2>2, <2>3, <2>4, <2>5, NowhereIsOnePlace
       DEF TagInv, RequestInv, FinishInv, SentInv, TagKinds
<1> QED
  BY <1>3, <1>4

\* Create gives a new call its RequestCall tag and its CallFinishedTag.
LEMMA SpawnNextKeepsTags ==
  ASSUME IInv, SpawnNext
  PROVE  (\A c \in Calls : TagInv(c)') /\ DoneTagExists'
<1> SUFFICES ASSUME NEW c \in Calls
             PROVE  TagInv(c)' /\ (InFlight("Done", c) => finishedTag[c])'
  BY DEF DoneTagExists
<1> PICK d \in Calls : Create(d)
  BY DEF SpawnNext
<1>1. /\ UNCHANGED <<queue, cur, registered, arg>>
      /\ runPc = "create"
      /\ ops' \in {ops, ops \cup {<<"Request", d>>}}
      /\ status' = [status EXCEPT ![d] = "WaitingForConnection"]
      /\ finishedTag' = [finishedTag EXCEPT ![d] = TRUE]
      /\ sent' = [sent EXCEPT ![d] = <<>>]
  BY DEF SpawnNext, Create, Begin, threadVars
<1>2. TypeOK
  BY DEF IInv
<1>3. CASE c # d
  BY <1>1, <1>2, <1>3, CallKeepsTags DEF TypeOK
<1>4. CASE c = d
  <2>1. /\ \A k \in OpKinds : <<k, c>> \notin ops
        /\ \A e \in queue : e.call # c
        /\ cur.call # c
        /\ c \notin registered
        /\ \A t \in Threads : arg[t] # c
    BY <1>4 DEF Create, Alive
  <2>2. ~InFlight("Done", c)' /\ ~InFlight("Finish", c)'
    BY <1>1, <2>1 DEF InFlight, OpKinds
  <2>3. OnePlace("Request", c)'
    BY <1>1, <2>1 DEF OnePlace, OpKinds
  <2>4. /\ status'[c] = "WaitingForConnection" /\ finishedTag'[c]
        /\ sent'[c] = <<>>
    BY <1>1, <1>2, <1>4 DEF TypeOK
  <2> QED
    BY <1>1, <2>1, <2>2, <2>3, <2>4, NowhereIsOnePlace
       DEF TagInv, RequestInv, FinishInv, SentInv, TagKinds
<1> QED
  BY <1>3, <1>4

\* Publish makes the call known to LabVIEW while _stateMutex is held.
LEMMA PublishKeepsTags ==
  ASSUME IInv, Publish
  PROVE  (\A c \in Calls : TagInv(c)') /\ DoneTagExists'
<1> SUFFICES ASSUME NEW c \in Calls
             PROVE  TagInv(c)' /\ (InFlight("Done", c) => finishedTag[c])'
  BY DEF DoneTagExists
<1>1. /\ UNCHANGED <<queue, cur, ops, status, finishedTag, sent, arg>>
      /\ runPc = "publish" /\ runPc' = "connect"
      /\ registered' = registered \cup {cur.call}
  BY DEF Publish, callVars, grpcVars, threadVars
<1>2. CASE c # cur.call
  BY <1>1, <1>2, CallKeepsTags
<1>3. CASE c = cur.call
  <2>1. \A k \in TagKinds : InFlight(k, c)' <=> InFlight(k, c)
    BY <1>1 DEF InFlight
  <2>2. TagInv(c) /\ (InFlight("Done", c) => finishedTag[c])
    BY DEF IInv, DoneTagExists
  <2>3. OnePlace("Request", c)' /\ OnePlace("Done", c)'
    BY <1>1, <2>2 DEF TagInv, OnePlace
  <2> QED
    BY <1>1, <1>3, <2>1, <2>2, <2>3
       DEF TagInv, RequestInv, FinishInv, SentInv, TagKinds
<1> QED
  BY <1>2, <1>3

\* A call whose Finish is started, by Proceed or by LabVIEW, when no
\* RequestCall tag of it is left.
LEMMA FinishingKeepsTags ==
  ASSUME IInv, NEW c \in Calls, NEW s, StreamFinish(c, s),
         status[c] \notin {"Finishing", "Finished"},
         status' = [status EXCEPT ![c] = "Finishing"],
         finishedTag' = finishedTag, queue' = queue,
         ~InFlight("Request", c)',
         InFlight("Done", c)' <=> InFlight("Done", c),
         OnePlace("Done", c)'
  PROVE  TagInv(c)' /\ (InFlight("Done", c) => finishedTag[c])'
<1>1. TypeOK /\ TagInv(c) /\ (InFlight("Done", c) => finishedTag[c])
  BY DEF IInv, DoneTagExists
<1>2. status'[c] = "Finishing"
  BY <1>1 DEF TypeOK
<1>3. sent[c] = <<>>
  BY <1>1 DEF TagInv, SentInv
<1>4. sent'[c] = Append(<<>>, s)
  BY <1>1, <1>3 DEF StreamFinish, TypeOK
<1>5. Len(sent'[c]) = 1
  BY <1>4
<1> QED
  BY <1>1, <1>2, <1>5, NowhereIsOnePlace
     DEF TagInv, RequestInv, FinishInv, SentInv, TagKinds

\* What _stream.Finish does to the tags.
LEMMA StreamFinishTags ==
  ASSUME NEW c \in Calls, NEW s, StreamFinish(c, s)
  PROVE  \A d \in Calls :
           /\ d # c => \A k \in TagKinds : <<k, d>> \in ops' <=> <<k, d>> \in ops
           /\ \A k \in {"Request", "Done"} :
                <<k, d>> \in ops' <=> <<k, d>> \in ops
  BY DEF StreamFinish, Begin, TagKinds

\* The rejection of an unknown method.
LEMMA RejectKeepsTags ==
  ASSUME IInv, RejectUnimplemented
  PROVE  (\A c \in Calls : TagInv(c)') /\ DoneTagExists'
<1> SUFFICES ASSUME NEW c \in Calls
             PROVE  TagInv(c)' /\ (InFlight("Done", c) => finishedTag[c])'
  BY DEF DoneTagExists
<1>1. /\ NextEvent
      /\ UNCHANGED <<queue, registered, arg, finishedTag>>
      /\ cur.kind = "Request"
      /\ status' = [status EXCEPT ![cur.call] = "Finishing"]
      /\ StreamFinish(cur.call, "UNIMPLEMENTED")
  BY DEF RejectUnimplemented, IInv, RunThreadInv, idVars, threadVars
<1>2. TypeOK /\ TagInv(c) /\ cur.call \in Calls
  BY <1>1, CurIsEvent DEF IInv
<1>3. CASE cur.call # c
  <2>1. sent'[c] = sent[c] /\ status'[c] = status[c]
    BY <1>1, <1>2, <1>3 DEF StreamFinish, TypeOK
  <2> QED
    BY <1>1, <1>2, <1>3, <2>1, StreamFinishTags, CallKeepsTags DEF NextEvent
<1>4. CASE cur.call = c
  <2>1. status[c] = "WaitingForConnection"
    BY <1>1, <1>2, <1>4 DEF TagInv, RequestInv, InFlight
  <2>2. ~InFlight("Request", c)'
    BY <1>1, <1>2, <1>4, StreamFinishTags, EventConsumed DEF TagInv
  <2>3. /\ InFlight("Done", c)' <=> InFlight("Done", c)
        /\ OnePlace("Done", c)'
    BY <1>1, <1>2, StreamFinishTags, EventsKept DEF TagInv, TagKinds
  <2> QED
    BY <1>1, <1>2, <1>4, <2>1, <2>2, <2>3, FinishingKeepsTags
<1> QED
  BY <1>3, <1>4

\* FinishFromLabVIEW: a thread got at the call, so it was registered, so its
\* RequestCall tag is used up once _stateMutex is free.
LEMMA FinishFromLabVIEWKeepsTags ==
  ASSUME IInv, NEW t \in Threads, FinishFromLabVIEW(t)
  PROVE  (\A c \in Calls : TagInv(c)') /\ DoneTagExists'
<1> SUFFICES ASSUME NEW c \in Calls
             PROVE  TagInv(c)' /\ (InFlight("Done", c) => finishedTag[c])'
  BY DEF DoneTagExists
<1>1. /\ UNCHANGED <<queue, cur, runPc, registered, arg, finishedTag>>
      /\ ~StateLocked(arg[t])
      /\ arg[t] \in Calls
  BY DEF FinishFromLabVIEW, IInv, ThreadInv, idVars, runVars
<1>2. TypeOK /\ TagInv(c)
  BY DEF IInv
<1>3. CASE status[arg[t]] \in {"Finishing", "Finished"}
  <2>1. UNCHANGED <<status, sent, ops>>
    BY <1>3 DEF FinishFromLabVIEW
  <2> QED
    BY <1>1, <2>1, CallKeepsTags
<1>4. CASE status[arg[t]] \notin {"Finishing", "Finished"}
  <2>1. /\ status' = [status EXCEPT ![arg[t]] = "Finishing"]
        /\ StreamFinish(arg[t], callStatus[arg[t]])
    BY <1>4 DEF FinishFromLabVIEW
  <2>2. CASE c # arg[t]
    <3>1. sent'[c] = sent[c] /\ status'[c] = status[c]
      BY <1>1, <1>2, <2>1, <2>2 DEF StreamFinish, TypeOK
    <3> QED
      BY <1>1, <1>2, <2>1, <2>2, <3>1, StreamFinishTags, CallKeepsTags
  <2>3. CASE c = arg[t]
    <3>1. ~InFlight("Request", c)
      BY <1>1, <1>2, <2>3 DEF TagInv, RequestInv, StateLocked
    <3>2. /\ ~InFlight("Request", c)'
          /\ InFlight("Done", c)' <=> InFlight("Done", c)
      BY <1>1, <2>1, <3>1, StreamFinishTags DEF InFlight
    <3>3. OnePlace("Done", c)'
      BY <1>1, <1>2, <2>1, StreamFinishTags DEF TagInv, OnePlace
    <3> QED
      BY <1>1, <1>4, <2>1, <2>3, <3>2, <3>3, FinishingKeepsTags
  <2> QED
    BY <2>2, <2>3
<1> QED
  BY <1>3, <1>4

\* The steps of LabVIEW threads other than FinishFromLabVIEW touch no tag.
LEMMA ThreadKeepsTags ==
  ASSUME IInv, NEW t \in Threads, Continue(t) \/ CallApi(t)
  PROVE  (\A c \in Calls : TagInv(c)') /\ DoneTagExists'
<1>1. CASE FinishFromLabVIEW(t)
  BY <1>1, FinishFromLabVIEWKeepsTags
<1>2. CASE ~FinishFromLabVIEW(t)
  <2>1. UNCHANGED <<status, finishedTag, sent, queue, cur, runPc>>
    BY <1>2 DEF Continue, CallApi, CheckActive, SubmitIo,
                CopyFromClusterThrows, EndIo, DeregisterCleanupProc,
                UnregisterPointer, BeginIo, BeginClose, SetCallStatus,
                SetCallStatusError, ReturnStatus,
                callVars, grpcVars, runVars
  <2>2. \A k \in TagKinds, c \in Calls : <<k, c>> \in ops' <=> <<k, c>> \in ops
    <3>1. CASE SubmitIo(t)
      <4>1. op[t] \in IoKinds
        BY <3>1 DEF SubmitIo, IInv, ThreadInv
      <4> QED
        BY <3>1, <4>1 DEF SubmitIo, Begin, TagKinds, IoKinds
    <3>2. CASE UNCHANGED ops
      BY <3>2
    <3> QED
      BY <1>2, <3>1, <3>2
         DEF Continue, CallApi, CheckActive, CopyFromClusterThrows, EndIo,
             DeregisterCleanupProc, UnregisterPointer, BeginIo, BeginClose,
             SetCallStatus, SetCallStatusError, ReturnStatus, grpcVars
  <2>3. registered' \subseteq registered
    BY <1>2 DEF Continue, CallApi, CheckActive, SubmitIo,
                CopyFromClusterThrows, EndIo, DeregisterCleanupProc,
                UnregisterPointer, BeginIo, BeginClose, SetCallStatus,
                SetCallStatusError, ReturnStatus, idVars
  <2>4. \A u \in Threads : arg'[u] \in {arg[u], NoCall} \cup registered
    BY <1>2 DEF Continue, CallApi, CheckActive, SubmitIo,
                CopyFromClusterThrows, EndIo, DeregisterCleanupProc,
                UnregisterPointer, BeginIo, BeginClose, SetCallStatus,
                SetCallStatusError, ReturnStatus,
                threadVars, Leave, Enter, IInv, TypeOK
  <2> QED
    BY <2>1, <2>2, <2>3, <2>4, CallKeepsTags, CallsAssumption
       DEF DoneTagExists
<1> QED
  BY <1>1, <1>2

\* Every step keeps the invariant of the tags.
LEMMA NextTags ==
  ASSUME IInv, [Next]_vars
  PROVE  (\A c \in Calls : TagInv(c)') /\ DoneTagExists'
<1>1. ASSUME UNCHANGED <<status, finishedTag, sent, queue, ops, registered, arg>>,
             cur' = cur \/ (cur' = NoEvent /\ cur.kind \in IoKinds),
             runPc = "connect" => runPc' = "connect"
      PROVE  (\A c \in Calls : TagInv(c)') /\ DoneTagExists'
  <2> SUFFICES ASSUME NEW c \in Calls
               PROVE  TagInv(c)' /\ (InFlight("Done", c) => finishedTag[c])'
    BY DEF DoneTagExists
  <2>1. CASE cur' = cur
    BY <1>1, <2>1, CallKeepsTags
  <2>2. CASE cur' = NoEvent /\ cur.kind \in IoKinds
    <3>1. /\ cur'.kind = "None" /\ cur'.call # c
          /\ cur.kind \notin TagKinds /\ runPc # "connect"
      BY <2>2, CallsAssumption
         DEF NoEvent, IoKinds, TagKinds, IInv, RunThreadInv
    <3>2. \A k \in TagKinds : InFlight(k, c)' <=> InFlight(k, c)
      BY <1>1, <3>1 DEF InFlight, TagKinds
    <3>3. TagInv(c) /\ (InFlight("Done", c) => finishedTag[c])
      BY DEF IInv, DoneTagExists
    <3>4. OnePlace("Request", c)' /\ OnePlace("Done", c)'
      BY <1>1, <3>1, <3>3 DEF TagInv, OnePlace, TagKinds
    <3> QED
      BY <1>1, <3>1, <3>2, <3>3, <3>4
         DEF TagInv, RequestInv, FinishInv, SentInv, TagKinds
  <2> QED
    BY <1>1, <2>1, <2>2
<1>2. CASE Library
  <2>1. CASE \E c \in Calls : ClientCancel(c)
    BY <1>1, <2>1 DEF ClientCancel, callVars, idVars, runVars, threadVars
  <2> QED
    BY <1>2, <2>1, LibraryStep, CompletesKeepsTags DEF IInv
<1>3. CASE RunThread
  <2>1. CASE CqDrained \/ ProceedConnection
    BY <1>1, <2>1 DEF CqDrained, ProceedConnection, callVars, idVars, grpcVars,
                      threadVars
  <2>2. CASE \E t \in Threads : SignalIo(t)
    BY <1>1, <2>2 DEF SignalIo, NextEvent, callVars, idVars, grpcVars
  <2> QED
    BY <1>3, <2>1, <2>2, CqNextKeepsTags, ProceedNotOkKeepsTags,
       ProceedFinishKeepsTags, SpawnNextKeepsTags, PublishKeepsTags,
       ConnectKeepsTags, RejectKeepsTags, FinishFromCompletionQueueKeepsTags
       DEF RunThread
<1>4. CASE \E t \in Threads : Continue(t) \/ CallApi(t)
  BY <1>4, ThreadKeepsTags
<1>5. CASE StopServer
  BY <1>1, <1>5 DEF StopServer, StopShutdown, StopCq, StopJoin, callVars,
                    idVars, grpcVars, runVars, threadVars
<1>6. CASE UNCHANGED vars
  BY <1>1, <1>6 DEF vars, callVars, idVars, grpcVars, runVars, threadVars
<1> QED
  BY <1>2, <1>3, <1>4, <1>5, <1>6 DEF Next, Terminated

----------------------------------------------------------------------------
(* The theorems *)

\* The first CallData of HandleRpcs satisfies the invariant.
LEMMA InitIInv == Init => IInv
<1> SUFFICES ASSUME Init PROVE IInv
  OBVIOUS
<1> PICK c0 \in Calls :
      /\ status = [c \in Calls |-> IF c = c0 THEN "WaitingForConnection"
                                             ELSE "NotCreated"]
      /\ finishedTag = [c \in Calls |-> c = c0]
      /\ ops = {<<"Request", c0>>}
  BY DEF Init
<1>1. /\ sent = [c \in Calls |-> <<>>] /\ queue = {} /\ cur = NoEvent
      /\ runPc = "next" /\ registered = {} /\ stopPc = "idle"
      /\ ~cqShutdown
      /\ pc = [t \in Threads |-> "idle"] /\ arg = [t \in Threads |-> NoCall]
  BY DEF Init
<1>2. cur.kind = "None" /\ cur.call = NoCall
  BY <1>1 DEF NoEvent
<1>3. ThreadInv /\ RunThreadInv
  BY <1>1 DEF ThreadInv, RunThreadInv
<1>4. ShutdownInv
  BY <1>1, <1>2 DEF ShutdownInv
<1>5. ASSUME NEW c \in Calls
      PROVE  TagInv(c) /\ (InFlight("Done", c) => finishedTag[c])
  <2>1. ~InFlight("Done", c) /\ ~InFlight("Finish", c)
    BY <1>1, <1>2 DEF InFlight
  <2>2. OnePlace("Request", c) /\ OnePlace("Done", c)
    BY <1>1, <1>2 DEF OnePlace
  <2>3. InFlight("Request", c) => c = c0
    BY <1>1, <1>2 DEF InFlight
  <2>4. RequestInv(c)
    BY <1>1, <2>1, <2>3, CallsAssumption DEF RequestInv
  <2> QED
    BY <1>1, <2>1, <2>2, <2>4 DEF TagInv, FinishInv, SentInv
<1>6. AlwaysListening
  BY DEF AlwaysListening
<1> QED
  BY <1>3, <1>4, <1>5, <1>6, InitTypeOK DEF IInv, DoneTagExists

\* The invariant is inductive.
LEMMA NextIInv == IInv /\ [Next]_vars => IInv'
<1> SUFFICES ASSUME IInv, [Next]_vars PROVE IInv'
  OBVIOUS
<1>1. TypeOK' /\ ThreadInv'
  BY NextTypeOK DEF IInv
<1>2. RunThreadInv'
  BY NextRunThreadInv DEF IInv, TagInv
<1>3. ShutdownInv' /\ AlwaysListening'
  BY NextListening
<1>4. (\A c \in Calls : TagInv(c)') /\ DoneTagExists'
  BY NextTags
<1> QED
  BY <1>1, <1>2, <1>3, <1>4 DEF IInv

\* Every reachable state satisfies the inductive invariant.
THEOREM IInvInvariant == Spec => []IInv
  BY InitIInv, NextIInv, PTL DEF Spec

\* Type correctness of the server's calls.
THEOREM TypeCorrect == Spec => []TypeOK
<1>1. IInv => TypeOK
  BY DEF IInv
<1> QED
  BY <1>1, IInvInvariant, PTL

\* Finish is called at most once per RPC, for any number of calls and LabVIEW
\* threads (event_data.cc:205).
THEOREM FinishOnce == Spec => []FinishAtMostOnce
<1>1. IInv => FinishAtMostOnce
  BY DEF IInv, TagInv, SentInv, FinishAtMostOnce
<1> QED
  BY <1>1, IInvInvariant, PTL

\* The assert(false) of event_data.cc:185 is never reached.
THEOREM ConnectedGetsNoEvent == Spec => []NoEventWhileConnected
<1>1. IInv => NoEventWhileConnected
  <2> SUFFICES ASSUME IInv, runPc = "proceed", IsCallTag(cur)
               PROVE  status[cur.call] # "Connected"
    BY DEF NoEventWhileConnected
  <2>1. cur.kind \in {"Request", "Finish"} /\ cur.call \in Calls
    BY CurIsEvent DEF IsCallTag, IInv
  <2>2. InFlight(cur.kind, cur.call)
    BY DEF InFlight
  <2> QED
    BY <2>1, <2>2 DEF IInv, TagInv, RequestInv, FinishInv
<1> QED
  BY <1>1, IInvInvariant, PTL

\* A deleted CallFinishedTag is never delivered (event_data.cc:139-149).
THEOREM DoneTagIsValid == Spec => []DoneTagExists
<1>1. IInv => DoneTagExists
  BY DEF IInv
<1> QED
  BY <1>1, IInvInvariant, PTL

\* A running server always has a RequestCall pending or about to be made.
THEOREM ServerListens == Spec => []AlwaysListening
<1>1. IInv => AlwaysListening
  BY DEF IInv
<1> QED
  BY <1>1, IInvInvariant, PTL

\* No step takes the _status of a CallData that exists back.
LEMMA StatusAdvances ==
  ASSUME IInv, [Next]_vars, NEW c \in Calls, Alive(c)
  PROVE  Advances(c)
<1>1. TypeOK /\ TagInv(c) /\ status[c] \in CallStatus \cup {"NotCreated"}
  BY DEF IInv, TypeOK
<1>2. CASE status'[c] = status[c]
  BY <1>1, <1>2 DEF Advances, StatusRank, CallStatus
<1>3. CASE status'[c] = "Finished"
  BY <1>1, <1>3 DEF Advances, StatusRank, CallStatus
<1>4. CASE status[c] \notin {"Finishing", "Finished"} /\ status'[c] = "Finishing"
  BY <1>1, <1>4 DEF Advances, StatusRank, CallStatus
<1>5. CASE status[c] = "WaitingForConnection" /\ status'[c] = "Connected"
  BY <1>5 DEF Advances, StatusRank
<1>6. CASE SpawnNext
  BY <1>1, <1>2, <1>6 DEF SpawnNext, Create, TypeOK
<1>7. CASE Connect \/ RejectUnimplemented
  <2>1. cur.kind = "Request"
    BY <1>7 DEF Connect, RejectUnimplemented, IInv, RunThreadInv
  <2>2. cur.call = c => status[c] = "WaitingForConnection"
    BY <1>1, <2>1 DEF TagInv, RequestInv, InFlight
  <2> QED
    BY <1>1, <1>2, <1>4, <1>5, <1>7, <2>2
       DEF Connect, RejectUnimplemented, TypeOK
<1>8. CASE ProceedNotOk \/ ProceedFinish \/ FinishFromCompletionQueue
  BY <1>1, <1>2, <1>3, <1>8
     DEF ProceedNotOk, ProceedFinish, FinishFromCompletionQueue, TypeOK
<1>9. CASE \E t \in Threads : FinishFromLabVIEW(t)
  BY <1>1, <1>2, <1>4, <1>9 DEF FinishFromLabVIEW, TypeOK
<1>10. CASE Library
  BY <1>2, <1>10, LibraryStep
     DEF IInv, ClientCancel, Completes, callVars
<1>11. CASE \E t \in Threads : (Continue(t) \/ CallApi(t)) /\ ~FinishFromLabVIEW(t)
  BY <1>2, <1>11
     DEF Continue, CallApi, CheckActive, SubmitIo, CopyFromClusterThrows,
         EndIo, DeregisterCleanupProc, UnregisterPointer, BeginIo,
         BeginClose, SetCallStatus, SetCallStatusError, ReturnStatus, callVars
<1>12. CASE StopServer \/ UNCHANGED vars
  BY <1>2, <1>12 DEF StopServer, StopShutdown, StopCq, StopJoin, vars,
                     callVars
<1>13. CASE \/ \E e \in queue : CqNext(e)
            \/ CqDrained \/ ProceedConnection \/ Publish
            \/ \E t \in Threads : SignalIo(t)
  BY <1>2, <1>13 DEF CqNext, CqDrained, ProceedConnection, Publish, SignalIo,
                     callVars
<1> QED
  BY <1>6, <1>7, <1>8, <1>9, <1>10, <1>11, <1>12, <1>13
     DEF Next, RunThread, Terminated

\* No step of any thread takes _status back.
THEOREM StatusIsMonotone == Spec => StatusMovesForward
<1>1. IInv /\ [Next]_vars
        => [\A c \in Calls : Alive(c) => Advances(c)]_vars
  BY StatusAdvances
<1> QED
  BY <1>1, IInvInvariant, PTL DEF Spec, StatusMovesForward

------------------------------------------------------------------------------
(* Who is responsible for what a server's calls hold: a thread blocked on  *)
(* a read or a write is owed its event, an open RPC has somebody who can   *)
(* end it, and nothing is left when the server has stopped.  The argument  *)
(* adds to the tags where the RPC stands while a tag is around, who holds  *)
(* the read and write mutexes, and how the run thread leaves its loop.  It *)
(* is about processes that the library has not aborted.  From this follows *)
(* that ServerCalls implements RpcService.                                 *)

Over == {"Finishing", "Finished"}

\* A LabVIEW thread holds a call only inside an operation, and it gets past
\* FinishFromLabVIEW only when the call is over.
HoldInv ==
    \A t \in Threads :
        /\ pc[t] = "idle" => arg[t] = NoCall
        /\ pc[t] \in {"deregister", "unregister"} => status[arg[t]] \in Over

\* The RPC behind a tag: none while the RequestCall is pending or failed, over
\* when the Done tag has fired.
RpcInv(c) ==
    /\ <<"Request", c>> \in ops => rpc[c] = "none"
    /\ \A e \in queue \cup {cur} :
          e.call = c => /\ e.kind = "Request" /\ ~e.ok => rpc[c] = "none"
                        /\ e.kind = "Done" => rpc[c] \in Closed

\* A call that is being set up keeps its id until it is Connected.
PublishInv == runPc = "connect" => cur.call \in registered

\* While Proceed handles a connection its Done tag is in the queue's hands.
DoneInv ==
    cur.kind = "Request" /\ cur.ok =>
        \/ <<"Done", cur.call>> \in ops
        \/ \E e \in queue : e.kind = "Done" /\ e.call = cur.call

\* A CallFinishedTag exists only for a tag that is still to be delivered.
TagInFlight(c) ==
    finishedTag[c] => InFlight("Request", c) \/ InFlight("Done", c)

\* The run thread leaves HandleRpcs with an empty queue.
ExitInv ==
    /\ stopPc = "done" => runPc = "exited"
    /\ runPc = "exited" => cqShutdown /\ ops = {} /\ queue = {}

\* The thread t is blocked in tag->Wait() of its operation k on c.
Waits(t, k, c) == pc[t] = "wait" /\ arg[t] = c /\ op[t] = k

\* The thread t holds the mutex of the operations k on c.
Holds(t, k, c) ==
    pc[t] \in {"submit", "wait", "signalled"} /\ arg[t] = c /\ op[t] = k

\* One operation of a kind at a time: the holder of the mutex is unique, and
\* its tag is around exactly while it waits.
IoInv(k, c) ==
    /\ OnePlace(k, c)
    /\ \A t, u \in Threads : Holds(t, k, c) /\ Holds(u, k, c) => t = u
    /\ InFlight(k, c) <=> \E t \in Threads : Waits(t, k, c)

Own ==
    /\ HoldInv
    /\ \A c \in Calls : RpcInv(c) /\ TagInFlight(c)
    /\ PublishInv
    /\ DoneInv
    /\ ExitInv
    /\ OpenRpcHasOwner
    /\ \A c \in Calls, k \in IoKinds : IoInv(k, c)

\* The inductive invariant, relative to IInv.
OwnInv == ~aborted => Own

\* A step of a process that is not aborted, before and after.
Step ==
    /\ IInv /\ Own /\ ~aborted /\ ~aborted'
    /\ \/ Library
       \/ RunThread
       \/ \E t \in Threads : Continue(t) \/ CallApi(t)
       \/ StopServer

----------------------------------------------------------------------------
(* Facts about steps *)

\* An operation that does not abort is begun.
LEMMA BeginAdds ==
  ASSUME NEW k, NEW c, Begin(k, c), ~aborted'
  PROVE  ops' = ops \cup {<<k, c>>} /\ ~QueueClosed
  BY DEF Begin

\* A LabVIEW thread's step moves that thread only and leaves the run thread,
\* the RPCs and the completed events alone.
LEMMA ThreadView ==
  ASSUME TypeOK, NEW t \in Threads, Continue(t) \/ CallApi(t)
  PROVE  /\ UNCHANGED <<finishedTag, rpc, queue, server, cqShutdown, runPc,
                        cur, stopPc>>
         /\ \A u \in Threads \ {t} : /\ pc'[u] = pc[u] /\ arg'[u] = arg[u]
                                     /\ op'[u] = op[u]
<1>1. UNCHANGED <<finishedTag, rpc, queue, server, cqShutdown, runPc, cur,
                  stopPc>>
  BY DEF Continue, CallApi, CheckActive, SubmitIo, CopyFromClusterThrows,
         EndIo, FinishFromLabVIEW, DeregisterCleanupProc, UnregisterPointer,
         BeginIo, BeginClose, SetCallStatus, SetCallStatusError, ReturnStatus,
         callVars, grpcVars, runVars
<1>2. \A u \in Threads \ {t} : /\ pc'[u] = pc[u] /\ arg'[u] = arg[u]
                               /\ op'[u] = op[u]
  BY DEF Continue, CallApi, CheckActive, SubmitIo, CopyFromClusterThrows,
         EndIo, FinishFromLabVIEW, DeregisterCleanupProc, UnregisterPointer,
         BeginIo, BeginClose, SetCallStatus, SetCallStatusError, ReturnStatus,
         threadVars, Enter, Leave, TypeOK
<1> QED
  BY <1>1, <1>2

\* The library, the run thread and StopServer leave the LabVIEW threads
\* alone, except for waking one of them.
LEMMA OthersView ==
  ASSUME Library \/ RunThread \/ StopServer
  PROVE  \/ UNCHANGED threadVars
         \/ UNCHANGED <<arg, op>> /\ \E t \in Threads : SignalIo(t)
  BY DEF Library, ClientConnect, ClientCancel, FailRequest, CompleteIo, FailIo,
         CompleteFinish, CompleteDone, RunThread, CqNext, CqDrained,
         ProceedNotOk, ProceedFinish, ProceedConnection, SpawnNext, Publish,
         Connect, RejectUnimplemented, FinishFromCompletionQueue, SignalIo,
         StopServer, StopShutdown, StopCq, StopJoin, threadVars

\* A call that is over stays over.
LEMMA OverStays ==
  ASSUME Step, NEW c \in Calls, Alive(c), status[c] \in Over
  PROVE  status'[c] \in Over
<1>1. [Next]_vars
  BY DEF Step, Next
<1>2. Advances(c)
  BY <1>1, StatusAdvances DEF Step
<1>3. TypeOK'
  BY <1>1, NextTypeOK DEF Step, IInv
<1>4. status'[c] \in CallStatus \cup {"NotCreated"}
  BY <1>3 DEF TypeOK
<1> QED
  BY <1>2, <1>4 DEF Advances, StatusRank, Over, CallStatus

----------------------------------------------------------------------------
(* The parts of the invariant *)

\* What a LabVIEW thread holds.
LEMMA StepHoldInv ==
  ASSUME Step
  PROVE  HoldInv'
<1> SUFFICES ASSUME NEW u \in Threads
             PROVE  /\ pc'[u] = "idle" => arg'[u] = NoCall
                    /\ pc'[u] \in {"deregister", "unregister"} =>
                          status'[arg'[u]] \in Over
  BY DEF HoldInv
<1>1. /\ pc[u] = "idle" => arg[u] = NoCall
      /\ pc[u] \in {"deregister", "unregister"} => status[arg[u]] \in Over
      /\ pc[u] # "idle" => arg[u] \in Calls
      /\ TypeOK
  BY DEF Step, Own, HoldInv, IInv, ThreadInv
<1>2. pc[u] \in {"deregister", "unregister"} => status'[arg[u]] \in Over
  BY <1>1, OverStays DEF Alive
<1>3. CASE pc'[u] = pc[u] /\ arg'[u] = arg[u]
  BY <1>1, <1>2, <1>3
<1>4. CASE Library \/ RunThread \/ StopServer
  <2>1. pc'[u] \in {pc[u], "signalled"} /\ arg'[u] = arg[u]
    BY <1>1, <1>4, OthersView DEF threadVars, SignalIo, TypeOK
  <2> QED
    BY <1>1, <1>2, <2>1
<1>5. CASE \E t \in Threads : Continue(t) \/ CallApi(t)
  <2> PICK t \in Threads : Continue(t) \/ CallApi(t)
    BY <1>5
  <2>1. CASE u # t
    BY <1>1, <1>3, <2>1, ThreadView
  <2>2. CASE u = t
    <3>1. CASE FinishFromLabVIEW(t)
      <4>1. pc'[u] = "deregister" /\ arg'[u] = arg[u] /\ arg[u] \in Calls
        BY <1>1, <2>2, <3>1 DEF FinishFromLabVIEW, TypeOK
      <4>2. status'[arg[u]] \in Over
        BY <1>1, <2>2, <3>1, <4>1 DEF FinishFromLabVIEW, TypeOK, Over
      <4> QED
        BY <4>1, <4>2
    <3>2. CASE DeregisterCleanupProc(t) \/ UnregisterPointer(t) \/ EndIo(t)
               \/ CopyFromClusterThrows(t) \/ CheckActive(t) \/ SubmitIo(t)
               \/ ReturnStatus(t)
               \/ \E s \in {"OK", "INTERNAL"} : SetCallStatusError(t, s)
      BY <1>1, <1>2, <2>2, <3>2
         DEF DeregisterCleanupProc, UnregisterPointer, EndIo,
             CopyFromClusterThrows, CheckActive, SubmitIo, ReturnStatus,
             SetCallStatusError, Leave, TypeOK
    <3>3. CASE CallApi(t)
      BY <1>1, <1>3, <2>2, <3>3
         DEF CallApi, BeginIo, BeginClose, SetCallStatus, SetCallStatusError,
             ReturnStatus, Enter, threadVars,
             TypeOK
    <3> QED
      BY <3>1, <3>2, <3>3 DEF Continue
  <2> QED
    BY <2>1, <2>2
<1> QED
  BY <1>4, <1>5 DEF Step

\* A step that begins no RequestCall, completes none of the events that say
\* something about the RPC, and leaves the RPC alone.
LEMMA RpcKept ==
  ASSUME NEW c \in Calls, RpcInv(c), rpc'[c] = rpc[c],
         <<"Request", c>> \in ops' => <<"Request", c>> \in ops,
         \A e \in queue' \cup {cur'} :
            e.call = c /\ e.kind \in {"Request", "Done"}
              => e \in queue \cup {cur} \/ (e.kind = "Request" /\ e.ok)
  PROVE  RpcInv(c)'
  BY DEF RpcInv

\* The RPC behind the tags of a call.
LEMMA StepRpcInv ==
  ASSUME Step, NEW c \in Calls
  PROVE  RpcInv(c)'
<1>1. TypeOK /\ TagInv(c) /\ RpcInv(c) /\ RunThreadInv
  BY DEF Step, Own, IInv
<1>2. CASE Library
  <2> PICK d \in Calls :
           \/ ClientConnect(d) \/ ClientCancel(d) \/ FailRequest(d)
           \/ \E k \in IoKinds, ok \in BOOLEAN : CompleteIo(k, d, ok)
           \/ \E k \in IoKinds : FailIo(k, d)
           \/ CompleteFinish(d) \/ CompleteDone(d)
    BY <1>2 DEF Library
  <2>1. CASE ClientConnect(d)
    <3>1. d # c => rpc'[c] = rpc[c]
      BY <1>1, <2>1 DEF ClientConnect, TypeOK
    <3>2. /\ ops' = ops \ {<<"Request", d>>} /\ <<"Request", d>> \in ops
          /\ queue' = queue \cup {[kind |-> "Request", call |-> d, ok |-> TRUE]}
          /\ cur' = cur
      BY <2>1 DEF ClientConnect, Enqueue, runVars
    <3>3. CASE d # c
      <4>1. \A e \in queue' : e.call = c => e \in queue
        BY <3>2, <3>3
      <4> QED
        BY <1>1, <3>1, <3>2, <3>3, <4>1, RpcKept
    <3>4. CASE d = c
      <4>1. ~InFlight("Done", c)
        BY <1>1, <3>2, <3>4 DEF TagInv, RequestInv, OnePlace, InFlight
      <4>2. /\ \A e \in queue : e.kind = "Request" => e.call # c
            /\ ~(cur.kind = "Request" /\ cur.call = c)
        BY <1>1, <3>2, <3>4 DEF TagInv, OnePlace
      <4> QED
        BY <3>2, <3>4, <4>1, <4>2 DEF RpcInv, InFlight
    <3> QED
      BY <3>3, <3>4
  <2>2. CASE ClientCancel(d)
    BY <1>1, <2>2
       DEF ClientCancel, runVars, RpcInv, TypeOK, Closed
  <2>3. CASE FailRequest(d)
    BY <1>1, <2>3 DEF FailRequest, Enqueue, runVars, RpcInv
  <2>4. CASE \/ \E k \in IoKinds, ok \in BOOLEAN : CompleteIo(k, d, ok)
             \/ \E k \in IoKinds : FailIo(k, d)
    <3>1. UNCHANGED <<rpc, cur>> /\ ops' \subseteq ops
      BY <2>4 DEF CompleteIo, FailIo, Enqueue, runVars
    <3>2. \A e \in queue' : e.kind \in {"Request", "Done"} => e \in queue
      BY <2>4 DEF CompleteIo, FailIo, Enqueue, IoKinds
    <3> QED
      BY <1>1, <3>1, <3>2, RpcKept
  <2>5. CASE CompleteFinish(d)
    BY <1>1, <2>5
       DEF CompleteFinish, Enqueue, runVars, RpcInv, TypeOK, Closed
  <2>6. CASE CompleteDone(d)
    BY <1>1, <2>6 DEF CompleteDone, Enqueue, runVars, RpcInv
  <2> QED
    BY <2>1, <2>2, <2>3, <2>4, <2>5, <2>6
<1>3. CASE \E e \in queue : CqNext(e)
  BY <1>1, <1>3, RpcKept DEF CqNext
<1>4. CASE SpawnNext
  <2> PICK d \in Calls : Create(d)
    BY <1>4 DEF SpawnNext
  <2>1. /\ ops' = ops \cup {<<"Request", d>>}
        /\ rpc' = [rpc EXCEPT ![d] = "none"]
        /\ queue' = queue /\ cur' = cur
    BY <1>4, BeginAdds DEF SpawnNext, Create, Step
  <2>2. CASE c # d
    BY <1>1, <2>1, <2>2, RpcKept DEF TypeOK
  <2>3. CASE c = d
    BY <1>1, <2>1, <2>3 DEF Create, Alive, RpcInv, TypeOK
  <2> QED
    BY <2>2, <2>3
<1>5. CASE RunThread /\ ~(\E e \in queue : CqNext(e)) /\ ~SpawnNext
  <2>1. /\ rpc' = rpc /\ queue' = queue
        /\ <<"Request", c>> \in ops' => <<"Request", c>> \in ops
    BY <1>5
       DEF RunThread, CqDrained, ProceedNotOk, ProceedFinish, StreamFinish,
           ProceedConnection, Publish, Connect, RejectUnimplemented, Begin,
           FinishFromCompletionQueue, SignalIo, grpcVars
  <2>2. cur' = cur \/ cur'.call # c
    BY <1>5, CallsAssumption
       DEF RunThread, CqDrained, ProceedNotOk, ProceedFinish, NoEvent,
           ProceedConnection, Publish, Connect, RejectUnimplemented,
           FinishFromCompletionQueue, SignalIo, NextEvent
  <2> QED
    BY <1>1, <2>1, <2>2, RpcKept
<1>6. CASE \E t \in Threads : Continue(t) \/ CallApi(t)
  <2> PICK t \in Threads : Continue(t) \/ CallApi(t)
    BY <1>6
  <2>1. UNCHANGED <<rpc, queue, cur>>
    BY <1>1, ThreadView
  <2>2. pc[t] = "submit" => op[t] \in IoKinds
    BY DEF Step, IInv, ThreadInv
  <2>3. <<"Request", c>> \in ops' => <<"Request", c>> \in ops
    BY <2>2
       DEF Continue, CallApi, CheckActive, SubmitIo, CopyFromClusterThrows,
           EndIo, FinishFromLabVIEW, DeregisterCleanupProc, StreamFinish,
           UnregisterPointer, BeginIo, BeginClose, SetCallStatus,
           SetCallStatusError, ReturnStatus, Begin,
           grpcVars, IoKinds
  <2> QED
    BY <1>1, <2>1, <2>3, RpcKept
<1>7. CASE StopServer
  BY <1>1, <1>7
     DEF StopServer, StopShutdown, StopCq, StopJoin, RpcInv, Closed, runVars,
         grpcVars
<1> QED
  BY <1>2, <1>3, <1>4, <1>5, <1>6, <1>7 DEF Step

\* A call that is being set up is registered: nobody can have finished it.
LEMMA StepPublishInv ==
  ASSUME Step
  PROVE  PublishInv'
<1> SUFFICES ASSUME runPc' = "connect" PROVE cur'.call \in registered'
  BY DEF PublishInv
<1>1. CASE Publish
  BY <1>1 DEF Publish
<1>2. CASE ~Publish
  <2>1. runPc = "connect" /\ cur' = cur
    BY <1>2
       DEF Step, Library, ClientConnect, ClientCancel, FailRequest,
           CompleteIo, FailIo, CompleteFinish, CompleteDone, RunThread,
           CqNext, CqDrained, ProceedNotOk, ProceedFinish, ProceedConnection,
           SpawnNext, Connect, RejectUnimplemented, FinishFromCompletionQueue,
           SignalIo, NextEvent, StopServer, StopShutdown, StopCq, StopJoin,
           Continue, CallApi, CheckActive, SubmitIo, CopyFromClusterThrows,
           EndIo, FinishFromLabVIEW, DeregisterCleanupProc, UnregisterPointer,
           BeginIo, BeginClose, SetCallStatus, SetCallStatusError,
           ReturnStatus, runVars
  <2>2. cur.kind = "Request" /\ cur.call \in registered /\ cur.call \in Calls
    BY <2>1, CurIsEvent DEF Step, Own, PublishInv, IInv, RunThreadInv
  <2>3. status[cur.call] = "WaitingForConnection"
    BY <2>2 DEF Step, IInv, TagInv, RequestInv, InFlight
  <2>4. CASE \E t \in Threads : UnregisterPointer(t)
    <3> PICK t \in Threads : UnregisterPointer(t)
      BY <2>4
    <3>1. status[arg[t]] \in Over
      BY DEF UnregisterPointer, Step, Own, HoldInv
    <3> QED
      BY <2>1, <2>2, <2>3, <3>1 DEF UnregisterPointer, Over
  <2>5. CASE ~\E t \in Threads : UnregisterPointer(t)
    <3>1. registered' = registered
      BY <1>2, <2>5
         DEF Step, Library, ClientConnect, ClientCancel, FailRequest,
             CompleteIo, FailIo, CompleteFinish, CompleteDone, RunThread,
             CqNext, CqDrained, ProceedNotOk, ProceedFinish, SpawnNext,
             ProceedConnection, Connect, RejectUnimplemented, SignalIo,
             FinishFromCompletionQueue, StopServer, StopShutdown, StopCq,
             StopJoin, Continue, CallApi, CheckActive, SubmitIo,
             CopyFromClusterThrows, EndIo, FinishFromLabVIEW,
             DeregisterCleanupProc, BeginIo, BeginClose, SetCallStatus,
             SetCallStatusError, ReturnStatus, idVars
    <3> QED
      BY <2>1, <2>2, <3>1
  <2> QED
    BY <2>4, <2>5
<1> QED
  BY <1>1, <1>2

\* What a step takes from ops it puts into the queue: the completed operation
\* is the only one that goes.
LEMMA StepKeepsOps ==
  ASSUME Step, ~Library
  PROVE  ops \subseteq ops'
<1>1. CASE RunThread
  BY <1>1
     DEF RunThread, CqNext, CqDrained, ProceedNotOk, ProceedFinish, SpawnNext,
         ProceedConnection, Publish, Connect, RejectUnimplemented, SignalIo,
         FinishFromCompletionQueue, Create, StreamFinish, Begin, grpcVars
<1>2. CASE \E t \in Threads : Continue(t) \/ CallApi(t)
  BY <1>2
     DEF Continue, CallApi, CheckActive, SubmitIo, CopyFromClusterThrows,
         EndIo, FinishFromLabVIEW, DeregisterCleanupProc, UnregisterPointer,
         BeginIo, BeginClose, SetCallStatus, SetCallStatusError, ReturnStatus,
         StreamFinish, Begin, grpcVars
<1>3. CASE StopServer
  BY <1>3 DEF StopServer, StopShutdown, StopCq, StopJoin, grpcVars
<1> QED
  BY <1>1, <1>2, <1>3 DEF Step

\* Only the run thread takes events from the queue.
LEMMA StepKeepsQueue ==
  ASSUME Step, ~\E e \in queue : CqNext(e)
  PROVE  queue \subseteq queue'
<1>1. CASE Library
  BY <1>1
     DEF Library, ClientConnect, ClientCancel, FailRequest, CompleteIo,
         FailIo, CompleteFinish, CompleteDone, Enqueue
<1>2. CASE RunThread
  BY <1>2
     DEF RunThread, CqDrained, ProceedNotOk, ProceedFinish, SpawnNext,
         ProceedConnection, Publish, Connect, RejectUnimplemented, SignalIo,
         FinishFromCompletionQueue, grpcVars
<1>3. CASE \E t \in Threads : Continue(t) \/ CallApi(t)
  BY <1>3, ThreadView DEF Step, IInv
<1>4. CASE StopServer
  BY <1>4 DEF StopServer, StopShutdown, StopCq, StopJoin, grpcVars
<1> QED
  BY <1>1, <1>2, <1>3, <1>4 DEF Step

\* The event in hand changes only by CqNext and by the end of Proceed.
LEMMA StepCur ==
  ASSUME Step, ~\E e \in queue : CqNext(e)
  PROVE  cur' = cur \/ (RunThread /\ cur' = NoEvent)
  BY DEF Step, Library, ClientConnect, ClientCancel, FailRequest, CompleteIo,
         FailIo, CompleteFinish, CompleteDone, RunThread, CqDrained,
         ProceedNotOk, ProceedFinish, ProceedConnection, SpawnNext, Publish,
         Connect, RejectUnimplemented, FinishFromCompletionQueue, SignalIo,
         NextEvent, StopServer, StopShutdown, StopCq, StopJoin, Continue,
         CallApi, CheckActive, SubmitIo, CopyFromClusterThrows, EndIo,
         FinishFromLabVIEW, DeregisterCleanupProc, UnregisterPointer, BeginIo,
         BeginClose, SetCallStatus, SetCallStatusError, ReturnStatus, runVars

\* A step of the library changes nothing but the operations and the RPCs.
LEMMA LibraryFlight ==
  ASSUME TypeOK, Library, NEW k \in OpKinds, NEW c
  PROVE  InFlight(k, c)' <=> InFlight(k, c)
<1>1. CASE \E d \in Calls : ClientCancel(d)
  BY <1>1 DEF ClientCancel, InFlight, runVars
<1>2. CASE \E d \in Calls, j \in OpKinds, ok \in BOOLEAN : Completes(j, d, ok)
  <2> PICK d \in Calls, j \in OpKinds, ok \in BOOLEAN : Completes(j, d, ok)
    BY <1>2
  <2> DEFINE e == [kind |-> j, call |-> d, ok |-> ok]
  <2>1. /\ ops' = ops \ {<<j, d>>} /\ queue' = queue \cup {e}
        /\ <<j, d>> \in ops /\ cur' = cur
    BY DEF Completes, Enqueue, runVars
  <2>2. e.kind = j /\ e.call = d
    OBVIOUS
  <2> HIDE DEF e
  <2> QED
    BY <2>1, <2>2 DEF InFlight
<1> QED
  BY <1>1, <1>2, LibraryStep

\* The Done tag of a connection that Proceed handles.
LEMMA StepDoneInv ==
  ASSUME Step
  PROVE  DoneInv'
<1> SUFFICES ASSUME cur'.kind = "Request", cur'.ok
             PROVE  \/ <<"Done", cur'.call>> \in ops'
                    \/ \E e \in queue' : e.kind = "Done" /\ e.call = cur'.call
  BY DEF DoneInv
<1>1. CASE \E e \in queue : CqNext(e)
  BY <1>1 DEF CqNext
<1>2. CASE ~\E e \in queue : CqNext(e)
  <2>1. cur' = cur
    BY <1>2, StepCur DEF NoEvent
  <2>2. \/ <<"Done", cur.call>> \in ops
        \/ \E e \in queue : e.kind = "Done" /\ e.call = cur.call
    BY <2>1 DEF Step, Own, DoneInv
  <2>3. queue \subseteq queue'
    BY <1>2, StepKeepsQueue
  <2>4. CASE Library
    <3>1. ASSUME NEW c, c = cur.call
          PROVE  InFlight("Done", c)'
      BY <2>2, <2>4, <3>1, LibraryFlight DEF InFlight, OpKinds, Step, IInv
    <3> QED
      BY <2>1, <3>1 DEF InFlight
  <2>5. CASE ~Library
    BY <2>1, <2>2, <2>3, <2>5, StepKeepsOps
  <2> QED
    BY <2>4, <2>5
<1> QED
  BY <1>1, <1>2

\* The run thread leaves a closed queue behind, on which nothing can begin.
LEMMA StepExitInv ==
  ASSUME Step
  PROVE  ExitInv'
<1>1. CASE CqDrained
  BY <1>1 DEF CqDrained, grpcVars, ExitInv, Step, Own
<1>2. CASE ~CqDrained /\ runPc # "exited"
  <2>1. runPc' # "exited" /\ stopPc' # "done"
    BY <1>2
       DEF Step, Own, ExitInv, Library, ClientConnect, ClientCancel,
           FailRequest, CompleteIo, FailIo, CompleteFinish, CompleteDone,
           RunThread, CqNext, ProceedNotOk, ProceedFinish, ProceedConnection,
           SpawnNext, Publish, Connect, RejectUnimplemented, NextEvent,
           FinishFromCompletionQueue, SignalIo, StopServer, StopShutdown,
           StopCq, StopJoin, Continue, CallApi, CheckActive, SubmitIo,
           CopyFromClusterThrows, EndIo, FinishFromLabVIEW, UnregisterPointer,
           DeregisterCleanupProc, BeginIo, BeginClose, SetCallStatus,
           SetCallStatusError, ReturnStatus, runVars
  <2> QED
    BY <2>1 DEF ExitInv
<1>3. CASE runPc = "exited"
  <2>1. cqShutdown /\ ops = {} /\ queue = {}
    BY <1>3 DEF Step, Own, ExitInv
  <2>2. QueueClosed
    BY <2>1 DEF QueueClosed
  <2>3. ~RunThread
    BY <1>3, <2>1
       DEF RunThread, CqDrained, ProceedNotOk, ProceedFinish, SpawnNext,
           ProceedConnection, Publish, Connect, RejectUnimplemented, SignalIo,
           FinishFromCompletionQueue
  <2>4. CASE Library
    <3>1. \E c \in Calls : ClientCancel(c)
      BY <2>1, <2>4, LibraryStep DEF Step, IInv, Completes
    <3> QED
      BY <1>3, <2>1, <3>1 DEF ClientCancel, runVars, ExitInv
  <2>5. CASE \E t \in Threads : Continue(t) \/ CallApi(t)
    <3> PICK t \in Threads : Continue(t) \/ CallApi(t)
      BY <2>5
    <3>1. UNCHANGED <<queue, cqShutdown, runPc, stopPc>>
      BY ThreadView DEF Step, IInv
    <3>2. ops' = ops
      BY <2>2
         DEF Continue, CallApi, CheckActive, SubmitIo, CopyFromClusterThrows,
             EndIo, FinishFromLabVIEW, DeregisterCleanupProc, StreamFinish,
             UnregisterPointer, BeginIo, BeginClose, SetCallStatus,
             SetCallStatusError, ReturnStatus, Begin,
             grpcVars
    <3> QED
      BY <1>3, <2>1, <3>1, <3>2 DEF ExitInv
  <2>6. CASE StopServer
    BY <1>3, <2>1, <2>6
       DEF StopServer, StopShutdown, StopCq, StopJoin, ExitInv, grpcVars,
           runVars
  <2> QED
    BY <2>3, <2>4, <2>5, <2>6 DEF Step
<1> QED
  BY <1>1, <1>2, <1>3

\* A CallFinishedTag is deleted at the latest when its last event is consumed.
LEMMA StepTagInFlight ==
  ASSUME Step, NEW c \in Calls
  PROVE  TagInFlight(c)'
<1>1. TypeOK /\ TagInv(c) /\ TagInFlight(c) /\ RunThreadInv /\ DoneInv
  BY DEF Step, Own, IInv
<1>2. CASE Library
  <2>1. finishedTag' = finishedTag
    BY <1>1, <1>2, LibraryStep DEF ClientCancel, Completes, callVars
  <2> QED
    BY <1>1, <1>2, <2>1, LibraryFlight DEF TagInFlight, OpKinds
<1>3. CASE \E e \in queue : CqNext(e)
  <2> PICK e \in queue : CqNext(e)
    BY <1>3
  <2>1. cur = NoEvent
    BY <1>1 DEF CqNext, RunThreadInv
  <2> QED
    BY <1>1, <2>1 DEF CqNext, TagInFlight, InFlight, callVars, NoEvent
<1>4. CASE SpawnNext
  <2> PICK d \in Calls : Create(d)
    BY <1>4 DEF SpawnNext
  <2>1. /\ ops' = ops \cup {<<"Request", d>>}
        /\ finishedTag' = [finishedTag EXCEPT ![d] = TRUE]
        /\ queue' = queue /\ cur' = cur
    BY <1>4, BeginAdds DEF SpawnNext, Create, Step
  <2>2. c # d => finishedTag'[c] = finishedTag[c]
    BY <1>1, <2>1 DEF TypeOK
  <2> QED
    BY <1>1, <2>1, <2>2 DEF TagInFlight, InFlight
<1>5. CASE ProceedNotOk
  <2>1. /\ cur.kind \in {"Request", "Finish"} /\ cur'.kind = "None"
        /\ ops' = ops /\ queue' = queue
        /\ cur.call # c => finishedTag'[c] = finishedTag[c]
        /\ cur.call = c =>
             finishedTag'[c] = (finishedTag[c]
                                /\ status[c] # "WaitingForConnection")
    BY <1>1, <1>5
       DEF ProceedNotOk, IsCallTag, NextEvent, NoEvent, grpcVars, TypeOK
  <2>2. cur.call = c /\ cur.kind = "Request" => ~finishedTag'[c]
    BY <1>1, <2>1 DEF TagInv, RequestInv, InFlight
  <2> QED
    BY <1>1, <2>1, <2>2 DEF TagInFlight, InFlight
<1>6. CASE ProceedFinish
  <2>1. /\ cur.kind \in {"Request", "Finish"} /\ cur'.kind = "None"
        /\ ops' = ops /\ queue' = queue /\ finishedTag' = finishedTag
        /\ status[cur.call] \in {"Finishing", "Finished"}
    BY <1>6 DEF ProceedFinish, IsCallTag, NextEvent, NoEvent, grpcVars
  <2>2. ~(cur.call = c /\ cur.kind = "Request")
    BY <1>1, <2>1 DEF TagInv, RequestInv, InFlight
  <2> QED
    BY <1>1, <2>1, <2>2 DEF TagInFlight, InFlight
<1>7. CASE Connect \/ RejectUnimplemented
  <2>1. /\ cur.kind = "Request" /\ cur.ok /\ cur'.kind = "None"
        /\ ops \subseteq ops' /\ queue' = queue /\ finishedTag' = finishedTag
    BY <1>1, <1>7
       DEF Connect, RejectUnimplemented, RunThreadInv, NextEvent, NoEvent,
           StreamFinish, Begin, grpcVars
  <2>2. cur.call = c => InFlight("Done", c)'
    BY <1>1, <2>1 DEF DoneInv, InFlight
  <2> QED
    BY <1>1, <2>1, <2>2 DEF TagInFlight, InFlight
<1>8. CASE FinishFromCompletionQueue
  <2>1. /\ cur.kind = "Done" /\ cur'.kind = "None"
        /\ ops' = ops /\ queue' = queue
        /\ cur.call # c => finishedTag'[c] = finishedTag[c]
        /\ cur.call = c => ~finishedTag'[c]
    BY <1>1, <1>8
       DEF FinishFromCompletionQueue, NextEvent, NoEvent, grpcVars, TypeOK
  <2> QED
    BY <1>1, <2>1 DEF TagInFlight, InFlight
<1>9. CASE \E t \in Threads : SignalIo(t)
  BY <1>1, <1>9 DEF SignalIo, NextEvent, NoEvent, grpcVars, callVars, IoKinds,
                     TagInFlight, InFlight
<1>10. CASE CqDrained \/ ProceedConnection \/ Publish
  BY <1>1, <1>10 DEF CqDrained, ProceedConnection, Publish, grpcVars, callVars,
                     TagInFlight, InFlight
<1>11. CASE \E t \in Threads : Continue(t) \/ CallApi(t)
  <2>1. UNCHANGED <<finishedTag, queue, cur>>
    BY <1>1, <1>11, ThreadView
  <2>2. CASE Library
    BY <1>2, <2>2
  <2>3. CASE ~Library
    BY <1>1, <2>1, <2>3, StepKeepsOps DEF TagInFlight, InFlight
  <2> QED
    BY <2>2, <2>3
<1>12. CASE StopServer
  BY <1>1, <1>12 DEF StopServer, StopShutdown, StopCq, StopJoin, grpcVars,
                     callVars, runVars, TagInFlight, InFlight
<1> QED
  BY <1>2, <1>3, <1>4, <1>5, <1>6, <1>7, <1>8, <1>9, <1>10, <1>11, <1>12
     DEF Step, RunThread

\* Somebody will or can end the RPC of c.
Owned(c) ==
    \/ \E e \in queue : e.kind = "Request" /\ e.call = c
    \/ cur.kind = "Request" /\ cur.call = c
    \/ <<"Finish", c>> \in ops
    \/ c \in registered /\ status[c] = "Connected"

\* Every open RPC keeps an owner.
LEMMA StepOpenRpc ==
  ASSUME Step, NEW c \in Calls, rpc'[c] = "open"
  PROVE  Owned(c)'
<1>1. /\ TypeOK /\ TagInv(c) /\ RpcInv(c) /\ RunThreadInv /\ PublishInv
      /\ rpc[c] = "open" => Owned(c)
  BY DEF Step, Own, IInv, OpenRpcHasOwner, Owned
<1>2. CASE Library
  <2> PICK d \in Calls :
           \/ ClientConnect(d) \/ ClientCancel(d) \/ FailRequest(d)
           \/ \E k \in IoKinds, ok \in BOOLEAN : CompleteIo(k, d, ok)
           \/ \E k \in IoKinds : FailIo(k, d)
           \/ CompleteFinish(d) \/ CompleteDone(d)
    BY <1>2 DEF Library
  <2>1. CASE ClientConnect(d) /\ d = c
    <3> DEFINE e == [kind |-> "Request", call |-> c, ok |-> TRUE]
    <3>1. e \in queue' /\ e.kind = "Request" /\ e.call = c
      BY <2>1 DEF ClientConnect, Enqueue
    <3> QED
      BY <3>1 DEF Owned
  <2>2. CASE CompleteFinish(d) /\ d = c
    BY <1>1, <2>2 DEF CompleteFinish, TypeOK
  <2>3. CASE ~(ClientConnect(d) /\ d = c) /\ ~(CompleteFinish(d) /\ d = c)
    <3>1. rpc[c] = "open"
      BY <1>1, <2>3
         DEF ClientConnect, ClientCancel, FailRequest, CompleteIo, FailIo,
             CompleteFinish, CompleteDone, TypeOK
    <3>2. /\ queue \subseteq queue' /\ cur' = cur
          /\ UNCHANGED <<registered, status>>
          /\ <<"Finish", c>> \in ops => <<"Finish", c>> \in ops'
      BY <2>3
         DEF ClientConnect, ClientCancel, FailRequest, CompleteIo, FailIo,
             CompleteFinish, CompleteDone, Enqueue, IoKinds, runVars, idVars,
             callVars
    <3> QED
      BY <1>1, <3>1, <3>2 DEF Owned
  <2> QED
    BY <2>1, <2>2, <2>3
<1>3. CASE SpawnNext
  <2> PICK d \in Calls : Create(d)
    BY <1>3 DEF SpawnNext
  <2>1. /\ rpc' = [rpc EXCEPT ![d] = "none"]
        /\ status' = [status EXCEPT ![d] = "WaitingForConnection"]
        /\ UNCHANGED <<queue, cur, registered>>
        /\ ops' = ops \cup {<<"Request", d>>}
    BY <1>3, BeginAdds DEF SpawnNext, Create, Step
  <2>2. c # d /\ rpc[c] = "open" /\ status'[c] = status[c]
    BY <1>1, <2>1 DEF TypeOK
  <2> QED
    BY <1>1, <2>1, <2>2 DEF Owned
<1>4. CASE StopServer
  <2>1. rpc[c] = "open" /\ UNCHANGED <<queue, cur, ops, registered, status>>
    BY <1>4 DEF StopServer, StopShutdown, StopCq, StopJoin, grpcVars, idVars,
                callVars, runVars
  <2> QED
    BY <1>1, <2>1 DEF Owned
<1>5. CASE RunThread /\ ~SpawnNext
  <2>0. rpc[c] = "open" /\ Owned(c)
    BY <1>1, <1>5
       DEF RunThread, CqNext, CqDrained, ProceedNotOk, ProceedFinish,
           ProceedConnection, Publish, Connect, RejectUnimplemented,
           FinishFromCompletionQueue, SignalIo, grpcVars
  <2>1. CASE \E e \in queue : CqNext(e)
    <3> PICK e \in queue : CqNext(e)
      BY <2>1
    <3>1. cur = NoEvent /\ cur' = e /\ queue' = queue \ {e}
      BY <1>1 DEF CqNext, RunThreadInv
    <3>2. ops \subseteq ops' /\ UNCHANGED <<registered, status>>
      BY DEF CqNext, idVars, callVars
    <3> QED
      BY <2>0, <3>1, <3>2 DEF Owned, NoEvent
  <2>2. CASE ProceedNotOk \/ ProceedFinish
    <3>1. /\ cur.kind \in {"Request", "Finish"}
          /\ UNCHANGED <<queue, ops, registered>>
          /\ status' = [status EXCEPT ![cur.call] = "Finished"]
          /\ ~cur.ok \/ status[cur.call] \in {"Finishing", "Finished"}
      BY <2>2 DEF ProceedNotOk, ProceedFinish, IsCallTag, grpcVars, idVars
    <3>2. ~(cur.kind = "Request" /\ cur.call = c)
      BY <1>1, <2>0, <3>1 DEF RpcInv, TagInv, RequestInv, InFlight
    <3>3. cur.kind = "Finish" /\ cur.call = c => status[c] # "Connected"
      BY <1>1 DEF TagInv, FinishInv, InFlight
    <3>4. status[c] = "Connected" => status'[c] = "Connected"
      BY <1>1, <3>1, <3>2, <3>3 DEF TypeOK
    <3> QED
      BY <2>0, <3>1, <3>2, <3>4 DEF Owned
  <2>3. CASE CqDrained \/ ProceedConnection \/ Publish
    BY <2>0, <2>3
       DEF CqDrained, ProceedConnection, Publish, Owned, grpcVars, idVars,
           callVars
  <2>4. CASE Connect
    <3>1. cur.call \in registered /\ UNCHANGED <<queue, ops, registered>>
      BY <1>1, <2>4 DEF Connect, PublishInv, grpcVars, idVars
    <3>2. cur.call = c \/ status[c] = "Connected" => status'[c] = "Connected"
      BY <1>1, <2>4 DEF Connect, TypeOK
    <3> QED
      BY <2>0, <3>1, <3>2 DEF Owned
  <2>5. CASE RejectUnimplemented
    <3>1. /\ ops' = ops \cup {<<"Finish", cur.call>>}
          /\ UNCHANGED <<queue, registered>>
          /\ cur.call # c => status'[c] = status[c]
      BY <1>1, <2>5, BeginAdds
         DEF RejectUnimplemented, StreamFinish, Step, idVars, TypeOK
    <3> QED
      BY <2>0, <3>1 DEF Owned
  <2>6. CASE FinishFromCompletionQueue
    <3>1. cur.kind = "Done" /\ UNCHANGED <<queue, ops, registered>>
      BY <2>6 DEF FinishFromCompletionQueue, grpcVars, idVars
    <3>2. cur.call # c
      BY <1>1, <2>0, <3>1 DEF RpcInv, Closed
    <3>3. status'[c] = status[c]
      BY <1>1, <2>6, <3>2 DEF FinishFromCompletionQueue, TypeOK
    <3> QED
      BY <2>0, <3>1, <3>2, <3>3 DEF Owned
  <2>7. CASE \E t \in Threads : SignalIo(t)
    BY <2>0, <2>7 DEF SignalIo, IoKinds, Owned, grpcVars, idVars, callVars
  <2> QED
    BY <1>5, <2>1, <2>2, <2>3, <2>4, <2>5, <2>6, <2>7 DEF RunThread
<1>6. CASE \E t \in Threads : Continue(t) \/ CallApi(t)
  <2> PICK t \in Threads : Continue(t) \/ CallApi(t)
    BY <1>6
  <2>0. UNCHANGED <<queue, cur, rpc>> /\ Owned(c)
    BY <1>1, ThreadView
  <2>1. CASE FinishFromLabVIEW(t)
    <3>1. registered' = registered
      BY <2>1 DEF FinishFromLabVIEW, idVars
    <3>2. arg[t] \in Calls
      BY <2>1 DEF FinishFromLabVIEW, Step, IInv, ThreadInv
    <3>3. CASE status[arg[t]] \in {"Finishing", "Finished"}
      BY <2>0, <2>1, <3>1, <3>3 DEF FinishFromLabVIEW, Owned
    <3>4. CASE status[arg[t]] \notin {"Finishing", "Finished"}
      <4>1. /\ status' = [status EXCEPT ![arg[t]] = "Finishing"]
            /\ ops' = ops \cup {<<"Finish", arg[t]>>}
        BY <2>1, <3>4, BeginAdds DEF FinishFromLabVIEW, StreamFinish, Step
      <4>2. arg[t] # c => status'[c] = status[c]
        BY <1>1, <4>1 DEF TypeOK
      <4> QED
        BY <2>0, <3>1, <4>1, <4>2 DEF Owned
    <3> QED
      BY <3>3, <3>4
  <2>2. CASE UnregisterPointer(t)
    <3>1. status[arg[t]] # "Connected"
      BY <2>2 DEF UnregisterPointer, Step, Own, HoldInv, Over
    <3> QED
      BY <2>0, <2>2, <3>1
         DEF UnregisterPointer, Owned, grpcVars, callVars
  <2>3. CASE ~FinishFromLabVIEW(t) /\ ~UnregisterPointer(t)
    <3>1. UNCHANGED <<registered, status>> /\ ops \subseteq ops'
      BY <2>3
         DEF Continue, CallApi, CheckActive, SubmitIo, CopyFromClusterThrows,
             EndIo, DeregisterCleanupProc, BeginIo, BeginClose, SetCallStatus,
             SetCallStatusError, ReturnStatus,
             Begin, idVars, callVars, grpcVars
    <3> QED
      BY <2>0, <3>1 DEF Owned
  <2> QED
    BY <2>1, <2>2, <2>3
<1> QED
  BY <1>2, <1>3, <1>4, <1>5, <1>6 DEF Step

----------------------------------------------------------------------------
(* Reads and writes *)

\* A step that touches neither the tag k of c nor the threads that wait for
\* it, and gives nobody its mutex.
LEMMA IoKept ==
  ASSUME NEW c \in Calls, NEW k \in IoKinds, IoInv(k, c),
         <<k, c>> \in ops' <=> <<k, c>> \in ops,
         \A e : e.kind = k /\ e.call = c => (e \in queue' <=> e \in queue),
         cur'.kind = k /\ cur'.call = c <=> cur.kind = k /\ cur.call = c,
         \A t \in Threads : /\ Waits(t, k, c)' <=> Waits(t, k, c)
                            /\ Holds(t, k, c)' => Holds(t, k, c)
  PROVE  IoInv(k, c)'
<1>1. InFlight(k, c)' <=> InFlight(k, c)
  BY DEF InFlight
<1>2. OnePlace(k, c)'
  BY DEF IoInv, OnePlace
<1> QED
  BY <1>1, <1>2 DEF IoInv

\* The library completes a read or a write: its tag moves to the queue.
LEMMA LibraryIoInv ==
  ASSUME Step, Library, NEW c \in Calls, NEW k \in IoKinds
  PROVE  IoInv(k, c)'
<1>1. TypeOK /\ IoInv(k, c)
  BY DEF Step, Own, IInv
<1>2. UNCHANGED <<threadVars, cur>>
  BY <1>1, LibraryStep DEF ClientCancel, Completes, runVars
<1>3. \A t \in Threads : /\ Waits(t, k, c)' <=> Waits(t, k, c)
                         /\ Holds(t, k, c)' <=> Holds(t, k, c)
  BY <1>2 DEF Waits, Holds, threadVars
<1>4. InFlight(k, c)' <=> InFlight(k, c)
  BY <1>1, LibraryFlight DEF OpKinds
<1>5. OnePlace(k, c)'
  <2>1. CASE \E d \in Calls : ClientCancel(d)
    BY <1>1, <1>2, <2>1 DEF ClientCancel, IoInv, OnePlace
  <2>2. CASE \E d \in Calls, j \in OpKinds, ok \in BOOLEAN : Completes(j, d, ok)
    <3> PICK d \in Calls, j \in OpKinds, ok \in BOOLEAN : Completes(j, d, ok)
      BY <2>2
    <3> DEFINE e == [kind |-> j, call |-> d, ok |-> ok]
    <3>1. /\ ops' = ops \ {<<j, d>>} /\ queue' = queue \cup {e}
          /\ <<j, d>> \in ops
      BY DEF Completes, Enqueue
    <3>2. e.kind = j /\ e.call = d
      OBVIOUS
    <3> HIDE DEF e
    <3> QED
      BY <1>1, <1>2, <3>1, <3>2 DEF IoInv, OnePlace
  <2> QED
    BY <1>1, <2>1, <2>2, LibraryStep
<1> QED
  BY <1>1, <1>3, <1>4, <1>5 DEF IoInv

\* The run thread takes the tag and wakes the only thread that waits for it.
LEMMA RunThreadIoInv ==
  ASSUME Step, RunThread, NEW c \in Calls, NEW k \in IoKinds
  PROVE  IoInv(k, c)'
<1>1. TypeOK /\ IoInv(k, c) /\ RunThreadInv
  BY DEF Step, Own, IInv
<1>2. ASSUME UNCHANGED threadVars
      PROVE  \A t \in Threads : /\ Waits(t, k, c)' <=> Waits(t, k, c)
                                /\ Holds(t, k, c)' <=> Holds(t, k, c)
  BY <1>2 DEF Waits, Holds, threadVars
<1>3. CASE \E e \in queue : CqNext(e)
  <2> PICK e \in queue : CqNext(e)
    BY <1>3
  <2>1. /\ queue' = queue \ {e} /\ cur' = e /\ cur.kind = "None"
        /\ <<k, c>> \in ops' <=> <<k, c>> \in ops
        /\ UNCHANGED threadVars
    BY <1>1 DEF CqNext, RunThreadInv, NoEvent, IoKinds
  <2>2. InFlight(k, c)' <=> InFlight(k, c)
    BY <2>1 DEF InFlight, IoKinds
  <2>3. OnePlace(k, c)'
    BY <1>1, <2>1 DEF IoInv, OnePlace
  <2> QED
    BY <1>1, <1>2, <2>1, <2>2, <2>3 DEF IoInv
<1>4. CASE \E t \in Threads : SignalIo(t)
  <2> PICK t \in Threads : SignalIo(t)
    BY <1>4
  <2>1. /\ cur.kind \in IoKinds /\ cur'.kind = "None"
        /\ UNCHANGED <<ops, queue, arg, op>>
        /\ Waits(t, cur.kind, cur.call)
        /\ pc' = [pc EXCEPT ![t] = "signalled"]
    BY DEF SignalIo, NextEvent, NoEvent, grpcVars, Waits
  <2>2. \A u \in Threads : /\ Holds(u, k, c)' => Holds(u, k, c)
                           /\ u # t => (Waits(u, k, c)' <=> Waits(u, k, c))
    BY <1>1, <2>1 DEF Waits, Holds, TypeOK
  <2>3. ~Waits(t, k, c)'
    BY <1>1, <2>1 DEF Waits, TypeOK
  <2>4. CASE cur.kind = k /\ cur.call = c
    <3>1. ~InFlight(k, c)'
      BY <1>1, <2>1, <2>4 DEF IoInv, OnePlace, InFlight, IoKinds
    <3>2. OnePlace(k, c)'
      BY <1>1, <2>1 DEF IoInv, OnePlace, IoKinds
    <3>3. \A u \in Threads : Waits(u, k, c) => u = t
      BY <1>1, <2>1, <2>4 DEF IoInv, Waits, Holds
    <3> QED
      BY <1>1, <2>2, <2>3, <3>1, <3>2, <3>3 DEF IoInv
  <2>5. CASE ~(cur.kind = k /\ cur.call = c)
    <3>1. ~Waits(t, k, c)
      BY <2>1, <2>5 DEF Waits
    <3> QED
      BY <1>1, <2>1, <2>2, <2>3, <2>5, <3>1, IoKept DEF IoKinds
  <2> QED
    BY <2>4, <2>5
<1>5. CASE ~(\E e \in queue : CqNext(e)) /\ ~\E t \in Threads : SignalIo(t)
  <2>1. UNCHANGED threadVars
    BY <1>5, OthersView
  <2>2. queue' = queue /\ (<<k, c>> \in ops' <=> <<k, c>> \in ops)
    BY <1>5
       DEF RunThread, CqDrained, ProceedNotOk, ProceedFinish, SpawnNext,
           ProceedConnection, Publish, Connect, RejectUnimplemented, IoKinds,
           FinishFromCompletionQueue, Create, StreamFinish, Begin, grpcVars
  <2>3. cur' = cur \/ (cur.kind \notin IoKinds /\ cur'.kind \notin IoKinds)
    BY <1>1, <1>5
       DEF RunThread, CqDrained, ProceedNotOk, ProceedFinish, SpawnNext,
           ProceedConnection, Publish, Connect, RejectUnimplemented, IoKinds,
           FinishFromCompletionQueue, IsCallTag, NextEvent, NoEvent,
           RunThreadInv
  <2> QED
    BY <1>1, <1>2, <2>1, <2>2, <2>3, IoKept
<1> QED
  BY <1>3, <1>4, <1>5

\* A LabVIEW thread takes the mutex only when nobody has it, begins one
\* operation and waits for it.
LEMMA ThreadIoInv ==
  ASSUME Step, NEW t \in Threads, Continue(t) \/ CallApi(t),
         NEW c \in Calls, NEW k \in IoKinds
  PROVE  IoInv(k, c)'
<1>1. TypeOK /\ IoInv(k, c)
  BY DEF Step, Own, IInv
<1>2. UNCHANGED <<queue, cur>>
  BY <1>1, ThreadView
<1>3. \A u \in Threads \ {t} : /\ Waits(u, k, c)' <=> Waits(u, k, c)
                               /\ Holds(u, k, c)' <=> Holds(u, k, c)
  BY <1>1, ThreadView DEF Waits, Holds
<1>4. CASE CheckActive(t)
  <2>1. ops' = ops /\ ~Waits(t, k, c) /\ ~Waits(t, k, c)'
    BY <1>1, <1>4 DEF CheckActive, Leave, grpcVars, Waits, TypeOK
  <2>2. Holds(t, k, c)' => ~\E u \in Threads : Holds(u, k, c)
    BY <1>1, <1>4 DEF CheckActive, Leave, Holds, IoLocked, TypeOK
  <2>3. InFlight(k, c)' <=> InFlight(k, c)
    BY <1>2, <2>1 DEF InFlight
  <2>4. OnePlace(k, c)'
    BY <1>1, <1>2, <2>1 DEF IoInv, OnePlace
  <2>5. \A u, v \in Threads : Holds(u, k, c)' /\ Holds(v, k, c)' => u = v
    BY <1>1, <1>3, <2>2 DEF IoInv
  <2>6. \A u \in Threads : Waits(u, k, c)' <=> Waits(u, k, c)
    BY <1>3, <2>1
  <2> QED
    BY <1>1, <2>3, <2>4, <2>5, <2>6 DEF IoInv
<1>5. CASE SubmitIo(t)
  <2>1. /\ ops' = ops \cup {<<op[t], arg[t]>>}
        /\ pc[t] = "submit" /\ pc'[t] = "wait"
        /\ arg'[t] = arg[t] /\ op'[t] = op[t]
    BY <1>1, <1>5, BeginAdds DEF SubmitIo, Step, TypeOK
  <2>2. ~Waits(t, k, c) /\ (Holds(t, k, c)' <=> Holds(t, k, c))
    BY <2>1 DEF Waits, Holds
  <2>3. CASE op[t] = k /\ arg[t] = c
    <3>1. Holds(t, k, c) /\ Waits(t, k, c)'
      BY <2>1, <2>3 DEF Holds, Waits
    <3>2. ~\E u \in Threads : Waits(u, k, c)
      BY <1>1, <2>2, <3>1 DEF IoInv, Waits, Holds
    <3>3. ~InFlight(k, c)
      BY <1>1, <3>2 DEF IoInv
    <3>4. OnePlace(k, c)' /\ InFlight(k, c)'
      BY <1>2, <2>1, <2>3, <3>3 DEF OnePlace, InFlight
    <3> QED
      BY <1>1, <1>3, <2>2, <3>1, <3>4 DEF IoInv
  <2>4. CASE ~(op[t] = k /\ arg[t] = c)
    <3>1. <<k, c>> \in ops' <=> <<k, c>> \in ops
      BY <2>1, <2>4
    <3>2. ~Waits(t, k, c)'
      BY <2>1, <2>4 DEF Waits
    <3> QED
      BY <1>1, <1>2, <1>3, <2>2, <3>1, <3>2, IoKept
  <2> QED
    BY <2>3, <2>4
<1>6. CASE FinishFromLabVIEW(t)
  <2>1. /\ <<k, c>> \in ops' <=> <<k, c>> \in ops
        /\ pc[t] = "finish" /\ pc'[t] = "deregister"
    BY <1>1, <1>6 DEF FinishFromLabVIEW, StreamFinish, Begin, IoKinds, TypeOK
  <2> QED
    BY <1>1, <1>2, <1>3, <2>1, IoKept DEF Waits, Holds
<1>7. CASE \/ CopyFromClusterThrows(t) \/ EndIo(t) \/ UnregisterPointer(t)
           \/ DeregisterCleanupProc(t)
           \/ \E d \in Calls, j \in IoKinds : BeginIo(t, d, j)
           \/ \E d \in Calls : BeginClose(t, d)
  <2>1. ops' = ops /\ ~Waits(t, k, c) /\ ~Waits(t, k, c)' /\ ~Holds(t, k, c)'
    BY <1>1, <1>7
       DEF CopyFromClusterThrows, EndIo, UnregisterPointer, BeginIo,
           DeregisterCleanupProc, BeginClose, Enter, Leave, Waits, Holds,
           grpcVars, TypeOK
  <2> QED
    BY <1>1, <1>2, <1>3, <2>1, IoKept
<1>8. CASE \/ \E d \in Calls : SetCallStatus(t, d)
           \/ \E s \in {"OK", "INTERNAL"} : SetCallStatusError(t, s)
           \/ ReturnStatus(t)
  <2>1. ops' = ops /\ ~Waits(t, k, c) /\ ~Waits(t, k, c)' /\ ~Holds(t, k, c)'
    BY <1>1, <1>8
       DEF SetCallStatus, SetCallStatusError, ReturnStatus, Enter, Leave, Waits,
           Holds, grpcVars, TypeOK
  <2> QED
    BY <1>1, <1>2, <1>3, <2>1, IoKept
<1> QED
  BY <1>4, <1>5, <1>6, <1>7, <1>8 DEF Continue, CallApi

\* Reads and writes keep their discipline.
LEMMA StepIoInv ==
  ASSUME Step, NEW c \in Calls, NEW k \in IoKinds
  PROVE  IoInv(k, c)'
<1>1. CASE StopServer
  <2>1. UNCHANGED <<ops, queue, cur, pc, arg, op>>
    BY <1>1 DEF StopServer, StopShutdown, StopCq, StopJoin, grpcVars, runVars,
                threadVars
  <2>2. IoInv(k, c)
    BY DEF Step, Own
  <2> QED
    BY <2>1, <2>2, IoKept DEF Waits, Holds
<1> QED
  BY <1>1, LibraryIoInv, RunThreadIoInv, ThreadIoInv DEF Step

----------------------------------------------------------------------------
(* The theorems *)

\* The first CallData satisfies the invariant.
LEMMA InitOwn == Init => Own
<1> SUFFICES ASSUME Init PROVE Own
  OBVIOUS
<1> PICK c0 \in Calls : /\ finishedTag = [c \in Calls |-> c = c0]
                        /\ ops = {<<"Request", c0>>}
  BY DEF Init
<1>1. /\ queue = {} /\ cur = NoEvent /\ runPc = "next" /\ stopPc = "idle"
      /\ rpc = [c \in Calls |-> "none"]
      /\ pc = [t \in Threads |-> "idle"] /\ arg = [t \in Threads |-> NoCall]
  BY DEF Init
<1>2. cur.kind = "None" /\ cur.call = NoCall
  BY <1>1 DEF NoEvent
<1>3. HoldInv /\ PublishInv /\ DoneInv /\ ExitInv
  BY <1>1, <1>2 DEF HoldInv, PublishInv, DoneInv, ExitInv
<1>4. ASSUME NEW c \in Calls
      PROVE  RpcInv(c) /\ TagInFlight(c)
  <2>1. RpcInv(c)
    BY <1>1, <1>2, CallsAssumption DEF RpcInv
  <2>2. TagInFlight(c)
    BY <1>1 DEF TagInFlight, InFlight
  <2> QED
    BY <2>1, <2>2
<1>5. OpenRpcHasOwner
  BY <1>1 DEF OpenRpcHasOwner
<1>6. ASSUME NEW c \in Calls, NEW k \in IoKinds
      PROVE  IoInv(k, c)
  <2>1. ~InFlight(k, c) /\ OnePlace(k, c)
    BY <1>1, <1>2 DEF InFlight, OnePlace, IoKinds
  <2>2. \A t \in Threads : ~Waits(t, k, c) /\ ~Holds(t, k, c)
    BY <1>1 DEF Waits, Holds
  <2> QED
    BY <2>1, <2>2 DEF IoInv
<1> QED
  BY <1>3, <1>4, <1>5, <1>6 DEF Own

\* The invariant is inductive.
LEMMA NextOwnInv == IInv /\ OwnInv /\ [Next]_vars => OwnInv'
<1> SUFFICES ASSUME IInv, OwnInv, [Next]_vars, ~aborted' PROVE Own'
  BY DEF OwnInv
<1>1. CASE UNCHANGED vars
  <2>1. UNCHANGED <<status, finishedTag, registered, rpc, ops, queue, aborted,
                    cqShutdown, runPc, cur, stopPc, pc, arg, op>>
    BY <1>1 DEF vars, callVars, idVars, grpcVars, runVars, threadVars
  <2>2. Own
    BY <2>1 DEF OwnInv
  <2>3. HoldInv' /\ PublishInv' /\ DoneInv' /\ ExitInv'
    BY <2>1, <2>2 DEF Own, HoldInv, PublishInv, DoneInv, ExitInv
  <2>4. ASSUME NEW c \in Calls PROVE RpcInv(c)' /\ TagInFlight(c)'
    BY <2>1, <2>2 DEF Own, RpcInv, TagInFlight, InFlight
  <2>5. OpenRpcHasOwner'
    BY <2>1, <2>2 DEF Own, OpenRpcHasOwner
  <2>6. ASSUME NEW c \in Calls, NEW k \in IoKinds PROVE IoInv(k, c)'
    BY <2>1, <2>2, IoKept DEF Own, Waits, Holds
  <2> QED
    BY <2>3, <2>4, <2>5, <2>6 DEF Own
<1>2. CASE ~UNCHANGED vars
  <2>1. Step
    BY <1>2 DEF Next, Terminated, Step, OwnInv
  <2>2. HoldInv' /\ PublishInv' /\ DoneInv' /\ ExitInv'
    BY <2>1, StepHoldInv, StepPublishInv, StepDoneInv, StepExitInv
  <2>3. \A c \in Calls : RpcInv(c)' /\ TagInFlight(c)'
    BY <2>1, StepRpcInv, StepTagInFlight
  <2>4. OpenRpcHasOwner'
    BY <2>1, StepOpenRpc DEF OpenRpcHasOwner, Owned
  <2>5. \A c \in Calls, k \in IoKinds : IoInv(k, c)'
    BY <2>1, StepIoInv
  <2> QED
    BY <2>2, <2>3, <2>4, <2>5 DEF Own
<1> QED
  BY <1>1, <1>2

\* Every reachable state satisfies both invariants.
THEOREM OwnInvInvariant == Spec => [](IInv /\ OwnInv)
<1>1. Init => OwnInv
  BY InitOwn DEF OwnInv
<1> QED
  BY <1>1, NextOwnInv, IInvInvariant, PTL DEF Spec

\* A thread in tag->Wait() of ReadNext or Write is owed exactly one event, and
\* the queue holds no tag of a thread that has left (event_data.cc, ReadNext
\* and Write), for any number of threads.
THEOREM WaiterAlwaysOwedEvent == Spec => []WaiterIsOwedEvent
<1>1. OwnInv => WaiterIsOwedEvent
  <2> SUFFICES ASSUME Own, NEW c \in Calls, NEW k \in IoKinds
               PROVE  LET waiting == {t \in Threads :
                             pc[t] = "wait" /\ arg[t] = c /\ op[t] = k}
                      IN  /\ InFlight(k, c) <=> waiting # {}
                          /\ Cardinality(waiting) <= 1
    BY DEF OwnInv, WaiterIsOwedEvent
  <2> DEFINE waiting == {t \in Threads :
                           pc[t] = "wait" /\ arg[t] = c /\ op[t] = k}
  <2>1. IoInv(k, c)
    BY DEF Own
  <2>2. InFlight(k, c) <=> waiting # {}
    BY <2>1 DEF IoInv, Waits
  <2>3. \A t, u \in waiting : t = u
    BY <2>1 DEF IoInv, Holds
  <2>4. CASE waiting = {}
    BY <2>2, <2>4, FS_EmptySet
  <2>5. CASE waiting # {}
    <3> PICK t \in waiting : TRUE
      BY <2>5
    <3>1. waiting = {t}
      BY <2>3
    <3>2. Cardinality({t}) = 1
      BY FS_Singleton
    <3> QED
      BY <2>2, <3>1, <3>2
  <2> QED
    BY <2>4, <2>5
<1> QED
  BY <1>1, OwnInvInvariant, PTL

\* Every open RPC has somebody who will or can end it, whatever the order of
\* connection, cancellation, rejection and CloseServerEvent.
THEOREM OpenRpcAlwaysOwned == Spec => []OpenRpcHasOwner
<1>1. OwnInv => OpenRpcHasOwner
  BY DEF OwnInv, Own, OpenRpcHasOwner
<1> QED
  BY <1>1, OwnInvInvariant, PTL

\* Once StopServer has returned and LabVIEW has closed its ids no CallData,
\* tag or event is left (event_data.cc:139-149).
THEOREM NothingEverLeaks == Spec => []NothingLeaks
<1>1. IInv /\ OwnInv => NothingLeaks
  <2> SUFFICES ASSUME IInv, Own, Quiescent, NEW c \in Calls
               PROVE  ~Alive(c)
    BY DEF OwnInv, NothingLeaks
  <2>1. runPc = "exited" /\ ops = {} /\ queue = {} /\ registered = {}
    BY DEF Quiescent, Own, ExitInv
  <2>2. cur.kind = "None" /\ cur.call # c
    BY <2>1, CallsAssumption DEF IInv, RunThreadInv, NoEvent
  <2>3. ~finishedTag[c]
    BY <2>1, <2>2 DEF Own, TagInFlight, InFlight
  <2>4. \A t \in Threads : arg[t] # c
    BY CallsAssumption DEF Quiescent, Own, HoldInv
  <2> QED
    BY <2>1, <2>2, <2>3, <2>4 DEF Alive
<1> QED
  BY <1>1, OwnInvInvariant, PTL
----------------------------------------------------------------------------
(* How a call stands.  The refinement needs, besides who owns what, that     *)
(* what exists is not given back before it is over.                          *)

\* Proceed has created the next call and has not opened this one yet.
Connecting(c) == runPc \in {"publish", "connect"} /\ cur.call = c

\* A CallData that is not Connected and not over waits for the connection whose
\* RequestCall tag is around; a Connected one is registered.
StandInv(c) ==
    /\ status[c] = "NotCreated" => ~Alive(c)
    /\ status[c] = "WaitingForConnection" /\ Alive(c) => InFlight("Request", c)
    /\ status[c] = "Connected" => c \in registered

\* A connection that the queue hands out has an RPC.
AcceptedInv(c) ==
    \A e \in queue \cup {cur} :
        e.kind = "Request" /\ e.ok /\ e.call = c => rpc[c] # "none"

\* A step of the server, which may abort the process.
Moves ==
    /\ IInv /\ Own /\ ~aborted
    /\ \/ Library
       \/ RunThread
       \/ \E t \in Threads : Continue(t) \/ CallApi(t)
       \/ StopServer

\* The library moves tags and drops none.
LEMMA LibraryAlive ==
  ASSUME TypeOK, Library, NEW c
  PROVE  Alive(c)' <=> Alive(c)
<1>1. CASE \E d \in Calls : ClientCancel(d)
  BY <1>1 DEF ClientCancel, Alive, runVars, callVars, idVars, threadVars
<1>2. CASE \E d \in Calls, j \in OpKinds, ok \in BOOLEAN : Completes(j, d, ok)
  <2> PICK d \in Calls, j \in OpKinds, ok \in BOOLEAN : Completes(j, d, ok)
    BY <1>2
  <2> DEFINE e == [kind |-> j, call |-> d, ok |-> ok]
  <2>1. /\ ops' = ops \ {<<j, d>>} /\ queue' = queue \cup {e}
        /\ <<j, d>> \in ops
        /\ UNCHANGED <<finishedTag, registered, arg, cur>>
    BY DEF Completes, Enqueue, runVars, callVars, idVars, threadVars
  <2>2. e.call = d
    OBVIOUS
  <2> HIDE DEF e
  <2> QED
    BY <2>1, <2>2 DEF Alive
<1> QED
  BY <1>1, <1>2, LibraryStep

\* Only Create makes a CallData: no other step gives out a reference to one
\* that nobody had.
LEMMA OnlyCreateMakes ==
  ASSUME Moves, ~SpawnNext, NEW c \in Calls, Alive(c)'
  PROVE  Alive(c)
<1>0. TypeOK /\ ThreadInv /\ RunThreadInv
  BY DEF Moves, IInv
<1>1. CASE Library
  BY <1>0, <1>1, LibraryAlive
<1>2. CASE \E e \in queue : CqNext(e)
  BY <1>2 DEF CqNext, Alive, callVars, idVars, threadVars
<1>3. CASE RunThread /\ ~(\E e \in queue : CqNext(e))
  <2>1. /\ queue' = queue
        /\ \A k \in OpKinds, d \in Calls :
              <<k, d>> \in ops' => <<k, d>> \in ops \/ d = cur.call
    BY <1>3
       DEF RunThread, CqDrained, ProceedNotOk, ProceedFinish, StreamFinish,
           ProceedConnection, Publish, Connect, RejectUnimplemented, Begin,
           FinishFromCompletionQueue, SignalIo, grpcVars
  <2>2. /\ registered' \subseteq registered \cup {cur.call}
        /\ arg' = arg
        /\ cur' = cur \/ cur'.call # c
    BY <1>3, CallsAssumption
       DEF RunThread, CqDrained, ProceedNotOk, ProceedFinish, NoEvent,
           ProceedConnection, Publish, Connect, RejectUnimplemented,
           FinishFromCompletionQueue, SignalIo, NextEvent, idVars, threadVars
  <2>3. finishedTag'[c] => finishedTag[c]
    BY <1>0, <1>3
       DEF RunThread, CqDrained, ProceedNotOk, ProceedFinish, TypeOK,
           ProceedConnection, Publish, Connect, RejectUnimplemented,
           FinishFromCompletionQueue, SignalIo, callVars
  <2> QED
    BY <2>1, <2>2, <2>3 DEF Alive
<1>4. CASE \E t \in Threads : Continue(t) \/ CallApi(t)
  <2> PICK t \in Threads : Continue(t) \/ CallApi(t)
    BY <1>4
  <2>1. /\ UNCHANGED <<finishedTag, queue, cur>>
        /\ \A u \in Threads \ {t} : arg'[u] = arg[u]
    BY <1>0, ThreadView
  <2>2. /\ registered' \subseteq registered
        /\ arg'[t] \in {arg[t], NoCall} \cup registered
    BY <1>0
       DEF Continue, CallApi, CheckActive, SubmitIo, CopyFromClusterThrows,
           EndIo, FinishFromLabVIEW, DeregisterCleanupProc, UnregisterPointer,
           BeginIo, BeginClose, SetCallStatus, SetCallStatusError,
           ReturnStatus, Enter, Leave, idVars,
           threadVars, TypeOK
  <2>3. \A k \in OpKinds, d \in Calls :
           <<k, d>> \in ops' => <<k, d>> \in ops \/ d = arg[t]
    BY DEF Continue, CallApi, CheckActive, SubmitIo, CopyFromClusterThrows,
           EndIo, FinishFromLabVIEW, DeregisterCleanupProc, UnregisterPointer,
           BeginIo, BeginClose, SetCallStatus, SetCallStatusError,
           ReturnStatus, StreamFinish, Begin, grpcVars
  <2> QED
    BY <2>1, <2>2, <2>3, CallsAssumption DEF Alive
<1>5. CASE StopServer
  BY <1>5 DEF StopServer, StopShutdown, StopCq, StopJoin, Alive, callVars,
              idVars, runVars, threadVars, grpcVars
<1> QED
  BY <1>1, <1>2, <1>3, <1>4, <1>5 DEF Moves

\* Where the _status of a call can go in a step.
LEMMA StatusMoves ==
  ASSUME Moves, NEW c \in Calls
  PROVE  \/ status'[c] = status[c]
         \/ status'[c] \in Over
         \/ Connect /\ cur.call = c /\ status'[c] = "Connected"
         \/ SpawnNext /\ Create(c) /\ status'[c] = "WaitingForConnection"
<1>0. TypeOK
  BY DEF Moves, IInv
<1>1. CASE Library
  BY <1>0, <1>1, LibraryStep DEF ClientCancel, Completes, callVars
<1>2. CASE SpawnNext
  BY <1>0, <1>2 DEF SpawnNext, Create, TypeOK
<1>3. CASE RunThread /\ ~SpawnNext
  BY <1>0, <1>3
     DEF RunThread, CqNext, CqDrained, ProceedNotOk, ProceedFinish,
         ProceedConnection, Publish, Connect, RejectUnimplemented,
         FinishFromCompletionQueue, SignalIo, callVars, TypeOK, Over
<1>4. CASE \E t \in Threads : Continue(t) \/ CallApi(t)
  BY <1>0, <1>4
     DEF Continue, CallApi, CheckActive, SubmitIo, CopyFromClusterThrows,
         EndIo, FinishFromLabVIEW, DeregisterCleanupProc, UnregisterPointer,
         BeginIo, BeginClose, SetCallStatus, SetCallStatusError, ReturnStatus,
         callVars, TypeOK, Over
<1>5. CASE StopServer
  BY <1>5 DEF StopServer, StopShutdown, StopCq, StopJoin, callVars
<1> QED
  BY <1>1, <1>2, <1>3, <1>4, <1>5 DEF Moves

\* Creating a CallData gives nobody a reference to another one.
LEMMA CreateMakesOne ==
  ASSUME SpawnNext, TypeOK, NEW d \in Calls, Create(d),
         NEW c \in Calls, c # d
  PROVE  Alive(c)' <=> Alive(c)
<1>1. /\ finishedTag' = [finishedTag EXCEPT ![d] = TRUE]
      /\ UNCHANGED <<queue, cur, registered, arg>>
      /\ ops' \in {ops, ops \cup {<<"Request", d>>}}
  BY DEF SpawnNext, Create, Begin, threadVars
<1> QED
  BY <1>1 DEF Alive, TypeOK

\* A step between two states with the invariants is one that moves.
LEMMA StepIsMoves == Step => Moves
  BY DEF Step, Moves

\* How a call stands.
LEMMA StepStandInv ==
  ASSUME Step, NEW c \in Calls, StandInv(c)
  PROVE  StandInv(c)'
<1>0. TypeOK /\ RunThreadInv /\ TagInv(c) /\ PublishInv /\ Moves
  BY StepIsMoves DEF Step, IInv, Own
<1>1. CASE SpawnNext /\ Create(c)
  <2>1. /\ status'[c] = "WaitingForConnection"
        /\ <<"Request", c>> \in ops'
    BY <1>0, <1>1, BeginAdds DEF Step, Create, TypeOK
  <2> QED
    BY <2>1 DEF StandInv, InFlight
<1>2. CASE ~(SpawnNext /\ Create(c))
  <2>1. Alive(c)' => Alive(c)
    <3>1. CASE SpawnNext
      <4> PICK d \in Calls : Create(d)
        BY <3>1 DEF SpawnNext
      <4> QED
        BY <1>0, <1>2, <3>1, CreateMakesOne
    <3> QED
      BY <1>0, <3>1, OnlyCreateMakes
  <2>2. status'[c] = "NotCreated" => ~Alive(c)'
    BY <1>0, <1>2, <2>1, StatusMoves DEF StandInv, Over
  <2>3. ASSUME status'[c] = "WaitingForConnection", Alive(c)'
        PROVE  InFlight("Request", c)'
    <3>1. InFlight("Request", c)
      BY <1>0, <1>2, <2>1, <2>3, StatusMoves DEF StandInv, Over
    <3>2. CASE Library
      BY <1>0, <3>1, <3>2, LibraryFlight DEF OpKinds
    <3>3. CASE \E e \in queue : CqNext(e)
      BY <1>0, <3>1, <3>3
         DEF CqNext, InFlight, RunThreadInv, NoEvent
    <3>4. CASE ~Library /\ ~\E e \in queue : CqNext(e)
      <4>1. ops \subseteq ops' /\ queue \subseteq queue'
        BY <3>4, StepKeepsOps, StepKeepsQueue
      <4>2. cur.kind = "Request" /\ cur.call = c => cur' = cur
        BY <1>0, <2>3, <3>4
           DEF Step, RunThread, CqDrained, ProceedNotOk, ProceedFinish,
               ProceedConnection, SpawnNext, Publish, Connect,
               RejectUnimplemented, FinishFromCompletionQueue, SignalIo,
               IoKinds, StopServer, StopShutdown, StopCq, StopJoin, Continue,
               CallApi, CheckActive, SubmitIo, CopyFromClusterThrows, EndIo,
               FinishFromLabVIEW, DeregisterCleanupProc, UnregisterPointer,
               BeginIo, BeginClose, SetCallStatus, SetCallStatusError,
               ReturnStatus, runVars, TypeOK
      <4> QED
        BY <3>1, <4>1, <4>2 DEF InFlight
    <3> QED
      BY <3>2, <3>3, <3>4
  <2>4. ASSUME status'[c] = "Connected"
        PROVE  c \in registered'
    <3>1. CASE Connect /\ cur.call = c
      BY <1>0, <3>1 DEF Connect, PublishInv, idVars
    <3>2. CASE ~(Connect /\ cur.call = c)
      <4>1. status[c] = "Connected" /\ c \in registered
        BY <1>0, <1>2, <2>4, <3>2, StatusMoves DEF StandInv, Over
      <4>2. CASE \E t \in Threads : UnregisterPointer(t)
        <5> PICK t \in Threads : UnregisterPointer(t)
          BY <4>2
        <5>1. status[arg[t]] \in Over
          BY DEF UnregisterPointer, Step, Own, HoldInv
        <5> QED
          BY <4>1, <5>1 DEF UnregisterPointer, Over
      <4>3. CASE ~\E t \in Threads : UnregisterPointer(t)
        <5>1. registered \subseteq registered'
          BY <4>3
             DEF Step, Library, ClientConnect, ClientCancel, FailRequest,
                 CompleteIo, FailIo, CompleteFinish, CompleteDone, RunThread,
                 CqNext, CqDrained, ProceedNotOk, ProceedFinish, SpawnNext,
                 ProceedConnection, Connect, Publish, RejectUnimplemented,
                 SignalIo, FinishFromCompletionQueue, StopServer,
                 StopShutdown, StopCq, StopJoin, Continue, CallApi,
                 CheckActive, SubmitIo, CopyFromClusterThrows, EndIo,
                 FinishFromLabVIEW, DeregisterCleanupProc, BeginIo,
                 BeginClose, SetCallStatus, SetCallStatusError, ReturnStatus,
                 idVars
        <5> QED
          BY <4>1, <5>1
      <4> QED
        BY <4>2, <4>3
    <3> QED
      BY <3>1, <3>2
  <2> QED
    BY <2>2, <2>3, <2>4 DEF StandInv
<1> QED
  BY <1>1, <1>2

\* What the queue says of the connections it hands out.
LEMMA StepAcceptedInv ==
  ASSUME Step, NEW c \in Calls, AcceptedInv(c)
  PROVE  AcceptedInv(c)'
<1>0. TypeOK /\ RunThreadInv
  BY DEF Step, IInv
<1>1. CASE SpawnNext
  <2> PICK d \in Calls : Create(d)
    BY <1>1 DEF SpawnNext
  <2>1. /\ rpc' = [rpc EXCEPT ![d] = "none"]
        /\ UNCHANGED <<queue, cur>>
        /\ ~Alive(d)
    BY <1>1 DEF SpawnNext, Create
  <2> QED
    BY <1>0, <2>1 DEF AcceptedInv, Alive, TypeOK
<1>2. CASE ~SpawnNext
  <2>1. rpc[c] # "none" => rpc'[c] # "none"
    BY <1>0, <1>2
       DEF Step, Library, ClientConnect, ClientCancel, FailRequest,
           CompleteIo, FailIo, CompleteFinish, CompleteDone, RunThread,
           CqNext, CqDrained, ProceedNotOk, ProceedFinish,
           ProceedConnection, Connect, Publish, RejectUnimplemented,
           SignalIo, FinishFromCompletionQueue, StopServer,
           StopShutdown, StopCq, StopJoin, Continue, CallApi,
           CheckActive, SubmitIo, CopyFromClusterThrows, EndIo,
           FinishFromLabVIEW, DeregisterCleanupProc, UnregisterPointer,
           BeginIo, BeginClose, SetCallStatus, SetCallStatusError,
           ReturnStatus, grpcVars, TypeOK
  <2>2. CASE ClientConnect(c)
    <3>1. rpc'[c] = "open"
      BY <1>0, <2>2 DEF ClientConnect, TypeOK
    <3> QED
      BY <3>1 DEF AcceptedInv
  <2>3. CASE ~ClientConnect(c)
    <3>1. ASSUME NEW e \in queue',
                 e.kind = "Request", e.ok, e.call = c
          PROVE  e \in queue
      <4>1. CASE Library
        <5> PICK d \in Calls :
               \/ ClientConnect(d) \/ ClientCancel(d) \/ FailRequest(d)
               \/ \E k \in IoKinds, ok \in BOOLEAN : CompleteIo(k, d, ok)
               \/ \E k \in IoKinds : FailIo(k, d)
               \/ CompleteFinish(d) \/ CompleteDone(d)
          BY <4>1 DEF Library
        <5>1. CASE ClientConnect(d)
          <6>1. d # c
            BY <2>3, <5>1
          <6> QED
            BY <3>1, <5>1, <6>1 DEF ClientConnect, Enqueue
        <5>2. CASE ClientCancel(d) \/ FailRequest(d) \/ CompleteFinish(d)
                   \/ CompleteDone(d)
          BY <3>1, <5>2
             DEF ClientCancel, FailRequest, CompleteFinish, CompleteDone,
                 Enqueue
        <5>3. CASE \/ \E k \in IoKinds, ok \in BOOLEAN : CompleteIo(k, d, ok)
                   \/ \E k \in IoKinds : FailIo(k, d)
          BY <3>1, <5>3 DEF CompleteIo, FailIo, Enqueue, IoKinds
        <5> QED
          BY <5>1, <5>2, <5>3
      <4>2. CASE ~Library
        <5>1. queue' \subseteq queue
          BY <1>0, <1>2, <4>2, ThreadView
             DEF Step, RunThread, CqNext, CqDrained, ProceedNotOk,
                 ProceedFinish, ProceedConnection, Connect, Publish,
                 RejectUnimplemented, SignalIo, FinishFromCompletionQueue,
                 StopServer, StopShutdown, StopCq, StopJoin, grpcVars
        <5> QED
          BY <3>1, <5>1
      <4> QED
        BY <4>1, <4>2
    <3>2. cur' = NoEvent \/ cur' \in queue \cup {cur}
      BY StepCur DEF CqNext
    <3> QED
      BY <2>1, <3>1, <3>2 DEF AcceptedInv, NoEvent
  <2> QED
    BY <2>2, <2>3
<1> QED
  BY <1>1, <1>2

\* The inductive invariant, relative to the two others.
StandsInv == ~aborted => \A c \in Calls : StandInv(c) /\ AcceptedInv(c)

\* At the start one call waits, with its RequestCall begun.
LEMMA InitStandsInv == Init => StandsInv
<1> SUFFICES ASSUME Init, NEW c \in Calls
             PROVE  StandInv(c) /\ AcceptedInv(c)
  BY DEF StandsInv
<1> PICK c0 \in Calls :
       /\ status = [d \in Calls |-> IF d = c0 THEN "WaitingForConnection"
                                              ELSE "NotCreated"]
       /\ finishedTag = [d \in Calls |-> d = c0]
       /\ ops = {<<"Request", c0>>}
  BY DEF Init
<1>1. /\ queue = {} /\ cur = NoEvent /\ registered = {}
      /\ arg = [t \in Threads |-> NoCall]
  BY DEF Init
<1>2. cur.kind = "None" /\ cur.call = NoCall
  BY <1>1 DEF NoEvent
<1>3. CASE c = c0
  BY <1>1, <1>2, <1>3 DEF StandInv, AcceptedInv, InFlight
<1>4. CASE c # c0
  BY <1>1, <1>2, <1>4, CallsAssumption DEF StandInv, AcceptedInv, Alive
<1> QED
  BY <1>3, <1>4

\* Every step keeps what a waiting and an accepted call rest on.
LEMMA NextStandsInv ==
  IInv /\ OwnInv /\ StandsInv /\ [Next]_vars => StandsInv'
<1> SUFFICES ASSUME IInv, OwnInv, StandsInv, [Next]_vars, ~aborted',
                    NEW c \in Calls
             PROVE  StandInv(c)' /\ AcceptedInv(c)'
  BY DEF StandsInv
<1>1. CASE UNCHANGED vars
  <2>1. UNCHANGED <<status, finishedTag, registered, rpc, ops, queue, aborted,
                    cur, arg>>
    BY <1>1 DEF vars, callVars, idVars, grpcVars, runVars, threadVars
  <2>2. StandInv(c) /\ AcceptedInv(c)
    BY <2>1 DEF StandsInv
  <2> QED
    BY <2>1, <2>2 DEF StandInv, AcceptedInv, InFlight, Alive
<1>2. CASE ~UNCHANGED vars
  <2>1. Step
    BY <1>2 DEF Next, Terminated, Step, OwnInv
  <2>2. StandInv(c) /\ AcceptedInv(c)
    BY <2>1 DEF StandsInv, Step
  <2> QED
    BY <2>1, <2>2, StepStandInv, StepAcceptedInv
<1> QED
  BY <1>1, <1>2

\* Every reachable state satisfies the three invariants.
LEMMA StandsInvariant == Spec => [](IInv /\ OwnInv /\ StandsInv)
  BY InitStandsInv, NextStandsInv, OwnInvInvariant, PTL DEF Spec

----------------------------------------------------------------------------
(* The refinement *)

\* How far a call is, by what is known of it.
LEMMA Phases ==
  ASSUME NEW c
  PROVE  /\ ~Alive(c) => PhaseOf(c) = "free"
         /\ Alive(c) => PhaseOf(c) # "free"
         /\ Alive(c) /\ status[c] = "WaitingForConnection" =>
               PhaseOf(c) = IF rpc[c] = "none" THEN "listening"
                            ELSE IF Connecting(c) THEN "connecting"
                                                  ELSE "accepted"
         /\ Alive(c) /\ status[c] = "Connected" => PhaseOf(c) = "open"
         /\ Alive(c) /\ status[c] \in Over => PhaseOf(c) = "over"
  BY DEF PhaseOf, Connecting, Over

\* The phases again, of the next state.
LEMMA PhasesNext ==
  ASSUME NEW c
  PROVE  /\ ~Alive(c)' => PhaseOf(c)' = "free"
         /\ Alive(c)' /\ status'[c] = "WaitingForConnection" =>
               PhaseOf(c)' = IF rpc'[c] = "none" THEN "listening"
                             ELSE IF Connecting(c)' THEN "connecting"
                                                    ELSE "accepted"
         /\ Alive(c)' /\ status'[c] = "Connected" => PhaseOf(c)' = "open"
         /\ Alive(c)' /\ status'[c] \in Over => PhaseOf(c)' = "over"
  BY DEF PhaseOf, Connecting, Over

\* Nothing that tells how far a call is has changed.
LEMMA PhaseKept ==
  ASSUME NEW c, Alive(c)' <=> Alive(c),
         Alive(c) => /\ status'[c] = status[c]
                     /\ rpc'[c] = "none" <=> rpc[c] = "none"
                     /\ Connecting(c)' <=> Connecting(c)
  PROVE  PhaseOf(c)' = PhaseOf(c)
  BY DEF PhaseOf, Connecting

\* A step that LabVIEW and the client cannot see.
LEMMA Unseen ==
  ASSUME \A c \in Calls : PhaseOf(c)' = PhaseOf(c),
         UNCHANGED <<sent, callStatus, registered, server>>
  PROVE  UNCHANGED Service!serviceVars
  BY DEF Service!serviceVars

\* One call gets from one phase to another.
LEMMA OneMoves ==
  ASSUME NEW c \in Calls, NEW from, NEW to,
         PhaseOf(c) = from, PhaseOf(c)' = to,
         \A d \in Calls \ {c} : PhaseOf(d)' = PhaseOf(d)
  PROVE  Service!Move(c, from, to)
  BY DEF Service!Move

\* The first CallData listens.
LEMMA InitService == Init => Service!Init
<1> SUFFICES ASSUME Init PROVE Service!Init
  OBVIOUS
<1> PICK c0 \in Calls :
       /\ status = [d \in Calls |-> IF d = c0 THEN "WaitingForConnection"
                                              ELSE "NotCreated"]
       /\ finishedTag = [d \in Calls |-> d = c0]
       /\ ops = {<<"Request", c0>>}
  BY DEF Init
<1>1. /\ queue = {} /\ cur = NoEvent /\ registered = {}
      /\ arg = [t \in Threads |-> NoCall]
      /\ rpc = [c \in Calls |-> "none"]
  BY DEF Init
<1>2. cur.kind = "None" /\ cur.call = NoCall
  BY <1>1 DEF NoEvent
<1>3. PhaseOf(c0) = "listening"
  BY <1>1, Phases DEF Alive
<1>4. \A c \in Calls : c # c0 => PhaseOf(c) = "free"
  BY <1>1, <1>2, CallsAssumption, Phases DEF Alive
<1>5. [c \in Calls |-> PhaseOf(c)]
        = [c \in Calls |-> IF c = c0 THEN "listening" ELSE "free"]
  BY <1>3, <1>4
<1> QED
  BY <1>1, <1>5 DEF Init, Service!Init

\* The call c, which is over, has lost a reference or its id.
LEMMA OverMoves ==
  ASSUME NEW c \in Calls, PhaseOf(c) = "over", PhaseOf(c)' \in {"over", "free"},
         PhaseOf(c)' = "free" => c \notin registered,
         \A d \in Calls \ {c} : PhaseOf(d)' = PhaseOf(d),
         UNCHANGED <<sent, callStatus, registered, server>>
  PROVE  Service!Next \/ UNCHANGED Service!serviceVars
<1>1. CASE PhaseOf(c)' = "over"
  BY <1>1, Unseen
<1>2. CASE PhaseOf(c)' = "free"
  <2>1. Service!Release(c)
    BY <1>2, OneMoves DEF Service!Release
  <2> QED
    BY <2>1 DEF Service!Next
<1> QED
  BY <1>1, <1>2

\* A step of the service, or one it does not see.
Serves == Service!Next \/ UNCHANGED Service!serviceVars

\* The library: a client's RPC reaches the call that listens.
LEMMA LibraryServes ==
  ASSUME Moves, Library
  PROVE  Serves
<1>0. TypeOK /\ \A c \in Calls : TagInv(c) /\ RpcInv(c)
  BY DEF Moves, IInv, Own
<1>1. \A c \in Calls : Alive(c)' <=> Alive(c)
  BY <1>0, LibraryAlive
<1>2. /\ UNCHANGED <<status, sent, callStatus, registered, runPc, cur>>
  BY <1>0, LibraryStep DEF ClientCancel, Completes, callVars, idVars, runVars
<1>3. \A c \in Calls : Connecting(c)' <=> Connecting(c)
  BY <1>2 DEF Connecting
<1>4. CASE \E c \in Calls : ClientConnect(c)
  <2> PICK c \in Calls : ClientConnect(c)
    BY <1>4
  <2>1. /\ rpc' = [rpc EXCEPT ![c] = "open"]
        /\ server = "running"
        /\ server' = server
        /\ <<"Request", c>> \in ops
    BY DEF ClientConnect
  <2>2. \A d \in Calls \ {c} : PhaseOf(d)' = PhaseOf(d)
    BY <1>0, <1>1, <1>2, <1>3, <2>1, PhaseKept DEF TypeOK
  <2>3. /\ rpc[c] = "none" /\ status[c] = "WaitingForConnection" /\ Alive(c)
        /\ ~Connecting(c)
    BY <1>0, <2>1
       DEF TagInv, RequestInv, RpcInv, InFlight, Alive, Connecting, Moves,
           IInv, RunThreadInv, OnePlace, OpKinds
  <2>4. PhaseOf(c) = "listening"
    BY <2>3, Phases
  <2>5. PhaseOf(c)' = "accepted"
    BY <1>0, <1>1, <1>2, <1>3, <2>1, <2>3, PhasesNext DEF TypeOK
  <2>6. Service!Accept(c)
    BY <1>2, <2>1, <2>2, <2>4, <2>5, OneMoves DEF Service!Accept
  <2> QED
    BY <2>6 DEF Serves, Service!Next
<1>5. CASE ~\E c \in Calls : ClientConnect(c)
  <2>1. /\ server' = server
        /\ \A c \in Calls : rpc'[c] = "none" <=> rpc[c] = "none"
    BY <1>0, <1>5
       DEF Library, ClientCancel, FailRequest, CompleteIo, FailIo,
           CompleteFinish, CompleteDone, TypeOK
  <2>2. \A c \in Calls : PhaseOf(c)' = PhaseOf(c)
    BY <1>1, <1>2, <1>3, <2>1, PhaseKept
  <2> QED
    BY <1>2, <2>1, <2>2, Unseen DEF Serves
<1> QED
  BY <1>4, <1>5

\* The run thread touches only the call whose event it handles.
LEMMA OthersStay ==
  ASSUME NEW c \in Calls, cur.call = c, cur' = cur \/ cur'.call = NoCall,
         UNCHANGED <<queue, arg>>,
         \A d \in Calls \ {c} :
            /\ finishedTag'[d] = finishedTag[d] /\ status'[d] = status[d]
            /\ rpc'[d] = rpc[d]
            /\ d \in registered' <=> d \in registered
            /\ \A k \in OpKinds : <<k, d>> \in ops' <=> <<k, d>> \in ops
  PROVE  \A d \in Calls \ {c} : PhaseOf(d)' = PhaseOf(d)
<1> SUFFICES ASSUME NEW d \in Calls \ {c} PROVE PhaseOf(d)' = PhaseOf(d)
  OBVIOUS
<1>1. cur.call # d /\ cur'.call # d
  BY CallsAssumption
<1>2. Alive(d)' <=> Alive(d)
  BY <1>1 DEF Alive
<1> QED
  BY <1>1, <1>2, PhaseKept DEF Connecting

\* Proceed of an event with which nothing begins.
LEMMA ProceedServes ==
  ASSUME Moves, ProceedNotOk \/ ProceedFinish
  PROVE  Serves
<1>1. /\ TypeOK
      /\ RunThreadInv
      /\ ShutdownInv
      /\ cur.kind \in {"Request", "Finish"}
      /\ runPc = "proceed"
  BY DEF Moves, IInv, ProceedNotOk, ProceedFinish, IsCallTag
<1> PICK c \in Calls : c = cur.call
  BY <1>1, CurIsEvent
<1>2. cur.kind \in OpKinds
  BY <1>1 DEF OpKinds
<1>3. /\ TagInv(c) /\ RpcInv(c) /\ \A k \in IoKinds : IoInv(k, c)
      /\ InFlight(cur.kind, c) /\ Alive(c)
  BY <1>2 DEF Moves, IInv, Own, InFlight, Alive
<1>4. /\ UNCHANGED <<queue, arg, ops, rpc, registered, sent>>
      /\ UNCHANGED <<callStatus, server>>
      /\ cur' = NoEvent /\ cur'.call = NoCall
      /\ status' = [status EXCEPT ![c] = "Finished"]
  BY DEF ProceedNotOk, ProceedFinish, NextEvent, NoEvent, grpcVars, idVars,
         threadVars
<1>5. \A d \in Calls \ {c} : finishedTag'[d] = finishedTag[d]
  BY <1>1 DEF ProceedNotOk, ProceedFinish, TypeOK
<1>6. \A d \in Calls \ {c} : PhaseOf(d)' = PhaseOf(d)
  <2>1. \A d \in Calls \ {c} : status'[d] = status[d]
    BY <1>1, <1>4 DEF TypeOK
  <2> QED
    BY <1>2, <1>4, <1>5, <2>1, OthersStay
<1>7. status'[c] = "Finished"
  BY <1>1, <1>2, <1>4 DEF TypeOK
<1>8. CASE status[c] \in Over
  <2>1. PhaseOf(c) = "over"
    BY <1>3, <1>8, Phases
  <2>2. PhaseOf(c)' \in {"over", "free"}
    BY <1>7, PhasesNext DEF Over
  <2>3. PhaseOf(c)' = "free" => c \notin registered
    BY <1>4, <1>7, PhasesNext DEF Over, Alive
  <2> QED
    BY <1>2, <1>4, <1>6, <2>1, <2>2, <2>3, OverMoves DEF Serves
<1>9. CASE status[c] \notin Over
  <2>1. ProceedNotOk /\ ~cur.ok /\ cur.kind = "Request"
    BY <1>1, <1>3, <1>9
       DEF ProceedNotOk, ProceedFinish, TagInv, FinishInv, Over
  <2>2. /\ status[c] = "WaitingForConnection" /\ rpc[c] = "none"
        /\ c \notin registered /\ \A t \in Threads : arg[t] # c
        /\ ~InFlight("Done", c) /\ server = "shutdown"
    BY <1>1, <1>3, <2>1 DEF TagInv, RequestInv, RpcInv, ShutdownInv
  <2>3. ~finishedTag'[c]
    BY <1>1, <1>2, <2>1, <2>2 DEF ProceedNotOk, TypeOK
  <2>4. \A k \in OpKinds :
           <<k, c>> \notin ops /\ ~\E e \in queue : e.kind = k /\ e.call = c
    <3>1. CASE \E k \in IoKinds : InFlight(k, c)
      BY <1>3, <2>2, <3>1 DEF IoInv, Waits
    <3>2. CASE \A k \in IoKinds : ~InFlight(k, c)
      BY <1>3, <2>1, <2>2, <3>2
         DEF OpKinds, TagInv, FinishInv, OnePlace, InFlight
    <3> QED
      BY <3>1, <3>2
  <2>5. \A e \in queue : e.call # c
    BY <1>1, <2>4 DEF TypeOK, Event
  <2>6. ~Alive(c)'
    BY <1>2, <1>4, <2>2, <2>3, <2>4, <2>5, CallsAssumption DEF Alive
  <2>7. PhaseOf(c) = "listening" /\ PhaseOf(c)' = "free"
    BY <1>3, <2>2, <2>6, Phases, PhasesNext
  <2>8. Service!Withdraw(c)
    BY <1>2, <1>4, <1>6, <2>2, <2>7, OneMoves DEF Service!Withdraw
  <2> QED
    BY <1>2, <2>8 DEF Serves, Service!Next
<1> QED
  BY <1>8, <1>9

\* What is known while Proceed sets up the connection in its hands.
LEMMA ConnectionFacts ==
  ASSUME Moves, \A c \in Calls : StandInv(c) /\ AcceptedInv(c),
         runPc \in {"create", "publish", "connect"}
  PROVE  /\ cur.call \in Calls
         /\ status[cur.call] = "WaitingForConnection"
         /\ rpc[cur.call] # "none"
         /\ finishedTag[cur.call] /\ Alive(cur.call)
         /\ PhaseOf(cur.call) = IF runPc = "create" THEN "accepted"
                                                    ELSE "connecting"
<1>1. /\ TypeOK /\ RunThreadInv /\ cur.kind = "Request" /\ cur.ok
  BY DEF Moves, IInv, RunThreadInv
<1>2. cur.call \in Calls
  BY <1>1, CurIsEvent
<1>3. /\ status[cur.call] = "WaitingForConnection" /\ finishedTag[cur.call]
      /\ rpc[cur.call] # "none" /\ Alive(cur.call)
  BY <1>1, <1>2
     DEF Moves, IInv, TagInv, RequestInv, AcceptedInv, InFlight, Alive
<1> QED
  BY <1>1, <1>2, <1>3, Phases DEF Connecting

\* Proceed replaces the call by a new one that listens.
LEMMA SpawnNextServes ==
  ASSUME Moves, \A c \in Calls : StandInv(c) /\ AcceptedInv(c), SpawnNext
  PROVE  Serves
<1> PICK d \in Calls : Create(d)
  BY DEF SpawnNext
<1> PICK c \in Calls : c = cur.call
  BY ConnectionFacts DEF SpawnNext
<1>1. /\ TypeOK /\ runPc = "create" /\ runPc' = "publish" /\ ~Alive(d)
      /\ UNCHANGED <<registered, server, cur>>
      /\ status' = [status EXCEPT ![d] = "WaitingForConnection"]
      /\ finishedTag' = [finishedTag EXCEPT ![d] = TRUE]
      /\ callStatus' = [callStatus EXCEPT ![d] = "OK"]
      /\ sent' = [sent EXCEPT ![d] = <<>>]
      /\ rpc' = [rpc EXCEPT ![d] = "none"]
  BY DEF Moves, IInv, SpawnNext, Create
<1>2. /\ PhaseOf(c) = "accepted" /\ PhaseOf(d) = "free" /\ Alive(c) /\ c # d
      /\ status[c] = "WaitingForConnection" /\ rpc[c] # "none"
  BY <1>1, ConnectionFacts, Phases
<1>3. PhaseOf(c)' = "connecting"
  <2>1. Alive(c)' /\ Connecting(c)'
    BY <1>1 DEF Alive, Connecting
  <2>2. status'[c] = status[c] /\ rpc'[c] = rpc[c]
    BY <1>1, <1>2 DEF TypeOK
  <2> QED
    BY <1>2, <2>1, <2>2, PhasesNext
<1>4. PhaseOf(d)' = "listening"
  <2>1. /\ finishedTag'[d]
        /\ status'[d] = "WaitingForConnection"
        /\ rpc'[d] = "none"
    BY <1>1 DEF TypeOK
  <2>2. Alive(d)'
    BY <2>1 DEF Alive
  <2> QED
    BY <2>1, <2>2, PhasesNext
<1>5. ASSUME NEW e \in Calls, e # c, e # d
      PROVE  PhaseOf(e)' = PhaseOf(e)
  <2>1. Alive(e)' <=> Alive(e)
    BY <1>1, <1>5, CreateMakesOne
  <2>2. status'[e] = status[e] /\ rpc'[e] = rpc[e]
    BY <1>1, <1>5 DEF TypeOK
  <2>3. Connecting(e)' <=> Connecting(e)
    BY <1>1, <1>5 DEF Connecting
  <2> QED
    BY <2>1, <2>2, <2>3, PhaseKept
<1>6. [b \in Calls |-> PhaseOf(b)']
        = [[b \in Calls |-> PhaseOf(b)] EXCEPT ![c] = "connecting",
                                               ![d] = "listening"]
  BY <1>2, <1>3, <1>4, <1>5
<1>7. Service!Replace(c, d)
  BY <1>1, <1>2, <1>6 DEF Service!Replace
<1> QED
  BY <1>7 DEF Serves, Service!Next

\* Proceed tells LabVIEW of the call.
LEMMA PublishServes ==
  ASSUME Moves, \A c \in Calls : StandInv(c) /\ AcceptedInv(c), Publish
  PROVE  Serves
<1> PICK c \in Calls : c = cur.call
  BY ConnectionFacts DEF Publish
<1>1. /\ runPc = "publish" /\ runPc' = "connect"
      /\ registered' = registered \cup {c}
      /\ UNCHANGED <<server, cur, queue, arg, status, finishedTag, rpc, ops,
                     callStatus, sent>>
  BY DEF Publish, callVars, grpcVars, threadVars
<1>2. \A d \in Calls \ {c} : PhaseOf(d)' = PhaseOf(d)
  BY <1>1, OthersStay
<1>3. PhaseOf(c) = "connecting" /\ PhaseOf(c)' = "connecting"
  <2>1. Alive(c)' /\ Alive(c) /\ Connecting(c) /\ Connecting(c)'
    BY <1>1 DEF Alive, Connecting
  <2>2. status[c] = "WaitingForConnection" /\ rpc[c] # "none"
    BY <1>1, ConnectionFacts
  <2> QED
    BY <1>1, <2>1, <2>2, Phases, PhasesNext
<1>4. Service!Tell(c)
  BY <1>1, <1>2, <1>3 DEF Service!Tell
<1> QED
  BY <1>4 DEF Serves, Service!Next

\* Proceed opens the call.
LEMMA ConnectServes ==
  ASSUME Moves, \A c \in Calls : StandInv(c) /\ AcceptedInv(c), Connect
  PROVE  Serves
<1> PICK c \in Calls : c = cur.call
  BY ConnectionFacts DEF Connect
<1>1. /\ TypeOK /\ runPc = "connect" /\ c \in registered
      /\ cur' = NoEvent /\ cur'.call = NoCall
      /\ status' = [status EXCEPT ![c] = "Connected"]
      /\ UNCHANGED <<server, queue, arg, finishedTag, rpc, ops, registered,
                     callStatus, sent>>
  BY DEF Connect, NextEvent, NoEvent, idVars, grpcVars, threadVars, Moves,
         IInv, Own, PublishInv
<1>2. \A d \in Calls \ {c} : PhaseOf(d)' = PhaseOf(d)
  <2>1. \A d \in Calls \ {c} : status'[d] = status[d]
    BY <1>1 DEF TypeOK
  <2> QED
    BY <1>1, <2>1, OthersStay
<1>3. PhaseOf(c) = "connecting"
  BY <1>1, ConnectionFacts
<1>4. PhaseOf(c)' = "open"
  <2>1. Alive(c)' /\ status'[c] = "Connected"
    BY <1>1 DEF Alive, TypeOK
  <2> QED
    BY <2>1, PhasesNext
<1>5. Service!Open(c)
  BY <1>1, <1>2, <1>3, <1>4, OneMoves DEF Service!Open
<1> QED
  BY <1>5 DEF Serves, Service!Next

\* Proceed rejects the call.
LEMMA RejectServes ==
  ASSUME Moves, \A c \in Calls : StandInv(c) /\ AcceptedInv(c),
         RejectUnimplemented
  PROVE  Serves
<1> PICK c \in Calls : c = cur.call
  BY ConnectionFacts DEF RejectUnimplemented
<1>1. /\ TypeOK /\ runPc = "publish"
      /\ cur' = NoEvent /\ cur'.call = NoCall
      /\ status' = [status EXCEPT ![c] = "Finishing"]
      /\ sent' = [sent EXCEPT ![c] = Append(@, "UNIMPLEMENTED")]
      /\ ops' \in {ops, ops \cup {<<"Finish", c>>}}
      /\ UNCHANGED <<server, queue, arg, finishedTag, rpc, registered,
                     callStatus>>
  BY DEF RejectUnimplemented, StreamFinish, Begin, NextEvent, NoEvent, idVars,
         threadVars, Moves, IInv
<1>2. c \notin registered /\ finishedTag[c] /\ PhaseOf(c) = "connecting"
  <2>1. TagInv(c) /\ InFlight("Request", c)
    BY <1>1 DEF Moves, IInv, RunThreadInv, InFlight
  <2> QED
    BY <1>1, <2>1, ConnectionFacts DEF TagInv, RequestInv
<1>3. \A d \in Calls \ {c} : PhaseOf(d)' = PhaseOf(d)
  <2>1. \A d \in Calls \ {c} : status'[d] = status[d]
    BY <1>1 DEF TypeOK
  <2> QED
    BY <1>1, <2>1, OthersStay
<1>4. PhaseOf(c)' = "over"
  <2>1. Alive(c)' /\ status'[c] = "Finishing"
    BY <1>1, <1>2 DEF Alive, TypeOK
  <2> QED
    BY <2>1, PhasesNext DEF Over
<1>5. Service!Reject(c)
  BY <1>1, <1>2, <1>3, <1>4, OneMoves DEF Service!Reject
<1> QED
  BY <1>5 DEF Serves, Service!Next

\* CallFinishedTag: the RPC is over.
LEMMA DoneServes ==
  ASSUME Moves, \A c \in Calls : StandInv(c) /\ AcceptedInv(c),
         FinishFromCompletionQueue
  PROVE  Serves
<1>1. /\ TypeOK /\ cur.kind = "Done"
  BY DEF Moves, IInv, FinishFromCompletionQueue
<1> PICK c \in Calls : c = cur.call
  BY <1>1, CurIsEvent
<1>2. /\ cur' = NoEvent /\ cur'.call = NoCall
      /\ finishedTag' = [finishedTag EXCEPT ![c] = FALSE]
      /\ status' = [status EXCEPT
                      ![c] = IF @ \in {"Finishing", "Finished"} THEN @
                                                                ELSE "Finished"]
      /\ UNCHANGED <<server, queue, arg, ops, rpc>>
      /\ UNCHANGED <<registered, callStatus, sent>>
  BY DEF FinishFromCompletionQueue, NextEvent, NoEvent, idVars, grpcVars,
         threadVars
<1>3. \A d \in Calls \ {c} : PhaseOf(d)' = PhaseOf(d)
  <2>1. \A d \in Calls \ {c} : /\ status'[d] = status[d]
                               /\ finishedTag'[d] = finishedTag[d]
    BY <1>1, <1>2 DEF TypeOK
  <2> QED
    BY <1>2, <2>1, OthersStay
<1>4. status'[c] \in Over
  BY <1>1, <1>2 DEF TypeOK, Over
<1>5. Alive(c) /\ InFlight("Done", c) /\ TagInv(c)
  BY <1>1 DEF Alive, InFlight, Moves, IInv
<1>6. status[c] \in Over \cup {"Connected"}
  BY <1>1, <1>5 DEF TypeOK, StandInv, TagInv, RequestInv, Over, CallStatus
<1>7. CASE status[c] \in Over
  <2>1. PhaseOf(c) = "over"
    BY <1>5, <1>7, Phases
  <2>2. PhaseOf(c)' \in {"over", "free"}
    BY <1>4, PhasesNext
  <2>3. PhaseOf(c)' = "free" => c \notin registered
    BY <1>2, <1>4, PhasesNext DEF Alive
  <2> QED
    BY <1>2, <1>3, <2>1, <2>2, <2>3, OverMoves DEF Serves
<1>8. CASE status[c] = "Connected"
  <2>1. PhaseOf(c) = "open"
    BY <1>5, <1>8, Phases
  <2>2. Alive(c)'
    BY <1>2, <1>8 DEF StandInv, Alive
  <2>3. PhaseOf(c)' = "over"
    BY <1>4, <2>2, PhasesNext
  <2>4. Service!GoAway(c)
    BY <1>2, <1>3, <2>1, <2>3, OneMoves DEF Service!GoAway
  <2> QED
    BY <2>4 DEF Serves, Service!Next
<1> QED
  BY <1>6, <1>7, <1>8

\* The other steps of the run thread are not seen.
LEMMA RunThreadServes ==
  ASSUME Moves, \A c \in Calls : StandInv(c) /\ AcceptedInv(c), RunThread
  PROVE  Serves
<1>0. TypeOK /\ RunThreadInv
  BY DEF Moves, IInv
<1>1. CASE \E e \in queue : CqNext(e)
  <2> PICK e \in queue : CqNext(e)
    BY <1>1
  <2>1. /\ queue' = queue \ {e} /\ cur' = e /\ runPc = "next"
        /\ runPc' = "proceed" /\ cur.call = NoCall
        /\ ops' \in {ops, ops \cup {<<"Done", e.call>>}}
        /\ UNCHANGED <<status, finishedTag, rpc, arg, sent, callStatus,
                       registered, server>>
    BY <1>0
       DEF CqNext, RunThreadInv, NoEvent, callVars, idVars, threadVars
  <2>2. ASSUME NEW c \in Calls PROVE PhaseOf(c)' = PhaseOf(c)
    <3>1. Alive(c)' <=> Alive(c)
      BY <2>1, CallsAssumption DEF Alive
    <3>2. Connecting(c)' <=> Connecting(c)
      BY <2>1 DEF Connecting
    <3> QED
      BY <2>1, <3>1, <3>2, PhaseKept
  <2> QED
    BY <2>1, <2>2, Unseen DEF Serves
<1>2. CASE CqDrained \/ ProceedConnection
  <2>1. /\ UNCHANGED <<status, finishedTag, rpc, arg, sent, callStatus, queue,
                       ops, cur, registered, server>>
        /\ runPc \notin {"publish", "connect"}
        /\ runPc' \notin {"publish", "connect"}
    BY <1>2
       DEF CqDrained, ProceedConnection, callVars, idVars, grpcVars,
           threadVars
  <2>2. \A c \in Calls : PhaseOf(c)' = PhaseOf(c)
    BY <2>1, PhaseKept DEF Alive, Connecting
  <2> QED
    BY <2>1, <2>2, Unseen DEF Serves
<1>3. CASE \E t \in Threads : SignalIo(t)
  <2> PICK t \in Threads : SignalIo(t)
    BY <1>3
  <2>1. /\ UNCHANGED <<status, finishedTag, rpc, arg, sent, callStatus, queue,
                       ops, registered, server>>
        /\ cur' = NoEvent /\ cur'.call = NoCall /\ arg[t] = cur.call
        /\ runPc = "proceed" /\ runPc' = "next"
    BY DEF SignalIo, NextEvent, NoEvent, callVars, idVars, grpcVars
  <2>2. \A c \in Calls : PhaseOf(c)' = PhaseOf(c)
    BY <2>1, CallsAssumption, PhaseKept DEF Alive, Connecting
  <2> QED
    BY <2>1, <2>2, Unseen DEF Serves
<1> QED
  BY <1>1, <1>2, <1>3, ProceedServes, SpawnNextServes, PublishServes,
     ConnectServes, RejectServes, DoneServes
     DEF RunThread

\* A thread leaves an operation: if its reference was the last one, the call
\* is over.
LEMMA LeaveServes ==
  ASSUME Moves, \A c \in Calls : StandInv(c) /\ AcceptedInv(c),
         NEW t \in Threads, pc[t] # "idle", Leave(t),
         UNCHANGED <<callVars, idVars, grpcVars, runVars>>
  PROVE  Serves
<1> PICK c \in Calls : c = arg[t]
  BY DEF Moves, IInv, ThreadInv
<1>1. /\ UNCHANGED <<status, finishedTag, rpc, sent, callStatus, queue, ops,
                     cur, runPc, registered, server>>
      /\ arg' = [arg EXCEPT ![t] = NoCall] /\ TypeOK
  BY DEF Leave, Moves, IInv, callVars, idVars, grpcVars, runVars
<1>2. ASSUME NEW d \in Calls, d # c \/ Alive(d)'
      PROVE  PhaseOf(d)' = PhaseOf(d)
  <2>1. Alive(d)' <=> Alive(d)
    BY <1>1, <1>2, CallsAssumption DEF Alive, TypeOK
  <2> QED
    BY <1>1, <2>1, PhaseKept DEF Connecting
<1>3. CASE Alive(c)'
  BY <1>1, <1>2, <1>3, Unseen DEF Serves
<1>4. CASE ~Alive(c)'
  <2>1. Alive(c) /\ c \notin registered /\ cur.call # c
    BY <1>1, <1>4 DEF Alive
  <2>2. status[c] \in Over
    BY <1>1, <2>1
       DEF TypeOK, StandInv, Moves, IInv, TagInv, RequestInv, Over, CallStatus
  <2>3. PhaseOf(c) = "over" /\ PhaseOf(c)' = "free"
    BY <1>4, <2>1, <2>2, Phases, PhasesNext
  <2> QED
    BY <1>1, <1>2, <2>1, <2>3, OverMoves DEF Serves
<1> QED
  BY <1>3, <1>4

\* CloseServerEvent ends an open RPC with the status that LabVIEW set last.
LEMMA FinishServes ==
  ASSUME Moves, \A c \in Calls : StandInv(c) /\ AcceptedInv(c),
         NEW t \in Threads, FinishFromLabVIEW(t)
  PROVE  Serves
<1> PICK c \in Calls : c = arg[t]
  BY DEF Moves, IInv, ThreadInv, FinishFromLabVIEW
<1>1. /\ UNCHANGED <<finishedTag, rpc, callStatus, queue, cur, runPc,
                     registered, server, arg>>
      /\ ~StateLocked(c) /\ TypeOK /\ TagInv(c) /\ Alive(c) /\ Alive(c)'
  BY DEF FinishFromLabVIEW, Moves, IInv, idVars, runVars, Alive
<1>2. \A d \in Calls : Connecting(d)' <=> Connecting(d)
  BY <1>1 DEF Connecting
<1>3. CASE status[c] \in Over
  <2>1. UNCHANGED <<status, sent, ops>>
    BY <1>3 DEF FinishFromLabVIEW, Over
  <2>2. \A d \in Calls : PhaseOf(d)' = PhaseOf(d)
    BY <1>1, <1>2, <2>1, PhaseKept DEF Alive
  <2> QED
    BY <1>1, <2>1, <2>2, Unseen DEF Serves
<1>4. CASE status[c] \notin Over
  <2>1. status[c] = "Connected"
    BY <1>1, <1>4
       DEF TypeOK, StandInv, TagInv, RequestInv, StateLocked, Over, CallStatus
  <2>2. /\ status' = [status EXCEPT ![c] = "Finishing"]
        /\ sent' = [sent EXCEPT ![c] = Append(@, callStatus[c])]
        /\ ops' \in {ops, ops \cup {<<"Finish", c>>}}
    BY <1>4 DEF FinishFromLabVIEW, StreamFinish, Begin, Over
  <2>3. ASSUME NEW d \in Calls, d # c
        PROVE  PhaseOf(d)' = PhaseOf(d)
    <3>1. Alive(d)' <=> Alive(d)
      BY <1>1, <2>2, <2>3 DEF Alive
    <3>2. status'[d] = status[d]
      BY <1>1, <2>2, <2>3 DEF TypeOK
    <3> QED
      BY <1>1, <1>2, <3>1, <3>2, PhaseKept
  <2>4. status'[c] = "Finishing"
    BY <1>1, <2>2 DEF TypeOK
  <2>5. PhaseOf(c) = "open" /\ PhaseOf(c)' = "over"
    BY <1>1, <2>1, <2>4, Phases, PhasesNext DEF Over
  <2>6. Service!Answer(c)
    BY <1>1, <2>2, <2>3, <2>5, OneMoves DEF Service!Answer
  <2> QED
    BY <2>6 DEF Serves, Service!Next
<1> QED
  BY <1>3, <1>4

\* CloseServerEvent drops the id of a call that is over.
LEMMA UnregisterServes ==
  ASSUME Moves, NEW t \in Threads, UnregisterPointer(t)
  PROVE  Serves
<1> PICK c \in Calls : c = arg[t]
  BY DEF Moves, IInv, ThreadInv, UnregisterPointer
<1>1. /\ UNCHANGED <<status, finishedTag, rpc, sent, callStatus, queue, ops,
                     cur, runPc, server>>
      /\ arg' = [arg EXCEPT ![t] = NoCall]
      /\ registered' = registered \ {c}
      /\ TypeOK /\ status[c] \in Over /\ Alive(c)
  BY DEF UnregisterPointer, Leave, Moves, IInv, Own, HoldInv, Alive, callVars,
         grpcVars, runVars
<1>2. ASSUME NEW d \in Calls, d # c
      PROVE  PhaseOf(d)' = PhaseOf(d)
  <2>1. Alive(d)' <=> Alive(d)
    BY <1>1, <1>2, CallsAssumption DEF Alive, TypeOK
  <2> QED
    BY <1>1, <2>1, PhaseKept DEF Connecting
<1>3. PhaseOf(c) = "over" /\ PhaseOf(c)' \in {"over", "free"}
  BY <1>1, Phases, PhasesNext
<1>4. CASE c \in registered
  <2>1. [b \in Calls |-> PhaseOf(b)']
          \in {[b \in Calls |-> PhaseOf(b)],
               [[b \in Calls |-> PhaseOf(b)] EXCEPT ![c] = "free"]}
    BY <1>2, <1>3
  <2>2. Service!Close(c)
    BY <1>1, <1>3, <2>1 DEF Service!Close
  <2> QED
    BY <2>2 DEF Serves, Service!Next
<1>5. CASE c \notin registered
  <2>1. registered' = registered
    BY <1>1, <1>5
  <2> QED
    BY <1>1, <1>2, <1>3, <1>5, <2>1, OverMoves DEF Serves
<1> QED
  BY <1>4, <1>5

\* The steps of a LabVIEW thread.
LEMMA ThreadServes ==
  ASSUME Moves, \A c \in Calls : StandInv(c) /\ AcceptedInv(c),
         NEW t \in Threads, Continue(t) \/ CallApi(t)
  PROVE  Serves
<1>0. TypeOK /\ HoldInv /\ ThreadInv
  BY DEF Moves, IInv, Own
<1>1. CASE EndIo(t) \/ CopyFromClusterThrows(t)
  BY <1>1, LeaveServes DEF EndIo, CopyFromClusterThrows
<1>2. CASE CheckActive(t) /\ ~IsActive(arg[t])
  BY <1>2, LeaveServes DEF CheckActive
<1>3. CASE \/ CheckActive(t) /\ IsActive(arg[t])
           \/ DeregisterCleanupProc(t)
  <2>1. UNCHANGED <<status, finishedTag, rpc, sent, callStatus, queue, ops,
                    cur, runPc, registered, server, arg>>
    BY <1>3
       DEF CheckActive, DeregisterCleanupProc, callVars, idVars, grpcVars,
           runVars
  <2>2. \A c \in Calls : PhaseOf(c)' = PhaseOf(c)
    BY <2>1, PhaseKept DEF Alive, Connecting
  <2> QED
    BY <2>1, <2>2, Unseen DEF Serves
<1>4. CASE SubmitIo(t)
  <2>1. /\ UNCHANGED <<status, finishedTag, rpc, sent, callStatus, queue, cur,
                       runPc, registered, server, arg>>
        /\ ops' \in {ops, ops \cup {<<op[t], arg[t]>>}}
    BY <1>4 DEF SubmitIo, Begin, callVars, idVars, runVars
  <2>2. \A c \in Calls : PhaseOf(c)' = PhaseOf(c)
    BY <2>1, PhaseKept DEF Alive, Connecting
  <2> QED
    BY <2>1, <2>2, Unseen DEF Serves
<1>5. CASE \E c \in Calls : \/ BeginClose(t, c) \/ SetCallStatus(t, c)
                             \/ \E k \in IoKinds : BeginIo(t, c, k)
  <2> PICK c \in Calls : \/ BeginClose(t, c) \/ SetCallStatus(t, c)
                         \/ \E k \in IoKinds : BeginIo(t, c, k)
    BY <1>5
  <2>1. /\ UNCHANGED <<status, finishedTag, rpc, sent, callStatus, queue, ops,
                       cur, runPc, registered, server>>
        /\ c \in registered /\ arg[t] = NoCall
        /\ arg' = [arg EXCEPT ![t] = c]
    BY <1>0
       DEF BeginClose, SetCallStatus, BeginIo, Enter, HoldInv, callVars, idVars,
           grpcVars, runVars
  <2>2. ASSUME NEW d \in Calls PROVE PhaseOf(d)' = PhaseOf(d)
    <3>1. Alive(d)' <=> Alive(d)
      BY <1>0, <2>1, CallsAssumption DEF Alive, TypeOK
    <3> QED
      BY <2>1, <3>1, PhaseKept DEF Connecting
  <2> QED
    BY <2>1, <2>2, Unseen DEF Serves
<1>6. CASE \E s \in {"OK", "INTERNAL"} : SetCallStatusError(t, s)
  <2> PICK s \in {"OK", "INTERNAL"} : SetCallStatusError(t, s)
    BY <1>6
  <2> PICK c \in Calls : c = arg[t]
    BY <1>0 DEF SetCallStatusError, ThreadInv
  <2>1. /\ UNCHANGED <<status, finishedTag, rpc, sent, queue, ops, cur, runPc,
                       registered, server, arg>>
        /\ callStatus' = [callStatus EXCEPT ![c] = s]
    BY DEF SetCallStatusError, idVars, grpcVars, runVars
  <2>2. \A d \in Calls : PhaseOf(d)' = PhaseOf(d)
    BY <2>1, PhaseKept DEF Alive, Connecting
  <2>3. c \in registered \/ PhaseOf(c) = "over"
    <3> SUFFICES ASSUME c \notin registered
                 PROVE  PhaseOf(c) = "over"
      OBVIOUS
    <3>1. Alive(c)
      BY DEF Alive
    <3>2. status[c] \in Over
      BY <1>0, <3>1
         DEF TypeOK, StandInv, Moves, IInv, Own, TagInv, RequestInv, PublishInv,
             Over, CallStatus
    <3> QED
      BY <1>0, <3>1, <3>2, Phases
  <2>4. Service!SetVerdict(c, s)
    BY <2>1, <2>2, <2>3 DEF Service!SetVerdict
  <2> QED
    BY <2>4 DEF Serves, Service!Next
<1>7. CASE ReturnStatus(t)
  BY <1>7, LeaveServes DEF ReturnStatus
<1> QED
  BY <1>1, <1>2, <1>3, <1>4, <1>5, <1>6, <1>7, FinishServes, UnregisterServes
     DEF Continue, CallApi

\* StopServer.
LEMMA StopServes ==
  ASSUME Moves, StopServer
  PROVE  Serves
<1>1. /\ UNCHANGED <<status, finishedTag, sent, callStatus, queue, ops, cur,
                     runPc, registered, arg>>
      /\ \A c \in Calls : rpc'[c] = "none" <=> rpc[c] = "none"
      /\ server' = server \/ server' = "shutdown"
  BY DEF StopServer, StopShutdown, StopCq, StopJoin, callVars, idVars,
         grpcVars, runVars, threadVars
<1>2. \A c \in Calls : PhaseOf(c)' = PhaseOf(c)
  BY <1>1, PhaseKept DEF Alive, Connecting
<1>3. CASE server' = server
  BY <1>1, <1>2, <1>3, Unseen DEF Serves
<1>4. CASE server' = "shutdown"
  <2>1. Service!Stop
    BY <1>1, <1>2, <1>4 DEF Service!Stop
  <2> QED
    BY <2>1 DEF Serves, Service!Next
<1> QED
  BY <1>1, <1>3, <1>4

\* Every step of the server is a step of the service or is not seen.
LEMMA NextServes ==
  IInv /\ OwnInv /\ StandsInv /\ [Next]_vars
    => [Service!Next]_(Service!serviceVars)
<1> SUFFICES ASSUME IInv, OwnInv, StandsInv, [Next]_vars
             PROVE  Serves
  BY DEF Serves
<1>1. CASE UNCHANGED vars
  <2>1. UNCHANGED <<status, finishedTag, rpc, sent, callStatus, queue, ops,
                    cur, runPc, registered, server, arg>>
    BY <1>1 DEF vars, callVars, idVars, grpcVars, runVars, threadVars
  <2>2. \A c \in Calls : PhaseOf(c)' = PhaseOf(c)
    BY <2>1, PhaseKept DEF Alive, Connecting
  <2> QED
    BY <2>1, <2>2, Unseen DEF Serves
<1>2. CASE ~UNCHANGED vars
  <2>1. Moves /\ \A c \in Calls : StandInv(c) /\ AcceptedInv(c)
    BY <1>2 DEF Next, Terminated, Moves, OwnInv, StandsInv
  <2> QED
    BY <2>1, LibraryServes, RunThreadServes, ThreadServes, StopServes DEF Moves
<1> QED
  BY <1>1, <1>2

\* The threads, tags and events of a server implement the service that clients
\* and LabVIEW code see, for any number of calls and threads, also in the step
\* in which the library aborts the process.
THEOREM ServerImplementsRpcService == Spec => ImplementsRpcService
<1>1. Init => Service!Init
  BY InitService
<1>2. IInv /\ OwnInv /\ StandsInv /\ [Next]_vars
        => [Service!Next]_(Service!serviceVars)
  BY NextServes
<1> QED
  BY <1>1, <1>2, StandsInvariant, PTL
     DEF Spec, ImplementsRpcService, Service!Spec
----------------------------------------------------------------------------
(* Whose RPC an operation works on *)

\* A call that LabVIEW can reach, or reaches in an operation, has an RPC.
ReachInv ==
    /\ \A c \in registered : rpc[c] # "none"
    /\ OperationKeepsItsCall

\* No RPC is taken from a CallData that exists.
LEMMA RpcStays ==
  ASSUME Moves, NEW c \in Calls, Alive(c), rpc[c] # "none"
  PROVE  rpc'[c] # "none"
<1>0. TypeOK
  BY DEF Moves, IInv
<1>1. CASE Library
  BY <1>0, <1>1
     DEF Library, ClientConnect, ClientCancel, FailRequest, CompleteIo, FailIo,
         CompleteFinish, CompleteDone, TypeOK
<1>2. CASE SpawnNext
  <2> PICK d \in Calls : Create(d)
    BY <1>2 DEF SpawnNext
  <2>1. c # d /\ rpc' = [rpc EXCEPT ![d] = "none"]
    BY DEF Create
  <2> QED
    BY <1>0, <2>1 DEF TypeOK
<1>3. CASE StopServer
  BY <1>0, <1>3 DEF StopServer, StopShutdown, StopCq, StopJoin, grpcVars, TypeOK
<1>4. CASE \/ RunThread /\ ~SpawnNext
           \/ \E t \in Threads : Continue(t) \/ CallApi(t)
  <2>1. rpc' = rpc
    BY <1>0, <1>4, ThreadView
       DEF RunThread, CqNext, CqDrained, ProceedNotOk, ProceedFinish,
           ProceedConnection, Publish, Connect, RejectUnimplemented,
           FinishFromCompletionQueue, SignalIo, grpcVars
  <2> QED
    BY <2>1
<1> QED
  BY <1>1, <1>2, <1>3, <1>4 DEF Moves

\* Only Proceed registers a call, that of the connection it handles.
LEMMA RegisteredStep ==
  ASSUME Moves
  PROVE  registered' \subseteq registered \/ Publish
<1>1. CASE Library \/ StopServer
  BY <1>1
     DEF Library, ClientConnect, ClientCancel, FailRequest, CompleteIo, FailIo,
         CompleteFinish, CompleteDone, StopServer, StopShutdown, StopCq,
         StopJoin, idVars
<1>2. CASE RunThread
  BY <1>2
     DEF RunThread, CqNext, CqDrained, ProceedNotOk, ProceedFinish,
         ProceedConnection, SpawnNext, Connect, RejectUnimplemented,
         FinishFromCompletionQueue, SignalIo, idVars
<1>3. CASE \E t \in Threads : Continue(t) \/ CallApi(t)
  BY <1>3
     DEF Continue, CallApi, CheckActive, SubmitIo, CopyFromClusterThrows, EndIo,
         FinishFromLabVIEW, DeregisterCleanupProc, UnregisterPointer, BeginIo,
         BeginClose, SetCallStatus, SetCallStatusError, ReturnStatus, idVars
<1> QED
  BY <1>1, <1>2, <1>3 DEF Moves

\* What a LabVIEW thread works on it has got from the registered calls.
LEMMA ArgStep ==
  ASSUME Moves, NEW u \in Threads, arg'[u] # NoCall
  PROVE  arg'[u] \in {arg[u]} \cup registered
<1>0. TypeOK
  BY DEF Moves, IInv
<1>1. CASE Library \/ RunThread \/ StopServer
  BY <1>1, OthersView DEF threadVars
<1>2. CASE \E t \in Threads : Continue(t) \/ CallApi(t)
  BY <1>0, <1>2
     DEF Continue, CallApi, CheckActive, SubmitIo, CopyFromClusterThrows, EndIo,
         FinishFromLabVIEW, DeregisterCleanupProc, UnregisterPointer, BeginIo,
         BeginClose, SetCallStatus, SetCallStatusError, ReturnStatus, Enter,
         Leave, TypeOK
<1> QED
  BY <1>1, <1>2 DEF Moves

LEMMA NextReachInv ==
  IInv /\ OwnInv /\ StandsInv /\ ReachInv /\ [Next]_vars => ReachInv'
<1> SUFFICES ASSUME IInv, OwnInv, StandsInv, ReachInv, [Next]_vars
             PROVE  ReachInv'
  OBVIOUS
<1>1. CASE UNCHANGED vars
  BY <1>1
     DEF ReachInv, OperationKeepsItsCall, vars, idVars, grpcVars, threadVars
<1>2. CASE ~UNCHANGED vars
  <2>1. Moves /\ \A c \in Calls : StandInv(c) /\ AcceptedInv(c)
    BY <1>2 DEF Next, Terminated, Moves, OwnInv, StandsInv
  <2>2. TypeOK /\ RunThreadInv
    BY DEF IInv
  <2>3. ASSUME NEW c \in registered PROVE rpc'[c] # "none"
    BY <2>1, <2>2, RpcStays DEF ReachInv, Alive, TypeOK
  <2>4. ASSUME NEW c \in registered' PROVE rpc'[c] # "none"
    <3>1. CASE c \in registered
      BY <2>3, <3>1
    <3>2. CASE c \notin registered
      <4>1. Publish /\ c = cur.call
        BY <2>1, <3>2, RegisteredStep DEF Publish
      <4>2. cur.kind = "Request" /\ cur.ok /\ c \in Calls /\ rpc' = rpc
        BY <2>2, <4>1, CurIsEvent DEF RunThreadInv, Publish, grpcVars
      <4> QED
        BY <2>1, <4>1, <4>2 DEF AcceptedInv
    <3> QED
      BY <3>1, <3>2
  <2>5. ASSUME NEW u \in Threads, arg'[u] # NoCall
        PROVE  rpc'[arg'[u]] # "none"
    <3>1. CASE arg'[u] \in registered
      BY <2>3, <3>1
    <3>2. CASE arg'[u] = arg[u]
      <4>1. arg[u] \in Calls /\ Alive(arg[u]) /\ rpc[arg[u]] # "none"
        BY <2>2, <2>5, <3>2
           DEF ReachInv, OperationKeepsItsCall, Alive, TypeOK
      <4> QED
        BY <2>1, <3>2, <4>1, RpcStays
    <3> QED
      BY <2>1, <2>5, <3>1, <3>2, ArgStep
  <2> QED
    BY <2>4, <2>5 DEF ReachInv, OperationKeepsItsCall
<1> QED
  BY <1>1, <1>2

\* Whatever ends an RPC and however often its id is closed, no operation that
\* LabVIEW began on it goes on with the RPC of another client.
THEOREM OperationAlwaysKeepsItsCall == Spec => []OperationKeepsItsCall
<1>1. Init => ReachInv
  BY DEF Init, ReachInv, OperationKeepsItsCall
<1>2. IInv /\ OwnInv /\ StandsInv /\ ReachInv /\ [Next]_vars => ReachInv'
  BY NextReachInv
<1>3. ReachInv => OperationKeepsItsCall
  BY DEF ReachInv
<1> QED
  BY <1>1, <1>2, <1>3, StandsInvariant, PTL DEF Spec
=============================================================================
