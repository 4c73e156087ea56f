----------------------------- MODULE ServerCalls -----------------------------
(***************************************************************************)
(* The life of the RPCs of one running LabVIEWgRPCServer (event_data.cc,   *)
(* grpc_server.cc, the server half of grpc_interop.cc).                    *)
(*                                                                         *)
(* Three kinds of threads touch a CallData:                                *)
(*   - the run thread, which loops in HandleRpcs over the completion queue *)
(*     and calls Proceed on the tag of every event;                        *)
(*   - LabVIEW execution threads, inside GetRequestData, SetResponseData,  *)
(*     CloseServerEvent or SetCallStatus;                                  *)
(*   - the thread inside StopServer.                                       *)
(* The gRPC library (clients, call contexts, completion queue) is the      *)
(* environment.  A CallData is a member of Calls; one that no shared_ptr   *)
(* reaches any more is destroyed and its identity may be used again.       *)
(*                                                                         *)
(* FinishFromLabVIEW and FinishFromCompletionQueue hold _stateMutex for    *)
(* their whole body and are single steps.  Proceed holds it over several   *)
(* steps because LabVIEW threads may read and write the stream meanwhile.  *)
(***************************************************************************)
EXTENDS Naturals, Sequences, FiniteSets

CONSTANTS Calls,      \* identities of CallData objects
          Threads,    \* LabVIEW execution threads
          NoCall      \* "no CallData"

ASSUME CallsAssumption == /\ Calls # {}
                          /\ NoCall \notin Calls

VARIABLES
    status,       \* _status, plus NotCreated
    finishedTag,  \* the CallFinishedTag object of the call exists
    callStatus,   \* _callStatus
    sent,         \* statuses handed to _stream.Finish, in order (history)
    registered,   \* calls in gPointerManager
    cleanup,      \* calls with a registered cleanup proc
    posted,       \* calls whose id LabVIEW received in a user event
    rpc,          \* the RPC behind the call, as the gRPC library sees it
    isCancelled,  \* what _ctx.IsCancelled() answers
    ops,          \* operations begun on the completion queue, not completed
    queue,        \* completed operations not yet returned by _cq->Next
    server,       \* running | shutdown
    cqShutdown,   \* _cq->Shutdown() was called
    runPc, cur,   \* the run thread and the event it handles
    stopPc,       \* the thread inside StopServer
    pc, arg, op,  \* the LabVIEW threads: step, CallData, operation
    aborted       \* the library aborted the process

callVars   == <<status, finishedTag, callStatus, sent>>
idVars     == <<registered, cleanup, posted>>
grpcVars   == <<rpc, isCancelled, ops, queue, server, cqShutdown, aborted>>
runVars    == <<runPc, cur>>
threadVars == <<pc, arg, op>>
vars == <<callVars, idVars, grpcVars, runVars, stopPc, threadVars>>

CallStatus  == {"WaitingForConnection", "Connected", "Finishing", "Finished"}
StatusCodes == {"OK", "INTERNAL", "UNIMPLEMENTED"}
IoKinds     == {"Read", "Write"}
OpKinds     == IoKinds \cup {"Request", "Finish", "Done"}
Event       == [kind : OpKinds, call : Calls, ok : BOOLEAN]
NoEvent     == [kind |-> "None", call |-> NoCall, ok |-> FALSE]
RpcStates   == {"none", "open", "cancelled", "sent"}
Closed      == {"cancelled", "sent"}
RunPcs      == {"next", "proceed", "create", "publish", "connect", "exited"}
StopPcs     == {"idle", "wait", "join", "done"}
Pcs         == {"idle", "lock", "submit", "wait", "signalled",
                "finish", "deregister", "unregister", "store", "return"}

TypeOK ==
    /\ status \in [Calls -> CallStatus \cup {"NotCreated"}]
    /\ finishedTag \in [Calls -> BOOLEAN]
    /\ callStatus \in [Calls -> StatusCodes]
    /\ sent \in [Calls -> Seq(StatusCodes)]
    /\ registered \subseteq Calls /\ cleanup \subseteq Calls
    /\ posted \subseteq Calls
    /\ rpc \in [Calls -> RpcStates]
    /\ isCancelled \in [Calls -> BOOLEAN]
    /\ ops \subseteq OpKinds \X Calls
    /\ queue \subseteq Event
    /\ server \in {"running", "shutdown"}
    /\ cqShutdown \in BOOLEAN /\ aborted \in BOOLEAN
    /\ runPc \in RunPcs /\ cur \in Event \cup {NoEvent}
    /\ stopPc \in StopPcs
    /\ pc \in [Threads -> Pcs]
    /\ arg \in [Threads -> Calls \cup {NoCall}]
    /\ op \in [Threads -> IoKinds \cup {"Close", "Status", "None"}]

----------------------------------------------------------------------------
(* Helpers *)

\* Mutant: the functions LabVIEW calls work with the raw pointer of the id.
Alive_RawPointer(c) ==
    \/ finishedTag[c]
    \/ \E k \in OpKinds : <<k, c>> \in ops
    \/ \E e \in queue : e.call = c
    \/ c \in registered
    \/ cur.call = c

\* A shared_ptr to the CallData exists: in its CallFinishedTag, in a tag
\* owned by the queue, in the pointer manager, on a LabVIEW thread's stack or
\* in the tag the run thread is executing.
Alive(c) ==
    \/ finishedTag[c]
    \/ \E k \in OpKinds : <<k, c>> \in ops
    \/ \E e \in queue : e.call = c
    \/ c \in registered
    \/ \E t \in Threads : arg[t] = c
    \/ cur.call = c

\* An operation of kind k of c is begun, completed or being handled.
InFlight(k, c) ==
    \/ <<k, c>> \in ops
    \/ \E e \in queue : e.kind = k /\ e.call = c
    \/ cur.kind = k /\ cur.call = c

\* _stateMutex of c is held by the run thread, inside Proceed.
StateLocked(c) == runPc \in {"create", "publish", "connect"} /\ cur.call = c

\* _readMutex or _writeMutex of c is held.
IoLocked(k, c) ==
    \E t \in Threads : /\ pc[t] \in {"submit", "wait", "signalled"}
                       /\ arg[t] = c
                       /\ op[t] = k

\* IsActive.
IsActive(c) == status[c] \notin {"Finishing", "Finished"} /\ ~isCancelled[c]

\* After Shutdown the queue accepts an operation only while another one is
\* outstanding or a call request has still to be handed out; beginning one on
\* a queue that is already closed is a failed check that aborts the process.
QueueClosed ==
    cqShutdown /\ ops = {} /\ ~\E e \in queue : e.kind = "Request"

Begin(k, c) ==
    IF QueueClosed
    THEN aborted' = TRUE /\ UNCHANGED ops
    ELSE ops' = ops \cup {<<k, c>>} /\ UNCHANGED aborted

----------------------------------------------------------------------------
(* The gRPC library *)

Enqueue(k, c, ok) ==
    /\ ops' = ops \ {<<k, c>>}
    /\ queue' = queue \cup {[kind |-> k, call |-> c, ok |-> ok]}

\* A client starts an RPC that matches the pending RequestCall.  Bound: there
\* is an unused identity for the CallData that Proceed will create.
ClientConnect(c) ==
    /\ <<"Request", c>> \in ops
    /\ server = "running"
    /\ \E d \in Calls : ~Alive(d)
    /\ rpc' = [rpc EXCEPT ![c] = "open"]
    /\ Enqueue("Request", c, TRUE)
    /\ UNCHANGED <<callVars, idVars, isCancelled, server, cqShutdown, aborted,
                   runVars, stopPc, threadVars>>

\* The client cancels, its deadline passes or its connection is lost.
ClientCancel(c) ==
    /\ rpc[c] = "open"
    /\ rpc' = [rpc EXCEPT ![c] = "cancelled"]
    /\ UNCHANGED <<callVars, idVars, isCancelled, ops, queue, server,
                   cqShutdown, aborted, runVars, stopPc, threadVars>>

\* A shut-down server completes a pending RequestCall with ok = false.
FailRequest(c) ==
    /\ <<"Request", c>> \in ops
    /\ server = "shutdown"
    /\ Enqueue("Request", c, FALSE)
    /\ UNCHANGED <<callVars, idVars, rpc, isCancelled, server, cqShutdown,
                   aborted, runVars, stopPc, threadVars>>

\* A read or write of an open RPC completes: a message was transferred, or
\* the client has no more of them.
CompleteIo(k, c, ok) ==
    /\ <<k, c>> \in ops
    /\ rpc[c] = "open"
    /\ Enqueue(k, c, ok)
    /\ UNCHANGED <<callVars, idVars, rpc, isCancelled, server, cqShutdown,
                   aborted, runVars, stopPc, threadVars>>

\* Reads and writes of a closed RPC fail.
FailIo(k, c) ==
    /\ <<k, c>> \in ops
    /\ rpc[c] \in Closed
    /\ Enqueue(k, c, FALSE)
    /\ UNCHANGED <<callVars, idVars, rpc, isCancelled, server, cqShutdown,
                   aborted, runVars, stopPc, threadVars>>

\* The status of _stream.Finish is sent, or the RPC is gone already.
CompleteFinish(c) ==
    /\ <<"Finish", c>> \in ops
    /\ Enqueue("Finish", c, rpc[c] # "cancelled")
    /\ rpc' = [rpc EXCEPT ![c] = IF @ = "open" THEN "sent" ELSE @]
    /\ UNCHANGED <<callVars, idVars, isCancelled, server, cqShutdown, aborted,
                   runVars, stopPc, threadVars>>

\* The AsyncNotifyWhenDone tag of a started RPC fires once the RPC is over.
CompleteDone(c) ==
    /\ <<"Done", c>> \in ops
    /\ rpc[c] \in Closed
    /\ Enqueue("Done", c, TRUE)
    /\ UNCHANGED <<callVars, idVars, rpc, isCancelled, server, cqShutdown,
                   aborted, runVars, stopPc, threadVars>>

----------------------------------------------------------------------------
(* The run thread *)

\* while (_cq->Next(&tag, &ok)).  Inside Next the library begins the Done
\* operation of a call that starts, and makes IsCancelled() valid when it
\* hands out the Done tag.
CqNext(e) ==
    /\ runPc = "next"
    /\ e \in queue
    /\ queue' = queue \ {e}
    /\ cur' = e
    /\ ops' = IF e.kind = "Request" /\ e.ok
              THEN ops \cup {<<"Done", e.call>>} ELSE ops
    /\ isCancelled' =
          IF e.kind = "Done"
          THEN [isCancelled EXCEPT ![e.call] = rpc[e.call] = "cancelled"]
          ELSE isCancelled
    /\ runPc' = "proceed"
    /\ UNCHANGED <<callVars, idVars, rpc, server, cqShutdown, aborted, stopPc,
                   threadVars>>

\* Next returns false: the queue is shut down and drained.
CqDrained ==
    /\ runPc = "next"
    /\ cqShutdown /\ ops = {} /\ queue = {}
    /\ runPc' = "exited"
    /\ UNCHANGED <<callVars, idVars, grpcVars, cur, stopPc, threadVars>>

NextEvent == runPc' = "next" /\ cur' = NoEvent

\* The tag delivered is a CompletionQueueTag: CallData::Proceed is called.
IsCallTag(e) == e.kind \in {"Request", "Finish"}

\* Mutants: Proceed(false) deletes _callFinishedTag in every state, or never.
ProceedNotOk_AlwaysDelete ==
    LET c == cur.call IN
    /\ runPc = "proceed" /\ IsCallTag(cur) /\ ~cur.ok
    /\ finishedTag' = [finishedTag EXCEPT ![c] = FALSE]
    /\ status' = [status EXCEPT ![c] = "Finished"]
    /\ NextEvent
    /\ UNCHANGED <<callStatus, sent, idVars, grpcVars, stopPc, threadVars>>

ProceedNotOk_NeverDelete ==
    LET c == cur.call IN
    /\ runPc = "proceed" /\ IsCallTag(cur) /\ ~cur.ok
    /\ status' = [status EXCEPT ![c] = "Finished"]
    /\ NextEvent
    /\ UNCHANGED <<finishedTag, callStatus, sent, idVars, grpcVars, stopPc,
                   threadVars>>

\* CallData::Proceed(false).
ProceedNotOk ==
    LET c == cur.call IN
    /\ runPc = "proceed" /\ IsCallTag(cur) /\ ~cur.ok
    /\ finishedTag' = [finishedTag EXCEPT
                         ![c] = @ /\ status[c] # "WaitingForConnection"]
    /\ status' = [status EXCEPT ![c] = "Finished"]
    /\ NextEvent
    /\ UNCHANGED <<callStatus, sent, idVars, grpcVars, stopPc, threadVars>>

\* CallData::Proceed(true) of a call that is over.
ProceedFinish ==
    LET c == cur.call IN
    /\ runPc = "proceed" /\ IsCallTag(cur) /\ cur.ok
    /\ status[c] \in {"Finishing", "Finished"}
    /\ status' = [status EXCEPT ![c] = "Finished"]
    /\ NextEvent
    /\ UNCHANGED <<finishedTag, callStatus, sent, idVars, grpcVars, stopPc,
                   threadVars>>

\* CallData::Proceed(true) of a new connection: takes _stateMutex.
ProceedConnection ==
    /\ runPc = "proceed" /\ IsCallTag(cur) /\ cur.ok
    /\ status[cur.call] = "WaitingForConnection"
    /\ runPc' = "create"
    /\ UNCHANGED <<callVars, idVars, grpcVars, cur, stopPc, threadVars>>

\* CallData::Create: a fresh object d, its CallFinishedTag and RequestCall.
Create(d) ==
    /\ ~Alive(d)
    /\ status' = [status EXCEPT ![d] = "WaitingForConnection"]
    /\ finishedTag' = [finishedTag EXCEPT ![d] = TRUE]
    /\ callStatus' = [callStatus EXCEPT ![d] = "OK"]
    /\ sent' = [sent EXCEPT ![d] = <<>>]
    /\ rpc' = [rpc EXCEPT ![d] = "none"]
    /\ isCancelled' = [isCancelled EXCEPT ![d] = FALSE]
    /\ cleanup' = cleanup \ {d}
    /\ posted' = posted \ {d}
    /\ Begin("Request", d)

\* Mutant: Proceed does not create the next CallData.
SpawnNext_Forgotten ==
    /\ runPc = "create"
    /\ runPc' = "publish"
    /\ UNCHANGED <<callVars, idVars, grpcVars, cur, stopPc, threadVars>>

\* CallData::Create called by Proceed.
SpawnNext ==
    /\ runPc = "create"
    /\ \E d \in Calls : Create(d)
    /\ runPc' = "publish"
    /\ UNCHANGED <<registered, queue, server, cqShutdown, cur, stopPc,
                   threadVars>>

\* The method has an event: the call is registered and LabVIEW is told.
\* PostUserEvent may fail, which the code ignores.
Publish ==
    LET c == cur.call IN
    /\ runPc = "publish"
    /\ registered' = registered \cup {c}
    /\ cleanup' = cleanup \cup {c}
    /\ posted' \in {posted, posted \cup {c}}
    /\ runPc' = "connect"
    /\ UNCHANGED <<callVars, grpcVars, cur, stopPc, threadVars>>

Connect ==
    /\ runPc = "connect"
    /\ status' = [status EXCEPT ![cur.call] = "Connected"]
    /\ NextEvent
    /\ UNCHANGED <<finishedTag, callStatus, sent, idVars, grpcVars, stopPc,
                   threadVars>>

\* _stream.Finish(s, new CompletionQueueTag).
StreamFinish(c, s) ==
    /\ sent' = [sent EXCEPT ![c] = Append(@, s)]
    /\ Begin("Finish", c)

\* The method is unknown and no generic event is registered.
RejectUnimplemented ==
    LET c == cur.call IN
    /\ runPc = "publish"
    /\ status' = [status EXCEPT ![c] = "Finishing"]
    /\ StreamFinish(c, "UNIMPLEMENTED")
    /\ NextEvent
    /\ UNCHANGED <<finishedTag, callStatus, idVars, rpc, isCancelled, queue,
                   server, cqShutdown, stopPc, threadVars>>

\* CallFinishedTag::Proceed: FinishFromCompletionQueue, then delete this.
FinishFromCompletionQueue ==
    LET c == cur.call IN
    /\ runPc = "proceed" /\ cur.kind = "Done"
    /\ finishedTag' = [finishedTag EXCEPT ![c] = FALSE]
    /\ status' = [status EXCEPT
                    ![c] = IF @ \in {"Finishing", "Finished"} THEN @
                                                              ELSE "Finished"]
    /\ NextEvent
    /\ UNCHANGED <<callStatus, sent, idVars, grpcVars, stopPc, threadVars>>

\* ReadNextTag::Proceed and WriteNextTag::Proceed: wake the waiting thread.
SignalIo(t) ==
    /\ runPc = "proceed" /\ cur.kind \in IoKinds
    /\ pc[t] = "wait" /\ arg[t] = cur.call /\ op[t] = cur.kind
    /\ pc' = [pc EXCEPT ![t] = "signalled"]
    /\ NextEvent
    /\ UNCHANGED <<callVars, idVars, grpcVars, stopPc, arg, op>>

----------------------------------------------------------------------------
(* LabVIEW threads.  An id that is not registered makes CastTo fail and the  *)
(* operation return -1 without a step.                                       *)

Enter(t, c, o, at) ==
    /\ pc[t] = "idle"
    /\ c \in registered
    /\ pc' = [pc EXCEPT ![t] = at]
    /\ arg' = [arg EXCEPT ![t] = c]
    /\ op' = [op EXCEPT ![t] = o]

Leave(t) ==
    /\ pc' = [pc EXCEPT ![t] = "idle"]
    /\ arg' = [arg EXCEPT ![t] = NoCall]
    /\ op' = [op EXCEPT ![t] = "None"]

\* GetRequestData (k = Read) and SetResponseData (k = Write).
BeginIo(t, c, k) ==
    /\ c \in posted
    /\ Enter(t, c, k, "lock")
    /\ UNCHANGED <<callVars, idVars, grpcVars, runVars, stopPc>>

\* Mutant: _readMutex and _writeMutex are not taken.
CheckActive_NoMutex(t) ==
    /\ pc[t] = "lock"
    /\ IF IsActive(arg[t])
       THEN pc' = [pc EXCEPT ![t] = "submit"] /\ UNCHANGED <<arg, op>>
       ELSE Leave(t)
    /\ UNCHANGED <<callVars, idVars, grpcVars, runVars, stopPc>>

\* ReadNext and Write: take the mutex, then test IsActive without _stateMutex.
CheckActive(t) ==
    /\ pc[t] = "lock"
    /\ ~IoLocked(op[t], arg[t])
    /\ IF IsActive(arg[t])
       THEN pc' = [pc EXCEPT ![t] = "submit"] /\ UNCHANGED <<arg, op>>
       ELSE Leave(t)
    /\ UNCHANGED <<callVars, idVars, grpcVars, runVars, stopPc>>

\* _stream.Read or _stream.Write, then block in tag->Wait().
SubmitIo(t) ==
    /\ pc[t] = "submit"
    /\ Begin(op[t], arg[t])
    /\ pc' = [pc EXCEPT ![t] = "wait"]
    /\ UNCHANGED <<callVars, idVars, rpc, isCancelled, queue, server,
                   cqShutdown, runVars, stopPc, arg, op>>

\* CopyFromCluster throws before the write is started.
CopyFromClusterThrows(t) ==
    /\ pc[t] = "submit" /\ op[t] = "Write"
    /\ Leave(t)
    /\ UNCHANGED <<callVars, idVars, grpcVars, runVars, stopPc>>

\* Mutant: the operation is started again when it has failed.
EndIo_Retry(t) ==
    /\ pc[t] = "signalled"
    /\ pc' = [pc EXCEPT ![t] = "submit"]
    /\ UNCHANGED <<callVars, idVars, grpcVars, runVars, stopPc, arg, op>>

\* Parse and copy the message, or report the failure; release the mutex.
EndIo(t) ==
    /\ pc[t] = "signalled"
    /\ Leave(t)
    /\ UNCHANGED <<callVars, idVars, grpcVars, runVars, stopPc>>

\* CloseServerEvent, called by LabVIEW code or as the cleanup proc.
BeginClose(t, c) ==
    /\ c \in posted \cup cleanup
    /\ Enter(t, c, "Close", "finish")
    /\ UNCHANGED <<callVars, idVars, grpcVars, runVars, stopPc>>

\* Mutants of FinishFromLabVIEW: it sends OK instead of _callStatus, lacks the
\* test, does not change _status, does not call Finish, does not take
\* _stateMutex.
FinishFromLabVIEW_SendsOk(t) ==
    LET c == arg[t] IN
    /\ pc[t] = "finish"
    /\ ~StateLocked(c)
    /\ IF status[c] \in {"Finishing", "Finished"}
       THEN UNCHANGED <<status, sent, ops, aborted>>
       ELSE /\ status' = [status EXCEPT ![c] = "Finishing"]
            /\ StreamFinish(c, "OK")
    /\ pc' = [pc EXCEPT ![t] = "deregister"]
    /\ UNCHANGED <<finishedTag, callStatus, idVars, rpc, isCancelled, queue,
                   server, cqShutdown, runVars, stopPc, arg, op>>

FinishFromLabVIEW_NoTest(t) ==
    LET c == arg[t] IN
    /\ pc[t] = "finish"
    /\ ~StateLocked(c)
    /\ status' = [status EXCEPT ![c] = "Finishing"]
    /\ StreamFinish(c, callStatus[c])
    /\ pc' = [pc EXCEPT ![t] = "deregister"]
    /\ UNCHANGED <<finishedTag, callStatus, idVars, rpc, isCancelled, queue,
                   server, cqShutdown, runVars, stopPc, arg, op>>

FinishFromLabVIEW_KeepsStatus(t) ==
    LET c == arg[t] IN
    /\ pc[t] = "finish"
    /\ ~StateLocked(c)
    /\ IF status[c] \in {"Finishing", "Finished"}
       THEN UNCHANGED <<status, sent, ops, aborted>>
       ELSE /\ StreamFinish(c, callStatus[c])
            /\ UNCHANGED status
    /\ pc' = [pc EXCEPT ![t] = "deregister"]
    /\ UNCHANGED <<finishedTag, callStatus, idVars, rpc, isCancelled, queue,
                   server, cqShutdown, runVars, stopPc, arg, op>>

FinishFromLabVIEW_NoFinish(t) ==
    LET c == arg[t] IN
    /\ pc[t] = "finish"
    /\ ~StateLocked(c)
    /\ status' = [status EXCEPT
                    ![c] = IF @ = "Finished" THEN @ ELSE "Finishing"]
    /\ UNCHANGED <<sent, ops, aborted>>
    /\ pc' = [pc EXCEPT ![t] = "deregister"]
    /\ UNCHANGED <<finishedTag, callStatus, idVars, rpc, isCancelled, queue,
                   server, cqShutdown, runVars, stopPc, arg, op>>

FinishFromLabVIEW_NoMutex(t) ==
    LET c == arg[t] IN
    /\ pc[t] = "finish"
    /\ IF status[c] \in {"Finishing", "Finished"}
       THEN UNCHANGED <<status, sent, ops, aborted>>
       ELSE /\ status' = [status EXCEPT ![c] = "Finishing"]
            /\ StreamFinish(c, callStatus[c])
    /\ pc' = [pc EXCEPT ![t] = "deregister"]
    /\ UNCHANGED <<finishedTag, callStatus, idVars, rpc, isCancelled, queue,
                   server, cqShutdown, runVars, stopPc, arg, op>>

FinishFromLabVIEW(t) ==
    LET c == arg[t] IN
    /\ pc[t] = "finish"
    /\ ~StateLocked(c)
    /\ IF status[c] \in {"Finishing", "Finished"}
       THEN UNCHANGED <<status, sent, ops, aborted>>
       ELSE /\ status' = [status EXCEPT ![c] = "Finishing"]
            /\ StreamFinish(c, callStatus[c])
    /\ pc' = [pc EXCEPT ![t] = "deregister"]
    /\ UNCHANGED <<finishedTag, callStatus, idVars, rpc, isCancelled, queue,
                   server, cqShutdown, runVars, stopPc, arg, op>>

DeregisterCleanupProc(t) ==
    /\ pc[t] = "deregister"
    /\ cleanup' = cleanup \ {arg[t]}
    /\ pc' = [pc EXCEPT ![t] = "unregister"]
    /\ UNCHANGED <<callVars, registered, posted, grpcVars, runVars, stopPc,
                   arg, op>>

UnregisterPointer(t) ==
    /\ pc[t] = "unregister"
    /\ registered' = registered \ {arg[t]}
    /\ Leave(t)
    /\ UNCHANGED <<callVars, cleanup, posted, grpcVars, runVars, stopPc>>

\* SetCallStatus: CastTo finds the call.
SetCallStatus(t, c) ==
    /\ c \in posted
    /\ Enter(t, c, "Status", "store")
    /\ UNCHANGED <<callVars, idVars, grpcVars, runVars, stopPc>>

\* SetCallStatusError, for one error code and OK: no mutex, no test whether the
\* call is over meanwhile.
SetCallStatusError(t, s) ==
    /\ pc[t] = "store"
    /\ callStatus' = [callStatus EXCEPT ![arg[t]] = s]
    /\ pc' = [pc EXCEPT ![t] = "return"]
    /\ UNCHANGED <<status, finishedTag, sent, idVars, grpcVars, runVars, stopPc,
                   arg, op>>

\* The shared_ptr of CastTo goes out of scope.
ReturnStatus(t) ==
    /\ pc[t] = "return"
    /\ Leave(t)
    /\ UNCHANGED <<callVars, idVars, grpcVars, runVars, stopPc>>

----------------------------------------------------------------------------
(* StopServer *)

\* Mutant: Shutdown without a deadline waits for the open RPCs instead of
\* cancelling them.
StopShutdown_NoDeadline ==
    /\ stopPc = "idle"
    /\ server' = "shutdown"
    /\ stopPc' = "wait"
    /\ UNCHANGED <<callVars, idVars, rpc, isCancelled, ops, queue, cqShutdown,
                   aborted, runVars, threadVars>>

\* _server->Shutdown(now): no new RPCs, the open ones are cancelled.
StopShutdown ==
    /\ stopPc = "idle"
    /\ server' = "shutdown"
    /\ rpc' = [c \in Calls |-> IF rpc[c] = "open" THEN "cancelled" ELSE rpc[c]]
    /\ stopPc' = "wait"
    /\ UNCHANGED <<callVars, idVars, isCancelled, ops, queue, cqShutdown,
                   aborted, runVars, threadVars>>

\* _server->Wait() returned; _cq->Shutdown().
StopCq ==
    /\ stopPc = "wait"
    /\ cqShutdown' = TRUE
    /\ stopPc' = "join"
    /\ UNCHANGED <<callVars, idVars, rpc, isCancelled, ops, queue, server,
                   aborted, runVars, threadVars>>

\* _runThread->join().
StopJoin ==
    /\ stopPc = "join"
    /\ runPc = "exited"
    /\ stopPc' = "done"
    /\ UNCHANGED <<callVars, idVars, grpcVars, runVars, threadVars>>

----------------------------------------------------------------------------
\* HandleRpcs has just created the first CallData, c0.
Init ==
    \E c0 \in Calls :
        /\ status = [c \in Calls |-> IF c = c0 THEN "WaitingForConnection"
                                               ELSE "NotCreated"]
        /\ finishedTag = [c \in Calls |-> c = c0]
        /\ callStatus = [c \in Calls |-> "OK"]
        /\ sent = [c \in Calls |-> <<>>]
        /\ registered = {} /\ cleanup = {} /\ posted = {}
        /\ rpc = [c \in Calls |-> "none"]
        /\ isCancelled = [c \in Calls |-> FALSE]
        /\ ops = {<<"Request", c0>>}
        /\ queue = {}
        /\ server = "running" /\ cqShutdown = FALSE /\ aborted = FALSE
        /\ runPc = "next" /\ cur = NoEvent
        /\ stopPc = "idle"
        /\ pc = [t \in Threads |-> "idle"]
        /\ arg = [t \in Threads |-> NoCall]
        /\ op = [t \in Threads |-> "None"]

Library ==
    \E c \in Calls :
        \/ ClientConnect(c)
        \/ ClientCancel(c)
        \/ FailRequest(c)
        \/ \E k \in IoKinds, ok \in BOOLEAN : CompleteIo(k, c, ok)
        \/ \E k \in IoKinds : FailIo(k, c)
        \/ CompleteFinish(c)
        \/ CompleteDone(c)

RunThread ==
    \/ \E e \in queue : CqNext(e)
    \/ CqDrained
    \/ ProceedNotOk
    \/ ProceedFinish
    \/ ProceedConnection
    \/ SpawnNext
    \/ Publish
    \/ Connect
    \/ RejectUnimplemented
    \/ FinishFromCompletionQueue
    \/ \E t \in Threads : SignalIo(t)

\* The steps of a thread that is already inside an operation.
Continue(t) ==
    \/ CheckActive(t)
    \/ SubmitIo(t)
    \/ CopyFromClusterThrows(t)
    \/ EndIo(t)
    \/ FinishFromLabVIEW(t)
    \/ DeregisterCleanupProc(t)
    \/ UnregisterPointer(t)
    \/ \E s \in {"OK", "INTERNAL"} : SetCallStatusError(t, s)
    \/ ReturnStatus(t)

CallApi(t) ==
    \E c \in Calls :
        \/ \E k \in IoKinds : BeginIo(t, c, k)
        \/ BeginClose(t, c)
        \/ SetCallStatus(t, c)

StopServer == StopShutdown \/ StopCq \/ StopJoin

\* Everything is over: StopServer returned and LabVIEW closed all its ids.
Quiescent ==
    /\ stopPc = "done"
    /\ registered = {}
    /\ \A t \in Threads : pc[t] = "idle"

Terminated == (aborted \/ Quiescent) /\ UNCHANGED vars

Next ==
    \/ /\ ~aborted
       /\ \/ Library
          \/ RunThread
          \/ \E t \in Threads : Continue(t) \/ CallApi(t)
          \/ StopServer
    \/ Terminated

Spec == Init /\ [][Next]_vars

\* The queue hands out events in the order of their completion, so the Done
\* event of an RPC is not passed over for ever.  The run thread, a thread
\* inside an operation and StopServer keep running; the library completes what
\* cannot succeed any more and sends statuses.  Clients and LabVIEW code are
\* free to do nothing.
Fairness ==
    /\ WF_vars(~aborted /\ RunThread)
    /\ \A c \in Calls :
          SF_vars(~aborted /\ CqNext([kind |-> "Done", call |-> c, ok |-> TRUE]))
    /\ \A t \in Threads : WF_vars(~aborted /\ Continue(t))
    /\ WF_vars(~aborted /\ (StopCq \/ StopJoin))
    /\ \A c \in Calls :
          /\ WF_vars(~aborted /\ FailRequest(c))
          /\ \A k \in IoKinds : WF_vars(~aborted /\ FailIo(k, c))
          /\ WF_vars(~aborted /\ CompleteFinish(c))
          /\ WF_vars(~aborted /\ CompleteDone(c))

FairSpec == Spec /\ Fairness

----------------------------------------------------------------------------
(* Properties *)

\* _stream.Finish is called at most once for an RPC, whatever the order of
\* CloseServerEvent calls, cleanup procs, rejection and queue events
\* (FinishFromLabVIEW's test, event_data.cc:205).
FinishAtMostOnce == \A c \in Calls : Len(sent[c]) <= 1

\* Proceed is never entered for a call that is Connected: the assert(false)
\* of event_data.cc:185, and no failed event ends such a call silently.
NoEventWhileConnected ==
    runPc = "proceed" /\ IsCallTag(cur) => status[cur.call] # "Connected"

\* An operation LabVIEW began works to its end on the RPC whose id it was given,
\* however often that id is closed and whatever ends the RPC meanwhile: the
\* shared_ptr of CastTo (grpc_interop.cc:453) keeps the CallData from being
\* given to another client under a thread that still reads, writes, closes or
\* sets the status of it.
OperationKeepsItsCall ==
    \A t \in Threads : arg[t] # NoCall => rpc[arg[t]] # "none"

\* The comment at event_data.cc:139: the CallFinishedTag that Proceed deletes
\* for a call that never connected is never delivered; every Done operation
\* the library knows of has a tag that still exists.
DoneTagExists == \A c \in Calls : InFlight("Done", c) => finishedTag[c]

\* The accept loop never stops listening while the server runs: either a
\* RequestCall is pending or one has completed and Proceed is about to create
\* the next CallData (event_data.cc:158).
AlwaysListening ==
    server = "running" =>
        \/ \E c \in Calls : <<"Request", c>> \in ops
        \/ \E e \in queue : e.kind = "Request"
        \/ cur.kind = "Request" /\ runPc \in {"proceed", "create"}

\* A thread blocked in tag->Wait() is owed a notification: its operation is
\* outstanding, completed, or in the hands of the run thread.  No wakeup is
\* lost and the queue never holds a tag whose thread has left.
WaiterIsOwedEvent ==
    \A c \in Calls, k \in IoKinds :
        LET waiting == {t \in Threads :
                          pc[t] = "wait" /\ arg[t] = c /\ op[t] = k}
        IN  ~aborted => /\ InFlight(k, c) <=> waiting # {}
                        /\ Cardinality(waiting) <= 1

\* No client is left hanging: every open RPC has somebody who will or can end
\* it.  Its connection event is still to be handled, its status is being
\* sent, or LabVIEW holds an id with which CloseServerEvent still calls Finish.
OpenRpcHasOwner ==
    \A c \in Calls :
        rpc[c] = "open" /\ ~aborted =>
            \/ \E e \in queue : e.kind = "Request" /\ e.call = c
            \/ cur.kind = "Request" /\ cur.call = c
            \/ <<"Finish", c>> \in ops
            \/ c \in registered /\ status[c] = "Connected"

\* Once StopServer has returned and LabVIEW has closed its ids nothing of the
\* calls is left: the leak that deleting _callFinishedTag is there to avoid
\* (event_data.cc:146).
NothingLeaks == Quiescent /\ ~aborted => \A c \in Calls : ~Alive(c)

StatusRank(s) ==
    CASE s = "NotCreated" -> 0
      [] s = "WaitingForConnection" -> 1
      [] s = "Connected" -> 2
      [] s = "Finishing" -> 3
      [] s = "Finished" -> 4

Advances(c) == StatusRank(status[c]) <= StatusRank(status'[c])

\* _status only moves forward during the life of a CallData: a call that a
\* LabVIEW thread finished is not revived by the end of Proceed.
StatusMovesForward == [][\A c \in Calls : Alive(c) => Advances(c)]_vars

\* How far a call is for a client and for LabVIEW code.  A CallData that waits
\* for its connection listens until an RPC has reached it, and is connecting
\* once Proceed has created the next one.
PhaseOf(c) ==
    CASE ~Alive(c) -> "free"
      [] Alive(c) /\ status[c] = "WaitingForConnection" /\ rpc[c] = "none" ->
            "listening"
      [] Alive(c) /\ status[c] = "WaitingForConnection" /\ rpc[c] # "none" ->
            IF runPc \in {"publish", "connect"} /\ cur.call = c
            THEN "connecting" ELSE "accepted"
      [] Alive(c) /\ status[c] = "Connected" -> "open"
      [] OTHER -> "over"

Service == INSTANCE RpcService WITH
    phase <- [c \in Calls |-> PhaseOf(c)],
    answers <- sent,
    verdict <- callStatus,
    ids <- registered,
    accepting <- server = "running"

\* The threads, the tags and the queue together keep the promise that a server
\* makes of its RPCs: one call listens at a time and is replaced when it
\* accepts, a client gets at most one answer and it is what LabVIEW last set,
\* an id stays valid until its call is over, and only then is a CallData used
\* again (event_data.cc).
ImplementsRpcService == Service!Spec

\* StopServer returns, however many LabVIEW threads are reading, writing or
\* closing and whatever the clients do (the join of grpc_server.cc:255).
StopServerReturns == stopPc = "wait" ~> (stopPc = "done" \/ aborted)

\* A LabVIEW thread inside GetRequestData or SetResponseData gets out once
\* the server is being stopped.
IoReturnsAfterStop ==
    \A t \in Threads :
        (server = "shutdown" /\ op[t] \in IoKinds)
            ~> (pc[t] = "idle" \/ aborted)

\* event_data.cc:203: the test of FinishFromLabVIEW guards "against LV code
\* completing a grpc call after shutdown has been called on the server": no
\* CloseServerEvent starts a Finish on a completion queue that is closed.
NoFinishAfterShutdown ==
    [][\A t \in Threads :
          (pc[t] = "finish" /\ pc'[t] = "deregister") => ~aborted']_vars
=============================================================================
