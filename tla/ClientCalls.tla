----------------------------- MODULE ClientCalls -----------------------------
(***************************************************************************)
(* Unary calls of one LabVIEWgRPCClient (grpc_client.cc): starting them,   *)
(* completing them, cancelling them and closing the client, by concurrent  *)
(* LabVIEW threads, while the std::async task of every call runs the RPC   *)
(* and signals the LabVIEW occurrence of the call.                         *)
(*                                                                         *)
(* ActiveClientCalls holds raw pointers; gPointerManager and the stacks of *)
(* API calls hold shared_ptrs; the task holds a raw pointer and is joined  *)
(* by the destructor of _runFuture.  clientLock protects only the map.     *)
(***************************************************************************)
EXTENDS Naturals, FiniteSets

CONSTANTS Calls,          \* identities of ClientCall objects
          Threads,        \* LabVIEW execution threads
          NoCall          \* "no ClientCall"

ASSUME ClientAssumption == NoCall \notin Calls

VARIABLES
    object,      \* unused | live | destroyed
    registered,  \* calls in gPointerManager
    escaped,     \* calls an exception dropped before they were erased (history)
    active,      \* ActiveClientCalls
    hasContext,  \* _context is set
    tryCancel,   \* TryCancel was called on the context of the call
    cancelled,   \* _cancelled
    status,      \* _status.ok() as OK or ERR; a new Status is OK
    result,      \* how BlockingUnaryCall really ended (history)
    reported,    \* what CompleteClientUnaryCall2 returned (history)
    task,        \* the std::async task
    signalled,   \* the occurrence of the call was signalled
    client,      \* the client is in gPointerManager
    todo,        \* calls CloseClient's loop has still to cancel
    pc, arg,     \* the LabVIEW threads: step and ClientCall
    useOccurrence,  \* the useOccurrence feature toggle
    fault        \* a null or destroyed object was used; the process is gone

callVars   == <<object, hasContext, cancelled, status, reported>>
rpcVars    == <<tryCancel, result, task, signalled>>
threadVars == <<pc, arg>>
processVars == <<useOccurrence, fault>>
vars == <<callVars, rpcVars, registered, escaped, active, client, todo,
          threadVars, processVars>>

BeginPcs    == {"insert", "register", "init", "copyFrom"}
CompletePcs == {"cUnregister", "cStatus", "cWait", "cCopy"}
CancelPcs   == {"kUnregister", "kTry", "kFlag", "kStatus"}
ClosePcs    == {"xLock", "xTry", "xFlag", "xUnregister"}
Pcs == {"idle", "await", "erase", "drop"} \cup BeginPcs \cup CompletePcs
           \cup CancelPcs \cup ClosePcs
TaskStates == {"none", "running", "checkCancelled", "checkActive", "done"}

TypeOK ==
    /\ object \in [Calls -> {"unused", "live", "destroyed"}]
    /\ registered \subseteq Calls /\ escaped \subseteq Calls
    /\ active \subseteq Calls
    /\ hasContext \in [Calls -> BOOLEAN] /\ tryCancel \in [Calls -> BOOLEAN]
    /\ cancelled \in [Calls -> BOOLEAN] /\ signalled \in [Calls -> BOOLEAN]
    /\ status \in [Calls -> {"OK", "ERR"}]
    /\ result \in [Calls -> {"pending", "OK", "ERR", "THROWN"}]
    /\ reported \in [Calls -> {"none", "OK", "ERR"}]
    /\ task \in [Calls -> TaskStates]
    /\ client \in BOOLEAN /\ useOccurrence \in BOOLEAN /\ fault \in BOOLEAN
    /\ todo \subseteq Calls
    /\ pc \in [Threads -> Pcs]
    /\ arg \in [Threads -> Calls \cup {NoCall}]

----------------------------------------------------------------------------
(* Helpers *)

\* A shared_ptr to c is on the stack of t.
Holds(t, c) ==
    arg[t] = c /\ pc[t] \in CompletePcs \cup CancelPcs \cup {"erase", "drop"}

\* Mutant: a call is dropped, and so its task joined, before the lock that was
\* taken to erase it is released.
ClientLocked_UntilDrop ==
    \E t \in Threads :
        \/ pc[t] \in {"xTry", "xFlag"}
        \/ pc[t] = "drop" /\ arg[t] \notin escaped

\* clientLock is held: only CloseClient keeps it for more than one step.
ClientLocked == \E t \in Threads : pc[t] \in {"xTry", "xFlag"}

Goto(t, l) == pc' = [pc EXCEPT ![t] = l] /\ UNCHANGED arg

Return(t) == /\ pc' = [pc EXCEPT ![t] = "idle"]
             /\ arg' = [arg EXCEPT ![t] = NoCall]

\* An exception leaves the API function, whose only cleanup is to drop its
\* shared_ptr: the erasure from ActiveClientCalls is skipped.
Throw(t) == Goto(t, "drop") /\ escaped' = escaped \cup {arg[t]}

\* A statement that may throw.
OrThrow(t, l) == (Goto(t, l) /\ UNCHANGED escaped) \/ Throw(t)

----------------------------------------------------------------------------
(* ClientUnaryCall2 *)

\* CastTo and the metadata lookups.
EnterUnaryCall(t) ==
    /\ pc[t] = "idle"
    /\ client
    /\ Goto(t, "insert")
    /\ UNCHANGED <<callVars, rpcVars, registered, escaped, active, client, todo,
                   processVars>>

\* new ClientCall; ActiveClientCalls[clientCall] = true under clientLock.
InsertActive(t, c) ==
    /\ pc[t] = "insert"
    /\ object[c] = "unused"
    /\ ~ClientLocked
    /\ object' = [object EXCEPT ![c] = "live"]
    /\ active' = active \cup {c}
    /\ pc' = [pc EXCEPT ![t] = "register"]
    /\ arg' = [arg EXCEPT ![t] = c]
    /\ UNCHANGED <<hasContext, cancelled, status, reported, rpcVars, registered,
                   escaped, client, todo, processVars>>

RegisterCall(t) ==
    /\ pc[t] = "register"
    /\ registered' = registered \cup {arg[t]}
    /\ Goto(t, "init")
    /\ UNCHANGED <<callVars, rpcVars, escaped, active, client, todo, processVars>>

\* _client, _occurrence and _context are set, the messages created.
InitCall(t) ==
    /\ pc[t] = "init"
    /\ hasContext' = [hasContext EXCEPT ![arg[t]] = TRUE]
    /\ Goto(t, "copyFrom")
    /\ UNCHANGED <<object, cancelled, status, reported, rpcVars, registered,
                   escaped, active, client, todo, processVars>>

\* CopyFromCluster succeeds, std::async starts the task and LabVIEW has the
\* id; it waits for the occurrence when it uses one.
LaunchTask(t) ==
    /\ pc[t] = "copyFrom"
    /\ task' = [task EXCEPT ![arg[t]] = "running"]
    /\ IF useOccurrence THEN Goto(t, "await") ELSE Return(t)
    /\ UNCHANGED <<callVars, tryCancel, result, signalled, registered, escaped,
                   active, client, todo, processVars>>

\* CopyFromCluster throws: the call stays registered and in the map, without
\* a task.
CopyFromClusterThrows(t) ==
    /\ pc[t] = "copyFrom"
    /\ Return(t)
    /\ UNCHANGED <<callVars, rpcVars, registered, escaped, active, client, todo,
                   processVars>>

----------------------------------------------------------------------------
(* The task of a call *)

\* Mutant: the occurrence is signalled before _status is assigned.
RpcEnds_SignalsFirst(c) ==
    /\ task[c] = "running"
    /\ signalled' = [signalled EXCEPT ![c] = useOccurrence]
    /\ \/ UNCHANGED <<status, result, task>>
       \/ /\ \E r \in {"OK", "ERR"} : /\ status' = [status EXCEPT ![c] = r]
                                      /\ result' = [result EXCEPT ![c] = r]
          /\ task' = [task EXCEPT ![c] = "done"]
    /\ UNCHANGED <<object, hasContext, cancelled, reported, tryCancel,
                   registered, escaped, active, client, todo, threadVars,
                   processVars>>

\* Mutant: the occurrence is signalled for a successful RPC only.
RpcEnds_SignalsOk(c) ==
    /\ task[c] = "running"
    /\ \E r \in {"OK", "ERR"} :
          /\ status' = [status EXCEPT ![c] = r]
          /\ result' = [result EXCEPT ![c] = r]
          /\ task' = [task EXCEPT ![c] = IF useOccurrence /\ r = "OK"
                                         THEN "checkCancelled" ELSE "done"]
    /\ UNCHANGED <<object, hasContext, cancelled, reported, tryCancel,
                   signalled, registered, escaped, active, client, todo,
                   threadVars, processVars>>

\* BlockingUnaryCall returns and _status is assigned.
RpcEnds(c) ==
    /\ task[c] = "running"
    /\ \E r \in {"OK", "ERR"} : /\ status' = [status EXCEPT ![c] = r]
                                /\ result' = [result EXCEPT ![c] = r]
    /\ task' = [task EXCEPT ![c] = IF useOccurrence THEN "checkCancelled"
                                                    ELSE "done"]
    /\ UNCHANGED <<object, hasContext, cancelled, reported, tryCancel,
                   signalled, registered, escaped, active, client, todo,
                   threadVars, processVars>>

\* Parsing the response (or writing the request) throws inside
\* BlockingUnaryCall: the task ends without assigning _status and without
\* signalling.
RpcThrows(c) ==
    /\ task[c] = "running"
    /\ result' = [result EXCEPT ![c] = "THROWN"]
    /\ task' = [task EXCEPT ![c] = "done"]
    /\ UNCHANGED <<callVars, tryCancel, signalled, registered, escaped, active,
                   client, todo, threadVars, processVars>>

\* CheckActiveAndSignalOccurenceForClientCall, the test of _cancelled.
SignalIfCancelled(c) ==
    /\ task[c] = "checkCancelled"
    /\ signalled' = [signalled EXCEPT ![c] = @ \/ cancelled[c]]
    /\ task' = [task EXCEPT ![c] = "checkActive"]
    /\ UNCHANGED <<callVars, tryCancel, result, registered, escaped, active,
                   client, todo, threadVars, processVars>>

\* ... and the lookup in ActiveClientCalls under clientLock.
SignalIfActive(c) ==
    /\ task[c] = "checkActive"
    /\ ~ClientLocked
    /\ signalled' = [signalled EXCEPT ![c] = @ \/ c \in active]
    /\ task' = [task EXCEPT ![c] = "done"]
    /\ UNCHANGED <<callVars, tryCancel, result, registered, escaped, active,
                   client, todo, threadVars, processVars>>

----------------------------------------------------------------------------
(* CompleteClientUnaryCall2 *)

\* CastTo; an id that is not registered makes the function return -1.
EnterComplete(t, c) ==
    IF c \in registered
    THEN /\ pc' = [pc EXCEPT ![t] = "cUnregister"]
         /\ arg' = [arg EXCEPT ![t] = c]
    ELSE Return(t)

\* The thread that waited for the occurrence completes its call.
OccurrenceFires(t) ==
    /\ pc[t] = "await"
    /\ signalled[arg[t]]
    /\ EnterComplete(t, arg[t])
    /\ UNCHANGED <<callVars, rpcVars, registered, escaped, active, client, todo,
                   processVars>>

\* Without occurrences, or with the id of a call that failed to start, LabVIEW
\* completes a call when it likes.
CompleteAnyTime(t, c) ==
    /\ pc[t] = "idle"
    /\ c \in registered
    /\ ~useOccurrence \/ task[c] = "none"
    /\ \A u \in Threads : ~(arg[u] = c /\ pc[u] \in BeginPcs)
    /\ EnterComplete(t, c)
    /\ UNCHANGED <<callVars, rpcVars, registered, escaped, active, client, todo,
                   processVars>>

\* UnregisterPointer(callId), in CompleteClientUnaryCall2 and ClientCancelCall.
UnregisterCall(t) ==
    /\ pc[t] \in {"cUnregister", "kUnregister"}
    /\ registered' = registered \ {arg[t]}
    /\ Goto(t, IF pc[t] = "cUnregister" THEN "cStatus" ELSE "kTry")
    /\ UNCHANGED <<callVars, rpcVars, escaped, active, client, todo, processVars>>

\* Mutant: a failed call skips the erasure that follows the test.
ReadStatus_NoErase(t) ==
    LET c == arg[t] IN
    /\ pc[t] = "cStatus"
    /\ IF status[c] = "OK"
       THEN Goto(t, "cWait") /\ UNCHANGED <<reported, escaped>>
       ELSE /\ reported' = [reported EXCEPT ![c] = "ERR"]
            /\ OrThrow(t, "drop")
    /\ UNCHANGED <<object, hasContext, cancelled, status, rpcVars, registered,
                   active, client, todo, processVars>>

\* if (_status.ok()): read before the task is known to have finished.
ReadStatus(t) ==
    LET c == arg[t] IN
    /\ pc[t] = "cStatus"
    /\ IF status[c] = "OK"
       THEN Goto(t, "cWait") /\ UNCHANGED <<reported, escaped>>
       ELSE /\ reported' = [reported EXCEPT ![c] = "ERR"]
            /\ OrThrow(t, "erase")
    /\ UNCHANGED <<object, hasContext, cancelled, status, rpcVars, registered,
                   active, client, todo, processVars>>

\* _runFuture.wait(): a future without a task throws, and wait() does not throw
\* what the task has thrown.
WaitForTask(t) ==
    /\ pc[t] = "cWait"
    /\ task[arg[t]] \in {"none", "done"}
    /\ IF task[arg[t]] = "done"
       THEN Goto(t, "cCopy") /\ UNCHANGED escaped
       ELSE Throw(t)
    /\ UNCHANGED <<callVars, rpcVars, registered, active, client, todo,
                   processVars>>

\* CopyToCluster(response): the call is reported as successful.
CopyResponse(t) ==
    /\ pc[t] = "cCopy"
    /\ \/ /\ reported' = [reported EXCEPT ![arg[t]] = "OK"]
          /\ Goto(t, "erase")
          /\ UNCHANGED escaped
       \/ Throw(t) /\ UNCHANGED reported
    /\ UNCHANGED <<object, hasContext, cancelled, status, rpcVars, registered,
                   active, client, todo, processVars>>

\* Erase the call from ActiveClientCalls under clientLock.
EraseActive(t) ==
    /\ pc[t] = "erase"
    /\ ~ClientLocked
    /\ active' = active \ {arg[t]}
    /\ Goto(t, "drop")
    /\ UNCHANGED <<callVars, rpcVars, registered, escaped, client, todo,
                   processVars>>

\* Mutant: the task is detached, its future is not waited for.
DropCall_Detached(t) ==
    LET c == arg[t]
        last == c \notin registered /\ \A u \in Threads \ {t} : ~Holds(u, c)
    IN
    /\ pc[t] = "drop"
    /\ object' = IF last THEN [object EXCEPT ![c] = "destroyed"] ELSE object
    /\ Return(t)
    /\ UNCHANGED <<hasContext, cancelled, status, reported, rpcVars, registered,
                   escaped, active, client, todo, processVars>>

\* The shared_ptr goes out of scope.  The last one runs ~ClientCall, which
\* destroys _runFuture and so waits for the task.
DropCall(t) ==
    LET c == arg[t]
        last == c \notin registered /\ \A u \in Threads \ {t} : ~Holds(u, c)
    IN
    /\ pc[t] = "drop"
    /\ last => task[c] \in {"none", "done"}
    /\ object' = IF last THEN [object EXCEPT ![c] = "destroyed"] ELSE object
    /\ Return(t)
    /\ UNCHANGED <<hasContext, cancelled, status, reported, rpcVars, registered,
                   escaped, active, client, todo, processVars>>

----------------------------------------------------------------------------
(* ClientCancelCall and ClientCancelCallContext *)

\* LabVIEW got the id from a ClientUnaryCall2 that has returned.
EnterCancel(t, c) ==
    /\ pc[t] = "idle"
    /\ c \in registered
    /\ \A u \in Threads : ~(arg[u] = c /\ pc[u] \in BeginPcs)
    /\ pc' = [pc EXCEPT ![t] = "kUnregister"]
    /\ arg' = [arg EXCEPT ![t] = c]
    /\ UNCHANGED <<callVars, rpcVars, registered, escaped, active, client, todo,
                   processVars>>

\* ClientCall::Cancel, first statement: _context->Cancel().
CancelContext(t) ==
    /\ pc[t] = "kTry"
    /\ tryCancel' = [tryCancel EXCEPT ![arg[t]] = TRUE]
    /\ Goto(t, "kFlag")
    /\ UNCHANGED <<callVars, result, task, signalled, registered, escaped,
                   active, client, todo, processVars>>

\* ClientCall::Cancel, second statement: _cancelled = true.
SetCancelled(t) ==
    /\ pc[t] = "kFlag"
    /\ cancelled' = [cancelled EXCEPT ![arg[t]] = TRUE]
    /\ Goto(t, "kStatus")
    /\ UNCHANGED <<object, hasContext, status, reported, rpcVars, registered,
                   escaped, active, client, todo, processVars>>

\* The status is turned into the result; its message may fail to convert.
CancelStatus(t) ==
    /\ pc[t] = "kStatus"
    /\ \/ Goto(t, "erase") /\ UNCHANGED escaped
       \/ status[arg[t]] = "ERR" /\ Throw(t)
    /\ UNCHANGED <<callVars, rpcVars, registered, active, client, todo,
                   processVars>>

\* ClientCancelCallContext on a context LabVIEW passed to the call.
ClientCancelCallContext(c) ==
    /\ hasContext[c] /\ ~tryCancel[c]
    /\ tryCancel' = [tryCancel EXCEPT ![c] = TRUE]
    /\ UNCHANGED <<callVars, result, task, signalled, registered, escaped,
                   active, client, todo, threadVars, processVars>>

----------------------------------------------------------------------------
(* CloseClient, called by LabVIEW code or as the cleanup proc *)

EnterClose(t) ==
    /\ pc[t] = "idle"
    /\ client
    /\ Goto(t, "xLock")
    /\ UNCHANGED <<callVars, rpcVars, registered, escaped, active, client, todo,
                   processVars>>

\* Take clientLock and start the loop over ActiveClientCalls.
LockClient(t) ==
    /\ pc[t] = "xLock"
    /\ ~ClientLocked
    /\ todo' = active
    /\ Goto(t, "xTry")
    /\ UNCHANGED <<callVars, rpcVars, registered, escaped, active, client,
                   processVars>>

\* activeClientCall->first->Cancel(), first statement.  The pointer or its
\* _context may not be usable.
CancelActive(t, c) ==
    /\ pc[t] = "xTry"
    /\ c \in todo
    /\ IF object[c] = "live" /\ hasContext[c]
       THEN /\ tryCancel' = [tryCancel EXCEPT ![c] = TRUE]
            /\ UNCHANGED fault
       ELSE fault' = TRUE /\ UNCHANGED tryCancel
    /\ pc' = [pc EXCEPT ![t] = "xFlag"]
    /\ arg' = [arg EXCEPT ![t] = c]
    /\ UNCHANGED <<callVars, result, task, signalled, registered, escaped,
                   active, client, todo, useOccurrence>>

\* ... and second statement; next iteration.
FlagActive(t) ==
    /\ pc[t] = "xFlag"
    /\ cancelled' = [cancelled EXCEPT ![arg[t]] = TRUE]
    /\ todo' = todo \ {arg[t]}
    /\ pc' = [pc EXCEPT ![t] = "xTry"]
    /\ arg' = [arg EXCEPT ![t] = NoCall]
    /\ UNCHANGED <<object, hasContext, status, reported, rpcVars, registered,
                   escaped, active, client, processVars>>

\* Mutant: the map is cleared without waiting for the loop to end.
ClearActive_TooEarly(t) ==
    /\ pc[t] = "xTry"
    /\ active' = {}
    /\ todo' = {}
    /\ Goto(t, "xUnregister")
    /\ UNCHANGED <<callVars, rpcVars, registered, escaped, client, processVars>>

\* ActiveClientCalls.clear(); unlock.
ClearActive(t) ==
    /\ pc[t] = "xTry"
    /\ todo = {}
    /\ active' = {}
    /\ Goto(t, "xUnregister")
    /\ UNCHANGED <<callVars, rpcVars, registered, escaped, client, todo,
                   processVars>>

\* DeregisterCleanupProc and UnregisterPointer(clientId).
UnregisterClient(t) ==
    /\ pc[t] = "xUnregister"
    /\ client' = FALSE
    /\ Return(t)
    /\ UNCHANGED <<callVars, rpcVars, registered, escaped, active, todo,
                   processVars>>

----------------------------------------------------------------------------
\* CreateClient2 has registered the client.
Init ==
    /\ object = [c \in Calls |-> "unused"]
    /\ registered = {} /\ escaped = {} /\ active = {}
    /\ hasContext = [c \in Calls |-> FALSE]
    /\ tryCancel = [c \in Calls |-> FALSE]
    /\ cancelled = [c \in Calls |-> FALSE]
    /\ status = [c \in Calls |-> "OK"]
    /\ result = [c \in Calls |-> "pending"]
    /\ reported = [c \in Calls |-> "none"]
    /\ task = [c \in Calls |-> "none"]
    /\ signalled = [c \in Calls |-> FALSE]
    /\ client = TRUE
    /\ todo = {}
    /\ pc = [t \in Threads |-> "idle"]
    /\ arg = [t \in Threads |-> NoCall]
    /\ useOccurrence \in BOOLEAN
    /\ fault = FALSE

\* Bound: every ClientCall identity is used for one call.
Unstarted == Cardinality({c \in Calls : object[c] = "unused"})
                 > Cardinality({t \in Threads : pc[t] = "insert"})

CallApi(t) ==
    \/ Unstarted /\ EnterUnaryCall(t)
    \/ \E c \in Calls : CompleteAnyTime(t, c) \/ EnterCancel(t, c)
    \/ EnterClose(t)

\* The steps of a thread inside an operation or woken by its occurrence.
Continue(t) ==
    \/ \E c \in Calls : InsertActive(t, c)
    \/ RegisterCall(t)
    \/ InitCall(t)
    \/ LaunchTask(t)
    \/ CopyFromClusterThrows(t)
    \/ OccurrenceFires(t)
    \/ UnregisterCall(t)
    \/ ReadStatus(t)
    \/ WaitForTask(t)
    \/ CopyResponse(t)
    \/ EraseActive(t)
    \/ DropCall(t)
    \/ CancelContext(t)
    \/ SetCancelled(t)
    \/ CancelStatus(t)
    \/ LockClient(t)
    \/ \E c \in Calls : CancelActive(t, c)
    \/ FlagActive(t)
    \/ ClearActive(t)
    \/ UnregisterClient(t)

Task(c) ==
    \/ RpcEnds(c)
    \/ RpcThrows(c)
    \/ SignalIfCancelled(c)
    \/ SignalIfActive(c)

\* No thread is inside the library; LabVIEW may leave it at that.
Quiescent == \A t \in Threads : pc[t] \in {"idle", "await"}

Terminated == (fault \/ Quiescent) /\ UNCHANGED vars

Next ==
    \/ /\ ~fault
       /\ \/ \E t \in Threads : CallApi(t) \/ Continue(t)
          \/ \E c \in Calls : Task(c) \/ ClientCancelCallContext(c)
    \/ Terminated

Spec == Init /\ [][Next]_vars

\* Threads inside an operation and tasks keep running, and an RPC whose
\* context was cancelled ends.  LabVIEW and the remote server may do nothing.
Fairness ==
    /\ \A t \in Threads : WF_vars(~fault /\ Continue(t))
    /\ \A c \in Calls :
          /\ WF_vars(~fault /\ (SignalIfCancelled(c) \/ SignalIfActive(c)))
          /\ WF_vars(~fault /\ tryCancel[c] /\ (RpcEnds(c) \/ RpcThrows(c)))

FairSpec == Spec /\ Fairness

----------------------------------------------------------------------------
(* Properties *)

\* The raw pointers of ActiveClientCalls, which CloseClient follows to cancel
\* the calls (grpc_client.cc:271), point to objects that exist, whatever is
\* completed, cancelled and closed at the same time.  Only a call whose API
\* function an exception has left before the erasure (grpc_client.cc:456, :944)
\* can dangle there.
ActiveCallsAlive == \A c \in active \ escaped : object[c] = "live"

\* The task dereferences a raw pointer to its call to the very end
\* (grpc_client.cc:399): the call is not destroyed under it, whichever of
\* CompleteClientUnaryCall2, ClientCancelCall and CloseClient came first.
TaskKeepsCall ==
    \A c \in Calls : task[c] \notin {"none", "done"} => object[c] = "live"

\* An RPC in progress can be stopped: it is in the map CloseClient cancels
\* from, or its context was cancelled already.
RunningCallCancellable ==
    \A c \in Calls : task[c] = "running" => c \in active \/ tryCancel[c]

\* With occurrences CompleteClientUnaryCall2 returns 0 only for an RPC that
\* ended with OK (grpc_client.cc:451), although _status is read before the task
\* is joined and stays OK when the task throws.
ReportedOkMeansOk ==
    useOccurrence =>
        \A c \in Calls : reported[c] = "OK" => result[c] = "OK"

\* The thread that waits for the occurrence of a call is woken when the RPC is
\* over: the signal is lost (grpc_client.cc:248-253) only for a call whose
\* context was cancelled, or whose task was left by an exception.
SignalLostOnlyIfCancelled ==
    useOccurrence =>
        \A c \in Calls :
            task[c] = "done" /\ ~signalled[c]
                => tryCancel[c] \/ result[c] = "THROWN"

\* ClientCancelCall and CloseClient return, although the one waits for the
\* task in ~ClientCall (grpc_client.cc:959) and both need the lock the task
\* takes to signal (grpc_client.cc:252).
CancelReturns ==
    \A t \in Threads :
        pc[t] \in CancelPcs \cup ClosePcs ~> (pc[t] = "idle" \/ fault)
=============================================================================
