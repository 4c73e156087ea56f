--------------------------- MODULE ServerLifecycle ---------------------------
(***************************************************************************)
(* Starting and stopping LabVIEWgRPCServer objects (grpc_server.cc, the    *)
(* lifecycle functions of grpc_interop.cc) and the process-wide            *)
(* ProtoDescriptorString they share.                                       *)
(*                                                                         *)
(* LabVIEW threads run LVCreateServer, LVStartServer, LVStopServer (also   *)
(* as cleanup proc) and DeserializeReflectionInfo.  LVStartServer spawns a *)
(* run thread that builds the gRPC server, tells the caller through a      *)
(* ServerStartEventData that the caller deletes, and serves until the      *)
(* completion queue is drained.  It works on a plain `this`; only the      *)
(* calls it serves hold a shared_ptr to the server.  What it does with     *)
(* those calls is the subject of ServerCalls.                              *)
(***************************************************************************)
EXTENDS Integers

CONSTANTS Servers,      \* LabVIEWgRPCServer objects; also name run threads
          Threads,      \* LabVIEW execution threads
          NoServer,     \* "no server"
          MaxSets       \* bound: no DeserializeReflectionInfo above this count

ASSUME LifecycleAssumption == /\ NoServer \notin Servers
                              /\ Servers \cap Threads = {}
                              /\ MaxSets \in Nat

VARIABLES
    created,      \* servers LVCreateServer has made
    registered,   \* servers in gPointerManager
    server,       \* _server: null, running or shutdown
    cqShutdown,   \* _cq->Shutdown() was called
    runThread,    \* _runThread: null, joinable or joined
    runPc,        \* the run thread
    starter,      \* whose ServerStartEventData the run thread was given
    event,        \* that object, of Run in a thread: none, pending, completed
    startStatus,  \* its serverStartStatus
    pc, srv,      \* LabVIEW threads: step and the shared_ptr they hold
    result,       \* what Run is about to return
    instance,     \* m_instance # nullptr
    refcount,     \* m_refcount
    ptr,          \* what a thread got from getInstance
    process,      \* up, or how it ended
    overlapped    \* servers on which two calls have overlapped (history)

objVars   == <<created, registered, server, cqShutdown, runThread>>
eventVars == <<starter, event, startStatus>>
descVars  == <<instance, refcount, ptr>>
heldVars  == <<srv, result, overlapped>>
apiVars   == <<pc, heldVars>>
vars == <<objVars, runPc, eventVars, apiVars, descVars, process>>

Actors   == Threads \cup Servers
StartPcs == {"run", "wait", "sleep", "result", "join", "return"}
StopPcs  == {"stop", "stopShutdown", "stopWait", "stopCq", "stopTest",
             "stopJoin", "stopClear", "stopGet", "stopDelete", "unregister"}
Pcs      == {"idle", "set"} \cup StartPcs \cup StopPcs
RunPcs   == {"none", "builder", "descriptor", "build", "notify", "signal",
             "unlock", "create", "loop", "leave", "return", "exited"}

TypeOK ==
    /\ registered \subseteq created /\ created \subseteq Servers
    /\ server \in [Servers -> {"null", "running", "shutdown"}]
    /\ cqShutdown \in [Servers -> BOOLEAN]
    /\ runThread \in [Servers -> {"null", "joinable", "joined"}]
    /\ runPc \in [Servers -> RunPcs]
    /\ starter \in [Servers -> Threads \cup {NoServer}]
    /\ event \in [Threads -> {"none", "pending", "completed"}]
    /\ startStatus \in [Threads -> {0, -1}]
    /\ pc \in [Threads -> Pcs]
    /\ srv \in [Threads -> Servers \cup {NoServer}]
    /\ result \in [Threads -> {0, -1}]
    /\ instance \in BOOLEAN
    /\ refcount \in Int
    /\ ptr \in [Actors -> {"none", "valid", "dangling"}]
    /\ overlapped \subseteq Servers
    /\ process \in {"up", "terminated", "aborted", "freed", "raced", "crashed"}

----------------------------------------------------------------------------
(* Helpers *)

\* A shared_ptr to the server exists: in the pointer manager, on the stack of
\* a LabVIEW thread, or in the CallData the run thread listens with.
Referenced(s) ==
    \/ s \in registered
    \/ \E t \in Threads : srv[t] = s
    \/ runPc[s] = "loop"

\* The run thread has been started and has not returned.
Running(s) == runPc[s] \notin {"none", "exited"}

\* Destroying the server destroys _runThread, and a std::thread that is still
\* joinable then terminates the process.
DestroyIfLast(s) ==
    process' = IF runThread'[s] = "joinable" /\ ~Referenced(s)'
               THEN "terminated" ELSE process

\* Mutant: NotifyComplete signals without holding the mutex.
EventLocked_Never(t) == pc[t] = "idle"

\* The mutex of the ServerStartEventData of t is held by a run thread.
EventLocked(t) ==
    \E s \in Servers : starter[s] = t /\ runPc[s] \in {"signal", "unlock"}

Goto(t, l) == pc' = [pc EXCEPT ![t] = l]

RunGoto(s, l) == runPc' = [runPc EXCEPT ![s] = l]

----------------------------------------------------------------------------
(* ProtoDescriptorString *)

\* getInstance: creates the singleton when there is none.
GetInstance(a) ==
    /\ instance' = TRUE
    /\ refcount' = IF instance THEN refcount ELSE 0
    /\ ptr' = [ptr EXCEPT ![a] = "valid"]

DropInstance(a) == ptr' = [ptr EXCEPT ![a] = "none"]

\* deleteInstance by a.  Pointers other threads got from getInstance dangle
\* when the instance is deleted.
DeleteInstance(a) ==
    /\ refcount' = refcount - 1
    /\ instance' = (refcount # 1)
    /\ ptr' = [b \in Actors |->
                 IF b = a THEN "none"
                 ELSE IF refcount = 1 /\ ptr[b] = "valid" THEN "dangling"
                 ELSE ptr[b]]

\* A method is called on a deleted instance.
UseDangling(a) ==
    /\ ptr[a] = "dangling"
    /\ process' = "freed"
    /\ UNCHANGED <<objVars, runPc, eventVars, apiVars, descVars>>

\* DeserializeReflectionInfo: getInstance, then setDescriptor.
BeginSetDescriptor(t) ==
    /\ pc[t] = "idle"
    /\ refcount < MaxSets
    /\ GetInstance(t)
    /\ Goto(t, "set")
    /\ UNCHANGED <<objVars, runPc, eventVars, heldVars, process>>

SetDescriptor(t) ==
    /\ pc[t] = "set" /\ ptr[t] = "valid"
    /\ refcount' = refcount + 1
    /\ DropInstance(t)
    /\ Goto(t, "idle")
    /\ UNCHANGED <<objVars, runPc, eventVars, heldVars, instance, process>>

----------------------------------------------------------------------------
(* LVCreateServer and LVStartServer *)

\* LVCreateServer.
CreateServer(t, s) ==
    /\ pc[t] = "idle" /\ s \notin created
    /\ created' = created \cup {s}
    /\ registered' = registered \cup {s}
    /\ UNCHANGED <<server, cqShutdown, runThread, runPc, eventVars, apiVars,
                   descVars, process>>

\* CastTo at the beginning of LVStartServer and LVStopServer.
Enter(t, s, l) ==
    /\ pc[t] = "idle"
    /\ s \in registered
    /\ overlapped' = IF \E u \in Threads : srv[u] = s
                     THEN overlapped \cup {s} ELSE overlapped
    /\ srv' = [srv EXCEPT ![t] = s]
    /\ Goto(t, l)
    /\ UNCHANGED <<objVars, runPc, eventVars, result, descVars, process>>

\* Run spawns the run thread.  Assigning over a thread that is still joinable
\* terminates the process.
SpawnRunThread(t) ==
    LET s == srv[t] IN
    /\ pc[t] = "run"
    /\ IF runThread[s] = "joinable"
       THEN /\ process' = "terminated"
            /\ UNCHANGED <<runThread, runPc, eventVars, pc>>
       ELSE /\ runThread' = [runThread EXCEPT ![s] = "joinable"]
            /\ RunGoto(s, "builder")
            /\ starter' = [starter EXCEPT ![s] = t]
            /\ event' = [event EXCEPT ![t] = "pending"]
            /\ startStatus' = [startStatus EXCEPT ![t] = 0]
            /\ Goto(t, "wait")
            /\ UNCHANGED process
    /\ UNCHANGED <<created, registered, server, cqShutdown, heldVars,
                   descVars>>

\* WaitForComplete, with the mutex: tests _completed or goes to sleep.
WaitForComplete(t) ==
    /\ pc[t] = "wait"
    /\ ~EventLocked(t)
    /\ Goto(t, IF event[t] = "completed" THEN "result" ELSE "sleep")
    /\ UNCHANGED <<objVars, runPc, eventVars, heldVars, descVars, process>>

\* A condition variable may wake up without having been notified.
SpuriousWakeup(t) ==
    /\ pc[t] = "sleep"
    /\ Goto(t, "wait")
    /\ UNCHANGED <<objVars, runPc, eventVars, heldVars, descVars, process>>

\* Mutant: the run thread of a failed start is not joined.
ReadResult_NoJoin(t) ==
    /\ pc[t] = "result"
    /\ result' = [result EXCEPT ![t] = startStatus[t]]
    /\ event' = [event EXCEPT ![t] = "none"]
    /\ Goto(t, "return")
    /\ UNCHANGED <<objVars, runPc, starter, startStatus, srv, overlapped,
                   descVars, process>>

\* Run reads the result and deletes the ServerStartEventData.
ReadResult(t) ==
    /\ pc[t] = "result"
    /\ result' = [result EXCEPT ![t] = startStatus[t]]
    /\ event' = [event EXCEPT ![t] = "none"]
    /\ Goto(t, IF startStatus[t] = -1 THEN "join" ELSE "return")
    /\ UNCHANGED <<objVars, runPc, starter, startStatus, srv, overlapped,
                   descVars, process>>

\* The run thread of a failed start is joined.
JoinFailed(t) ==
    LET s == srv[t] IN
    /\ pc[t] = "join"
    /\ runPc[s] = "exited"
    /\ runThread' = [runThread EXCEPT ![s] = "joined"]
    /\ Goto(t, "return")
    /\ UNCHANGED <<created, registered, server, cqShutdown, runPc, eventVars,
                   heldVars, descVars, process>>

\* LVStartServer returns and its shared_ptr goes.
ReturnFromStart(t) ==
    /\ pc[t] = "return"
    /\ srv' = [srv EXCEPT ![t] = NoServer]
    /\ Goto(t, "idle")
    /\ UNCHANGED <<objVars, runPc, eventVars, result, overlapped, descVars>>
    /\ DestroyIfLast(srv[t])

----------------------------------------------------------------------------
(* The run thread: RunServer and HandleRpcs *)

\* The constructor of ServerBuilder makes the reflection plugin, which asks
\* for the descriptor: getInstance, then getDescriptor.
MakePlugin(s) ==
    /\ runPc[s] = "builder"
    /\ GetInstance(s)
    /\ RunGoto(s, "descriptor")
    /\ UNCHANGED <<objVars, eventVars, apiVars, process>>

GetDescriptor(s) ==
    /\ runPc[s] = "descriptor" /\ ptr[s] = "valid"
    /\ DropInstance(s)
    /\ RunGoto(s, "build")
    /\ UNCHANGED <<objVars, eventVars, apiVars, instance, refcount, process>>

\* AddCompletionQueue and a BuildAndStart that succeeds.
BuildAndStart(s) ==
    /\ runPc[s] = "build"
    /\ server' = [server EXCEPT ![s] = "running"]
    /\ cqShutdown' = [cqShutdown EXCEPT ![s] = FALSE]
    /\ RunGoto(s, "notify")
    /\ UNCHANGED <<created, registered, runThread, eventVars, apiVars,
                   descVars, process>>

\* Mutant: the caller is not notified of a failure.
BuildFails_Silently(s) ==
    /\ runPc[s] = "build"
    /\ server' = [server EXCEPT ![s] = "null"]
    /\ cqShutdown' = [cqShutdown EXCEPT ![s] = FALSE]
    /\ startStatus' = [startStatus EXCEPT ![starter[s]] = -1]
    /\ RunGoto(s, "exited")
    /\ UNCHANGED <<created, registered, runThread, starter, event, apiVars,
                   descVars, process>>

\* The address cannot be bound: BuildAndStart returns nullptr and
\* serverStartStatus is set before the caller is notified.
BuildFails(s) ==
    /\ runPc[s] = "build"
    /\ server' = [server EXCEPT ![s] = "null"]
    /\ cqShutdown' = [cqShutdown EXCEPT ![s] = FALSE]
    /\ startStatus' = [startStatus EXCEPT ![starter[s]] = -1]
    /\ RunGoto(s, "notify")
    /\ UNCHANGED <<created, registered, runThread, starter, event, apiVars,
                   descVars, process>>

\* NotifyComplete takes the mutex and sets _completed.
SetCompleted(s) ==
    /\ runPc[s] = "notify"
    /\ event' = [event EXCEPT ![starter[s]] = "completed"]
    /\ RunGoto(s, "signal")
    /\ UNCHANGED <<objVars, starter, startStatus, apiVars, descVars,
                   process>>

NotifyAll(s) ==
    /\ runPc[s] = "signal"
    /\ pc' = [pc EXCEPT ![starter[s]] = IF @ = "sleep" THEN "wait" ELSE @]
    /\ RunGoto(s, "unlock")
    /\ UNCHANGED <<objVars, eventVars, heldVars, descVars, process>>

\* The mutex is released; a server that was built serves, and after a failure
\* the run thread has only to return, which the woken caller may overtake.
Unlock(s) ==
    /\ runPc[s] = "unlock"
    /\ RunGoto(s, IF startStatus[starter[s]] = -1 THEN "return" ELSE "create")
    /\ UNCHANGED <<objVars, eventVars, apiVars, descVars, process>>

\* HandleRpcs: the first CallData::Create.  Its RequestCall on a completion
\* queue that StopServer has shut down already aborts the process.
FirstCreate(s) ==
    /\ runPc[s] = "create"
    /\ IF cqShutdown[s]
       THEN process' = "aborted" /\ UNCHANGED runPc
       ELSE RunGoto(s, "loop") /\ UNCHANGED process
    /\ UNCHANGED <<objVars, eventVars, apiVars, descVars>>

\* Mutant: the run thread does not leave the loop.
LoopEnds_Spins(s) ==
    /\ runPc[s] = "loop"
    /\ cqShutdown[s]
    /\ UNCHANGED vars

\* _cq->Next returns false.  The thread that shut the queue down is in
\* StopServer and holds a shared_ptr.
LoopEnds(s) ==
    /\ runPc[s] = "loop"
    /\ cqShutdown[s]
    /\ RunGoto(s, "leave")
    /\ UNCHANGED <<objVars, eventVars, apiVars, descVars, process>>

\* _server->Wait() after the loop, which is through the null pointer when
\* another StopServer has cleared _server.
RunWait(s) ==
    /\ runPc[s] = "leave"
    /\ server[s] # "running"
    /\ IF server[s] = "null"
       THEN process' = "crashed" /\ UNCHANGED runPc
       ELSE RunGoto(s, "return") /\ UNCHANGED process
    /\ UNCHANGED <<objVars, eventVars, apiVars, descVars>>

\* RunServer returns, and the thread can be joined.
RunThreadExits(s) ==
    /\ runPc[s] = "return"
    /\ RunGoto(s, "exited")
    /\ UNCHANGED <<objVars, eventVars, apiVars, descVars, process>>

----------------------------------------------------------------------------
(* LVStopServer *)

\* StopServer tests _server: without one it has nothing to shut down.
StopTestServer(t) ==
    /\ pc[t] = "stop"
    /\ Goto(t, IF server[srv[t]] = "null" THEN "stopGet" ELSE "stopShutdown")
    /\ UNCHANGED <<objVars, runPc, eventVars, heldVars, descVars, process>>

\* _server is used again, without a lock; when another StopServer has cleared
\* it since the test, a null pointer is dereferenced.
UseNullServer(t) ==
    /\ pc[t] \in {"stopShutdown", "stopWait"}
    /\ server[srv[t]] = "null"
    /\ process' = "crashed"
    /\ UNCHANGED <<objVars, runPc, eventVars, apiVars, descVars>>

\* _server->Shutdown(now).
StopShutdown(t) ==
    LET s == srv[t] IN
    /\ pc[t] = "stopShutdown"
    /\ server[s] # "null"
    /\ server' = [server EXCEPT ![s] = "shutdown"]
    /\ Goto(t, "stopWait")
    /\ UNCHANGED <<created, registered, cqShutdown, runThread, runPc,
                   eventVars, heldVars, descVars, process>>

\* _server->Wait(): until the server is shut down, which the one that has
\* replaced it meanwhile may not be.
StopWait(t) ==
    /\ pc[t] = "stopWait"
    /\ server[srv[t]] = "shutdown"
    /\ Goto(t, "stopCq")
    /\ UNCHANGED <<objVars, runPc, eventVars, heldVars, descVars, process>>

\* _cq->Shutdown().
StopCq(t) ==
    /\ pc[t] = "stopCq"
    /\ cqShutdown' = [cqShutdown EXCEPT ![srv[t]] = TRUE]
    /\ Goto(t, "stopTest")
    /\ UNCHANGED <<created, registered, server, runThread, runPc, eventVars,
                   heldVars, descVars, process>>

\* _runThread->joinable().
StopTest(t) ==
    /\ pc[t] = "stopTest"
    /\ Goto(t, IF runThread[srv[t]] = "joinable" THEN "stopJoin" ELSE "stopClear")
    /\ UNCHANGED <<objVars, runPc, eventVars, heldVars, descVars, process>>

\* Two threads inside join() of one std::thread: a data race, taken as the end
\* of the process.
JoinTwice(t) ==
    /\ pc[t] = "stopJoin"
    /\ \E u \in Threads \ {t} : pc[u] = "stopJoin" /\ srv[u] = srv[t]
    /\ process' = "raced"
    /\ UNCHANGED <<objVars, runPc, eventVars, apiVars, descVars>>

\* Mutant: StopServer does not wait for the run thread.
StopJoin_NoJoin(t) ==
    /\ pc[t] = "stopJoin"
    /\ Goto(t, "stopClear")
    /\ UNCHANGED <<objVars, runPc, eventVars, heldVars, descVars, process>>

\* _runThread->join().
StopJoin(t) ==
    LET s == srv[t] IN
    /\ pc[t] = "stopJoin"
    /\ runPc[s] = "exited"
    /\ \A u \in Threads \ {t} : pc[u] = "stopJoin" => srv[u] # s
    /\ runThread' = [runThread EXCEPT ![s] = "joined"]
    /\ Goto(t, "stopClear")
    /\ UNCHANGED <<created, registered, server, cqShutdown, runPc, eventVars,
                   heldVars, descVars, process>>

\* _server = nullptr.
StopClear(t) ==
    /\ pc[t] = "stopClear"
    /\ server' = [server EXCEPT ![srv[t]] = "null"]
    /\ Goto(t, "stopGet")
    /\ UNCHANGED <<created, registered, cqShutdown, runThread, runPc,
                   eventVars, heldVars, descVars, process>>

\* ProtoDescriptorString::getInstance()->deleteInstance().
StopGetInstance(t) ==
    /\ pc[t] = "stopGet"
    /\ GetInstance(t)
    /\ Goto(t, "stopDelete")
    /\ UNCHANGED <<objVars, runPc, eventVars, heldVars, process>>

StopDeleteInstance(t) ==
    /\ pc[t] = "stopDelete" /\ ptr[t] = "valid"
    /\ DeleteInstance(t)
    /\ Goto(t, "unregister")
    /\ UNCHANGED <<objVars, runPc, eventVars, heldVars, process>>

\* DeregisterCleanupProc, UnregisterPointer and the end of the shared_ptr.
UnregisterServer(t) ==
    /\ pc[t] = "unregister"
    /\ registered' = registered \ {srv[t]}
    /\ srv' = [srv EXCEPT ![t] = NoServer]
    /\ Goto(t, "idle")
    /\ UNCHANGED <<created, server, cqShutdown, runThread, runPc, eventVars,
                   result, overlapped, descVars>>
    /\ DestroyIfLast(srv[t])

----------------------------------------------------------------------------
(* The specification *)

Init ==
    /\ created = {} /\ registered = {}
    /\ server = [s \in Servers |-> "null"]
    /\ cqShutdown = [s \in Servers |-> FALSE]
    /\ runThread = [s \in Servers |-> "null"]
    /\ runPc = [s \in Servers |-> "none"]
    /\ starter = [s \in Servers |-> NoServer]
    /\ event = [t \in Threads |-> "none"]
    /\ startStatus = [t \in Threads |-> 0]
    /\ pc = [t \in Threads |-> "idle"]
    /\ srv = [t \in Threads |-> NoServer]
    /\ result = [t \in Threads |-> 0]
    /\ instance = FALSE /\ refcount = 0
    /\ ptr = [a \in Actors |-> "none"]
    /\ process = "up"
    /\ overlapped = {}

CallApi(t) ==
    \/ BeginSetDescriptor(t)
    \/ \E s \in Servers : \/ CreateServer(t, s)
                          \/ Enter(t, s, "run")
                          \/ Enter(t, s, "stop")

Continue(t) ==
    \/ SetDescriptor(t)
    \/ SpawnRunThread(t) \/ WaitForComplete(t) \/ ReadResult(t)
    \/ JoinFailed(t) \/ ReturnFromStart(t)
    \/ StopTestServer(t) \/ UseNullServer(t) \/ StopShutdown(t) \/ StopWait(t)
    \/ StopCq(t) \/ StopTest(t) \/ JoinTwice(t) \/ StopJoin(t) \/ StopClear(t)
    \/ StopGetInstance(t)
    \/ StopDeleteInstance(t) \/ UnregisterServer(t)
    \/ UseDangling(t)

RunStep(s) ==
    \/ MakePlugin(s) \/ GetDescriptor(s) \/ BuildAndStart(s) \/ BuildFails(s)
    \/ SetCompleted(s) \/ NotifyAll(s) \/ Unlock(s)
    \/ FirstCreate(s) \/ LoopEnds(s) \/ RunWait(s) \/ RunThreadExits(s)
    \/ UseDangling(s)

\* LabVIEW makes no further call, or the process is gone.
Terminated ==
    /\ process # "up" \/ \A t \in Threads : pc[t] = "idle"
    /\ UNCHANGED vars

Next ==
    \/ /\ process = "up"
       /\ \/ \E t \in Threads : CallApi(t) \/ Continue(t) \/ SpuriousWakeup(t)
          \/ \E s \in Servers : RunStep(s)
    \/ Terminated

Spec == Init /\ [][Next]_vars

\* The operating system schedules the threads inside the library.  LabVIEW is
\* free to make no call at all.
Fairness ==
    /\ \A t \in Threads : WF_vars(process = "up" /\ Continue(t))
    /\ \A s \in Servers : WF_vars(process = "up" /\ RunStep(s))

FairSpec == Spec /\ Fairness

----------------------------------------------------------------------------
(* Properties *)

\* The run thread's plain `this` is valid, and so is the std::thread: as long
\* as no two calls on a server overlap, the object exists while its run thread
\* runs or has to be joined.  pointer_manager.h:18 promises that pointers are
\* cleaned up "only when they're no longer being used".
ServerOutlivesRunThread ==
    \A s \in Servers \ overlapped :
        (Running(s) \/ runThread[s] = "joinable") => Referenced(s)

\* The run thread never touches the ServerStartEventData after Run has deleted
\* it: NotifyComplete signals while it holds the mutex (event_data.cc:321), so
\* the waiting thread cannot see _completed before the notifier has let go.
StartEventAlive ==
    \A s \in Servers :
        runPc[s] \in {"notify", "signal", "unlock"} =>
            event[starter[s]] # "none"

\* LVStartServer tells the truth as long as no call overlaps it: when it
\* returns 0 the server runs and its run thread serves it, when it returns -1
\* there is no server and no run thread is left (grpc_server.cc:111).
StartResultIsTrue ==
    \A t \in Threads :
        pc[t] = "return" /\ srv[t] \notin overlapped =>
            LET s == srv[t] IN
            IF result[t] = 0 THEN server[s] = "running" /\ Running(s)
                             ELSE server[s] = "null" /\ ~Running(s)

\* LVStartServer returns, whether the address can be bound or not.
StartReturns ==
    \A t \in Threads :
        pc[t] \in StartPcs ~> (pc[t] = "idle" \/ process # "up")

\* LVStopServer returns: the run thread it joins gets out of HandleRpcs.
StopReturns ==
    \A t \in Threads :
        pc[t] \in StopPcs ~> (pc[t] = "idle" \/ process # "up")

\* grpc_server.cc:270 says of getInstance: "Return the static class instance.
\* Thread safe."  No thread calls a method of an instance that was deleted
\* after getInstance returned it.
InstanceAlive == process # "freed"
=============================================================================
