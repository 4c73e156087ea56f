-------------------------- MODULE ClientCallsProofs --------------------------
(***************************************************************************)
(* Proofs about the unary calls of a client, for any set of calls and of   *)
(* LabVIEW threads.                                                        *)
(*                                                                         *)
(* Nothing but conventions protects a ClientCall: its owner is a thread    *)
(* that begins it, then gPointerManager, then the threads that complete or *)
(* cancel it; its task is launched by the thread that begins it and ends   *)
(* once; it leaves ActiveClientCalls only when its RPC is over or its      *)
(* context was cancelled.  The inductive invariant says so step by step.   *)
(***************************************************************************)
EXTENDS ClientCalls, TLAPS

\* ClientUnaryCall2 has made its ClientCall, but not returned its id.
BeginningPcs == {"register", "init", "copyFrom"}
Beginning(t, c) == arg[t] = c /\ pc[t] \in BeginningPcs

\* The steps at which a thread has a shared_ptr to a call.
HoldingPcs == CompletePcs \cup CancelPcs \cup {"erase", "drop"}

\* A thread has a call exactly inside the operations on one.
ThreadInv ==
    \A t \in Threads :
        /\ pc[t] \in BeginningPcs \cup HoldingPcs \cup {"await", "xFlag"}
              => arg[t] \in Calls
        /\ pc[t] \in {"idle", "insert", "xLock", "xTry", "xUnregister"}
              => arg[t] = NoCall

\* Nobody knows an object before it is made.
UnusedInv(c) ==
    object[c] = "unused" =>
        /\ c \notin registered /\ c \notin active /\ c \notin todo
        /\ task[c] = "none"
        /\ \A t \in Threads : arg[t] # c

\* An object with an owner, or with a task that uses it, exists.
OwnerInv(c) ==
    \/ c \in registered
    \/ \E t \in Threads : Holds(t, c) \/ Beginning(t, c)
    \/ task[c] \notin {"none", "done"}
    => object[c] = "live"

\* The thread that begins a call has it for itself (only CloseClient may be
\* cancelling it), and can count on its being cancellable.
BeginInv(t) ==
    pc[t] \in BeginningPcs =>
        /\ task[arg[t]] = "none"
        /\ arg[t] \in active \/ tryCancel[arg[t]]
        /\ pc[t] = "register" => arg[t] \notin registered
        /\ \A u \in Threads : u # t /\ arg[u] = arg[t] => pc[u] = "xFlag"

\* _status is OK until the task assigns the result of the RPC; a task that an
\* exception ends does not assign it.
TaskInv(c) ==
    /\ result[c] = "pending" <=> task[c] \in {"none", "running"}
    /\ result[c] \in {"pending", "THROWN"} => status[c] = "OK" /\ ~signalled[c]
    /\ result[c] \in {"OK", "ERR"} => status[c] = result[c]
    /\ task[c] \in {"checkCancelled", "checkActive"} => result[c] # "THROWN"

RunInv(c) == task[c] = "running" => c \in active \/ tryCancel[c]

\* What a thread knows of its call at a step of CompleteClientUnaryCall2 and
\* ClientCancelCall; with occurrences, that the RPC is not running any more.
StepInv(t) ==
    /\ pc[t] = "await" => task[arg[t]] # "none"
    /\ pc[t] \in {"kFlag", "kStatus"} => tryCancel[arg[t]]
    /\ pc[t] = "erase" => task[arg[t]] # "running" \/ tryCancel[arg[t]]
    /\ pc[t] = "cCopy" => task[arg[t]] = "done"
    /\ useOccurrence /\ pc[t] \in CompletePcs
          => task[arg[t]] # "running" /\ result[arg[t]] # "THROWN"
    /\ useOccurrence /\ pc[t] \in CompletePcs \cup {"erase"}
          => \/ task[arg[t]] = "none"
             \/ signalled[arg[t]]
             \/ tryCancel[arg[t]]
    /\ useOccurrence /\ pc[t] \in {"cWait", "cCopy"} => status[arg[t]] = "OK"

\* CloseClient has cancelled every active call that its loop has behind it.
LoopInv ==
    ~fault => \A t \in Threads :
        /\ pc[t] \in {"xTry", "xFlag"} => \A c \in active \ todo : tryCancel[c]
        /\ pc[t] = "xFlag" => tryCancel[arg[t]]

\* A call that no exception has escaped from is erased from ActiveClientCalls
\* before the thread drops it, and so before it is destroyed.
EraseInv ==
    /\ \A t \in Threads :
          pc[t] = "drop" => arg[t] \notin active \/ arg[t] \in escaped
    /\ \A c \in active \ escaped : object[c] = "live"

\* A task whose call is active signals; only the cancelled ones leave the map
\* while it runs.
SignalInv(c) ==
    useOccurrence =>
        /\ task[c] \in {"checkCancelled", "checkActive"} =>
              c \in active \/ signalled[c] \/ tryCancel[c]
        /\ task[c] = "done" =>
              signalled[c] \/ tryCancel[c] \/ result[c] = "THROWN"

ReportInv(c) == useOccurrence /\ reported[c] = "OK" => result[c] = "OK"

\* What holds of the calls, beside the types.
CallsInv ==
    /\ \A c \in Calls : UnusedInv(c) /\ OwnerInv(c)
    /\ \A c \in Calls : TaskInv(c) /\ RunInv(c) /\ ReportInv(c) /\ SignalInv(c)
    /\ \A t \in Threads : BeginInv(t) /\ StepInv(t)
    /\ LoopInv
    /\ EraseInv

\* The inductive invariant.
IInv == TypeOK /\ ThreadInv /\ CallsInv

\* The initial state satisfies the invariant.
LEMMA InitIInv == Init => IInv
<1> SUFFICES ASSUME Init PROVE IInv
  OBVIOUS
<1> USE ClientAssumption DEF Init, BeginningPcs, HoldingPcs, CompletePcs,
        CancelPcs
<1>1. TypeOK
  BY DEF TypeOK, Pcs, TaskStates
<1>2. ThreadInv
  BY DEF ThreadInv
<1>3. \A c \in Calls : UnusedInv(c) /\ OwnerInv(c)
  BY DEF UnusedInv, OwnerInv, Holds, Beginning
<1>4. \A c \in Calls : TaskInv(c) /\ RunInv(c) /\ ReportInv(c) /\ SignalInv(c)
  BY DEF TaskInv, RunInv, ReportInv, SignalInv
<1>5. \A t \in Threads : BeginInv(t) /\ StepInv(t)
  BY DEF BeginInv, StepInv
<1>6. LoopInv /\ EraseInv
  BY DEF LoopInv, EraseInv
<1> QED
  BY <1>1, <1>2, <1>3, <1>4, <1>5, <1>6 DEF IInv, CallsInv

\* Every step of a thread keeps the types.
LEMMA ThreadTypeOK ==
  ASSUME TypeOK, ThreadInv, NEW t \in Threads, CallApi(t) \/ Continue(t)
  PROVE  TypeOK' /\ ThreadInv'
<1> USE ClientAssumption
    DEF TypeOK, ThreadInv, Pcs, BeginPcs, BeginningPcs, CompletePcs, CancelPcs,
        ClosePcs, HoldingPcs, Goto, Return, callVars, rpcVars, threadVars,
        processVars
<1>1. CASE EnterUnaryCall(t)
  BY <1>1 DEF EnterUnaryCall
<1>2. ASSUME NEW c \in Calls, InsertActive(t, c)
      PROVE  TypeOK' /\ ThreadInv'
  BY <1>2 DEF InsertActive
<1>3. CASE RegisterCall(t)
  BY <1>3 DEF RegisterCall
<1>4. CASE InitCall(t)
  BY <1>4 DEF InitCall
<1>5. CASE LaunchTask(t)
  BY <1>5 DEF LaunchTask, TaskStates
<1>6. CASE CopyFromClusterThrows(t)
  BY <1>6 DEF CopyFromClusterThrows
<1>7. CASE OccurrenceFires(t)
  BY <1>7 DEF OccurrenceFires, EnterComplete
<1>8. ASSUME NEW c \in Calls, CompleteAnyTime(t, c)
      PROVE  TypeOK' /\ ThreadInv'
  BY <1>8 DEF CompleteAnyTime, EnterComplete
<1>9. CASE UnregisterCall(t)
  BY <1>9 DEF UnregisterCall
<1>10. CASE ReadStatus(t)
  BY <1>10 DEF ReadStatus, OrThrow, Throw
<1>11. CASE WaitForTask(t)
  BY <1>11 DEF WaitForTask, Throw
<1>12. CASE CopyResponse(t)
  BY <1>12 DEF CopyResponse, Throw
<1>13. CASE EraseActive(t)
  BY <1>13 DEF EraseActive
<1>14. CASE DropCall(t)
  BY <1>14 DEF DropCall
<1>15. ASSUME NEW c \in Calls, EnterCancel(t, c)
      PROVE  TypeOK' /\ ThreadInv'
  BY <1>15 DEF EnterCancel
<1>16. CASE CancelContext(t)
  BY <1>16 DEF CancelContext
<1>17. CASE SetCancelled(t)
  BY <1>17 DEF SetCancelled
<1>18. CASE CancelStatus(t)
  BY <1>18 DEF CancelStatus, Throw
<1>19. CASE EnterClose(t)
  BY <1>19 DEF EnterClose
<1>20. CASE LockClient(t)
  BY <1>20 DEF LockClient
<1>21. ASSUME NEW c \in Calls, CancelActive(t, c)
      PROVE  TypeOK' /\ ThreadInv'
  BY <1>21 DEF CancelActive
<1>22. CASE FlagActive(t)
  BY <1>22 DEF FlagActive
<1>23. CASE ClearActive(t)
  BY <1>23 DEF ClearActive
<1>24. CASE UnregisterClient(t)
  BY <1>24 DEF UnregisterClient
<1> HIDE DEF TypeOK, ThreadInv
<1> QED
  BY <1>1, <1>2, <1>3, <1>4, <1>5, <1>6, <1>7, <1>8,
     <1>9, <1>10, <1>11, <1>12, <1>13, <1>14, <1>15, <1>16,
     <1>17, <1>18, <1>19, <1>20, <1>21, <1>22, <1>23, <1>24
     DEF CallApi, Continue

\* ClientUnaryCall2 keeps the invariant: the thread that begins a call has it
\* for itself until the task is launched and the id is returned.
LEMMA BeginStep ==
  ASSUME IInv, ~fault, NEW t \in Threads,
         \/ EnterUnaryCall(t)
         \/ \E c \in Calls : InsertActive(t, c)
         \/ RegisterCall(t)
         \/ InitCall(t)
         \/ LaunchTask(t)
         \/ CopyFromClusterThrows(t)
  PROVE  CallsInv'
<1> USE ClientAssumption
    DEF IInv, TypeOK, ThreadInv, CallsInv, UnusedInv, OwnerInv, BeginInv,
        TaskInv, RunInv, StepInv, LoopInv, EraseInv, ReportInv,
        SignalInv, BeginPcs, BeginningPcs, CompletePcs, CancelPcs,
        HoldingPcs, Holds, Beginning, Goto, Return, callVars, rpcVars, threadVars,
        processVars
<1>1. CASE EnterUnaryCall(t)
  BY <1>1 DEF EnterUnaryCall
<1>2. ASSUME NEW c \in Calls, InsertActive(t, c)
     PROVE  CallsInv'
  BY <1>2 DEF InsertActive, ClientLocked
<1>3. CASE RegisterCall(t)
  BY <1>3 DEF RegisterCall
<1>4. CASE InitCall(t)
  BY <1>4 DEF InitCall
<1>5. CASE LaunchTask(t)
  BY <1>5 DEF LaunchTask
<1>6. CASE CopyFromClusterThrows(t)
  BY <1>6 DEF CopyFromClusterThrows
<1> HIDE DEF CallsInv
<1> QED
  BY <1>1, <1>2, <1>3, <1>4, <1>5, <1>6

\* CompleteClientUnaryCall2 keeps it: the call is erased only after its RPC is
\* over, and destroyed only without an owner and a running task.
LEMMA CompleteStep ==
  ASSUME IInv, ~fault, NEW t \in Threads,
         \/ OccurrenceFires(t)
         \/ \E c \in Calls : CompleteAnyTime(t, c)
         \/ UnregisterCall(t)
         \/ ReadStatus(t)
         \/ WaitForTask(t)
         \/ CopyResponse(t)
         \/ EraseActive(t)
         \/ DropCall(t)
  PROVE  CallsInv'
<1> USE ClientAssumption
    DEF IInv, TypeOK, ThreadInv, CallsInv, UnusedInv, OwnerInv, BeginInv,
        TaskInv, RunInv, StepInv, LoopInv, EraseInv, ReportInv,
        SignalInv, BeginPcs, BeginningPcs, CompletePcs, CancelPcs,
        HoldingPcs, Holds, Beginning, Goto, Return, callVars, rpcVars, threadVars,
        processVars
<1>1. CASE OccurrenceFires(t)
  BY <1>1 DEF OccurrenceFires, EnterComplete
<1>2. ASSUME NEW c \in Calls, CompleteAnyTime(t, c)
     PROVE  CallsInv'
  BY <1>2 DEF CompleteAnyTime, EnterComplete
<1>3. CASE UnregisterCall(t)
  BY <1>3 DEF UnregisterCall
<1>4. CASE ReadStatus(t)
  BY <1>4 DEF ReadStatus, OrThrow, Throw
<1>5. CASE WaitForTask(t)
  BY <1>5 DEF WaitForTask, Throw
<1>6. CASE CopyResponse(t)
  BY <1>6 DEF CopyResponse, Throw
<1>7. CASE EraseActive(t)
  BY <1>7 DEF EraseActive, ClientLocked
<1>8. CASE DropCall(t)
  BY <1>8 DEF DropCall
<1> HIDE DEF CallsInv
<1> QED
  BY <1>1, <1>2, <1>3, <1>4, <1>5, <1>6, <1>7, <1>8

\* ClientCancelCall keeps it: the context is cancelled before the call is erased.
LEMMA CancelStep ==
  ASSUME IInv, ~fault, NEW t \in Threads,
         \/ \E c \in Calls : EnterCancel(t, c)
         \/ CancelContext(t)
         \/ SetCancelled(t)
         \/ CancelStatus(t)
  PROVE  CallsInv'
<1> USE ClientAssumption
    DEF IInv, TypeOK, ThreadInv, CallsInv, UnusedInv, OwnerInv, BeginInv,
        TaskInv, RunInv, StepInv, LoopInv, EraseInv, ReportInv,
        SignalInv, BeginPcs, BeginningPcs, CompletePcs, CancelPcs,
        HoldingPcs, Holds, Beginning, Goto, Return, callVars, rpcVars, threadVars,
        processVars
<1>1. ASSUME NEW c \in Calls, EnterCancel(t, c)
     PROVE  CallsInv'
  BY <1>1 DEF EnterCancel
<1>2. CASE CancelContext(t)
  BY <1>2 DEF CancelContext
<1>3. CASE SetCancelled(t)
  BY <1>3 DEF SetCancelled
<1>4. CASE CancelStatus(t)
  BY <1>4 DEF CancelStatus, Throw
<1> HIDE DEF CallsInv
<1> QED
  BY <1>1, <1>2, <1>3, <1>4

\* CloseClient keeps it: the map is stable while its loop runs.
LEMMA CloseStep ==
  ASSUME IInv, ~fault, NEW t \in Threads,
         \/ EnterClose(t)
         \/ LockClient(t)
         \/ \E c \in Calls : CancelActive(t, c)
         \/ FlagActive(t)
         \/ ClearActive(t)
         \/ UnregisterClient(t)
  PROVE  CallsInv'
<1> USE ClientAssumption
    DEF IInv, TypeOK, ThreadInv, CallsInv, UnusedInv, OwnerInv, BeginInv,
        TaskInv, RunInv, StepInv, LoopInv, EraseInv, ReportInv,
        SignalInv, BeginPcs, BeginningPcs, CompletePcs, CancelPcs,
        HoldingPcs, Holds, Beginning, Goto, Return, callVars, rpcVars, threadVars,
        processVars
<1>1. CASE EnterClose(t)
  BY <1>1 DEF EnterClose
<1>2. CASE LockClient(t)
  BY <1>2 DEF LockClient, ClientLocked
<1>3. ASSUME NEW c \in Calls, CancelActive(t, c)
     PROVE  CallsInv'
  <2>1. \A k \in Calls : UnusedInv(k)' /\ OwnerInv(k)'
    BY <1>3 DEF CancelActive
  <2>2. \A k \in Calls : TaskInv(k)' /\ RunInv(k)' /\ ReportInv(k)' /\ SignalInv(k)'
    BY <1>3 DEF CancelActive
  <2>3. \A u \in Threads : BeginInv(u)' /\ StepInv(u)'
    BY <1>3 DEF CancelActive
  <2>4. LoopInv'
    BY <1>3 DEF CancelActive
  <2>5. EraseInv'
    BY <1>3 DEF CancelActive
  <2> QED
    BY <2>1, <2>2, <2>3, <2>4, <2>5
<1>4. CASE FlagActive(t)
  BY <1>4 DEF FlagActive
<1>5. CASE ClearActive(t)
  <2>1. \A k \in Calls : UnusedInv(k)' /\ OwnerInv(k)'
    BY <1>5 DEF ClearActive
  <2>2. \A k \in Calls : TaskInv(k)' /\ RunInv(k)' /\ ReportInv(k)' /\ SignalInv(k)'
    BY <1>5 DEF ClearActive
  <2>3. \A u \in Threads : BeginInv(u)' /\ StepInv(u)'
    BY <1>5 DEF ClearActive
  <2>4. LoopInv'
    BY <1>5 DEF ClearActive
  <2>5. EraseInv'
    BY <1>5 DEF ClearActive
  <2> QED
    BY <2>1, <2>2, <2>3, <2>4, <2>5
<1>6. CASE UnregisterClient(t)
  BY <1>6 DEF UnregisterClient
<1> HIDE DEF CallsInv
<1> QED
  BY <1>1, <1>2, <1>3, <1>4, <1>5, <1>6

\* The task of a call and ClientCancelCallContext keep it.
LEMMA TaskStep ==
  ASSUME IInv, ~fault, NEW c \in Calls, Task(c) \/ ClientCancelCallContext(c)
  PROVE  IInv'
<1> USE ClientAssumption
    DEF IInv, TypeOK, ThreadInv, CallsInv, UnusedInv, OwnerInv, BeginInv,
        TaskInv, RunInv, StepInv, LoopInv, EraseInv, ReportInv,
        SignalInv, BeginPcs, BeginningPcs, CompletePcs, CancelPcs,
        HoldingPcs, Holds, Beginning, Goto, Return, callVars, rpcVars, threadVars,
        processVars
<1>1. CASE RpcEnds(c)
  BY <1>1 DEF RpcEnds, TaskStates
<1>5. CASE RpcThrows(c)
  BY <1>5 DEF RpcThrows, TaskStates
<1>2. CASE SignalIfCancelled(c)
  BY <1>2 DEF SignalIfCancelled, TaskStates
<1>3. CASE SignalIfActive(c)
  BY <1>3 DEF SignalIfActive, TaskStates
<1>4. CASE ClientCancelCallContext(c)
  BY <1>4 DEF ClientCancelCallContext
<1> HIDE DEF IInv
<1> QED
  BY <1>1, <1>2, <1>3, <1>4, <1>5 DEF Task

\* The invariant is inductive: no step of a thread or a task breaks it, and a
\* step that changes nothing cannot.
LEMMA NextIInv == IInv /\ [Next]_vars => IInv'
<1> SUFFICES ASSUME IInv, [Next]_vars PROVE IInv'
  OBVIOUS
<1>1. ASSUME NEW t \in Threads, ~fault, CallApi(t)
      PROVE  IInv'
  BY <1>1, ThreadTypeOK, BeginStep, CompleteStep, CancelStep, CloseStep
     DEF CallApi, IInv
<1>2. ASSUME NEW t \in Threads, ~fault, Continue(t)
      PROVE  IInv'
  BY <1>2, ThreadTypeOK, BeginStep, CompleteStep, CancelStep, CloseStep
     DEF Continue, IInv
<1>3. ASSUME NEW c \in Calls, ~fault, Task(c) \/ ClientCancelCallContext(c)
      PROVE  IInv'
  BY <1>3, TaskStep
<1>4. CASE UNCHANGED vars
  BY <1>4 DEF vars, callVars, rpcVars, threadVars, processVars, IInv, TypeOK,
              ThreadInv,
              CallsInv, UnusedInv, OwnerInv, BeginInv, TaskInv, RunInv, StepInv,
              LoopInv, EraseInv, ReportInv,
        SignalInv, Holds, Beginning
<1> QED
  BY <1>1, <1>2, <1>3, <1>4 DEF Next, Terminated

\* The invariant holds in every reachable state.
LEMMA SpecIInv == Spec => []IInv
  BY InitIInv, NextIInv, PTL DEF Spec

----------------------------------------------------------------------------
(* The theorems *)

\* The variables of a client keep their types: in particular every thread works
\* on a call that exists.
THEOREM TypeCorrect == Spec => []TypeOK
<1>1. IInv => TypeOK
  BY DEF IInv
<1> QED
  BY <1>1, SpecIInv, PTL

\* The task of a call never outlives its ClientCall, although it has a raw
\* pointer to it and any thread may complete, cancel or close meanwhile
\* (grpc_client.cc:399); also when conversions throw.
THEOREM TaskAlwaysKeepsCall == Spec => []TaskKeepsCall
<1>1. IInv => TaskKeepsCall
  BY DEF IInv, CallsInv, OwnerInv, TaskKeepsCall
<1> QED
  BY <1>1, SpecIInv, PTL

\* A call whose RPC runs is in the map CloseClient cancels from or is cancelled
\* already (grpc_client.cc:271): CloseClient misses no call, with and without
\* occurrences and exceptions.
THEOREM RunningAlwaysCancellable == Spec => []RunningCallCancellable
<1>1. IInv => RunningCallCancellable
  BY DEF IInv, CallsInv, RunInv, RunningCallCancellable
<1> QED
  BY <1>1, SpecIInv, PTL

\* With occurrences CompleteClientUnaryCall2 returns OK only for an RPC that
\* ended with OK, also when the task throws.  Without them it tests _status
\* before it waits for the task (grpc_client.cc:451), and this does not hold.
THEOREM ReportsTheTruth == Spec => []ReportedOkMeansOk
<1>1. IInv => ReportedOkMeansOk
  BY DEF IInv, CallsInv, ReportInv, ReportedOkMeansOk
<1> QED
  BY <1>1, SpecIInv, PTL

\* The occurrence is signalled for every RPC that ends, except a cancelled one
\* (erased from ActiveClientCalls before the task looks) and one whose task an
\* exception leaves (grpc_client.cc:402): the waiter sleeps on only then.
THEOREM SignalNeverLostOtherwise == Spec => []SignalLostOnlyIfCancelled
<1>1. IInv => SignalLostOnlyIfCancelled
  BY DEF IInv, CallsInv, SignalInv, SignalLostOnlyIfCancelled
<1> QED
  BY <1>1, SpecIInv, PTL

\* The raw pointers of ActiveClientCalls point to objects that exist
\* (grpc_client.cc:271): every path that drops a call has erased it, except the
\* one an exception takes.
THEOREM ActiveAlwaysAlive == Spec => []ActiveCallsAlive
<1>1. IInv => ActiveCallsAlive
  BY DEF IInv, CallsInv, EraseInv, ActiveCallsAlive
<1> QED
  BY <1>1, SpecIInv, PTL
=============================================================================
