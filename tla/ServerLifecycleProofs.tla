------------------------ MODULE ServerLifecycleProofs ------------------------
(***************************************************************************)
(* Theorems about ServerLifecycle: what holds however LabVIEW's calls      *)
(* overlap (StartEventAlive), and what holds of a server on which no two   *)
(* calls have (ServerOutlivesRunThread, StartResultIsTrue).                *)
(***************************************************************************)
EXTENDS ServerLifecycle, TLAPS

\* A thread holds a shared_ptr to a server exactly while it starts or stops it.
ThreadInv == \A t \in Threads : srv[t] = NoServer <=> pc[t] \in {"idle", "set"}

\* Only a run thread that has returned is joined.
RunInv == \A s \in Servers : Running(s) => runThread[s] = "joinable"

Building  == {"builder", "descriptor", "build"}
Notifying == {"notify", "signal", "unlock"}

\* Until NotifyComplete has released the mutex the starting thread waits.
EarlyInv ==
    \A s \in Servers :
        runPc[s] \in Building \cup Notifying =>
            /\ starter[s] \in Threads
            /\ srv[starter[s]] = s
            /\ pc[starter[s]] \in {"wait", "sleep"}
            /\ event[starter[s]] = IF runPc[s] \in {"signal", "unlock"}
                                   THEN "completed" ELSE "pending"

ControlInv == ThreadInv /\ RunInv /\ EarlyInv

IInv == TypeOK /\ ControlInv

\* The servers that only one call at a time has used.
Serial == Servers \ overlapped

\* Such a server is held by one thread and registered meanwhile.
CallsInv ==
    /\ \A t, u \in Threads : srv[t] = srv[u] /\ srv[t] \in Serial => t = u
    /\ \A t \in Threads : srv[t] \in Serial => srv[t] \in registered

\* With a thread to join it is registered, and past its join StopServer has
\* left no such thread behind.
JoinInv ==
    /\ \A s \in Serial : runThread[s] = "joinable" => s \in registered
    /\ \A t \in Threads :
          /\ pc[t] \in {"stopClear", "stopGet", "stopDelete", "unregister"}
          /\ srv[t] \in Serial
          => runThread[srv[t]] # "joinable"

\* Its run thread without a _server belongs to a start that is going on.
StartingInv ==
    \A s \in Serial :
        runThread[s] = "joinable" /\ server[s] = "null" =>
            \E t \in Threads : /\ srv[t] = s
                               /\ pc[t] \in {"wait", "sleep", "result", "join"}

\* It is shut down inside StopServer only, and served while it runs: a run
\* thread that is about to return leaves no running server behind.
ServingInv ==
    \A s \in Serial :
        /\ server[s] = "shutdown" =>
              \E t \in Threads : /\ srv[t] = s
                                 /\ pc[t] \in {"stopWait", "stopCq", "stopTest",
                                             "stopJoin", "stopClear"}
        /\ server[s] = "running" => Running(s) /\ runPc[s] # "return"

\* serverStartStatus agrees with _server from the build to the return of Run.
StatusInv ==
    /\ \A s \in Serial :
          /\ runPc[s] \in Building => startStatus[starter[s]] = 0
          /\ runPc[s] \in Notifying =>
                (startStatus[starter[s]] = -1 <=> server[s] = "null")
    /\ \A t \in Threads :
          srv[t] \in Serial =>
             /\ \/ pc[t] = "result"
                \/ pc[t] \in {"wait", "sleep"} /\ event[t] = "completed"
                => (startStatus[t] = -1 <=> server[srv[t]] = "null")
             /\ pc[t] = "join" => result[t] = -1 /\ server[srv[t]] = "null"

SInv == /\ CallsInv /\ JoinInv /\ StartingInv /\ ServingInv /\ StatusInv
        /\ StartResultIsTrue

----------------------------------------------------------------------------
(* Proofs *)

\* Every action keeps the types.
LEMMA TypeStep ==
    TypeOK /\ [Next]_vars => TypeOK'
<1> SUFFICES ASSUME TypeOK, [Next]_vars
             PROVE  TypeOK'
  OBVIOUS
<1> USE LifecycleAssumption DEF TypeOK, Pcs, StartPcs, StopPcs, RunPcs,
        Actors, heldVars, objVars, eventVars, descVars, apiVars
<1>1. CASE UNCHANGED <<created, registered, server, cqShutdown,
                       runThread, runPc, starter, event,
                       startStatus, pc, srv, result,
                       instance, refcount, ptr, process,
                       overlapped>>
  BY <1>1
<1>2. ASSUME NEW t \in Threads, BeginSetDescriptor(t) PROVE TypeOK'
  BY <1>2 DEF BeginSetDescriptor, GetInstance, Goto
<1>3. ASSUME NEW t \in Threads, SetDescriptor(t) PROVE TypeOK'
  BY <1>3 DEF SetDescriptor, DropInstance, Goto
<1>4. ASSUME NEW t \in Threads, SpawnRunThread(t) PROVE TypeOK'
  BY <1>4 DEF SpawnRunThread, Goto, RunGoto
<1>5. ASSUME NEW t \in Threads, WaitForComplete(t) PROVE TypeOK'
  BY <1>5 DEF WaitForComplete, Goto, EventLocked
<1>6. ASSUME NEW t \in Threads, ReadResult(t) PROVE TypeOK'
  BY <1>6 DEF ReadResult, Goto
<1>7. ASSUME NEW t \in Threads, JoinFailed(t) PROVE TypeOK'
  BY <1>7 DEF JoinFailed, Goto
<1>8. ASSUME NEW t \in Threads, ReturnFromStart(t) PROVE TypeOK'
  BY <1>8 DEF ReturnFromStart, Goto, DestroyIfLast
<1>9. ASSUME NEW t \in Threads, StopTestServer(t) PROVE TypeOK'
  BY <1>9 DEF StopTestServer, Goto
<1>10. ASSUME NEW t \in Threads, StopShutdown(t) PROVE TypeOK'
  BY <1>10 DEF StopShutdown, Goto
<1>11. ASSUME NEW t \in Threads, StopCq(t) PROVE TypeOK'
  BY <1>11 DEF StopCq, Goto
<1>12. ASSUME NEW t \in Threads, StopTest(t) PROVE TypeOK'
  BY <1>12 DEF StopTest, Goto
<1>13. ASSUME NEW t \in Threads, JoinTwice(t) PROVE TypeOK'
  BY <1>13 DEF JoinTwice
<1>14. ASSUME NEW t \in Threads, StopJoin(t) PROVE TypeOK'
  BY <1>14 DEF StopJoin, Goto
<1>15. ASSUME NEW t \in Threads, StopGetInstance(t) PROVE TypeOK'
  BY <1>15 DEF StopGetInstance, GetInstance, Goto
<1>16. ASSUME NEW t \in Threads, StopDeleteInstance(t) PROVE TypeOK'
  BY <1>16 DEF StopDeleteInstance, DeleteInstance, Goto
<1>17. ASSUME NEW t \in Threads, UnregisterServer(t) PROVE TypeOK'
  BY <1>17 DEF UnregisterServer, Goto, DestroyIfLast
<1>18. ASSUME NEW t \in Threads, SpuriousWakeup(t) PROVE TypeOK'
  BY <1>18 DEF SpuriousWakeup, Goto
<1>19. ASSUME NEW s \in Servers, MakePlugin(s) PROVE TypeOK'
  BY <1>19 DEF MakePlugin, GetInstance, RunGoto
<1>20. ASSUME NEW s \in Servers, GetDescriptor(s) PROVE TypeOK'
  BY <1>20 DEF GetDescriptor, DropInstance, RunGoto
<1>21. ASSUME NEW s \in Servers, BuildAndStart(s) PROVE TypeOK'
  BY <1>21 DEF BuildAndStart, RunGoto
<1>22. ASSUME NEW s \in Servers, BuildFails(s) PROVE TypeOK'
  BY <1>22 DEF BuildFails, RunGoto
<1>23. ASSUME NEW s \in Servers, SetCompleted(s) PROVE TypeOK'
  BY <1>23 DEF SetCompleted, RunGoto
<1>24. ASSUME NEW s \in Servers, NotifyAll(s) PROVE TypeOK'
  BY <1>24 DEF NotifyAll, RunGoto
<1>25. ASSUME NEW s \in Servers, Unlock(s) PROVE TypeOK'
  BY <1>25 DEF Unlock, RunGoto
<1>26. ASSUME NEW s \in Servers, FirstCreate(s) PROVE TypeOK'
  BY <1>26 DEF FirstCreate, RunGoto
<1>27. ASSUME NEW s \in Servers, LoopEnds(s) PROVE TypeOK'
  BY <1>27 DEF LoopEnds, RunGoto
<1>28. ASSUME NEW s \in Servers, RunThreadExits(s) PROVE TypeOK'
  BY <1>28 DEF RunThreadExits, RunGoto
<1>29. ASSUME NEW t \in Threads, NEW s \in Servers, CreateServer(t, s)
      PROVE  TypeOK'
  BY <1>29 DEF CreateServer
<1>30. ASSUME NEW t \in Threads, NEW s \in Servers, NEW l \in {"run", "stop"},
             Enter(t, s, l)
      PROVE  TypeOK'
  BY <1>30 DEF Enter, Goto
<1>31. ASSUME NEW a \in Actors, UseDangling(a) PROVE TypeOK'
  BY <1>31 DEF UseDangling
<1>32. ASSUME NEW t \in Threads, StopWait(t) PROVE TypeOK'
  BY <1>32 DEF StopWait, Goto
<1>33. ASSUME NEW t \in Threads, StopClear(t) PROVE TypeOK'
  BY <1>33 DEF StopClear, Goto
<1>34. ASSUME NEW t \in Threads, UseNullServer(t) PROVE TypeOK'
  BY <1>34 DEF UseNullServer
<1>35. ASSUME NEW s \in Servers, RunWait(s) PROVE TypeOK'
  BY <1>35 DEF RunWait, RunGoto
<1> QED
  BY <1>1, <1>2, <1>3, <1>4, <1>5, <1>6, <1>7, <1>8, <1>9, <1>10, <1>11, <1>12,
     <1>13, <1>14, <1>15, <1>16, <1>17, <1>18, <1>19, <1>20, <1>21, <1>22,
     <1>23, <1>24, <1>25, <1>26, <1>27, <1>28, <1>29, <1>30, <1>31, <1>32, <1>33, <1>34, <1>35
     DEF Next,
     CallApi, Continue, RunStep, Terminated, vars

\* Every action keeps ThreadInv, RunInv and EarlyInv.
LEMMA ControlStep ==
    IInv /\ [Next]_vars => ControlInv'
<1> SUFFICES ASSUME IInv, [Next]_vars
             PROVE  ControlInv'
  OBVIOUS
<1> USE LifecycleAssumption DEF IInv, ControlInv, ThreadInv, RunInv,
        EarlyInv, Running, Building, Notifying, TypeOK, heldVars,
        objVars, eventVars, descVars, apiVars
<1>1. CASE UNCHANGED <<pc, srv, runPc, runThread, starter,
                       event>>
  BY <1>1
<1>2. ASSUME NEW t \in Threads, BeginSetDescriptor(t) PROVE ControlInv'
  BY <1>2 DEF BeginSetDescriptor, GetInstance, Goto
<1>3. ASSUME NEW t \in Threads, SetDescriptor(t) PROVE ControlInv'
  BY <1>3 DEF SetDescriptor, DropInstance, Goto
<1>4. ASSUME NEW t \in Threads, SpawnRunThread(t) PROVE ControlInv'
  BY <1>4 DEF SpawnRunThread, Goto, RunGoto
<1>5. ASSUME NEW t \in Threads, WaitForComplete(t) PROVE ControlInv'
  BY <1>5 DEF WaitForComplete, Goto, EventLocked
<1>6. ASSUME NEW t \in Threads, ReadResult(t) PROVE ControlInv'
  BY <1>6 DEF ReadResult, Goto
<1>7. ASSUME NEW t \in Threads, JoinFailed(t) PROVE ControlInv'
  BY <1>7 DEF JoinFailed, Goto
<1>8. ASSUME NEW t \in Threads, ReturnFromStart(t) PROVE ControlInv'
  BY <1>8 DEF ReturnFromStart, Goto, DestroyIfLast
<1>9. ASSUME NEW t \in Threads, StopTestServer(t) PROVE ControlInv'
  BY <1>9 DEF StopTestServer, Goto
<1>10. ASSUME NEW t \in Threads, StopShutdown(t) PROVE ControlInv'
  BY <1>10 DEF StopShutdown, Goto
<1>11. ASSUME NEW t \in Threads, StopCq(t) PROVE ControlInv'
  BY <1>11 DEF StopCq, Goto
<1>12. ASSUME NEW t \in Threads, StopTest(t) PROVE ControlInv'
  BY <1>12 DEF StopTest, Goto
<1>13. ASSUME NEW t \in Threads, StopJoin(t) PROVE ControlInv'
  BY <1>13 DEF StopJoin, Goto
<1>14. ASSUME NEW t \in Threads, StopGetInstance(t) PROVE ControlInv'
  BY <1>14 DEF StopGetInstance, GetInstance, Goto
<1>15. ASSUME NEW t \in Threads, StopDeleteInstance(t) PROVE ControlInv'
  BY <1>15 DEF StopDeleteInstance, DeleteInstance, Goto
<1>16. ASSUME NEW t \in Threads, UnregisterServer(t) PROVE ControlInv'
  BY <1>16 DEF UnregisterServer, Goto, DestroyIfLast
<1>17. ASSUME NEW t \in Threads, SpuriousWakeup(t) PROVE ControlInv'
  BY <1>17 DEF SpuriousWakeup, Goto
<1>18. ASSUME NEW s \in Servers, MakePlugin(s) PROVE ControlInv'
  BY <1>18 DEF MakePlugin, GetInstance, RunGoto
<1>19. ASSUME NEW s \in Servers, GetDescriptor(s) PROVE ControlInv'
  BY <1>19 DEF GetDescriptor, DropInstance, RunGoto
<1>20. ASSUME NEW s \in Servers, BuildAndStart(s) PROVE ControlInv'
  BY <1>20 DEF BuildAndStart, RunGoto
<1>21. ASSUME NEW s \in Servers, BuildFails(s) PROVE ControlInv'
  BY <1>21 DEF BuildFails, RunGoto
<1>22. ASSUME NEW s \in Servers, SetCompleted(s) PROVE ControlInv'
  BY <1>22 DEF SetCompleted, RunGoto
<1>23. ASSUME NEW s \in Servers, NotifyAll(s) PROVE ControlInv'
  BY <1>23 DEF NotifyAll, RunGoto
<1>24. ASSUME NEW s \in Servers, Unlock(s) PROVE ControlInv'
  BY <1>24 DEF Unlock, RunGoto
<1>25. ASSUME NEW s \in Servers, FirstCreate(s) PROVE ControlInv'
  BY <1>25 DEF FirstCreate, RunGoto
<1>26. ASSUME NEW s \in Servers, LoopEnds(s) PROVE ControlInv'
  BY <1>26 DEF LoopEnds, RunGoto
<1>27. ASSUME NEW s \in Servers, RunThreadExits(s) PROVE ControlInv'
  BY <1>27 DEF RunThreadExits, RunGoto
<1>28. ASSUME NEW t \in Threads, NEW s \in Servers, NEW l \in {"run", "stop"},
             Enter(t, s, l)
      PROVE  ControlInv'
  BY <1>28 DEF Enter, Goto
<1>29. ASSUME NEW t \in Threads, StopWait(t) PROVE ControlInv'
  BY <1>29 DEF StopWait, Goto
<1>30. ASSUME NEW t \in Threads, StopClear(t) PROVE ControlInv'
  BY <1>30 DEF StopClear, Goto
<1>31. ASSUME NEW s \in Servers, RunWait(s) PROVE ControlInv'
  BY <1>31 DEF RunWait, RunGoto
<1> QED
  BY <1>1, <1>2, <1>3, <1>4, <1>5, <1>6, <1>7, <1>8, <1>9, <1>10, <1>11, <1>12,
     <1>13, <1>14, <1>15, <1>16, <1>17, <1>18, <1>19, <1>20, <1>21, <1>22,
     <1>23, <1>24, <1>25, <1>26, <1>27, <1>28, <1>29, <1>30, <1>31
     DEF Next, CallApi, Continue,
     RunStep, Terminated, vars, JoinTwice, CreateServer, UseNullServer, UseDangling

\* IInv is inductive.
LEMMA IInvStep == IInv /\ [Next]_vars => IInv'
  BY TypeStep, ControlStep DEF IInv

\* SInv is inductive relative to IInv.
LEMMA SInvStep ==
    IInv /\ SInv /\ [Next]_vars => SInv'
<1> SUFFICES ASSUME IInv, SInv, [Next]_vars
             PROVE  SInv'
  OBVIOUS
<1> USE LifecycleAssumption DEF IInv, ControlInv, SInv, TypeOK, ThreadInv,
        RunInv, EarlyInv, Serial, CallsInv, JoinInv, StartingInv,
        ServingInv, StatusInv, StartResultIsTrue, Running, Building,
        Notifying, heldVars, objVars, eventVars, descVars, apiVars
<1>1. CASE UNCHANGED <<registered, server, runThread, runPc,
                       starter, event, startStatus, pc,
                       srv, result, overlapped>>
  BY <1>1
<1>2. ASSUME NEW t \in Threads, BeginSetDescriptor(t) PROVE SInv'
  BY <1>2 DEF BeginSetDescriptor, GetInstance, Goto
<1>3. ASSUME NEW t \in Threads, SetDescriptor(t) PROVE SInv'
  BY <1>3 DEF SetDescriptor, DropInstance, Goto
<1>4. ASSUME NEW t \in Threads, SpawnRunThread(t) PROVE SInv'
  <2> DEFINE s == srv[t]
  <2>1. CASE runThread[s] = "joinable"
    BY <1>4, <2>1 DEF SpawnRunThread
  <2>2. CASE runThread[s] # "joinable"
    <3>1. s \in Servers /\ pc[t] = "run"
      BY <1>4 DEF SpawnRunThread
    <3>2. s \in Serial => server[s] = "null"
      BY <2>2, <3>1
    <3>3. CallsInv'
      BY <1>4, <2>2, <3>1 DEF SpawnRunThread, Goto
    <3>4. JoinInv'
      BY <1>4, <2>2, <3>1 DEF SpawnRunThread, Goto
    <3>5. StartingInv'
      BY <1>4, <2>2, <3>1 DEF SpawnRunThread, Goto
    <3>6. ServingInv'
      BY <1>4, <2>2, <3>1, <3>2 DEF SpawnRunThread, Goto, RunGoto
    <3>7. StatusInv' /\ StartResultIsTrue'
      BY <1>4, <2>2, <3>1, <3>2 DEF SpawnRunThread, Goto, RunGoto
    <3> QED
      BY <3>3, <3>4, <3>5, <3>6, <3>7
  <2> QED
    BY <2>1, <2>2
<1>5. ASSUME NEW t \in Threads, WaitForComplete(t) PROVE SInv'
  BY <1>5 DEF WaitForComplete, Goto, EventLocked
<1>6. ASSUME NEW t \in Threads, ReadResult(t) PROVE SInv'
  BY <1>6 DEF ReadResult, Goto
<1>7. ASSUME NEW t \in Threads, JoinFailed(t) PROVE SInv'
  BY <1>7 DEF JoinFailed, Goto
<1>8. ASSUME NEW t \in Threads, ReturnFromStart(t) PROVE SInv'
  BY <1>8 DEF ReturnFromStart, Goto, DestroyIfLast
<1>9. ASSUME NEW t \in Threads, StopTestServer(t) PROVE SInv'
  BY <1>9 DEF StopTestServer, Goto
<1>10. ASSUME NEW t \in Threads, StopShutdown(t) PROVE SInv'
  BY <1>10 DEF StopShutdown, Goto
<1>11. ASSUME NEW t \in Threads, StopCq(t) PROVE SInv'
  BY <1>11 DEF StopCq, Goto
<1>12. ASSUME NEW t \in Threads, StopTest(t) PROVE SInv'
  BY <1>12 DEF StopTest, Goto
<1>13. ASSUME NEW t \in Threads, StopJoin(t) PROVE SInv'
  BY <1>13 DEF StopJoin, Goto
<1>14. ASSUME NEW t \in Threads, StopGetInstance(t) PROVE SInv'
  BY <1>14 DEF StopGetInstance, GetInstance, Goto
<1>15. ASSUME NEW t \in Threads, StopDeleteInstance(t) PROVE SInv'
  BY <1>15 DEF StopDeleteInstance, DeleteInstance, Goto
<1>16. ASSUME NEW t \in Threads, UnregisterServer(t) PROVE SInv'
  BY <1>16 DEF UnregisterServer, Goto, DestroyIfLast
<1>17. ASSUME NEW t \in Threads, SpuriousWakeup(t) PROVE SInv'
  BY <1>17 DEF SpuriousWakeup, Goto
<1>18. ASSUME NEW s \in Servers, MakePlugin(s) PROVE SInv'
  BY <1>18 DEF MakePlugin, GetInstance, RunGoto
<1>19. ASSUME NEW s \in Servers, GetDescriptor(s) PROVE SInv'
  BY <1>19 DEF GetDescriptor, DropInstance, RunGoto
<1>20. ASSUME NEW s \in Servers, BuildAndStart(s) PROVE SInv'
  BY <1>20 DEF BuildAndStart, RunGoto
<1>21. ASSUME NEW s \in Servers, BuildFails(s) PROVE SInv'
  BY <1>21 DEF BuildFails, RunGoto
<1>22. ASSUME NEW s \in Servers, SetCompleted(s) PROVE SInv'
  BY <1>22 DEF SetCompleted, RunGoto
<1>23. ASSUME NEW s \in Servers, NotifyAll(s) PROVE SInv'
  BY <1>23 DEF NotifyAll, RunGoto
<1>24. ASSUME NEW s \in Servers, Unlock(s) PROVE SInv'
  BY <1>24 DEF Unlock, RunGoto
<1>25. ASSUME NEW s \in Servers, FirstCreate(s) PROVE SInv'
  BY <1>25 DEF FirstCreate, RunGoto
<1>26. ASSUME NEW s \in Servers, LoopEnds(s) PROVE SInv'
  BY <1>26 DEF LoopEnds, RunGoto
<1>27. ASSUME NEW s \in Servers, RunThreadExits(s) PROVE SInv'
  BY <1>27 DEF RunThreadExits, RunGoto
<1>28. ASSUME NEW t \in Threads, NEW s \in Servers, CreateServer(t, s)
      PROVE  SInv'
  BY <1>28 DEF CreateServer
<1>29. ASSUME NEW t \in Threads, NEW s \in Servers, NEW l \in {"run", "stop"},
             Enter(t, s, l)
      PROVE  SInv'
  BY <1>29 DEF Enter, Goto
<1>30. ASSUME NEW t \in Threads, StopWait(t) PROVE SInv'
  BY <1>30 DEF StopWait, Goto
<1>31. ASSUME NEW t \in Threads, StopClear(t) PROVE SInv'
  BY <1>31 DEF StopClear, Goto
<1>32. ASSUME NEW s \in Servers, RunWait(s) PROVE SInv'
  BY <1>32 DEF RunWait, RunGoto
<1> QED
  BY <1>1, <1>2, <1>3, <1>4, <1>5, <1>6, <1>7, <1>8, <1>9, <1>10, <1>11, <1>12,
     <1>13, <1>14, <1>15, <1>16, <1>17, <1>18, <1>19, <1>20, <1>21, <1>22,
     <1>23, <1>24, <1>25, <1>26, <1>27, <1>28, <1>29, <1>30, <1>31, <1>32
     DEF Next, CallApi,
     Continue, RunStep, Terminated, vars, JoinTwice, UseNullServer, UseDangling

\* The invariants hold initially.
LEMMA InitInv == Init => IInv /\ SInv
<1> SUFFICES ASSUME Init PROVE IInv /\ SInv
  OBVIOUS
<1> USE LifecycleAssumption DEF Init
<1>1. TypeOK
  <2>1. cqShutdown \in [Servers -> BOOLEAN] /\ instance \in BOOLEAN
    BY Zenon
  <2>2. pc \in [Threads -> Pcs] /\ runPc \in [Servers -> RunPcs]
    BY DEF Pcs, RunPcs
  <2>3. registered \subseteq created /\ created \subseteq Servers
    OBVIOUS
  <2>4. /\ server \in [Servers -> {"null", "running", "shutdown"}]
        /\ runThread \in [Servers -> {"null", "joinable", "joined"}]
        /\ ptr \in [Actors -> {"none", "valid", "dangling"}]
        /\ event \in [Threads -> {"none", "pending", "completed"}]
    BY Zenon
  <2>5. /\ starter \in [Servers -> Threads \cup {NoServer}]
        /\ startStatus \in [Threads -> {0, -1}]
        /\ srv \in [Threads -> Servers \cup {NoServer}]
        /\ result \in [Threads -> {0, -1}]
    OBVIOUS
  <2>6. /\ refcount \in Int
        /\ process \in {"up", "terminated", "aborted", "freed", "raced",
                        "crashed"}
    OBVIOUS
  <2> QED
    BY <2>1, <2>2, <2>3, <2>4, <2>5, <2>6, Zenon DEF TypeOK
<1>2. ThreadInv /\ RunInv /\ EarlyInv
  BY DEF ThreadInv, RunInv, Running, EarlyInv, Building, Notifying
<1>3. CallsInv /\ JoinInv
  BY DEF CallsInv, JoinInv, Serial
<1>4. StartingInv /\ ServingInv
  BY DEF StartingInv, ServingInv, Serial
<1>5. StatusInv /\ StartResultIsTrue
  BY DEF StatusInv, Building, Notifying, StartResultIsTrue, Serial
<1> QED
  BY <1>1, <1>2, <1>3, <1>4, <1>5 DEF IInv, ControlInv, SInv

\* The inductive invariants hold in every reachable state.
THEOREM Invariants == Spec => [](IInv /\ SInv)
<1>1. IInv /\ SInv /\ [Next]_vars => (IInv /\ SInv)'
  BY IInvStep, SInvStep
<1> QED
  BY <1>1, InitInv, PTL DEF Spec

\* The variables keep their types.
THEOREM TypeCorrect == Spec => []TypeOK
<1>1. IInv => TypeOK
  BY DEF IInv
<1> QED
  BY <1>1, Invariants, PTL

\* The run thread never touches a ServerStartEventData that Run has deleted
\* (grpc_server.cc:110, event_data.cc:321), however calls overlap.
THEOREM StartEventIsAlive == Spec => []StartEventAlive
<1>1. IInv => StartEventAlive
  BY DEF IInv, ControlInv, EarlyInv, Building, Notifying, StartEventAlive
<1> QED
  BY <1>1, Invariants, PTL

\* Without overlapping calls the server object outlives its run thread and
\* the std::thread is never destroyed while joinable (grpc_server.cc:253).
THEOREM RunThreadIsSafe == Spec => []ServerOutlivesRunThread
<1>1. IInv /\ SInv => ServerOutlivesRunThread
  BY DEF IInv, ControlInv, SInv, RunInv, JoinInv, Serial,
         ServerOutlivesRunThread, Referenced
<1> QED
  BY <1>1, Invariants, PTL

\* Without overlapping calls LVStartServer returns 0 exactly when its server
\* runs (grpc_server.cc:109-119).
THEOREM StartTellsTruth == Spec => []StartResultIsTrue
<1>1. SInv => StartResultIsTrue
  BY DEF SInv
<1> QED
  BY <1>1, Invariants, PTL
=============================================================================
