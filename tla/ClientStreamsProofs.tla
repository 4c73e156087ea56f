------------------------- MODULE ClientStreamsProofs -------------------------
(***************************************************************************)
(* Proofs about a streaming call of a client, for any number of messages   *)
(* and with and without occurrences and exceptions.                        *)
(*                                                                         *)
(* _response, _status and _writesComplete are shared without a lock.  What *)
(* orders the accesses are the steps of the loops: the reader starts a     *)
(* read only when the task of the last one is done, the owner reports only *)
(* what it, or the task it waited for, got from Finish.  The inductive     *)
(* invariant relates the steps of each pair to what they share.            *)
(***************************************************************************)
EXTENDS ClientStreams, TLAPS

\* The steps of the loops and tasks.
Steps == {"new", "insert", "register", "init", "create", "failed", "idle",
          "launch", "await", "complete", "wait", "waitRun", "unregister",
          "testWrites", "closeWrites", "finish", "status", "report", "erase",
          "tryCancel", "flag", "xTry", "xFlag", "ended", "stopped", "none",
          "clear", "read", "test", "signal", "done", "thrown"}
PcOK ==
    /\ pc \in [Roles -> Steps]
    /\ pc["owner"] \in
          {"new", "insert", "register", "init", "create", "failed", "idle",
           "launch", "await", "complete", "waitRun", "unregister", "testWrites",
           "closeWrites", "finish", "status", "report", "erase", "ended"}
    /\ pc["reader"] \in {"idle", "launch", "await", "complete", "wait", "stopped"}
    /\ pc["writer"] \in {"idle", "testWrites", "closeWrites", "stopped"}
    /\ pc["canceller"] \in
          {"idle", "unregister", "tryCancel", "flag", "erase", "ended"}
    /\ pc["closer"] \in {"idle", "xTry", "xFlag", "ended"}
    /\ pc["readTask"] \in {"none", "clear", "read", "test", "signal", "done"}
    /\ pc["runTask"] \in {"none", "testWrites", "closeWrites", "finish", "test",
                          "signal", "done", "thrown"}

\* Only streams with a reader are read from and finished by their owner; only a
\* client-streaming call is finished by a task.
KindInv ==
    /\ \/ pc["reader"] \notin {"idle", "stopped"}
       \/ pc["readTask"] # "none"
       \/ labview.over
       \/ pc["owner"] \in {"testWrites", "closeWrites", "finish", "status"}
       => IsReader
    /\ \/ pc["owner"] \in {"launch", "await", "complete", "waitRun"}
       \/ pc["runTask"] # "none"
       => ~IsReader

\* LabVIEW has the first messages of the stream, and received counts at most
\* one more: the one in _response, or one that an exception lost.
Delivered == Len(labview.delivered)
DeliveredInv ==
    /\ labview.delivered = [i \in 1..Delivered |-> i]
    /\ Delivered <= rpc.received

\* The reader and the task of its read take turns at _response.  Before Read
\* returns LabVIEW has all that was received; then the future says what there is.
StreamOver == rpc.end = "ERR" \/ (rpc.end = "OK" /\ rpc.received = rpc.sent)
ReadInv ==
    /\ pc["reader"] \in {"idle", "launch"} =>
          pc["readTask"] \in {"none", "done"} /\ rpc.received = Delivered
    /\ pc["reader"] \in {"await", "complete", "wait"} =>
          /\ pc["readTask"] # "none"
          /\ pc["readTask"] \in {"clear", "read"} => rpc.received = Delivered
          /\ pc["readTask"] \in {"test", "signal", "done"} =>
                /\ call.readFuture = "true" => /\ rpc.received = Delivered + 1
                                               /\ call.response = rpc.received
                /\ call.readFuture = "false" => rpc.received = Delivered /\ StreamOver

\* Once the reader was told that the stream is over, no message is missing.
OverInv ==
    labview.over => /\ pc["reader"] = "stopped"
                    /\ \/ rpc.end = "ERR"
                       \/ rpc.end = "OK" /\ Delivered = rpc.sent
                    /\ pc["readTask"] = "done"

\* _status is what the RPC ended with from Finish until it is reported; with
\* occurrences a client-streaming call is not completed before that.
StatusInv ==
    /\ pc["owner"] \in {"new", "insert", "register", "init", "create", "idle",
                        "launch"} => pc["runTask"] = "none"
    /\ pc["owner"] = "status" => call.status = rpc.end /\ rpc.end # "open"
    /\ pc["runTask"] \in {"test", "signal", "done"} =>
          call.status = rpc.end /\ rpc.end # "open"
    /\ /\ ~IsReader /\ UseOccurrence
       /\ labview.signalled \/ pc["owner"] \in {"complete", "waitRun"}
       => pc["runTask"] \in {"signal", "done"}
    /\ UseOccurrence /\ pc["owner"] = "waitRun" => call.status = "OK"

\* A stream that was half-closed has its flag; whoever is about to half-close a
\* stream of which that is not so has overlapped with somebody.
HalfCloseInv ==
    /\ call.writesComplete <=> rpc.halfCloses # 0
    /\ rpc.halfCloses = 2 => labview.crashed /\ labview.raced
    /\ \A r \in Roles : pc[r] = "closeWrites" /\ rpc.halfCloses # 0 => labview.raced
    /\ \A r, q \in Roles : pc[r] = "closeWrites" /\ pc[q] = "closeWrites" =>
          r = q \/ labview.raced

\* The inductive invariant.
IInv == /\ TypeOK /\ PcOK /\ KindInv
        /\ DeliveredInv /\ ReadInv /\ OverInv
        /\ StatusInv /\ StreamOkMeansOk
        /\ HalfCloseInv

----------------------------------------------------------------------------
(* The steps, by what they are part of. *)

BeginSteps == EnterBegin \/ InsertActive \/ RegisterCall \/ InitCall \/ CreateStream
ReadSteps == \/ BeginRead \/ LaunchRead \/ ClearResponse \/ ReadReturns
             \/ EnterCompleteRead \/ CompleteRead
SignalSteps == \/ \E t \in Tasks : SignalIfCancelled(t) \/ SignalIfActive(t)
               \/ \E r \in {"owner", "reader"} : OccurrenceFires(r)
Closers == {"writer", "owner", "runTask"}
WriteSteps == \/ Write \/ EnterWritesComplete
              \/ \E r \in Closers : TestWritesComplete(r) \/ CloseWrites(r)
ReportSteps == \/ CompleteClientStream \/ LaunchFinish \/ TestStatus
               \/ CopyFinalResponse \/ StreamStatus \/ ReportError
EndSteps == \E r \in {"owner", "canceller"} :
               EnterStreamEnd(r) \/ UnregisterCall(r) \/ EraseActive(r)
CancelSteps == \/ CancelContext \/ SetCancelled \/ ClientCancelCallContext
               \/ LockClient \/ CancelActive \/ ClearActive

\* Every step of the specification is one of these.
LEMMA NextSteps ==
  ASSUME Next
  PROVE  \/ BeginSteps \/ ReadSteps \/ SignalSteps \/ WriteSteps \/ ReportSteps
         \/ EndSteps \/ CancelSteps \/ ServerSends
         \/ FinishThrows \/ \E r \in Closers : Finish(r)
         \/ \E result \in {"OK", "ERR"} : RpcEnds(result)
<1>1. CASE CallApi
  BY <1>1 DEF CallApi, ReadSteps, WriteSteps, ReportSteps, EndSteps, CancelSteps
<1>2. ASSUME NEW r \in Roles, Continue(r)
      PROVE  \/ BeginSteps \/ ReadSteps \/ SignalSteps \/ WriteSteps
             \/ ReportSteps \/ EndSteps \/ CancelSteps
             \/ FinishThrows \/ \E q \in Closers : Finish(q)
  BY <1>2 DEF Continue, BeginSteps, ReadSteps, SignalSteps, WriteSteps,
              ReportSteps, EndSteps, CancelSteps, Closers
<1> QED
  BY <1>1, <1>2 DEF Next

----------------------------------------------------------------------------
(* Types *)

\* The initial states satisfy the invariant.
LEMMA InitIInv == Init => IInv
<1> SUFFICES ASSUME Init PROVE IInv
  OBVIOUS
<1> USE StreamAssumption DEF Init
<1>1. PcOK
  BY DEF PcOK, Steps, Roles, Loops, Tasks
<1>2. TypeOK
  <2>1. call \in CallState
    <3>1. 0 \in 0..MaxMessages
      OBVIOUS
    <3> QED
      BY <3>1, Zenon DEF CallState
  <2>2. rpc \in RpcState /\ rpc.received <= rpc.sent
    BY DEF RpcState
  <2>3. labview \in LabVIEWState
    BY DEF LabVIEWState
  <2> QED
    BY <1>1, <2>1, <2>2, <2>3 DEF TypeOK, PcOK
<1>3. KindInv /\ DeliveredInv /\ ReadInv /\ OverInv
  BY <1>1 DEF KindInv, DeliveredInv, Delivered, ReadInv, OverInv, PcOK, Roles,
              Loops, Tasks
<1>4. StatusInv /\ StreamOkMeansOk
  BY <1>1 DEF StatusInv, StreamOkMeansOk, PcOK, Roles, Loops, Tasks
<1>5. HalfCloseInv
  <2>1. \A r \in Roles : pc[r] # "closeWrites"
    OBVIOUS
  <2>2. call.writesComplete = FALSE /\ rpc.halfCloses = 0
    OBVIOUS
  <2> QED
    BY <2>1, <2>2 DEF HalfCloseInv
<1> QED
  BY <1>1, <1>2, <1>3, <1>4, <1>5 DEF IInv

\* The call and what LabVIEW has seen keep their types; a message that LabVIEW
\* gets is one of the stream.
LEMMA CallType ==
  ASSUME TypeOK, ReadInv, Next
  PROVE  /\ call' \in CallState /\ labview' \in LabVIEWState
         /\ DOMAIN pc' = Roles
<1> USE DEF TypeOK, CallState, LabVIEWState, Goto
<1>1. CASE BeginSteps
  BY <1>1 DEF BeginSteps, EnterBegin, InsertActive, RegisterCall,
              InitCall, CreateStream
<1>2. CASE ReadSteps
  <2>1. CASE BeginRead
    BY <2>1, StreamAssumption DEF BeginRead
  <2>4. CASE LaunchRead \/ EnterCompleteRead
    BY <2>4 DEF LaunchRead, EnterCompleteRead
  <2>5. CASE ClearResponse
    <3>1. 0 \in 0..MaxMessages
      BY StreamAssumption
    <3> QED
      BY <2>5, <3>1 DEF ClearResponse
  <2>2. CASE ReadReturns
    <3>1. rpc.received + 1 <= rpc.sent => rpc.received + 1 \in 0..MaxMessages
      BY StreamAssumption DEF RpcState
    <3> QED
      BY <2>2, <3>1 DEF ReadReturns
  <2>3. CASE CompleteRead
    <3>1. CASE UNCHANGED labview \/ labview' = [labview EXCEPT !.over = TRUE]
      BY <2>3, <3>1 DEF CompleteRead
    <3>2. CASE /\ call.readFuture = "true"
               /\ labview' = [labview EXCEPT !.delivered = Append(@, call.response)]
      <4>1. call.response = Len(labview.delivered) + 1
        BY <2>3, <3>2 DEF CompleteRead, At, ReadInv, Delivered
      <4>2. call.response \in 1..MaxMessages
        BY <4>1, StreamAssumption
      <4>3. Append(labview.delivered, call.response) \in Seq(1..MaxMessages)
        BY <4>2
      <4> QED
        BY <2>3, <3>2, <4>3 DEF CompleteRead
    <3> QED
      BY <2>3, <3>1, <3>2 DEF CompleteRead
  <2> QED
    BY <1>2, <2>1, <2>2, <2>3, <2>4, <2>5 DEF ReadSteps
<1>3. CASE SignalSteps
  BY <1>3 DEF SignalSteps, SignalIfCancelled, SignalIfActive,
              OccurrenceFires
<1>4. CASE WriteSteps
  BY <1>4 DEF WriteSteps, Write,
              EnterWritesComplete, TestWritesComplete, CloseWrites
<1>5. CASE ReportSteps
  BY <1>5 DEF ReportSteps, CompleteClientStream, LaunchFinish,
              TestStatus, CopyFinalResponse, StreamStatus, ReportError
<1>6. CASE EndSteps
  BY <1>6 DEF EndSteps, EnterStreamEnd, UnregisterCall, EraseActive
<1>7. CASE CancelSteps
  BY <1>7 DEF CancelSteps, CancelContext, SetCancelled,
              ClientCancelCallContext, LockClient, CancelActive, ClearActive
<1>8. CASE FinishThrows \/ \E r \in Closers : Finish(r)
  <2>1. rpc.end = "ERR" \/ rpc.end = "OK" => rpc.end \in {"OK", "ERR"}
    OBVIOUS
  <2>2. 1 \in 0..MaxMessages
    BY StreamAssumption
  <2> QED
    BY <1>8, <2>1, <2>2 DEF FinishThrows, Finish, Finished
<1>9. CASE ServerSends \/ \E result \in {"OK", "ERR"} : RpcEnds(result)
  BY <1>9 DEF ServerSends, RpcEnds
<1> QED
  BY <1>1, <1>2, <1>3, <1>4, <1>5, <1>6, <1>7, <1>8, <1>9, NextSteps

\* So does the stream: it is not half-closed a third time, because gRPC has
\* aborted the process.
LEMMA RpcType ==
  ASSUME TypeOK, HalfCloseInv, Next
  PROVE  rpc' \in RpcState /\ rpc'.received <= rpc'.sent
<1> USE StreamAssumption DEF TypeOK, RpcState
<1>1. CASE BeginSteps
  BY <1>1 DEF BeginSteps, EnterBegin, InsertActive, RegisterCall,
              InitCall, CreateStream
<1>2. CASE ReadSteps
  BY <1>2 DEF ReadSteps, BeginRead, LaunchRead, ClearResponse,
              ReadReturns, EnterCompleteRead, CompleteRead
<1>3. CASE SignalSteps
  BY <1>3 DEF SignalSteps, SignalIfCancelled, SignalIfActive,
              OccurrenceFires
<1>4. CASE WriteSteps
  <2>1. CASE UNCHANGED rpc
    BY <2>1
  <2>2. ASSUME NEW r \in Closers, CloseWrites(r)
        PROVE  rpc' \in RpcState /\ rpc'.received <= rpc'.sent
    <3>1. rpc.halfCloses \in 0..1
      BY <2>2 DEF CloseWrites, At, HalfCloseInv
    <3> QED
      BY <2>2, <3>1 DEF CloseWrites
  <2> QED
    BY <1>4, <2>1, <2>2
       DEF WriteSteps, Write, EnterWritesComplete, TestWritesComplete
<1>5. CASE ReportSteps
  BY <1>5 DEF ReportSteps, CompleteClientStream, LaunchFinish,
              TestStatus, CopyFinalResponse, StreamStatus, ReportError
<1>6. CASE EndSteps
  BY <1>6 DEF EndSteps, EnterStreamEnd, UnregisterCall, EraseActive
<1>7. CASE CancelSteps
  BY <1>7 DEF CancelSteps, CancelContext, SetCancelled,
              ClientCancelCallContext, LockClient, CancelActive, ClearActive
<1>8. CASE FinishThrows \/ \E r \in Closers : Finish(r)
  <2>1. CASE FinishThrows
    BY <2>1 DEF FinishThrows
  <2>2. CASE \E r \in Closers : Finish(r)
    BY <2>2 DEF Finish
  <2> QED
    BY <1>8, <2>1, <2>2
<1>9. CASE ServerSends \/ \E result \in {"OK", "ERR"} : RpcEnds(result)
  BY <1>9 DEF ServerSends, RpcEnds
<1> QED
  BY <1>1, <1>2, <1>3, <1>4, <1>5, <1>6, <1>7, <1>8, <1>9, NextSteps

\* Every loop and task stays at its own steps.
LEMMA PcStep ==
  ASSUME TypeOK, PcOK, Next
  PROVE  PcOK'
<1> USE DEF PcOK, Steps, Roles, Loops, Tasks, At, Goto
<1>1. CASE BeginSteps
  BY <1>1 DEF BeginSteps, EnterBegin, InsertActive, RegisterCall,
              InitCall, CreateStream
<1>2. CASE ReadSteps
  BY <1>2 DEF ReadSteps, BeginRead, LaunchRead, ClearResponse,
              ReadReturns, EnterCompleteRead, CompleteRead
<1>3. CASE SignalSteps
  BY <1>3 DEF SignalSteps, SignalIfCancelled, SignalIfActive,
              OccurrenceFires
<1>4. CASE WriteSteps
  BY <1>4 DEF WriteSteps, Closers, AfterWrites, Write,
              EnterWritesComplete, TestWritesComplete, CloseWrites
<1>5. CASE ReportSteps
  BY <1>5 DEF ReportSteps, CompleteClientStream, LaunchFinish,
              TestStatus, CopyFinalResponse, StreamStatus, ReportError
<1>6. CASE EndSteps
  <2> PICK r \in {"owner", "canceller"} :
             EnterStreamEnd(r) \/ UnregisterCall(r) \/ EraseActive(r)
    BY <1>6 DEF EndSteps
  <2>1. CASE EnterStreamEnd(r)
    BY <2>1 DEF EnterStreamEnd
  <2>2. CASE UnregisterCall(r)
    <3>1. call.kind \in {"client", "server", "bidi"}
      BY DEF TypeOK, CallState
    <3>2. CASE r = "canceller"
      BY <2>2, <3>2 DEF UnregisterCall
    <3>3. CASE r = "owner" /\ call.kind = "client"
      BY <2>2, <3>3 DEF UnregisterCall
    <3>4. CASE r = "owner" /\ call.kind = "bidi"
      BY <2>2, <3>4 DEF UnregisterCall
    <3>5. CASE r = "owner" /\ call.kind = "server"
      BY <2>2, <3>5 DEF UnregisterCall
    <3> QED
      BY <3>1, <3>2, <3>3, <3>4, <3>5
  <2>3. CASE EraseActive(r)
    BY <2>3 DEF EraseActive
  <2> QED
    BY <2>1, <2>2, <2>3
<1>7. CASE CancelSteps
  BY <1>7 DEF CancelSteps, CancelContext, SetCancelled,
              ClientCancelCallContext, LockClient, CancelActive, ClearActive
<1>8. CASE FinishThrows \/ \E r \in Closers : Finish(r)
  <2>1. CASE FinishThrows
    BY <2>1 DEF FinishThrows
  <2>2. CASE \E r \in Closers : Finish(r)
    BY <2>2 DEF Finish, Closers
  <2> QED
    BY <1>8, <2>1, <2>2
<1>9. CASE ServerSends \/ \E result \in {"OK", "ERR"} : RpcEnds(result)
  BY <1>9 DEF ServerSends, RpcEnds
<1> QED
  BY <1>1, <1>2, <1>3, <1>4, <1>5, <1>6, <1>7, <1>8, <1>9, NextSteps

\* The kind of a call never changes, and decides which of its loops and tasks
\* run.
LEMMA KindStep ==
  ASSUME TypeOK, PcOK, KindInv, ReadInv, Next
  PROVE  call'.kind = call.kind /\ KindInv'
<1> USE DEF TypeOK, CallState, LabVIEWState, PcOK, KindInv, IsReader, Roles,
            Loops, Tasks, At, Goto
<1>1. CASE BeginSteps
  BY <1>1 DEF BeginSteps, EnterBegin, InsertActive, RegisterCall,
              InitCall, CreateStream
<1>2. CASE ReadSteps
  <2>1. CASE BeginRead
    BY <2>1 DEF BeginRead
  <2>2. CASE LaunchRead \/ ClearResponse \/ EnterCompleteRead
    BY <2>2 DEF LaunchRead, ClearResponse, EnterCompleteRead
  <2>3. CASE ReadReturns
    BY <2>3 DEF ReadReturns
  <2>4. CASE CompleteRead
    BY <2>4 DEF CompleteRead
  <2> QED
    BY <1>2, <2>1, <2>2, <2>3, <2>4 DEF ReadSteps
<1>3. CASE SignalSteps
  BY <1>3 DEF SignalSteps, SignalIfCancelled, SignalIfActive,
              OccurrenceFires
<1>4. CASE WriteSteps
  BY <1>4 DEF WriteSteps, Closers, AfterWrites, Write,
              EnterWritesComplete, TestWritesComplete, CloseWrites, IsWriter
<1>5. CASE ReportSteps
  BY <1>5 DEF ReportSteps, CompleteClientStream, LaunchFinish,
              TestStatus, CopyFinalResponse, StreamStatus, ReportError
<1>6. CASE EndSteps
  BY <1>6 DEF EndSteps, EnterStreamEnd, UnregisterCall, EraseActive
<1>7. CASE CancelSteps
  <2>1. CASE CancelContext \/ SetCancelled \/ ClientCancelCallContext
    BY <2>1 DEF CancelContext, SetCancelled, ClientCancelCallContext
  <2>2. CASE LockClient
    BY <2>2 DEF LockClient
  <2>3. CASE CancelActive
    BY <2>3 DEF CancelActive
  <2>4. CASE ClearActive
    BY <2>4 DEF ClearActive
  <2> QED
    BY <1>7, <2>1, <2>2, <2>3, <2>4 DEF CancelSteps
<1>8. CASE FinishThrows \/ \E r \in Closers : Finish(r)
  <2>1. CASE FinishThrows
    BY <2>1 DEF FinishThrows
  <2>2. CASE \E r \in Closers : Finish(r)
    BY <2>2 DEF Finish, Closers
  <2> QED
    BY <1>8, <2>1, <2>2
<1>9. CASE ServerSends \/ \E result \in {"OK", "ERR"} : RpcEnds(result)
  BY <1>9 DEF ServerSends, RpcEnds
<1> QED
  BY <1>1, <1>2, <1>3, <1>4, <1>5, <1>6, <1>7, <1>8, <1>9, NextSteps
----------------------------------------------------------------------------
(* Reads *)

\* What the reader and the task of its read share, and what LabVIEW got.
readVars == <<pc["reader"], pc["readTask"], call.kind, call.readFuture,
              call.response, rpc.sent, rpc.received, rpc.end,
              labview.delivered, labview.over>>

\* Beginning, writing, reporting, cancelling and closing have no part in it.
LEMMA ReadFrame ==
  ASSUME TypeOK, PcOK,
         BeginSteps \/ WriteSteps \/ ReportSteps \/ EndSteps \/ CancelSteps
  PROVE  UNCHANGED readVars
<1> USE DEF TypeOK, CallState, RpcState, LabVIEWState, PcOK, Roles, Loops,
            Tasks, Goto, At, readVars
<1>1. CASE BeginSteps
  BY <1>1 DEF BeginSteps, EnterBegin, InsertActive, RegisterCall,
              InitCall, CreateStream
<1>2. CASE WriteSteps
  BY <1>2 DEF WriteSteps, Closers, Write,
              EnterWritesComplete, TestWritesComplete, CloseWrites
<1>3. CASE ReportSteps
  BY <1>3 DEF ReportSteps, CompleteClientStream, LaunchFinish,
              TestStatus, CopyFinalResponse, StreamStatus, ReportError
<1>4. CASE EndSteps
  BY <1>4 DEF EndSteps, EnterStreamEnd, UnregisterCall, EraseActive
<1>5. CASE CancelSteps
  <2>1. CASE CancelContext \/ SetCancelled \/ ClientCancelCallContext
    BY <2>1 DEF CancelContext, SetCancelled, ClientCancelCallContext
  <2>2. CASE LockClient \/ CancelActive
    BY <2>2 DEF LockClient, CancelActive
  <2>3. CASE ClearActive
    BY <2>3 DEF ClearActive
  <2> QED
    BY <1>5, <2>1, <2>2, <2>3 DEF CancelSteps
<1> QED
  BY <1>1, <1>2, <1>3, <1>4, <1>5

\* A read hands over the message after those that LabVIEW has, or none.
LEMMA ReadStep ==
  ASSUME TypeOK, PcOK, KindInv, DeliveredInv, ReadInv, OverInv, Next
  PROVE  DeliveredInv' /\ ReadInv' /\ OverInv'
<1> USE DEF TypeOK, CallState, RpcState, LabVIEWState, PcOK, KindInv,
            DeliveredInv, Delivered, ReadInv, OverInv, StreamOver, IsReader,
            Roles, Loops, Tasks, At, Goto
<1>1. CASE BeginSteps \/ WriteSteps \/ ReportSteps \/ EndSteps \/ CancelSteps
  <2>1. UNCHANGED readVars
    BY <1>1, ReadFrame
  <2> QED
    BY <2>1 DEF readVars
<1>2. CASE BeginRead
  <2>1. UNCHANGED <<rpc, labview.delivered, labview.over, pc["readTask"]>>
    BY <1>2 DEF BeginRead
  <2>2. pc'["reader"] \in {"launch", "stopped"} /\ pc["reader"] = "idle"
    BY <1>2 DEF BeginRead
  <2> QED
    BY <2>1, <2>2
<1>3. CASE LaunchRead
  BY <1>3 DEF LaunchRead
<1>4. CASE ClearResponse
  BY <1>4 DEF ClearResponse
<1>5. CASE ReadReturns
  <2>1. /\ UNCHANGED <<labview, rpc.sent, rpc.end, pc["reader"]>>
        /\ pc["readTask"] = "read" /\ pc'["readTask"] \in {"test", "done"}
    BY <1>5 DEF ReadReturns
  <2>2. \/ /\ rpc'.received = rpc.received + 1 /\ call'.readFuture = "true"
           /\ call'.response = rpc.received + 1
        \/ rpc'.received = rpc.received + 1 /\ call'.readFuture = "thrown"
        \/ /\ UNCHANGED rpc /\ call'.readFuture = "false"
           /\ StreamOver
    <3> DEFINE n == rpc.received + 1
    <3>1. CASE /\ rpc' = [rpc EXCEPT !.received = n]
               /\ call' = [call EXCEPT !.response = n, !.readFuture = "true"]
      BY <3>1
    <3>2. CASE /\ rpc' = [rpc EXCEPT !.received = n]
               /\ call' = [call EXCEPT !.readFuture = "thrown"]
      BY <3>2
    <3>3. CASE /\ rpc.end = "ERR" \/ (rpc.end = "OK" /\ n > rpc.sent)
               /\ call' = [call EXCEPT !.readFuture = "false"]
               /\ UNCHANGED rpc
      BY <3>3
    <3> QED
      BY <1>5, <3>1, <3>2, <3>3 DEF ReadReturns
  <2> QED
    BY <2>1, <2>2
<1>6. CASE SignalSteps
  <2>1. ASSUME NEW t \in Tasks, SignalIfCancelled(t)
        PROVE  DeliveredInv' /\ ReadInv' /\ OverInv'
    BY <2>1 DEF SignalIfCancelled
  <2>2. ASSUME NEW t \in Tasks, SignalIfActive(t)
        PROVE  DeliveredInv' /\ ReadInv' /\ OverInv'
    BY <2>2 DEF SignalIfActive
  <2>3. ASSUME NEW r \in {"owner", "reader"}, OccurrenceFires(r)
        PROVE  DeliveredInv' /\ ReadInv' /\ OverInv'
    BY <2>3 DEF OccurrenceFires
  <2> QED
    BY <1>6, <2>1, <2>2, <2>3 DEF SignalSteps
<1>7. CASE EnterCompleteRead
  BY <1>7 DEF EnterCompleteRead
<1>8. CASE CompleteRead
  <2>1. /\ UNCHANGED <<rpc, pc["readTask"]>>
        /\ pc["reader"] = "wait" /\ pc["readTask"] = "done"
    BY <1>8 DEF CompleteRead
  <2>2. CASE UNCHANGED labview.delivered
    BY <1>8, <2>1, <2>2 DEF CompleteRead
  <2>3. CASE /\ call.readFuture = "true"
             /\ labview' = [labview EXCEPT !.delivered = Append(@, call.response)]
             /\ pc'["reader"] = "idle"
    <3>1. call.response = Len(labview.delivered) + 1
      BY <2>1, <2>3
    <3>2. labview'.delivered = [i \in 1..Len(labview'.delivered) |-> i]
      BY <2>3, <3>1
    <3>3. Len(labview'.delivered) = Len(labview.delivered) + 1
      BY <2>3
    <3>4. labview'.over = labview.over
      BY <2>3
    <3> QED
      BY <2>1, <2>3, <3>1, <3>2, <3>3, <3>4
  <2> QED
    BY <1>8, <2>2, <2>3 DEF CompleteRead
<1>9. CASE FinishThrows \/ \E r \in Closers : Finish(r)
  <2>1. CASE FinishThrows
    BY <2>1 DEF FinishThrows
  <2>2. CASE \E r \in Closers : Finish(r)
    BY <2>2 DEF Finish, Finished, Closers
  <2> QED
    BY <1>9, <2>1, <2>2
<1>10. CASE ServerSends
  BY <1>10 DEF ServerSends
<1>11. CASE \E result \in {"OK", "ERR"} : RpcEnds(result)
  BY <1>11 DEF RpcEnds
<1> QED
  BY <1>1, <1>2, <1>3, <1>4, <1>5, <1>6, <1>7, <1>8, <1>9, <1>10, <1>11,
     NextSteps DEF ReadSteps
----------------------------------------------------------------------------
(* The status *)

\* _status is assigned by the one who finishes the stream, and nobody reports
\* it before.
LEMMA StatusStep ==
  ASSUME TypeOK, PcOK, KindInv, StatusInv, StreamOkMeansOk, Next
  PROVE  StatusInv' /\ StreamOkMeansOk'
<1> USE DEF TypeOK, CallState, RpcState, LabVIEWState, PcOK, KindInv, StatusInv,
            StreamOkMeansOk, IsReader, Roles, Loops, Tasks, At, Goto
<1>1. CASE BeginSteps
  BY <1>1 DEF BeginSteps, EnterBegin, InsertActive, RegisterCall,
              InitCall, CreateStream
<1>2. CASE ReadSteps
  <2>1. CASE BeginRead
    BY <2>1 DEF BeginRead
  <2>2. CASE LaunchRead \/ ClearResponse \/ EnterCompleteRead
    BY <2>2 DEF LaunchRead, ClearResponse, EnterCompleteRead
  <2>3. CASE ReadReturns
    <3>1. /\ UNCHANGED <<call.kind, call.status, rpc.end, labview>>
          /\ UNCHANGED <<pc["owner"], pc["runTask"]>>
      BY <2>3 DEF ReadReturns
    <3> QED
      BY <3>1
  <2>4. CASE CompleteRead
    BY <2>4 DEF CompleteRead
  <2> QED
    BY <1>2, <2>1, <2>2, <2>3, <2>4 DEF ReadSteps
<1>3. CASE SignalSteps
  <2>1. ASSUME NEW t \in Tasks, SignalIfCancelled(t) \/ SignalIfActive(t)
        PROVE  StatusInv' /\ StreamOkMeansOk'
    BY <2>1 DEF SignalIfCancelled, SignalIfActive
  <2>2. ASSUME NEW r \in {"owner", "reader"}, OccurrenceFires(r)
        PROVE  StatusInv' /\ StreamOkMeansOk'
    BY <2>2 DEF OccurrenceFires
  <2> QED
    BY <1>3, <2>1, <2>2 DEF SignalSteps
<1>4. CASE WriteSteps
  BY <1>4 DEF WriteSteps, Closers, AfterWrites, Write,
              EnterWritesComplete, TestWritesComplete, CloseWrites
<1>5. CASE ReportSteps
  <2>1. CASE CompleteClientStream
    BY <2>1 DEF CompleteClientStream
  <2>2. CASE LaunchFinish
    BY <2>2 DEF LaunchFinish
  <2>3. CASE TestStatus
    BY <2>3 DEF TestStatus
  <2>4. CASE CopyFinalResponse
    BY <2>4 DEF CopyFinalResponse
  <2>5. CASE StreamStatus
    BY <2>5 DEF StreamStatus
  <2>6. CASE ReportError
    BY <2>6 DEF ReportError
  <2> QED
    BY <1>5, <2>1, <2>2, <2>3, <2>4, <2>5, <2>6 DEF ReportSteps
<1>6. CASE EndSteps
  BY <1>6 DEF EndSteps, EnterStreamEnd, UnregisterCall, EraseActive
<1>7. CASE CancelSteps
  <2>1. CASE CancelContext \/ SetCancelled \/ ClientCancelCallContext
    BY <2>1 DEF CancelContext, SetCancelled, ClientCancelCallContext
  <2>2. CASE LockClient \/ CancelActive
    BY <2>2 DEF LockClient, CancelActive
  <2>3. CASE ClearActive
    BY <2>3 DEF ClearActive
  <2> QED
    BY <1>7, <2>1, <2>2, <2>3 DEF CancelSteps
<1>8. CASE FinishThrows \/ \E r \in Closers : Finish(r)
  <2>1. CASE FinishThrows
    BY <2>1 DEF FinishThrows
  <2>2. CASE \E r \in Closers : Finish(r)
    BY <2>2 DEF Finish, Finished, Closers
  <2> QED
    BY <1>8, <2>1, <2>2
<1>9. CASE ServerSends
  BY <1>9 DEF ServerSends
<1>10. CASE \E result \in {"OK", "ERR"} : RpcEnds(result)
  BY <1>10 DEF RpcEnds
<1> QED
  BY <1>1, <1>2, <1>3, <1>4, <1>5, <1>6, <1>7, <1>8, <1>9, <1>10, NextSteps

----------------------------------------------------------------------------
(* Half-closing *)

\* Nobody but WritesComplete half-closes a stream or gets to where it does.
LEMMA HalfCloseFrame ==
  ASSUME TypeOK, PcOK,
         \/ BeginSteps \/ ReadSteps \/ SignalSteps \/ ReportSteps \/ EndSteps
         \/ CancelSteps \/ ServerSends
         \/ FinishThrows \/ \E r \in Closers : Finish(r)
         \/ \E result \in {"OK", "ERR"} : RpcEnds(result)
  PROVE  /\ UNCHANGED <<call.writesComplete, rpc.halfCloses, labview.raced>>
         /\ labview.crashed => labview'.crashed
         /\ \A r \in Roles : pc'[r] = "closeWrites" => pc[r] = "closeWrites"
<1> USE DEF TypeOK, CallState, RpcState, LabVIEWState, PcOK, Roles, Loops,
            Tasks, At, Goto
<1>1. CASE BeginSteps
  BY <1>1 DEF BeginSteps, EnterBegin, InsertActive, RegisterCall,
              InitCall, CreateStream
<1>2. CASE ReadSteps
  <2>1. CASE BeginRead
    BY <2>1 DEF BeginRead
  <2>2. CASE LaunchRead \/ ClearResponse \/ EnterCompleteRead
    BY <2>2 DEF LaunchRead, ClearResponse, EnterCompleteRead
  <2>3. CASE ReadReturns
    BY <2>3 DEF ReadReturns
  <2>4. CASE CompleteRead
    BY <2>4 DEF CompleteRead
  <2> QED
    BY <1>2, <2>1, <2>2, <2>3, <2>4 DEF ReadSteps
<1>3. CASE SignalSteps
  BY <1>3 DEF SignalSteps, SignalIfCancelled, SignalIfActive,
              OccurrenceFires
<1>4. CASE ReportSteps
  <2>1. CASE CompleteClientStream
    BY <2>1 DEF CompleteClientStream
  <2>2. CASE LaunchFinish
    BY <2>2 DEF LaunchFinish
  <2>3. CASE TestStatus
    BY <2>3 DEF TestStatus
  <2>4. CASE CopyFinalResponse
    BY <2>4 DEF CopyFinalResponse
  <2>5. CASE StreamStatus
    BY <2>5 DEF StreamStatus
  <2>6. CASE ReportError
    BY <2>6 DEF ReportError
  <2> QED
    BY <1>4, <2>1, <2>2, <2>3, <2>4, <2>5, <2>6 DEF ReportSteps
<1>5. CASE EndSteps
  BY <1>5 DEF EndSteps, EnterStreamEnd, UnregisterCall, EraseActive
<1>6. CASE CancelSteps
  <2>1. CASE CancelContext \/ SetCancelled \/ ClientCancelCallContext
    BY <2>1 DEF CancelContext, SetCancelled, ClientCancelCallContext
  <2>2. CASE LockClient \/ CancelActive
    BY <2>2 DEF LockClient, CancelActive
  <2>3. CASE ClearActive
    BY <2>3 DEF ClearActive
  <2> QED
    BY <1>6, <2>1, <2>2, <2>3 DEF CancelSteps
<1>7. CASE FinishThrows \/ \E r \in Closers : Finish(r)
  <2>1. CASE FinishThrows
    BY <2>1 DEF FinishThrows
  <2>2. CASE \E r \in Closers : Finish(r)
    BY <2>2 DEF Finish, Closers
  <2> QED
    BY <1>7, <2>1, <2>2
<1>8. CASE ServerSends \/ \E result \in {"OK", "ERR"} : RpcEnds(result)
  BY <1>8 DEF ServerSends, RpcEnds
<1> QED
  BY <1>1, <1>2, <1>3, <1>4, <1>5, <1>6, <1>7, <1>8

\* A second half-close needs a second role between the test and the setting of
\* _writesComplete, and the test of that role noticed.
LEMMA HalfCloseStep ==
  ASSUME TypeOK, PcOK, HalfCloseInv, Next
  PROVE  HalfCloseInv'
<1> USE DEF HalfCloseInv
<1>1. CASE \/ BeginSteps \/ ReadSteps \/ SignalSteps \/ ReportSteps \/ EndSteps
           \/ CancelSteps \/ ServerSends
           \/ FinishThrows \/ \E r \in Closers : Finish(r)
           \/ \E result \in {"OK", "ERR"} : RpcEnds(result)
  BY <1>1, HalfCloseFrame
<1>2. CASE WriteSteps
  <2> USE DEF TypeOK, CallState, RpcState, LabVIEWState, PcOK, At, Goto,
              AfterWrites
  <2>1. CASE Write \/ EnterWritesComplete
    BY <2>1 DEF Write, EnterWritesComplete
  <2>2. ASSUME NEW r \in Closers, TestWritesComplete(r)
        PROVE  HalfCloseInv'
    <3>1. r \in Roles
      BY DEF Closers, Roles, Loops, Tasks
    <3>2. CASE call.writesComplete
      BY <2>2, <3>1, <3>2 DEF TestWritesComplete
    <3>3. CASE ~call.writesComplete
      <4>1. /\ labview'.raced = (labview.raced
                                    \/ \E q \in Roles : pc[q] = "closeWrites")
            /\ pc' = [pc EXCEPT ![r] = "closeWrites"]
            /\ UNCHANGED <<call, rpc, labview.crashed>>
        BY <2>2, <3>3 DEF TestWritesComplete
      <4>2. rpc'.halfCloses = 0
        BY <3>3, <4>1
      <4>3. \A q \in Roles : pc'[q] = "closeWrites" => q = r \/ labview'.raced
        BY <3>1, <4>1
      <4> HIDE DEF TypeOK, PcOK
      <4> QED
        BY <3>3, <4>1, <4>2, <4>3
    <3> QED
      BY <3>2, <3>3
  <2>3. ASSUME NEW r \in Closers, CloseWrites(r)
        PROVE  HalfCloseInv'
    <3>1. r \in Roles
      BY DEF Closers, Roles, Loops, Tasks
    <3> QED
      BY <2>3, <3>1 DEF CloseWrites
  <2> QED
    BY <1>2, <2>1, <2>2, <2>3 DEF WriteSteps
<1> HIDE DEF HalfCloseInv
<1> QED
  BY <1>1, <1>2, NextSteps

----------------------------------------------------------------------------
(* The theorems *)

\* The invariant is inductive.
LEMMA NextIInv == IInv /\ [Next]_vars => IInv'
<1> SUFFICES ASSUME IInv, [Next]_vars PROVE IInv'
  OBVIOUS
<1>1. CASE Next
  <2>1. TypeOK'
    BY <1>1, CallType, RpcType DEF IInv, TypeOK
  <2> QED
    BY <1>1, <2>1, PcStep, KindStep, ReadStep, StatusStep, HalfCloseStep DEF IInv
<1>2. CASE UNCHANGED vars
  BY <1>2 DEF vars, IInv, TypeOK, PcOK, KindInv, DeliveredInv, Delivered,
              ReadInv, StreamOver, OverInv, StatusInv, StreamOkMeansOk,
              HalfCloseInv, IsReader
<1> QED
  BY <1>1, <1>2

\* The invariant holds in every reachable state.
LEMMA SpecIInv == Spec => []IInv
  BY InitIInv, NextIInv, PTL DEF Spec

\* The variables of a streaming call keep their types, for any number of
\* messages; in particular no message number is out of range and the stream is
\* half-closed at most twice.
THEOREM TypeCorrect == Spec => []TypeOK
<1>1. IInv => TypeOK
  BY DEF IInv
<1> QED
  BY <1>1, SpecIInv, PTL

\* The messages of a stream reach LabVIEW in order, none twice and none torn,
\* and all of them when the stream is over and was completed with OK
\* (grpc_client.cc:697), for streams of any length.
THEOREM StreamAlwaysDelivered == Spec => []StreamIsDelivered
<1>1. IInv => StreamIsDelivered
  <2> SUFFICES ASSUME IInv PROVE StreamIsDelivered
    OBVIOUS
  <2>1. /\ Len(labview.delivered) \in Nat
        /\ DOMAIN labview.delivered = 1..Len(labview.delivered)
    BY DEF IInv, TypeOK, LabVIEWState
  <2>2. Len(labview.delivered) <= rpc.sent
    BY <2>1 DEF IInv, TypeOK, RpcState, DeliveredInv, Delivered
  <2>3. labview.over /\ labview.reported = "OK" => Len(labview.delivered) = rpc.sent
    BY DEF IInv, OverInv, Delivered, KindInv, StreamOkMeansOk
  <2> QED
    BY <2>1, <2>2, <2>3 DEF IInv, DeliveredInv, Delivered, StreamIsDelivered
<1> QED
  BY <1>1, SpecIInv, PTL

\* A completed stream is reported as OK only if the RPC ended with OK, whatever
\* cancels or closes meanwhile (grpc_client.cc:791 is why occurrences matter for
\* a client stream).
THEOREM StreamReportsTheTruth == Spec => []StreamOkMeansOk
<1>1. IInv => StreamOkMeansOk
  BY DEF IInv
<1> QED
  BY <1>1, SpecIInv, PTL

\* gRPC aborts the process over a second half-close only if two calls of
\* WritesComplete overlapped (grpc_client.cc:148 and :180).
THEOREM HalfClosedTwiceOnlyByRace == Spec => []HalfClosedOnce
<1>1. IInv => HalfClosedOnce
  BY DEF IInv, HalfCloseInv, HalfClosedOnce
<1> QED
  BY <1>1, SpecIInv, PTL
=============================================================================
