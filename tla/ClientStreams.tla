---------------------------- MODULE ClientStreams ----------------------------
(***************************************************************************)
(* A streaming call of a LabVIEWgRPCClient (grpc_client.cc): a LabVIEW     *)
(* loop that owns the call, one that reads from the stream, one that       *)
(* writes to it, one that cancels the call and one that closes the client, *)
(* all concurrent, and the two std::async tasks of the call: the task of   *)
(* the read in progress and the one that finishes a client-streaming call. *)
(*                                                                         *)
(* _response is shared by the read task and the reader, _occurrence by the *)
(* tasks and the API functions that start them, _writesComplete by the     *)
(* writer and whoever finishes the call, none of them under a lock.        *)
(***************************************************************************)
EXTENDS Naturals, Sequences

CONSTANTS MaxMessages,   \* bound: messages the server sends
          UseOccurrence, \* the useOccurrence feature toggle
          CopyThrows     \* whether conversions of clusters and strings may throw

ASSUME StreamAssumption == /\ MaxMessages \in Nat \ {0}
                           /\ UseOccurrence \in BOOLEAN
                           /\ CopyThrows \in BOOLEAN

VARIABLES call,     \* the ClientCall, its map entries and the client
          rpc,      \* the stream, as gRPC and the server have it
          labview,  \* what LabVIEW has seen
          pc        \* the step of each LabVIEW loop and of each task

vars == <<call, rpc, labview, pc>>

CallState == [kind : {"client", "server", "bidi"},
              registered : BOOLEAN,      \* the call is in gPointerManager
              active : BOOLEAN,          \* ... and in ActiveClientCalls
              client : BOOLEAN,          \* the client is in gPointerManager
              hasContext : BOOLEAN,      \* _context is set
              cancelled : BOOLEAN,       \* _cancelled
              occurrence : BOOLEAN,      \* _occurrence # 0
              writesComplete : BOOLEAN,  \* _writesComplete
              status : {"OK", "ERR"},    \* _status.ok()
              response : 0..MaxMessages, \* _response: 0 when clear
              readFuture : {"none", "running", "true", "false", "thrown"}]

RpcState == [sent : 0..MaxMessages, received : 0..MaxMessages,
             end : {"open", "OK", "ERR"},
             tryCancel : BOOLEAN,        \* TryCancel was called
             halfCloses : 0..2]          \* calls of WritesDone

LabVIEWState == [signalled : BOOLEAN,    \* the occurrence is set
                 delivered : Seq(1..MaxMessages),
                 over : BOOLEAN,         \* a read returned "no more messages"
                 reported : {"none", "OK", "ERR"},
                 raced : BOOLEAN,        \* two WritesComplete overlapped
                 crashed : BOOLEAN]      \* the process is gone

Loops == {"owner", "reader", "writer", "canceller", "closer"}
Tasks == {"readTask", "runTask"}
Roles == Loops \cup Tasks

TypeOK == /\ call \in CallState /\ rpc \in RpcState /\ labview \in LabVIEWState
          /\ rpc.received <= rpc.sent
          /\ DOMAIN pc = Roles

Goto(r, l) == pc' = [pc EXCEPT ![r] = l]
At(r, l)   == pc[r] = l /\ ~labview.crashed

\* clientLock is held: only CloseClient keeps it for more than one step.
ClientLocked == pc["closer"] \in {"xTry", "xFlag"}

IsReader == call.kind \in {"server", "bidi"}  \* CastTo<StreamReader> succeeds
IsWriter == call.kind \in {"client", "bidi"}  \* CastTo<StreamWriter> succeeds

\* LabVIEW has the id of a call that was begun.
Opened == /\ ~labview.crashed
          /\ pc["owner"] \notin {"new", "insert", "register", "init", "create",
                                 "failed"}

----------------------------------------------------------------------------
(* ClientBeginClientStreamingCall, -ServerStreamingCall, -BidiStreamingCall *)

\* CastTo, the metadata, the context; a client that is gone gives -1.
EnterBegin ==
    /\ At("owner", "new")
    /\ Goto("owner", IF call.client THEN "insert" ELSE "failed")
    /\ UNCHANGED <<call, rpc, labview>>

\* ActiveClientCalls[clientCall] = true under clientLock.
InsertActive ==
    /\ At("owner", "insert") /\ ~ClientLocked
    /\ call' = [call EXCEPT !.active = TRUE]
    /\ Goto("owner", "register")
    /\ UNCHANGED <<rpc, labview>>

RegisterCall ==
    /\ At("owner", "register")
    /\ call' = [call EXCEPT !.registered = TRUE]
    /\ Goto("owner", "init")
    /\ UNCHANGED <<rpc, labview>>

\* _client, _request, _response and _context are set.
InitCall ==
    /\ At("owner", "init")
    /\ call' = [call EXCEPT !.hasContext = TRUE]
    /\ Goto("owner", "create")
    /\ UNCHANGED <<rpc, labview>>

\* The request of a server-streaming call is copied, which may throw and then
\* leaves the call registered and active; the gRPC stream is created.
CreateStream ==
    /\ At("owner", "create")
    /\ \/ Goto("owner", "idle")
       \/ call.kind = "server" /\ CopyThrows /\ Goto("owner", "failed")
    /\ UNCHANGED <<call, rpc, labview>>

----------------------------------------------------------------------------
(* ClientBeginReadFromStream *)

\* Mutant: _occurrence is not set.
BeginRead_NoOccurrence ==
    /\ At("reader", "idle") /\ Opened /\ IsReader /\ call.registered
    /\ Goto("reader", "launch")
    /\ UNCHANGED <<call, rpc, labview>>

\* CastTo StreamReader and ClientCall: for an id that is gone, the occurrence
\* of the caller is signalled and -1 returned.  Otherwise _occurrence is set.
BeginRead ==
    /\ At("reader", "idle") /\ Opened /\ IsReader
    /\ IF call.registered
       THEN /\ call' = [call EXCEPT !.occurrence = UseOccurrence]
            /\ Goto("reader", "launch")
            /\ UNCHANGED labview
       ELSE /\ labview' = [labview EXCEPT !.signalled = @ \/ UseOccurrence]
            /\ Goto("reader", "stopped")
            /\ UNCHANGED call
    /\ UNCHANGED rpc

\* std::async starts the task; LabVIEW waits for its occurrence or goes on to
\* ClientCompleteReadFromStream.
LaunchRead ==
    /\ At("reader", "launch")
    /\ call' = [call EXCEPT !.readFuture = "running"]
    /\ pc' = [pc EXCEPT !["reader"] = IF UseOccurrence THEN "await"
                                      ELSE "complete",
                        !["readTask"] = "clear"]
    /\ UNCHANGED <<rpc, labview>>

\* Task: _response->Clear().
ClearResponse ==
    /\ At("readTask", "clear")
    /\ call' = [call EXCEPT !.response = 0]
    /\ Goto("readTask", "read")
    /\ UNCHANGED <<rpc, labview>>

\* Task: Read returns.  The next message is parsed into _response, or the
\* stream is over.  Parsing text that is not UTF-8 throws, out of the task.
ReadReturns ==
    LET n == rpc.received + 1 IN
    /\ At("readTask", "read")
    /\ \/ /\ n <= rpc.sent
          /\ rpc' = [rpc EXCEPT !.received = n]
          /\ call' = [call EXCEPT !.response = n, !.readFuture = "true"]
          /\ Goto("readTask", "test")
       \/ /\ n <= rpc.sent /\ CopyThrows
          /\ rpc' = [rpc EXCEPT !.received = n]
          /\ call' = [call EXCEPT !.readFuture = "thrown"]
          /\ Goto("readTask", "done")
       \/ /\ rpc.end = "ERR" \/ (rpc.end = "OK" /\ n > rpc.sent)
          /\ call' = [call EXCEPT !.readFuture = "false"]
          /\ Goto("readTask", "test")
          /\ UNCHANGED rpc
    /\ UNCHANGED labview

\* Either task: if (_occurrence != 0), and in
\* CheckActiveAndSignalOccurenceForClientCall the test of _cancelled.
SignalIfCancelled(t) ==
    /\ At(t, "test")
    /\ labview' = [labview EXCEPT !.signalled =
                      @ \/ (call.occurrence /\ call.cancelled)]
    /\ Goto(t, IF call.occurrence THEN "signal" ELSE "done")
    /\ UNCHANGED <<call, rpc>>

\* ... and the lookup in ActiveClientCalls under clientLock.
SignalIfActive(t) ==
    /\ At(t, "signal") /\ ~ClientLocked
    /\ labview' = [labview EXCEPT !.signalled = @ \/ call.active]
    /\ Goto(t, "done")
    /\ UNCHANGED <<call, rpc>>

\* A LabVIEW loop that waits for its occurrence is woken.
OccurrenceFires(r) ==
    /\ At(r, "await") /\ labview.signalled
    /\ labview' = [labview EXCEPT !.signalled = FALSE]
    /\ Goto(r, "complete")
    /\ UNCHANGED <<call, rpc>>

----------------------------------------------------------------------------
(* ClientCompleteReadFromStream *)

\* CastTo: -1 for a call that was completed or cancelled meanwhile.
EnterCompleteRead ==
    /\ At("reader", "complete")
    /\ Goto("reader", IF call.registered THEN "wait" ELSE "stopped")
    /\ UNCHANGED <<call, rpc, labview>>

\* Mutant: the response is copied although nothing was read.
CompleteRead_IgnoresResult ==
    /\ At("reader", "wait") /\ pc["readTask"] = "done"
    /\ labview' = [labview EXCEPT !.delivered = Append(@, call.response)]
    /\ Goto("reader", "stopped")
    /\ UNCHANGED <<call, rpc>>

\* _readFuture.wait() and get(), which rethrows; on success CopyToCluster.
\* LabVIEW reads again after a message, and stops at the end or at an error.
CompleteRead ==
    /\ At("reader", "wait") /\ pc["readTask"] = "done"
    /\ call' = [call EXCEPT !.readFuture = "none"]
    /\ \/ /\ call.readFuture = "true"
          /\ labview' = [labview EXCEPT !.delivered = Append(@, call.response)]
          /\ Goto("reader", "idle")
       \/ /\ \/ call.readFuture = "thrown"
             \/ call.readFuture = "true" /\ CopyThrows
          /\ Goto("reader", "stopped")
          /\ UNCHANGED labview
       \/ /\ call.readFuture = "false"
          /\ labview' = [labview EXCEPT !.over = TRUE]
          /\ Goto("reader", "stopped")
    /\ UNCHANGED rpc

----------------------------------------------------------------------------
(* ClientWriteToStream and ClientWritesComplete *)

\* CastTo StreamWriter and ClientCall, CopyFromCluster into _request, Write:
\* an unknown id, a failed conversion and a Write that fails end the loop.
\* What the server does with the requests is left open.
Write ==
    /\ At("writer", "idle") /\ Opened /\ IsWriter
    /\ \/ call.registered /\ rpc.end = "open" /\ UNCHANGED pc
       \/ /\ ~call.registered \/ rpc.end # "open" \/ rpc.tryCancel \/ CopyThrows
          /\ Goto("writer", "stopped")
    /\ UNCHANGED <<call, rpc, labview>>

EnterWritesComplete ==
    /\ At("writer", "idle") /\ Opened /\ IsWriter
    /\ Goto("writer", IF call.registered THEN "testWrites" ELSE "stopped")
    /\ UNCHANGED <<call, rpc, labview>>

\* Where WritesComplete returns to: the writer's loop ends, Finish goes on.
AfterWrites(r) == IF r = "writer" THEN "stopped" ELSE "finish"

\* WritesComplete: if (!_writesComplete) ...
TestWritesComplete(r) ==
    LET first == ~call.writesComplete IN
    /\ At(r, "testWrites")
    /\ Goto(r, IF first THEN "closeWrites" ELSE AfterWrites(r))
    /\ labview' = [labview EXCEPT !.raced =
                      @ \/ (first /\ \E q \in Roles : pc[q] = "closeWrites")]
    /\ UNCHANGED <<call, rpc>>

\* Mutant: the flag is not set.
CloseWrites_NoFlag(r) ==
    /\ At(r, "closeWrites")
    /\ rpc' = [rpc EXCEPT !.halfCloses = @ + 1]
    /\ Goto(r, AfterWrites(r))
    /\ UNCHANGED <<call, labview>>

\* ... _writesComplete = true and WritesDone().  gRPC aborts the process when
\* a stream is half-closed twice.
CloseWrites(r) ==
    /\ At(r, "closeWrites")
    /\ call' = [call EXCEPT !.writesComplete = TRUE]
    /\ rpc' = [rpc EXCEPT !.halfCloses = @ + 1]
    /\ labview' = [labview EXCEPT !.crashed = rpc.halfCloses = 1]
    /\ Goto(r, AfterWrites(r))

----------------------------------------------------------------------------
(* Finish, and the functions that complete a call *)

\* gRPC's Finish returns once the RPC ended and, if it ended well, all its
\* messages were received.
Finished == \/ rpc.end = "ERR"
            \/ rpc.end = "OK" /\ (IsReader => rpc.received = rpc.sent)

\* Mutant: what the stream's Finish returns is dropped.
Finish_DropsStatus(r) ==
    /\ At(r, "finish") /\ Finished
    /\ Goto(r, IF r = "runTask" THEN "test" ELSE "status")
    /\ UNCHANGED <<call, rpc, labview>>

\* The Finish of the call classes: _status = stream->Finish(); the one of a
\* client-streaming call fills _response.
Finish(r) ==
    /\ At(r, "finish") /\ Finished
    /\ call' = [call EXCEPT !.status = rpc.end,
                            !.response = IF IsReader \/ rpc.end = "ERR" THEN @
                                         ELSE 1]
    /\ Goto(r, IF r = "runTask" THEN "test" ELSE "status")
    /\ UNCHANGED <<rpc, labview>>

\* Parsing the response of a client-streaming call throws inside Finish: the
\* task ends without assigning _status and without signalling.
FinishThrows ==
    /\ At("runTask", "finish") /\ Finished /\ CopyThrows
    /\ Goto("runTask", "thrown")
    /\ UNCHANGED <<call, rpc, labview>>

\* ClientCompleteClientStreamingCall: CastTo, _occurrence is set.
CompleteClientStream ==
    /\ At("owner", "idle") /\ ~IsReader
    /\ call' = [call EXCEPT !.occurrence = @ \/ (call.registered /\ UseOccurrence)]
    /\ Goto("owner", IF call.registered THEN "launch" ELSE "ended")
    /\ UNCHANGED <<rpc, labview>>

\* ... std::async starts the task that runs Finish.
LaunchFinish ==
    /\ At("owner", "launch")
    /\ pc' = [pc EXCEPT !["owner"] = IF UseOccurrence THEN "await"
                                     ELSE "complete",
                        !["runTask"] = "testWrites"]
    /\ UNCHANGED <<call, rpc, labview>>

\* FinishClientCompleteClientStreamingCall: CastTo; _status is tested.
TestStatus ==
    /\ At("owner", "complete")
    /\ Goto("owner", IF ~call.registered THEN "ended"
                     ELSE IF call.status = "OK" THEN "waitRun" ELSE "report")
    /\ UNCHANGED <<call, rpc, labview>>

\* ... _runFuture.wait(), which does not rethrow, CopyToCluster; a failed copy
\* leaves the call as it is.
CopyFinalResponse ==
    /\ At("owner", "waitRun") /\ pc["runTask"] \in {"done", "thrown"}
    /\ \/ /\ labview' = [labview EXCEPT !.reported = "OK"]
          /\ Goto("owner", "erase")
       \/ /\ CopyThrows
          /\ Goto("owner", "ended")
          /\ UNCHANGED labview
    /\ UNCHANGED <<call, rpc>>

\* ClientCompleteStreamingCall and ClientCancelCall: CastTo.
EnterStreamEnd(r) ==
    /\ At(r, "idle") /\ Opened
    /\ r = "canceller" \/ IsReader
    /\ Goto(r, IF call.registered THEN "unregister" ELSE "ended")
    /\ UNCHANGED <<call, rpc, labview>>

\* UnregisterPointer: the first thing when a stream is ended or cancelled, the
\* last thing when a client-streaming call is completed.
UnregisterCall(r) ==
    /\ At(r, "unregister")
    /\ call' = [call EXCEPT !.registered = FALSE]
    /\ Goto(r, IF r = "canceller" THEN "tryCancel"
               ELSE CASE call.kind = "client" -> "ended"
                      [] call.kind = "bidi"   -> "testWrites"
                      [] call.kind = "server" -> "finish")
    /\ UNCHANGED <<rpc, labview>>

\* ClientCompleteStreamingCall turns _status into its result.
StreamStatus ==
    /\ At("owner", "status")
    /\ IF call.status = "OK"
       THEN /\ labview' = [labview EXCEPT !.reported = "OK"]
            /\ Goto("owner", "erase")
       ELSE Goto("owner", "report") /\ UNCHANGED labview
    /\ UNCHANGED <<call, rpc>>

\* A status that is not OK is returned; its message may fail to convert, and
\* then the call is not erased.
ReportError ==
    /\ At("owner", "report")
    /\ labview' = [labview EXCEPT !.reported = "ERR"]
    /\ Goto("owner", "erase") \/ (CopyThrows /\ Goto("owner", "ended"))
    /\ UNCHANGED <<call, rpc>>

\* Erase the call from ActiveClientCalls under clientLock.
EraseActive(r) ==
    /\ At(r, "erase") /\ ~ClientLocked
    /\ call' = [call EXCEPT !.active = FALSE]
    /\ Goto(r, IF r = "owner" /\ ~IsReader THEN "unregister" ELSE "ended")
    /\ UNCHANGED <<rpc, labview>>

----------------------------------------------------------------------------
(* ClientCancelCall, ClientCancelCallContext and CloseClient *)

\* ClientCall::Cancel, first statement: _context->Cancel().
CancelContext ==
    /\ At("canceller", "tryCancel")
    /\ rpc' = [rpc EXCEPT !.tryCancel = TRUE]
    /\ Goto("canceller", "flag")
    /\ UNCHANGED <<call, labview>>

\* Second statement.  ClientCancelCall then returns what _status holds, whose
\* message may fail to convert.
SetCancelled ==
    /\ At("canceller", "flag")
    /\ call' = [call EXCEPT !.cancelled = TRUE]
    /\ \/ Goto("canceller", "erase")
       \/ call.status = "ERR" /\ CopyThrows /\ Goto("canceller", "ended")
    /\ UNCHANGED <<rpc, labview>>

\* On a context LabVIEW passed to the call.
ClientCancelCallContext ==
    /\ call.hasContext /\ ~rpc.tryCancel /\ ~labview.crashed
    /\ rpc' = [rpc EXCEPT !.tryCancel = TRUE]
    /\ UNCHANGED <<call, labview, pc>>

\* CloseClient: CastTo, take clientLock.
LockClient ==
    /\ At("closer", "idle") /\ call.client
    /\ Goto("closer", "xTry")
    /\ UNCHANGED <<call, rpc, labview>>

\* Cancel the active call, first statement: its _context may not be set yet.
CancelActive ==
    /\ At("closer", "xTry") /\ call.active
    /\ rpc' = [rpc EXCEPT !.tryCancel = @ \/ call.hasContext]
    /\ labview' = [labview EXCEPT !.crashed = ~call.hasContext]
    /\ Goto("closer", "xFlag")
    /\ UNCHANGED call

\* ... second statement; ActiveClientCalls.clear(), unlock, UnregisterPointer,
\* which only a ClientBegin... that has not looked the client up can notice.
ClearActive ==
    /\ At("closer", "xFlag") \/ (At("closer", "xTry") /\ ~call.active)
    /\ call' = [call EXCEPT !.cancelled = @ \/ call.active, !.active = FALSE,
                            !.client = FALSE]
    /\ Goto("closer", "ended")
    /\ UNCHANGED <<rpc, labview>>

----------------------------------------------------------------------------
(* gRPC and the server *)

ServerSends ==
    /\ Opened /\ IsReader /\ rpc.end = "open" /\ rpc.sent < MaxMessages
    /\ rpc' = [rpc EXCEPT !.sent = @ + 1]
    /\ UNCHANGED <<call, labview, pc>>

\* The server ends the RPC, the deadline passes or the connection is lost; a
\* cancellation may overtake a status that Finish has not returned yet.
RpcEnds(result) ==
    /\ Opened
    /\ \/ rpc.end = "open"
       \/ /\ rpc.end = "OK" /\ result = "ERR" /\ rpc.tryCancel
          /\ pc["runTask"] \notin {"test", "signal", "done", "thrown"}
          /\ pc["owner"] \in {"idle", "launch", "await", "complete", "waitRun",
                              "unregister", "testWrites", "closeWrites", "finish"}
          /\ labview.reported = "none"
    /\ rpc' = [rpc EXCEPT !.end = result]
    /\ UNCHANGED <<call, labview, pc>>

----------------------------------------------------------------------------
\* CreateClient2 has registered the client.
Init ==
    /\ call \in [kind : {"client", "server", "bidi"}, registered : {FALSE},
                 active : {FALSE}, client : {TRUE}, hasContext : {FALSE},
                 cancelled : {FALSE}, occurrence : {FALSE},
                 writesComplete : {FALSE}, status : {"OK"}, response : {0},
                 readFuture : {"none"}]
    /\ rpc = [sent |-> 0, received |-> 0, end |-> "open", tryCancel |-> FALSE,
              halfCloses |-> 0]
    /\ labview = [signalled |-> FALSE, delivered |-> <<>>, over |-> FALSE,
                  reported |-> "none", raced |-> FALSE, crashed |-> FALSE]
    /\ pc = [r \in Roles |-> CASE r = "owner" -> "new"
                               [] r \in Tasks -> "none"
                               [] OTHER -> "idle"]

\* The calls LabVIEW may make or not.
CallApi == \/ BeginRead \/ Write \/ EnterWritesComplete \/ CompleteClientStream
           \/ \E r \in {"owner", "canceller"} : EnterStreamEnd(r)
           \/ ClientCancelCallContext \/ LockClient

\* The steps of a loop or a task that is inside an operation or was woken.
Continue(r) ==
    \/ /\ r = "owner"
       /\ \/ EnterBegin \/ InsertActive \/ RegisterCall \/ InitCall
          \/ CreateStream \/ LaunchFinish \/ TestStatus \/ CopyFinalResponse
          \/ StreamStatus \/ ReportError
    \/ r = "reader" /\ (LaunchRead \/ EnterCompleteRead \/ CompleteRead)
    \/ r = "readTask" /\ (ClearResponse \/ ReadReturns)
    \/ r = "runTask" /\ FinishThrows
    \/ r = "canceller" /\ (CancelContext \/ SetCancelled)
    \/ r = "closer" /\ (CancelActive \/ ClearActive)
    \/ r \in Tasks /\ (SignalIfCancelled(r) \/ SignalIfActive(r))
    \/ r \in {"owner", "reader"} /\ OccurrenceFires(r)
    \/ r \in {"writer", "owner", "runTask"}
          /\ (TestWritesComplete(r) \/ CloseWrites(r) \/ Finish(r))
    \/ r \in {"owner", "canceller"} /\ (UnregisterCall(r) \/ EraseActive(r))

Next ==
    \/ CallApi
    \/ \E r \in Roles : Continue(r)
    \/ ServerSends
    \/ \E result \in {"OK", "ERR"} : RpcEnds(result)

Spec == Init /\ [][Next]_vars

\* Loops inside an operation and tasks keep running, and an RPC whose context
\* was cancelled ends.  LabVIEW and the server may do nothing.
FairSpec ==
    /\ Spec
    /\ \A r \in Roles : WF_vars(Continue(r))
    /\ WF_vars(rpc.tryCancel /\ RpcEnds("ERR"))

----------------------------------------------------------------------------
(* Properties *)

\* The messages LabVIEW gets from ClientCompleteReadFromStream are those the
\* server sent, in order and none twice or torn (_response is refilled by the
\* next task, grpc_client.cc:697), and a reader that was told the stream is
\* over of a call completed with OK has got them all, however the reads
\* interleave with writes, completion, cancellation and CloseClient.
StreamIsDelivered ==
    LET delivered == labview.delivered IN
    /\ delivered = [i \in DOMAIN delivered |-> i]
    /\ Len(delivered) <= rpc.sent
    /\ labview.over /\ labview.reported = "OK" => Len(delivered) = rpc.sent

\* Completing a call returns OK only when the RPC ended with OK: always for a
\* server or bidi stream, for a client stream once the occurrence was waited
\* for (grpc_client.cc:791 tests _status before it waits for the task).
StreamOkMeansOk ==
    labview.reported = "OK" /\ (IsReader \/ UseOccurrence) => rpc.end = "OK"

\* A stream is half-closed twice, which aborts the process, only when
\* ClientWritesComplete and the completion of the call overlap between the
\* test and the setting of _writesComplete (grpc_client.cc:148 and :180).
HalfClosedOnce == rpc.halfCloses = 2 => labview.raced

\* A loop that waits for the occurrence of its read or of its completion is
\* woken once Read or Finish has returned, unless the call was cancelled, the
\* client closed or the call completed meanwhile (grpc_client.cc:699 and :845).
\* A Read or a Finish that an exception leaves does not return, and its waiter
\* sleeps on.
WaiterWakes ==
    \A w \in {<<"reader", "readTask">>, <<"owner", "runTask">>} :
        (pc[w[1]] = "await" /\ pc[w[2]] \in {"test", "signal", "done"}
             /\ ~(w[2] = "readTask" /\ call.readFuture = "thrown"))
            ~> (pc[w[1]] # "await" \/ call.cancelled \/ ~call.active
                    \/ labview.crashed)
=============================================================================
