# Verification of grpc-labview

`grpc-labview` lets LabVIEW programs act as gRPC servers and clients. A shared
library (`src/src/*.cc`) exports C functions that LabVIEW's execution threads
call; behind them the library runs its own threads and the gRPC C++ library.
This directory holds TLA+ models of the library's concurrent core and of the way
messages take between a LabVIEW cluster and the wire, TLC configurations that
check them, and TLAPS proofs.

Paths below are relative to the repository (`src/event_data.cc` is the file
`event_data.cc` of the C++ sources).

## 1. The system

| component | state it keeps | operations | who runs them |
|---|---|---|---|
| Server call lifecycle (`event_data.cc`, `grpc_server.h`) | per RPC a `CallData`: `_status`, `_callStatus`, `_callFinishedTag`, three mutexes; four kinds of tags in the completion queue | `Create`, `Proceed`, `FinishFromLabVIEW`, `FinishFromCompletionQueue`, `ReadNext`, `Write` | run thread and LabVIEW threads |
| Server (`grpc_server.cc`) | `_server`, `_cq`, `_runThread`, registered methods, generic event, the process-wide proto descriptor | `Run`, `HandleRpcs`, `StopServer`, `RegisterEvent`, `SendEvent` | LabVIEW threads, run thread |
| LabVIEW server API (`grpc_interop.cc`) | none of its own | `GetRequestData`, `SetResponseData`, `CloseServerEvent`, `SetCallStatus`, `LVStartServer`, `LVStopServer`, registration of messages, enums and methods | LabVIEW threads, cleanup procs |
| Client and unary calls (`grpc_client.cc`) | per client `ActiveClientCalls` and `clientLock`; per call `_status`, `_context`, `_cancelled`, `_runFuture`, `_occurrence` | `CreateClient`, `ClientUnaryCall2`, `CompleteClientUnaryCall2`, `ClientCancelCall`, `ClientCancelCallContext`, `CloseClient` | LabVIEW threads; one `std::async` task per call |
| Streaming calls (`grpc_client.cc`) | readers, writers, `_readFuture`, `_writesComplete` | `ClientBegin...`, `ClientBeginReadFromStream`, `ClientCompleteReadFromStream`, `ClientWriteToStream`, `ClientWritesComplete`, the completions | LabVIEW threads and tasks |
| Pointer manager (`pointer_manager.h`) | map from address to `shared_ptr` under one mutex | `RegisterPointer`, `TryCastTo`, `UnregisterPointer` | everybody |
| Metadata and layout (`message_metadata.cc`, `message_element_metadata_owner.cc`, `lv_interop.cc`) | registered messages and enums, cluster offsets | registration, `FinalizeMetadata`, layout | LabVIEW threads |
| Messages (`lv_message*.cc`, `cluster_copier.cc`) | field values | parse, serialise, copy to and from clusters | whoever holds the message |
| Any support (`any_support.cc`, `unpacked_fields.cc`) | sessions, builders | pack, unpack, build | LabVIEW threads |
| Reflection, well-known messages, feature toggles, proto parser | small | queries | gRPC threads, LabVIEW threads |

**Interaction.** LabVIEW holds *ids*, which are addresses. Every exported
function turns its id into a `shared_ptr` with `CastTo` and works on the object
while other threads may unregister it. A server RPC is a chain of events: the
run thread takes a tag from the completion queue and calls its `Proceed`, which
creates the next `CallData`, registers the call and posts a LabVIEW user event;
LabVIEW threads then read, write and close the call with operations whose
completion comes back through the queue and a semaphore. A client call runs in a
task that signals a LabVIEW occurrence; other threads complete it, cancel it or
close the client meanwhile. A message starts as a LabVIEW cluster, which
`CopyFromCluster` turns into an `LVMessage` by the registered metadata; gRPC
serialises it; the receiver parses the slices of a `ByteBuffer` into an
`LVMessage` object that is reused by every read of a stream, and `CopyToCluster`
writes it into a cluster that LabVIEW may have used before. Where each element
lies in a cluster was computed by `FinalizeMetadata` from what the proto parser
told LabVIEW's code generator.

**What is hard.** Ownership spread over tags, map and stacks; the id being
published before the state says so; tags that are deleted although gRPC knows
them; shutdown while threads are blocked; raw pointers in `ActiveClientCalls`;
cancelling in two steps; exceptions that leave a function half way; address
reuse; message objects and clusters that are used again; sizes that are computed
in one pass and used in another; peers that encode the same message differently;
two threads that lay out the same messages without a lock. `PROJECT.json` lists
each hazard with its line and the properties that watch it.

## 2. The modules

| module | models | notes |
|---|---|---|
| `RpcService` | what a server promises of its RPCs, without threads, tags and queue | abstract specification |
| `ServerCalls` | the RPCs of a running server and its shutdown | three kinds of threads and the gRPC library as environment; implements `RpcService` |
| `ServerCallsProofs` | theorems about `ServerCalls`: tags, waiting threads, open RPCs, operations and their calls, leaks and the refinement of `RpcService` | inductive invariant over the tags of a call |
| `ServerLifecycle` | creating, starting and stopping servers, the descriptor singleton | `overlapped` records the servers on which calls have overlapped |
| `ServerLifecycleProofs` | theorems about `ServerLifecycle` | |
| `ClientCalls` | unary calls of one client | `useOccurrence`, the feature toggle, is a variable that is chosen at the start; conversions and the task may always throw |
| `ClientCallsProofs` | theorems about `ClientCalls` | |
| `ClientStreams` | a streaming call of each kind | a loop per role in LabVIEW, the read task and the finish task |
| `ClientStreamsProofs` | theorems about `ClientStreams` | |
| `PointerManager` | `gPointerManager` with an allocator that reuses addresses | |
| `PointerManagerProofs` | theorems about `PointerManager` | |
| `MessageMetadata` | proto parser, metadata registration and cluster layout | the recursion of the layout is an explicit stack, so two threads interleave |
| `MessageMetadataProofs` | theorems about `MessageMetadata` | |
| `WireFormat` | varints, tags and limited reads of the protobuf library | integer widths are the constants `W32` and `W64` |
| `FieldFormat` | how the values of each type travel: predicted size, bytes written, what is read | |
| `Nesting` | a computation over something that has parts of its own kind | messages in messages, clusters in clusters; `MaxNesting` bounds the depth |
| `LVMessageValue` | the value classes and the methods of `LVMessage` that go down into nested messages: sizes, caches, bytes | |
| `LVMessage` | parsing and serialising a message | |
| `ClusterCopier` | copies between clusters and messages, enum maps, 2D arrays, strings | |
| `MessageExchange` | exchanges over a reused stream, `Any`, the Any builder and unpacked fields | composes the modules above |
| `MessageExchangeProofs` | theorems about numbers, packed lists, the size of a message, `CopyFromCluster` and the exchange | |
| `ByteStream` | what `ZeroCopyInputStream` promises | abstract specification |
| `MultiSliceInputStream` | the stream over the slices of a `ByteBuffer` | implements `ByteStream` |
| `MultiSliceInputStreamProofs` | theorems about it, the refinement included | |
| `MC*` | model values, symmetry, metadata, clusters and `.proto` files for TLC | |

Operators whose name continues the name of a definition after an underscore
(`FinishFromLabVIEW_NoTest`) are mutants: the definition with one plausible bug.
No specification uses them; replacing the original by one must make TLC find
the property violated that `PROJECT.json` names with it.

### ServerCalls

`Calls` are identities of `CallData` objects; an object that no `shared_ptr`
reaches (`~Alive`) is gone and its identity may be used by `Create` again.
`ops` are the operations the queue has accepted, `queue` the completed ones,
`cur` the event the run thread handles. `Proceed` is cut into steps where
another thread can see a difference: `ProceedConnection` takes `_stateMutex`,
`SpawnNext` creates the next call, `Publish` registers the call and posts the
event, `Connect` sets the state. `FinishFromLabVIEW` and
`FinishFromCompletionQueue` hold the mutex throughout and are one step each.
`ReadNext` and `Write` are `CheckActive` (with `_readMutex` or `_writeMutex`, but
not `_stateMutex`), `SubmitIo`, the wait, and `EndIo`. `GetRequestData`,
`SetResponseData`, `CloseServerEvent`, `SetCallStatus` are `BeginIo`,
`BeginClose`, `SetCallStatus`: each begins with `CastTo`, after which the thread
has a `shared_ptr` and the call may be finished and closed by others.
`SetCallStatusError` then stores into `_callStatus` without a mutex, also into a
call that is over, and `ReturnStatus` lets the pointer go. `StopServer` is
`StopShutdown`, `StopCq`, `StopJoin`; one thread calls it here, so `Shutdown` and
`Wait` of the gRPC server are one step (calls of it that overlap are in
`ServerLifecycle`). `_callStatus` is an atomic value in the model; the code stores
a string, and a store that races with `Finish` is undefined there.

The library is modelled from how the code uses it (marked external in
`PROJECT.json`): requests complete or, after a shutdown, fail; reads and writes
of a closed RPC fail; the Done operation begins when the run thread takes the
connection event and completes when the RPC is over; `IsCancelled()` becomes
true only when the Done tag is taken from the queue; an operation begun on a
queue that is shut down and has nothing outstanding aborts the process
(`aborted`).

`RpcService` says what all of this is for: a call listens, accepts an RPC, is
replaced by the next one that listens, is told to LabVIEW and opens; it ends once,
with at most one answer, which is what LabVIEW last set; its id is closed when it
is over and not before, and only then is the object used again. LabVIEW may still
decide on the answer of a call that is over, closed or not, which changes nothing
any more. Its phases are
computed from the state of `ServerCalls` (`PhaseOf`): nothing alive is free; a call
that waits for its connection listens until an RPC has reached it, has accepted
then, and is connecting once Proceed has created the next call; Connected is open,
and Finishing and Finished are over. `ImplementsRpcService` instantiates it so.

### ServerLifecycle

`LVStartServer` is `Enter`, `SpawnRunThread`, `WaitForComplete`, `ReadResult`,
`JoinFailed` and `ReturnFromStart`; the run thread of a server (named by the
server) makes the reflection plugin, builds the gRPC server or fails, and
notifies in three steps (`SetCompleted`, `NotifyAll`, `Unlock`) because the
waiting thread deletes the event it is notified through. After a failure the run
thread has still to return (`RunThreadExits`) when its caller is already awake,
which is what the join of a failed start is for. From there
`ServerCalls` says what the run thread does; here it serves (`loop`) until the
queue is shut down. `LVStopServer` and the cleanup proc are `Enter`, `StopServer`
statement by statement (`StopTestServer`, `StopShutdown`, `StopWait`, `StopCq`,
`StopTest`, `StopJoin`, `StopClear`), the two steps of
`getInstance()->deleteInstance()` and `UnregisterServer`. `_server` and
`_runThread` have no lock, and everything that two overlapping stops can do to each
other between these statements is in the model, `UseNullServer` and `JoinTwice`
included. `process` says how the process ended, if it did: a joinable
`std::thread` was destroyed or assigned over (`terminated`), a `RequestCall` met
a closed queue (`aborted`), a freed descriptor instance was used (`freed`), a
thread was joined twice (`raced`), `_server` was dereferenced after another stop had
cleared it (`crashed`); undefined behaviour is taken as the end.
`FinalizeMetadata` at the start of `Run` and the contents of the descriptor are
left out.

### ClientCalls

A LabVIEW thread runs `ClientUnaryCall2` (`insert` to `copyFrom`), then waits
for the occurrence if it uses one, then `CompleteClientUnaryCall2`
(`cUnregister` to `drop`). Others run `ClientCancelCall` (`kUnregister` to
`drop`) and `CloseClient` (`xLock` to `xUnregister`). `clientLock` is held over
several steps only by `CloseClient`. `DropCall` is the end of an API function's
`shared_ptr`: the last one destroys the call, which waits for the task because
`~future` of `std::async` does. `fault` is the end of the process by a null or
dangling pointer in `CloseClient`. Exceptions are part of the model: a conversion
that throws leaves the API function at once (`Throw`), so that the erasure from
`ActiveClientCalls` is skipped; parsing a response that throws inside
`BlockingUnaryCall` ends the task (`RpcThrows`), which then neither assigns
`_status`, OK since the call was made, nor signals; `_runFuture.wait()` does not
rethrow it. `escaped` (the calls an exception dropped before their erasure) and
`result` are histories.

### PointerManager

`heap` says which object lives at an address, `_registeredPointers` is the map,
`held` the `shared_ptr` a thread got from `TryCastTo`, and `ids` what LabVIEW
was ever given. Every method holds the one mutex and is a step.

### ClientStreams

The owner begins the call (`EnterBegin` to `CreateStream`) and completes it:
`ClientCompleteStreamingCall` is `EnterStreamEnd`, `UnregisterCall`, `Finish`,
`StreamStatus`, `EraseActive`; a client-streaming call starts a task
(`CompleteClientStream`, `LaunchFinish`) and is finished by `TestStatus`,
`CopyFinalResponse` and the erasure. The reader alternates
`ClientBeginReadFromStream` (`BeginRead`, `LaunchRead`) and
`ClientCompleteReadFromStream`; the read task is `ClearResponse`, `ReadReturns`
and the two steps of `CheckActiveAndSignalOccurenceForClientCall`. The writer
writes and half-closes, the canceller and the closer run `ClientCancelCall` and
`CloseClient`. The response of a client stream is parsed inside `Finish`, and an
exception there ends the task without `_status` and without a signal
(`FinishThrows`), as one in `Read` does for the task of a read. `TestWritesComplete` and `CloseWrites` are separate steps because
`_writesComplete` has no lock. `raced` is a history: two half-closes overlapped
there. `crashed` ends the process (a second `WritesDone`, or `Cancel` through a
null `_context`).

### MessageMetadata

`proto` is what the protobuf compiler parsed: files with imports, messages with
nested types and fields. `ProtosAssumption` is what that compiler guarantees
(`WellFormed`): a finite set of messages, and every field whose type is a message
names one that its file declares, at any depth, or imports. The recursive
collection functions of the parser are least closed sets (`Reachable`).
`LVImportProto`, `LVGetMessages` and
`RegisterMessageMetadata2` (in any order of the messages) fill `metadata`; then
each thread of `Finalizers` runs `FinalizeMetadata`, one element per step, with
the recursion on `stack`. `SetAlignment` and `SetClusterSize` are two steps
because the second is what other threads test. `crash` is a null pointer, a
division by zero or a stack without end: the stack has room for a call per
message (`StackDepth`), so only a recursion without end exceeds it. The layout is
that of the 64-bit build (`PointerSize` is 8). The 32-bit build for LabVIEW
(`_PS_4`) lays clusters out without any padding and is not modelled. A field may be
a group, whose type `LVFieldInfo` leaves as it was passed and reports as an error;
nothing is generated for such a file. Plain integers that two threads read and
write without a lock are taken as sequentially consistent, which C++ does not
promise.

### WireFormat, FieldFormat, Nesting, LVMessageValue, LVMessage, ClusterCopier, MessageExchange

A message is a record of values by field number, the oneof selections and the
unknown fields; a value has a type, the repeated flag, the value and the size it
caches. For every type there is the size `ByteSizeLong` returns and the bytes
`Serialize` writes; `Sized` is the message with the caches `ByteSizeLong` leaves.
Parsing is a function from bytes, position and limit. Type families that share
their code share an operator; what differs (what is read, its width, what is
made of it; the type code of an array and the width of its elements) is in the
tables `Traits`, `FromCluster` and `ToCluster`. What the code does by recursion is
a recursive function: on the position in the input for the parser, and, for the
sizes, bytes and copies of messages in messages, on what `Nesting` says the parts
are: `Methods` is what the three recursive methods of a message make of the results
of the messages in it, `Messages!Descend` applies it from the innermost messages
outwards, and `Copying`, `Defaults`, `Delivering` and `Comparing` are the same for
clusters. A cluster is a sequence with a
value per element; that elements do not overlap in memory is what
`MessageMetadata` checks. `MessageExchange` has the state: `request` and
`response` are the message objects of a call, used again by each exchange, and
the cluster that receives is new or the one of the exchange before. Bytes may
also come from a peer that packs, splits, repeats and adds fields. LabVIEW's
string conversion is modelled for a Latin-1 system.

`ParseTag` follows the end of a message exactly: a tag that is looked for behind
the last byte ends it well, a zero byte does not, wherever it stands.

A copy to a cluster that throws in the middle, because of a string that cannot be
converted or an enum that is not registered, leaves what it has written
(`SetLVStrings`, `Gathered`), and the cluster is used again by the next exchange.
`CopyMessageToCluster` sets as many bytes as a pointer has to zero at the start of
each cluster of an array before it copies there. `BaseCluster` clears the elements
these bytes belong to, by the layout of the 64-bit build (`LayoutOf`); if the cluster is
smaller than that they belong to the clusters behind it, which matters when the copy
throws before it gets there (`SpilledCluster`). The bytes behind the end of the array
that it may clear are not modelled.

`UnpackedFields` decodes the varints of a repeated field by hand: `BitString` is
what it takes of a byte, `BitStrings` puts the bits of a varint together and cuts
them at the width of the type (`BitsOf`, 8 for a bool), and `CopyVarintBitValueField`
adds up the powers.

### MultiSliceInputStream and ByteStream

`ByteStream` is the contract `CodedInputStream` relies on: chunks are handed out
in order and not empty, at most the last one is given back in part, bytes can be
passed over. `MultiSliceInputStream` has the slices, `_sliceIndex`,
`_offsetInSlice` and `_byteCount`; a call of `Next` or `Skip` is one step per
iteration of its loop. `ImplementsByteStream` instantiates `ByteStream` with the
position, the total and the last chunk.

## 3. Runs

| run | shows |
|---|---|
| `server_safety` | an operation works to its end on the RPC of its id; Finish at most once; no event in Connected; a deliverable CallFinishedTag exists; the server keeps listening; a waiting thread is owed exactly one event; an open RPC has somebody to end it; nothing is left after shutdown; `_status` only moves forward; all of it implements `RpcService` |
| `server_liveness` | StopServer returns; blocked reads and writes are released by it |
| `server_late_finish` | **violated**: CloseServerEvent can begin Finish on a closed queue |
| `lifecycle_calls` | with every overlap of two calls: the start handshake touches no deleted event, starts and stops return; on a server without overlapping calls: the object outlives its run thread, and `LVStartServer` returns 0 exactly when the server runs |
| `lifecycle_descriptor` | **violated**: the descriptor instance is used after another thread deleted it |
| `client_safety` | with and without occurrences, with conversions and tasks that throw: raw pointers in the map are valid except those to calls an exception left, tasks never outlive their call, running RPCs can be cancelled; with occurrences, success is reported only for successful RPCs, and a signal is lost only for a call that was cancelled or whose task threw |
| `client_liveness` | ClientCancelCall and CloseClient return, although they share `clientLock` with the tasks, wait for one, and the tasks need the lock to signal |
| `client_streams` | messages arrive in order, once, and all of them if the call completes well; OK is reported only for an RPC that ended with OK; the stream is half-closed twice only if two calls overlap in `WritesComplete`; waiting loops are woken |
| `pointers_safety` | objects in use live, registered objects live, nothing leaks, unregistered objects stay gone |
| `layout` | the layout a thread may use is LabVIEW's layout of the cluster, complete when `FinalizeMetadata` returns, with two threads computing it; it fails only for a message that contains itself, an empty nested message, or colliding names |
| `exchange` | what LabVIEW sends is what LabVIEW gets, over streams, `Any` and the builder, with reused objects and clusters; it is readable; the slice is exactly filled; a peer's bytes get their meaning; unpacked fields, decoded by hand, have the packed bits |
| `byte_stream` | the stream over slices implements `ByteStream` |

The violated runs each state what a comment or document of the repository says;
`PROJECT.json` quotes it under `findings`.

**Known disagreements** that the models contain and that have no run of their own:
- `grpc_client.cc:448-475` and `:944`: an exception after `UnregisterPointer` skips
  the erasure, and a dangling pointer stays in `ActiveClientCalls`, which
  `CloseClient` follows (`ActiveCallsAlive` exempts the calls in `escaped`);
- `grpc_client.cc:402` and `:141`: an exception of the parsing of the response ends
  the task of a call without a signal, and the thread that waits for the occurrence
  sleeps on (`SignalLostOnlyIfCancelled` and `WaiterWakes` exempt it). `_status`
  stays OK: without occurrences such a call is reported as successful;
- `grpc_client.cc:451` and `:791`: `_status` is tested before the task that writes
  it is waited for; without occurrences a failed RPC can be reported as
  successful (`ReportedOkMeansOk` and `StreamOkMeansOk` leave this case out);
- `grpc_server.cc:241-258`: of two stops that overlap, the second may use `_server`
  after the first has cleared it, or join the thread that the first one joins;
- `grpc_client.cc:105`: a task that tests `_cancelled` between the two statements
  of `Cancel` and then finds the call erased signals nobody;
- `pointer_manager.h:71`: an old id is accepted when its address belongs to a new
  object, although the comment at lines 16-17 says a stale one is recognised;
- `proto_parser.cc:166`: full names that differ only in `.` and `_` become the same
  LabVIEW name and share their metadata: one of the messages is laid out with the
  elements of the other, and if that makes a message contain itself the layout
  recurses without end although no message of the file does
  (`LayoutIsSound` and the second half of `CrashOnlyIfMalformed` leave them out).

**Bounds.** Two `CallData` identities are the least with which a server can
accept a connection and listen for the next; both are reused, so histories of
many calls occur. Three threads allow one to read, one to write and one to close
the same call, or two to close it. `ClientConnect` waits for a free identity
(the bound on open calls). Two client calls and three threads allow one thread
per call and one that cancels or closes; every `ClientCall` identity is used
once (`Unstarted`). One server and two threads show every overlap of two calls on a server and the
descriptor being set meanwhile (two stops and a start that all overlap can hang,
see `hazards`); `MaxSets` lets the descriptor's count pass 0, 1 and 2, and
`lifecycle_descriptor` has two servers that share it. Two addresses and three objects force address reuse.
One call and three threads in `client_liveness` let one thread begin it and the
others cancel it and close the client while its task signals. Two messages of the
server let a read refill what the read before left. Four
slices of at most five bytes together have empty slices at every place. The
`.proto` files of `MCMessageMetadata` each have one of the difficulties: padding
inside and at the end with a message nested twice, types nested in imported
files and 2D arrays, a tree, an empty message, names that collide and close a
cycle. In `exchange`
the widths are 16 and 24 bits instead of 32 and 64, so that the longest varint
has four bytes and all boundary values are small; a negative number of the
narrow type is longer than any other, as in the code. `MaxNesting` = 3: a message
in a message in a message, so that sizes are cached at more than one level and a
cluster that is cleared has clusters in it; the theorems hold for any bound. Strings
that are not Latin-1 and enum values that are not registered come from peers, so that
copies throw in the middle. `MaxExchanges` = 2 lets
every message follow every other one. Calls,
threads and addresses are interchangeable, which the symmetry sets use; runs
with temporal properties use no symmetry.

**Deadlock** is checked except in `client_streams`, `exchange` and `layout`, whose
models come to an end (the call is over, the exchanges are used up, the layout is
computed). `Terminated` marks the states in which the
process may rest: the server is stopped and LabVIEW has closed its ids, no
client thread is inside the library, no thread is starting or stopping a
server, or the process is gone.

**Fairness.** The run thread, a thread inside an exported function, StopServer
and tasks are scheduled by the operating system: weak fairness. The library
fails what can no longer succeed, sends statuses and delivers Done: weak
fairness of those steps, and strong fairness for taking a Done event because
the queue hands out events in order of completion. An RPC whose context was
cancelled ends, by a result or by an exception. In `ClientStreams` a loop inside an exported function and the
tasks keep running. Nothing is assumed of LabVIEW code, clients or remote servers.

## 4. Proofs

`ServerCallsProofs` proves for every set of calls and threads that
`Spec` implies `TypeOK`, `FinishAtMostOnce`, `NoEventWhileConnected`,
`DoneTagExists`, `AlwaysListening` and `StatusMovesForward`. The only assumption
is `CallsAssumption`. None of these is inductive alone, not even the types: that
`Publish` registers a call needs `RunThreadInv`, which needs to know that a
Finish event never meets a call that waits for its connection. The inductive
invariant `IInv` says where the tags of a call can be:

- a Request or Done tag is in one place only (`OnePlace`);
- while the Request tag is around the call waits for its connection, its
  CallFinishedTag exists, LabVIEW does not know it unless Proceed has just
  published it, and the Done tag is around only while the connection is being
  handled (`RequestInv`);
- a Finish tag means the call is over (`FinishInv`), and Finish was called only
  for such calls, once (`SentInv`);
- a Request fails only after the shutdown (`ShutdownInv`).

The key step is `FinishFromLabVIEW`: a thread that has the call found it
registered, so its Request tag, if still around, is in the hands of the run
thread, which holds `_stateMutex`; with the mutex free there is none.

The second part of `ServerCallsProofs` proves `WaiterIsOwedEvent`,
`OpenRpcHasOwner` and `NothingLeaks` from the same assumption. They need `IInv` and, while the process
is not aborted, `Own`:

- a read or write tag is in one place and is around exactly while one thread
  waits for it; that thread is the only one with the mutex of its kind of
  operation (`IoInv`). Alone, `WaiterIsOwedEvent` would allow two waiters for one
  event;
- a call of which Proceed handles the connection is registered until it is
  Connected (`PublishInv`), and its Done tag is on its way (`DoneInv`); a
  CallFinishedTag exists only for a tag still to be delivered (`TagInFlight`);
- a thread that has passed `FinishFromLabVIEW` holds a call that is over
  (`HoldInv`), and what a tag says about the RPC (`RpcInv`);
- the run thread exits with nothing outstanding (`ExitInv`).

An abort is excluded from these because an operation on a closed queue is not begun and
owes nobody an event; `server_late_finish` shows that the code can abort.

The last part of that module proves that `Spec` implies `ImplementsRpcService`:
every step of the library, the run thread, LabVIEW's threads and `StopServer` is a
step of `RpcService` or one that it does not see, the step included in which the
process aborts. It needs, besides `IInv` and `Own`, that what exists is not given
back too early (`StandsInv`): a call that waits for its connection and exists has
its Request tag around, a Connected call is registered (`StandInv`), and a
connection that the queue hands out has an RPC (`AcceptedInv`). From that the phase
of each call and its successor are known (`Phases`), and each step is looked at
once (`LibraryServes`, `SpawnNextServes`, `PublishServes`, ...). When
`SetCallStatus` stores, the call is registered or, by `StandInv`, over, and the
service admits both. `OperationKeepsItsCall` is inductive together with: a registered
call has an RPC (`ReachInv`).

`ServerLifecycleProofs` proves `TypeOK` and `StartEventAlive` from
`LifecycleAssumption`, however many calls overlap. The invariant is that, from
its creation until it has released the event's mutex, a run thread's starter
waits in `WaitForComplete` (`EarlyInv`), which needs that a run thread is not
replaced while it runs (`RunInv`). `ServerOutlivesRunThread` and
`StartResultIsTrue` speak of servers on which no two calls have overlapped and
follow from `SInv`: a thread that is joinable without a `_server` belongs to a
start that is going on, so a stop that finds no `_server` has nothing to join;
and a run thread that is about to return leaves no running server behind.
A stop during a start breaks both: it sees `_server` still null, unregisters the
server, and the return of the start destroys an object whose run thread runs.

`ClientCallsProofs` proves `TypeOK`, `TaskKeepsCall`, `RunningCallCancellable`,
`ReportedOkMeansOk`, `SignalLostOnlyIfCancelled` and `ActiveCallsAlive` from
`ClientAssumption` alone, with conversions and tasks that throw. Nothing
but conventions protects a call, and the invariant states them: a call that is
being begun belongs to the thread that begins it, and only `CloseClient` may
touch it besides (`BeginInv`); an object with an owner, or whose task runs, exists
(`OwnerInv`); `_status` is OK until the task stores the result (`TaskInv`); what
is known at each step of the completion and the cancellation (`StepInv`);
`CloseClient` has cancelled what its loop has behind it (`LoopInv`); a call leaves
the map before it is dropped unless an exception took the way out (`EraseInv`), and
leaves it while its task runs only when it was cancelled (`SignalInv`).

`ClientStreamsProofs` proves `TypeOK`, `StreamIsDelivered`, `StreamOkMeansOk` and
`HalfClosedOnce`, for any number of messages and both values of every toggle. The
reader and the task of its read take turns at `_response` (`ReadInv`: before `Read`
returns, LabVIEW has all that was received); the end told to the reader is the end
of the stream (`OverInv`); `_status` is the result of the RPC from `Finish` until
it is reported (`StatusInv`); whoever is about to half-close a stream that is
half-closed has overlapped with somebody (`HalfCloseInv`).

`MessageMetadataProofs` proves `LayoutIsSound` and `CrashOnlyIfMalformed` from
`StackAssumption` and `ProtosAssumption`, for any number of threads in
`FinalizeMetadata`, in the 64-bit build. The threads write the same offsets without a lock; the proof
is that they store what is there. An element that a thread has passed lies where
the one before it ends, rounded up to its alignment (`FrameInv`), whoever stored
it; a message whose `clusterSize` is set has all its elements placed, and its size
and alignment are computed from them (`LaidOut`). So a thread that is behind
computes the numbers again that it finds (`PlaceKeepsLayout`,
`StoreKeepsLayouts`), and elements that were placed stay so (`PlacedStays`). That
`clusterSize` is stored last is what makes `LaidOut` inductive. `RegisteredInv` ties
metadata to the messages the parser collected; the collection is closed under
field types (`FieldTypesAreCollected`), so that no metadata pointer is null. A
message above another on the stack is contained in it (`NestingInv`): more calls
than messages mean, by the pigeonhole principle, a message that contains itself.

`PointerManagerProofs` proves `TypeOK`, `HeldObjectLives`,
`RegisteredObjectLives`, `NothingLeaks` and `UnregisteredStaysGone` from
`PointerAssumption`; the first four are inductive together.

`MultiSliceInputStreamProofs` proves for any number and sizes of slices that
`StreamInv` holds (types, `_byteCount` is the position, the last chunk ends at the
position, `Skip` has passed over what it was asked to) and, from it, that every
step of the stream is a step of `ByteStream` or a stutter.

`MessageExchangeProofs` is about data: what a message becomes on the wire, for
integers of any two widths that are multiples of 8 (`WidthsAssumption`; TLC uses 16
and 24 bits, the code 32 and 64), messages of any shape, nested up to any
`MaxNesting`.
- `NumberRoundTrip`: a number of any of the fourteen numeric types is read by
  `ReadNumber` as `WriteNoTag` wrote it, wherever its bytes stand in an input, and
  the reader stops right behind it. This is about sign extension (a negative int32
  travels as a longest varint of which the reader drops the upper bits), zigzag and
  the cut of the longest varint, which can hold more bits than the integer has.
- `PackedRoundTrip`: the loop of a packed field gives back the numbers of the list
  and stops at its limit.
- `SizeIsRight`: for a well-formed message `ByteSizeLong` is the number of bytes
  `SerializeToCodedStream` writes. `WellFormed` asks of every message at every depth
  what the value objects of the code are: numbers in the range of their C++ type,
  strings of bytes, a value of the message type holds messages, each new or with the
  caches that `ByteSizeLong` left for these very values (a cache that is stale would
  make it false, and `FieldOk` says which caches there are). `SizedIsSame`: after
  `ByteSizeLong` has filled the caches the same holds and the bytes are the same.
  `ByteBufferIsMessage`: so `SerializeToByteBuffer` neither cuts the message off nor
  leaves the slice partly filled.
- `CopyFromClusterIsWellFormed`: `WellFormed` is not wishful. Whatever a message
  object held before, `CopyFromCluster` makes a well-formed message of every cluster
  of the types of its metadata, unless it throws. The assumptions are that metadata
  and enums are what registration gives (`MetadataAssumption`: every element has a
  number and one of the types; `EnumsAssumption`: the values are 32-bit integers and
  the enum of a field is registered) and that LabVIEW passes clusters of the
  declared types (`ClustersAssumption`; a C `int32` cannot be out of range). Clusters
  nest less deep than messages by one because a 2D array is no cluster but becomes a
  message.
- `SliceAlwaysFilled`: `Spec` implies `SliceIsFilled`. The inductive invariant
  `SliceInv` adds that the request object belongs to the message exchanged and that
  nothing is in flight when the exchange is idle; the write step is the theorems
  above.

The arguments are inductions over data. The prover cannot instantiate the library's
induction theorems, so they are by least counterexample in the natural numbers
(`NatsIn`: a set with 0 that contains `n + 1` with every `n` has all of `Nat`).
`Recursion` says that a function declared by recursion on numbers exists and obeys
its declaration; `Unfold` (and `UnfoldOfClusters`) say that of `Descend`, by
induction on how many levels of parts are below.

Every invariant was checked with TLC as an invariant of a run before it was
proved. The proofs changed these things in the models: `CrashOnlyIfMalformed` used
to promise that only recursive and empty messages fail, which is false with
colliding names; the guards of alternatives in `UnregisterCall`, `SizeNoTag` and
`LayoutNested` overlapped, so that `CASE` left their result open; the recursive
operators of the message modules became recursive functions.

Only model-checked:
- `ReceivedIsSent`, `SentIsReadable`, `PeerIsUnderstood` and `UnpackedIsPacked`. What
  is proved of them are the steps for single numbers and packed lists and the write
  side. The rest needs the parser's loop over tags in step with the serializer's
  loop over fields, at every depth of messages, and, for `ReceivedIsSent`, that
  copying to a reused cluster undoes copying from one;
- liveness (`StopServerReturns`, `IoReturnsAfterStop`, `StartReturns`, `StopReturns`,
  `CancelReturns`, `WaiterWakes`): fairness and ENABLED are out of the prover's reach.

## 5. Not modelled

`lv_message_efficient.cc`: `feature_toggles.cc:29-31` turns its toggle off whatever
the file says. Method names, error codes and messages. LabVIEW itself: its user
events, occurrences and cleanup procs appear only as far as the library uses
them. Of the proto parser the queries for services, methods and enums; of the Any
support the comparison of type URLs and the nested builders, which hand out ids
that are never registered (`any_support.cc:268`). The reflection service (a thin
layer over protobuf), dynamic loading, path conversion, and the sample programs.
Registration of server methods, whose container is read without its mutex
(`_registeredServerMethods`, a hazard). The 32-bit build (`_PS_4`), whose clusters
have no padding. Two reads of a stream at a time, which gRPC
leaves undefined. 2D arrays whose rows times columns overflow an `int32`.

## 6. Plan

1. Done: server calls, server start and stop, unary and streaming client calls,
   pointer manager, metadata and layout, messages on the wire, cluster copies, the
   Any builder, two refinements (`ByteStream`, `RpcService`).
   Done: every safety property of the runs is proved, apart from four of
   `MessageExchange`, and both refinements; numbers, packed lists and sizes on the
   wire.
2. Proof that a message is parsed as it was serialised, from the round trips of its
   fields.
3. Method registration and the generic event of the server.
