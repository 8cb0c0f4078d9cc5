# The A1 mediator in TLA+

This directory specifies the A1 mediator of the near-RT RIC, the Python program in
`src/a1` and its Go port in `src/a1-go`, model-checks the specification with TLC
and proves theorems about it with TLAPS. `PROJECT.json` lists runs, mutants,
theorems, hazards, findings, and for every definition the source lines it stands for.

## 1. Inventory of the system

The mediator keeps *policy types* (a JSON schema each) and *policy instances* (a
body that conforms to the schema of its type) in a Redis database behind SDL, tells
xApps about instances over the message bus rmr, and collects the statuses the xApps
report.

| part | code | state | operations |
|---|---|---|---|
| data operations | `a1/data.py` | SDL keys for types, instances, metadata, statuses | each function is several SDL calls; nothing is transactional |
| REST handlers | `a1/controller.py`, `a1/openapi.yaml` | none of its own | create, read, list, delete of types and instances, status, data delivery, health check |
| delete threads | `data.py` `_delete_after` | one OS thread per DELETE | check, sleep for a time to live, clear statuses, remove instance, remove metadata |
| rmr loop | `a1/a1rmr.py` `loop` | `keep_going`, `last_ran`, the message in work | start a sender, read the mailbox, handle policy responses and queries and A1-EI messages |
| senders | `a1rmr.py` `_handle_sends` | two in-memory queues | a new thread every second empties both queues |
| health check | `controller.py`, `a1rmr.py` | `last_ran`, thread alive | read by Kubernetes, which restarts the process |
| Go handlers | `a1-go/pkg/restful`, `resthooks` | SDL types; the variable `err` of `setupHandler` | list, read, create a type |
| Go REST API | `a1-go/pkg/restapi/operations`, `models` | generated | routing, parameter checks, responses |
| Go server | `a1-go/pkg/restapi/server.go`, `Run` of `restful.go` | listeners, three channels, a wait group | listen, serve, signals, graceful shutdown |
| test xApps | `integration_tests/testxappcode/receiver.go` | `rmrReady`, the message in work | acknowledge policies, query |

How they interact. A REST handler calls data operations and puts a work item on a
queue; a sender takes it from there and sends it to xApps. An xApp answers with a
status message, which the rmr loop writes to SDL, or queries all instances of a type,
which the loop reads from SDL. A DELETE only marks the instance in its metadata and
starts a thread, which removes it later.

What runs concurrently. The web server is a gevent `WSGIServer` in a process that is
not monkey-patched, so one handler runs at a time and runs to its end. The rmr loop,
its senders and the delete threads are OS threads and run between any two SDL calls of
a handler. In Go every request has its own goroutine.

What is hard: two SDL calls of a handler with a delete thread or the rmr loop in
between; a DELETE whose thread outlives a later PUT; several threads for one
instance; SDL errors and crashes between the writes of one operation; senders that
overlap on a queue; exceptions that nobody catches and that end a thread; calls
without a timeout in a loop that a health check supervises; messages that get lost,
and either side restarting with the other unaware; database keys put together from
ids; a graceful shutdown in which five kinds of goroutines wait for each other.
`PROJECT.json` lists these hazards with the line where each bites and the properties
that guard it.

## 2. Modules

| module | models |
|---|---|
| `PolicyRegistry` | abstract: what the mediator promises about types and instances, as four atomic operations |
| `A1Policy` | data operations, REST handlers, delete threads, policy messages, crashes, SDL errors |
| `A1Rmr` | queues, senders, the loop with all its message types, retries, buffers, health check, restart |
| `SdlKeys` | the keys of SDL as strings, and the searches by prefix |
| `A1System` | mediator and xApp together: REST requests, queue, senders, both wires, `receiver.go`, rmr loop, delete threads, lost messages, kills and restarts |
| `GoMediator` | the Go port: routing, parameter binding, the three handlers, the shared `err` |
| `GoServer` | the Go process: listeners, signals, graceful shutdown, exit |
| `MC...` | constants and symmetry for TLC |
| `A1PolicyProofs`, `A1DeletionProofs`, `A1UpdateProofs` | theorems about `A1Policy` |
| `A1RmrProofs`, `SdlKeysProofs`, `A1SystemProofs`, `GoMediatorProofs`, `GoServerProofs` | theorems about the other components |

### A1Policy

`types`, `inst`, `meta`, `hdl` are the four families of SDL keys (`a1.policy_type.`,
`a1.policy_instance.`, `a1.policy_inst_metadata.`, `a1.policy_handler.`) as functions.
`http` is the handler the web server runs: its program counter names the next SDL
call, prefixed with the operation (`PI_` PUT instance, `DI_` DELETE instance, `GS_` GET
status, ...). `del` has a slot for each delete thread, `rmr` is the loop in the handling
of one policy message, `notified` the last item queued for an instance. One step is one
SDL call and the local computation up to the next one; the checks `_type_is_valid` and
`_instance_is_valid`, which the code repeats in nested functions, are steps of their own
as often as the code makes them. `HttpSdlError`, `DeleterSdlError` and `RmrSdlError` let
any SDL call raise, and the thread it happens in answers 503 or ends, as its `except`
clauses say. `Crash` drops everything but SDL.

Abstracted: bodies and schemas are model values related by `Conforms` (a schema that
accepts nothing may also be one that is no JSON schema, which a PUT answers with 500);
timestamps and durations are left out (a time to live is an arbitrary delay); a response is its code.

### A1Rmr

`sendQ` has the two queues, `snd` a slot for each `_handle_sends` thread (`check` is
`queue.empty()`, `get` is `queue.get(block=False)`, `send` the loop of `_send_msg`),
`loop` the thread of `loop` with the local `mtype`, which keeps its value from message
to message, and the messages still to handle. `bufs` counts allocated rmr buffers,
`stale` says that `last_ran` is more than 30 seconds ago. The SDL calls of policy
messages, detailed in `A1Policy`, return, raise something that is caught, or
something that is not; so does the decoding of their payload, where JSON that is
malformed is caught and bytes that are no UTF-8 are not. `accepted` and `result` are history variables.

### GoMediator

`req` has a slot per request; a create goes through one step for the SDL call, one for
the assignment to `err` and one for each test of `err`, because the variable is shared by
all requests. Routing and `BindRequest` of all eleven operations are operators that
give the code with which a request is refused; eight operations answer 501.
`resthooks.go` 125 names an undeclared variable in a debug line, so that the package
does not compile at this commit; the line is read as if it were absent.

### SdlKeys

The four families of keys and the ids are sequences of characters (the text of a
family counts as one), `find_and_get` is a search by prefix, and a name is cut out of a
key as the code does it. Every SDL call that writes, or that a later write rests on, is
a step: the handler of the web server, the delete threads and the rmr loop interleave
between the search for statuses and each deletion, between the check of an instance and
the writing of its status, between the removal of an instance and that of its metadata.
Beside the database the module keeps what was really stored and reported, and the
properties compare the two. `A1Policy`, whose keys are records, rests on the result: as
long as no instance id continues another after a dot, the searches find what belongs to
the id and nothing else.

### A1System

The composition, with a step for each SDL call that writes. `web` is the handler: its
next step and the item it will queue; `threads[i]` counts the delete threads of `i` at
each of their steps (check, sleep, clear, remove); `loop` checks an instance
(`LoopReceive`) and writes its status (`LoopWrite`), and answers a query instance by
instance and dies if one has vanished. A change moves from `web` to `sendQ`, `sending`
(the item of each of several senders, which may overtake each other), `toXapp`,
`xapp.msg` and back over `toA1`. Bodies are left out, and metadata, which only decide
whether a DELETE fails. SDL may hold instances from the start; `RestartA1` is the health
check's doing; `KillA1` and `KillXapp` leave SDL, or nothing. `lossy` and `restarts`
remember that a message was lost, or that one side has forgotten what it knew.

### GoServer

One goroutine per variable or slot: `main` goes through the schemes of `Listen` and
`Serve` in the code's order; `handler` is `handleInterrupt`; `serving[s]` the goroutine of
`http.Server.Serve`; `hs` is `handleShutdown`; `stop[s]` the goroutine that shuts server
`s` down, up to its send on the unbuffered `shutdownChan`. A signal before
`signal.Notify` kills the process; later ones are buffered, one at a time. From
`net/http` the module takes that `Shutdown` closes the listeners that are being served
and waits for requests in flight or the context, and that `Serve` after `Shutdown`
returns at once.

## 3. Runs

Passing runs:

| run | instance | shows |
|---|---|---|
| `failures` | 1 type, 1 instance, 1 xApp, 1 delete thread, 3 schemas (one accepts nothing), 2 bodies, 1 crash, 1 SDL error | `TypeOK`; `UpdateResets`: no old status survives a replacing PUT; `ToldLatest`: what was last queued for xApps is what is stored; `ChecksHold`: what a handler checked still holds when it acts on it; `InstancesConform`: every stored instance conforms to a stored type; `RegistrySpec`: refinement of `PolicyRegistry` |
| `live` | 2 delete threads for one instance, 1 crash | `DeletionPending`: until the crash an instance marked deleted always has a thread that will remove it; `DeletedEventuallyGone`: a DELETE has its instance removed, or live again by a PUT, also one that a crash has left marked and without a thread; `RequestsAnswered` |
| `sends` | 3 jobs on 2 queues, one with a bad number, 2 senders, 2 tries | `TypeOK`; `HandedOnce`: no job goes to two senders; `QueuesKeepOrder`: none is lost, order is kept; `JobsHandled`: each is sent, given up or refused |
| `mailbox` | 2 messages of any of 6 types per pass, 2 instances per query | `BuffersFreed`: one free per buffer on every path; `LoopKeepsRunning`: whatever ends or blocks the loop, it comes round again |
| `keys` | types `1` and `10`, instances `a`, `ab` and `a.b`, of which at most 2 are ever stored, handler `b.h`, 2 delete threads | `ListsExact`: lists of types and instances are right for all ids; `StatusesExact`: statuses are right unless one id continues another after a dot |
| `system` | 1 instance, stored at the start or not, 2 requests, 1 sender, wires of 2, a loss, a kill | `TypeOK`; `QuietTruth`: with nothing on its way, lost or restarted, the recorded status of a stored instance that no thread is about to remove is the xApp's last answer; `SettlesInEffect`: in the end every instance that is still stored is in effect, after kills, losses and restarts |
| `go_races` | 2 requests of any kind, ids 0..2 and a non-integer | `TypeOK`, `AloneRightAnswer`, `AnswersStayTrue`, `RegistrySpec`: the port implements the same registry |
| `go_server` | one listener, or all three; 2 signals, 1 request per server | `TypeOK` (the shutdown channel is closed once); `HookAfterDrain`, `HookBeforeExit`: the shutdown hook runs when all is drained and before the exit; `CutExplained`: requests are cut off only after the grace period or a failure; `SignalStops`: a signal ends the process |

Every property of a passing run has a mutant: a plausible bug in one definition, kept in
the module under a name with a suffix, that makes TLC report that property.

Runs that TLC must refute, each a place where the repository says otherwise:

| run | property | what happens |
|---|---|---|
| `stale_timer` | `OnlyDeletedVanish` | DELETE, PUT, and the timer of the DELETE removes the new instance |
| `replies` | `InstanceRepliesDocumented` | a GET during a removal is answered with an empty 204; status and DELETE with a 500 |
| `query_race` | `LoopRunsForever` | a query during a removal raises an exception that ends the rmr loop |
| `go_shared_err` | `CreateRightAnswer` | two concurrent creates: one is answered with the other's result |

Further divergences, found in the same models and not kept as runs:
- a status that the rmr loop checks before and writes after a delete thread has removed
  its instance (`data.py` 276-277) stays behind and is the status of the next instance
  with that id, although `data.py` 212 resets statuses "because this is a new policy
  instance"; so the new instance can be reported in effect before any xApp has heard of
  it, and for good if the message is lost (`UpdateResets` fails for `CREATE`, and
  `QuietTruth` without its exception for lost messages);
- a DELETE that has read the metadata and writes it back after a delete thread removed
  it (`data.py` 247-252, 150) leaves a metadata key without an instance;
- a type may have a `create_schema` that is no JSON schema; a PUT of an instance is then
  answered 500 (`controller.py` 178), which `openapi.yaml` does not list;
- a policy message whose payload is no UTF-8 ends the loop (`a1rmr.py` 219, 234);
- a message without a type is announced as dropped (`a1rmr.py` 207) and then handled as
  one of the type of its predecessor; as the first message it ends the loop;
- an instance id "can be any string" (`openapi.yaml` 370), but the statuses of `a.b` are
  also found as statuses of `a`, and a PUT or removal of `a` clears them (`data.py` 73, 105);
- the second PUT of an instance is sent as UPDATE, for which `receiver.go` 84-89 has no
  case: it answers with an empty status, which is none of those of
  `a1_xapp_contract_openapi.yaml`, and the instance is NOT IN EFFECT until a query makes
  the mediator send a CREATE (`SettlesInEffect` fails with `DoQuery = FALSE`);
- a query during the time to live of a deleted instance makes the xApp create it again,
  and no DELETE follows; likewise if a sender with the CREATE is overtaken by one with
  the DELETE;
- `messageLoop` frees its message with a `defer` inside an endless loop
  (`receiver.go` 156), that is never;
- `restful.Run` neither parses flags nor calls `ConfigureAPI`: `GracefulTimeout` is 0 and
  not the "15s" of its tag (`server.go` 93), so that a signal cuts off what is in flight;
- when one Go server fails to close, the requests of the others are cut off before the
  grace period is over (`server.go` 466 stops receiving, `wg.Wait` returns);
- a crash while a delete thread sleeps leaves the instance marked deleted until
  somebody DELETEs it again (`DeletionPending` without its exception for crashes),
  although `docs/overview.rst` 113-118 says that no state but the job queue is lost;
- `controller.py` 156 announces a 404 and a removal when all statuses are DELETED;
  `get_policy_instance_status` answers 200;
- `docs/installation-guide.rst` 17 says failed sends are retried `A1_RMR_RETRY_TIMES`
  times and end in a 503; only `RMR_ERR_RETRY` is retried, and nobody is told;
- `openapi.yaml` 332 has a 404 for a delivery without a job id; it is answered 200
  and ends a sender;
- in Go an absent type, and an SDL error in a GET, are answered 200 (`swagger.yaml`
  36, 67), and an id out of range 422, where `swagger.yaml` 109 says 400; a stored type whose text has a back quote makes the GET panic
  (`resthooks.go` 122), and so does a create without a body (`restful.go` 59).

### Bounds

Every race here is about one instance, one xApp and the threads on that instance; a
second delete thread is needed for DELETE-PUT-DELETE, a second body to tell an update
from what it replaces, a second schema to tell a re-created type from the first. A
status of another instance or type is a question of keys and has its own module; the
ids of `keys` have every relation that two ids can have there, and two that are stored
show each. In `system` one instance is enough because instances share nothing but wires;
two requests on an instance that is stored already make DELETE, PUT and its kin, with a
PUT that takes the instance for an existing one while a delete thread removes it; the
CREATEs that answer queries overtake those of the sender, a wire of two gets full (rmr's
ring holds 2048; with a wire of one a query would keep answers off it), and a kill can
fall on every step. More senders, requests and kills are left to the proofs. In `go_server` a second signal meets a full channel
and a handler that already ran; one request per server is enough to keep it from
draining. A job
goes on its queue once. Two senders suffice for every race on a queue, since a third
competes as the second does; three jobs fill both queues and put a good job behind a
bad one. Two messages in a pass show every effect of one message on the next, which
only `mtype` carries. `MaxTypeId = 1` keeps both borders of the range (0 and 2 are
refused). Slots for threads bound how many run at once: the loop, or a DELETE, waits for
a free slot. Symmetry (of the slots of `GoMediator` and the delete threads of `SdlKeys`) is used
only with safety properties.

### Fairness

`A1Policy`: weak fairness of a started handler, of each delete thread and of the
handling of a received message; nobody has to send requests, and delete threads
end because the operating system schedules them and `time.sleep` returns. `A1Rmr`:
weak fairness of each sender and of the loop, of the passing of time, of the probing of
the health check and of the restart, which the `livenessProbe` of
`integration_tests/a1mediator/templates/deployment.yaml` provides. The A1-EI service
is not fair: `requests` waits without a timeout, so it may never answer. `A1System`:
weak fairness of every thread of the mediator, of the delete timers, of the xApp's
goroutines and of the restart of a dead loop; not of requests, losses or kills. The
query that the xApp repeats every second is part of `receiver.go` (`DO_QUERY`); without
it nothing makes up for a lost message. `GoServer`: weak fairness of every goroutine and
of the timer of the context; requests in flight need not end.

## 4. Proofs

All theorems hold for every value of the constants: any number of types, instances,
xApps, threads, crashes, SDL errors, jobs, messages, retries, signals and requests, and
any ids. Every safety property of a passing run, and both refinements, are theorems.

| theorem | module | states |
|---|---|---|
| `TypeCorrect` | `A1PolicyProofs` | `Spec => []TypeOK` |
| `Conformance`, `NoStaleCheck` | `A1PolicyProofs` | `Spec => []InstancesConform`, `Spec => []ChecksHold` |
| `Refinement` | `A1PolicyProofs` | `Spec => RegistrySpec` |
| `NoForgottenDeletion` | `A1DeletionProofs` | `Spec => []DeletionPending` |
| `UpdatesReset`, `XappsToldLatest` | `A1UpdateProofs` | `Spec => []UpdateResets`, `Spec => []ToldLatest` |
| `NoJobTwice`, `NoJobLost` | `A1RmrProofs` | `Spec => []HandedOnce`, `Spec => []QueuesKeepOrder` |
| `RmrTypeCorrect`, `NoBufferLeaks` | `A1RmrProofs` | `Spec => []TypeOK`, `Spec => []BuffersFreed` |
| `ListsAreExact`, `StatusesAreExact` | `SdlKeysProofs` | `Spec => []ListsExact`, `Spec => []StatusesExact` |
| `SystemTypeCorrect`, `QuietStatusTrue` | `A1SystemProofs` | `Spec => []TypeOK`, `Spec => []QuietTruth` |
| `TypeCorrect` | `GoMediatorProofs` | `Spec => []TypeOK` |
| `ReadsStayTrue`, `AloneAnsweredRight` | `GoMediatorProofs` | `Spec => []AnswersStayTrue`, `Spec => []AloneRightAnswer` |
| `ImplementsRegistry` | `GoMediatorProofs` | `Spec => RegistrySpec` |
| `ServerTypeCorrect`, `HookRunsAfterDrain`, `HookRunsBeforeExit`, `CutsAreExplained` | `GoServerProofs` | `Spec => []TypeOK`, `Spec => []HookAfterDrain`, `Spec => []HookBeforeExit`, `Spec => []CutExplained` |

*Conformance.* That instances conform is not inductive: the step that writes one
(`PutSet`) is safe only because of what the handler read several SDL calls before. The
invariant `ConformInv` adds `ChecksHold`. It is preserved because types are changed only
by request handlers, which run one at a time, while the other threads only remove
instances and write statuses; so the proof shows where the code rests on the web
server being serial. `ConformInv` also gives the refinement: four steps are steps of
`PolicyRegistry`, and their guards there are what `ChecksHold` says.

*Deletions.* `PendingInv` is `ConformInv` with `DeletionPending`: a delete thread that
finds its type gone gives up, and `ConformInv` says that this cannot happen to an
instance that is still stored.

*Updates.* `UpdateResets` speaks of the moment before the answer, when the clearing of
statuses is long over and the rmr loop has gone on writing. `ResetInv` follows each status
that was there before the PUT from the search for its key, after which it is among the
keys to delete, to its deletion. `ToldInv` says of every point of a PUT or DELETE what has
been written and not yet queued; it holds while nothing fails, because a crash takes the
queue and not SDL.

*Queues.* That a job taken from a queue is not held by another sender needs that
whatever is held or has a result was taken before, and that no job was put on a queue
twice. `JobInv` adds this, with the position in `accepted` up to which jobs were taken.

*Buffers.* `RmrInv` joins `JobInv`, the types of the loop, and `BufInv`: the senders with
a message in work are finitely many, which each step that adds or removes one keeps (a
cardinality says nothing otherwise), and their number with that of the messages still
to handle is the number of buffers. The loop is at the top, or receives, only with no
message left, so that the messages of a new pass are all there is to free.

*Keys.* All facts about strings are lemmas on keys: the first dot of a key ends its type,
since type ids are numbers; what a prefix finds has the prefix's family and type, and
belongs to the id, or to an id that is the same up to a dot. `KeysInv`
says that each key in SDL is owned by a type or instance that is stored or, for metadata
and statuses, was stored once (`OwnedInv`), that what is stored has its key (`KeptInv`),
and that the statuses of an instance whose id no other continues are the ones reported
and not cleared (`ReportInv`); `WorkInv` says of every process that the keys which a
clearing has found and not yet deleted have the prefix of its instance. All of this
holds although a status or metadata can outlive their instance.

*The whole system.* `QuietTruth` speaks of quiet states only. `TruthInv` says what holds on
the way there, as long as nothing is lost or restarted: an answer that is on its way
back, if it is the last one about its instance, is that to the item the xApp handled last
(`AnswerInv`); with no answer on its way, the status of a stored instance is right, or an
item is still ahead of the xApp, or a delete thread is about to remove the instance
(`StatusInv`). Of an instance that is not stored it says nothing: a status may outlive it,
and become that of the next instance, but then the CREATE of that instance is still ahead
and its answer sets the status right. Moving an item from one place to the next keeps
`OnItsWay`; overtaking does no harm because answers come back in the order in which the
xApp handled the items. `CountInv` bounds the queue by the number of requests.

*Go handlers.* `FlowInv` ties each step of a request to its operation. `StayInv` rests on
types being written once and never removed. `AloneInv` says that while no other create
overlaps, `err` is what the own SDL call returned, at every test of it, and that no other
create is under way; when one begins, `alone` is over for both. The refinement maps the
port to the registry without instances: the SDL call of a create is its only step.

*Graceful shutdown.* That nothing is in flight when the hook runs rests on a count and
on four goroutines. `CollectInv` says that `handleShutdown` still waits for as many
results as there are servers without a received one, so that zero left means none left
out; `ServersInv` that a server whose shutdown has begun takes no request, that a good
result means it has none, and that a bad one has an explanation, which no later step
takes away; `PhaseInv` orders `main` and `handleShutdown`, and `FlagInv` ties the flag to
the channel. The goroutines that stay behind after a failure end because the context is
cancelled; the invariant shows that this, too, is a case of a failure.

Assumptions: the named `ASSUME`s of the modules, which TLC evaluates: bounds are natural
numbers; `None` is no schema, body, status, instance or item; policy and delivery jobs
differ; type ids hold no dot and no id holds the text of a family of keys; a wire holds
at least one message; the web server is none of the delete threads.

Only model-checked: the liveness properties `DeletedEventuallyGone`, `RequestsAnswered`,
`JobsHandled`, `LoopKeepsRunning`, `SettlesInEffect` and `SignalStops`, which rest on
fairness and are out of this prover's reach. TLC checked each inductive invariant on a
small instance before it was proved.

## 5. What the models take for granted

- An SDL call that raises had no effect; a `find_and_get` is a snapshot.
- connexion refuses what `openapi.yaml` does not admit, and answers a handler that
  returns None with 204; an exception that `_try_func_return` does not catch is a 500.
- go-openapi answers a body that is not JSON with 400 and other bad parameters with 422.
- A read or write of `err` in Go is atomic (it is a data race in the code).
- In `A1Policy` keys are records: for which ids this is right is what `SdlKeys` shows. In
  `SdlKeys` no id holds the text of a family of keys, or a `*`, `?` or `[`, which the SDL
  library would take for a pattern.
- `A1System` has one xApp and one policy type; a sender still at work when the loop dies
  takes no further item.
- A connection that `net/http` has accepted is in flight at once.

Not modelled: Prometheus counters, logging, wire formats, URL builders, charts and
images, which no decision of the program depends on; `configure_a1.go`, whose handlers
`restful.Run` never installs; TLS settings and time-outs of the Go servers, which are
values handed to `net/http`.

## 6. Plan

1. done: `A1Policy` with its abstract registry, runs and theorems.
2. done: `A1Rmr` with the theorems on its queues; `GoMediator`.
3. done: `SdlKeys`, `A1System`, `GoServer` with the theorems on its shutdown.
4. done: theorems for the remaining safety properties, for `A1Rmr`, `SdlKeys`, `A1System`,
   `GoMediator`, and the refinement of the registry by the Go port.
5. done: one step per SDL call in `SdlKeys` and `A1System` too, with their proofs; crashes
   in the liveness run of `A1Policy`.
6. Shorter proofs, where lemmas of several modules have the same shape; liveness stays
   with TLC.
