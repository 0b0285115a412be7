# A verification development for QXNM Forge

QXNM Forge is the core of an AI coding assistant: a daemon that speaks JSON-RPC on
stdio, runs an agent loop against model providers, lets the model call tools under a
policy with interactive approvals, and keeps every session in an append-only journal.
This directory models the Rust implementation (`rust/src`) and the desktop shell's bridge
to it (`ui/src-tauri`), checks the models with TLC and proves theorems about them with
TLAPS.

To run a check: `tlc -workers 2 -config AgentRun.cfg MCAgentRun`. To check the proofs:
`tlapm WriterLease_proofs.tla` (and the other `*_proofs` modules). `PROJECT.json` lists every
run with its module and configuration, a mutated definition for every property, the source
lines behind every definition, and the hazards the properties are for.

## 1. The system

| component | source | state it keeps | operations | hard behaviour |
|---|---|---|---|---|
| portable writer lease | `session/writer_lease.rs`, `session.rs` | directory `writer.lock.d` with `owner.json`, sibling directories, a loopback listener, an advisory file lock | acquire, probe, take over, restore, release | several processes, paths that change between two calls, crashes, a two-second grace |
| agent run | `agent.rs` | `active` (one RunControl: lease, lifecycle, approvals, queues, token), the spawned task, journal records | run/start, turns, provider attempts, tool calls, approvals, cancel, finalize | task and handlers interleave at every await; durable before visible; lost responses |
| queues | `agent.rs` | steering and follow-up FIFO, `accepting` | run/steer, run/followUp, the two drains | input against completion; several records per drain |
| stdio daemon | `daemon.rs` | protocol loop, event task, connection | dispatch, response-before-action, shutdown | `select!` drops a handler in progress; shutdown waits five seconds |
| recovery | `session.rs` | the journal alone | `recover_interrupted` before each run/start and session/get | completes what a crash left, exactly once |
| event numbering | `agent.rs`, `session.rs` | in-memory counter per session, `event.emitted` records | emit, recovery | a cache of the journal |
| session journal | `session.rs` | bytes of `journal.jsonl`, record chain, selected head, artifacts | append, tail recovery, branch, compaction, projection, publication of artifacts | torn tails, loss of power, compare-and-set of the head |
| session lifecycle | `session_lifecycle.rs` | session directories, archive document, tombstones | create, list, archive, restore, delete, import | interrupted delete; openers; paths that change hands |
| legacy import | `session/legacy_session_v3_import.rs` | none after it ended | load, convert, publish | a foreign tree becomes a journal every reader accepts |
| terminal | `terminal.rs` | PTYs, replay buffers, bounded channels | open, input, resize, attach, close | back pressure, acknowledged output, cleanup |
| agent profiles, application database | `agent_profile.rs`, `storage.rs` | SQLite file | bootstrap, create, replace, delete, bind to a run | two connections, compare-and-set, a bootstrap that dies |
| provider connections, commercial state | `provider_connection.rs`, `commercial_state.rs` | connection document, credential leaves, sponsored routes | create, update, rename, delete, discover, set and remove keys | two files, two locks that are only tried, crashes in between |
| sponsored catalogue | `sponsored_catalog.rs` | source, cache of signed catalogues | configure, load, install, remove | no lock on the cache; overlapping loads |
| routes and identity | `provider_route.rs`, `provider_identity.rs`, `main.rs`, `daemon.rs` | snapshots frozen at start | initialize, models/list, run/start, CLI run | what is offered is what runs |
| provider adapters | `provider/*.rs` | a decoder, a stream parser | request, retry, decode | any frame at any time |
| executor | `executor.rs` | a process group, two readers, a budget | spawn, sample, signal, join | PID reuse, forks between samples, shared budget |
| tools and policy | `tools.rs`, `policy.rs`, `path_boundary.rs`, `hard_sandbox.rs` | none but the files | preflight, approve, execute | names bound anew between check and use |
| computer use | `computer.rs` | the keys and buttons that are down | click, scroll, chord, screenshot | one of several events fails |
| desktop bridge | `ui/src-tauri/src/application_service_bridge.rs` | one daemon per backend, two mutexes | call, greet, reconfigure | deadlines, dead daemons, stale configuration |

How they interact. The protocol loop of the daemon handles one request at a time and
writes the response *before* it acts on it (`AfterResponse`). `run/start` takes the
writer lease, recovers the journal, appends `run.accepted`, creates the RunControl, and
only after its response was written is the agent task spawned. From then on the task and
the handlers `approval/respond`, `run/cancel`, `run/steer`, `run/followUp` share the
RunControl (mutexes `lifecycle`, `approvals`, `queues`, always taken in one order) and
append to one journal. The waiting task and a resolver communicate through a oneshot
channel. A turn of the task reads a provider's stream through a decoder and a parser;
a tool call goes by profile, preflight, policy and approval to the file system, a child
process or the X server. Daemons and command-line calls share a state root: session
directories under leases, the connection document and the credential store under try-locks,
the database under SQLite's transactions. When stdin closes or stdout fails, the daemon denies
what is pending, ends its terminals, waits for the task, and exits. The desktop shell
keeps one daemon per backend and replaces both when it changes the configuration.

What makes each component correct:
*lease* - one writer at a time, no deletion of a live claim, a dead claim is reclaimed;
*run* - one terminal record and one event that repeats it, cancellation wins, one
result per call, honest about what ran, no tool without consent or after cancellation,
every accepted run ends;
*queues* - FIFO, nothing lost by a run that completes, nothing consumed twice, steering
before follow-up;
*numbering* - strictly increasing (the code has two exceptions, 6); *identity* - recovery never takes a healthy journal
for a corrupt one;
*journal* - what was reported durable stays, nothing is removed without a backup, what
belongs together stays on one branch, named artifacts exist;
*lifecycle* - a writer keeps the directory it opened, an interrupted deletion can be finished;
*import* - a readable journal with the same ancestry;
*terminal* - replay, live output and exit in order (leftovers of an earlier replay may slip in, 6), a close ends;
*stores* - a connection sends no key older than itself and keeps no models of another endpoint, no key is lost or
comes back;
*database* - a revision names one content, a bootstrap is whole or absent;
*offers* - what is announced can be run;
*tools* - an effect only with consent, reads and writes of files inside the workspace, sandboxed processes in it or in
what the sandbox has of the system; what goes by name is inside up to the last look at the path;
*streams* - a message is committed as sent, whatever the framing;
*executor* - signals reach the own group, output is accounted for; *desktop* - nothing
stays pressed; *bridge* - answers are current, and every call returns once its request is written.

## 2. The modules

| module | models | run |
|---|---|---|
| `WriterLease` | `PortableWriterLease` and `SessionLease`, one step per file-system call | `WriterLease`, `Liveness` |
| `SessionLock` | abstract: a mutual exclusion lock | refined by `WriterLease` (`ImplementsLock`) |
| `WriterLease_proofs` | theorems about `WriterLease` | TLAPS |
| `AgentRun` | agent task, handlers, shutdown, crash, recovery of one session | `AgentRun`, `AgentRunFaults` |
| `AgentRun_proofs` | theorems about `AgentRun` | TLAPS |
| `RunContract` | abstract: runs are accepted and end once, one at a time, calls start once | refined by `AgentRun` (`KeepsContract`) |
| `SessionJournal`, `RecordTree` | bytes of a journal and their recovery; the tree the records form | `SessionJournal` |
| `ArtifactStore` | artifacts and the records that name them | `SessionJournal` |
| `SponsoredCatalog` | the signed catalogue, its cache and the installed routes | `SessionJournal`, `CatalogTornCache` |
| `WorkspaceFiles` | the file tools and other programs on one workspace | `SessionJournal` |
| `SessionLifecycle` | session directories, tombstones, archive document | `SessionLifecycle` |
| `LegacyImport` | conversion of a foreign session tree (uses `RecordTree`) | `SessionLifecycle` |
| `Terminal` | pseudo-terminals of one connection | `Liveness` |
| `RunQueue` | steering and follow-up input of one run | `DaemonState` |
| `EventSequence` | event numbers of one session across daemons | `DaemonState`, `EventSequenceShared` |
| `CallIdentity` | tool-call IDs across runs and recovery | `DaemonState`, `CallIdsReused` |
| `ProviderStore` | connection document and credential store | `DaemonState` |
| `AppStore` | application database and agent profiles | `DaemonState` |
| `Routing` | which providers and models a process offers and runs | `DaemonState` |
| `ToolGate` | a tool call from its profile to its effect | `DaemonState` |
| `DesktopBridge` | the desktop's calls to its daemons | `DaemonState`, `SessionLifecycle` |
| `ProviderTurn` | one turn at any of eight API families | `ProviderExecutor` |
| `SseDecoder` | the decoder of event streams | `ProviderExecutor` |
| `ProcessTree`, `OutputBudget` | processes and output of a tool execution | `ProviderExecutor`, `ExecutorJoin` |
| `DesktopInput` | synthetic input events | `ProviderExecutor` |
| `SessionOrder_proofs` | theorems about `EventSequence`, `CallIdentity`, `RunQueue`, `SessionLifecycle` | TLAPS |
| `Storage_proofs` | theorems about `SessionJournal`, `LegacyImport`, `ArtifactStore`, `SponsoredCatalog` | TLAPS |
| `Configuration_proofs` | theorems about `AppStore`, `ProviderStore`, `DesktopBridge`, `Routing` | TLAPS |
| `LocalEffects_proofs` | theorems about `OutputBudget`, `ProcessTree`, `DesktopInput`, `ToolGate`, `WorkspaceFiles` | TLAPS |
| `Terminal_proofs` | theorems about `Terminal` | TLAPS |
| `Provider_proofs` | theorems about `ProviderTurn`, `SseDecoder` | TLAPS |
| `MC*` | compositions for TLC, values of constants, symmetry sets | |

Five MC modules explore several parts in one run (`MCDaemonState`, `MCSessionJournal`,
`MCSessionLifecycle`, `MCProviderExecutor`, `MCLiveness`). Parts that share no variable and no step
gain nothing from being interleaved: a variable `part` is chosen in `Init` and kept, only
the chosen part moves, and the other parts begin in one fixed initial state so
that they do not multiply it. What *is* composed, is composed: `MCSessionLifecycle` runs the legacy
conversion first and lets its outcome decide whether an import may be published, and
`SessionJournal` and `LegacyImport` judge their journals by the same `RecordTree`.

### WriterLease

`claim` is what the path `writer.lock.d` denotes (owner, temporary files, age), `moved[p]`
the sibling a process renamed it to, `listening` the tokens whose listener accepts,
`flock` the holder of the advisory lock, `pc[p]` the next call of process `p`. Every
`rename`, `create_dir`, `metadata`, read and probe of the code is an action; all go *by
path*, so a process may write its temporary file into, or move away, a directory that
somebody else created meanwhile. `Advisory` selects `acquire_writer` (with the file
lock) or `acquire_session_coordination` (without). Listener and file lock die with the
process, directories do not. `ProbeOwner` may always answer "locked" (timeouts, a port
reused by an unrelated program); only a closed listener can be found refused. The error
paths that leave a half-made claim behind are kept.

Abstracted: permissions, symbolic links and malformed `owner.json` (error returns that
change nothing); clocks, except the grace (`GraceExpires`); with `GraceCovers = FALSE` an
initializer may be slower than the grace.

### AgentRun

`run` and `call` are what the journal says of each run and tool call; `active`, `task`,
`rpc`, `lock`, `pending`, `mailbox`, `connected` are the memory of the daemon; `ran` and
`acked` are history variables. An action of the task or of a handler is the code between
two awaits that matter: every durable append is a step, and the crash, the other party or
the loss of the client can come before and after it. `lifecycle` and `approvals` are one
lock (`lock`), because every resolver takes both, in that order. `rpc` is the one handler the
protocol loop is in. `Recover` appends the missing resolutions, results, messages,
terminal records and terminal events in the order of the code and may itself be cut
short by a crash. Consent is modelled by what the code does: `deliver` is the window
between the durable decision and the flush of its response; a response that cannot be
written becomes "undelivered" (`ApprovalResume::drop`).

Abstracted: texts, usage, images; `session_locked` errors (the lease is `WriterLease`'s);
the early error returns of a handler, which change nothing; the order of a batch (any
order); call IDs are fresh (`CallIdentity` is about reuse); a failed append
leaves nothing behind (`FaultTask`, `FaultFinalize`, `FaultHandler`); torn records are
`SessionJournal`'s. Queued input shows only as "another turn" (`RunQueue`).

### SessionJournal, RecordTree, ArtifactStore

The file is a header, a sequence of lines and perhaps a torn tail; what is synced and what only written
is kept apart, so that a crash of the daemon keeps every byte and a loss of power may
drop the unsynced ones. Every operation of `session.rs` that writes is an action: the appends of
a run, uploads, branch selection and compaction, recovery of an interrupted run, and tail recovery
with its backup file step by step. Clients observe a head and later ask for a branch or a compaction
against it. `RecordTree` holds the rules of the chain (ancestry, quiescence, the boundary a compaction
may retain, the projection a provider sees). `ArtifactStore` has the image files, the blocking threads
that write them and go on when their future is dropped, cancellation and the batch that names them.
Abstracted: contents of records; the two daemons take turns under the lease; readers' cursors; the artifacts
of a lost power supply.

### SessionLifecycle, LegacyImport

A directory has an identity, so that a path which another process moved, deleted or made again is told
apart from the directory that was opened. Create, write, list, archive, restore, delete, retry of a
delete, and publication of an import are sequences of steps under the locks of the code (the
coordination lease is an atomic lock that a dead process frees; its races are `WriterLease`'s).
`LegacyImport` loads entries one by one (parents, summaries, labels, changes of the leaf) and turns
each into records; its journals are judged by `RecordTree`.

### Terminal

One terminal has a child, a reader, an input writer, a waiter and a cleaner; the events go
through one bounded channel to the task that writes stdout. An attach raises a barrier, answers, replays
what is retained and lets live events through afterwards. The client may stop reading, vanish or
stay silent. An event is `late` when it was under way, to be sent or in the channel, at the moment the client saw the
response of an attach; `got` is what the client ever received, `events` what it received since that response and
not late. Shutdown of the connection closes every terminal under the fairness of section 4. Abstracted: bytes are
numbers, resize and the child's options are left out.

### ProviderStore, AppStore

`ProviderStore` takes create, update, rename, delete, discover and the key operations apart into
lock attempts, reads, clears of leaves and publications; two processes and crashes interleave at each of them,
and the aggregate file of the previous layout may still have to be moved. A running daemon keeps the
adapters it built. `AppStore` models statements under SQLite's isolation: a bootstrap, migration
or refusal per process, and profile requests that compare the revision inside their
transaction; runs freeze a profile.

### Routing, ToolGate

`Routing` derives, from what a process found when it started (environment, stored keys, connections,
installed routes, manifest), the mode it is in and what it announces (`initialize`), lists (`models/list`) and accepts
(`run/start`, and `run` on the command line). Keys, connections and routes change while the process lives.
`ToolGate` follows one call: offered, permitted by the profile of the run, preflight, decision, approval,
preflight again, work. Other programs rename directories and plant links at any step; the descriptors of
`path_boundary.rs` and the frozen identity of `hard_sandbox.rs` are modelled against names that move, and
the X screen may shrink or go. `file.edit`, `search.text` and a process resolve their path a third time
(`ResolveAgain`) and then use the name that this gave; `steady` remembers whether a name changed in between. A sandboxed
process changes into a path below the workspace it has mounted, following links: they lead into the workspace, into
one of the system directories of the sandbox (`System`), or nowhere (`SandboxDirectories`). A click connects and checks
the geometry (`ConnectDesktop`), then sends its events (`SendInput`; one by one in `DesktopInput`). Every binary of the
repository uses `headless_default`; `dangerous` is for programs that embed the library. `shell.exec`
goes the way of `process.exec`, `computer.screenshot` that of `computer.observe`.

### SponsoredCatalog, WorkspaceFiles

The cache holds a file per version and content and has no lock: a load lists it, asks the server, compares and
writes. Routes are edited under a lock that is only tried. `WorkspaceFiles` runs two tool calls on
a path whose file other programs grow: read through one descriptor, write and edit by a temporary file and a
rename, with failing system calls and an outage at the end.

### ProviderTurn, SseDecoder, ProcessTree, OutputBudget, DesktopInput

`ProviderTurn` lets the server send any frame of its family, stop or break off, and follows the parser
and `consume_provider_stream`; arguments are sequences of pieces one of which completes the object.
`SseDecoder` gets bytes in any pieces, and is compared with a reading of the whole stream.
`ProcessTree` is a process table with reused PIDs, told apart by start time; the guard samples it, signals
the group and what it tracked, and joins the outputs. A sample of /proc is one step, and so is the check
of a group's identity with the signal that follows. `OutputBudget` is the counter two readers share
without a lock. `DesktopInput` sends events that may fail with or without effect, for two threads, and compensates.

### DesktopBridge

Commands of the user interface hold the mutex of the connections to look up a connection or to start and greet one, and
`lifecycle` as readers or as the one that changes the configuration. A daemon dies, is silent or answers late. A request
is registered, waits for the writer of its connection (`TakeWriter`), is written (`WriteFrame`, when the daemon takes it
in, which may be never) or fails to be (`WriteFails`), and then has a deadline. Events of the daemon are not modelled.

### RunQueue, EventSequence, CallIdentity

`RunQueue` takes the `queues` mutex apart: `Enqueue` (durable), `PushItem` (memory),
`Respond`; the drains select everything in a queue under the lock, append one
`queue.consumed`, then one message per item, then remove the prefix; a fault in
between leaves the queue as it was. `EventSequence` has the cached counter of every
daemon, the lease holder and the journal's numbers, each with who gave it. `emit` fails before it has a number
(`FailLoad`: the journal cannot be read) or after (`FailAppend`), and so does the recovery that would number the terminal event
instead (`FailRecovery`); `behind` are the daemons that left a terminal event without a number while their counter was
set. `CallIdentity` has the
intents, results and messages of the whole session and the per-run `seen` set; its constant `Reuses` says
whether a provider gives a later run an ID again.

## 3. The runs

| run | bounds | shows |
|---|---|---|
| `WriterLease` | 3 processes, 4 tokens, any number of crashes, a slow initializer | `TakeoverSparesLive`, `ImplementsLock` |
| `AgentRun` | 2 runs, 2 calls, 2 turns, 2 crashes | consent, settled calls, cancellation, the end is last, `KeepsContract` |
| `AgentRunFaults` | 1 run, 2 calls, 2 turns, 2 attempts, 1 crash or loss of the event task, 1 failed append | one ending and one answer (`ConcludedOnce`), honesty, `RunEnds` |
| `DaemonState` | 2 processes or clients, 4 requests, 1 crash; 3 queue items, limit 2; 7 events, 2 failed reads or appends; 3 call IDs, 3 runs; 3 desktop calls, 2 daemons each, 1 fault; 9 environments; 1 tool call, 2 rebindings | nine invariants and `SteeringFirst`, of eight parts |
| `SessionJournal` | 9 lines, 1 run, 2 controls, 1 fault, 1 outage; 3 artifacts, 2 threads; 2 shells, 2 commands, 4 catalogues; 2 file calls | five invariants and three action properties, of four parts |
| `SessionLifecycle` | 2 processes, 2 directories, 5 requests, 2 crashes; 4 entries; 2 desktop calls | `DirectoriesSound`, `ImportFaithful`, `PendingDeleteEnds`, `CallsReturn` |
| `Liveness` | 2 processes, 3 tokens; 1 terminal, 2 bytes, channel of 2, 1 retained byte, 2 attaches | `EventsInOrder`, `CloseEnds`, `DeadClaimReclaimed` |
| `ProviderExecutor` | 8 families, 6 frames, 2 attempts; 6 bytes; 3 PIDs, 4 processes; limits 4 and 6; 2 interactions, 2 faults | five invariants, one per part |
| `EventSequenceShared` | 2 daemons | violated, see 6 |
| `CallIdsReused` | 3 IDs, 3 runs | violated, see 6 |
| `ExecutorJoin` | 3 PIDs, 3 processes | violated, see 6 |
| `CatalogTornCache` | 1 shell, 2 commands, 1 fault | violated, see 6 |

Why the bounds are enough. The lease races need an owner, a process that acts on an old
snapshot of it, and a third that creates a new claim in between: three processes. Fresh
tokens never run out while fewer are in use than there are. In `AgentRun` two runs give
a recovery between two lives of the session, two calls give a batch that is abandoned and
a batch over two turns, two crashes give a recovery that is itself interrupted (the orderly
exit after the loss of the client is not bounded at all). The queue limit of 2 is reached with three items.
Seven events leave room for two runs, a recovered run and the gaps of failed appends.
Nine journal lines hold a whole run with a call, a summary, a compaction and a branch back before it,
and one fault before one outage covers a torn line whose recovery loses its power. Two directories are
what a path that changes hands needs: the one that was opened and the one made in its place. Four
foreign entries give two branches of two. Four processes with three PIDs force a PID to be
used twice. Six bytes hold two events and a CRLF that is cut; the event limit of 4 is exceeded. Six frames open two interleaved tool
calls, fill and end them. A stale discovery or an adapter built long ago needs an old connection, its
removal and a new one of its name: `ProviderStore` gives four requests and two connections. In `AppStore`
a profile that reaches revision 3 is replaced twice, which is a lost update and the refusal at the maximum.
Two rebindings take a directory away and put a link in its place. Two attaches after the open and a channel of two
let the second be answered ahead of what the first has queued again; one retained byte of two lets output be cut from
the replay. Two failed reads or appends lose a terminal event and fail once more before the stale counter is used. The one
shell of `CatalogTornCache` excludes overlapping loads, which violate the property too but heal: the counterexample has to
be a load that fails. Each
property has at least one mutated definition that TLC must find under the same bounds, so none of them is too
small for its hazard.

Every bound is a constant named `Max...`. The models stop when they are used up, so deadlock is
checked only where nothing but the code stops the system: in `WriterLease` and `AgentRun`, where no
interleaving leaves everybody waiting. Elsewhere liveness properties stand for it.

Symmetry: processes, tokens, runs, calls, items, pictures, clients and URLs are only compared for
equality. In the composed runs the parts share model values, so that one permutation serves
all of them. Runs with liveness use no symmetry.

## 4. Fairness

`AgentRun`: weak fairness of `Task` (tokio polls a runnable task; provider streams, tools
and the approval deadline end) and of `Serve` (a handler that has started, and the shutdown
path); weak fairness of `Restart` (somebody starts the daemon again). Strong fairness
of `GetSession`: a client that keeps opening the session asks for it again and again, which is
what triggers recovery: nothing in the code recovers an interrupted run without being
asked. The client's other requests are not fair. `Crash`, `FailEventTask` and `Fault` are not fair and
bounded; the bound stands for "not for ever".

`WriterLease` (in `Liveness`): weak fairness of each process' own next call, of `GraceExpires` (time
passes), and strong fairness of a probe of a closed port being refused rather than
ambiguous. Contenders retry (`session_locked` is retryable). `DeadClaimReclaimed` further assumes
that some contender stays alive and that the grace covers an initializer. Nothing is assumed of `Restart` and `Crash`.

`Terminal`: weak fairness of the waiter (its child is killed, so it ends), of the cleaner and of the shutdown of each
terminal, and of the protocol loop, whose client takes its responses or hangs up. Nothing is assumed
of the child, of the reader or of the writing of events: `CloseEnds` holds against all of them.

`SessionLifecycle`: weak fairness of a process' steps once it has begun an operation, and of asking again for a
deletion whose tombstone is there (the client retries; the code finishes a deletion only
when asked). `DesktopBridge`: weak fairness of a call's own steps, which include its
deadlines; nothing of the daemons, and so nothing of `WriteFrame`, which waits for a daemon to read. `CallsReturn` promises
the end of every call whose request is written, and of all calls only on the condition that no write to a living
daemon blocks for ever (`AllWritten`).

In the composed runs each fairness conjunct carries its part, so that it asks nothing of the others.

## 5. What is proved

`WriterLease_proofs` holds for every set of processes and tokens and, unless stated, for both
modes and with or without the grace assumption:

* `TypeCorrect`: `TypeOK` is inductive.
* `WriterExclusion` (`Advisory`): a process that writes holds the advisory lock, because
  `LockAdvisory` is the only way to "writing" and only `UnlockAdvisory` and `Crash` of the
  holder free it. The portable claim plays no part: it can be lost (6), and
  the file lock still excludes. (No run lists it: `ImplementsLock` implies it.)
* `LeaseRefinesLock` (`Advisory`, states `ImplementsLock`): with the same invariant every step enters, leaves or
  stutters in `SessionLock`.
* `TakeoverSafety` (`TakeoverSparesLive`): the owner of a claim about to be removed is not listening. The
  inductive invariant adds that a token read from an `owner.json` or found in a directory
  belongs to a candidate that is dead or alive but never reborn (tokens are fresh while
  anything refers to them), so that a listener once closed stays closed for as long as its
  token can be read.

`AgentRun_proofs` holds for every set of runs and calls and every
bound, with or without failing event tasks (`NullAssumption`, `BoundAssumption`). Three inductive
invariants build on each other; TLC checked them on the instances of the runs before they
were proved.

* `TypeCorrect`: `TypeOK` alone is not inductive, because a handler dereferences the live run and
  a task dereferences its call. `TypeInv` adds what each place of the task and of the handlers
  has in hand (`Fits`, `RpcFits`), that the lock is held exactly at the places between two
  appends (`Held`), and that task, lock, pending approval and recovery are tied to the live
  run (`Bound`): recovery runs only while nothing is live, which is what separates the two
  writers of every terminal record and tool result.
* `EachConcludedOnce` (`ConcludedOnce`) is the next two together.
* `OneEnding` (`EndsOnce`): `EndsInv` says that a task before `finalize_run` belongs to a run
  without a terminal record, that the terminal event is still missing in "ending", and that
  the run a `run/start` handler recovers for has not been accepted.
* `OneAnswerEach` (`AnswersOnce`): `CallsInv` says that a call no message announced is untouched, that
  what is left of a batch is untouched and belongs to the live run, and that the call in
  hand has no result before "message" and exactly one there.
* `RunsKeepContract` (`KeepsContract`): with the three, every step is `Accept`, `Start` or `End` of
  `RunContract` or changes neither phase nor started calls. `AcceptRun` needs that recovery ended every
  accepted run; `StartTool` that the run of a task in "start" is open and its call not started.

Its second part goes on from these. Each theorem names the losses under which it still holds; where a
hypothesis is there, TLC has a counterexample without it, and section 6 tells what it means.

* `OutcomesAreHonest` (`HonestOutcome`): `HonestInv` says that an executed call was started and that its result,
  when there is one, is what the executor said or "unknown".
* `CancellationRespected` (`CancellationHolds`), as long as the event task lives or dies with the daemon
  (`~EventTaskFails`): `CancelInv` says that a durable cancellation is known to the live run or its handler stands
  between the append and the flag. When the event task fails, `select!` drops that handler in between.
* `ConsentBeforeStart` (`StartNeedsConsent`): `ConsentInv` follows a decision on its way from the handler that
  writes it (`DecisionSound`), through the entry of `approvals` (`PendingSound`) and the oneshot channel (`MailSound`), to the
  task. With the same invariant `DecidedOnce` (`~EventTaskFails`): one party decides a call.
* `AnsweredBeforeEnd` and `NothingAfterEnding` (`EndingIsLast`), without failed appends (`MaxFaults = 0`): `SettledInv` says that
  an open call belongs to a run that has not ended, and in a live run is the one in hand. A failed append leaves a call
  unanswered. `CallsAreSettled` (`CallsSettled`) puts this and `DecidedOnce` together.

`SessionOrder_proofs`, for any number of events, runs, calls and items:

* `NumbersIncrease` (`OnlyMissedRepeat`), for one daemon: a number is repeated, or gone below, only by an event whose counter
  had missed a terminal event, and only that of an event recovery numbered. `SequenceInv` says that a counter is ahead of all
  that its daemon numbered, and, unless it is behind, of the whole journal (`Ahead`), by one more while the next
  recovery has a run to number (`Room`). Two daemons violate strict order without any failure (`EventSequenceShared`).
* `RecoveryAccepts` (`NeverRefused`), where no provider reuses an ID (`~Reuses`; with reuse `CallIdsReused` violates it):
  `IdentityInv` ties the IDs seen by a run to the intents of the journal, and makes a batch new.
* `CompletionTakesAll` and `SteeringComesFirst` (`SteeringFirst`): `QueueInv` says whose hands the items are in at each
  place of handler and task, and that an acknowledged item is durable and waiting, in hand or injected.
* `QueuesStayOrdered` (`QueuesKeepOrder`): `OrderInv` says that a queue holds, behind what has left it, the next
  durable items of its kind in their order, and that the context has exactly those that left, without repetition or gap,
  and of the batch in hand those already injected. With the previous theorem nothing is missing at the end.
* `DirectoriesStaySound` (`DirectoriesSound`): `LifecycleInv` says of each request which leases it holds at its place (`JobsSound`),
  that the directory it opened is still there, as it was, and that the archive document it read is the one it replaces.
  `Spares` is what one process may do to what the others have in hand.

`Storage_proofs`:

* `PromisesAreKept` (`CommittedKept`) and `TailsAreBackedUp` (`TailBackedUp`): `JournalInv` says that a promise is synced, that
  an append belongs to an operation past the recovery of the tail, and that a tail about to be cut is in the backup.
* `NothingUnseenIsReplaced` (`NothingUnseen`): `UnseenInv` says of every record that is written, or about to be, that one made
  against a head follows that head. It is inductive on top of `JournalInv`.
* `BranchesAreWhole` (`BranchesStayWhole`): `Coherent` says of a journal that the parents of its records are earlier ones,
  that what concludes a run or a call has its beginning among its ancestors, and that a boundary a compaction
  retains cuts no call off. `TreeInv` says that the journal is coherent with whatever the operation in hand is about to
  append (`Coming`), and where the live run stands on the selected branch (`Starting`, `Accepted`, `Living`). What a chain
  holds is proved by induction over the line numbers.
* `ImportsAreFaithful` (`ImportFaithful`): `Stand` says of the leaf every loaded entry was given that its ancestry
  holds the records of the entry's ancestors and nothing else, `Building` what the entry being converted has appended so far.
* `NamedFilesStay` (`NamedFilesExist`): `ArtifactInv` says what each writing thread has already published and that the
  IDs it drew are its own, so that the cleanup of one batch takes nothing that another has named.
* `CatalogueNeverRollsBack` (`NoRollback`): `CatalogInv` says that what any load returned is named in the cache and that a
  load listed the names after it began. It is what remains of the promise when loads overlap (6).
* `RoutesStay` (`RoutesKeepOthers`): from the same invariant, the shell that publishes has read the document under the lock.

`Configuration_proofs`:

* `DatabaseStaysSound` (`DatabaseSound`): `AppInv` says of each open transaction what its remaining statements will make of
  the file (`TxSound`: a bootstrap goes on from the statement it is at; a replacement holds the next revision of the
  row it read), that only the writer has one that writes, and that what anybody got of a revision has one content.
* `NoKeyIsLost` (`StoreKeepsLast`): `StoreInv` says that the credential lock is held in the store, and which of aggregate
  file and directory counts at each place of the migration.
* `ConnectionsUseTheirOwn` (`ConnectionsOwn`): `OwnInv` says that no key of a name is older than a connection that has, or
  had, the name - in the document, in an adapter or in a request on its way - (it may be younger, 6), that a
  request which changes document or key keeps the document's lock until it has, and that the name it takes is cleared or
  about to be. A request without the lock may know the connection in an older revision; the revision tells.
* `AnswersStayCurrent` (`AnswersCurrent`): `BridgeInv` says that a change holds the lifecycle lock alone, that while none is
  underway no daemon has one to make and each that is in use read the configuration as it is (`BetweenChanges`), and
  that while one is, only its daemon has it, made at most once and answered with a result only when it was made
  (`DuringChange`). That rests on whose answer an entry of `pending` waits for (`AnswersMatch`) and on request numbers that
  are nowhere before they are sent (`NumbersFresh`).
* `OffersAreKept` (`OffersHold`): `RoutingInv` says that what a process has frozen is what one look at the files and its
  environment gave it (`FrozenWell`): its routes, its connections with distinct IDs and one adapter of their own, and
  nothing in the registry that came from elsewhere. From there each listed model is followed to the one adapter that
  takes it, and each accepted selection back to what lists it. The tables must be those of a program
  (`RoutingAssumption`: no two routes of one provider and family, IDs of relays and `faux` reserved as
  `provider_connection.rs:1530` does), and the hypothesis `ConfigAlone` excludes one environment of the conformance suite:
  a single-route configuration beside the endpoint of a family runner for another provider of the table, where
  `initialize` announces what `run/start` finds unavailable, or for the same provider and family, where two
  adapters match.

`LocalEffects_proofs`:

* `OutputIsAccounted` (`OutputAccounted`): `BudgetInv` says that the reserved bytes are those the two readers keep, and that a
  stream which leaves bytes out has used up a limit.
* `EffectsAreGated` (`EffectsGated`): `GateInv` carries admission and consent of a call, and what it has opened, to the
  effect. Its part `Steadied` says of a call whose path no one has touched since the last look that the path still leads
  into the workspace; for `file.read`, `file.write` and the sandbox nothing of the kind is needed (`OnItsWay`).
* `NothingIsLeftDown` (`NothingStaysPressed`): the invariant answers for every button and key that is down: either the server
  refused its release last, or the hand that pressed it has its release still before it, in the rest of its
  plan or in the compensation it is bound to begin; for finitely many modifiers.
* `GroupsAreSignalled` (`GroupSignalled`): `TreeInv` of the proofs says that the child has the first start time and its own
  group, that as long as it is not reaped whoever is in this group descends from it, that a plan kills before it
  reaps, and that after the kill of a cut execution nobody enters the group again.
* `VersionsAreWhole` (`WholeVersions`): `FilesInv` says that a named file is whole until an outage, that a half-made one
  is temporary and in the hands of the call that makes it, and that only an edit can be torn by an outage.

`Terminal_proofs`, for any number of terminals, bytes, channel places and retained bytes:

* `ExitComesLast` (`ExitAfterOutput`): whatever fails, closes or expires, the client hears of an exit only after every byte
  of the child went out. `Base` says who is at which place with which lock and what the channel can hold, `Order` that
  the events of a terminal in channel and writer are numbered upwards and that the exit is the last of them.
* `EventsKeepOrder` (`EventsInOrder`), for any number of attaches: between two responses of an attach the client receives
  retained and live output each once and upwards (`ReplayThenLive`), and whatever else arrives it had received before
  (`LateIsOld`). `Order` says of every terminal that what the client has seen, what is on its way and what a replay still has to send
  are numbered upwards, late events aside, and that together they leave out nothing that is retained. `Levels` is about the
  number an attach waits for, the highest one written: an event under it has been received, even when it is on its way
  again, and until the response is out it covers everything on its way. So only events that were received can be late.

`Provider_proofs`, for every API family, any number of indexes, IDs, argument pieces, frames and attempts, and for
any bytes (of valid UTF-8, 7), pieces and limit of an event:

* `MessagesAreAsSent` (`CommittedAsSent`): `TurnInv` links what the run has gathered to what the server has said. Under
  all families the calls of the turn are those of the server, under IDs that no other call has, and only ended ones are
  completed (`Gathered`). What keeps that true differs: a parser that addresses calls by an index or item ID must know the
  newest call of each (`Indexed`: Chat Completions, Messages, Responses, Codex), one that numbers calls must count them
  (Gemini), and one that keeps the calls until the end of the stream must have them as they were said (`KeptCalls`:
  Converse, whose turn gathers nothing before). The events of one frame, as many as there are open calls, are followed by
  induction over their number.
* `PiecesAreWhole` (`PiecesDontMatter`): `DecoderInv` says where an open decoder stands. Of the bytes it was given it has
  taken those up to a point where a reader of the stream is at the end of an event, and given the events up to there; it
  holds the rest, in which there is no empty line and no more bytes than an event may have. `Along` compares a scan of such
  a rest, line by line, with the reader, byte by byte: at the end of a line, inside a CRLF, and inside a line. A CR at the
  end of the buffer is where they part for a byte: the decoder has ended the event, and the LF that may follow is an empty
  event for it and the other half of the CRLF for the reader, so that both are at the end of the same event again.

The constants' assumptions are those of an encoding (`None`, `NoRun`, `Absent`, "torn" are not among the real
values) or of the code: bounds are numbers, call IDs are finitely many, and an image key's leaf is named by a fresh identity that no
provider ID equals (comment at `provider_connection.rs:1590`).

Model-checked only: liveness (`RunEnds`, `CloseEnds`, `DeadClaimReclaimed`, `PendingDeleteEnds`, `CallsReturn`), as the provers here
know neither fairness nor ENABLED. Every invariant and every other action property of a passing run is stated by a theorem.
Induction over data is possible: the library's induction theorems take an operator, but the least element of a set of
numbers (`WFMin` with `NatLessThanWellFounded`) does not, and the proofs about chains, queues, replays, the events of a
frame and the bytes of a stream use that. What `SseDecoder` computes byte by byte is therefore written with recursive functions.

## 6. Divergences between code and documentation

Four have a run of their own whose counterexample shows them; `PROJECT.json` quotes the lines.

* `EventSequenceShared`: the counter of `emit` is set from the journal once; after another daemon
  has written events the numbers regress and `snapshot` calls the journal corrupt. One daemon alone comes to
  the same when the journal cannot be loaded for a terminal event (`agent.rs:2553`): recovery numbers that event, the
  counter does not learn of it, and the next event repeats the number. `DaemonState` reaches this; it is the
  exception in `OnlyMissedRepeat`, which says that there is no other.
* `CallIdsReused`: IDs are checked per run and keyed per session by recovery. With reuse
  `NeverRefused` fails as well: the session cannot be recovered any more.
* `ExecutorJoin`: a child that forks and ends between two samples of /proc is reaped before anybody knows its
  group; what it left is not signalled and keeps the pipe that `join_output` waits for, past the
  timeout and deaf to cancellation.
* `CatalogTornCache`: a load that dies while it writes its cache file leaves a torn one under the name
  of the catalogue; later loads take the name for the content, and none replaces it. (Two loads that overlap
  show the same for as long as the first is still writing.)

Seen while modelling, without a run. Agent and session:

* without the advisory lock (session delete and coordination) the portable claim does not exclude: a contender
  that inspected a dead claim can move a fresh, live claim out of the way, and before it is
  restored a third process creates its own; `prepare_release` checks the token and renames by path, so it
  can move away a claim that changed hands in between (`writer_lease.rs:142-160`);
* when the event task fails, `select!` drops `approval/respond` after its durable decision and
  before the entry is removed, and the shutdown path resolves it again;
* an undelivered approval response ends the run with the rest of the batch unanswered; a crash between the
  assistant message and the intents does the same, and recovery knows intents only;
* `run/cancel` answers "terminal" for any run that was accepted and is not active here, ended or
  not (`agent.rs:881-887`); a failed append ends the run as `failed`, where
  `SPEC/agent-state-machine.md:52-54` asks for a recovery as interrupted (`agent.rs:786-797`);
* a header torn by a crash is refused by every later open, though creation is documented as idempotent
  (`session.rs:418`, the comment at 364); a second compaction may retain a boundary that lies before the first
  one's (comment at `session.rs:2814`); uploads and the faux configuration append without recovering an
  interrupted run first;
* publishing an import does not look for a tombstone, though an interrupted deletion of the same ID is said to be
  continuable (`session_lifecycle.rs:205`): a new session may then stand beside the tombstone and the deletion
  stays unfinished (hence the exception in `PendingDeleteEnds`).

Terminal, providers and desktop:

* a second re-attach of a terminal may succeed before the events that the first one queued again have gone out: it waits for
  a water mark that those events had already raised when they were first written (`terminal.rs:777`), where the
  comment at 756 says that all old events are flushed before. After its response the client gets the rest of the first
  replay, output it has had before, ahead of the second replay. It gets nothing else out of order (`LateIsOld`);
* keys are found by provider ID at the time they are used: after a connection was deleted and another created under its
  ID, the adapter or a discovery of the first sends the key set for the second to the first one's endpoint
  (`provider_connection.rs:764-771`, `provider_connection.rs:1123-1126`). `ConnectionsOwn` excludes only the older key;
* the shutdown of a connection does not wait for the last announcement of a terminal that another close
  has already marked closed (`terminal.rs:1344`, the comment above 918 says it does); a client that
  does not take the response of an attach keeps its barrier up (`terminal.rs:1206`);
* `consume_provider_stream` accepts deltas before `message.started` (`SPEC/protocol.md:229-231`); usage is summed
  although Google's is cumulative (`google.rs:376`, `agent.rs:2364`); an empty argument text fails the turn
  (`anthropic.rs:298`);
* a relay of an installed route is announced by `initialize`, but `run/start` knows no such provider
  (`SPEC/protocol.md:53`, `daemon.rs:700-729`, `agent.rs:261`); `ExecutableRouteProvider` does not pass on
  `supports_image_input`, so a model listed with image input refuses images (`provider_route.rs:343-419`,
  `agent.rs:435`, `SPEC/protocol.md:52`); a legacy adapter given its fixed family is refused (`provider_route.rs:631`);
* overlapping catalogue loads may accept an older version or another content of the same one, which the comment
  at `sponsored_catalog.rs:184` excludes; `source.json` is missing for a moment in `atomic_replace_file`;
* a change of a connection may answer "locked" after it was published (`provider_connection.rs:713`);
* the desktop bridge's deadline covers the wait for an answer and not the write of the request
  (`application_service_bridge.rs:168-175`, where the comment at 140 speaks of 30 seconds): a daemon that does not read its input
  keeps the call that writes to it, every call that waits for that writer or, during a greeting, for the map of
  connections, and through the fair `lifecycle` lock every call after the next change of the configuration.

Tools: the directory of a path that goes by name may be replaced by a link after the last look at it, and `file.edit`,
`search.text` or a process without a sandbox then works where the link leads (`tools.rs:586-655`, `tools.rs:824`); in
the sandbox `--chdir` follows such a link into the mounted system directories (`hard_sandbox.rs:285-297`). The events of
a click follow the check of the screen's geometry in separate requests (`computer.rs:596-616`), so that it may land on
a screen that has changed. Two `file.edit` calls may lose an update (comment at `tools.rs:583`); `file.write` answers an error after its
rename when the sync of the parent fails; an edit is not synced; the temporary file of a failed edit stays.

## 7. Not modelled

*Not at all*: the .NET implementation and the conformance suite (other programs), the React front end, protocol and domain
types (data and strict decoding, no state).

*Of modelled components*: wire encodings, signatures and request bodies; the texts of messages, image
resolution and usage totals; resize and options of terminals; the prompts of the auth commands; the picture
decoder; the consistency checks of the frozen manifest; the texts and artifact files of an import; the
barriers the conformance suite sets in `path_boundary.rs` and the self-test of the sandbox.

*Limits of the models*: `DesktopInput` has no crash in the middle of a chord (the X server would keep the keys
down, and nothing in the code undoes it); `ArtifactStore` has no loss of power, and `WorkspaceFiles` ends with it;
`ProcessTree` takes a sample of /proc in one step; `SseDecoder` gets valid UTF-8 only, not the bytes that make `sse.rs`
fail (lines 110 and 389); `ProviderTurn` takes the indexes of a family and its call IDs from sets that have no member in
common; `AgentRun` has no channel of events, so that `RunEnds` assumes that `events.send`, awaited under the
lifecycle lock, ends (the event task empties the channel or dies); the fairness of the loop in `Terminal` includes
its response, which a client may leave untaken until the connection ends (`terminal.rs:1206`); `Routing` has one custom provider ID
(two are the same code twice); sessions, profiles and paths come one at a time where nothing
in the code relates two of them.

## 8. Plan

1. An abstract `SessionLog` (immutable records and a selected head) that `SessionJournal` refines.
2. Resize in `Terminal`; a crash inside a chord in `DesktopInput`.
