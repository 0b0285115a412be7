---------------------------- MODULE DesktopBridge ----------------------------
(***************************************************************************)
(* The desktop shell's bridge to its daemons                               *)
(* (ui/src-tauri/src/application_service_bridge.rs) and their protocol     *)
(* loop (daemon.rs). The commands of the user interface share one daemon   *)
(* per backend; both backends work on one state root, whose configuration  *)
(* a daemon reads when it starts.                                          *)
(***************************************************************************)
EXTENDS Naturals, Sequences, FiniteSets
LOCAL INSTANCE SequencesExt

CONSTANTS Commands,     \* calls of the user interface in progress
          Backends,     \* BackendKind
          NoOne,
          MaxIssued, MaxSpawns, MaxBreaks \* bounds: calls, daemons, faults

ASSUME BridgeAssumption ==
    /\ NoOne \notin Commands
    /\ MaxIssued \in Nat /\ MaxSpawns \in Nat /\ MaxBreaks \in Nat

VARIABLES config,       \* version of the provider configuration on disk
          daemons,      \* every daemon ever started, with its connection
          connections,  \* state.connections: backend -> daemon, 0 for none
          mapHolder,    \* who holds the mutex of connections
          lifecycle,    \* state_lifecycle: its holders and its waiters
          command,      \* the calls
          issued, breaks
bridgeVars == <<config, daemons, connections, mapHolder, lifecycle, command, issued, breaks>>

NoDaemon_ == 0
Silent == [from |-> NoDaemon_, kind |-> "none"]
Resting_ == [pc |-> "idle", kind |-> "none", backend |-> NoOne, daemon |-> NoDaemon_,
             greeting |-> FALSE, request |-> 0, answer |-> Silent]

BridgeInit ==
    /\ config = 0 /\ daemons = <<>> /\ connections = [b \in Backends |-> NoDaemon_]
    /\ mapHolder = NoOne /\ lifecycle = [readers |-> {}, writer |-> NoOne, queue |-> <<>>]
    /\ command = [c \in Commands |-> Resting_] /\ issued = 0 /\ breaks = 0

-----------------------------------------------------------------------------
Started(version) ==
    [snapshot |-> version, dead |-> FALSE, stored |-> FALSE, healthy |-> TRUE, reader |-> "reading",
     requests |-> 0, pending |-> {}, inbox |-> <<>>, outbox |-> <<>>]
Gone == [Started(0) EXCEPT !.dead = TRUE, !.healthy = FALSE, !.reader = "drained"]

\* A connection lives as long as the map or a call has it; then its process
\* group is killed (Drop for ManagedChild). What its reader still reads
\* reaches nobody and is left out.
Survivors ==
    [d \in DOMAIN daemons |->
        IF \/ \E b \in Backends : connections'[b] = d
           \/ \E c \in Commands : (command')[c].daemon = d
        THEN daemons[d] ELSE Gone]

CallAt(c, pc) == command[c].pc = pc
Change(c) == command[c].kind = "change"
Moves(c, pc) == command' = [command EXCEPT ![c].pc = pc]
Break == breaks < MaxBreaks /\ breaks' = breaks + 1

\* application_service_initialize, application_service_request, provider_credential_*.
Issue(c) ==
    /\ CallAt(c, "idle") /\ issued < MaxIssued /\ issued' = issued + 1
    /\ \E kind \in {"initialize", "ask", "change"}, b \in Backends :
         command' = [command EXCEPT ![c] = [Resting_ EXCEPT !.pc = "gate", !.kind = kind, !.backend = b]]
    /\ lifecycle' = [lifecycle EXCEPT !.queue = Append(@, c)]
    /\ UNCHANGED <<config, daemons, connections, mapHolder, breaks>>

\* The read-write lock is fair: who waits is admitted in order.
EnterLifecycle(c) ==
    /\ CallAt(c, "gate") /\ Head(lifecycle.queue) = c /\ lifecycle.writer = NoOne
    /\ Change(c) => lifecycle.readers = {}
    /\ lifecycle' = [queue |-> Tail(lifecycle.queue),
                     readers |-> IF Change(c) THEN {} ELSE lifecycle.readers \cup {c},
                     writer |-> IF Change(c) THEN c ELSE NoOne]
    /\ Moves(c, "ensure")
    /\ UNCHANGED <<config, daemons, connections, mapHolder, issued, breaks>>

Leaves(c) ==
    /\ command' = [command EXCEPT ![c] = Resting_]
    /\ lifecycle' = [lifecycle EXCEPT !.readers = @ \ {c}, !.writer = IF @ = c THEN NoOne ELSE @]

\* What the first connection told of itself is kept for later calls.
Found(c, d) ==
    [command EXCEPT ![c].daemon = d, ![c].greeting = FALSE,
        ![c].pc = IF command[c].kind = "initialize" THEN "answered" ELSE "look",
        ![c].answer = IF command[c].kind = "initialize" THEN [from |-> d, kind |-> "result"] ELSE Silent]

\* ensure_connection: a healthy connection is used again.
Reuse(c) ==
    LET d == connections[command[c].backend]
    IN  /\ CallAt(c, "ensure") /\ mapHolder = NoOne
        /\ d # NoDaemon_ /\ daemons[d].healthy
        /\ command' = Found(c, d)
        /\ UNCHANGED <<config, daemons, connections, mapHolder, lifecycle, issued, breaks>>

\* Else a daemon is started and greeted under the mutex of the map.
SpawnConnection(c) ==
    LET b == command[c].backend
    IN  /\ CallAt(c, "ensure") /\ mapHolder = NoOne
        /\ connections[b] # NoDaemon_ => ~daemons[connections[b]].healthy
        /\ connections' = [connections EXCEPT ![b] = NoDaemon_]
        /\ \/ /\ Len(daemons) < MaxSpawns
              /\ command' = [command EXCEPT ![c].daemon = Len(daemons) + 1, ![c].greeting = TRUE,
                                            ![c].pc = "look"]
              /\ daemons' = Append(Survivors, Started(config))
              /\ mapHolder' = c /\ UNCHANGED <<lifecycle, breaks>>
           \/ Break /\ Leaves(c) /\ daemons' = Survivors /\ UNCHANGED mapHolder
        /\ UNCHANGED <<config, issued>>

-----------------------------------------------------------------------------
\* DaemonConnection::request: a look at healthy, the waiter, then the frame.
Fails_(c) == command' = [command EXCEPT ![c].pc = "answered", ![c].answer = Silent]

LookHealthy(c) ==
    /\ CallAt(c, "look")
    /\ IF daemons[command[c].daemon].healthy THEN Moves(c, "register") ELSE Fails_(c)
    /\ UNCHANGED <<config, daemons, connections, mapHolder, lifecycle, issued, breaks>>

Register(c) ==
    LET d == command[c].daemon
        n == daemons[d].requests + 1
    IN  /\ CallAt(c, "register")
        /\ daemons' = [daemons EXCEPT ![d].requests = n, ![d].pending = @ \cup {<<n, c>>}]
        /\ command' = [command EXCEPT ![c].pc = "write", ![c].request = n]
        /\ UNCHANGED <<config, connections, mapHolder, lifecycle, issued, breaks>>

Waiter(c) == <<command[c].request, c>>
Frame(c) == [id |-> command[c].request, kind |-> IF command[c].greeting THEN "initialize" ELSE command[c].kind]

\* One call at a time writes to a daemon.
TakeWriter(c) ==
    /\ CallAt(c, "write")
    /\ \A o \in Commands : CallAt(o, "send") => command[o].daemon # command[c].daemon
    /\ Moves(c, "send")
    /\ UNCHANGED <<config, daemons, connections, mapHolder, lifecycle, issued, breaks>>

\* The daemon takes the frame in, when it comes to read its input: there is no
\* deadline before that.
WriteFrame(c) ==
    LET d == command[c].daemon
    IN  /\ CallAt(c, "send") /\ ~daemons[d].dead
        /\ daemons' = [daemons EXCEPT ![d].inbox = Append(@, Frame(c))]
        /\ IF Waiter(c) \in daemons[d].pending THEN Moves(c, "wait") ELSE Fails_(c)
        /\ UNCHANGED <<config, connections, mapHolder, lifecycle, issued, breaks>>

WriteFails(c) ==
    LET d == command[c].daemon
    IN  /\ CallAt(c, "send") /\ daemons[d].dead
        /\ daemons' = [daemons EXCEPT ![d].pending = @ \ {Waiter(c)}, ![d].healthy = FALSE]
        /\ Fails_(c)
        /\ UNCHANGED <<config, connections, mapHolder, lifecycle, issued, breaks>>

\* Mutant: a connection that is known to be broken needs no deadline.
ExpiredIfHealthy(c) == daemons[command[c].daemon].healthy

\* Thirty seconds may pass at any time.
Expired(c) == TRUE

TimeOut(c) ==
    LET d == command[c].daemon
    IN  /\ CallAt(c, "wait") /\ Expired(c)
        /\ daemons' = [daemons EXCEPT ![d].pending = @ \ {Waiter(c)}]
        /\ Fails_(c)
        /\ UNCHANGED <<config, connections, mapHolder, lifecycle, issued, breaks>>

\* spawn_connection: the greeting's answer, or no connection at all.
Greeted(c) ==
    LET d == command[c].daemon
    IN  /\ CallAt(c, "answered") /\ command[c].greeting
        /\ IF command[c].answer.kind = "result"
           THEN /\ connections' = [connections EXCEPT ![command[c].backend] = d]
                /\ command' = Found(c, d) /\ UNCHANGED lifecycle
           ELSE Leaves(c) /\ UNCHANGED connections
        /\ mapHolder' = NoOne /\ daemons' = Survivors
        /\ UNCHANGED <<config, issued, breaks>>

\* Mutant: the other backend keeps its connection.
GivenUpOwn(c) == [connections EXCEPT ![command[c].backend] = NoDaemon_]

GivenUp(c) == [b \in Backends |-> NoDaemon_]

\* A change gives up every connection, whatever its answer was.
ReturnAnswer(c) ==
    /\ CallAt(c, "answered") /\ ~command[c].greeting
    /\ IF Change(c) THEN mapHolder = NoOne /\ connections' = GivenUp(c) ELSE UNCHANGED connections
    /\ Leaves(c) /\ daemons' = Survivors
    /\ UNCHANGED <<config, mapHolder, issued, breaks>>

-----------------------------------------------------------------------------
\* The daemon handles its frames one after another: the change is on disk
\* before the answer is written. A greeting that fails ends the daemon.
Handle(d) ==
    /\ ~daemons[d].dead /\ daemons[d].inbox # <<>>
    /\ LET frame == Head(daemons[d].inbox)
           handled(ok) == [daemons EXCEPT
               ![d].inbox = Tail(@), ![d].stored = FALSE,
               ![d].outbox = Append(@, [id |-> frame.id, kind |-> IF ok THEN "result" ELSE "error"]),
               ![d].dead = frame.kind = "initialize" /\ ~ok]
       IN  \/ /\ frame.kind = "change" /\ ~daemons[d].stored
              /\ config' = config + 1 /\ daemons' = [daemons EXCEPT ![d].stored = TRUE]
              /\ UNCHANGED breaks
           \/ /\ frame.kind = "change" => daemons[d].stored
              /\ daemons' = handled(TRUE) /\ UNCHANGED <<config, breaks>>
           \/ /\ ~daemons[d].stored /\ Break /\ daemons' = handled(FALSE) /\ UNCHANGED config
    /\ UNCHANGED <<connections, mapHolder, lifecycle, command, issued>>

DaemonBreaks(d) ==
    /\ ~daemons[d].dead /\ Break /\ daemons' = [daemons EXCEPT ![d].dead = TRUE]
    /\ UNCHANGED <<config, connections, mapHolder, lifecycle, command, issued>>

\* reader_loop, handle_frame: an answer nobody waits for any more is dropped.
HandleFrame(d) ==
    /\ daemons[d].reader = "reading" /\ daemons[d].outbox # <<>>
    /\ LET frame == Head(daemons[d].outbox)
           waiters == {w \in daemons[d].pending : w[1] = frame.id}
       IN  /\ daemons' = [daemons EXCEPT ![d].outbox = Tail(@), ![d].pending = @ \ waiters]
           /\ command' = [c \in Commands |->
                  IF <<frame.id, c>> \in waiters
                  THEN [command[c] EXCEPT !.pc = "answered", !.answer = [from |-> d, kind |-> frame.kind]]
                  ELSE command[c]]
    /\ UNCHANGED <<config, connections, mapHolder, lifecycle, issued, breaks>>

\* The end of the stream, or a frame that is no answer and no event.
ReaderEnds(d) ==
    /\ daemons[d].reader = "reading"
    /\ \/ daemons[d].dead /\ daemons[d].outbox = <<>> /\ UNCHANGED breaks
       \/ Break
    /\ daemons' = [daemons EXCEPT ![d].reader = "ended", ![d].healthy = FALSE]
    /\ UNCHANGED <<config, connections, mapHolder, lifecycle, command, issued>>

\* Then all who wait are told. A call that had looked at healthy before may
\* still register, and one that is about to write finds the answer there.
DrainPending(d) ==
    /\ daemons[d].reader = "ended"
    /\ daemons' = [daemons EXCEPT ![d].reader = "drained", ![d].pending = {}]
    /\ command' = [c \in Commands |->
           IF CallAt(c, "wait") /\ command[c].daemon = d /\ Waiter(c) \in daemons[d].pending
           THEN [command[c] EXCEPT !.pc = "answered", !.answer = Silent] ELSE command[c]]
    /\ UNCHANGED <<config, connections, mapHolder, lifecycle, issued, breaks>>

BridgeStep(c) ==
    \/ EnterLifecycle(c) \/ Reuse(c) \/ SpawnConnection(c) \/ LookHealthy(c) \/ Register(c)
    \/ TakeWriter(c) \/ WriteFails(c) \/ TimeOut(c) \/ Greeted(c) \/ ReturnAnswer(c)

BridgeNext ==
    \/ \E c \in Commands : Issue(c) \/ BridgeStep(c) \/ WriteFrame(c)
    \/ \E d \in DOMAIN daemons :
         Handle(d) \/ DaemonBreaks(d) \/ HandleFrame(d) \/ ReaderEnds(d) \/ DrainPending(d)

\* The runtime runs every call that can go on, and its timers expire. Nothing
\* makes a daemon read its input.
BridgeFairness == \A c \in Commands : WF_bridgeVars(BridgeStep(c))

BridgeSpec == BridgeInit /\ [][BridgeNext]_bridgeVars /\ BridgeFairness

-----------------------------------------------------------------------------
(* An answer comes from a daemon that knows the configuration as it is: the *)
(* daemons of both backends are given up with every change, also when its   *)
(* answer was late or lost; and a change that was answered is on disk.      *)
AnswersCurrent ==
    \A c \in Commands :
      LET d == command[c].answer.from
      IN  CallAt(c, "answered") /\ command[c].answer.kind = "result" /\ ~command[c].greeting =>
            config = daemons[d].snapshot + (IF Change(c) THEN 1 ELSE 0)

(* A call whose request is written returns, whatever dies or stays silent;  *)
(* and if no write to a living daemon blocks for ever, every call of the    *)
(* user interface does. The thirty seconds do not cover the write: a daemon *)
(* that never reads its input keeps the call that writes to it.             *)
AllWritten == \A c \in Commands : []<>~CallAt(c, "send")
CallsReturn ==
    /\ \A c \in Commands : CallAt(c, "wait") /\ ~command[c].greeting ~> CallAt(c, "idle")
    /\ AllWritten => \A c \in Commands : CallAt(c, "gate") ~> CallAt(c, "idle")
=============================================================================
