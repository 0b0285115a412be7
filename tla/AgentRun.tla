------------------------------ MODULE AgentRun ------------------------------
(***************************************************************************)
(* The life of the runs of one session in the Rust daemon: the agent task  *)
(* (rust/src/agent.rs), the RPC handlers that race with it (run/start,     *)
(* approval/respond, run/cancel, session/get, the stdio shutdown path of   *)
(* rust/src/daemon.rs), and the recovery of an interrupted journal         *)
(* (recover_interrupted, rust/src/session.rs).                             *)
(*                                                                         *)
(* Every durable append is a step of its own, because each is an await     *)
(* point of the code: the other party, a crash or the loss of the client   *)
(* can come in between. RunControl.lifecycle and RunControl.approvals are  *)
(* one lock here: every resolver takes them together, in that order.       *)
(***************************************************************************)
EXTENDS Naturals, Sequences, FiniteSets

CONSTANTS
  Runs,         \* run IDs of the session
  Calls,        \* tool-call IDs the provider may use
  NoRun,
  NoCall,
  MaxTurns,     \* MAX_TOOL_TURNS
  MaxAttempts,  \* provider_max_attempts()
  MaxCrashes,   \* bound on the deaths of the daemon or of its event task
  MaxFaults,    \* bound on the journal appends that fail cleanly
  EventTaskFails \* TRUE: the task that writes events to stdout may fail, which
                 \* drops the RPC handler in progress at its await point

ASSUME NullAssumption == NoRun \notin Runs /\ NoCall \notin Calls
ASSUME BoundAssumption ==
  /\ MaxTurns \in Nat \ {0} /\ MaxAttempts \in Nat \ {0}
  /\ MaxCrashes \in Nat /\ MaxFaults \in Nat
  /\ EventTaskFails \in BOOLEAN

VARIABLES
  run,       \* journal: what it says of each run
  call,      \* journal: what it says of each tool call
  active,    \* Agent::active: the one live RunControl
  task,      \* the spawned agent task (execute_run, then finalize_run)
  rpc,       \* the protocol loop and the handler it is in
  lock,      \* who holds RunControl.lifecycle and approvals
  pending,   \* RunControl.approvals: the call that waits for a decision
  mailbox,   \* the oneshot between a resolver and the waiting task
  connected, \* Agent::approval_responder_connected
  ran,       \* history: calls whose executor produced its side effect
  acked,     \* history: calls whose allow_once response was flushed
  crashes, faults

journal  == <<run, call>>
history  == <<ran, acked>>
approval == <<pending, mailbox>>
vars == <<run, call, active, task, rpc, lock, pending, mailbox, connected,
          ran, acked, crashes, faults>>

-----------------------------------------------------------------------------
Ends    == {"completed", "failed", "cancelled", "interrupted"}
Choices == {"allow_once", "deny"}
Intents == {"rejected", "denied", "started", "awaiting_approval"}

\* What the journal says of a run: run.accepted, run.cancellation_requested,
\* run.terminal records, and terminal events.
NewRun == [accepted |-> FALSE, cancels |-> 0, terminals |-> <<>>, endings |-> <<>>]

\* What it says of a call: the run whose assistant message announced it, its
\* tool.intent, approval.requested, approval.resolved, the tool.started event,
\* tool.result and the tool message.
NewCall == [owner |-> NoRun, intent |-> "none", asked |-> FALSE, resolutions |-> <<>>,
            started |-> FALSE, results |-> <<>>, messages |-> 0]

NoActive == [run |-> NoRun, cancelled |-> FALSE, terminal |-> FALSE, token |-> FALSE]
NoTask == [pc |-> "none", turn |-> 0, attempt |-> 0, batch |-> {}, call |-> NoCall,
           stopped |-> FALSE, undelivered |-> FALSE, outcome |-> "none"]
Handler(p) == [pc |-> p, run |-> NoRun, choice |-> "none"]

theRun  == active.run
theCall == task.call

Ended(x)      == run[x].terminals # <<>>
Unanswered(x) == call[x].intent # "none" /\ call[x].results = <<>>

\* Appends to the journal.
RecordRun(x, rec)  == run' = [run EXCEPT ![x] = rec] /\ UNCHANGED call
RecordCall(x, rec) == call' = [call EXCEPT ![x] = rec] /\ UNCHANGED run
Resolve(x, choice) == RecordCall(x, [call[x] EXCEPT !.resolutions = Append(@, choice)])

Step(from, to) == task.pc = from /\ task' = [task EXCEPT !.pc = to]

\* execute_run returns: queues close, finalize_run follows.
Finish(from, outcome) ==
  /\ task.pc = from
  /\ task' = [NoTask EXCEPT !.pc = "finalize", !.outcome = outcome]

\* The call ends without having been executed; `stop` when that is a cancellation.
Refuse(from, stop) ==
  /\ task.pc = from
  /\ task' = [task EXCEPT !.pc = "result", !.stopped = @ \/ stop]

Reply(from, to) == rpc.pc = from /\ rpc' = Handler(to)

Quiet == UNCHANGED <<connected, history, crashes, faults>>
\* A task step that touches neither the journal nor the handlers.
Alone == UNCHANGED <<run, call, active, rpc, lock, pending, mailbox>> /\ Quiet

-----------------------------------------------------------------------------
Init ==
  /\ run = [x \in Runs |-> NewRun]
  /\ call = [x \in Calls |-> NewCall]
  /\ active = NoActive /\ task = NoTask /\ rpc = Handler("idle")
  /\ lock = "free" /\ pending = NoCall /\ mailbox = "none" /\ connected = TRUE
  /\ ran = {} /\ acked = {}
  /\ crashes = 0 /\ faults = 0

-----------------------------------------------------------------------------
(* The agent task: execute_run. *)

(* Top of the turn loop: cancelled, out of turns, or turn.started. *)
BeginTurn ==
  /\ \/ /\ active.token
        /\ Finish("turn", "cancelled")
     \/ /\ ~active.token /\ task.turn = MaxTurns
        /\ Finish("turn", "failed")
     \/ /\ ~active.token /\ task.turn < MaxTurns
        /\ task.pc = "turn"
        /\ task' = [task EXCEPT !.pc = "attempt", !.turn = @ + 1, !.attempt = 1]
  /\ Alone

(* provider.stream(): opened, retryable failure with attempts left, or error. *)
StartProvider ==
  /\ \/ Step("attempt", "stream")
     \/ task.attempt < MaxAttempts /\ Step("attempt", "backoff")
     \/ \E e \in {"failed", "interrupted"} : Finish("attempt", e)
     \/ active.token /\ Finish("attempt", "cancelled")
  /\ Alone

(* The delay of retry.scheduled, cut short by cancellation (biased select). *)
Backoff ==
  /\ \/ /\ active.token
        /\ Finish("backoff", "cancelled")
     \/ /\ ~active.token /\ task.pc = "backoff"
        /\ task' = [task EXCEPT !.pc = "attempt", !.attempt = @ + 1]
  /\ Alone

(* consume_provider_stream: the stream breaks, is cancelled, ends the run's  *)
(* work, or ends in a batch of calls with IDs never seen before; the         *)
(* assistant message that announces the batch is durable before any intent.  *)
ConsumeStream ==
  \/ /\ \/ active.token /\ Finish("stream", "cancelled")
        \/ \E e \in {"failed", "interrupted"} : Finish("stream", e)
        \/ Step("stream", "drain")
     /\ Alone
  \/ \E batch \in SUBSET {x \in Calls : call[x].owner = NoRun} :
       /\ batch # {}
       /\ task.pc = "stream"
       /\ task' = [task EXCEPT !.pc = "next", !.batch = batch]
       /\ call' = [x \in Calls |-> IF x \in batch THEN [call[x] EXCEPT !.owner = theRun]
                                                  ELSE call[x]]
       /\ UNCHANGED <<run, active, rpc, lock, pending, mailbox>> /\ Quiet

(* drain_completion_queue: queued input starts another turn (module          *)
(* RunQueue), or the queues are closed and the run is complete.              *)
DrainCompletion ==
  /\ Step("drain", "turn") \/ Finish("drain", "completed")
  /\ Alone

-----------------------------------------------------------------------------
(* execute_tool_call *)

(* Calls run one after the other; cancellation is looked at under the lock,  *)
(* before the intent is written.                                             *)
NextCall ==
  /\ task.pc = "next" /\ lock = "free"
  /\ \E x \in task.batch :
       task' = [task EXCEPT !.pc = IF active.cancelled \/ active.terminal
                                   THEN "intent_cancelled" ELSE "intent",
                            !.call = x, !.batch = @ \ {x}]
  /\ Alone

(* tool.intent with the disposition of preflight and policy; a policy asks   *)
(* only while somebody is there to answer.                                   *)
WriteIntent ==
  /\ \/ /\ Refuse("intent", FALSE)
        /\ \E status \in {"rejected", "denied"} :
             RecordCall(theCall, [call[theCall] EXCEPT !.intent = status])
     \/ /\ Refuse("intent_cancelled", TRUE)
        /\ RecordCall(theCall, [call[theCall] EXCEPT !.intent = "rejected"])
     \/ /\ Step("intent", "start")
        /\ RecordCall(theCall, [call[theCall] EXCEPT !.intent = "started"])
     \/ /\ connected
        /\ Step("intent", "ask")
        /\ RecordCall(theCall, [call[theCall] EXCEPT !.intent = "awaiting_approval"])
  /\ UNCHANGED <<active, rpc, lock, pending, mailbox>> /\ Quiet

\* Mutant: the cancellation flag is not looked at again before the start.
StartToolBlind ==
  /\ Step("start", "execute")
  /\ RecordCall(theCall, [call[theCall] EXCEPT !.started = TRUE])
  /\ UNCHANGED <<active, rpc, lock, pending, mailbox>> /\ Quiet

(* Under the lock: refuse when cancelled, else emit tool.started, which is   *)
(* durable before the executor is entered.                                   *)
StartTool ==
  /\ lock = "free"
  /\ \/ /\ active.cancelled \/ active.terminal
        /\ Refuse("start", TRUE)
        /\ UNCHANGED journal
     \/ /\ ~active.cancelled /\ ~active.terminal
        /\ Step("start", "execute")
        /\ RecordCall(theCall, [call[theCall] EXCEPT !.started = TRUE])
  /\ UNCHANGED <<active, rpc, lock, pending, mailbox>> /\ Quiet

(* The executor; a cancelled token may make it report "cancelled". *)
Execute ==
  /\ \/ Step("execute", "result")
     \/ active.token /\ Refuse("execute", TRUE)
  /\ ran' = ran \cup {theCall}
  /\ UNCHANGED <<run, call, active, rpc, lock, pending, mailbox, connected,
                 acked, crashes, faults>>

(* approval.requested, then the pending entry; the lock stays held. *)
AskApproval ==
  /\ lock = "free"
  /\ \/ /\ active.cancelled \/ active.terminal
        /\ Refuse("ask", TRUE)
        /\ UNCHANGED <<journal, lock, pending>>
     \/ /\ ~active.cancelled /\ ~active.terminal
        /\ Step("ask", "announce")
        /\ RecordCall(theCall, [call[theCall] EXCEPT !.asked = TRUE])
        /\ pending' = theCall /\ lock' = "task"
  /\ UNCHANGED <<active, rpc, mailbox>> /\ Quiet

(* The client may have gone since the policy was asked: then nobody will     *)
(* answer, and the task denies the call itself before it waits.              *)
AnnounceApproval ==
  /\ Step("announce", "wait")
  /\ lock' = "free"
  /\ \/ /\ connected
        /\ UNCHANGED <<journal, pending, mailbox>>
     \/ /\ ~connected
        /\ Resolve(theCall, "deny")
        /\ pending' = NoCall /\ mailbox' = "deny"
  /\ UNCHANGED <<active, rpc>> /\ Quiet

\* Mutant: an undelivered response ends the run at once, without a result.
TakeAnswerGivesUp ==
  /\ \/ mailbox = "allow_once" /\ Step("wait", "start")
     \/ mailbox = "deny" /\ Refuse("wait", FALSE)
     \/ mailbox = "cancellation" /\ Refuse("wait", TRUE)
     \/ mailbox = "undelivered" /\ Finish("wait", "interrupted")
  /\ mailbox' = "none"
  /\ UNCHANGED <<run, call, active, rpc, lock, pending>> /\ Quiet

(* wait_for_approval_resolution: a resolver's answer... *)
TakeAnswer ==
  /\ \/ mailbox = "allow_once" /\ Step("wait", "start")
     \/ mailbox = "deny" /\ Refuse("wait", FALSE)
     \/ mailbox = "cancellation" /\ Refuse("wait", TRUE)
     \/ /\ mailbox = "undelivered" /\ task.pc = "wait"
        /\ task' = [task EXCEPT !.pc = "result", !.undelivered = TRUE]
  /\ mailbox' = "none"
  /\ UNCHANGED <<run, call, active, rpc, lock, pending>> /\ Quiet

\* Mutant: the timeout does not look whether another resolver was faster.
ApprovalTimeoutBlind ==
  /\ lock = "free"
  /\ Refuse("wait", FALSE)
  /\ Resolve(theCall, "deny")
  /\ pending' = NoCall
  /\ UNCHANGED <<active, rpc, lock, mailbox>> /\ Quiet

(* ...or the deadline, unless a resolver has already taken the entry.        *)
ApprovalTimeout ==
  /\ lock = "free" /\ pending = theCall
  /\ Refuse("wait", FALSE)
  /\ Resolve(theCall, "deny")
  /\ pending' = NoCall
  /\ UNCHANGED <<active, rpc, lock, mailbox>> /\ Quiet

(* tool.result: what the executor returned, or that it was not run... *)
WriteResult ==
  /\ Step("result", "message")
  /\ RecordCall(theCall, [call[theCall] EXCEPT
                      !.results = Append(@, IF theCall \in ran THEN "known" ELSE "not_run")])
  /\ UNCHANGED <<active, rpc, lock, pending, mailbox>> /\ Quiet

(* ...then the canonical tool message... *)
WriteMessage ==
  /\ Step("message", "complete")
  /\ RecordCall(theCall, [call[theCall] EXCEPT !.messages = @ + 1])
  /\ UNCHANGED <<active, rpc, lock, pending, mailbox>> /\ Quiet

(* ...then tool.completed. An undelivered approval response ends the run     *)
(* here, with whatever is left of the batch.                                 *)
CompleteCall ==
  /\ \/ task.undelivered /\ Finish("complete", "interrupted")
     \/ /\ ~task.undelivered /\ task.pc = "complete"
        /\ task' = [task EXCEPT !.call = NoCall,
                                !.pc = IF task.batch = {} THEN "close" ELSE "next"]
  /\ Alone

(* turn.completed, under the lock; a cancelled batch ends the run. *)
CloseBatch ==
  /\ lock = "free"
  /\ \/ /\ task.stopped \/ active.cancelled
        /\ Finish("close", "cancelled")
     \/ /\ ~task.stopped /\ ~active.cancelled
        /\ Step("close", "turn")
  /\ Alone

-----------------------------------------------------------------------------
(* finalize_run *)

(* The terminal record, under the lock; cancellation wins over the outcome. *)
Finalize ==
  /\ lock = "free"
  /\ Step("finalize", "ending")
  /\ lock' = "task"
  /\ LET end == IF active.cancelled THEN "cancelled" ELSE task.outcome
     IN  RecordRun(theRun, [run[theRun] EXCEPT !.terminals = Append(@, end)])
  /\ UNCHANGED <<active, rpc, approval>> /\ Quiet

(* The terminal event, then lifecycle.terminal. *)
EmitEnding ==
  /\ Step("ending", "retire")
  /\ LET end == run[theRun].terminals[Len(run[theRun].terminals)]
     IN  RecordRun(theRun, [run[theRun] EXCEPT !.endings = Append(@, end)])
  /\ active' = [active EXCEPT !.terminal = TRUE]
  /\ lock' = "free"
  /\ UNCHANGED <<rpc, approval>> /\ Quiet

(* The task leaves Agent::active; the writer lease goes with the RunControl, *)
(* and an answer nobody waits for any more goes with its channel. A handler  *)
(* inside the RunControl keeps it, and is the only one to see it.            *)
Retire ==
  /\ task.pc = "retire" /\ lock # "rpc"
  /\ task' = NoTask /\ active' = NoActive
  /\ pending' = NoCall /\ mailbox' = "none"
  /\ UNCHANGED <<journal, rpc, lock>> /\ Quiet

-----------------------------------------------------------------------------
(* recover_interrupted, under the writer lease and never beside a live run.  *)
(* Each step is one append; the code appends in this order.                  *)

Lost(x) == call[x].started \/ call[x].intent = "started"
ToAnswer  == {x \in Calls : Unanswered(x)}

\* Mutant: a result counts as unanswered although its message is there.
ToMessageAll == {x \in Calls : call[x].results # <<>>}

ToMessage == {x \in Calls : call[x].results # <<>> /\ call[x].messages = 0}

\* Mutant: a run counts as open until its terminal event is there.
ToEndByEvent == {x \in Runs : run[x].accepted /\ run[x].endings = <<>>}

ToEnd     == {x \in Runs : run[x].accepted /\ ~Ended(x)}
ToEmit    == {x \in Runs : Ended(x) /\ run[x].endings = <<>>}

\* Mutant: the tool.started event is not taken into account.
RecoverResultUnstarted(x) ==
  /\ call[x].asked => call[x].resolutions # <<>>
  /\ RecordCall(x, [call[x] EXCEPT
       !.results = Append(@, IF call[x].intent = "started" THEN "unknown" ELSE "not_run")])

RecoverApproval(x) ==
  /\ call[x].asked /\ call[x].resolutions = <<>>
  /\ Resolve(x, "deny")

(* Only a call that may have run gets an unknown outcome. *)
RecoverResult(x) ==
  /\ call[x].asked => call[x].resolutions # <<>>
  /\ RecordCall(x, [call[x] EXCEPT
       !.results = Append(@, IF Lost(x) THEN "unknown" ELSE "not_run")])

RecoverMessage(x) == RecordCall(x, [call[x] EXCEPT !.messages = @ + 1])

RecoverTerminal(x) == RecordRun(x, [run[x] EXCEPT !.terminals = Append(@, "interrupted")])

RecoverEnding(x) == RecordRun(x, [run[x] EXCEPT !.endings = Append(@, run[x].terminals[1])])

Recover ==
  /\ rpc.pc = "recover"
  /\ \/ \E x \in ToAnswer : RecoverApproval(x) \/ RecoverResult(x)
     \/ ToAnswer = {} /\ \E x \in ToMessage : RecoverMessage(x)
     \/ ToAnswer \cup ToMessage = {} /\ \E x \in ToEnd : RecoverTerminal(x)
     \/ ToAnswer \cup ToMessage \cup ToEnd = {} /\ \E x \in ToEmit : RecoverEnding(x)
  /\ UNCHANGED <<active, task, rpc, lock, approval>> /\ Quiet

Recovered == ToAnswer \cup ToMessage = {} /\ ToEnd \cup ToEmit = {}

-----------------------------------------------------------------------------
(* RPC handlers. The protocol loop runs one at a time and writes its         *)
(* response before it acts on it.                                            *)

\* Handlers that leave journal, task and locks alone.
Answering == UNCHANGED <<journal, active, task, lock, approval>> /\ Quiet

(* run/start: nothing active, the writer lease, then recovery. *)
StartRun(x) ==
  /\ rpc.pc = "idle" /\ active = NoActive /\ ~run[x].accepted
  /\ rpc' = [Handler("recover") EXCEPT !.run = x]
  /\ Answering

\* Mutant: recovery does not care whether a run is active.
GetSessionBeside == Reply("idle", "recover") /\ Answering

(* session/get of a session without an active run recovers it as well. *)
GetSession ==
  /\ active = NoActive
  /\ Reply("idle", "recover")
  /\ Answering

\* Mutant: the journal is recovered later.
AcceptRunUnrecovered ==
  /\ rpc.pc = "recover" /\ rpc.run # NoRun
  /\ rpc' = Handler("accepted")
  /\ RecordRun(rpc.run, [run[rpc.run] EXCEPT !.accepted = TRUE])
  /\ active' = [NoActive EXCEPT !.run = rpc.run]
  /\ UNCHANGED <<task, lock, approval>> /\ Quiet

(* run.accepted, then the RunControl; the response is still to be written.   *)
AcceptRun ==
  /\ rpc.pc = "recover" /\ rpc.run # NoRun /\ Recovered
  /\ rpc' = Handler("accepted")
  /\ RecordRun(rpc.run, [run[rpc.run] EXCEPT !.accepted = TRUE])
  /\ active' = [NoActive EXCEPT !.run = rpc.run]
  /\ UNCHANGED <<task, lock, approval>> /\ Quiet

ReturnSnapshot ==
  /\ rpc.run = NoRun /\ Recovered
  /\ Reply("recover", "idle")
  /\ Answering

(* AfterResponse::StartRun: only a response that was written starts the run. *)
LaunchRun ==
  /\ \/ /\ Reply("accepted", "idle")
        /\ task' = [NoTask EXCEPT !.pc = "turn"]
     \/ /\ Reply("accepted", "shutdown")
        /\ UNCHANGED task
  /\ UNCHANGED <<journal, active, lock, approval>> /\ Quiet

(* accept_approval: the client's decision, or a timeout when the deadline    *)
(* passed before the task noticed; durable while the entry is still pending. *)
RespondApproval(choice) ==
  /\ rpc.pc = "idle" /\ lock = "free" /\ pending # NoCall
  /\ ~active.cancelled /\ ~active.terminal
  /\ rpc' = [Handler("respond") EXCEPT !.choice = choice]
  /\ Resolve(pending, IF choice = "expired" THEN "deny" ELSE choice)
  /\ lock' = "rpc"
  /\ UNCHANGED <<active, task, approval>> /\ Quiet

\* Send to the waiter, if it still waits.
Post(answer) == mailbox' = IF task.pc = "wait" THEN answer ELSE mailbox

\* Mutant: the entry goes, and an expired deadline wakes nobody.
TakePendingSilent ==
  /\ rpc.pc = "respond"
  /\ \/ rpc.choice = "expired" /\ rpc' = Handler("idle")
     \/ rpc.choice # "expired" /\ rpc' = [rpc EXCEPT !.pc = "deliver"]
  /\ pending' = NoCall /\ lock' = "free"
  /\ UNCHANGED <<journal, active, task, mailbox>> /\ Quiet

(* The entry leaves `approvals`: a timeout wakes the task at once, a         *)
(* decision becomes an ApprovalResume that waits for the response.           *)
TakePending ==
  /\ rpc.pc = "respond"
  /\ \/ rpc.choice = "expired" /\ rpc' = Handler("idle") /\ Post("deny")
     \/ rpc.choice # "expired" /\ rpc' = [rpc EXCEPT !.pc = "deliver"] /\ UNCHANGED mailbox
  /\ pending' = NoCall /\ lock' = "free"
  /\ UNCHANGED <<journal, active, task>> /\ Quiet

\* Mutant: the waiter is resumed although the response could not be written.
DeliverApprovalAnyway ==
  /\ rpc.pc = "deliver"
  /\ rpc' = Handler("shutdown")
  /\ Post(rpc.choice)
  /\ UNCHANGED <<journal, active, task, lock, pending, connected, history, crashes, faults>>

(* ApprovalResume::resume after the flush, or its Drop when that failed; a   *)
(* waiter that is gone receives nothing.                                     *)
DeliverApproval ==
  /\ \/ /\ Reply("deliver", "idle")
        /\ Post(rpc.choice)
        /\ acked' = IF task.pc = "wait" /\ rpc.choice = "allow_once"
                    THEN acked \cup {theCall} ELSE acked
     \/ /\ Reply("deliver", "shutdown")
        /\ Post("undelivered")
        /\ UNCHANGED acked
  /\ UNCHANGED <<journal, active, task, lock, pending, connected, ran, crashes, faults>>
-----------------------------------------------------------------------------
(* run/cancel: one step per await point, all under the lifecycle lock.       *)

(* The cancellation request is durable before it has any effect. *)
CancelRun ==
  /\ rpc.pc = "idle" /\ lock = "free"
  /\ active # NoActive /\ ~active.cancelled /\ ~active.terminal
  /\ rpc' = Handler("cancel_noted")
  /\ RecordRun(theRun, [run[theRun] EXCEPT !.cancels = @ + 1])
  /\ lock' = "rpc"
  /\ UNCHANGED <<active, task, approval>> /\ Quiet

(* cancellation_requested, and no more queued input. *)
MarkCancelled ==
  /\ Reply("cancel_noted", "cancel_marked")
  /\ active' = [active EXCEPT !.cancelled = TRUE]
  /\ UNCHANGED <<journal, task, lock, approval>> /\ Quiet

(* A call that waits for approval is denied by the cancellation. *)
CancelApproval ==
  /\ Reply("cancel_marked", "cancel_resolved")
  /\ \/ pending # NoCall /\ Resolve(pending, "deny")
     \/ pending = NoCall /\ UNCHANGED journal
  /\ UNCHANGED <<active, task, lock, approval>> /\ Quiet

(* Wake the waiter and fire the cancellation token. *)
FireCancellation ==
  /\ Reply("cancel_resolved", "idle")
  /\ IF pending # NoCall THEN Post("cancellation") ELSE UNCHANGED mailbox
  /\ pending' = NoCall
  /\ active' = [active EXCEPT !.token = TRUE]
  /\ lock' = "free"
  /\ UNCHANGED <<journal, task>> /\ Quiet

-----------------------------------------------------------------------------
(* run_stdio: the end of the connection and of the daemon.                   *)

Closing == {"shutdown", "disconnect", "hung_up", "drain"}

(* End of input, or a response that cannot be written. *)
LoseClient ==
  /\ Reply("idle", "shutdown")
  /\ Answering

(* The event task fails: select! drops the protocol future where it stands.  *)
(* Its lock guards go, its unfinished bookkeeping stays undone, and a        *)
(* dropped ApprovalResume tells the waiter that delivery failed.             *)
FailEventTask ==
  /\ EventTaskFails /\ crashes < MaxCrashes
  /\ rpc.pc \notin Closing \cup {"down"}
  /\ rpc' = Handler("shutdown") /\ crashes' = crashes + 1
  /\ lock' = IF lock = "rpc" THEN "free" ELSE lock
  /\ IF rpc.pc = "deliver" THEN Post("undelivered") ELSE UNCHANGED mailbox
  /\ UNCHANGED <<journal, active, task, pending, connected, history, faults>>

(* resolve_disconnected_approvals: from here on nobody can answer... *)
Disconnect ==
  /\ Reply("shutdown", "disconnect")
  /\ connected' = FALSE
  /\ UNCHANGED <<journal, active, task, lock, approval, history, crashes, faults>>

(* ...and what is pending is denied, unless the run is over or cancelled.    *)
DenyPending ==
  /\ lock = "free"
  /\ \/ /\ pending # NoCall /\ ~active.cancelled /\ ~active.terminal
        /\ Reply("disconnect", "hung_up")
        /\ Resolve(pending, "deny")
        /\ lock' = "rpc"
     \/ /\ pending = NoCall \/ active.cancelled \/ active.terminal
        /\ Reply("disconnect", "drain")
        /\ UNCHANGED <<journal, lock>>
  /\ UNCHANGED <<active, task, approval>> /\ Quiet

HangUp ==
  /\ Reply("hung_up", "drain")
  /\ Post("deny")
  /\ pending' = NoCall /\ lock' = "free"
  /\ UNCHANGED <<journal, active, task>> /\ Quiet

(* Everything volatile goes with the process. *)
Die ==
  /\ rpc' = Handler("down")
  /\ active' = NoActive /\ task' = NoTask /\ lock' = "free"
  /\ pending' = NoCall /\ mailbox' = "none" /\ connected' = TRUE
  /\ UNCHANGED <<journal, history, faults>>

(* wait_for_started_runs: until the task is done, or for at most 5 seconds.  *)
Exit == rpc.pc = "drain" /\ Die /\ UNCHANGED crashes

Crash ==
  /\ rpc.pc # "down" /\ crashes < MaxCrashes
  /\ Die /\ crashes' = crashes + 1

Restart == Reply("down", "idle") /\ Answering

-----------------------------------------------------------------------------
(* A journal append fails, and leaves nothing behind.                        *)
Appending == {"turn", "attempt", "stream", "drain", "intent", "intent_cancelled",
              "result", "message", "complete"}

(* In the task the error ends execute_run: the run is going to be "failed".  *)
(* A pending entry stays behind when it is its resolution that fails.        *)
FaultTask ==
  /\ \/ /\ task.pc \in Appending
        /\ Finish(task.pc, "failed")
        /\ UNCHANGED <<lock, approval>>
     \/ /\ task.pc \in {"start", "ask", "close"}
        /\ lock = "free" /\ ~active.cancelled
        /\ Finish(task.pc, "failed")
        /\ UNCHANGED <<lock, approval>>
     \/ /\ Finish("announce", "failed")
        /\ lock' = "free" /\ UNCHANGED mailbox
        /\ pending' = NoCall \/ (~connected /\ UNCHANGED pending)
     \/ /\ mailbox # "none" \/ (lock = "free" /\ pending = theCall)
        /\ Finish("wait", "failed")
        /\ mailbox' = "none" /\ UNCHANGED <<lock, pending>>
  /\ UNCHANGED <<journal, active, rpc>>

(* In finalize_run it leaves the run without its terminal record or event.   *)
FaultFinalize ==
  /\ \/ lock = "free" /\ Step("finalize", "retire") /\ UNCHANGED lock
     \/ Step("ending", "retire") /\ lock' = "free"
  /\ UNCHANGED <<journal, active, rpc, approval>>

(* In a handler it becomes the error response. *)
FaultHandler ==
  /\ \/ Reply("recover", "idle") /\ UNCHANGED lock
     \/ pending # NoCall /\ Reply("cancel_marked", "idle") /\ lock' = "free"
     \/ pending # NoCall /\ lock = "free" /\ Reply("disconnect", "drain") /\ UNCHANGED lock
  /\ UNCHANGED <<journal, active, task, approval>>

Fault ==
  /\ faults < MaxFaults /\ faults' = faults + 1
  /\ FaultTask \/ FaultFinalize \/ FaultHandler
  /\ UNCHANGED <<connected, history, crashes>>

-----------------------------------------------------------------------------
Task ==
  \/ BeginTurn \/ StartProvider \/ Backoff \/ ConsumeStream \/ DrainCompletion
  \/ NextCall \/ WriteIntent \/ StartTool \/ Execute
  \/ AskApproval \/ AnnounceApproval \/ TakeAnswer \/ ApprovalTimeout
  \/ WriteResult \/ WriteMessage \/ CompleteCall \/ CloseBatch
  \/ Finalize \/ EmitEnding \/ Retire

\* Steps the daemon takes once a request has come in or the client has gone.
Serve ==
  \/ Recover \/ AcceptRun \/ ReturnSnapshot \/ LaunchRun
  \/ TakePending \/ DeliverApproval
  \/ MarkCancelled \/ CancelApproval \/ FireCancellation
  \/ Disconnect \/ DenyPending \/ HangUp \/ Exit

Client ==
  \/ \E x \in Runs : StartRun(x)
  \/ GetSession \/ CancelRun \/ LoseClient
  \/ \E choice \in Choices \cup {"expired"} : RespondApproval(choice)

Next == Task \/ Serve \/ Client \/ FailEventTask \/ Crash \/ Restart \/ Fault

Spec == Init /\ [][Next]_vars

(* The task and the handlers are scheduled, provider streams and tools end,  *)
(* the daemon is started again, and a client that keeps coming back asks for *)
(* the session now and then.                                                 *)
Fairness ==
  WF_vars(Task) /\ WF_vars(Serve) /\ WF_vars(Restart) /\ SF_vars(GetSession)

LiveSpec == Spec /\ Fairness

-----------------------------------------------------------------------------
TaskSteps == {"none", "turn", "attempt", "backoff", "stream", "drain", "next",
              "intent", "intent_cancelled", "start", "execute", "ask", "announce", "wait",
              "result", "message", "complete", "close", "finalize", "ending", "retire"}
Handlers == {"down", "idle", "recover", "accepted", "respond", "deliver",
             "cancel_noted", "cancel_marked", "cancel_resolved"} \cup Closing

\* Values, and who may hold what: a task or a lock only with a live run.
TypeOK ==
  /\ run \in [Runs -> [accepted : BOOLEAN, cancels : Nat,
                       terminals : Seq(Ends), endings : Seq(Ends)]]
  /\ call \in [Calls -> [owner : Runs \cup {NoRun}, intent : Intents \cup {"none"},
                         asked : BOOLEAN, resolutions : Seq(Choices), started : BOOLEAN,
                         results : Seq({"known", "not_run", "unknown"}), messages : Nat]]
  /\ active \in [run : Runs \cup {NoRun}, cancelled : BOOLEAN, terminal : BOOLEAN,
                 token : BOOLEAN]
  /\ task \in [pc : TaskSteps, turn : 0..MaxTurns, attempt : 0..MaxAttempts,
               batch : SUBSET Calls, call : Calls \cup {NoCall}, stopped : BOOLEAN,
               undelivered : BOOLEAN, outcome : Ends \cup {"none"}]
  /\ rpc \in [pc : Handlers, run : Runs \cup {NoRun},
              choice : Choices \cup {"expired", "none"}]
  /\ lock \in {"free", "task", "rpc"}
  /\ pending \in Calls \cup {NoCall}
  /\ mailbox \in Choices \cup {"none", "cancellation", "undelivered"}
  /\ connected \in BOOLEAN
  /\ ran \subseteq Calls /\ acked \subseteq Calls
  /\ crashes \in 0..MaxCrashes /\ faults \in 0..MaxFaults
  /\ active.run = NoRun => active = NoActive /\ task.pc = "none" /\ lock = "free"

(* A run ends once: at most one run.terminal record, and the one terminal    *)
(* event repeats it, whether finalize_run or recovery wrote it and whatever  *)
(* crash or failure came between the two.                                    *)
EndsOnce ==
  \A x \in Runs :
    /\ Len(run[x].terminals) <= 1
    /\ run[x].endings # <<>> => run[x].endings = run[x].terminals

(* A call gets one result and one message, from the task or from recovery,   *)
(* never from both.                                                          *)
AnswersOnce ==
  \A x \in Calls : call[x].messages <= Len(call[x].results) /\ Len(call[x].results) <= 1

(* A run and its calls are concluded once each, whoever does it.             *)
ConcludedOnce == EndsOnce /\ AnswersOnce

(* The journal never says that a tool was not run when it was: recovery calls *)
(* an outcome unknown as soon as the executor may have been entered.          *)
HonestOutcome ==
  \A x \in ran : call[x].results \in {<<>>, <<"known">>, <<"unknown">>}

(* A call that needs approval starts only on one durable allow_once whose    *)
(* response has reached the client: no timeout, disconnect, cancellation or  *)
(* lost response turns into permission.                                      *)
StartNeedsConsent ==
  \A x \in Calls :
    call[x].started /\ call[x].intent = "awaiting_approval" =>
      call[x].resolutions = <<"allow_once">> /\ x \in acked

(* Client, deadline, cancellation, disconnect and recovery compete for the   *)
(* decision; one of them wins.                                               *)
ResolvedOnce == \A x \in Calls : Len(call[x].resolutions) <= 1

(* A run whose cancellation is durable does not end any other way; only the  *)
(* loss of the process may make it "interrupted" instead.                    *)
CancelWins ==
  [][\A x \in Runs : run[x].cancels > 0 /\ ~Ended(x) /\ Ended(x)' =>
                        run'[x].terminals[1] \in {"cancelled", "interrupted"}]_vars

(* No tool starts once the cancellation of its run is durable. *)
NoStartAfterCancel ==
  [][\A x \in Calls : call'[x].started /\ ~call[x].started =>
                        run[call[x].owner].cancels = 0]_vars

(* A durable cancellation is respected to the end of its run. *)
CancellationHolds == CancelWins /\ NoStartAfterCancel

(* The terminal event is the last thing the run says: no call of it starts,  *)
(* is asked for or is decided afterwards.                                    *)
EndingIsLast ==
  [][\A x \in Calls : call'[x] # call[x] /\ call[x].owner # NoRun =>
                        run[call[x].owner].endings = <<>>]_vars

(* Every intent of a run has its result before the run ends. *)
EndsAnswered ==
  \A x \in Calls : call[x].owner # NoRun /\ Unanswered(x) => ~Ended(call[x].owner)

(* The decision and the result of a call: one of the first, and the second  *)
(* in time.                                                                 *)
CallsSettled == ResolvedOnce /\ EndsAnswered

\* The promise, read from the journal.
Phase == [x \in Runs |-> IF Ended(x) THEN "ended"
                         ELSE IF run[x].accepted THEN "open" ELSE "new"]
StartedIn == [x \in Calls |-> IF call[x].started THEN call[x].owner ELSE NoRun]
Contract == INSTANCE RunContract WITH phase <- Phase, startedIn <- StartedIn

(* Through crashes, recoveries and lost clients the session keeps the        *)
(* contract of RunContract.                                                  *)
KeepsContract == Contract!Spec

(* An accepted run ends, and says so: the loss of its response, of the       *)
(* client, of an append or of the process only delays it.                    *)
RunEnds == \A x \in Runs : run[x].accepted ~> run[x].endings # <<>>

=============================================================================
