-------------------------- MODULE AgentRun_proofs ---------------------------
(***************************************************************************)
(* What AgentRun promises, for every number of runs and calls and every    *)
(* bound. First come the types: TypeOK is not inductive, and TypeInv adds  *)
(* what a task has in hand where it is (Fits), what a handler has in hand  *)
(* (RpcFits), who holds the lock at which place (Held), and that task,     *)
(* lock, pending approval and recovery go with the live run (Bound).       *)
(* A run ends once, a call is answered once, and the session keeps the     *)
(* contract of RunContract: EndsInv says who may still write the end of a  *)
(* run, the task of the live run, or recovery when no run is live;         *)
(* CallsInv says the same of the answers of a call, and that the calls the *)
(* task still has to work on are untouched.                                *)
(* What the runs never do rests on four more, and each names the losses    *)
(* under which it still holds. HonestInv: what was executed was started,   *)
(* and its result admits it. CancelInv: a durable cancellation is known to *)
(* the live run, or its handler is about to make it so. ConsentInv: who    *)
(* may still decide a call, and how a decision travels to the task.        *)
(* SettledInv: what is still open, and that its run is.                    *)
(***************************************************************************)
EXTENDS AgentRun, SequenceTheorems, TLAPS

-----------------------------------------------------------------------------
(* The types.                                                              *)

RunRecs  == [accepted : BOOLEAN, cancels : Nat, terminals : Seq(Ends), endings : Seq(Ends)]
CallRecs == [owner : Runs \cup {NoRun}, intent : Intents \cup {"none"},
             asked : BOOLEAN, resolutions : Seq(Choices), started : BOOLEAN,
             results : Seq({"known", "not_run", "unknown"}), messages : Nat]
Lives    == [run : Runs \cup {NoRun}, cancelled : BOOLEAN, terminal : BOOLEAN,
             token : BOOLEAN]
Tasks    == [pc : TaskSteps, turn : 0..MaxTurns, attempt : 0..MaxAttempts,
             batch : SUBSET Calls, call : Calls \cup {NoCall}, stopped : BOOLEAN,
             undelivered : BOOLEAN, outcome : Ends \cup {"none"}]
Rpcs     == [pc : Handlers, run : Runs \cup {NoRun}, choice : Choices \cup {"expired", "none"}]
Mails    == Choices \cup {"none", "cancellation", "undelivered"}

\* Where the task has a call in hand, and where task and handlers hold the lock:
\* the steps of a call, of an announced approval or end, of a decision.
CallSteps == {"intent", "intent_cancelled", "start", "execute", "ask", "announce", "wait",
              "result", "message", "complete"}
TaskLocked == {"announce", "ending"}
RpcLocked == {"respond", "cancel_noted", "cancel_marked", "cancel_resolved", "hung_up"}

\* TypeOK, variable by variable.
JournalOK == run \in [Runs -> RunRecs] /\ call \in [Calls -> CallRecs]
LiveOK    == active \in Lives
MailOK == pending \in Calls \cup {NoCall} /\ mailbox \in Mails /\ connected \in BOOLEAN
HistoryOK == /\ ran \subseteq Calls /\ acked \subseteq Calls
             /\ crashes \in 0..MaxCrashes /\ faults \in 0..MaxFaults

\* What the task has in hand where it is.
Fits(t) ==
  /\ t \in Tasks
  /\ IF t.pc \in CallSteps THEN t.call \in Calls ELSE t.call = NoCall
  /\ t.pc = "backoff" => t.attempt < MaxAttempts
  /\ t.pc = "finalize" => t.outcome \in Ends

\* A handler that answers an approval has a decision, or the deadline.
RpcFits(h) ==
  /\ h \in Rpcs
  /\ h.pc \in {"respond", "deliver"} => h.choice \in Choices \cup {"expired"}
  /\ h.pc = "deliver" => h.choice \in Choices

\* Who holds the lock.
Held ==
  /\ lock \in {"free", "task", "rpc"}
  /\ lock = "task" <=> task.pc \in TaskLocked
  /\ lock = "rpc" <=> rpc.pc \in RpcLocked

\* What goes with the live run.
Bound ==
  /\ active.run = NoRun =>
       active = NoActive /\ task.pc = "none" /\ lock = "free" /\ pending = NoCall
  /\ rpc.pc = "recover" => active = NoActive
  /\ rpc.pc = "accepted" => active.run # NoRun /\ task.pc = "none"
  /\ task.pc = "ending" => run[active.run].terminals # <<>>

TypeInv ==
  /\ JournalOK /\ LiveOK /\ MailOK /\ HistoryOK
  /\ Fits(task) /\ RpcFits(rpc) /\ Held /\ Bound

(* The invariant implies the type invariant the runs check.                  *)
LEMMA TypeInvTypes == TypeInv => TypeOK
BY DEF TypeInv, TypeOK, JournalOK, LiveOK, MailOK, HistoryOK, Bound, Held, Fits, RpcFits,
       RunRecs, CallRecs, Lives, Tasks, Rpcs, Mails

(* Every initial state satisfies it.                                         *)
LEMMA TypeInit == Init => TypeInv
<1> SUFFICES ASSUME Init PROVE TypeInv
  OBVIOUS
<1>1. JournalOK
  BY DEF Init, JournalOK, NewRun, NewCall, RunRecs, CallRecs
<1>2. LiveOK /\ MailOK /\ HistoryOK
  BY BoundAssumption DEF Init, LiveOK, MailOK, HistoryOK, NoActive, Lives, Mails
<1>3. Fits(task)
  BY BoundAssumption DEF Init, NoTask, Fits, Tasks, TaskSteps, CallSteps
<1>4. RpcFits(rpc)
  BY DEF Init, Handler, RpcFits, Rpcs, Handlers
<1>5. Held /\ Bound
  BY DEF Init, Held, Bound, NoTask, NoActive, Handler, TaskLocked, RpcLocked
<1> QED BY <1>1, <1>2, <1>3, <1>4, <1>5 DEF TypeInv

(* A task that only moves on keeps its shape.                                *)
LEMMA StepFits ==
  ASSUME Fits(task), NEW from, NEW to \in TaskSteps \ {"backoff", "finalize"}, Step(from, to),
         from \in CallSteps <=> to \in CallSteps
  PROVE  Fits(task') /\ task.pc = from /\ task'.pc = to
BY DEF Fits, Step, Tasks

(* execute_run returns with an outcome for finalize_run.                     *)
LEMMA FinishFits ==
  ASSUME Fits(task), NEW from, NEW outcome \in Ends, Finish(from, outcome)
  PROVE  Fits(task') /\ task.pc = from /\ task'.pc = "finalize"
<1>1. task' = [pc |-> "finalize", turn |-> 0, attempt |-> 0, batch |-> {}, call |-> NoCall,
               stopped |-> FALSE, undelivered |-> FALSE, outcome |-> outcome]
  BY DEF Finish, NoTask
<1>2. task' \in Tasks
  BY <1>1, BoundAssumption DEF Tasks, TaskSteps
<1>3. "finalize" \notin CallSteps
  BY DEF CallSteps
<1>4. task.pc = from
  BY DEF Finish
<1> QED BY <1>1, <1>2, <1>3, <1>4 DEF Fits

(* A refused call goes on to its result.                                     *)
LEMMA RefuseFits ==
  ASSUME Fits(task), NEW from \in CallSteps, NEW stop \in BOOLEAN, Refuse(from, stop)
  PROVE  Fits(task') /\ task.pc = from /\ task'.pc = "result"
BY DEF Fits, Refuse, Tasks, TaskSteps, CallSteps

(* Appending a record about a run keeps the journal well-typed.              *)
LEMMA RunRecorded ==
  ASSUME JournalOK, NEW x \in Runs, NEW rec \in RunRecs, RecordRun(x, rec)
  PROVE  JournalOK'
BY DEF JournalOK, RecordRun

(* So does a record about a call.                                            *)
LEMMA CallRecorded ==
  ASSUME JournalOK, NEW x \in Calls, NEW rec \in CallRecs, RecordCall(x, rec)
  PROVE  JournalOK'
BY DEF JournalOK, RecordCall

(* And an approval.resolved record.                                          *)
LEMMA Resolved ==
  ASSUME JournalOK, NEW x \in Calls, NEW choice \in Choices, Resolve(x, choice)
  PROVE  JournalOK' /\ run' = run
<1>1. Append(call[x].resolutions, choice) \in Seq(Choices)
  BY DEF JournalOK, CallRecs
<1>2. [call[x] EXCEPT !.resolutions = Append(@, choice)] \in CallRecs
  BY <1>1 DEF JournalOK, CallRecs
<1> QED BY <1>2, CallRecorded DEF Resolve, RecordCall

(* A step of the task inside a live run. *)
LEMMA TaskKeeps ==
  ASSUME TypeInv, Fits(task'), JournalOK', MailOK', HistoryOK',
         task.pc # "none",
         active' = active, rpc' = rpc,
         lock' \in {"free", "task", "rpc"},
         lock' = "task" <=> task'.pc \in TaskLocked,
         lock' = "rpc" <=> lock = "rpc",
         task'.pc = "ending" => run'[active.run].terminals # <<>>
  PROVE  TypeInv'
<1>1. active.run # NoRun
  BY DEF TypeInv, Bound
<1> QED BY <1>1 DEF TypeInv, LiveOK, Held, Bound

(* A step of the task that touches only the task.                            *)
LEMMA AloneKeeps ==
  ASSUME TypeInv, Fits(task'), Alone, task.pc \notin TaskLocked \cup {"none"},
         task'.pc \notin TaskLocked
  PROVE  TypeInv'
<1>1. JournalOK' /\ MailOK' /\ HistoryOK'
  BY DEF Alone, Quiet, history, TypeInv, JournalOK, MailOK, HistoryOK
<1>2. task'.pc # "ending"
  BY DEF TaskLocked
<1> QED BY <1>1, <1>2, TaskKeeps DEF Alone, TypeInv, Held

-----------------------------------------------------------------------------
(* What the type invariant says of the task, its call and its run.           *)
LEMMA TaskFacts ==
  ASSUME TypeInv
  PROVE  /\ Fits(task) /\ task \in Tasks /\ task.pc \in TaskSteps
         /\ task.turn \in Nat /\ task.attempt \in Nat /\ task.batch \subseteq Calls
         /\ active.token \in BOOLEAN /\ active.run \in Runs \cup {NoRun}
         /\ task.pc \in CallSteps => theCall \in Calls
         /\ task.pc # "none" => active.run \in Runs
         /\ \A x \in Calls : call[x] \in CallRecs
         /\ \A x \in Runs : run[x] \in RunRecs
<1>1. task \in Tasks /\ active \in Lives /\ Fits(task)
  BY DEF TypeInv, Fits, LiveOK
<1>2. task.turn \in Nat /\ task.attempt \in Nat
  BY <1>1, BoundAssumption DEF Tasks
<1> QED BY <1>1, <1>2 DEF Tasks, Lives, TypeInv, JournalOK, Fits, Bound, theCall

(* The places of the task that the proofs tell apart.                        *)
LEMMA PlacesOfTask ==
  /\ CallSteps \subseteq TaskSteps \ {"backoff", "finalize"}
  /\ {"turn", "attempt", "stream", "drain", "next", "close", "ending", "retire"}
        \subseteq TaskSteps \ (CallSteps \cup {"backoff", "finalize"})
  /\ {"backoff", "finalize", "none"} \subseteq TaskSteps \ CallSteps
  /\ {"failed", "completed", "cancelled", "interrupted"} = Ends
  /\ CallSteps = {"announce"} \cup {"intent", "intent_cancelled", "start", "ask",
                      "execute", "result", "wait", "message", "complete"}
  /\ TaskLocked \cap {"turn", "attempt", "stream", "drain", "next", "close", "retire",
                      "backoff", "finalize", "intent", "intent_cancelled", "start", "ask",
                      "execute", "result", "wait", "message", "complete", "none"} = {}
  /\ {"announce", "ending"} = TaskLocked
BY DEF CallSteps, TaskSteps, Ends, TaskLocked

(* The turn loop of execute_run.                                             *)
LEMMA LoopTyped ==
  ASSUME TypeInv, BeginTurn \/ StartProvider \/ Backoff \/ ConsumeStream \/ DrainCompletion
                  \/ NextCall \/ CompleteCall \/ CloseBatch
  PROVE  TypeInv'
<1>a. Fits(task) /\ task \in Tasks /\ task.turn \in Nat /\ task.attempt \in Nat
      /\ task.batch \subseteq Calls /\ active.token \in BOOLEAN
  BY TaskFacts
<1>1. CASE BeginTurn
  <2>1. Fits(task') /\ task.pc = "turn" /\ task'.pc \in {"finalize", "attempt"}
    <3>1. CASE Finish("turn", "cancelled") \/ Finish("turn", "failed")
      BY <3>1, <1>a, PlacesOfTask, FinishFits
    <3>2. CASE /\ task.turn < MaxTurns /\ task.pc = "turn"
               /\ task' = [task EXCEPT !.pc = "attempt", !.turn = @ + 1, !.attempt = 1]
      <4>1. task.turn + 1 \in 0..MaxTurns /\ 1 \in 0..MaxAttempts
        BY <3>2, <1>a, BoundAssumption
      <4>2. "turn" \notin CallSteps /\ "attempt" \notin CallSteps /\ "attempt" \in TaskSteps
        BY PlacesOfTask
      <4>3. task' \in Tasks
        BY <3>2, <1>a, <4>1, <4>2 DEF Tasks
      <4> QED BY <3>2, <1>a, <4>2, <4>3 DEF Fits, Tasks
    <3> QED BY <1>1, <3>1, <3>2 DEF BeginTurn
  <2> QED BY <1>1, <2>1, PlacesOfTask, AloneKeeps DEF BeginTurn
<1>2. CASE StartProvider
  <2>1. Fits(task') /\ task.pc = "attempt" /\ task'.pc \in {"finalize", "stream", "backoff"}
    <3>1. CASE Step("attempt", "stream")
      BY <3>1, <1>a, PlacesOfTask, StepFits
    <3>2. CASE task.attempt < MaxAttempts /\ Step("attempt", "backoff")
      BY <3>2, <1>a, PlacesOfTask DEF Step, Fits, Tasks
    <3>3. CASE \E e \in {"failed", "interrupted", "cancelled"} : Finish("attempt", e)
      BY <3>3, <1>a, PlacesOfTask, FinishFits
    <3> QED BY <1>2, <3>1, <3>2, <3>3 DEF StartProvider
  <2> QED BY <1>2, <2>1, PlacesOfTask, AloneKeeps DEF StartProvider
<1>3. CASE Backoff
  <2>1. Fits(task') /\ task.pc = "backoff" /\ task'.pc \in {"finalize", "attempt"}
    <3>1. CASE Finish("backoff", "cancelled")
      BY <3>1, <1>a, PlacesOfTask, FinishFits
    <3>2. CASE task.pc = "backoff" /\ task' = [task EXCEPT !.pc = "attempt", !.attempt = @ + 1]
      <4>1. task.attempt + 1 \in 0..MaxAttempts
        BY <3>2, <1>a, BoundAssumption DEF Fits
      <4>2. "backoff" \notin CallSteps /\ "attempt" \notin CallSteps /\ "attempt" \in TaskSteps
        BY PlacesOfTask
      <4>3. task' \in Tasks
        BY <3>2, <1>a, <4>1, <4>2 DEF Tasks
      <4> QED BY <3>2, <1>a, <4>2, <4>3 DEF Fits, Tasks
    <3> QED BY <1>3, <3>1, <3>2 DEF Backoff
  <2> QED BY <1>3, <2>1, PlacesOfTask, AloneKeeps DEF Backoff
<1>4. CASE ConsumeStream
  <2>1. CASE (\E e \in {"failed", "interrupted", "cancelled"} : Finish("stream", e)) /\ Alone
    <3>1. Fits(task') /\ task.pc = "stream" /\ task'.pc = "finalize"
      BY <2>1, <1>a, PlacesOfTask, FinishFits
    <3> QED BY <2>1, <3>1, PlacesOfTask, AloneKeeps
  <2>2. CASE Step("stream", "drain") /\ Alone
    <3>1. Fits(task') /\ task.pc = "stream" /\ task'.pc = "drain"
      BY <2>2, <1>a, PlacesOfTask, StepFits
    <3> QED BY <2>2, <3>1, PlacesOfTask, AloneKeeps
  <2>3. CASE \E batch \in SUBSET Calls :
               /\ task.pc = "stream"
               /\ task' = [task EXCEPT !.pc = "next", !.batch = batch]
               /\ call' = [x \in Calls |-> IF x \in batch THEN [call[x] EXCEPT !.owner = theRun]
                                                          ELSE call[x]]
               /\ UNCHANGED <<run, active, rpc, lock, pending, mailbox>> /\ Quiet
    <3> PICK batch \in SUBSET Calls :
               /\ task.pc = "stream"
               /\ task' = [task EXCEPT !.pc = "next", !.batch = batch]
               /\ call' = [x \in Calls |-> IF x \in batch THEN [call[x] EXCEPT !.owner = theRun]
                                                          ELSE call[x]]
      BY <2>3
    <3>0. {"next", "stream"} \subseteq TaskSteps \ (CallSteps \cup {"backoff", "finalize"})
      BY PlacesOfTask
    <3>1. Fits(task') /\ task.pc = "stream" /\ task'.pc = "next"
      BY <3>0, <1>a DEF Fits, Tasks
    <3>2. \A x \in Calls : call'[x] \in CallRecs
      BY TaskFacts DEF CallRecs, theRun
    <3>3. JournalOK'
      BY <2>3, <3>2 DEF JournalOK, TypeInv
    <3>4. MailOK' /\ HistoryOK'
      BY <2>3 DEF MailOK, HistoryOK, Quiet, history, TypeInv
    <3> QED BY <2>3, <3>1, <3>3, <3>4, PlacesOfTask, TaskKeeps DEF Held, TypeInv
  <2> QED BY <1>4, <2>1, <2>2, <2>3 DEF ConsumeStream
<1>5. CASE DrainCompletion
  <2>1. Fits(task') /\ task.pc = "drain" /\ task'.pc \in {"turn", "finalize"}
    BY <1>5, <1>a, PlacesOfTask, StepFits, FinishFits DEF DrainCompletion
  <2> QED BY <1>5, <2>1, PlacesOfTask, AloneKeeps DEF DrainCompletion
<1>6. CASE NextCall
  <2>1. Fits(task') /\ task.pc = "next" /\ task'.pc \in {"intent", "intent_cancelled"}
    <3>0. /\ {"intent", "intent_cancelled"} \subseteq CallSteps
          /\ CallSteps \subseteq TaskSteps \ {"backoff", "finalize"}
      BY PlacesOfTask
    <3>1. PICK x \in task.batch, to \in {"intent", "intent_cancelled"} :
            task' = [task EXCEPT !.pc = to, !.call = x, !.batch = @ \ {x}]
      BY <1>6 DEF NextCall
    <3> QED BY <3>0, <3>1, <1>6, <1>a DEF NextCall, Fits, Tasks
  <2> QED BY <1>6, <2>1, PlacesOfTask, AloneKeeps DEF NextCall
<1>7. CASE CompleteCall
  <2>1. Fits(task') /\ task.pc = "complete" /\ task'.pc \in {"finalize", "close", "next"}
    <3>1. CASE Finish("complete", "interrupted")
      BY <3>1, <1>a, PlacesOfTask, FinishFits
    <3>2. CASE /\ task.pc = "complete"
               /\ task' = [task EXCEPT !.call = NoCall,
                             !.pc = IF task.batch = {} THEN "close" ELSE "next"]
      <4>1. {"close", "next"} \subseteq TaskSteps \ (CallSteps \cup {"backoff", "finalize"})
        BY PlacesOfTask
      <4> QED BY <3>2, <1>a, <4>1 DEF Fits, Tasks
    <3> QED BY <1>7, <3>1, <3>2 DEF CompleteCall
  <2> QED BY <1>7, <2>1, PlacesOfTask, AloneKeeps DEF CompleteCall
<1>8. CASE CloseBatch
  <2>1. Fits(task') /\ task.pc = "close" /\ task'.pc \in {"turn", "finalize"}
    BY <1>8, <1>a, PlacesOfTask, StepFits, FinishFits DEF CloseBatch
  <2> QED BY <1>8, <2>1, PlacesOfTask, AloneKeeps DEF CloseBatch
<1> QED BY <1>1, <1>2, <1>3, <1>4, <1>5, <1>6, <1>7, <1>8

(* A step of the task that writes one field of its call. *)
LEMMA CallStepKeeps ==
  ASSUME TypeInv, NEW rec \in CallRecs, RecordCall(theCall, rec),
         task.pc \in CallSteps, Fits(task'), MailOK', HistoryOK',
         UNCHANGED <<active, rpc>>,
         lock' \in {"free", "task", "rpc"},
         lock' = "task" <=> task'.pc \in TaskLocked,
         lock' = "rpc" <=> lock = "rpc",
         task'.pc # "ending"
  PROVE  TypeInv'
<1>1. JournalOK'
  BY TaskFacts, CallRecorded DEF TypeInv
<1>2. task.pc # "none"
  BY PlacesOfTask
<1> QED BY <1>1, <1>2, TaskKeeps

(* Steps that change no history variable.                                    *)
LEMMA QuietKeeps ==
  ASSUME TypeInv, Quiet
  PROVE  /\ HistoryOK'
         /\ UNCHANGED <<pending, mailbox>> => MailOK'
         /\ pending' \in Calls \cup {NoCall} /\ mailbox' \in Mails => MailOK'
         /\ UNCHANGED <<run, call>> => JournalOK'
         /\ mailbox \in Mails /\ pending \in Calls \cup {NoCall}
         /\ {"none", "deny", "cancellation", "undelivered", "allow_once"} = Mails
         /\ Choices = {"allow_once", "deny"}
BY DEF TypeInv, Quiet, MailOK, HistoryOK, JournalOK, history, Mails, Choices

(* execute_tool_call.                                                        *)
LEMMA CallsTyped ==
  ASSUME TypeInv, WriteIntent \/ StartTool \/ Execute \/ AskApproval \/ AnnounceApproval
                  \/ TakeAnswer \/ ApprovalTimeout \/ WriteResult \/ WriteMessage
  PROVE  TypeInv'
<1>a. Fits(task) /\ task \in Tasks /\ Held /\ JournalOK
  BY TaskFacts DEF TypeInv
<1>b. ASSUME task.pc \in CallSteps
      PROVE  theCall \in Calls /\ call[theCall] \in CallRecs /\ task.pc # "none"
  BY <1>b, TaskFacts, PlacesOfTask
<1>1. CASE WriteIntent
  <2>0. Quiet /\ UNCHANGED <<active, rpc, lock, pending, mailbox>>
    BY <1>1 DEF WriteIntent
  <2>1. /\ Fits(task') /\ task.pc \in {"intent", "intent_cancelled"}
        /\ task'.pc \in {"result", "start", "ask"}
    BY <1>1, <1>a, PlacesOfTask, StepFits, RefuseFits DEF WriteIntent
  <2>2. PICK status \in Intents :
          RecordCall(theCall, [call[theCall] EXCEPT !.intent = status])
    BY <1>1 DEF WriteIntent, Intents
  <2>3. task.pc \in CallSteps
    BY <2>1, PlacesOfTask
  <2>4. [call[theCall] EXCEPT !.intent = status] \in CallRecs
    BY <1>b, <2>3 DEF CallRecs
  <2> QED BY <2>0, <2>1, <2>2, <2>3, <2>4, <1>a, PlacesOfTask, QuietKeeps, CallStepKeeps DEF Held
<1>2. CASE StartTool
  <2>0. Quiet /\ UNCHANGED <<active, rpc, lock, pending, mailbox>>
    BY <1>2 DEF StartTool
  <2>1. Fits(task') /\ task.pc = "start" /\ task'.pc \in {"result", "execute"}
    BY <1>2, <1>a, PlacesOfTask, StepFits, RefuseFits DEF StartTool
  <2>2. task.pc \in CallSteps /\ task'.pc \notin TaskLocked /\ task.pc \notin TaskLocked
        /\ task'.pc # "ending"
    BY <2>1, PlacesOfTask
  <2>3. CASE RecordCall(theCall, [call[theCall] EXCEPT !.started = TRUE])
    <3>1. [call[theCall] EXCEPT !.started = TRUE] \in CallRecs
      BY <1>b, <2>2 DEF CallRecs
    <3> QED BY <2>0, <2>1, <2>2, <2>3, <3>1, <1>a, QuietKeeps, CallStepKeeps DEF Held
  <2>4. CASE UNCHANGED journal
    BY <2>0, <2>1, <2>2, <2>4, <1>a, <1>b, QuietKeeps, TaskKeeps DEF Held, journal
  <2> QED BY <1>2, <2>3, <2>4 DEF StartTool
<1>3. CASE Execute
  <2>1. Fits(task') /\ task.pc = "execute" /\ task'.pc = "result"
    BY <1>3, <1>a, PlacesOfTask, StepFits, RefuseFits DEF Execute
  <2>2. task.pc \in CallSteps /\ task'.pc \notin TaskLocked /\ task.pc \notin TaskLocked
        /\ task'.pc # "ending"
    BY <2>1, PlacesOfTask
  <2>3. HistoryOK' /\ MailOK' /\ JournalOK'
    BY <1>3, <1>b, <2>2 DEF Execute, TypeInv, HistoryOK, MailOK, JournalOK
  <2> QED BY <1>3, <1>a, <1>b, <2>1, <2>2, <2>3, TaskKeeps DEF Execute, Held
<1>4. CASE AskApproval
  <2>0. Quiet /\ UNCHANGED <<active, rpc, mailbox>> /\ lock = "free"
    BY <1>4 DEF AskApproval
  <2>1. CASE Refuse("ask", TRUE) /\ UNCHANGED <<journal, lock, pending>>
    <3>1. Fits(task') /\ task.pc = "ask" /\ task'.pc = "result"
      BY <2>1, <1>a, PlacesOfTask, RefuseFits
    <3>2. task.pc \in CallSteps /\ task'.pc \notin TaskLocked /\ task'.pc # "ending"
      BY <3>1, PlacesOfTask
    <3> QED BY <2>0, <2>1, <3>1, <3>2, <1>a, <1>b, QuietKeeps, TaskKeeps DEF Held, journal
  <2>2. CASE /\ Step("ask", "announce")
             /\ RecordCall(theCall, [call[theCall] EXCEPT !.asked = TRUE])
             /\ pending' = theCall /\ lock' = "task"
    <3>1. Fits(task') /\ task.pc = "ask" /\ task'.pc = "announce"
      BY <2>2, <1>a, PlacesOfTask, StepFits
    <3>2. task.pc \in CallSteps /\ task'.pc \in TaskLocked /\ task'.pc # "ending"
      BY <3>1, PlacesOfTask
    <3>3. [call[theCall] EXCEPT !.asked = TRUE] \in CallRecs
      BY <1>b, <3>2 DEF CallRecs
    <3>4. MailOK' /\ HistoryOK'
      BY <2>0, <2>2, <3>2, <1>b, QuietKeeps
    <3> QED BY <2>0, <2>2, <3>1, <3>2, <3>3, <3>4, CallStepKeeps
  <2> QED BY <1>4, <2>1, <2>2 DEF AskApproval
<1>5. CASE AnnounceApproval
  <2>0. Quiet /\ UNCHANGED <<active, rpc>> /\ lock' = "free"
    BY <1>5 DEF AnnounceApproval
  <2>1. Fits(task') /\ task.pc = "announce" /\ task'.pc = "wait"
    BY <1>5, <1>a, PlacesOfTask, StepFits DEF AnnounceApproval
  <2>2. task.pc \in CallSteps /\ task'.pc \notin TaskLocked /\ task'.pc # "ending"
        /\ lock # "rpc"
    BY <2>1, <1>a, PlacesOfTask DEF Held
  <2>3. JournalOK' /\ MailOK' /\ HistoryOK'
    BY <1>5, <2>0, <2>2, <1>a, <1>b, QuietKeeps, Resolved DEF AnnounceApproval, journal
  <2> QED BY <2>0, <2>1, <2>2, <2>3, <1>b, TaskKeeps
<1>6. CASE TakeAnswer
  <2>0. Quiet /\ UNCHANGED <<run, call, active, rpc, lock, pending>> /\ mailbox' = "none"
    BY <1>6 DEF TakeAnswer
  <2>1. Fits(task') /\ task.pc = "wait" /\ task'.pc \in {"start", "result"}
    <3>1. CASE Step("wait", "start") \/ Refuse("wait", FALSE) \/ Refuse("wait", TRUE)
      BY <3>1, <1>a, PlacesOfTask, StepFits, RefuseFits
    <3>2. CASE task.pc = "wait" /\ task' = [task EXCEPT !.pc = "result", !.undelivered = TRUE]
      BY <3>2, <1>a, PlacesOfTask DEF Fits, Tasks
    <3> QED BY <1>6, <3>1, <3>2 DEF TakeAnswer
  <2>2. task.pc \in CallSteps /\ task'.pc \notin TaskLocked /\ task'.pc # "ending"
        /\ task.pc \notin TaskLocked
    BY <2>1, PlacesOfTask
  <2> QED BY <2>0, <2>1, <2>2, <1>a, <1>b, QuietKeeps, TaskKeeps DEF Held
<1>7. CASE ApprovalTimeout
  <2>0. Quiet /\ UNCHANGED <<active, rpc, lock, mailbox>> /\ pending' = NoCall /\ lock = "free"
    BY <1>7 DEF ApprovalTimeout
  <2>1. Fits(task') /\ task.pc = "wait" /\ task'.pc = "result"
    BY <1>7, <1>a, PlacesOfTask, RefuseFits DEF ApprovalTimeout
  <2>2. task.pc \in CallSteps /\ task'.pc \notin TaskLocked /\ task'.pc # "ending"
    BY <2>1, PlacesOfTask
  <2>3. JournalOK' /\ MailOK' /\ HistoryOK'
    BY <1>7, <2>0, <2>2, <1>a, <1>b, QuietKeeps, Resolved DEF ApprovalTimeout
  <2> QED BY <2>0, <2>1, <2>2, <2>3, <1>b, TaskKeeps
<1>8. CASE WriteResult
  <2>0. Quiet /\ UNCHANGED <<active, rpc, lock, pending, mailbox>>
    BY <1>8 DEF WriteResult
  <2>1. Fits(task') /\ task.pc = "result" /\ task'.pc = "message"
    BY <1>8, <1>a, PlacesOfTask, StepFits DEF WriteResult
  <2>2. task.pc \in CallSteps /\ task'.pc \notin TaskLocked /\ task'.pc # "ending"
        /\ task.pc \notin TaskLocked
    BY <2>1, PlacesOfTask
  <2>3. PICK r \in {"known", "not_run"} :
          RecordCall(theCall, [call[theCall] EXCEPT !.results = Append(@, r)])
    BY <1>8 DEF WriteResult
  <2>4. [call[theCall] EXCEPT !.results = Append(@, r)] \in CallRecs
    <3>1. call[theCall].results \in Seq({"known", "not_run", "unknown"})
      BY <1>b, <2>2 DEF CallRecs
    <3>2. Append(call[theCall].results, r) \in Seq({"known", "not_run", "unknown"})
      BY <3>1
    <3> QED BY <3>2, <1>b, <2>2 DEF CallRecs
  <2> QED BY <2>0, <2>1, <2>2, <2>3, <2>4, <1>a, QuietKeeps, CallStepKeeps DEF Held
<1>9. CASE WriteMessage
  <2>0. Quiet /\ UNCHANGED <<active, rpc, lock, pending, mailbox>>
    BY <1>9 DEF WriteMessage
  <2>1. Fits(task') /\ task.pc = "message" /\ task'.pc = "complete"
    BY <1>9, <1>a, PlacesOfTask, StepFits DEF WriteMessage
  <2>2. task.pc \in CallSteps /\ task'.pc \notin TaskLocked /\ task'.pc # "ending"
        /\ task.pc \notin TaskLocked
    BY <2>1, PlacesOfTask
  <2>3. [call[theCall] EXCEPT !.messages = @ + 1] \in CallRecs
    BY <1>b, <2>2 DEF CallRecs
  <2> QED BY <1>9, <2>0, <2>1, <2>2, <2>3, <1>a, QuietKeeps, CallStepKeeps
          DEF Held, WriteMessage
<1> QED BY <1>1, <1>2, <1>3, <1>4, <1>5, <1>6, <1>7, <1>8, <1>9

(* finalize_run, and the end of the task.                                    *)
LEMMA FinalTyped ==
  ASSUME TypeInv, Finalize \/ EmitEnding \/ Retire
  PROVE  TypeInv'
<1>a. Fits(task) /\ task \in Tasks /\ Held /\ JournalOK /\ active \in Lives /\ Bound
  BY TaskFacts DEF TypeInv, LiveOK
<1>b. ASSUME task.pc # "none"
      PROVE  theRun \in Runs /\ run[theRun] \in RunRecs
  BY <1>b, TaskFacts DEF theRun
<1>1. CASE Finalize
  <2>0. Quiet /\ UNCHANGED <<active, rpc, pending, mailbox>> /\ lock = "free" /\ lock' = "task"
    BY <1>1 DEF Finalize, approval
  <2>1. Fits(task') /\ task.pc = "finalize" /\ task'.pc = "ending"
    BY <1>1, <1>a, PlacesOfTask, StepFits DEF Finalize
  <2>2. task.pc # "none" /\ task'.pc \in TaskLocked
    BY <2>1, PlacesOfTask
  <2>3. PICK end \in Ends :
          RecordRun(theRun, [run[theRun] EXCEPT !.terminals = Append(@, end)])
    BY <1>1, <2>1, <1>a DEF Finalize, Fits, Ends
  <2>4. Append(run[theRun].terminals, end) \in Seq(Ends) /\ run[theRun].terminals \in Seq(Ends)
        /\ Append(run[theRun].terminals, end) # <<>>
    <3>1. run[theRun].terminals \in Seq(Ends)
      BY <1>b, <2>2 DEF RunRecs
    <3> QED BY <3>1
  <2>5. [run[theRun] EXCEPT !.terminals = Append(@, end)] \in RunRecs
    BY <2>4, <1>b, <2>2 DEF RunRecs
  <2>6. JournalOK'
    BY <2>3, <2>5, <1>a, <1>b, <2>2, RunRecorded
  <2>7. run'[active.run].terminals # <<>>
    BY <2>3, <2>4, <1>a, <1>b, <2>2 DEF RecordRun, JournalOK, theRun, RunRecs
  <2> QED BY <2>0, <2>1, <2>2, <2>6, <2>7, QuietKeeps, TaskKeeps
<1>2. CASE EmitEnding
  <2>0. Quiet /\ UNCHANGED <<rpc, pending, mailbox>> /\ lock' = "free"
        /\ active' = [active EXCEPT !.terminal = TRUE]
    BY <1>2 DEF EmitEnding, approval
  <2>1. Fits(task') /\ task.pc = "ending" /\ task'.pc = "retire"
    BY <1>2, <1>a, PlacesOfTask, StepFits DEF EmitEnding
  <2>2. task.pc # "none" /\ task.pc \in TaskLocked /\ task'.pc \notin TaskLocked
        /\ lock = "task" /\ rpc.pc \notin RpcLocked
    BY <2>1, PlacesOfTask, <1>a DEF Held
  <2>3. run[theRun].terminals[Len(run[theRun].terminals)] \in Ends
    <3>1. run[theRun].terminals \in Seq(Ends) /\ run[theRun].terminals # <<>>
      BY <1>b, <2>1, <2>2, <1>a DEF RunRecs, Bound, theRun
    <3> QED BY <3>1
  <2>4. PICK end \in Ends :
          RecordRun(theRun, [run[theRun] EXCEPT !.endings = Append(@, end)])
    BY <1>2, <2>3 DEF EmitEnding
  <2>5. Append(run[theRun].endings, end) \in Seq(Ends)
    <3>1. run[theRun].endings \in Seq(Ends)
      BY <1>b, <2>2 DEF RunRecs
    <3> QED BY <3>1
  <2>6. [run[theRun] EXCEPT !.endings = Append(@, end)] \in RunRecs
    BY <2>5, <1>b, <2>2 DEF RunRecs
  <2>7. JournalOK'
    BY <2>4, <2>6, <1>a, <1>b, <2>2, RunRecorded
  <2>8. LiveOK' /\ active'.run = active.run /\ active.run # NoRun
    BY <2>0, <2>2, <1>a DEF LiveOK, Lives, Bound
  <2>9. Held' /\ Bound'
    BY <2>0, <2>1, <2>2, <2>8, <1>a DEF Held, Bound, NoActive
  <2> QED BY <2>0, <2>1, <2>7, <2>8, <2>9, QuietKeeps DEF TypeInv
<1>3. CASE Retire
  <2>0. Quiet /\ UNCHANGED <<run, call, rpc, lock>> /\ pending' = NoCall /\ mailbox' = "none"
        /\ task' = NoTask /\ active' = NoActive /\ task.pc = "retire" /\ lock # "rpc"
    BY <1>3 DEF Retire, journal
  <2>1. task' \in Tasks /\ Fits(task') /\ task'.pc = "none" /\ task'.pc \notin TaskLocked
    <3>1. task' = [pc |-> "none", turn |-> 0, attempt |-> 0, batch |-> {}, call |-> NoCall,
               stopped |-> FALSE, undelivered |-> FALSE, outcome |-> "none"]
      BY <2>0 DEF NoTask
    <3>2. task' \in Tasks
      BY <3>1, BoundAssumption, PlacesOfTask DEF Tasks
    <3> QED BY <3>1, <3>2, PlacesOfTask DEF Fits
  <2>2. LiveOK' /\ lock = "free" /\ rpc.pc \notin RpcLocked /\ rpc.pc \notin {"accepted"}
    <3>1. task.pc \notin TaskLocked
      BY <2>0, PlacesOfTask
    <3> QED BY <2>0, <3>1, <1>a DEF LiveOK, NoActive, Lives, Held, Bound
  <2>3. Held' /\ Bound'
    BY <2>0, <2>1, <2>2, <1>a DEF Held, Bound, NoActive
  <2> QED BY <2>0, <2>1, <2>2, <2>3, QuietKeeps DEF TypeInv
<1> QED BY <1>1, <1>2, <1>3

(* All steps of the task.                                                    *)
LEMMA TaskTyped == TypeInv /\ Task => TypeInv'
BY LoopTyped, CallsTyped, FinalTyped DEF Task
-----------------------------------------------------------------------------
(* A handler that has no approval in hand.                                   *)
LEMMA HandlerFits ==
  ASSUME NEW p \in Handlers \ {"respond", "deliver"}
  PROVE  RpcFits(Handler(p)) /\ Handler(p).pc = p
BY DEF RpcFits, Handler, Rpcs

(* The places of the protocol loop, and those that hold a lock.              *)
LEMMA PlacesOfHandler ==
  /\ {"down", "idle", "recover", "accepted", "cancel_noted", "cancel_marked",
      "cancel_resolved", "shutdown", "disconnect", "hung_up", "drain"}
        = Handlers \ {"respond", "deliver"}
  /\ {"respond", "deliver"} \subseteq Handlers
  /\ {"down", "idle", "recover", "accepted", "shutdown", "disconnect", "drain", "deliver"}
       \cap RpcLocked = {}
  /\ RpcLocked = {"respond", "cancel_noted", "cancel_marked", "cancel_resolved", "hung_up"}
BY DEF Handlers, RpcLocked, Closing

(* A step of a handler beside the task. *)
LEMMA ServeKeeps ==
  ASSUME TypeInv, task' = task, LiveOK', active'.run = active.run,
         active.run = NoRun => active' = NoActive /\ lock' = "free" /\ pending' = NoCall,
         RpcFits(rpc'), JournalOK', MailOK', HistoryOK',
         lock' \in {"free", "task", "rpc"},
         lock' = "task" <=> lock = "task",
         lock' = "rpc" <=> rpc'.pc \in RpcLocked,
         rpc'.pc = "recover" => active' = NoActive,
         rpc'.pc # "accepted",
         task.pc = "ending" => UNCHANGED run
  PROVE  TypeInv'
BY DEF TypeInv, Held, Bound

(* What the type invariant says to a handler.                                *)
LEMMA HandlerFacts ==
  ASSUME TypeInv
  PROVE  /\ JournalOK /\ LiveOK /\ MailOK /\ HistoryOK /\ Held /\ Bound /\ Fits(task)
         /\ RpcFits(rpc) /\ rpc \in Rpcs
         /\ UNCHANGED journal => JournalOK'
         /\ UNCHANGED active => LiveOK'
         /\ UNCHANGED approval => UNCHANGED <<pending, mailbox>>
         /\ \A x \in Calls : call[x] \in CallRecs
         /\ \A x \in Runs : run[x] \in RunRecs
         /\ active.run = NoRun => active = NoActive /\ lock = "free" /\ pending = NoCall
         /\ active.run \in Runs \cup {NoRun}
         /\ task.pc = "wait" => theCall \in Calls
         /\ lock = "free" => task.pc # "ending" /\ rpc.pc \notin RpcLocked
         /\ lock = "rpc" => task.pc # "ending"
<1>1. task.pc = "wait" => theCall \in Calls
  BY TaskFacts, PlacesOfTask
<1>2. lock = "free" => task.pc # "ending" /\ rpc.pc \notin RpcLocked
  BY DEF TypeInv, Held, TaskLocked
<1>3. lock = "rpc" => task.pc # "ending"
  BY DEF TypeInv, Held, TaskLocked
<1> QED BY <1>1, <1>2, <1>3
        DEF TypeInv, RpcFits, JournalOK, journal, LiveOK, Lives, approval, Bound

(* A handler step that changes only where the protocol loop is.              *)
LEMMA AnsweringKeeps ==
  ASSUME TypeInv, NEW p \in {"idle", "shutdown", "disconnect", "drain"},
         rpc' = Handler(p), rpc.pc \notin RpcLocked,
         UNCHANGED <<journal, active, task, lock, approval>>, HistoryOK',
         connected' \in BOOLEAN
  PROVE  TypeInv'
<1>1. RpcFits(rpc') /\ rpc'.pc = p /\ rpc'.pc \notin RpcLocked
  BY HandlerFits, PlacesOfHandler
<1>2. MailOK'
  BY HandlerFacts DEF MailOK
<1>3. lock # "rpc" /\ lock \in {"free", "task", "rpc"}
  BY HandlerFacts DEF Held
<1> QED BY <1>1, <1>2, <1>3, HandlerFacts, ServeKeeps DEF journal

(* recover_interrupted appends records of the right shape.                   *)
LEMMA RecoverTyped ==
  ASSUME TypeInv, Recover
  PROVE  TypeInv'
<1>0. Quiet /\ UNCHANGED <<active, task, rpc, lock, pending, mailbox>> /\ rpc.pc = "recover"
  BY DEF Recover, approval
<1>1. JournalOK'
  <2>1. CASE \E x \in ToAnswer : RecoverApproval(x)
    <3>1. PICK x \in Calls : Resolve(x, "deny")
      BY <2>1 DEF ToAnswer, RecoverApproval
    <3> QED BY <3>1, HandlerFacts, Resolved DEF Choices
  <2>2. CASE \E x \in ToAnswer : RecoverResult(x)
    <3>1. PICK x \in Calls, r \in {"unknown", "not_run"} :
            RecordCall(x, [call[x] EXCEPT !.results = Append(@, r)])
      BY <2>2 DEF ToAnswer, RecoverResult
    <3>2. call[x].results \in Seq({"known", "not_run", "unknown"})
      BY HandlerFacts DEF CallRecs
    <3>3. Append(call[x].results, r) \in Seq({"known", "not_run", "unknown"})
      BY <3>2
    <3>4. [call[x] EXCEPT !.results = Append(@, r)] \in CallRecs
      BY <3>3, HandlerFacts DEF CallRecs
    <3> QED BY <3>1, <3>4, HandlerFacts, CallRecorded
  <2>3. CASE \E x \in ToMessage : RecoverMessage(x)
    <3>1. PICK x \in Calls : RecordCall(x, [call[x] EXCEPT !.messages = @ + 1])
      BY <2>3 DEF ToMessage, RecoverMessage
    <3>2. [call[x] EXCEPT !.messages = @ + 1] \in CallRecs
      BY HandlerFacts DEF CallRecs
    <3> QED BY <3>1, <3>2, HandlerFacts, CallRecorded
  <2>4. CASE \E x \in ToEnd : RecoverTerminal(x)
    <3>1. PICK x \in Runs :
            RecordRun(x, [run[x] EXCEPT !.terminals = Append(@, "interrupted")])
      BY <2>4 DEF ToEnd, RecoverTerminal
    <3>2. run[x].terminals \in Seq(Ends) /\ "interrupted" \in Ends
      BY HandlerFacts DEF RunRecs, Ends
    <3>3. Append(run[x].terminals, "interrupted") \in Seq(Ends)
      BY <3>2
    <3>4. [run[x] EXCEPT !.terminals = Append(@, "interrupted")] \in RunRecs
      BY <3>3, HandlerFacts DEF RunRecs
    <3> QED BY <3>1, <3>4, HandlerFacts, RunRecorded
  <2>5. CASE \E x \in ToEmit : RecoverEnding(x)
    <3>1. PICK x \in Runs : run[x].terminals # <<>> /\
            RecordRun(x, [run[x] EXCEPT !.endings = Append(@, run[x].terminals[1])])
      BY <2>5 DEF ToEmit, RecoverEnding, Ended
    <3>2. run[x].terminals \in Seq(Ends) /\ run[x].endings \in Seq(Ends)
      BY HandlerFacts DEF RunRecs
    <3>3. Append(run[x].endings, run[x].terminals[1]) \in Seq(Ends)
      BY <3>1, <3>2
    <3>4. [run[x] EXCEPT !.endings = Append(@, run[x].terminals[1])] \in RunRecs
      BY <3>3, HandlerFacts DEF RunRecs
    <3> QED BY <3>1, <3>4, HandlerFacts, RunRecorded
  <2> QED BY <2>1, <2>2, <2>3, <2>4, <2>5 DEF Recover
<1>2. MailOK' /\ HistoryOK'
  BY <1>0, QuietKeeps
<1>3. active = NoActive /\ task.pc = "none"
  BY <1>0, HandlerFacts DEF Bound, NoActive
<1>4. task.pc # "ending"
  BY <1>3
<1>5. lock # "rpc" /\ rpc.pc \notin RpcLocked /\ lock \in {"free", "task", "rpc"}
  BY <1>0, HandlerFacts, PlacesOfHandler DEF Held
<1> QED BY <1>0, <1>1, <1>2, <1>3, <1>4, <1>5, HandlerFacts, ServeKeeps

(* run/start, session/get, and the ends of the connection.                   *)
LEMMA RequestsTyped ==
  ASSUME TypeInv,
         \/ \E x \in Runs : StartRun(x)
         \/ GetSession \/ AcceptRun \/ ReturnSnapshot \/ LaunchRun \/ LoseClient \/ Restart
         \/ Disconnect
  PROVE  TypeInv'
<1>1. CASE \E x \in Runs : StartRun(x)
  <2>1. PICK x \in Runs : rpc' = [Handler("recover") EXCEPT !.run = x]
    BY <1>1 DEF StartRun
  <2>2. RpcFits(rpc') /\ rpc'.pc = "recover"
    <3>1. rpc' = [pc |-> "recover", run |-> x, choice |-> "none"]
      BY <2>1 DEF Handler
    <3>2. rpc' \in Rpcs
      BY <3>1, PlacesOfHandler DEF Rpcs
    <3> QED BY <3>1, <3>2 DEF RpcFits
  <2>3. /\ UNCHANGED <<run, call, active, task, lock, pending, mailbox>> /\ Quiet
        /\ active = NoActive /\ rpc.pc = "idle"
    BY <1>1 DEF StartRun, Answering, journal, approval
  <2>4. lock # "rpc" /\ rpc'.pc \notin RpcLocked /\ lock \in {"free", "task", "rpc"}
    BY <2>2, <2>3, HandlerFacts, PlacesOfHandler DEF Held
  <2> QED BY <2>2, <2>3, <2>4, QuietKeeps, HandlerFacts, ServeKeeps DEF journal
<1>2. CASE GetSession
  <2>1. /\ UNCHANGED <<run, call, active, task, lock, pending, mailbox>> /\ Quiet
        /\ active = NoActive /\ rpc.pc = "idle" /\ rpc' = Handler("recover")
    BY <1>2 DEF GetSession, Reply, Answering, journal, approval
  <2>2. RpcFits(rpc') /\ rpc'.pc = "recover"
    BY <2>1, HandlerFits, PlacesOfHandler
  <2>3. lock # "rpc" /\ rpc'.pc \notin RpcLocked /\ lock \in {"free", "task", "rpc"}
    BY <2>1, <2>2, HandlerFacts, PlacesOfHandler DEF Held
  <2> QED BY <2>1, <2>2, <2>3, QuietKeeps, HandlerFacts, ServeKeeps DEF journal
<1>3. CASE AcceptRun
  <2>0. /\ Quiet /\ UNCHANGED <<task, lock, pending, mailbox>>
        /\ rpc.pc = "recover" /\ rpc.run # NoRun /\ rpc' = Handler("accepted")
        /\ RecordRun(rpc.run, [run[rpc.run] EXCEPT !.accepted = TRUE])
        /\ active' = [NoActive EXCEPT !.run = rpc.run]
    BY <1>3 DEF AcceptRun, approval
  <2>1. rpc.run \in Runs
    BY <2>0, HandlerFacts DEF Rpcs
  <2>2. RpcFits(rpc') /\ rpc'.pc = "accepted"
    BY <2>0, HandlerFits, PlacesOfHandler
  <2>3. [run[rpc.run] EXCEPT !.accepted = TRUE] \in RunRecs
    BY <2>1, HandlerFacts DEF RunRecs
  <2>4. JournalOK' /\ MailOK' /\ HistoryOK'
    BY <2>0, <2>1, <2>3, HandlerFacts, RunRecorded, QuietKeeps
  <2>5. LiveOK' /\ active'.run # NoRun
    BY <2>0, <2>1 DEF LiveOK, Lives, NoActive
  <2>6. active = NoActive /\ active.run = NoRun /\ task.pc = "none" /\ lock = "free"
    BY <2>0, HandlerFacts DEF Bound, NoActive
  <2>7. Held' /\ Bound'
    BY <2>0, <2>2, <2>5, <2>6, HandlerFacts, PlacesOfHandler DEF Held, Bound
  <2>8. Fits(task')
    BY <2>0, HandlerFacts
  <2> QED BY <2>2, <2>4, <2>5, <2>7, <2>8 DEF TypeInv
<1>4. CASE ReturnSnapshot
  <2>1. Quiet /\ rpc.pc = "recover" /\ rpc' = Handler("idle")
        /\ UNCHANGED <<journal, active, task, lock, approval>>
    BY <1>4 DEF ReturnSnapshot, Reply, Answering
  <2> QED BY <2>1, PlacesOfHandler, QuietKeeps, HandlerFacts, AnsweringKeeps DEF Quiet, MailOK
<1>5. CASE LaunchRun
  <2>1. Quiet /\ UNCHANGED <<journal, active, lock, approval>> /\ rpc.pc = "accepted"
    BY <1>5 DEF LaunchRun, Reply
  <2>2. CASE rpc' = Handler("shutdown") /\ UNCHANGED task
    BY <2>1, <2>2, PlacesOfHandler, QuietKeeps, HandlerFacts, AnsweringKeeps DEF Quiet, MailOK
  <2>3. CASE rpc' = Handler("idle") /\ task' = [NoTask EXCEPT !.pc = "turn"]
    <3>1. Fits(task') /\ task'.pc = "turn"
      <4>1. task' = [pc |-> "turn", turn |-> 0, attempt |-> 0, batch |-> {}, call |-> NoCall,
               stopped |-> FALSE, undelivered |-> FALSE, outcome |-> "none"]
        BY <2>3 DEF NoTask
      <4>2. task' \in Tasks
        BY <4>1, BoundAssumption, PlacesOfTask DEF Tasks
      <4> QED BY <4>1, <4>2, PlacesOfTask DEF Fits
    <3>2. RpcFits(rpc') /\ rpc'.pc = "idle"
      BY <2>3, HandlerFits, PlacesOfHandler
    <3>3. active.run # NoRun /\ task.pc = "none"
      BY <2>1, HandlerFacts DEF Bound
    <3>4. Held' /\ Bound'
      BY <2>1, <3>1, <3>2, <3>3, HandlerFacts, PlacesOfHandler, PlacesOfTask DEF Held, Bound
    <3> QED BY <2>1, <3>1, <3>2, <3>4, HandlerFacts, QuietKeeps DEF TypeInv
  <2> QED BY <1>5, <2>2, <2>3 DEF LaunchRun, Reply
<1>6. CASE LoseClient
  <2>1. Quiet /\ rpc.pc = "idle" /\ rpc' = Handler("shutdown")
        /\ UNCHANGED <<journal, active, task, lock, approval>>
    BY <1>6 DEF LoseClient, Reply, Answering
  <2> QED BY <2>1, PlacesOfHandler, QuietKeeps, HandlerFacts, AnsweringKeeps DEF Quiet, MailOK
<1>7. CASE Restart
  <2>1. Quiet /\ rpc.pc = "down" /\ rpc' = Handler("idle")
        /\ UNCHANGED <<journal, active, task, lock, approval>>
    BY <1>7 DEF Restart, Reply, Answering
  <2> QED BY <2>1, PlacesOfHandler, QuietKeeps, HandlerFacts, AnsweringKeeps DEF Quiet, MailOK
<1>8. CASE Disconnect
  <2>1. rpc.pc = "shutdown" /\ rpc' = Handler("disconnect") /\ connected' = FALSE
        /\ UNCHANGED <<journal, active, task, lock, approval>>
        /\ UNCHANGED <<ran, acked, crashes, faults>>
    BY <1>8 DEF Disconnect, Reply, history
  <2>2. HistoryOK'
    BY <2>1, HandlerFacts DEF HistoryOK
  <2> QED BY <2>1, <2>2, PlacesOfHandler, AnsweringKeeps
<1> QED BY <1>1, <1>2, <1>3, <1>4, <1>5, <1>6, <1>7, <1>8

(* approval/respond, and the denial of what a lost client left pending.      *)
LEMMA ApprovalsTyped ==
  ASSUME TypeInv,
         \/ \E choice \in Choices \cup {"expired"} : RespondApproval(choice)
         \/ TakePending \/ DeliverApproval \/ DenyPending \/ HangUp
  PROVE  TypeInv'
<1>p. ASSUME NEW m \in Mails, Post(m)
      PROVE  mailbox' \in Mails
  BY <1>p, HandlerFacts DEF Post, MailOK
<1>1. CASE \E choice \in Choices \cup {"expired"} : RespondApproval(choice)
  <2>1. PICK choice \in Choices \cup {"expired"} :
          /\ rpc' = [Handler("respond") EXCEPT !.choice = choice]
          /\ Resolve(pending, IF choice = "expired" THEN "deny" ELSE choice)
    BY <1>1 DEF RespondApproval
  <2>2. /\ lock = "free" /\ lock' = "rpc" /\ pending # NoCall
        /\ UNCHANGED <<active, task, pending, mailbox>> /\ Quiet
    BY <1>1 DEF RespondApproval, approval
  <2>3. RpcFits(rpc') /\ rpc'.pc = "respond"
    <3>1. rpc' = [pc |-> "respond", run |-> NoRun, choice |-> choice]
      BY <2>1 DEF Handler
    <3>2. rpc' \in Rpcs
      BY <3>1, PlacesOfHandler DEF Rpcs
    <3> QED BY <3>1, <3>2 DEF RpcFits
  <2>4. JournalOK' /\ run' = run
    <3>1. (IF choice = "expired" THEN "deny" ELSE choice) \in Choices
      BY DEF Choices
    <3>2. pending \in Calls
      BY <2>2, QuietKeeps
    <3> QED BY <2>1, <3>1, <3>2, HandlerFacts, Resolved
  <2>5. rpc'.pc \in RpcLocked
    BY <2>3, PlacesOfHandler
  <2>6. active.run # NoRun
    BY <2>2, HandlerFacts
  <2> QED BY <2>2, <2>3, <2>4, <2>5, <2>6, HandlerFacts, QuietKeeps, ServeKeeps
<1>2. CASE TakePending
  <2>1. rpc.pc = "respond" /\ Quiet /\ UNCHANGED <<run, call, active, task>>
        /\ pending' = NoCall /\ lock' = "free" /\ journal' = journal
    BY <1>2 DEF TakePending, journal
  <2>2. lock = "rpc" /\ active.run # NoRun
    BY <2>1, HandlerFacts, PlacesOfHandler DEF Held
  <2>3. RpcFits(rpc') /\ rpc'.pc \in {"idle", "deliver"} /\ mailbox' \in Mails
    <3>1. CASE rpc' = Handler("idle") /\ Post("deny")
      BY <3>1, <1>p, HandlerFits, PlacesOfHandler, QuietKeeps, <2>1
    <3>2. CASE /\ rpc.choice # "expired" /\ rpc' = [rpc EXCEPT !.pc = "deliver"]
               /\ UNCHANGED mailbox
      <4>1. rpc \in Rpcs /\ rpc.choice \in Choices
        BY <3>2, <2>1, HandlerFacts DEF RpcFits
      <4> QED BY <3>2, <4>1, <2>1, PlacesOfHandler, HandlerFacts DEF Rpcs, RpcFits, MailOK
    <3> QED BY <1>2, <3>1, <3>2 DEF TakePending
  <2>4. rpc'.pc \notin RpcLocked
    BY <2>3, PlacesOfHandler
  <2>5. JournalOK' /\ LiveOK' /\ MailOK' /\ HistoryOK'
    BY <2>1, <2>3, HandlerFacts, QuietKeeps
  <2> QED BY <2>1, <2>2, <2>3, <2>4, <2>5, ServeKeeps
<1>3. CASE DeliverApproval
  <2>1. rpc.pc = "deliver" /\ UNCHANGED <<run, call, active, task, lock, pending>>
        /\ UNCHANGED <<connected, ran, crashes, faults>> /\ journal' = journal
    BY <1>3 DEF DeliverApproval, Reply, journal
  <2>2. RpcFits(rpc') /\ rpc'.pc \in {"idle", "shutdown"}
    BY <1>3, HandlerFits, PlacesOfHandler DEF DeliverApproval, Reply
  <2>3. mailbox' \in Mails
    <3>1. rpc.choice \in Mails
      BY <2>1, HandlerFacts DEF RpcFits, Mails
    <3>2. Post(rpc.choice) \/ Post("undelivered")
      BY <1>3 DEF DeliverApproval
    <3> QED BY <3>1, <3>2, <1>p DEF Mails
  <2>4. acked' \subseteq Calls
    BY <1>3, HandlerFacts DEF DeliverApproval, HistoryOK
  <2>5. JournalOK' /\ LiveOK' /\ MailOK' /\ HistoryOK'
    BY <2>1, <2>3, <2>4, HandlerFacts DEF MailOK, HistoryOK
  <2>6. lock # "rpc" /\ rpc'.pc \notin RpcLocked /\ lock \in {"free", "task", "rpc"}
    BY <2>1, <2>2, HandlerFacts, PlacesOfHandler DEF Held
  <2> QED BY <2>1, <2>2, <2>5, <2>6, HandlerFacts, ServeKeeps
<1>4. CASE DenyPending
  <2>1. lock = "free" /\ rpc.pc = "disconnect" /\ Quiet
        /\ UNCHANGED <<active, task, pending, mailbox>> /\ approval' = approval
    BY <1>4 DEF DenyPending, Reply, approval
  <2>2. CASE rpc' = Handler("drain") /\ UNCHANGED <<journal, lock>>
    BY <2>1, <2>2, PlacesOfHandler, QuietKeeps, HandlerFacts, AnsweringKeeps DEF Quiet, MailOK
  <2>3. CASE pending # NoCall /\ rpc' = Handler("hung_up") /\ Resolve(pending, "deny")
             /\ lock' = "rpc"
    <3>1. RpcFits(rpc') /\ rpc'.pc \in RpcLocked /\ rpc'.pc = "hung_up"
      BY <2>3, HandlerFits, PlacesOfHandler
    <3>2. pending \in Calls
      BY <2>3, QuietKeeps, <2>1
    <3>3. JournalOK'
      BY <2>3, <3>2, HandlerFacts, Resolved DEF Choices
    <3>4. active.run # NoRun
      BY <2>3, HandlerFacts
    <3> QED BY <2>1, <2>3, <3>1, <3>3, <3>4, HandlerFacts, QuietKeeps, ServeKeeps
  <2> QED BY <1>4, <2>2, <2>3 DEF DenyPending, Reply
<1>5. CASE HangUp
  <2>1. rpc.pc = "hung_up" /\ Quiet /\ UNCHANGED <<run, call, active, task>>
        /\ pending' = NoCall /\ lock' = "free" /\ rpc' = Handler("drain") /\ Post("deny")
        /\ journal' = journal
    BY <1>5 DEF HangUp, Reply, journal
  <2>2. lock = "rpc" /\ active.run # NoRun
    BY <2>1, HandlerFacts, PlacesOfHandler DEF Held
  <2>3. RpcFits(rpc') /\ rpc'.pc = "drain" /\ rpc'.pc \notin RpcLocked
    BY <2>1, HandlerFits, PlacesOfHandler
  <2>4. mailbox' \in Mails
    BY <2>1, <1>p DEF Mails, Choices
  <2>5. JournalOK' /\ LiveOK' /\ MailOK' /\ HistoryOK'
    BY <2>1, <2>4, HandlerFacts, QuietKeeps
  <2> QED BY <2>1, <2>2, <2>3, <2>5, ServeKeeps
<1> QED BY <1>1, <1>2, <1>3, <1>4, <1>5

(* run/cancel.                                                               *)
LEMMA CancelsTyped ==
  ASSUME TypeInv, CancelRun \/ MarkCancelled \/ CancelApproval \/ FireCancellation
  PROVE  TypeInv'
<1>1. CASE CancelRun
  <2>1. /\ lock = "free" /\ lock' = "rpc" /\ active # NoActive
        /\ rpc' = Handler("cancel_noted") /\ Quiet
        /\ UNCHANGED <<active, task, pending, mailbox>>
        /\ RecordRun(theRun, [run[theRun] EXCEPT !.cancels = @ + 1])
    BY <1>1 DEF CancelRun, approval
  <2>2. RpcFits(rpc') /\ rpc'.pc \in RpcLocked /\ rpc'.pc = "cancel_noted"
    BY <2>1, HandlerFits, PlacesOfHandler
  <2>3. active.run # NoRun /\ theRun \in Runs
    BY <2>1, HandlerFacts DEF theRun
  <2>4. [run[theRun] EXCEPT !.cancels = @ + 1] \in RunRecs
    BY <2>3, HandlerFacts DEF RunRecs
  <2>5. JournalOK'
    BY <2>1, <2>3, <2>4, HandlerFacts, RunRecorded
  <2> QED BY <2>1, <2>2, <2>3, <2>5, HandlerFacts, QuietKeeps, ServeKeeps
<1>2. CASE MarkCancelled
  <2>1. /\ rpc.pc = "cancel_noted" /\ rpc' = Handler("cancel_marked") /\ Quiet
        /\ UNCHANGED <<run, call, task, lock, pending, mailbox>> /\ journal' = journal
        /\ active' = [active EXCEPT !.cancelled = TRUE]
    BY <1>2 DEF MarkCancelled, Reply, journal, approval
  <2>2. RpcFits(rpc') /\ rpc'.pc \in RpcLocked /\ rpc'.pc = "cancel_marked"
    BY <2>1, HandlerFits, PlacesOfHandler
  <2>3. lock = "rpc" /\ active.run # NoRun
    BY <2>1, HandlerFacts, PlacesOfHandler DEF Held
  <2>4. LiveOK' /\ active'.run = active.run
    BY <2>1, HandlerFacts DEF LiveOK, Lives
  <2> QED BY <2>1, <2>2, <2>3, <2>4, HandlerFacts, QuietKeeps, ServeKeeps
<1>3. CASE CancelApproval
  <2>1. /\ rpc.pc = "cancel_marked" /\ rpc' = Handler("cancel_resolved") /\ Quiet
        /\ UNCHANGED <<active, task, lock, pending, mailbox>>
    BY <1>3 DEF CancelApproval, Reply, approval
  <2>2. RpcFits(rpc') /\ rpc'.pc \in RpcLocked /\ rpc'.pc = "cancel_resolved"
    BY <2>1, HandlerFits, PlacesOfHandler
  <2>3. lock = "rpc" /\ active.run # NoRun
    BY <2>1, HandlerFacts, PlacesOfHandler DEF Held
  <2>4. JournalOK'
    <3>1. CASE pending # NoCall /\ Resolve(pending, "deny")
      <4>1. pending \in Calls
        BY <3>1, <2>1, QuietKeeps
      <4> QED BY <3>1, <4>1, HandlerFacts, Resolved DEF Choices
    <3> QED BY <1>3, <3>1, HandlerFacts DEF CancelApproval
  <2> QED BY <2>1, <2>2, <2>3, <2>4, HandlerFacts, QuietKeeps, ServeKeeps
<1>4. CASE FireCancellation
  <2>1. /\ rpc.pc = "cancel_resolved" /\ rpc' = Handler("idle") /\ Quiet
        /\ UNCHANGED <<run, call, task>> /\ journal' = journal
        /\ pending' = NoCall /\ lock' = "free"
        /\ active' = [active EXCEPT !.token = TRUE]
    BY <1>4 DEF FireCancellation, Reply, journal
  <2>2. RpcFits(rpc') /\ rpc'.pc \notin RpcLocked /\ rpc'.pc = "idle"
    BY <2>1, HandlerFits, PlacesOfHandler
  <2>3. lock = "rpc" /\ active.run # NoRun
    BY <2>1, HandlerFacts, PlacesOfHandler DEF Held
  <2>4. LiveOK' /\ active'.run = active.run
    BY <2>1, HandlerFacts DEF LiveOK, Lives
  <2>5. mailbox' \in Mails
    BY <1>4, <2>1, QuietKeeps DEF FireCancellation, Post
  <2> QED BY <2>1, <2>2, <2>3, <2>4, <2>5, HandlerFacts, QuietKeeps, ServeKeeps
<1> QED BY <1>1, <1>2, <1>3, <1>4

(* The death of the event task or of the process.                            *)
LEMMA LossesTyped ==
  ASSUME TypeInv, FailEventTask \/ Exit \/ Crash
  PROVE  TypeInv'
<1>1. CASE FailEventTask
  <2>1. /\ crashes < MaxCrashes /\ crashes' = crashes + 1 /\ rpc' = Handler("shutdown")
        /\ lock' = IF lock = "rpc" THEN "free" ELSE lock
        /\ UNCHANGED <<run, call, active, task, pending, connected, ran, acked, faults>>
        /\ journal' = journal
    BY <1>1 DEF FailEventTask, journal, history
  <2>2. HistoryOK'
    BY <2>1, HandlerFacts, BoundAssumption DEF HistoryOK
  <2>3. RpcFits(rpc') /\ rpc'.pc = "shutdown" /\ rpc'.pc \notin RpcLocked
    BY <2>1, HandlerFits, PlacesOfHandler
  <2>4. MailOK'
    BY <1>1, <2>1, HandlerFacts DEF FailEventTask, Post, MailOK, Mails
  <2>5. lock' \in {"free", "task"} /\ (lock' = "task" <=> lock = "task")
        /\ (lock = "free" => lock' = "free")
    BY <2>1, HandlerFacts DEF Held
  <2> QED BY <2>1, <2>2, <2>3, <2>4, <2>5, HandlerFacts, ServeKeeps
<1>2. CASE Exit \/ Crash
  <2>1. /\ rpc' = Handler("down") /\ active' = NoActive /\ task' = NoTask
        /\ lock' = "free" /\ pending' = NoCall /\ mailbox' = "none" /\ connected' = TRUE
        /\ UNCHANGED <<run, call, ran, acked, faults>> /\ journal' = journal
        /\ crashes' = crashes \/ (crashes < MaxCrashes /\ crashes' = crashes + 1)
    BY <1>2 DEF Exit, Crash, Die, journal, history
  <2>2. HistoryOK'
    BY <2>1, HandlerFacts, BoundAssumption DEF HistoryOK
  <2>3. RpcFits(rpc') /\ rpc'.pc = "down" /\ rpc'.pc \notin RpcLocked
    BY <2>1, HandlerFits, PlacesOfHandler
  <2>4. Fits(task') /\ task'.pc = "none" /\ task'.pc \notin TaskLocked
    <3>1. task' = [pc |-> "none", turn |-> 0, attempt |-> 0, batch |-> {}, call |-> NoCall,
               stopped |-> FALSE, undelivered |-> FALSE, outcome |-> "none"]
      BY <2>1 DEF NoTask
    <3>2. task' \in Tasks
      BY <3>1, BoundAssumption, PlacesOfTask DEF Tasks
    <3> QED BY <3>1, <3>2, PlacesOfTask DEF Fits
  <2>5. MailOK' /\ LiveOK' /\ JournalOK'
    BY <2>1, HandlerFacts DEF MailOK, Mails, LiveOK, Lives, NoActive
  <2>6. Held' /\ Bound'
    BY <2>1, <2>3, <2>4 DEF Held, Bound, NoActive
  <2> QED BY <2>2, <2>3, <2>4, <2>5, <2>6 DEF TypeInv
<1> QED BY <1>1, <1>2

(* Appends that fail.                                                        *)
LEMMA FaultsTyped ==
  ASSUME TypeInv, Fault
  PROVE  TypeInv'
<1>1. HistoryOK' /\ connected' \in BOOLEAN
  BY HandlerFacts, BoundAssumption DEF Fault, HistoryOK, history, MailOK
<1>2. CASE FaultTask
  <2>0. UNCHANGED <<run, call, active, rpc>> /\ journal' = journal
    BY <1>2 DEF FaultTask, journal
  <2>a. Fits(task) /\ Held /\ "failed" \in Ends /\ "none" \in Mails /\ MailOK /\ Bound
    BY HandlerFacts DEF Ends, Mails
  <2>1. Fits(task') /\ task'.pc = "finalize" /\ task.pc # "none" /\ task.pc # "ending"
    <3>1. Fits(task') /\ task'.pc = "finalize"
      BY <1>2, <2>a, FinishFits DEF FaultTask
    <3> QED BY <1>2, <3>1 DEF FaultTask, Finish, Appending
  <2>2. MailOK'
    BY <1>1, <1>2, <2>a DEF FaultTask, approval, MailOK
  <2>3. lock' \in {"free", "rpc"} /\ (lock' = "rpc" <=> lock = "rpc")
    BY <1>2, <2>a, <2>1 DEF FaultTask, Finish, Held, TaskLocked, Appending
  <2> QED BY <1>1, <2>0, <2>1, <2>2, <2>3, PlacesOfTask, HandlerFacts, TaskKeeps
<1>3. CASE FaultFinalize
  <2>0. UNCHANGED <<run, call, active, rpc, pending, mailbox>> /\ journal' = journal
    BY <1>3 DEF FaultFinalize, journal, approval
  <2>a. Fits(task) /\ Held /\ MailOK
    BY HandlerFacts
  <2>1. /\ Fits(task') /\ task'.pc = "retire" /\ task.pc \in {"finalize", "ending"}
    BY <1>3, <2>a, PlacesOfTask, StepFits DEF FaultFinalize
  <2>2. lock' = "free" /\ lock # "rpc"
    BY <1>3, <2>a DEF FaultFinalize, Step, Held, TaskLocked
  <2>3. MailOK'
    BY <1>1, <2>0, <2>a DEF MailOK
  <2> QED BY <1>1, <2>0, <2>1, <2>2, <2>3, PlacesOfTask, HandlerFacts, TaskKeeps
<1>4. CASE FaultHandler
  <2>0. UNCHANGED <<run, call, active, task, pending, mailbox>> /\ journal' = journal
    BY <1>4 DEF FaultHandler, journal, approval
  <2>1. PICK p \in {"idle", "drain"} : rpc' = Handler(p)
    BY <1>4 DEF FaultHandler, Reply
  <2>2. RpcFits(rpc') /\ rpc'.pc = p /\ rpc'.pc \notin RpcLocked
    BY <2>1, HandlerFits, PlacesOfHandler
  <2>3. lock' = "free" \/ (lock' = lock /\ lock # "rpc")
    BY <1>4, HandlerFacts, PlacesOfHandler DEF FaultHandler, Reply, Held
  <2>4. lock' = lock \/ lock = "rpc"
    BY <1>4, HandlerFacts, PlacesOfHandler DEF FaultHandler, Reply, Held
  <2>5. MailOK'
    BY <1>1, <2>0, HandlerFacts DEF MailOK
  <2>6. lock \in {"free", "task", "rpc"}
    BY HandlerFacts DEF Held
  <2> QED BY <1>1, <2>0, <2>2, <2>3, <2>4, <2>5, <2>6, HandlerFacts, ServeKeeps
<1> QED BY <1>2, <1>3, <1>4 DEF Fault

(* The type invariant is inductive.                                          *)
LEMMA TypeNext ==
  ASSUME TypeInv, [Next]_vars
  PROVE  TypeInv'
<1>1. CASE UNCHANGED vars
  BY <1>1 DEF vars, TypeInv, JournalOK, LiveOK, MailOK, HistoryOK, Held, Bound
<1>2. CASE Task
  BY <1>2, TaskTyped
<1>3. CASE Serve
  BY <1>3, RecoverTyped, RequestsTyped, ApprovalsTyped, CancelsTyped, LossesTyped DEF Serve
<1>4. CASE Client
  BY <1>4, RequestsTyped, ApprovalsTyped, CancelsTyped DEF Client
<1>5. CASE FailEventTask \/ Crash \/ Restart \/ Fault
  BY <1>5, LossesTyped, RequestsTyped, FaultsTyped
<1> QED BY <1>1, <1>2, <1>3, <1>4, <1>5 DEF Next

(* Every variable keeps its type, and without a live run there is no task    *)
(* and nobody holds a lock of it, however handlers, task and crashes         *)
(* interleave (agent.rs, Agent::active and RunControl).                      *)
THEOREM TypeCorrect == Spec => []TypeOK
<1>1. Spec => []TypeInv
  BY TypeInit, TypeNext, PTL DEF Spec
<1> QED BY <1>1, TypeInvTypes, PTL

-----------------------------------------------------------------------------
(* One end of a run, one answer of a call.                                 *)

\* A task that has not written the end of its run.
Working == TaskSteps \ {"none", "ending", "retire"}

\* What the journal says of a run, ended or not.
RunSound(x) ==
  /\ Len(run[x].terminals) <= 1
  /\ run[x].endings = <<>> \/ run[x].endings = run[x].terminals
  /\ run[x].accepted \/ run[x].terminals = <<>>

(* A run ends once: who may still write the end of the live run.             *)
EndsInv ==
  /\ \A x \in Runs : RunSound(x)
  /\ active.run # NoRun => run[active.run].accepted
  /\ task.pc \in Working \/ rpc.pc = "accepted" => run[active.run].terminals = <<>>
  /\ task.pc = "ending" => run[active.run].endings = <<>>
  /\ rpc.pc = "recover" /\ rpc.run # NoRun => ~run[rpc.run].accepted

(* Steps of the task before finalize_run say nothing about the run itself.   *)
LEMMA TaskFrame ==
  ASSUME TypeInv, Task \/ (Fault /\ FaultTask), ~Finalize, ~EmitEnding, ~Retire
  PROVE  UNCHANGED <<run, active, rpc>> /\ task.pc \in Working /\ task'.pc \in Working
<1> SUFFICES
      /\ UNCHANGED <<run, active, rpc>>
      /\ task.pc \notin {"none", "ending", "retire"}
      /\ task'.pc \notin {"none", "ending", "retire"}
  <2>1. Fits(task) /\ Fits(task')
    BY TaskTyped, FaultsTyped DEF TypeInv
  <2> QED BY <2>1 DEF Working, Fits, Tasks
<1>0. task \in Tasks
  BY DEF TypeInv, Fits
<1>f. \A from, outcome : Finish(from, outcome) => task.pc = from /\ task'.pc = "finalize"
  BY DEF Finish, NoTask
<1>1. CASE BeginTurn
  BY <1>1, <1>0, <1>f DEF BeginTurn, Alone, Tasks
<1>2. CASE StartProvider
  BY <1>2, <1>0, <1>f DEF StartProvider, Alone, Step, Tasks
<1>3. CASE Backoff
  <2>1. CASE Finish("backoff", "cancelled")
    BY <1>3, <2>1, <1>f DEF Backoff, Alone
  <2>2. CASE task.pc = "backoff" /\ task' = [task EXCEPT !.pc = "attempt", !.attempt = @ + 1]
    BY <1>3, <2>2, <1>0 DEF Backoff, Alone, Tasks
  <2> QED BY <1>3, <2>1, <2>2 DEF Backoff
<1>4. CASE ConsumeStream
  <2>0. UNCHANGED <<run, active, rpc>>
    BY <1>4 DEF ConsumeStream, Alone
  <2>1. CASE \E outcome \in Ends : Finish("stream", outcome)
    BY <2>0, <2>1, <1>f
  <2>2. CASE \E to \in {"drain", "next"}, batch \in SUBSET Calls :
               task.pc = "stream" /\ task' = [task EXCEPT !.pc = to, !.batch = batch]
    BY <2>0, <2>2, <1>0 DEF Tasks
  <2>3. CASE Step("stream", "drain")
    BY <2>0, <2>3, <1>0 DEF Step, Tasks
  <2> QED BY <1>4, <2>1, <2>2, <2>3 DEF ConsumeStream, Ends
<1>5. CASE DrainCompletion
  BY <1>5, <1>0, <1>f DEF DrainCompletion, Alone, Step, Tasks
<1>6. CASE NextCall
  BY <1>6, <1>0 DEF NextCall, Alone, Tasks
<1>7. CASE WriteIntent
  BY <1>7, <1>0 DEF WriteIntent, RecordCall, Refuse, Step, Tasks
<1>8. CASE StartTool
  BY <1>8, <1>0 DEF StartTool, RecordCall, Refuse, Step, Tasks, journal
<1>9. CASE Execute
  BY <1>9, <1>0 DEF Execute, Refuse, Step, Tasks
<1>10. CASE AskApproval
  BY <1>10, <1>0 DEF AskApproval, RecordCall, Refuse, Step, Tasks, journal
<1>11. CASE AnnounceApproval
  BY <1>11, <1>0 DEF AnnounceApproval, Resolve, RecordCall, Step, Tasks, journal
<1>12. CASE TakeAnswer
  BY <1>12, <1>0 DEF TakeAnswer, Refuse, Step, Finish, Tasks
<1>13. CASE ApprovalTimeout
  BY <1>13, <1>0 DEF ApprovalTimeout, Resolve, RecordCall, Refuse, Tasks
<1>14. CASE WriteResult
  BY <1>14, <1>0 DEF WriteResult, RecordCall, Step, Tasks
<1>15. CASE WriteMessage
  BY <1>15, <1>0 DEF WriteMessage, RecordCall, Step, Tasks
<1>16. CASE CompleteCall
  <2>1. CASE Finish("complete", "interrupted")
    BY <1>16, <2>1, <1>f DEF CompleteCall, Alone
  <2>2. CASE \E to \in {"close", "next"} :
          task.pc = "complete" /\ task' = [task EXCEPT !.call = NoCall, !.pc = to]
    BY <1>16, <2>2, <1>0 DEF CompleteCall, Alone, Tasks
  <2> QED BY <1>16, <2>1, <2>2 DEF CompleteCall
<1>17. CASE CloseBatch
  BY <1>17, <1>0, <1>f DEF CloseBatch, Alone, Step, Tasks
<1>18. CASE FaultTask
  BY <1>18, <1>0 DEF FaultTask, Finish, Appending, journal, Tasks, NoTask
<1> QED BY <1>1, <1>2, <1>3, <1>4, <1>5, <1>6, <1>7, <1>8, <1>9, <1>10, <1>11, <1>12,
           <1>13, <1>14, <1>15, <1>16, <1>17, <1>18 DEF Task

(* Handler steps that only ever touch the cancellation requests of a run.    *)
Serving ==
  \/ \E choice \in Choices \cup {"expired"} : RespondApproval(choice)
  \/ TakePending \/ DeliverApproval \/ DenyPending \/ HangUp \/ Disconnect
  \/ CancelRun \/ MarkCancelled \/ CancelApproval \/ FireCancellation
  \/ ReturnSnapshot \/ LoseClient \/ Restart \/ FailEventTask \/ FaultHandler

(* Neither do they change whose run is live.                                 *)
LEMMA ServingFrame ==
  ASSUME TypeInv, Serving
  PROVE  /\ task' = task /\ active'.run = active.run
         /\ rpc'.pc \notin {"recover", "accepted"}
         /\ \A x \in Runs : run'[x].accepted = run[x].accepted
                         /\ run'[x].terminals = run[x].terminals
                         /\ run'[x].endings = run[x].endings
<1>0. active \in Lives /\ rpc \in Rpcs /\ run \in [Runs -> RunRecs]
  BY HandlerFacts DEF LiveOK, JournalOK
<1>1. CASE \E choice \in Choices \cup {"expired"} : RespondApproval(choice)
  BY <1>1 DEF RespondApproval, Resolve, RecordCall, Handler
<1>2. CASE TakePending
  BY <1>2, <1>0 DEF TakePending, Handler, journal, Rpcs
<1>3. CASE DeliverApproval
  BY <1>3 DEF DeliverApproval, Handler, journal, Reply
<1>4. CASE DenyPending
  BY <1>4 DEF DenyPending, Handler, journal, Reply, Resolve, RecordCall
<1>5. CASE HangUp \/ Disconnect \/ ReturnSnapshot \/ LoseClient \/ Restart \/ FailEventTask
  BY <1>5 DEF HangUp, Disconnect, ReturnSnapshot, LoseClient, Restart, FailEventTask,
              Handler, journal, Reply, Answering
<1>6. CASE CancelRun
  <2>1. theRun \in Runs
    BY <1>6, HandlerFacts DEF CancelRun, theRun
  <2> QED BY <1>6, <1>0, <2>1 DEF CancelRun, RecordRun, Handler, RunRecs
<1>7. CASE MarkCancelled \/ FireCancellation
  BY <1>7, <1>0 DEF MarkCancelled, FireCancellation, Handler, journal, Reply, Lives
<1>8. CASE CancelApproval
  BY <1>8 DEF CancelApproval, Handler, journal, Reply, Resolve, RecordCall
<1>9. CASE FaultHandler
  BY <1>9 DEF FaultHandler, Handler, journal, Reply
<1> QED BY <1>1, <1>2, <1>3, <1>4, <1>5, <1>6, <1>7, <1>8, <1>9 DEF Serving

(* Steps that leave the journal's word on every run as it is.                *)
LEMMA EndsKept ==
  ASSUME TypeInv, TypeInv', EndsInv, active'.run = active.run,
         \A x \in Runs : run'[x].accepted = run[x].accepted
                         /\ run'[x].terminals = run[x].terminals
                         /\ run'[x].endings = run[x].endings,
         task'.pc \in Working => task.pc \in Working \/ rpc.pc = "accepted",
         task'.pc # "ending",
         rpc'.pc = "accepted" => rpc.pc = "accepted",
         rpc'.pc = "recover" /\ rpc'.run # NoRun => ~run[rpc'.run].accepted
  PROVE  EndsInv'
<1>1. active.run \in Runs \cup {NoRun} /\ active'.run \in Runs \cup {NoRun}
      /\ rpc'.run \in Runs \cup {NoRun}
  BY DEF TypeInv, LiveOK, Lives, RpcFits, Rpcs
<1>2. \A x \in Runs : RunSound(x)'
  BY DEF EndsInv, RunSound
<1>3. task'.pc \in Working \/ rpc'.pc = "accepted" => active'.run \in Runs
  BY <1>1 DEF TypeInv, Bound, Working
<1>4. (active.run # NoRun => run[active.run].accepted)'
  BY <1>1 DEF EndsInv
<1>5. (task.pc \in Working \/ rpc.pc = "accepted" => run[active.run].terminals = <<>>)'
  BY <1>1, <1>3 DEF EndsInv
<1>6. (rpc.pc = "recover" /\ rpc.run # NoRun => ~run[rpc.run].accepted)'
  BY <1>1
<1> QED BY <1>2, <1>4, <1>5, <1>6 DEF EndsInv

(* Nothing has ended at first.                                               *)
LEMMA EndsInit == Init => EndsInv
BY DEF Init, NewRun, NoActive, NoTask, Handler, EndsInv, RunSound, Working

(* What the proofs use of sequences.                                         *)
LEMMA Seqs ==
  ASSUME NEW S, NEW s \in Seq(S), NEW e \in S
  PROVE  /\ s = <<>> => Len(Append(s, e)) = 1 /\ Append(s, e)[1] = e
         /\ Len(s) = 1 => s = <<s[1]>> /\ s = Append(<<>>, s[1])
         /\ Append(s, e) # <<>> /\ Len(s) \in Nat
         /\ s # <<>> /\ Len(s) <= 1 => Len(s) = 1
<1>1. s = <<>> => Len(Append(s, e)) = 1 /\ Append(s, e)[1] = e
  <2>1. <<>> \in Seq(S) /\ Len(<<>>) = 0
    BY EmptySeq
  <2>2. \A t \in Seq(S) : Len(Append(t, e)) = Len(t) + 1 /\ Append(t, e)[Len(t) + 1] = e
    OBVIOUS
  <2>3. s = <<>> => Len(s) = 0
    BY <2>1
  <2>4. Len(s) = 0 => Len(Append(s, e)) = 1 /\ Append(s, e)[1] = e
    BY <2>2
  <2> QED BY <2>3, <2>4
<1>2. Append(s, e) # <<>> /\ Len(s) \in Nat
  OBVIOUS
<1>3. s # <<>> /\ Len(s) <= 1 => Len(s) = 1
  BY EmptySeq
<1>4. ASSUME Len(s) = 1
      PROVE  s = <<s[1]>> /\ s = Append(<<>>, s[1])
  <2>1. s[1] \in S
    BY <1>4, ElementOfSeq
  <2>a. <<s[1]>> \in Seq(S) /\ Len(<<s[1]>>) = 1 /\ <<s[1]>>[1] = s[1]
    BY <2>1
  <2>b. \A i \in 1 .. Len(s) : s[i] = <<s[1]>>[i]
    BY <1>4, <2>a
  <2>2. s = <<s[1]>>
    BY <1>4, <2>a, <2>b, SeqEqual
  <2>3. Append(<<>>, s[1]) = <<s[1]>>
    OBVIOUS
  <2> QED BY <2>2, <2>3
<1> QED BY <1>1, <1>2, <1>3, <1>4

(* A sequence with something in it and at most one element has one.          *)
LEMMA OnlyOne ==
  ASSUME NEW S, NEW s \in Seq(S), s # <<>>, Len(s) <= 1
  PROVE  Len(s) = 1
<1>1. Len(s) \in Nat \ {0}
  BY EmptySeq
<1>2. \A n \in Nat \ {0} : n <= 1 => n = 1
  OBVIOUS
<1> QED BY <1>1, <1>2

(* The run of a live task is a run, and what is said of every run holds.     *)
LEMMA LiveRun ==
  ASSUME TypeInv, EndsInv
  PROVE  /\ task.pc \in Working \cup {"ending", "retire"} =>
              active.run \in Runs /\ run[active.run] \in RunRecs
         /\ rpc.pc = "accepted" => active.run \in Runs
         /\ \A x \in Runs : /\ run[x].terminals \in Seq(Ends) /\ run[x].endings \in Seq(Ends)
                            /\ Len(run[x].terminals) \in Nat /\ RunSound(x)
                            /\ run[x].terminals # <<>> => Len(run[x].terminals) = 1
<1>1. \A x \in Runs : /\ run[x].terminals \in Seq(Ends) /\ run[x].endings \in Seq(Ends)
                      /\ RunSound(x)
  BY HandlerFacts DEF RunRecs, EndsInv
<1>2. \A x \in Runs : /\ Len(run[x].terminals) \in Nat
                      /\ run[x].terminals # <<>> => Len(run[x].terminals) = 1
  <2> TAKE x \in Runs
  <2>1. run[x].terminals \in Seq(Ends) /\ Len(run[x].terminals) <= 1
    BY <1>1 DEF RunSound
  <2>2. Len(run[x].terminals) \in Nat
    BY <2>1, LenProperties
  <2> QED BY <2>1, <2>2, OnlyOne
<1>3. active.run \in Runs \cup {NoRun}
  BY HandlerFacts
<1>4. task.pc \in Working \cup {"ending", "retire"} \/ rpc.pc = "accepted" => active.run \in Runs
  <2>1. active.run = NoRun => task.pc = "none" /\ rpc.pc # "accepted"
    BY HandlerFacts DEF Bound
  <2> QED BY <1>3, <2>1 DEF Working
<1> QED BY <1>1, <1>2, <1>4, HandlerFacts

(* The live run ends: finalize_run, and the end of the task.                 *)
LEMMA FinalEnds ==
  ASSUME TypeInv, TypeInv', EndsInv, Finalize \/ EmitEnding \/ Retire \/ FaultFinalize
  PROVE  EndsInv'
<1>0. rpc' = rpc /\ task \in Tasks
  BY TaskFacts DEF Finalize, EmitEnding, Retire, FaultFinalize
<1>1. CASE Finalize
  <2>1. PICK end : RecordRun(theRun, [run[theRun] EXCEPT !.terminals = Append(@, end)])
    BY <1>1 DEF Finalize
  <2>2. task.pc = "finalize" /\ task'.pc = "ending" /\ active' = active /\ lock = "free"
    BY <1>0, <1>1 DEF Finalize, Step, Tasks
  <2>3. task.pc \in Working /\ task'.pc \notin Working
    BY <2>2 DEF Working, TaskSteps
  <2>4. theRun \in Runs /\ run[theRun] \in RunRecs /\ run[theRun].terminals = <<>>
    BY <2>3, LiveRun DEF theRun, EndsInv
  <2>5. /\ run'[theRun].terminals = Append(<<>>, end)
        /\ run'[theRun].endings = run[theRun].endings
        /\ run'[theRun].accepted = run[theRun].accepted
        /\ \A x \in Runs \ {theRun} : run'[x] = run[x]
    BY <2>1, <2>4, HandlerFacts DEF RecordRun, JournalOK, RunRecs
  <2>6. Len(run'[theRun].terminals) = 1 /\ run[theRun].accepted
    BY <2>2, <2>4, <2>5 DEF EndsInv, theRun, TypeInv, Bound
  <2>7. run[theRun].endings = <<>>
    BY <2>4, LiveRun DEF RunSound
  <2>8. \A x \in Runs : RunSound(x)'
    <3> TAKE x \in Runs
    <3>1. CASE x = theRun
      BY <3>1, <2>5, <2>6, <2>7 DEF RunSound
    <3>2. CASE x # theRun
      BY <3>2, <2>5, LiveRun DEF RunSound
    <3> QED BY <3>1, <3>2
  <2>9. active.run # NoRun /\ rpc.pc # "accepted" /\ rpc.pc # "recover"
    BY <2>2, HandlerFacts DEF Bound, NoActive
  <2> QED BY <1>0, <2>2, <2>3, <2>5, <2>6, <2>7, <2>8, <2>9 DEF EndsInv, theRun
<1>2. CASE EmitEnding
  <2>1. RecordRun(theRun, [run[theRun] EXCEPT !.endings =
                             Append(@, run[theRun].terminals[Len(run[theRun].terminals)])])
    BY <1>2 DEF EmitEnding
  <2>2. task.pc = "ending" /\ task'.pc = "retire"
        /\ active' = [active EXCEPT !.terminal = TRUE]
    BY <1>0, <1>2 DEF EmitEnding, Step, Tasks
  <2>3. task'.pc \notin Working
    BY <2>2 DEF Working
  <2>4. theRun \in Runs /\ run[theRun] \in RunRecs /\ run[theRun].endings = <<>>
        /\ run[theRun].terminals # <<>>
    BY <2>2, LiveRun, HandlerFacts DEF theRun, EndsInv, Bound
  <2>5. Len(run[theRun].terminals) = 1
    BY <2>4, LiveRun
  <2>6. Append(<<>>, run[theRun].terminals[1]) = run[theRun].terminals
    BY <2>4, <2>5, LiveRun, Seqs DEF Ends
  <2>7. /\ run'[theRun].terminals = run[theRun].terminals
        /\ run'[theRun].endings = run[theRun].terminals
        /\ run'[theRun].accepted = run[theRun].accepted
        /\ \A x \in Runs \ {theRun} : run'[x] = run[x]
    BY <2>1, <2>4, <2>5, <2>6, HandlerFacts DEF RecordRun, JournalOK, RunRecs
  <2>8. \A x \in Runs : RunSound(x)'
    BY <2>7, LiveRun DEF RunSound
  <2>9. active'.run = active.run /\ active.run # NoRun /\ rpc.pc # "accepted"
        /\ rpc.pc # "recover"
    BY <2>2, HandlerFacts DEF Bound, NoActive, LiveOK, Lives
  <2> QED BY <1>0, <2>2, <2>3, <2>7, <2>8, <2>9 DEF EndsInv, theRun
<1>3. CASE Retire
  <2>1. UNCHANGED run /\ task'.pc = "none" /\ active'.run = NoRun /\ task.pc = "retire"
    BY <1>3 DEF Retire, journal, NoTask, NoActive
  <2>2. task'.pc \notin Working /\ rpc.pc # "accepted"
    BY <2>1, HandlerFacts DEF Working, Bound
  <2>3. \A x \in Runs : RunSound(x)'
    BY <2>1, LiveRun DEF RunSound
  <2> QED BY <1>0, <2>1, <2>2, <2>3 DEF EndsInv
<1>4. CASE FaultFinalize
  <2>1. UNCHANGED <<run, active>> /\ task'.pc = "retire"
    BY <1>0, <1>4 DEF FaultFinalize, journal, Step, Tasks
  <2>2. task'.pc \notin Working
    BY <2>1 DEF Working
  <2> QED BY <1>0, <2>1, <2>2, EndsKept DEF EndsInv
<1> QED BY <1>1, <1>2, <1>3, <1>4

(* Recovery writes the end of a run that no task can write any more.         *)
LEMMA RecoverEnds ==
  ASSUME TypeInv, TypeInv', EndsInv, Recover
  PROVE  EndsInv'
<1>0. /\ rpc.pc = "recover" /\ rpc' = rpc /\ UNCHANGED <<active, task>>
      /\ active.run = NoRun /\ task.pc = "none"
  BY HandlerFacts DEF Recover, Bound, NoActive
<1>1. task'.pc \notin Working /\ task'.pc # "ending"
  BY <1>0 DEF Working
<1>2. CASE UNCHANGED run
  BY <1>0, <1>1, <1>2, EndsKept DEF EndsInv
<1>3. ASSUME NEW x \in Runs, RunSound(x)', run'[x].accepted = run[x].accepted,
             \A y \in Runs \ {x} : run'[y] = run[y]
      PROVE  EndsInv'
  <2>1. \A y \in Runs : RunSound(y)'
    BY <1>3, LiveRun DEF RunSound
  <2>2. rpc.run \in Runs \cup {NoRun}
    BY HandlerFacts DEF Rpcs
  <2> QED BY <1>0, <1>1, <1>3, <2>1, <2>2 DEF EndsInv
<1>4. CASE \E x \in ToEnd : RecoverTerminal(x)
  <2>1. PICK x \in ToEnd : RecoverTerminal(x)
    BY <1>4
  <2>2. x \in Runs /\ run[x].accepted /\ run[x].terminals = <<>> /\ run[x].endings = <<>>
    BY LiveRun DEF ToEnd, Ended, RunSound
  <2>3. /\ run'[x].terminals = Append(<<>>, "interrupted")
        /\ run'[x].endings = run[x].endings
        /\ run'[x].accepted = run[x].accepted
        /\ \A y \in Runs \ {x} : run'[y] = run[y]
    BY <2>1, <2>2, HandlerFacts DEF RecoverTerminal, RecordRun, JournalOK, RunRecs
  <2>4. Len(run'[x].terminals) = 1
    BY <2>3
  <2>5. RunSound(x)'
    BY <2>2, <2>3, <2>4 DEF RunSound
  <2> QED BY <1>3, <2>2, <2>3, <2>5
<1>5. CASE \E x \in ToEmit : RecoverEnding(x)
  <2>1. PICK x \in ToEmit : RecoverEnding(x)
    BY <1>5
  <2>2. x \in Runs /\ run[x].terminals # <<>> /\ run[x].endings = <<>>
    BY DEF ToEmit, Ended
  <2>3. Append(<<>>, run[x].terminals[1]) = run[x].terminals
    BY <2>2, LiveRun, Seqs DEF Ends
  <2>4. /\ run'[x].terminals = run[x].terminals
        /\ run'[x].endings = run[x].terminals
        /\ run'[x].accepted = run[x].accepted
        /\ \A y \in Runs \ {x} : run'[y] = run[y]
    BY <2>1, <2>2, <2>3, HandlerFacts DEF RecoverEnding, RecordRun, JournalOK, RunRecs
  <2>5. RunSound(x)'
    BY <2>2, <2>4, LiveRun DEF RunSound
  <2> QED BY <1>3, <2>2, <2>4, <2>5
<1> QED BY <1>2, <1>4, <1>5
        DEF Recover, RecoverApproval, RecoverResult, RecoverMessage, Resolve, RecordCall

(* A run is accepted and launched without an end; a crash leaves it so.      *)
LEMMA AcceptEnds ==
  ASSUME TypeInv, TypeInv', EndsInv, AcceptRun \/ LaunchRun \/ (\E x \in Runs : StartRun(x))
                            \/ GetSession \/ Exit \/ Crash
  PROVE  EndsInv'
<1>1. CASE AcceptRun
  <2>1. /\ rpc.pc = "recover" /\ rpc.run # NoRun /\ rpc'.pc = "accepted" /\ task' = task
        /\ active'.run = rpc.run
        /\ RecordRun(rpc.run, [run[rpc.run] EXCEPT !.accepted = TRUE])
    BY <1>1 DEF AcceptRun, Handler, NoActive
  <2>2. rpc.run \in Runs /\ ~run[rpc.run].accepted /\ task.pc = "none"
    BY <2>1, HandlerFacts DEF Rpcs, EndsInv, Bound, NoActive
  <2>3. /\ run'[rpc.run].terminals = run[rpc.run].terminals
        /\ run'[rpc.run].endings = run[rpc.run].endings
        /\ run'[rpc.run].accepted
        /\ \A y \in Runs \ {rpc.run} : run'[y] = run[y]
    BY <2>1, <2>2, HandlerFacts DEF RecordRun, JournalOK, RunRecs
  <2>4. run[rpc.run].terminals = <<>>
    BY <2>2, LiveRun DEF RunSound
  <2>5. \A x \in Runs : RunSound(x)'
    BY <2>3, LiveRun DEF RunSound
  <2> QED BY <2>1, <2>2, <2>3, <2>4, <2>5 DEF EndsInv
<1>2. CASE LaunchRun
  <2>1. /\ UNCHANGED <<run, active>> /\ rpc.pc = "accepted" /\ task.pc = "none"
        /\ rpc'.pc \notin {"accepted", "recover"} /\ task'.pc # "ending"
    BY <1>2, HandlerFacts DEF LaunchRun, Reply, Handler, journal, NoTask, Bound
  <2> QED BY <2>1, EndsKept
<1>3. CASE \E x \in Runs : StartRun(x)
  <2>1. PICK x \in Runs : StartRun(x)
    BY <1>3
  <2>2. /\ UNCHANGED <<run, active, task>> /\ rpc'.pc = "recover" /\ rpc'.run = x
        /\ ~run[x].accepted /\ active = NoActive
    BY <2>1 DEF StartRun, Answering, journal, Handler
  <2>3. task.pc = "none"
    BY <2>2, HandlerFacts DEF Bound, NoActive
  <2> QED BY <2>2, <2>3, EndsKept
<1>4. CASE GetSession
  <2>1. /\ UNCHANGED <<run, active, task>> /\ rpc'.pc = "recover" /\ rpc'.run = NoRun
        /\ active = NoActive
    BY <1>4 DEF GetSession, Reply, Answering, journal, Handler
  <2>2. task.pc = "none"
    BY <2>1, HandlerFacts DEF Bound, NoActive
  <2> QED BY <2>1, <2>2, EndsKept
<1>5. CASE Exit \/ Crash
  <2>1. UNCHANGED run /\ rpc'.pc = "down" /\ task'.pc = "none" /\ active'.run = NoRun
    BY <1>5 DEF Exit, Crash, Die, journal, Handler, NoTask, NoActive
  <2>2. task'.pc \notin Working
    BY <2>1 DEF Working
  <2>3. \A x \in Runs : RunSound(x)'
    BY <2>1, LiveRun DEF RunSound
  <2> QED BY <2>1, <2>2, <2>3 DEF EndsInv
<1> QED BY <1>1, <1>2, <1>3, <1>4, <1>5

(* The invariant about the ends of runs is inductive.                        *)
LEMMA EndsNext ==
  ASSUME TypeInv, TypeInv', EndsInv, [Next]_vars
  PROVE  EndsInv'
<1>1. CASE UNCHANGED vars
  BY <1>1 DEF vars, EndsInv, RunSound
<1>2. CASE (Task \/ (Fault /\ FaultTask)) /\ ~Finalize /\ ~EmitEnding /\ ~Retire
  <2>1. UNCHANGED <<run, active, rpc>> /\ task.pc \in Working /\ task'.pc \in Working
    BY <1>2, TaskFrame
  <2>2. task'.pc # "ending"
    BY <2>1 DEF Working
  <2> QED BY <2>1, <2>2, EndsKept DEF EndsInv
<1>3. CASE Finalize \/ EmitEnding \/ Retire \/ FaultFinalize
  BY <1>3, FinalEnds
<1>4. CASE Serving
  <2>1. /\ task' = task /\ active'.run = active.run
        /\ rpc'.pc \notin {"recover", "accepted"}
        /\ \A x \in Runs : run'[x].accepted = run[x].accepted
                           /\ run'[x].terminals = run[x].terminals
                           /\ run'[x].endings = run[x].endings
    BY <1>4, ServingFrame
  <2>2. CASE task.pc # "ending"
    BY <2>1, <2>2, EndsKept
  <2>3. CASE task.pc = "ending"
    <3>1. task.pc \notin Working /\ active.run \in Runs
      BY <2>3, LiveRun DEF Working
    <3>2. \A x \in Runs : RunSound(x)'
      BY <2>1, LiveRun DEF RunSound
    <3> QED BY <2>1, <2>3, <3>1, <3>2 DEF EndsInv
  <2> QED BY <2>2, <2>3
<1>5. CASE Recover
  BY <1>5, RecoverEnds
<1>6. CASE AcceptRun \/ LaunchRun \/ (\E x \in Runs : StartRun(x)) \/ GetSession \/ Exit \/ Crash
  BY <1>6, AcceptEnds
<1>7. CASE Fault /\ FaultTask /\ (Finalize \/ EmitEnding \/ Retire)
  BY <1>3, <1>7
<1> QED BY <1>1, <1>2, <1>3, <1>4, <1>5, <1>6, <1>7
        DEF Next, Task, Serve, Client, Fault, Serving

(* It implies what the runs check.                                           *)
LEMMA EndsInvEnds == EndsInv => EndsOnce
BY DEF EndsInv, RunSound, EndsOnce

(* A run has at most one run.terminal record, and its terminal event         *)
(* repeats it, whether finalize_run or recover_interrupted wrote them and    *)
(* wherever a crash or a failed append came in between.                      *)
THEOREM OneEnding == Spec => []EndsOnce
<1>1. Spec => [](TypeInv /\ EndsInv)
  <2>1. Init => TypeInv /\ EndsInv
    BY TypeInit, EndsInit
  <2>2. (TypeInv /\ EndsInv) /\ [Next]_vars => (TypeInv /\ EndsInv)'
    BY TypeNext, EndsNext
  <2> QED BY <2>1, <2>2, PTL DEF Spec
<1> QED BY <1>1, EndsInvEnds, PTL

-----------------------------------------------------------------------------
\* A call in hand that has not been started, or has no result yet.
BeforeStart  == {"intent", "intent_cancelled", "start", "ask", "announce", "wait"}
BeforeResult == BeforeStart \cup {"execute", "result"}

\* A call nothing was done about yet.
Fresh(x) == ~call[x].started /\ call[x].results = <<>> /\ call[x].messages = 0

(* A call is answered once: whose calls the task still has to work on.       *)
CallsInv ==
  /\ \A x \in Calls : call[x].messages <= Len(call[x].results) /\ Len(call[x].results) <= 1
  /\ \A x \in Calls : call[x].owner = NoRun => Fresh(x) /\ call[x].intent = "none"
  /\ \A x \in task.batch : Fresh(x) /\ call[x].owner = active.run /\ x # task.call
  /\ task.pc \in CallSteps => call[task.call].owner = active.run
  /\ task.pc \in BeforeStart => ~call[task.call].started
  /\ task.pc \in BeforeResult => call[task.call].results = <<>> /\ call[task.call].messages = 0
  /\ task.pc = "message" => Len(call[task.call].results) = 1 /\ call[task.call].messages = 0
  /\ task.pc = "none" => task.batch = {}

\* A step that neither starts nor answers call x.
SameCall(x) ==
  /\ call'[x].owner = call[x].owner /\ call'[x].started = call[x].started
  /\ call'[x].results = call[x].results /\ call'[x].messages = call[x].messages
  /\ call'[x].intent = call[x].intent \/ call[x].owner # NoRun

(* The task gets no new work, and may drop what it has.                      *)
Narrows ==
  /\ task'.batch \subseteq task.batch
  /\ task'.call \in {task.call, NoCall}
  /\ task'.pc \in CallSteps => task.pc \in CallSteps /\ task'.call = task.call
  /\ task'.pc \in BeforeStart => task.pc \in BeforeStart
  /\ task'.pc \in BeforeResult => task.pc \in BeforeResult
  /\ task'.pc = "message" => task.pc = "message"
  /\ task'.pc = "none" => task'.batch = {}
  /\ task'.batch # {} \/ task'.pc \in CallSteps => active'.run = active.run

(* A call that has not started has no result.                                *)
LEMMA StepSets ==
  /\ BeforeStart \subseteq BeforeResult /\ BeforeResult \subseteq CallSteps
  /\ "message" \in CallSteps /\ "message" \notin BeforeResult
BY DEF BeforeStart, BeforeResult, CallSteps

(* Steps that answer no call and take up none.                               *)
LEMMA CallsKept ==
  ASSUME TypeInv, TypeInv', CallsInv, \A x \in Calls : SameCall(x), Narrows
  PROVE  CallsInv'
<1>1. task.batch \subseteq Calls /\ task'.batch \subseteq Calls
  BY DEF TypeInv, Fits, Tasks
<1>2. task'.pc \in CallSteps => task'.call \in Calls /\ task'.call = task.call
  BY DEF TypeInv, Fits, Narrows
<1>3. (\A x \in Calls : call[x].messages <= Len(call[x].results) /\ Len(call[x].results) <= 1)'
  BY DEF CallsInv, SameCall
<1>4. (\A x \in Calls : call[x].owner = NoRun => Fresh(x) /\ call[x].intent = "none")'
  BY DEF CallsInv, SameCall, Fresh
<1>5. (\A x \in task.batch : Fresh(x) /\ call[x].owner = active.run /\ x # task.call)'
  <2> SUFFICES ASSUME NEW x \in task'.batch
               PROVE  Fresh(x)' /\ call'[x].owner = active'.run /\ x # task'.call
    OBVIOUS
  <2>1. x \in task.batch /\ x \in Calls /\ x # NoCall /\ active'.run = active.run
    BY <1>1, NullAssumption DEF Narrows
  <2>2. Fresh(x) /\ call[x].owner = active.run /\ x # task.call
    BY <2>1 DEF CallsInv
  <2> QED BY <2>1, <2>2 DEF Narrows, SameCall, Fresh
<1>6. (task.pc \in CallSteps => call[task.call].owner = active.run)'
  BY <1>2 DEF CallsInv, Narrows, SameCall
<1>7. (task.pc \in BeforeStart => ~call[task.call].started)'
  BY <1>2, StepSets DEF CallsInv, Narrows, SameCall
<1>8. (task.pc \in BeforeResult => call[task.call].results = <<>> /\ call[task.call].messages = 0)'
  BY <1>2, StepSets DEF CallsInv, Narrows, SameCall
<1>9. (task.pc = "message" => Len(call[task.call].results) = 1 /\ call[task.call].messages = 0)'
  BY <1>2, StepSets DEF CallsInv, Narrows, SameCall
<1> QED BY <1>3, <1>4, <1>5, <1>6, <1>7, <1>8, <1>9 DEF CallsInv, Narrows

(* No call has been announced at first.                                      *)
LEMMA CallsInit == Init => CallsInv
<1> SUFFICES ASSUME Init PROVE CallsInv
  OBVIOUS
<1>1. task.pc = "none" /\ task.batch = {}
  BY DEF Init, NoTask
<1>2. task.pc \notin CallSteps
  BY <1>1 DEF CallSteps
<1>3. \A x \in Calls : /\ call[x].owner = NoRun /\ ~call[x].started /\ call[x].intent = "none"
                       /\ call[x].results = <<>> /\ call[x].messages = 0
  BY DEF Init, NewCall
<1>4. Len(<<>>) = 0
  OBVIOUS
<1> QED BY <1>1, <1>2, <1>3, <1>4, StepSets DEF CallsInv, Fresh

(* Records that leave a call unanswered and unstarted.                       *)
LEMMA NotesCall ==
  ASSUME JournalOK, NEW x \in Calls
  PROVE  /\ \A choice : Resolve(x, choice) => \A y \in Calls : SameCall(y)
         /\ \A status : call[x].owner # NoRun /\ RecordCall(x, [call[x] EXCEPT !.intent = status])
                          => \A y \in Calls : SameCall(y)
         /\ \A b : RecordCall(x, [call[x] EXCEPT !.asked = b]) => \A y \in Calls : SameCall(y)
<1>1. ASSUME NEW rec, RecordCall(x, rec),
             rec.owner = call[x].owner, rec.started = call[x].started,
             rec.results = call[x].results, rec.messages = call[x].messages,
             rec.intent = call[x].intent \/ call[x].owner # NoRun
      PROVE  \A y \in Calls : SameCall(y)
  <2> TAKE y \in Calls
  <2>1. call'[y] = IF y = x THEN rec ELSE call[y]
    BY <1>1 DEF JournalOK, RecordCall
  <2> QED BY <1>1, <2>1 DEF SameCall
<1>2. call[x] \in CallRecs
  BY DEF JournalOK
<1>3. ASSUME NEW choice, Resolve(x, choice)
      PROVE  \A y \in Calls : SameCall(y)
  BY <1>1, <1>2, <1>3 DEF Resolve, CallRecs
<1>4. ASSUME NEW status, call[x].owner # NoRun, RecordCall(x, [call[x] EXCEPT !.intent = status])
      PROVE  \A y \in Calls : SameCall(y)
  BY <1>1, <1>2, <1>4 DEF CallRecs
<1>5. ASSUME NEW b, RecordCall(x, [call[x] EXCEPT !.asked = b])
      PROVE  \A y \in Calls : SameCall(y)
  BY <1>1, <1>2, <1>5 DEF CallRecs
<1> QED BY <1>3, <1>4, <1>5

(* execute_run drops the rest of its batch when it returns.                  *)
LEMMA FinishNarrows ==
  ASSUME NEW from, NEW outcome, Finish(from, outcome)
  PROVE  Narrows
<1>1. task'.pc = "finalize" /\ task'.batch = {} /\ task'.call = NoCall
  BY DEF Finish, NoTask
<1>2. "finalize" \notin CallSteps
  BY DEF CallSteps
<1> QED BY <1>1, <1>2, StepSets DEF Narrows

(* And so does a task that is gone.                                          *)
LEMMA IdleNarrows == task' = NoTask => Narrows
<1> SUFFICES ASSUME task' = NoTask PROVE Narrows
  OBVIOUS
<1>1. task'.pc = "none" /\ task'.batch = {} /\ task'.call = NoCall
  BY DEF NoTask
<1>2. "none" \notin CallSteps
  BY DEF CallSteps
<1> QED BY <1>1, <1>2, StepSets DEF Narrows

(* A task that only moves on works on the same calls.                        *)
LEMMA StepNarrows ==
  ASSUME TypeInv, NEW from, NEW to, active'.run = active.run,
         task.pc = from,
         \/ task' = [task EXCEPT !.pc = to]
         \/ \E b : task' = [task EXCEPT !.pc = to, !.stopped = b]
         \/ \E b : task' = [task EXCEPT !.pc = to, !.undelivered = b],
         to \in CallSteps => from \in CallSteps,
         to \in BeforeStart => from \in BeforeStart,
         to \in BeforeResult => from \in BeforeResult,
         to \notin {"message", "none"}
  PROVE  Narrows
<1>1. task \in Tasks
  BY TaskFacts
<1>2. task'.pc = to /\ task'.batch = task.batch /\ task'.call = task.call
  BY <1>1 DEF Tasks
<1> QED BY <1>2 DEF Narrows

(* The places of a task, in the order a call goes through them.              *)
LEMMA CallPlaces ==
  /\ {"turn", "attempt", "backoff", "stream", "drain", "next", "close", "finalize",
      "ending", "retire", "none"} \cap CallSteps = {}
  /\ BeforeStart = {"intent", "intent_cancelled", "start", "ask", "announce", "wait"}
  /\ BeforeResult = BeforeStart \cup {"execute", "result"}
  /\ BeforeResult \cup {"message", "complete"} = CallSteps
BY DEF CallSteps, BeforeStart, BeforeResult

(* Steps of the task that take a call up or bring it further.               *)
CallWork ==
  \/ \E batch \in SUBSET {x \in Calls : call[x].owner = NoRun} :
       /\ task.pc = "stream"
       /\ task' = [task EXCEPT !.pc = "next", !.batch = batch]
       /\ call' = [x \in Calls |-> IF x \in batch THEN [call[x] EXCEPT !.owner = theRun]
                                                  ELSE call[x]]
       /\ UNCHANGED active
  \/ NextCall \/ WriteResult \/ WriteMessage
  \/ StartTool /\ RecordCall(theCall, [call[theCall] EXCEPT !.started = TRUE])

(* Steps of the task that bring no call further.                             *)
LEMMA TaskNarrows ==
  ASSUME TypeInv, CallsInv, Task \/ (Fault /\ (FaultTask \/ FaultFinalize)), ~CallWork
  PROVE  Narrows /\ \A x \in Calls : SameCall(x)
<1>a. ASSUME UNCHANGED call
      PROVE  \A x \in Calls : SameCall(x)
  BY <1>a DEF SameCall
<1>s. ASSUME NEW from, NEW stop, Refuse(from, stop), from \in BeforeResult, UNCHANGED active
      PROVE  Narrows
  <2>1. \E b : task' = [task EXCEPT !.pc = "result", !.stopped = b]
    BY <1>s DEF Refuse
  <2> QED BY <1>s, <2>1, CallPlaces, StepNarrows DEF Refuse
<1>j. JournalOK
  BY DEF TypeInv
<1>c. task.pc \in CallSteps => theCall \in Calls
  BY TaskFacts
<1>1. CASE BeginTurn
  <2>1. UNCHANGED <<call, active>>
    BY <1>1 DEF BeginTurn, Alone
  <2>2. CASE \E outcome : Finish("turn", outcome)
    BY <2>1, <2>2, <1>a, FinishNarrows
  <2>3. CASE task' = [task EXCEPT !.pc = "attempt", !.turn = @ + 1, !.attempt = 1]
    BY <2>1, <2>3, <1>a, CallPlaces, TaskFacts DEF Narrows, Tasks
  <2> QED BY <1>1, <2>2, <2>3 DEF BeginTurn
<1>2. CASE StartProvider
  <2>1. UNCHANGED <<call, active>>
    BY <1>2 DEF StartProvider, Alone
  <2>2. CASE \E outcome : Finish("attempt", outcome)
    BY <2>1, <2>2, <1>a, FinishNarrows
  <2>3. CASE \E to \in {"stream", "backoff"} : Step("attempt", to)
    BY <2>1, <2>3, <1>a, CallPlaces, StepNarrows DEF Step
  <2> QED BY <1>2, <2>2, <2>3 DEF StartProvider
<1>3. CASE Backoff
  <2>1. UNCHANGED <<call, active>>
    BY <1>3 DEF Backoff, Alone
  <2>2. CASE \E outcome : Finish("backoff", outcome)
    BY <2>1, <2>2, <1>a, FinishNarrows
  <2>3. CASE task' = [task EXCEPT !.pc = "attempt", !.attempt = @ + 1]
    BY <2>1, <2>3, <1>a, CallPlaces, TaskFacts DEF Narrows, Tasks
  <2> QED BY <1>3, <2>2, <2>3 DEF Backoff
<1>4. CASE ConsumeStream
  <2>1. CASE Alone /\ \E outcome : Finish("stream", outcome)
    BY <2>1, <1>a, FinishNarrows DEF Alone
  <2>2. CASE Alone /\ Step("stream", "drain")
    BY <2>2, <1>a, CallPlaces, StepNarrows DEF Alone, Step
  <2> QED BY <1>4, <2>1, <2>2 DEF ConsumeStream, CallWork
<1>5. CASE DrainCompletion
  <2>1. UNCHANGED <<call, active>>
    BY <1>5 DEF DrainCompletion, Alone
  <2>2. CASE Finish("drain", "completed")
    BY <2>1, <2>2, <1>a, FinishNarrows
  <2>3. CASE Step("drain", "turn")
    BY <2>1, <2>3, <1>a, CallPlaces, StepNarrows DEF Step
  <2> QED BY <1>5, <2>2, <2>3 DEF DrainCompletion
<1>6. CASE WriteIntent
  <2>1. UNCHANGED active
    BY <1>6 DEF WriteIntent
  <2>2. PICK status : RecordCall(theCall, [call[theCall] EXCEPT !.intent = status])
    BY <1>6 DEF WriteIntent
  <2>3. task.pc \in {"intent", "intent_cancelled"}
    BY <1>6 DEF WriteIntent, Step, Refuse
  <2>4. \A x \in Calls : SameCall(x)
    <3>1. theCall \in Calls /\ call[theCall].owner # NoRun
      BY <2>3, <1>c, CallPlaces, TaskFacts, NullAssumption DEF CallsInv, theCall
    <3> QED BY <2>2, <3>1, <1>j, NotesCall
  <2>5. CASE Refuse("intent", FALSE) \/ Refuse("intent_cancelled", TRUE)
    BY <2>1, <2>4, <2>5, <1>s, CallPlaces
  <2>6. CASE \E to \in {"start", "ask"} : Step("intent", to)
    BY <2>1, <2>4, <2>6, CallPlaces, StepNarrows DEF Step
  <2> QED BY <1>6, <2>5, <2>6 DEF WriteIntent
<1>7. CASE StartTool
  BY <1>7, <1>a, <1>s, CallPlaces DEF StartTool, CallWork, journal
<1>8. CASE Execute
  <2>1. UNCHANGED <<call, active>>
    BY <1>8 DEF Execute
  <2>2. CASE Refuse("execute", TRUE)
    BY <2>1, <2>2, <1>a, <1>s, CallPlaces
  <2>3. CASE Step("execute", "result")
    BY <2>1, <2>3, <1>a, CallPlaces, StepNarrows DEF Step
  <2> QED BY <1>8, <2>2, <2>3 DEF Execute
<1>9. CASE AskApproval
  <2>1. UNCHANGED active
    BY <1>9 DEF AskApproval
  <2>2. CASE Refuse("ask", TRUE) /\ UNCHANGED journal
    BY <2>1, <2>2, <1>a, <1>s, CallPlaces DEF journal
  <2>3. CASE Step("ask", "announce") /\ RecordCall(theCall, [call[theCall] EXCEPT !.asked = TRUE])
    <3>1. theCall \in Calls
      BY <2>3, <1>c, CallPlaces DEF Step
    <3>2. \A x \in Calls : SameCall(x)
      BY <2>3, <3>1, <1>j, NotesCall
    <3> QED BY <2>1, <2>3, <3>2, CallPlaces, StepNarrows DEF Step
  <2> QED BY <1>9, <2>2, <2>3 DEF AskApproval
<1>10. CASE AnnounceApproval
  <2>1. UNCHANGED active /\ Step("announce", "wait")
    BY <1>10 DEF AnnounceApproval
  <2>2. theCall \in Calls
    BY <2>1, <1>c, CallPlaces DEF Step
  <2>3. \A x \in Calls : SameCall(x)
    BY <1>10, <2>2, <1>a, <1>j, NotesCall DEF AnnounceApproval, journal
  <2> QED BY <2>1, <2>3, CallPlaces, StepNarrows DEF Step
<1>11. CASE TakeAnswer
  <2>1. UNCHANGED <<call, active>>
    BY <1>11 DEF TakeAnswer
  <2>2. CASE \E stop : Refuse("wait", stop)
    BY <2>1, <2>2, <1>a, <1>s, CallPlaces
  <2>3. CASE Step("wait", "start")
    BY <2>1, <2>3, <1>a, CallPlaces, StepNarrows DEF Step
  <2>4. CASE task.pc = "wait" /\ task' = [task EXCEPT !.pc = "result", !.undelivered = TRUE]
    BY <2>1, <2>4, <1>a, CallPlaces, StepNarrows
  <2> QED BY <1>11, <2>2, <2>3, <2>4 DEF TakeAnswer
<1>12. CASE ApprovalTimeout
  <2>1. UNCHANGED active /\ Refuse("wait", FALSE) /\ Resolve(theCall, "deny")
    BY <1>12 DEF ApprovalTimeout
  <2>2. theCall \in Calls
    BY <2>1, <1>c, CallPlaces DEF Refuse
  <2> QED BY <2>1, <2>2, <1>j, <1>s, CallPlaces, NotesCall
<1>13. CASE CompleteCall
  <2>1. UNCHANGED <<call, active>>
    BY <1>13 DEF CompleteCall, Alone
  <2>2. CASE Finish("complete", "interrupted")
    BY <2>1, <2>2, <1>a, FinishNarrows
  <2>3. CASE \E to \in {"close", "next"} : task' = [task EXCEPT !.call = NoCall, !.pc = to]
    BY <2>1, <2>3, <1>a, CallPlaces, TaskFacts DEF Narrows, Tasks
  <2> QED BY <1>13, <2>2, <2>3 DEF CompleteCall
<1>14. CASE CloseBatch
  <2>1. UNCHANGED <<call, active>>
    BY <1>14 DEF CloseBatch, Alone
  <2>2. CASE Finish("close", "cancelled")
    BY <2>1, <2>2, <1>a, FinishNarrows
  <2>3. CASE Step("close", "turn")
    BY <2>1, <2>3, <1>a, CallPlaces, StepNarrows DEF Step
  <2> QED BY <1>14, <2>2, <2>3 DEF CloseBatch
<1>15. CASE Finalize
  BY <1>15, <1>a, CallPlaces, StepNarrows DEF Finalize, RecordRun, Step
<1>16. CASE EmitEnding
  <2>1. active'.run = active.run
    BY <1>16, HandlerFacts DEF EmitEnding, LiveOK, Lives
  <2> QED BY <1>16, <2>1, <1>a, CallPlaces, StepNarrows DEF EmitEnding, RecordRun, Step
<1>17. CASE Retire
  BY <1>17, <1>a, IdleNarrows DEF Retire, journal
<1>18. CASE FaultTask
  <2>1. UNCHANGED call /\ \E from, outcome : Finish(from, outcome)
    BY <1>18 DEF FaultTask, journal
  <2> QED BY <2>1, <1>a, FinishNarrows
<1>19. CASE FaultFinalize
  BY <1>19, <1>a, CallPlaces, StepNarrows DEF FaultFinalize, journal, Step
<1> QED BY <1>1, <1>2, <1>3, <1>4, <1>5, <1>6, <1>7, <1>8, <1>9, <1>10, <1>11, <1>12,
           <1>13, <1>14, <1>15, <1>16, <1>17, <1>18, <1>19 DEF Task, CallWork

(* Handlers, and the loss of the process.                                    *)
LEMMA OthersNarrow ==
  ASSUME TypeInv, CallsInv, Serving \/ AcceptRun \/ LaunchRun \/ (\E x \in Runs : StartRun(x))
                             \/ GetSession \/ Exit \/ Crash
  PROVE  Narrows /\ \A x \in Calls : SameCall(x)
<1>a. ASSUME UNCHANGED call
      PROVE  \A x \in Calls : SameCall(x)
  BY <1>a DEF SameCall
<1>b. ASSUME UNCHANGED task, task.pc = "none" \/ active'.run = active.run
      PROVE  Narrows
  <2>1. task.pc = "none" => task.batch = {} /\ task.pc \notin CallSteps
    BY CallPlaces DEF CallsInv
  <2> QED BY <1>b, <2>1 DEF Narrows
<1>j. JournalOK /\ (pending # NoCall => pending \in Calls)
  BY DEF TypeInv, MailOK
<1>1. CASE Serving
  <2>1. Narrows
    BY <1>1, <1>b, ServingFrame
  <2>2. UNCHANGED call \/ (pending # NoCall /\ \E choice : Resolve(pending, choice))
    BY <1>1 DEF Serving, RespondApproval, TakePending, DeliverApproval, DenyPending, HangUp,
                Disconnect, CancelRun, MarkCancelled, CancelApproval, FireCancellation,
                ReturnSnapshot, LoseClient, Restart, FailEventTask, FaultHandler,
                Answering, journal, RecordRun
  <2> QED BY <2>1, <2>2, <1>a, <1>j, NotesCall
<1>2. CASE AcceptRun
  <2>1. UNCHANGED <<call, task>> /\ task.pc = "none"
    BY <1>2, HandlerFacts DEF AcceptRun, RecordRun, Bound, NoActive
  <2> QED BY <2>1, <1>a, <1>b
<1>3. CASE LaunchRun
  <2>1. UNCHANGED <<call, active>>
    BY <1>3 DEF LaunchRun, journal
  <2>2. CASE task' = [NoTask EXCEPT !.pc = "turn"]
    <3>1. task'.pc = "turn" /\ task'.batch = {} /\ task'.call = NoCall
      BY <2>2 DEF NoTask
    <3> QED BY <2>1, <3>1, <1>a, CallPlaces DEF Narrows
  <2> QED BY <1>3, <2>1, <2>2, <1>a, <1>b DEF LaunchRun
<1>4. CASE (\E x \in Runs : StartRun(x)) \/ GetSession
  BY <1>4, <1>a, <1>b DEF StartRun, GetSession, Answering, journal
<1>5. CASE Exit \/ Crash
  BY <1>5, <1>a, IdleNarrows DEF Exit, Crash, Die, journal
<1> QED BY <1>1, <1>2, <1>3, <1>4, <1>5

(* A record of one call.                                                     *)
LEMMA CallWritten ==
  ASSUME TypeInv, NEW x \in Calls, NEW rec, RecordCall(x, rec)
  PROVE  call'[x] = rec /\ \A y \in Calls \ {x} : call'[y] = call[y] /\ SameCall(y)
BY HandlerFacts DEF JournalOK, RecordCall, SameCall

(* A first result is the only one.                                           *)
LEMMA Answers ==
  ASSUME NEW s \in Seq({"known", "not_run", "unknown"}), s = <<>>,
         NEW e \in {"known", "not_run", "unknown"}
  PROVE  Append(s, e) # <<>> /\ Len(Append(s, e)) = 1 /\ Len(s) = 0
<1>1. Len(<<>>) = 0
  OBVIOUS
<1> QED BY <1>1, Seqs

(* Steps of the task that bring a call further.                              *)
LEMMA CallWorkKeeps ==
  ASSUME TypeInv, TypeInv', CallsInv, CallWork
  PROVE  CallsInv'
<1>a. /\ task \in Tasks /\ task.batch \subseteq Calls /\ task'.batch \subseteq Calls
      /\ active.run \in Runs \cup {NoRun}
      /\ (task.pc \in CallSteps => task.call \in Calls /\ call[task.call] \in CallRecs)
      /\ (task.pc \notin CallSteps => task.call = NoCall)
      /\ (task.pc # "none" => active.run \in Runs)
      /\ \A x \in Calls : call[x] \in CallRecs
  BY TaskFacts DEF TypeInv, Fits, Tasks, theCall
<1>n. \A x \in Calls : x # NoCall
  BY NullAssumption
<1>1. CASE \E batch \in SUBSET {x \in Calls : call[x].owner = NoRun} :
             /\ task.pc = "stream"
             /\ task' = [task EXCEPT !.pc = "next", !.batch = batch]
             /\ call' = [x \in Calls |-> IF x \in batch THEN [call[x] EXCEPT !.owner = theRun]
                                                        ELSE call[x]]
             /\ UNCHANGED active
  <2>1. PICK batch \in SUBSET {x \in Calls : call[x].owner = NoRun} :
             /\ task.pc = "stream"
             /\ task' = [task EXCEPT !.pc = "next", !.batch = batch]
             /\ call' = [x \in Calls |-> IF x \in batch THEN [call[x] EXCEPT !.owner = theRun]
                                                        ELSE call[x]]
             /\ UNCHANGED active
    BY <1>1
  <2>2. task'.pc = "next" /\ task'.batch = batch /\ task'.call = NoCall /\ active.run # NoRun
    BY <2>1, <1>a, CallPlaces, NullAssumption DEF Tasks
  <2>3. ASSUME NEW x \in Calls
        PROVE  /\ call'[x].started = call[x].started /\ call'[x].results = call[x].results
               /\ call'[x].messages = call[x].messages /\ call'[x].intent = call[x].intent
               /\ call'[x].owner = IF x \in batch THEN active.run ELSE call[x].owner
    BY <2>1, <1>a DEF CallRecs, theRun
  <2>4. \A x \in Calls : call'[x].messages <= Len(call'[x].results) /\ Len(call'[x].results) <= 1
    BY <2>3 DEF CallsInv
  <2>5. \A x \in Calls : call'[x].owner = NoRun => Fresh(x)' /\ call'[x].intent = "none"
    BY <2>2, <2>3 DEF CallsInv, Fresh
  <2>6. \A x \in batch : Fresh(x)' /\ call'[x].owner = active'.run /\ x # task'.call
    BY <2>1, <2>2, <2>3, <1>n DEF CallsInv, Fresh
  <2> QED BY <2>2, <2>4, <2>5, <2>6, CallPlaces DEF CallsInv
<1>2. CASE NextCall
  <2>1. PICK x \in task.batch, to \in {"intent", "intent_cancelled"} :
          task' = [task EXCEPT !.pc = to, !.call = x, !.batch = @ \ {x}]
    BY <1>2 DEF NextCall
  <2>2. task'.pc = to /\ task'.call = x /\ task'.batch = task.batch \ {x}
        /\ UNCHANGED <<call, active>>
    BY <2>1, <1>2, <1>a DEF NextCall, Alone, Tasks
  <2>3. x \in Calls /\ Fresh(x) /\ call[x].owner = active.run
    BY <2>1, <1>a DEF CallsInv
  <2>4. task'.pc \in BeforeStart /\ task'.pc \in BeforeResult /\ task'.pc \notin {"message", "none"}
    BY <2>2, CallPlaces
  <2>5. \A y \in Calls : Fresh(y)' = Fresh(y)
    BY <2>2 DEF Fresh
  <2>6. \A y \in task'.batch : Fresh(y)' /\ call'[y].owner = active'.run /\ y # task'.call
    BY <2>2, <2>5, <1>a DEF CallsInv
  <2> QED BY <2>2, <2>3, <2>4, <2>5, <2>6 DEF CallsInv, Fresh
<1>3. CASE WriteResult
  <2>1. task.pc = "result" /\ task'.pc = "message" /\ task'.call = task.call
        /\ task'.batch = task.batch /\ UNCHANGED active
    BY <1>3, <1>a DEF WriteResult, Step, Tasks
  <2>2. task.call \in Calls /\ call[task.call] \in CallRecs /\ call[task.call].results = <<>>
        /\ call[task.call].messages = 0 /\ call[task.call].owner = active.run
        /\ active.run # NoRun
    BY <2>1, <1>a, CallPlaces, NullAssumption DEF CallsInv
  <2>3. PICK r \in {"known", "not_run"} :
          RecordCall(task.call, [call[task.call] EXCEPT !.results = Append(@, r)])
    BY <1>3 DEF WriteResult, theCall
  <2>4. /\ call'[task.call].results = Append(call[task.call].results, r)
        /\ call'[task.call].messages = 0 /\ call'[task.call].owner = active.run
        /\ \A y \in Calls \ {task.call} : SameCall(y)
    BY <2>2, <2>3, CallWritten DEF CallRecs
  <2>5. Len(call'[task.call].results) = 1
    BY <2>2, <2>4, Answers DEF CallRecs
  <2>6. \A x \in Calls : call'[x].messages <= Len(call'[x].results) /\ Len(call'[x].results) <= 1
    BY <2>4, <2>5 DEF CallsInv, SameCall
  <2>7. \A x \in Calls : call'[x].owner = NoRun => Fresh(x)' /\ call'[x].intent = "none"
    BY <2>2, <2>4 DEF CallsInv, Fresh, SameCall
  <2>8. \A y \in task'.batch : Fresh(y)' /\ call'[y].owner = active'.run /\ y # task'.call
    BY <2>1, <2>4, <1>a DEF CallsInv, Fresh, SameCall
  <2> QED BY <2>1, <2>4, <2>5, <2>6, <2>7, <2>8, CallPlaces DEF CallsInv
<1>4. CASE WriteMessage
  <2>1. task.pc = "message" /\ task'.pc = "complete" /\ task'.call = task.call
        /\ task'.batch = task.batch /\ UNCHANGED active
    BY <1>4, <1>a DEF WriteMessage, Step, Tasks
  <2>2. task.call \in Calls /\ call[task.call] \in CallRecs /\ Len(call[task.call].results) = 1
        /\ call[task.call].messages = 0 /\ call[task.call].owner = active.run
        /\ active.run # NoRun
    BY <2>1, <1>a, CallPlaces, NullAssumption DEF CallsInv
  <2>3. RecordCall(task.call, [call[task.call] EXCEPT !.messages = @ + 1])
    BY <1>4 DEF WriteMessage, theCall
  <2>4. /\ call'[task.call].results = call[task.call].results
        /\ call'[task.call].messages = 1 /\ call'[task.call].owner = active.run
        /\ \A y \in Calls \ {task.call} : SameCall(y)
    BY <2>2, <2>3, CallWritten DEF CallRecs
  <2>5. \A x \in Calls : call'[x].messages <= Len(call'[x].results) /\ Len(call'[x].results) <= 1
    <3> TAKE x \in Calls
    <3>1. CASE x = task.call
      <4>1. Len(call'[x].results) = 1 /\ call'[x].messages = 1
        BY <3>1, <2>2, <2>4
      <4> QED BY <4>1
    <3>2. CASE x # task.call
      BY <3>2, <2>4 DEF CallsInv, SameCall
    <3> QED BY <3>1, <3>2
  <2>6. \A x \in Calls : call'[x].owner = NoRun => Fresh(x)' /\ call'[x].intent = "none"
    BY <2>2, <2>4 DEF CallsInv, Fresh, SameCall
  <2>7. \A y \in task'.batch : Fresh(y)' /\ call'[y].owner = active'.run /\ y # task'.call
    BY <2>1, <2>4, <1>a DEF CallsInv, Fresh, SameCall
  <2> QED BY <2>1, <2>4, <2>5, <2>6, <2>7, CallPlaces DEF CallsInv
<1>5. CASE StartTool /\ RecordCall(theCall, [call[theCall] EXCEPT !.started = TRUE])
  <2>1. task.pc = "start" /\ task'.pc \in {"result", "execute"} /\ task'.call = task.call
        /\ task'.batch = task.batch /\ UNCHANGED active
    BY <1>5, <1>a DEF StartTool, Step, Refuse, Tasks
  <2>2. task.call \in Calls /\ call[task.call] \in CallRecs /\ call[task.call].results = <<>>
        /\ call[task.call].messages = 0 /\ call[task.call].owner = active.run
        /\ active.run # NoRun
    BY <2>1, <1>a, CallPlaces, NullAssumption DEF CallsInv
  <2>4. /\ call'[task.call].results = call[task.call].results
        /\ call'[task.call].messages = 0 /\ call'[task.call].owner = active.run
        /\ \A y \in Calls \ {task.call} : SameCall(y)
    BY <1>5, <2>2, CallWritten DEF CallRecs, theCall
  <2>5. \A x \in Calls : call'[x].messages <= Len(call'[x].results) /\ Len(call'[x].results) <= 1
    BY <2>2, <2>4 DEF CallsInv, SameCall
  <2>6. \A x \in Calls : call'[x].owner = NoRun => Fresh(x)' /\ call'[x].intent = "none"
    BY <2>2, <2>4 DEF CallsInv, Fresh, SameCall
  <2>7. \A y \in task'.batch : Fresh(y)' /\ call'[y].owner = active'.run /\ y # task'.call
    BY <2>1, <2>4, <1>a DEF CallsInv, Fresh, SameCall
  <2>8. task'.pc \notin BeforeStart /\ task'.pc \notin {"message", "none"}
    BY <2>1, CallPlaces
  <2> QED BY <2>1, <2>2, <2>4, <2>5, <2>6, <2>7, <2>8, CallPlaces DEF CallsInv
<1> QED BY <1>1, <1>2, <1>3, <1>4, <1>5 DEF CallWork

(* Recovery answers the calls that no task can answer any more.              *)
LEMMA RecoverCalls ==
  ASSUME TypeInv, TypeInv', CallsInv, Recover
  PROVE  CallsInv'
<1>0. UNCHANGED <<active, task>> /\ task.pc = "none" /\ task.batch = {}
  BY HandlerFacts DEF Recover, Bound, NoActive, CallsInv
<1>1. task'.batch = {} /\ task'.pc \notin CallSteps /\ Narrows
  BY <1>0, CallPlaces DEF Narrows
<1>2. CASE \A x \in Calls : SameCall(x)
  BY <1>1, <1>2, CallsKept
<1>3. ASSUME NEW x \in Calls, \A y \in Calls \ {x} : SameCall(y),
             call[x].owner # NoRun, call'[x].owner = call[x].owner,
             call'[x].messages <= Len(call'[x].results), Len(call'[x].results) <= 1
      PROVE  CallsInv'
  <2>1. \A y \in Calls : call'[y].messages <= Len(call'[y].results) /\ Len(call'[y].results) <= 1
    BY <1>3 DEF CallsInv, SameCall
  <2>2. \A y \in Calls : call'[y].owner = NoRun => Fresh(y)' /\ call'[y].intent = "none"
    BY <1>3 DEF CallsInv, SameCall, Fresh
  <2> QED BY <1>1, <2>1, <2>2, CallPlaces DEF CallsInv
<1>r. \A x \in Calls : call[x] \in CallRecs
  BY HandlerFacts
<1>4. CASE \E x \in ToAnswer : RecoverApproval(x)
  BY <1>2, <1>4, NotesCall DEF RecoverApproval, ToAnswer, TypeInv
<1>5. CASE \E x \in ToAnswer : RecoverResult(x)
  <2>1. PICK x \in Calls, r \in {"unknown", "not_run"} :
          call[x].results = <<>> /\ call[x].intent # "none"
          /\ RecordCall(x, [call[x] EXCEPT !.results = Append(@, r)])
    BY <1>5 DEF ToAnswer, Unanswered, RecoverResult
  <2>2. call'[x].results = Append(call[x].results, r) /\ call'[x].messages = call[x].messages
        /\ call'[x].owner = call[x].owner /\ \A y \in Calls \ {x} : SameCall(y)
    BY <2>1, <1>r, CallWritten DEF CallRecs
  <2>3. Len(call'[x].results) = 1 /\ call[x].messages \in Nat /\ Len(call[x].results) = 0
    BY <2>1, <2>2, <1>r, Answers DEF CallRecs
  <2>4. call[x].messages <= 0
    BY <2>3 DEF CallsInv
  <2>5. call'[x].messages <= Len(call'[x].results) /\ Len(call'[x].results) <= 1
    BY <2>2, <2>3, <2>4
  <2>6. call[x].owner # NoRun
    BY <2>1 DEF CallsInv
  <2> QED BY <1>3, <2>2, <2>5, <2>6
<1>6. CASE \E x \in ToMessage : RecoverMessage(x)
  <2>1. PICK x \in Calls :
          call[x].results # <<>> /\ call[x].messages = 0
          /\ RecordCall(x, [call[x] EXCEPT !.messages = @ + 1])
    BY <1>6 DEF ToMessage, RecoverMessage
  <2>2. call'[x].results = call[x].results /\ call'[x].messages = 1
        /\ call'[x].owner = call[x].owner /\ \A y \in Calls \ {x} : SameCall(y)
    BY <2>1, <1>r, CallWritten DEF CallRecs
  <2>3. Len(call[x].results) = 1
    <3>1. call[x].results \in Seq({"known", "not_run", "unknown"})
          /\ Len(call[x].results) <= 1
      BY <1>r DEF CallRecs, CallsInv
    <3> QED BY <2>1, <3>1, OnlyOne
  <2>4. call[x].owner # NoRun
    BY <2>1 DEF CallsInv, Fresh
  <2>5. call'[x].messages <= Len(call'[x].results) /\ Len(call'[x].results) <= 1
    BY <2>2, <2>3
  <2> QED BY <1>3, <2>2, <2>4, <2>5
<1>7. CASE UNCHANGED call
  BY <1>2, <1>7 DEF SameCall
<1> QED BY <1>4, <1>5, <1>6, <1>7 DEF Recover, RecoverTerminal, RecoverEnding, RecordRun

(* The invariant about the answers of calls is inductive.                    *)
LEMMA CallsNext ==
  ASSUME TypeInv, TypeInv', CallsInv, [Next]_vars
  PROVE  CallsInv'
<1>1. CASE UNCHANGED vars
  BY <1>1 DEF vars, CallsInv, Fresh
<1>2. CASE CallWork
  BY <1>2, CallWorkKeeps
<1>3. CASE (Task \/ (Fault /\ (FaultTask \/ FaultFinalize))) /\ ~CallWork
  BY <1>3, TaskNarrows, CallsKept
<1>4. CASE Recover
  BY <1>4, RecoverCalls
<1>5. CASE \/ Serving \/ AcceptRun \/ LaunchRun \/ (\E x \in Runs : StartRun(x))
           \/ GetSession \/ Exit \/ Crash
  BY <1>5, OthersNarrow, CallsKept
<1> QED BY <1>1, <1>2, <1>3, <1>4, <1>5 DEF Next, Serve, Client, Fault, Serving

(* A call has at most one tool.result and at most one tool message, and no   *)
(* message without a result, whether execute_tool_call or                    *)
(* recover_interrupted wrote them.                                           *)
THEOREM OneAnswerEach == Spec => []AnswersOnce
<1>1. Spec => [](TypeInv /\ CallsInv)
  <2>1. Init => TypeInv /\ CallsInv
    BY TypeInit, CallsInit
  <2>2. (TypeInv /\ CallsInv) /\ [Next]_vars => (TypeInv /\ CallsInv)'
    BY TypeNext, CallsNext
  <2> QED BY <2>1, <2>2, PTL DEF Spec
<1>2. CallsInv => AnswersOnce
  BY DEF CallsInv, AnswersOnce
<1> QED BY <1>1, <1>2, PTL

(* So the task and a recovery never both conclude a run, or a call of it:    *)
(* finalize_run and execute_tool_call on one side, recover_interrupted on    *)
(* the other.                                                                *)
THEOREM EachConcludedOnce == Spec => []ConcludedOnce
<1>1. EndsOnce /\ AnswersOnce => ConcludedOnce
  BY DEF ConcludedOnce
<1> QED BY <1>1, OneEnding, OneAnswerEach, PTL

-----------------------------------------------------------------------------
(* A session keeps its phases while no run is accepted or ends.              *)
LEMMA PhaseKept ==
  ASSUME \A x \in Runs : run'[x].accepted = run[x].accepted
                         /\ run'[x].terminals = run[x].terminals
  PROVE  Phase' = Phase
BY DEF Phase, Ended

(* And its started calls while none is started.                              *)
LEMMA StartedKept ==
  ASSUME \A x \in Calls : /\ call'[x].started = call[x].started
                          /\ call[x].started => call'[x].owner = call[x].owner
  PROVE  StartedIn' = StartedIn
BY DEF StartedIn

(* A run ends in the journal, by the task or by recovery.                    *)
LEMMA EndStep ==
  ASSUME TypeInv, EndsInv, NEW x \in Runs, NEW e \in Ends, run[x].accepted, run[x].terminals = <<>>,
         RecordRun(x, [run[x] EXCEPT !.terminals = Append(@, e)])
  PROVE  Contract!Next
<1>1. run[x] \in RunRecs /\ run[x].terminals \in Seq(Ends)
  BY HandlerFacts DEF RunRecs
<1>2. Append(run[x].terminals, e) # <<>>
  BY <1>1, Seqs
<1>3. /\ run'[x].terminals # <<>> /\ \A y \in Runs \ {x} : run'[y] = run[y]
      /\ call' = call
  BY <1>1, <1>2, HandlerFacts DEF RecordRun, JournalOK, RunRecs
<1>4. Phase[x] = "open" /\ Phase' = [Phase EXCEPT ![x] = "ended"]
  BY <1>3 DEF Phase, Ended
<1>5. StartedIn' = StartedIn
  BY <1>3, StartedKept
<1> QED BY <1>4, <1>5 DEF Contract!Next, Contract!End

(* Recovery has ended every other run before a run is accepted.              *)
LEMMA AcceptStep ==
  ASSUME TypeInv, EndsInv, CallsInv, AcceptRun
  PROVE  Contract!Next
<1>1. /\ rpc.run \in Runs /\ ~run[rpc.run].accepted /\ run[rpc.run].terminals = <<>>
      /\ RecordRun(rpc.run, [run[rpc.run] EXCEPT !.accepted = TRUE])
  BY HandlerFacts DEF AcceptRun, Rpcs, EndsInv, RunSound
<1>2. \A x \in Runs : run[x].accepted => run[x].terminals # <<>>
  BY DEF AcceptRun, Recovered, ToEnd, Ended
<1>3. /\ run'[rpc.run].terminals = <<>> /\ run'[rpc.run].accepted
      /\ \A y \in Runs \ {rpc.run} : run'[y] = run[y]
      /\ call' = call
  BY <1>1, HandlerFacts DEF RecordRun, JournalOK, RunRecs
<1>4. Phase[rpc.run] = "new" /\ Phase' = [Phase EXCEPT ![rpc.run] = "open"]
      /\ \A y \in Runs : Phase[y] # "open"
  BY <1>1, <1>2, <1>3 DEF Phase, Ended
<1>5. StartedIn' = StartedIn
  BY <1>3, StartedKept
<1> QED BY <1>1, <1>4, <1>5 DEF Contract!Next, Contract!Accept

(* A tool starts in the live run, which has not ended, and not twice.        *)
LEMMA StartStep ==
  ASSUME TypeInv, EndsInv, CallsInv, StartTool,
         RecordCall(theCall, [call[theCall] EXCEPT !.started = TRUE])
  PROVE  Contract!Next
<1>1. task.pc = "start" /\ run' = run
  BY DEF StartTool, Step, Refuse, RecordCall
<1>2. task.pc \in Working /\ task.pc \in BeforeStart /\ task.pc \in CallSteps
  BY <1>1, CallPlaces, TaskFacts DEF Working
<1>3. /\ theCall \in Calls /\ theRun \in Runs /\ theRun # NoRun
      /\ ~call[theCall].started /\ call[theCall].owner = theRun
      /\ run[theRun].accepted /\ run[theRun].terminals = <<>>
  BY <1>2, TaskFacts, NullAssumption DEF EndsInv, CallsInv, theRun, theCall, Working
<1>4. /\ call'[theCall].started /\ call'[theCall].owner = theRun
      /\ \A y \in Calls \ {theCall} : call'[y] = call[y]
  BY <1>3, HandlerFacts, CallWritten DEF CallRecs
<1>5. StartedIn[theCall] = NoRun /\ StartedIn' = [StartedIn EXCEPT ![theCall] = theRun]
  BY <1>3, <1>4 DEF StartedIn
<1>6. Phase' = Phase /\ Phase[theRun] = "open"
  BY <1>1, <1>3, PhaseKept DEF Phase, Ended
<1> QED BY <1>3, <1>5, <1>6 DEF Contract!Next, Contract!Start

(* Every step of the daemon is a step of the contract, or none.              *)
LEMMA ContractStep ==
  ASSUME TypeInv, EndsInv, CallsInv, [Next]_vars
  PROVE  [Contract!Next]_<<Phase, StartedIn>>
<1>t. TypeInv'
  BY TypeNext
<1>s. ASSUME \A x \in Calls : SameCall(x)
      PROVE  StartedIn' = StartedIn
  BY <1>s, StartedKept DEF SameCall
<1>1. CASE UNCHANGED vars
  BY <1>1 DEF vars, Phase, StartedIn, Ended
<1>2. CASE Finalize
  <2>1. PICK e : RecordRun(theRun, [run[theRun] EXCEPT !.terminals = Append(@, e)])
                 /\ e \in {"cancelled", task.outcome}
    BY <1>2 DEF Finalize
  <2>2. task.pc = "finalize" /\ task.pc \in Working
    BY <1>2, TaskFacts DEF Finalize, Step, Working
  <2>3. e \in Ends
    BY <2>1, <2>2, TaskFacts DEF Fits, Ends
  <2>4. theRun \in Runs /\ run[theRun].accepted /\ run[theRun].terminals = <<>>
    BY <2>2, TaskFacts, NullAssumption DEF EndsInv, theRun, Working
  <2> QED BY <2>1, <2>3, <2>4, EndStep
<1>3. CASE EmitEnding \/ Retire
  <2>1. Phase' = Phase
    <3>1. CASE EmitEnding
      BY <3>1, HandlerFacts, PhaseKept DEF EmitEnding, RecordRun, JournalOK, RunRecs
    <3>2. CASE Retire
      BY <3>2, PhaseKept DEF Retire, journal
    <3> QED BY <1>3, <3>1, <3>2
  <2>2. StartedIn' = StartedIn
    BY <1>3, StartedKept DEF EmitEnding, Retire, RecordRun, journal
  <2> QED BY <2>1, <2>2
<1>4. CASE StartTool /\ RecordCall(theCall, [call[theCall] EXCEPT !.started = TRUE])
  BY <1>4, StartStep
<1>5. CASE /\ CallWork
           /\ ~(StartTool /\ RecordCall(theCall, [call[theCall] EXCEPT !.started = TRUE]))
           /\ UNCHANGED run
  <2>1. Phase' = Phase
    BY <1>5, PhaseKept
  <2>2. StartedIn' = StartedIn
    <3>1. CASE \E batch \in SUBSET {x \in Calls : call[x].owner = NoRun} :
                 call' = [x \in Calls |-> IF x \in batch THEN [call[x] EXCEPT !.owner = theRun]
                                                         ELSE call[x]]
      <4>1. PICK batch \in SUBSET {x \in Calls : call[x].owner = NoRun} :
                 call' = [x \in Calls |-> IF x \in batch THEN [call[x] EXCEPT !.owner = theRun]
                                                         ELSE call[x]]
        BY <3>1
      <4>2. \A x \in batch : ~call[x].started
        BY DEF CallsInv, Fresh
      <4>3. \A x \in Calls : call[x] \in CallRecs
        BY HandlerFacts
      <4> QED BY <4>1, <4>2, <4>3, StartedKept DEF CallRecs
    <3>2. CASE NextCall
      BY <3>2, StartedKept DEF NextCall, Alone
    <3>3. CASE WriteResult \/ WriteMessage
      <4>1. theCall \in Calls /\ call[theCall] \in CallRecs
        BY <3>3, TaskFacts, CallPlaces DEF WriteResult, WriteMessage, Step
      <4>2. \A x \in Calls : call'[x].started = call[x].started /\ call'[x].owner = call[x].owner
        <5>1. CASE WriteResult
          <6>1. PICK r : RecordCall(theCall, [call[theCall] EXCEPT !.results = r])
            BY <5>1 DEF WriteResult
          <6> QED BY <4>1, <6>1, CallWritten DEF CallRecs
        <5>2. CASE WriteMessage
          <6>1. PICK n : RecordCall(theCall, [call[theCall] EXCEPT !.messages = n])
            BY <5>2 DEF WriteMessage
          <6> QED BY <4>1, <6>1, CallWritten DEF CallRecs
        <5> QED BY <3>3, <5>1, <5>2
      <4> QED BY <4>2, StartedKept
    <3> QED BY <1>5, <3>1, <3>2, <3>3 DEF CallWork
  <2> QED BY <2>1, <2>2
<1>6. CASE /\ Task \/ (Fault /\ FaultTask)
           /\ ~CallWork /\ ~Finalize /\ ~EmitEnding /\ ~Retire
  BY <1>6, <1>s, TaskFrame, TaskNarrows, PhaseKept
<1>7. CASE /\ Task /\ CallWork /\ ~Finalize /\ ~EmitEnding /\ ~Retire
  BY <1>4, <1>5, <1>7, TaskFrame
<1>8. CASE Serving
  BY <1>8, <1>s, ServingFrame, OthersNarrow, PhaseKept
<1>9. CASE AcceptRun
  BY <1>9, AcceptStep
<1>10. CASE LaunchRun \/ (\E x \in Runs : StartRun(x)) \/ GetSession \/ Exit \/ Crash
  <2>1. UNCHANGED run
    BY <1>10 DEF LaunchRun, StartRun, GetSession, Exit, Crash, Die, Answering, journal
  <2> QED BY <1>10, <1>s, <2>1, OthersNarrow, PhaseKept
<1>11. CASE Fault /\ FaultFinalize
  BY <1>11, PhaseKept, StartedKept DEF FaultFinalize, journal
<1>12. CASE Fault /\ FaultTask /\ CallWork
  BY <1>12, PhaseKept, StartedKept DEF FaultTask, journal
<1>13. CASE Recover
  <2>1. CASE \E x \in ToEnd : RecoverTerminal(x)
    BY <2>1, EndStep DEF ToEnd, Ended, RecoverTerminal, Ends
  <2>2. CASE \E x \in ToEmit : RecoverEnding(x)
    <3>1. Phase' = Phase
      BY <2>2, HandlerFacts, PhaseKept DEF ToEmit, RecoverEnding, RecordRun, JournalOK, RunRecs
    <3>2. StartedIn' = StartedIn
      BY <2>2, StartedKept DEF RecoverEnding, RecordRun
    <3> QED BY <3>1, <3>2
  <2>3. CASE \E x \in Calls : RecoverApproval(x) \/ RecoverResult(x) \/ RecoverMessage(x)
    <3>1. PICK x \in Calls : RecoverApproval(x) \/ RecoverResult(x) \/ RecoverMessage(x)
      BY <2>3
    <3>2. call[x] \in CallRecs
      BY HandlerFacts
    <3>3. PICK rec : /\ RecordCall(x, rec)
                     /\ rec.started = call[x].started /\ rec.owner = call[x].owner
      BY <3>1, <3>2 DEF RecoverApproval, RecoverResult, RecoverMessage, Resolve, CallRecs
    <3>4. Phase' = Phase /\ StartedIn' = StartedIn
      BY <3>3, CallWritten, PhaseKept, StartedKept DEF RecordCall
    <3> QED BY <3>4
  <2> QED BY <1>13, <2>1, <2>2, <2>3 DEF Recover, ToAnswer, ToMessage
<1> QED BY <1>1, <1>2, <1>3, <1>6, <1>7, <1>8, <1>9, <1>10, <1>11, <1>12, <1>13
        DEF Next, Task, Serve, Client, Fault, Serving

(* The daemon implements the contract of RunContract: one open run at a      *)
(* time, accepted once and ended once, and each tool started at most once    *)
(* and only in an open run, through crashes, recoveries and lost clients.    *)
THEOREM RunsKeepContract == Spec => KeepsContract
<1>1. Init => Contract!Init
  BY DEF Init, Contract!Init, Phase, StartedIn, Ended, NewRun, NewCall
<1>2. Init => TypeInv /\ EndsInv /\ CallsInv
  BY TypeInit, EndsInit, CallsInit
<1>3. (TypeInv /\ EndsInv /\ CallsInv) /\ [Next]_vars => (TypeInv /\ EndsInv /\ CallsInv)'
  BY TypeNext, EndsNext, CallsNext
<1>4. (TypeInv /\ EndsInv /\ CallsInv) /\ [Next]_vars => [Contract!Next]_<<Phase, StartedIn>>
  BY ContractStep
<1> QED BY <1>1, <1>2, <1>3, <1>4, PTL DEF Spec, KeepsContract, Contract!Spec

-----------------------------------------------------------------------------
(* What the runs never do.                                                 *)

\* The end of the task: after execute_run.
Over == {"finalize", "ending", "retire"}

(* How the task moves: what it keeps in hand, and where it goes.             *)
LEMMA Moved ==
  ASSUME TypeInv
  PROVE  /\ \A from, to : Step(from, to) =>
              /\ task.pc = from /\ task'.pc = to
              /\ task'.call = task.call /\ task'.batch = task.batch
         /\ \A from, stop : Refuse(from, stop) =>
              /\ task.pc = from /\ task'.pc = "result"
              /\ task'.call = task.call /\ task'.batch = task.batch
         /\ \A from, outcome : Finish(from, outcome) =>
              /\ task.pc = from /\ task'.pc = "finalize"
              /\ task'.call = NoCall /\ task'.batch = {}
         /\ task' = [task EXCEPT !.pc = "result", !.undelivered = TRUE] =>
              /\ task'.pc = "result" /\ task'.call = task.call /\ task'.batch = task.batch
         /\ task' = NoTask => task'.pc = "none" /\ task'.call = NoCall /\ task'.batch = {}
<1>1. task \in Tasks
  BY TaskFacts
<1>2. \A from, to : Step(from, to) =>
        /\ task.pc = from /\ task'.pc = to
        /\ task'.call = task.call /\ task'.batch = task.batch
  BY <1>1 DEF Step, Tasks
<1>3. \A from, stop : Refuse(from, stop) =>
        /\ task.pc = from /\ task'.pc = "result"
        /\ task'.call = task.call /\ task'.batch = task.batch
  BY <1>1 DEF Refuse, Tasks
<1>4. \A from, outcome : Finish(from, outcome) =>
        task.pc = from /\ task'.pc = "finalize" /\ task'.call = NoCall /\ task'.batch = {}
  BY DEF Finish, NoTask
<1>5. task' = [task EXCEPT !.pc = "result", !.undelivered = TRUE] =>
        task'.pc = "result" /\ task'.call = task.call /\ task'.batch = task.batch
  BY <1>1 DEF Tasks
<1>6. task' = NoTask => task'.pc = "none" /\ task'.call = NoCall /\ task'.batch = {}
  BY DEF NoTask
<1> QED BY <1>2, <1>3, <1>4, <1>5, <1>6

(* The steps of a call that is written, asked for or decided.                *)
LEMMA CallMoves ==
  ASSUME TypeInv
  PROVE  /\ WriteIntent => /\ task.pc \in {"intent", "intent_cancelled"}
                           /\ task'.pc \in {"result", "start", "ask"}
         /\ AnnounceApproval => task.pc = "announce" /\ task'.pc = "wait"
         /\ TakeAnswer => task.pc = "wait" /\ task'.pc \in {"start", "result"}
         /\ ApprovalTimeout => task.pc = "wait" /\ task'.pc = "result"
         /\ WriteIntent \/ AnnounceApproval \/ TakeAnswer \/ ApprovalTimeout =>
              task'.call = task.call /\ task'.batch = task.batch
<1>1. ASSUME WriteIntent
      PROVE  \/ Refuse("intent", FALSE) \/ Refuse("intent_cancelled", TRUE)
             \/ Step("intent", "start") \/ Step("intent", "ask")
  BY <1>1, Zenon DEF WriteIntent
<1>2. ASSUME TakeAnswer
      PROVE  \/ Refuse("wait", FALSE) \/ Refuse("wait", TRUE) \/ Step("wait", "start")
             \/ task.pc = "wait" /\ task' = [task EXCEPT !.pc = "result", !.undelivered = TRUE]
  BY <1>2, Zenon DEF TakeAnswer
<1>3. AnnounceApproval => Step("announce", "wait")
  BY Zenon DEF AnnounceApproval
<1>4. ApprovalTimeout => Refuse("wait", FALSE)
  BY Zenon DEF ApprovalTimeout
<1>5. WriteIntent => /\ task.pc \in {"intent", "intent_cancelled"}
                           /\ task'.pc \in {"result", "start", "ask"}
                     /\ task'.call = task.call /\ task'.batch = task.batch
  BY <1>1, Moved
<1>6. TakeAnswer => task.pc = "wait" /\ task'.pc \in {"start", "result"} /\ task'.call = task.call /\ task'.batch = task.batch
  BY <1>2, Moved
<1> QED BY <1>3, <1>4, <1>5, <1>6, Moved

(* A task at a step of a call has one in hand.                               *)
LEMMA OwnCall ==
  ASSUME TypeInv,
         task.pc \in {"intent", "intent_cancelled", "start", "execute", "ask", "announce",
                     "wait", "result", "message", "complete"}
  PROVE  /\ theCall \in Calls /\ theCall = task.call /\ theCall # NoCall
         /\ call[theCall] \in CallRecs
         /\ active.run \in Runs /\ theRun = active.run
<1>1. task.pc \in CallSteps /\ task.pc # "none"
  BY DEF CallSteps
<1> QED BY <1>1, TaskFacts, NullAssumption DEF theCall, theRun

(* A handler that answers has nothing in hand any more.                      *)
LEMMA Replied ==
  \A from, to : Reply(from, to) =>
    rpc.pc = from /\ rpc'.pc = to /\ rpc'.choice = "none" /\ rpc'.run = NoRun
BY DEF Reply, Handler

(* An approval.resolved record: the decision of one call, and nothing else.  *)
LEMMA Decided ==
  ASSUME TypeInv, NEW x \in Calls, NEW choice \in Choices, Resolve(x, choice)
  PROVE  /\ run' = run
         /\ \A y \in Calls : /\ call'[y].owner = call[y].owner
                             /\ call'[y].intent = call[y].intent
                             /\ call'[y].asked = call[y].asked
                             /\ call'[y].started = call[y].started
                             /\ call'[y].results = call[y].results
                             /\ call'[y].messages = call[y].messages
         /\ \A y \in Calls \ {x} : call'[y] = call[y]
         /\ call[x].resolutions = <<>> => call'[x].resolutions = <<choice>>
<1>1. call \in [Calls -> CallRecs] /\ call[x] \in CallRecs
  BY HandlerFacts DEF JournalOK
<1>2. call' = [call EXCEPT ![x] = [call[x] EXCEPT !.resolutions = Append(@, choice)]]
      /\ run' = run
  BY DEF Resolve, RecordCall
<1>3. call'[x] = [call[x] EXCEPT !.resolutions = Append(@, choice)]
      /\ \A y \in Calls \ {x} : call'[y] = call[y]
  BY <1>1, <1>2
<1>4. call[x].resolutions = <<>> => call'[x].resolutions = <<choice>>
  BY <1>1, <1>3 DEF CallRecs
<1> QED BY <1>1, <1>2, <1>3, <1>4 DEF CallRecs

(* The turn loop, and the end of a call: no call is decided, started or      *)
(* answered, none of the task's is about to be, and the ones it takes up     *)
(* are new.                                                                  *)
LoopStep == \/ BeginTurn \/ StartProvider \/ Backoff \/ ConsumeStream \/ DrainCompletion
            \/ NextCall \/ WriteMessage \/ CompleteCall \/ CloseBatch

Deciding == {"start", "execute", "ask", "announce", "wait", "result"}

LoopEffect ==
  /\ UNCHANGED <<run, active, rpc, lock, pending, mailbox, connected, ran, acked>>
  /\ task.pc \notin Deciding \cup Over \cup {"none"}
  /\ task'.pc \notin Deciding \cup {"ending", "retire", "none"}
  /\ \A x \in Calls : /\ call'[x].intent = call[x].intent
                      /\ call'[x].resolutions = call[x].resolutions
                      /\ call'[x].started = call[x].started
                      /\ call'[x].results = call[x].results
                      /\ call'[x].owner = NoRun => call[x].owner = NoRun
  /\ \A x \in task'.batch : x \in task.batch \/ call[x].owner = NoRun
  /\ task'.pc \in {"intent", "intent_cancelled"} => task'.call \in task.batch
  /\ task'.pc = "finalize" => task'.batch = {}

LEMMA LoopFrame ==
  ASSUME TypeInv, CallsInv, LoopStep
  PROVE  LoopEffect
<1> USE DEF LoopEffect, Deciding, Over
<1>0. task \in Tasks /\ \A x \in Calls : call[x] \in CallRecs
  BY TaskFacts
<1>1. CASE BeginTurn
  <2>1. CASE \E outcome : Finish("turn", outcome)
    BY <1>1, <2>1, Moved DEF BeginTurn, Alone, Quiet, history
  <2>2. CASE task.pc = "turn" /\ task' = [task EXCEPT !.pc = "attempt", !.turn = @ + 1, !.attempt = 1]
    BY <1>0, <1>1, <2>2 DEF BeginTurn, Alone, Quiet, history, Tasks
  <2> QED BY <1>1, <2>1, <2>2 DEF BeginTurn
<1>2. CASE StartProvider
  BY <1>2, Moved DEF StartProvider, Alone, Quiet, history
<1>3. CASE Backoff
  <2>1. CASE Finish("backoff", "cancelled")
    BY <1>3, <2>1, Moved DEF Backoff, Alone, Quiet, history
  <2>2. CASE task.pc = "backoff" /\ task' = [task EXCEPT !.pc = "attempt", !.attempt = @ + 1]
    BY <1>0, <1>3, <2>2 DEF Backoff, Alone, Quiet, history, Tasks
  <2> QED BY <1>3, <2>1, <2>2 DEF Backoff
<1>4. CASE ConsumeStream
  <2>1. CASE Alone /\ ((\E e : Finish("stream", e)) \/ Step("stream", "drain"))
    BY <2>1, Moved DEF Alone, Quiet, history
  <2>2. ASSUME NEW batch \in SUBSET {x \in Calls : call[x].owner = NoRun},
               task.pc = "stream",
               task' = [task EXCEPT !.pc = "next", !.batch = batch],
               call' = [x \in Calls |-> IF x \in batch THEN [call[x] EXCEPT !.owner = theRun]
                                                       ELSE call[x]],
               UNCHANGED <<run, active, rpc, lock, pending, mailbox>>, Quiet
        PROVE  LoopEffect
    <3>1. task'.pc = "next" /\ task'.batch = batch
      BY <1>0, <2>2 DEF Tasks
    <3>2. \A x \in Calls : /\ call'[x].intent = call[x].intent
                           /\ call'[x].resolutions = call[x].resolutions
                           /\ call'[x].started = call[x].started
                           /\ call'[x].results = call[x].results
                           /\ call'[x].owner = NoRun => call[x].owner = NoRun
      BY <1>0, <2>2 DEF CallRecs
    <3> QED BY <2>2, <3>1, <3>2 DEF Quiet, history
  <2> QED BY <1>4, <2>1, <2>2 DEF ConsumeStream
<1>5. CASE DrainCompletion
  BY <1>5, Moved DEF DrainCompletion, Alone, Quiet, history
<1>6. CASE NextCall
  <2>1. PICK x \in task.batch, to \in {"intent", "intent_cancelled"} :
          task' = [task EXCEPT !.pc = to, !.call = x, !.batch = @ \ {x}]
    BY <1>6 DEF NextCall
  <2>2. task'.pc = to /\ task'.call = x /\ task'.batch \subseteq task.batch
    BY <1>0, <2>1 DEF Tasks
  <2> QED BY <1>6, <2>2 DEF NextCall, Alone, Quiet, history
<1>7. CASE WriteMessage
  <2>1. Step("message", "complete") /\ theCall \in Calls
    BY <1>7, TaskFacts, CallPlaces DEF WriteMessage, Step
  <2>2. PICK n : RecordCall(theCall, [call[theCall] EXCEPT !.messages = n])
    BY <1>7 DEF WriteMessage
  <2>3. \A x \in Calls : /\ call'[x].intent = call[x].intent
                         /\ call'[x].resolutions = call[x].resolutions
                         /\ call'[x].started = call[x].started
                         /\ call'[x].results = call[x].results
                         /\ call'[x].owner = call[x].owner
    BY <1>0, <2>1, <2>2, CallWritten DEF CallRecs
  <2> QED BY <1>7, <2>1, <2>2, <2>3, Moved DEF WriteMessage, RecordCall, Quiet, history
<1>8. CASE CompleteCall
  <2>1. CASE Finish("complete", "interrupted")
    BY <1>8, <2>1, Moved DEF CompleteCall, Alone, Quiet, history
  <2>2. CASE \E to \in {"close", "next"} :
               task.pc = "complete" /\ task' = [task EXCEPT !.call = NoCall, !.pc = to]
    BY <1>0, <1>8, <2>2 DEF CompleteCall, Alone, Quiet, history, Tasks
  <2> QED BY <1>8, <2>1, <2>2 DEF CompleteCall
<1>9. CASE CloseBatch
  BY <1>9, Moved DEF CloseBatch, Alone, Quiet, history
<1> QED BY <1>1, <1>2, <1>3, <1>4, <1>5, <1>6, <1>7, <1>8, <1>9 DEF LoopStep
-----------------------------------------------------------------------------
(* What was executed was started, and its result does not deny it.           *)
HonestInv ==
  /\ \A x \in ran : call[x].started
  /\ task.pc = "execute" => call[task.call].started
  /\ \A x \in ran : call[x].results \in {<<>>, <<"known">>, <<"unknown">>}

(* Steps that leave starts and results of calls as they are.                 *)
LEMMA HonestKept ==
  ASSUME TypeInv, HonestInv, ran' = ran,
         \A x \in Calls : call'[x].started = call[x].started /\ call'[x].results = call[x].results,
         task'.pc = "execute" => task.pc = "execute" /\ task'.call = task.call
  PROVE  HonestInv'
<1>1. ran \subseteq Calls
  BY HandlerFacts DEF HistoryOK
<1>2. task.pc = "execute" => task.call \in Calls
  BY TaskFacts, CallPlaces DEF theCall
<1> QED BY <1>1, <1>2 DEF HonestInv

(* The result of a call that has none.                                       *)
LEMMA FirstResult ==
  ASSUME TypeInv, NEW x \in Calls, call[x].results = <<>>,
         NEW r \in {"known", "not_run", "unknown"},
         RecordCall(x, [call[x] EXCEPT !.results = Append(@, r)])
  PROVE  /\ call'[x].results = <<r>>
         /\ \A y \in Calls : /\ call'[y].owner = call[y].owner
                             /\ call'[y].intent = call[y].intent
                             /\ call'[y].asked = call[y].asked
                             /\ call'[y].started = call[y].started
                             /\ call'[y].resolutions = call[y].resolutions
                             /\ call'[y].messages = call[y].messages
         /\ \A y \in Calls \ {x} : call'[y] = call[y]
<1>1. call[x] \in CallRecs
  BY HandlerFacts
<1>2. call'[x] = [call[x] EXCEPT !.results = Append(@, r)]
      /\ \A y \in Calls \ {x} : call'[y] = call[y]
  BY CallWritten
<1> QED BY <1>1, <1>2 DEF CallRecs

(* Steps of the task that neither execute a call nor answer it.              *)
LEMMA TaskHonest ==
  ASSUME TypeInv, CallsInv, HonestInv,
         Task \/ (Fault /\ (FaultTask \/ FaultFinalize))
  PROVE  HonestInv'
<1>r. /\ \A x \in Calls : call[x] \in CallRecs
      /\ task.pc \in CallSteps => theCall \in Calls
  BY TaskFacts
<1>u. ASSUME UNCHANGED <<call, ran>>, task'.pc # "execute"
      PROVE  HonestInv'
  BY <1>u, HonestKept
<1>1. CASE LoopStep
  BY <1>1, LoopFrame, HonestKept DEF LoopEffect, Deciding
<1>2. CASE WriteIntent
  <2>0. task.pc \in {"intent", "intent_cancelled"} /\ task'.pc # "execute"
    BY <1>2, CallMoves
  <2>1. theCall \in Calls /\ task'.pc # "execute" /\ ran' = ran
    BY <1>2, <2>0, OwnCall DEF WriteIntent, Quiet, history
  <2>2. PICK status : RecordCall(theCall, [call[theCall] EXCEPT !.intent = status])
    BY <1>2 DEF WriteIntent
  <2>3. \A x \in Calls : call'[x].started = call[x].started /\ call'[x].results = call[x].results
    BY <1>r, <2>1, <2>2, CallWritten DEF CallRecs
  <2> QED BY <2>1, <2>3, HonestKept
<1>3. CASE StartTool
  <2>1. CASE Refuse("start", TRUE) /\ UNCHANGED journal
    BY <1>3, <2>1, <1>u, Moved DEF StartTool, Quiet, history, journal
  <2>2. CASE /\ Step("start", "execute")
             /\ RecordCall(theCall, [call[theCall] EXCEPT !.started = TRUE])
    <3>1. theCall \in Calls /\ task'.call = theCall /\ ran' = ran
      BY <1>3, <2>2, <1>r, Moved, CallPlaces DEF StartTool, Quiet, history, theCall
    <3>2. /\ call'[theCall].started /\ call'[theCall].results = call[theCall].results
          /\ \A y \in Calls \ {theCall} : call'[y] = call[y]
      BY <1>r, <2>2, <3>1, CallWritten DEF CallRecs
    <3>3. ran \subseteq Calls
      BY HandlerFacts DEF HistoryOK
    <3> QED BY <3>1, <3>2, <3>3 DEF HonestInv
  <2> QED BY <1>3, <2>1, <2>2 DEF StartTool
<1>4. CASE Execute
  <2>1. task.pc = "execute" /\ task'.pc = "result" /\ UNCHANGED call
        /\ ran' = ran \cup {theCall}
    BY <1>4, Moved DEF Execute
  <2>2. call[theCall].started /\ call[theCall].results = <<>>
    BY <2>1, CallPlaces DEF HonestInv, CallsInv, theCall
  <2> QED BY <2>1, <2>2 DEF HonestInv
<1>5. CASE AskApproval
  <2>1. CASE Refuse("ask", TRUE) /\ UNCHANGED journal
    BY <1>5, <2>1, <1>u, Moved DEF AskApproval, Quiet, history, journal
  <2>2. CASE Step("ask", "announce") /\ RecordCall(theCall, [call[theCall] EXCEPT !.asked = TRUE])
    <3>1. theCall \in Calls /\ task'.pc # "execute" /\ ran' = ran
      BY <1>5, <2>2, <1>r, Moved, CallPlaces DEF AskApproval, Quiet, history
    <3>2. \A x \in Calls : call'[x].started = call[x].started /\ call'[x].results = call[x].results
      BY <1>r, <2>2, <3>1, CallWritten DEF CallRecs
    <3> QED BY <3>1, <3>2, HonestKept
  <2> QED BY <1>5, <2>1, <2>2 DEF AskApproval
<1>6. CASE AnnounceApproval \/ ApprovalTimeout
  <2>0. task.pc \in {"announce", "wait"} /\ task'.pc # "execute"
    BY <1>6, CallMoves
  <2>1. theCall \in Calls /\ ran' = ran
    BY <1>6, <2>0, OwnCall DEF AnnounceApproval, ApprovalTimeout, Quiet, history
  <2>2. UNCHANGED call \/ Resolve(theCall, "deny")
    BY <1>6 DEF AnnounceApproval, ApprovalTimeout, journal
  <2> QED BY <2>0, <2>1, <2>2, <1>u, Decided, HonestKept DEF Choices
<1>7. CASE TakeAnswer
  <2>1. task'.pc # "execute"
    BY <1>7, CallMoves
  <2> QED BY <1>7, <2>1, <1>u DEF TakeAnswer, Quiet, history
<1>8. CASE WriteResult
  <2>1. theCall \in Calls /\ task.pc = "result" /\ task'.pc = "message" /\ ran' = ran
    BY <1>8, <1>r, Moved, CallPlaces DEF WriteResult, Quiet, history
  <2>2. call[theCall].results = <<>>
    BY <2>1, CallPlaces DEF CallsInv, theCall
  <2>3. PICK r \in {"known", "not_run", "unknown"} :
          /\ RecordCall(theCall, [call[theCall] EXCEPT !.results = Append(@, r)])
          /\ theCall \in ran => r = "known"
    BY <1>8 DEF WriteResult
  <2>4. ran \subseteq Calls
    BY HandlerFacts DEF HistoryOK
  <2> QED BY <2>1, <2>2, <2>3, <2>4, FirstResult DEF HonestInv
<1>9. CASE Finalize \/ EmitEnding \/ Retire \/ (Fault /\ FaultFinalize)
  <2>1. task'.pc \in {"ending", "retire", "none"}
    BY <1>9, Moved DEF Finalize, EmitEnding, Retire, FaultFinalize
  <2>2. UNCHANGED <<call, ran>>
    BY <1>9 DEF Finalize, EmitEnding, Retire, FaultFinalize, RecordRun, journal, Quiet, history,
                 Fault
  <2> QED BY <2>1, <2>2, <1>u
<1>10. CASE Fault /\ FaultTask
  <2>1. \E from, outcome : Finish(from, outcome)
    BY <1>10 DEF FaultTask
  <2> QED BY <1>10, <2>1, <1>u, Moved DEF FaultTask, Fault, journal, history
<1> QED BY <1>1, <1>2, <1>3, <1>4, <1>5, <1>6, <1>7, <1>8, <1>9, <1>10 DEF Task, LoopStep, Fault
(* Only the task executes.                                                   *)
LEMMA OthersRanNothing ==
  ASSUME Serve \/ Client \/ FailEventTask \/ Crash \/ Restart \/ Fault
  PROVE  ran' = ran
<1>1. CASE Serve
  BY <1>1 DEF Serve, Recover, AcceptRun, ReturnSnapshot, LaunchRun, TakePending, DeliverApproval,
              MarkCancelled, CancelApproval, FireCancellation, Disconnect, DenyPending, HangUp,
              Exit, Die, Answering, Quiet, history
<1>2. CASE Client
  BY <1>2 DEF Client, StartRun, GetSession, CancelRun, LoseClient, RespondApproval,
              Answering, Quiet, history
<1>3. CASE FailEventTask \/ Crash \/ Restart \/ Fault
  BY <1>3 DEF FailEventTask, Crash, Die, Restart, Answering, Fault, Quiet, history
<1> QED BY <1>1, <1>2, <1>3

(* The other steps: recovery answers what was started with "unknown", and    *)
(* nobody else starts, executes or answers.                                  *)
LEMMA HonestNext ==
  ASSUME TypeInv, CallsInv, HonestInv, [Next]_vars
  PROVE  HonestInv'
<1>1. CASE UNCHANGED vars
  BY <1>1 DEF vars, HonestInv
<1>2. CASE Task \/ (Fault /\ (FaultTask \/ FaultFinalize))
  BY <1>2, TaskHonest
<1>3. CASE Recover
  <2>1. UNCHANGED <<task, ran>>
    BY <1>3 DEF Recover, Quiet, history
  <2>2. task.pc # "execute"
    BY <1>3, HandlerFacts DEF Recover, Bound, NoActive
  <2>3. CASE \E x \in ToAnswer : RecoverResult(x)
    <3>1. PICK x \in Calls, r \in {"unknown", "not_run"} :
            /\ call[x].results = <<>>
            /\ RecordCall(x, [call[x] EXCEPT !.results = Append(@, r)])
            /\ call[x].started => r = "unknown"
      BY <2>3 DEF ToAnswer, Unanswered, RecoverResult, Lost
    <3>2. ran \subseteq Calls
      BY HandlerFacts DEF HistoryOK
    <3> QED BY <2>1, <2>2, <3>1, <3>2, FirstResult DEF HonestInv
  <2>4. CASE \E x \in ToAnswer : RecoverApproval(x)
    BY <2>1, <2>2, <2>4, Decided, HonestKept DEF RecoverApproval, ToAnswer, Choices
  <2>5. CASE \E x \in ToMessage : RecoverMessage(x)
    <3>1. PICK x \in Calls : \E n : RecordCall(x, [call[x] EXCEPT !.messages = n])
      BY <2>5 DEF ToMessage, RecoverMessage
    <3>2. \A y \in Calls : call'[y].started = call[y].started /\ call'[y].results = call[y].results
      BY <3>1, CallWritten, HandlerFacts DEF CallRecs
    <3> QED BY <2>1, <2>2, <3>2, HonestKept
  <2>6. CASE UNCHANGED call
    BY <2>1, <2>2, <2>6, HonestKept
  <2> QED BY <1>3, <2>3, <2>4, <2>5, <2>6 DEF Recover, RecoverTerminal, RecoverEnding, RecordRun
<1>4. CASE (Serve \/ Client \/ FailEventTask \/ Crash \/ Restart \/ (Fault /\ FaultHandler)) /\ ~Recover
  <2>0. \/ Serving \/ AcceptRun \/ LaunchRun \/ (\E x \in Runs : StartRun(x))
        \/ GetSession \/ Exit \/ Crash
    BY <1>4 DEF Serve, Client, Serving
  <2>1. \A x \in Calls : SameCall(x)
    BY <2>0, OthersNarrow
  <2>2. ran' = ran
    BY <1>4, OthersRanNothing
  <2>3. task' = task \/ task'.pc \in {"turn", "none"}
    BY <2>0, ServingFrame DEF AcceptRun, LaunchRun, StartRun, GetSession, Exit, Crash, Die,
                              Answering, NoTask
  <2> QED BY <2>1, <2>2, <2>3, HonestKept DEF SameCall
<1> QED BY <1>1, <1>2, <1>3, <1>4 DEF Next, Fault

(* No execution is ever reported as one that did not happen: a call whose    *)
(* executor produced its side effect has the result the executor gave, or    *)
(* "unknown" from recover_interrupted, whatever crashed or failed between.   *)
THEOREM OutcomesAreHonest == Spec => []HonestOutcome
<1>1. Init => TypeInv /\ CallsInv /\ HonestInv
  BY TypeInit, CallsInit DEF Init, NoTask, HonestInv
<1>2. (TypeInv /\ CallsInv /\ HonestInv) /\ [Next]_vars => (TypeInv /\ CallsInv /\ HonestInv)'
  BY TypeNext, CallsNext, HonestNext
<1>3. HonestInv => HonestOutcome
  BY DEF HonestInv, HonestOutcome
<1> QED BY <1>1, <1>2, <1>3, PTL DEF Spec
-----------------------------------------------------------------------------
(* The live run knows of its durable cancellation, or the handler that wrote *)
(* it holds the lock and is about to say so. The death of the event task     *)
(* breaks this: it drops that handler where it stands.                       *)
CancelInv ==
  /\ \A x \in Runs : ~run[x].accepted => run[x].cancels = 0
  /\ active.run # NoRun /\ run[active.run].cancels > 0 =>
       active.cancelled \/ rpc.pc = "cancel_noted"

(* Steps that request no cancellation and change no live run.                *)
LEMMA CancelKept ==
  ASSUME TypeInv, TypeInv', CancelInv, active'.run = active.run,
         active'.cancelled = active.cancelled,
         \A x \in Runs : run'[x].accepted = run[x].accepted /\ run'[x].cancels = run[x].cancels,
         rpc.pc = "cancel_noted" => rpc'.pc = "cancel_noted"
  PROVE  CancelInv'
<1>1. active.run \in Runs \cup {NoRun}
  BY HandlerFacts
<1> QED BY <1>1 DEF CancelInv

(* A run that ends keeps its cancellation requests.                          *)
LEMMA EndKeepsCancels ==
  ASSUME TypeInv, NEW x \in Runs, NEW t,
         \/ RecordRun(x, [run[x] EXCEPT !.terminals = t])
         \/ RecordRun(x, [run[x] EXCEPT !.endings = t])
  PROVE  \A y \in Runs : run'[y].accepted = run[y].accepted /\ run'[y].cancels = run[y].cancels
BY HandlerFacts DEF RecordRun, JournalOK, RunRecs

LEMMA CancelNext ==
  ASSUME ~EventTaskFails, TypeInv, EndsInv, CancelInv, [Next]_vars
  PROVE  CancelInv'
<1>t. TypeInv'
  BY TypeNext
<1>a. /\ active \in Lives /\ active.run \in Runs \cup {NoRun} /\ rpc \in Rpcs
      /\ \A x \in Runs : run[x] \in RunRecs
  BY HandlerFacts DEF LiveOK
<1>1. CASE UNCHANGED vars
  BY <1>1, <1>t, CancelKept DEF vars
<1>2. CASE (Task \/ (Fault /\ FaultTask)) /\ ~Finalize /\ ~EmitEnding /\ ~Retire
  BY <1>2, <1>t, TaskFrame, CancelKept
<1>3. CASE Finalize \/ EmitEnding
  <2>1. theRun \in Runs
    <3>1. task.pc \in {"finalize", "ending"}
      BY <1>3, Moved DEF Finalize, EmitEnding
    <3> QED BY <3>1, TaskFacts DEF theRun
  <2>2. \E t : \/ RecordRun(theRun, [run[theRun] EXCEPT !.terminals = t])
               \/ RecordRun(theRun, [run[theRun] EXCEPT !.endings = t])
    BY <1>3 DEF Finalize, EmitEnding
  <2>3. active'.run = active.run /\ active'.cancelled = active.cancelled /\ rpc' = rpc
    BY <1>3, <1>a DEF Finalize, EmitEnding, Lives
  <2> QED BY <2>1, <2>2, <2>3, <1>t, EndKeepsCancels, CancelKept
<1>4. CASE Retire \/ Exit \/ Crash
  <2>1. active'.run = NoRun /\ run' = run
    BY <1>4 DEF Retire, Exit, Crash, Die, NoActive, journal
  <2> QED BY <2>1 DEF CancelInv
<1>5. CASE Fault /\ (FaultFinalize \/ FaultHandler)
  <2>1. (UNCHANGED <<run, active>> /\ rpc.pc # "cancel_noted") \/ UNCHANGED <<run, active, rpc>>
    BY <1>5 DEF FaultFinalize, FaultHandler, Reply, journal
  <2> QED BY <2>1, <1>t, CancelKept
<1>6. CASE Recover
  <2>1. UNCHANGED <<active, rpc>>
    BY <1>6 DEF Recover
  <2>2. \/ run' = run
        \/ \E x \in Runs : \E t : \/ RecordRun(x, [run[x] EXCEPT !.terminals = t])
                                  \/ RecordRun(x, [run[x] EXCEPT !.endings = t])
    BY <1>6 DEF Recover, RecoverApproval, RecoverResult, RecoverMessage, RecoverTerminal,
                RecoverEnding, Resolve, RecordCall, ToEnd, ToEmit
  <2> QED BY <2>1, <2>2, <1>t, EndKeepsCancels, CancelKept
<1>7. CASE AcceptRun
  <2>1. rpc.pc = "recover" /\ rpc.run \in Runs /\ rpc.run # NoRun
        /\ active'.run = rpc.run
        /\ RecordRun(rpc.run, [run[rpc.run] EXCEPT !.accepted = TRUE])
    BY <1>7, <1>a DEF AcceptRun, NoActive, Rpcs
  <2>2. run[rpc.run].cancels = 0
    BY <2>1 DEF EndsInv, CancelInv
  <2>3. /\ run'[rpc.run].cancels = 0 /\ run'[rpc.run].accepted
        /\ \A y \in Runs \ {rpc.run} : run'[y] = run[y]
    BY <2>1, <2>2, HandlerFacts DEF RecordRun, JournalOK, RunRecs
  <2> QED BY <2>1, <2>3 DEF CancelInv
<1>8. CASE CancelRun
  <2>1. active' = active /\ rpc'.pc = "cancel_noted" /\ active.run \in Runs
        /\ RecordRun(active.run, [run[active.run] EXCEPT !.cancels = @ + 1])
    BY <1>8, HandlerFacts DEF CancelRun, Handler, theRun
  <2>2. \A y \in Runs : /\ run'[y].accepted = run[y].accepted
                        /\ y # active.run => run'[y].cancels = run[y].cancels
    BY <2>1, HandlerFacts DEF RecordRun, JournalOK, RunRecs
  <2>3. run[active.run].accepted
    BY <2>1, NullAssumption DEF EndsInv
  <2> QED BY <2>1, <2>2, <2>3 DEF CancelInv
<1>9. CASE MarkCancelled
  <2>1. active'.run = active.run /\ active'.cancelled /\ run' = run
    BY <1>9, <1>a DEF MarkCancelled, journal, Lives
  <2> QED BY <2>1 DEF CancelInv
<1>10. CASE FireCancellation
  <2>1. /\ active'.run = active.run /\ active'.cancelled = active.cancelled /\ run' = run
        /\ rpc.pc # "cancel_noted"
    BY <1>10, <1>a DEF FireCancellation, Reply, journal, Lives
  <2> QED BY <2>1, <1>t, CancelKept
<1>11. CASE \/ \E choice \in Choices \cup {"expired"} : RespondApproval(choice)
            \/ TakePending \/ DeliverApproval \/ DenyPending \/ HangUp \/ Disconnect
            \/ CancelApproval \/ ReturnSnapshot \/ LoseClient \/ Restart
            \/ LaunchRun \/ (\E x \in Runs : StartRun(x)) \/ GetSession
  <2>1. UNCHANGED <<run, active>> /\ rpc.pc # "cancel_noted"
    BY <1>11 DEF RespondApproval, TakePending, DeliverApproval, DenyPending, HangUp, Disconnect,
                 CancelApproval, ReturnSnapshot, LoseClient, Restart, LaunchRun, StartRun,
                 GetSession, Answering, Reply, Resolve, RecordCall, journal
  <2> QED BY <2>1, <1>t, CancelKept
<1>12. ~FailEventTask
  BY DEF FailEventTask
<1> QED BY <1>1, <1>2, <1>3, <1>4, <1>5, <1>6, <1>7, <1>8, <1>9, <1>10, <1>11, <1>12
        DEF Next, Task, Serve, Client, Fault

(* The terminal record of a run that was cancelled.                          *)
LEMMA CancelledEnd ==
  ASSUME TypeInv, EndsInv, CancelInv, [Next]_vars,
         NEW x \in Runs, run[x].cancels > 0, ~Ended(x), Ended(x)'
  PROVE  run'[x].terminals[1] \in {"cancelled", "interrupted"}
<1>a. /\ run[x] \in RunRecs /\ run[x].terminals = <<>> /\ run'[x].terminals # <<>>
      /\ run \in [Runs -> RunRecs]
  BY HandlerFacts DEF Ended, JournalOK
<1>1. CASE Finalize
  <2>1. PICK end : /\ RecordRun(theRun, [run[theRun] EXCEPT !.terminals = Append(@, end)])
                   /\ active.cancelled => end = "cancelled"
    BY <1>1 DEF Finalize
  <2>2. lock = "free" /\ task.pc = "finalize"
    BY <1>1, Moved DEF Finalize
  <2>3. theRun \in Runs /\ theRun = active.run
    BY <2>2, TaskFacts DEF theRun
  <2>4. x = theRun
    BY <1>a, <2>1, <2>3 DEF RecordRun
  <2>5. active.cancelled
    BY <2>2, <2>3, <2>4, HandlerFacts, PlacesOfHandler, NullAssumption DEF CancelInv
  <2>6. run'[x].terminals = Append(<<>>, "cancelled")
    BY <1>a, <2>1, <2>4, <2>5 DEF RecordRun, RunRecs
  <2> QED BY <2>6
<1>2. CASE Recover
  <2>1. PICK y \in Runs : RecoverTerminal(y) \/ RecoverEnding(y) \/ run' = run
    BY <1>2 DEF Recover, RecoverApproval, RecoverResult, RecoverMessage, Resolve, RecordCall,
                ToEnd, ToEmit
  <2>2. RecoverTerminal(y) /\ x = y
    BY <1>a, <2>1, HandlerFacts DEF RecoverTerminal, RecoverEnding, RecordRun, RunRecs
  <2>3. run'[x].terminals = Append(<<>>, "interrupted")
    BY <1>a, <2>2 DEF RecoverTerminal, RecordRun, RunRecs
  <2> QED BY <2>3
<1>3. CASE AcceptRun
  <2>1. rpc.run \in Runs /\ RecordRun(rpc.run, [run[rpc.run] EXCEPT !.accepted = TRUE])
    BY <1>3, HandlerFacts DEF AcceptRun, Rpcs
  <2> QED BY <1>a, <2>1 DEF RecordRun, RunRecs
<1>4. CASE EmitEnding
  <2>1. task.pc = "ending"
    BY <1>4, Moved DEF EmitEnding
  <2>2. theRun \in Runs
    BY <2>1, TaskFacts DEF theRun
  <2> QED BY <1>4, <1>a, <2>2, HandlerFacts DEF EmitEnding, RecordRun, RunRecs
<1>5. CASE (Task \/ (Fault /\ FaultTask)) /\ ~Finalize /\ ~EmitEnding /\ ~Retire
  BY <1>5, <1>a, TaskFrame
<1>6. CASE Serving
  BY <1>6, <1>a, ServingFrame
<1>7. CASE \/ UNCHANGED vars \/ Retire \/ Exit \/ Crash \/ (Fault /\ FaultFinalize)
           \/ LaunchRun \/ (\E y \in Runs : StartRun(y)) \/ GetSession
  BY <1>7, <1>a DEF vars, Retire, Exit, Crash, Die, FaultFinalize, LaunchRun, StartRun, GetSession,
                    Answering, journal
<1> QED BY <1>1, <1>2, <1>3, <1>4, <1>5, <1>6, <1>7 DEF Next, Task, Serve, Client, Fault, Serving

(* A tool starts only while no cancellation of its run is durable.           *)
LEMMA UncancelledStart ==
  ASSUME TypeInv, CallsInv, CancelInv, [Next]_vars,
         NEW x \in Calls, call'[x].started, ~call[x].started
  PROVE  run[call[x].owner].cancels = 0
<1>1. StartTool /\ RecordCall(theCall, [call[theCall] EXCEPT !.started = TRUE])
  <2>1. ~SameCall(x)
    BY DEF SameCall
  <2>2. ~UNCHANGED vars
    BY DEF vars
  <2>3. ~(\/ Serving \/ AcceptRun \/ LaunchRun \/ (\E y \in Runs : StartRun(y))
          \/ GetSession \/ Exit \/ Crash)
    BY <2>1, OthersNarrow
  <2>4. ~Recover
    <3>1. CASE \E y \in Calls : RecoverApproval(y) \/ RecoverMessage(y)
      BY <3>1, CallWritten, HandlerFacts DEF RecoverApproval, RecoverMessage, Resolve, CallRecs
    <3>2. CASE \E y \in Calls : RecoverResult(y)
      <4>1. PICK y \in Calls : \E r : RecordCall(y, [call[y] EXCEPT !.results = r])
        BY <3>2 DEF RecoverResult
      <4> QED BY <4>1, CallWritten, HandlerFacts DEF CallRecs
    <3> QED BY <3>1, <3>2 DEF Recover, ToAnswer, ToMessage, RecoverTerminal, RecoverEnding, RecordRun
  <2>5. CallWork
    BY <2>1, <2>2, <2>3, <2>4, TaskNarrows DEF Next, Serve, Client, Fault, Serving
  <2>6. ~(\E batch \in SUBSET Calls :
            call' = [y \in Calls |-> IF y \in batch THEN [call[y] EXCEPT !.owner = theRun]
                                                    ELSE call[y]])
    <3> SUFFICES ASSUME NEW batch \in SUBSET Calls,
                        call' = [y \in Calls |-> IF y \in batch THEN [call[y] EXCEPT !.owner = theRun]
                                                                ELSE call[y]]
                 PROVE  FALSE
      OBVIOUS
    <3>1. call'[x] = call[x] \/ call'[x] = [call[x] EXCEPT !.owner = theRun]
      OBVIOUS
    <3>2. [call[x] EXCEPT !.owner = theRun].started = call[x].started
      BY HandlerFacts DEF CallRecs
    <3> QED BY <3>1, <3>2
  <2>7. ~NextCall /\ ~WriteMessage
    BY LoopFrame DEF LoopStep, LoopEffect
  <2>8. ~WriteResult
    <3>1. CASE WriteResult
      <4>1. PICK r : RecordCall(theCall, [call[theCall] EXCEPT !.results = r])
        BY <3>1 DEF WriteResult
      <4>2. theCall \in Calls
        BY <3>1, Moved, OwnCall DEF WriteResult
      <4> QED BY <4>1, <4>2, CallWritten, HandlerFacts DEF CallRecs
    <3> QED BY <3>1
  <2> QED BY <2>5, <2>6, <2>7, <2>8 DEF CallWork
<1>2. task.pc = "start" /\ lock = "free" /\ ~active.cancelled
  <2>1. task.pc = "start"
    BY <1>1 DEF StartTool, Step, Refuse
  <2>2. CASE (active.cancelled \/ active.terminal) /\ UNCHANGED journal
    BY <2>2 DEF journal
  <2> QED BY <1>1, <2>1, <2>2 DEF StartTool
<1>3. theCall \in Calls /\ active.run \in Runs /\ call[theCall].owner = active.run
  BY <1>2, OwnCall, CallPlaces DEF CallsInv, theCall
<1>4. x = theCall
  BY <1>1, <1>3, CallWritten
<1>5. run[active.run].cancels \in Nat
  BY <1>3, HandlerFacts DEF RunRecs
<1> QED BY <1>2, <1>3, <1>4, <1>5, HandlerFacts, PlacesOfHandler, NullAssumption DEF CancelInv

(* As long as the daemon's event task lives or dies with the daemon, a       *)
(* durable cancellation holds: run/cancel and finalize_run agree on the end  *)
(* of the run through the lifecycle lock, and execute_tool_call looks at the *)
(* flag under that lock before a tool starts.                                *)
THEOREM CancellationRespected ==
  ASSUME ~EventTaskFails
  PROVE  Spec => CancellationHolds
<1>1. Init => TypeInv /\ EndsInv /\ CallsInv /\ CancelInv
  BY TypeInit, EndsInit, CallsInit DEF Init, NewRun, NoActive, CancelInv
<1>2. (TypeInv /\ EndsInv /\ CallsInv /\ CancelInv) /\ [Next]_vars
        => (TypeInv /\ EndsInv /\ CallsInv /\ CancelInv)'
  BY TypeNext, EndsNext, CallsNext, CancelNext
<1>3. (TypeInv /\ EndsInv /\ CallsInv /\ CancelInv) /\ [Next]_vars
        => \A x \in Runs : run[x].cancels > 0 /\ ~Ended(x) /\ Ended(x)' =>
             run'[x].terminals[1] \in {"cancelled", "interrupted"}
  BY CancelledEnd
<1>4. (TypeInv /\ EndsInv /\ CallsInv /\ CancelInv) /\ [Next]_vars
        => \A x \in Calls : call'[x].started /\ ~call[x].started =>
             run[call[x].owner].cancels = 0
  BY UncancelledStart
<1> QED BY <1>1, <1>2, <1>3, <1>4, PTL DEF Spec, CancellationHolds, CancelWins, NoStartAfterCancel
-----------------------------------------------------------------------------
\* The client was told of a durable allow_once.
Allowed(x) == call[x].resolutions = <<"allow_once">> /\ x \in acked

\* The pending call is the one the task waits for, or a failed append left it
\* behind; nobody has decided it but the handler that is about to take it away.
PendingSound ==
  /\ task.pc = "announce" => pending = task.call
  /\ pending # NoCall =>
       /\ \/ task.pc \in {"announce", "wait"} /\ pending = task.call
          \/ MaxFaults > 0 /\ task.pc \in Over
       /\ ~call[pending].started /\ call[pending].owner # NoRun
       /\ \/ call[pending].resolutions = <<>>
          \/ rpc.pc \in {"respond", "cancel_resolved", "hung_up"}
          \/ EventTaskFails /\ rpc.pc \in Closing

\* An answer in the mailbox is the only one on its way, and a permission in it
\* is backed by the journal and by the response.
MailSound ==
  mailbox # "none" =>
    /\ pending = NoCall /\ task.pc = "wait" /\ rpc.pc # "deliver"
    /\ mailbox = "allow_once" => Allowed(task.call)

\* So is the permission a handler holds.
DecisionSound ==
  /\ rpc.pc = "respond" =>
       /\ pending # NoCall
       /\ rpc.choice = "allow_once" => call[pending].resolutions = <<"allow_once">>
  /\ rpc.pc = "deliver" =>
       /\ pending = NoCall /\ task.pc \in Over \cup {"none", "wait"}
       /\ task.pc = "wait" /\ rpc.choice = "allow_once" =>
            call[task.call].resolutions = <<"allow_once">>

\* A call nobody has been asked about yet.
Unasked(x) ==
  \/ call[x].owner = NoRun
  \/ x \in task.batch
  \/ x = task.call /\ task.pc \in {"intent", "intent_cancelled", "ask"}

(* Who may decide a call, and how the decision travels to the task.          *)
ConsentInv ==
  /\ StartNeedsConsent
  /\ task.pc = "start" /\ call[task.call].intent = "awaiting_approval" => Allowed(task.call)
  /\ PendingSound /\ MailSound /\ DecisionSound
  /\ \A x \in Calls : Unasked(x) => call[x].resolutions = <<>>
  /\ task.pc \in Over => task.batch = {}
  /\ ~EventTaskFails => \A x \in Calls : call[x].resolutions = <<>>
                                       \/ Len(call[x].resolutions) = 1

(* What the invariants say of a pending call.                                *)
LEMMA PendingFacts ==
  ASSUME TypeInv, CallsInv, ConsentInv, pending # NoCall
  PROVE  /\ pending \in Calls /\ ~Unasked(pending) /\ ~call[pending].started
         /\ mailbox = "none"
         /\ task.pc \in {"announce", "wait"} \cup Over
         /\ task.pc \in {"announce", "wait"} => pending = task.call
         /\ lock # "task" => task.pc \in {"wait"} \cup Over
<1>1. pending \in Calls
  BY HandlerFacts DEF MailOK
<1>2. mailbox = "none" /\ task.pc \in {"announce", "wait"} \cup Over
      /\ (task.pc \in {"announce", "wait"} => pending = task.call)
      /\ ~call[pending].started /\ call[pending].owner # NoRun
  BY DEF ConsentInv, PendingSound, MailSound, Over
<1>3. lock # "task" => task.pc # "announce"
  BY HandlerFacts DEF Held, TaskLocked
<1>4. ~Unasked(pending)
  <2>1. pending \notin task.batch
    <3>1. CASE task.pc \in Over
      BY <3>1 DEF ConsentInv
    <3>2. CASE pending = task.call
      BY <3>2 DEF CallsInv
    <3> QED BY <1>2, <3>1, <3>2
  <2> QED BY <1>2, <2>1 DEF Unasked, Over
<1> QED BY <1>1, <1>2, <1>3, <1>4

(* Before the task asks, and after it has its answer, nothing is pending and *)
(* no handler has a decision in hand.                                        *)
LEMMA Undisturbed ==
  ASSUME ConsentInv, task.pc \notin {"announce", "wait", "none"} \cup Over
  PROVE  pending = NoCall /\ mailbox = "none" /\ rpc.pc \notin {"respond", "deliver"}
BY DEF ConsentInv, PendingSound, MailSound, DecisionSound, Over

(* The turn loop decides nothing.                                            *)
LEMMA LoopConsent ==
  ASSUME TypeInv, CallsInv, ConsentInv, LoopStep
  PROVE  ConsentInv'
<1>1. LoopEffect
  BY LoopFrame
<1>2. pending = NoCall /\ mailbox = "none" /\ rpc.pc \notin {"respond", "deliver"}
  BY <1>1, Undisturbed DEF LoopEffect, Deciding
<1>3. PendingSound' /\ MailSound' /\ DecisionSound'
  BY <1>1, <1>2 DEF LoopEffect, Deciding, PendingSound, MailSound, DecisionSound
<1>4. StartNeedsConsent'
  BY <1>1 DEF LoopEffect, ConsentInv, StartNeedsConsent
<1>5. \A x \in Calls : Unasked(x)' => Unasked(x)
  BY <1>1 DEF LoopEffect, Unasked, Deciding
<1> QED BY <1>1, <1>3, <1>4, <1>5 DEF LoopEffect, ConsentInv, Deciding, Over

(* Steps of a call that decide nothing: the call goes on, and what is known  *)
(* of it and of the others stays.                                            *)
LEMMA CallConsent ==
  ASSUME TypeInv, CallsInv, ConsentInv,
         WriteIntent \/ StartTool \/ Execute \/ AskApproval \/ WriteResult
  PROVE  ConsentInv'
<1>p. task.pc \in {"intent", "intent_cancelled", "start", "execute", "ask", "result"}
  BY CallMoves, Moved, Zenon DEF StartTool, Execute, AskApproval, WriteResult
<1>a. /\ theCall \in Calls /\ theCall = task.call /\ theCall # NoCall
      /\ call[theCall] \in CallRecs /\ call[theCall].owner = active.run
      /\ active.run \in Runs /\ active.run # NoRun
  BY <1>p, OwnCall, CallPlaces, NullAssumption DEF CallsInv
<1>b. pending = NoCall /\ mailbox = "none" /\ rpc.pc \notin {"respond", "deliver"}
  BY <1>p, Undisturbed DEF Over
<1>q. ASSUME UNCHANGED <<call, pending, mailbox, rpc>>, acked' = acked,
             task'.call = task.call, task'.batch = task.batch,
             task'.pc = "result"
      PROVE  ConsentInv'
  <2>1. PendingSound' /\ MailSound' /\ DecisionSound'
    BY <1>q, <1>b DEF PendingSound, MailSound, DecisionSound
  <2>2. StartNeedsConsent' /\ \A x \in Calls : Unasked(x)' => Unasked(x)
    BY <1>q DEF ConsentInv, StartNeedsConsent, Allowed, Unasked
  <2> QED BY <1>q, <2>1, <2>2 DEF ConsentInv, Over
<1>s. ~call[theCall].started \/ task.pc \in {"execute", "result"}
  BY <1>p, <1>a, CallPlaces DEF CallsInv
<1>1. CASE WriteIntent
  <2>1. /\ task'.pc \in {"result", "start", "ask"} /\ task.pc \in {"intent", "intent_cancelled"}
        /\ task'.call = task.call /\ task'.batch = task.batch
    BY <1>1, CallMoves
  <2>2. PICK status : /\ RecordCall(theCall, [call[theCall] EXCEPT !.intent = status])
                      /\ task'.pc = "start" => status = "started"
    <3>1. PICK status : /\ RecordCall(theCall, [call[theCall] EXCEPT !.intent = status])
                        /\ \/ Refuse("intent", FALSE) \/ Refuse("intent_cancelled", TRUE)
                           \/ Step("intent", "ask") \/ status = "started"
      BY <1>1, Zenon DEF WriteIntent
    <3>2. Refuse("intent", FALSE) \/ Refuse("intent_cancelled", TRUE) => task'.pc = "result"
      BY Moved
    <3>3. Step("intent", "ask") => task'.pc = "ask"
      BY Moved
    <3> QED BY <3>1, <3>2, <3>3
  <2>3. UNCHANGED <<rpc, pending, mailbox, acked>>
    BY <1>1 DEF WriteIntent, Quiet, history
  <2>4. /\ call'[theCall].intent = status
        /\ \A x \in Calls : /\ call'[x].started = call[x].started
                            /\ call'[x].resolutions = call[x].resolutions
                            /\ call'[x].owner = call[x].owner
                            /\ x # theCall => call'[x] = call[x]
    BY <1>a, <2>2, CallWritten DEF CallRecs
  <2>5. PendingSound' /\ MailSound' /\ DecisionSound'
    BY <2>1, <2>3, <1>b DEF PendingSound, MailSound, DecisionSound
  <2>6. StartNeedsConsent'
    BY <1>s, <2>1, <2>3, <2>4 DEF ConsentInv, StartNeedsConsent
  <2>7. \A x \in Calls : Unasked(x)' => Unasked(x)
    BY <2>1, <2>4 DEF Unasked
  <2>8. ~(task'.pc = "start" /\ call'[task'.call].intent = "awaiting_approval")
    BY <1>a, <2>1, <2>2, <2>4
  <2> QED BY <2>1, <2>3, <2>4, <2>5, <2>6, <2>7, <2>8 DEF ConsentInv, Over
<1>2. CASE StartTool
  <2>1. CASE Refuse("start", TRUE) /\ UNCHANGED journal
    BY <1>2, <2>1, <1>q, Moved DEF StartTool, Quiet, history, journal
  <2>2. CASE /\ Step("start", "execute")
             /\ RecordCall(theCall, [call[theCall] EXCEPT !.started = TRUE])
    <3>1. /\ task.pc = "start" /\ task'.pc = "execute"
          /\ task'.call = task.call /\ task'.batch = task.batch
      BY <2>2, Moved
    <3>2. UNCHANGED <<rpc, pending, mailbox, acked>>
      BY <1>2 DEF StartTool, Quiet, history
    <3>3. /\ call'[theCall].intent = call[theCall].intent
          /\ \A x \in Calls : /\ call'[x].resolutions = call[x].resolutions
                              /\ call'[x].owner = call[x].owner
                              /\ x # theCall => call'[x] = call[x]
      BY <1>a, <2>2, CallWritten DEF CallRecs
    <3>4. PendingSound' /\ MailSound' /\ DecisionSound'
      BY <3>1, <3>2, <1>b DEF PendingSound, MailSound, DecisionSound
    <3>5. StartNeedsConsent'
      BY <1>a, <3>1, <3>2, <3>3 DEF ConsentInv, StartNeedsConsent, Allowed
    <3>6. \A x \in Calls : Unasked(x)' => Unasked(x)
      BY <3>1, <3>3 DEF Unasked
    <3> QED BY <3>1, <3>3, <3>4, <3>5, <3>6 DEF ConsentInv, Over
  <2> QED BY <1>2, <2>1, <2>2 DEF StartTool
<1>3. CASE Execute
  BY <1>3, <1>q, Moved DEF Execute
<1>4. CASE AskApproval
  <2>1. CASE Refuse("ask", TRUE) /\ UNCHANGED <<journal, lock, pending>>
    BY <1>4, <2>1, <1>q, Moved DEF AskApproval, Quiet, history, journal
  <2>2. CASE /\ Step("ask", "announce") /\ pending' = theCall
             /\ RecordCall(theCall, [call[theCall] EXCEPT !.asked = TRUE])
    <3>1. /\ task.pc = "ask" /\ task'.pc = "announce"
          /\ task'.call = task.call /\ task'.batch = task.batch
      BY <2>2, Moved
    <3>2. UNCHANGED <<rpc, mailbox, acked>>
      BY <1>4 DEF AskApproval, Quiet, history
    <3>3. \A x \in Calls : /\ call'[x].resolutions = call[x].resolutions
                           /\ call'[x].owner = call[x].owner
                           /\ call'[x].intent = call[x].intent
                           /\ call'[x].started = call[x].started
      BY <1>a, <2>2, CallWritten DEF CallRecs
    <3>4. call[theCall].resolutions = <<>> /\ ~call[theCall].started
      BY <1>a, <1>s, <3>1 DEF ConsentInv, Unasked
    <3>5. PendingSound' /\ MailSound' /\ DecisionSound'
      BY <1>a, <2>2, <3>1, <3>2, <3>3, <3>4, <1>b DEF PendingSound, MailSound, DecisionSound
    <3>6. StartNeedsConsent'
      BY <3>2, <3>3 DEF ConsentInv, StartNeedsConsent
    <3>7. \A x \in Calls : Unasked(x)' => Unasked(x)
      BY <3>1, <3>3 DEF Unasked
    <3> QED BY <3>1, <3>3, <3>5, <3>6, <3>7 DEF ConsentInv, Over
  <2> QED BY <1>4, <2>1, <2>2 DEF AskApproval
<1>5. CASE WriteResult
  <2>1. /\ task.pc = "result" /\ task'.pc = "message"
        /\ task'.call = task.call /\ task'.batch = task.batch
    BY <1>5, Moved DEF WriteResult
  <2>2. UNCHANGED <<rpc, pending, mailbox, acked>>
    BY <1>5 DEF WriteResult, Quiet, history
  <2>3. PICK r : RecordCall(theCall, [call[theCall] EXCEPT !.results = r])
    BY <1>5 DEF WriteResult
  <2>4. \A x \in Calls : /\ call'[x].resolutions = call[x].resolutions
                         /\ call'[x].owner = call[x].owner
                         /\ call'[x].intent = call[x].intent
                         /\ call'[x].started = call[x].started
    BY <1>a, <2>3, CallWritten DEF CallRecs
  <2>5. PendingSound' /\ MailSound' /\ DecisionSound'
    BY <2>1, <2>2, <1>b DEF PendingSound, MailSound, DecisionSound
  <2>6. StartNeedsConsent'
    BY <2>2, <2>4 DEF ConsentInv, StartNeedsConsent
  <2>7. \A x \in Calls : Unasked(x)' => Unasked(x)
    BY <2>1, <2>4 DEF Unasked
  <2> QED BY <2>1, <2>4, <2>5, <2>6, <2>7 DEF ConsentInv, Over
<1> QED BY <1>1, <1>2, <1>3, <1>4, <1>5

(* A decision of a call that did not start for want of one and is no longer  *)
(* unasked.                                                                  *)
LEMMA DecisionConsent ==
  ASSUME TypeInv, CallsInv, ConsentInv, NEW x \in Calls, NEW choice \in Choices,
         Resolve(x, choice), ~Unasked(x),
         call[x].started => call[x].intent # "awaiting_approval",
         ~EventTaskFails => call[x].resolutions = <<>>,
         UNCHANGED acked, task'.pc # "start",
         task'.batch \subseteq task.batch, task'.pc \notin {"intent", "intent_cancelled", "ask"},
         task'.pc \in Over => task.pc \in Over,
         PendingSound', MailSound', DecisionSound'
  PROVE  ConsentInv'
<1>1. StartNeedsConsent'
  BY Decided DEF ConsentInv, StartNeedsConsent
<1>2. \A y \in Calls : Unasked(y)' => Unasked(y) /\ y # x
  BY Decided DEF Unasked
<1>3. Len(<<choice>>) = 1
  OBVIOUS
<1>4. ~EventTaskFails => \A y \in Calls : call'[y].resolutions = <<>> \/ Len(call'[y].resolutions) = 1
  <2>1. \A y \in Calls \ {x} : call'[y] = call[y]
    BY Decided
  <2>2. call[x].resolutions = <<>> => call'[x].resolutions = <<choice>>
    BY Decided
  <2> QED BY <1>3, <2>1, <2>2 DEF ConsentInv
<1>5. \A y \in Calls : Unasked(y)' => call'[y].resolutions = <<>>
  BY <1>2, Decided DEF ConsentInv
<1> QED BY <1>1, <1>4, <1>5 DEF ConsentInv

(* The task's own part of an approval: it announces, waits, is answered or   *)
(* runs out of time.                                                         *)
LEMMA WaitConsent ==
  ASSUME TypeInv, CallsInv, ConsentInv, AnnounceApproval \/ TakeAnswer \/ ApprovalTimeout
  PROVE  ConsentInv'
<1>p. /\ task.pc \in {"announce", "wait"}
      /\ task'.call = task.call /\ task'.batch = task.batch
  BY CallMoves
<1>a. theCall \in Calls /\ theCall = task.call /\ theCall # NoCall
  BY <1>p, OwnCall
<1>s. ~call[theCall].started
  BY <1>p, <1>a, CallPlaces DEF CallsInv
<1>1. CASE AnnounceApproval
  <2>1. /\ task.pc = "announce" /\ task'.pc = "wait" /\ UNCHANGED rpc /\ UNCHANGED acked
        /\ lock = "task" /\ rpc.pc \notin RpcLocked
    BY <1>1, CallMoves, HandlerFacts, PlacesOfTask DEF AnnounceApproval, Quiet, history, Held
  <2>2. pending = theCall /\ mailbox = "none" /\ ~Unasked(theCall)
        /\ rpc.pc \notin {"respond", "deliver", "cancel_resolved", "hung_up"}
    <3>1. pending = theCall
      BY <2>1, <1>a DEF ConsentInv, PendingSound
    <3>2. mailbox = "none" /\ ~Unasked(theCall)
      BY <3>1, <1>a, PendingFacts
    <3>3. rpc.pc # "deliver"
      BY <3>1, <1>a DEF ConsentInv, DecisionSound
    <3> QED BY <2>1, <3>1, <3>2, <3>3, PlacesOfHandler
  <2>3. CASE UNCHANGED <<journal, pending, mailbox>>
    <3>1. PendingSound' /\ MailSound' /\ DecisionSound'
      BY <1>a, <1>p, <2>1, <2>2, <2>3 DEF ConsentInv, PendingSound, MailSound, DecisionSound, journal
    <3>2. StartNeedsConsent' /\ \A x \in Calls : Unasked(x)' => Unasked(x)
      BY <1>p, <2>1, <2>3 DEF ConsentInv, StartNeedsConsent, Unasked, journal
    <3> QED BY <2>1, <2>3, <3>1, <3>2 DEF ConsentInv, Over, journal
  <2>4. CASE Resolve(theCall, "deny") /\ pending' = NoCall /\ mailbox' = "deny"
    <3>1. PendingSound' /\ MailSound' /\ DecisionSound'
      BY <2>1, <2>2, <2>4 DEF PendingSound, MailSound, DecisionSound
    <3>2. ~EventTaskFails => call[theCall].resolutions = <<>>
      BY <1>a, <2>2 DEF ConsentInv, PendingSound
    <3> QED BY <1>a, <1>s, <1>p, <2>1, <2>2, <2>4, <3>1, <3>2, DecisionConsent DEF Choices, Over
  <2> QED BY <1>1, <2>3, <2>4 DEF AnnounceApproval
<1>2. CASE TakeAnswer
  <2>1. /\ task.pc = "wait" /\ task'.pc \in {"start", "result"}
        /\ UNCHANGED <<call, rpc, pending, acked>> /\ mailbox' = "none" /\ mailbox # "none"
    BY <1>2, CallMoves DEF TakeAnswer, Quiet, history
  <2>2. task'.pc = "start" => mailbox = "allow_once"
    BY <1>2, Moved DEF TakeAnswer
  <2>3. pending = NoCall /\ rpc.pc \notin {"deliver", "respond"}
        /\ (mailbox = "allow_once" => Allowed(task.call))
    BY <2>1 DEF ConsentInv, MailSound, DecisionSound
  <2>4. PendingSound' /\ MailSound' /\ DecisionSound'
    BY <2>1, <2>3 DEF PendingSound, MailSound, DecisionSound
  <2>5. StartNeedsConsent' /\ \A x \in Calls : Unasked(x)' => Unasked(x)
    BY <1>p, <2>1 DEF ConsentInv, StartNeedsConsent, Unasked
  <2> QED BY <1>p, <2>1, <2>2, <2>3, <2>4, <2>5 DEF ConsentInv, Over, Allowed
<1>3. CASE ApprovalTimeout
  <2>1. /\ task.pc = "wait" /\ task'.pc = "result" /\ lock = "free" /\ pending = theCall
        /\ Resolve(theCall, "deny") /\ pending' = NoCall
        /\ UNCHANGED <<rpc, mailbox, acked>>
    BY <1>3, CallMoves DEF ApprovalTimeout, Quiet, history
  <2>2. mailbox = "none" /\ ~Unasked(theCall)
    BY <1>a, <2>1, PendingFacts
  <2>3. rpc.pc \notin {"respond", "deliver", "cancel_resolved", "hung_up"}
    BY <1>a, <2>1, HandlerFacts, PlacesOfHandler DEF ConsentInv, DecisionSound
  <2>4. PendingSound' /\ MailSound' /\ DecisionSound'
    BY <2>1, <2>2, <2>3 DEF PendingSound, MailSound, DecisionSound
  <2>5. ~EventTaskFails => call[theCall].resolutions = <<>>
    BY <1>a, <2>1, <2>3 DEF ConsentInv, PendingSound
  <2> QED BY <1>a, <1>s, <1>p, <2>1, <2>2, <2>4, <2>5, DecisionConsent DEF Choices, Over
<1> QED BY <1>1, <1>2, <1>3

(* Steps that decide nothing.                                                *)
LEMMA ConsentKept ==
  ASSUME ConsentInv, call' = call, acked \subseteq acked',
         task' = task \/ task'.pc # "start", \A x \in Calls : Unasked(x)' => Unasked(x),
         task'.pc \in Over => task'.batch = {},
         PendingSound', MailSound', DecisionSound'
  PROVE  ConsentInv'
<1>1. StartNeedsConsent'
  BY DEF ConsentInv, StartNeedsConsent
<1>2. task'.pc = "start" /\ call'[task'.call].intent = "awaiting_approval"
        => call'[task'.call].resolutions = <<"allow_once">> /\ task'.call \in acked'
  BY DEF ConsentInv, Allowed
<1> QED BY <1>1, <1>2 DEF ConsentInv, Allowed

(* The end of the task.                                                      *)
LEMMA EndConsent ==
  ASSUME TypeInv, CallsInv, ConsentInv,
         Finalize \/ EmitEnding \/ Retire \/ (Fault /\ (FaultTask \/ FaultFinalize))
  PROVE  ConsentInv'
<1>1. CASE Finalize \/ EmitEnding \/ (Fault /\ FaultFinalize)
  <2>1. /\ task.pc \in Over /\ task'.pc \in Over
        /\ task'.call = task.call /\ task'.batch = task.batch
    BY <1>1, Moved DEF Finalize, EmitEnding, FaultFinalize, Over
  <2>2. UNCHANGED <<call, rpc, pending, mailbox, acked>>
    BY <1>1 DEF Finalize, EmitEnding, FaultFinalize, Fault, RecordRun, journal, approval, Quiet, history
  <2>3. PendingSound' /\ MailSound' /\ DecisionSound'
    BY <2>1, <2>2 DEF ConsentInv, PendingSound, MailSound, DecisionSound, Over
  <2>4. \A x \in Calls : Unasked(x)' => Unasked(x)
    BY <2>1, <2>2 DEF Unasked, Over
  <2>5. task'.batch = {} /\ task'.pc # "start"
    BY <2>1 DEF ConsentInv, Over
  <2> QED BY <2>2, <2>3, <2>4, <2>5, ConsentKept
<1>2. CASE Retire
  <2>1. /\ task'.pc = "none" /\ task'.call = NoCall /\ task'.batch = {}
        /\ pending' = NoCall /\ mailbox' = "none" /\ UNCHANGED <<call, rpc, acked>> /\ lock # "rpc"
    BY <1>2, Moved DEF Retire, journal, Quiet, history
  <2>2. rpc.pc # "respond"
    BY <2>1, HandlerFacts, PlacesOfHandler DEF Held
  <2>3. PendingSound' /\ MailSound' /\ DecisionSound'
    BY <2>1, <2>2 DEF PendingSound, MailSound, DecisionSound
  <2>4. \A x \in Calls : Unasked(x)' => Unasked(x)
    BY <2>1 DEF Unasked
  <2> QED BY <2>1, <2>3, <2>4, ConsentKept
<1>3. CASE Fault /\ FaultTask
  <2>1. /\ task'.pc = "finalize" /\ task'.call = NoCall /\ task'.batch = {}
        /\ UNCHANGED <<call, rpc, acked>>
    <3>1. \E from, outcome : Finish(from, outcome)
      BY <1>3, Zenon DEF FaultTask
    <3> QED BY <1>3, <3>1, Moved DEF FaultTask, Fault, journal, history
  <2>2. MaxFaults > 0
    BY <1>3, HandlerFacts, BoundAssumption DEF Fault, HistoryOK
  <2>3. mailbox' = "none"
    <3>1. mailbox' = "none" \/ (mailbox' = mailbox /\ task.pc # "wait")
      <4>1. \/ (\E from \in Appending \cup {"start", "ask", "close", "announce"} : \E outcome :
                   Finish(from, outcome)) /\ mailbox' = mailbox
            \/ mailbox' = "none"
        BY <1>3, Zenon DEF FaultTask, approval
      <4>2. "wait" \notin Appending
        BY DEF Appending
      <4> QED BY <4>1, <4>2, Moved
    <3> QED BY <3>1 DEF ConsentInv, MailSound
  <2>4. \/ pending' = pending
        \/ pending' = NoCall /\ task.pc = "announce"
    <3>1. \/ pending' = pending
          \/ pending' = NoCall /\ Finish("announce", "failed")
      BY <1>3, Zenon DEF FaultTask, approval
    <3> QED BY <3>1, Moved
  <2>5. rpc.pc = "respond" => pending' = pending
    BY <2>4, HandlerFacts, PlacesOfHandler DEF Held, TaskLocked
  <2>6. PendingSound' /\ MailSound' /\ DecisionSound'
    <3>1. pending' # NoCall => pending' = pending
      BY <2>4
    <3>2. rpc.pc = "deliver" => pending' = NoCall
      BY <2>4 DEF ConsentInv, DecisionSound
    <3>3. PendingSound'
      BY <2>1, <2>2, <3>1 DEF ConsentInv, PendingSound, Over
    <3> QED BY <2>1, <2>3, <2>5, <3>2, <3>3 DEF ConsentInv, MailSound, DecisionSound, Over
  <2>7. \A x \in Calls : Unasked(x)' => Unasked(x)
    BY <2>1 DEF Unasked
  <2> QED BY <2>1, <2>6, <2>7, ConsentKept
<1> QED BY <1>1, <1>2, <1>3 DEF Fault

(* recover_interrupted: the task is gone, and what it asks for is denied.    *)
LEMMA RecoverConsent ==
  ASSUME TypeInv, CallsInv, ConsentInv, Recover
  PROVE  ConsentInv'
<1>1. /\ UNCHANGED <<task, rpc, pending, mailbox, acked>>
      /\ rpc.pc = "recover" /\ task.pc = "none" /\ pending = NoCall /\ mailbox = "none"
      /\ task.batch = {}
  <2>1. UNCHANGED <<task, rpc, pending, mailbox, acked>> /\ rpc.pc = "recover"
    BY DEF Recover, approval, Quiet, history
  <2>2. task.pc = "none" /\ pending = NoCall
    BY <2>1, HandlerFacts DEF Bound, NoActive
  <2> QED BY <2>1, <2>2 DEF CallsInv, ConsentInv, MailSound
<1>2. PendingSound' /\ MailSound' /\ DecisionSound'
  BY <1>1 DEF PendingSound, MailSound, DecisionSound
<1>3. ASSUME \A x \in Calls : /\ call'[x].resolutions = call[x].resolutions
                              /\ call'[x].owner = call[x].owner
                              /\ call'[x].intent = call[x].intent
                              /\ call'[x].started = call[x].started
      PROVE  ConsentInv'
  <2>1. StartNeedsConsent' /\ \A x \in Calls : Unasked(x)' => Unasked(x)
    BY <1>1, <1>3 DEF ConsentInv, StartNeedsConsent, Unasked
  <2> QED BY <1>1, <1>2, <1>3, <2>1 DEF ConsentInv
<1>4. CASE \E x \in ToAnswer : RecoverApproval(x)
  <2>1. PICK x \in Calls : Unanswered(x) /\ call[x].resolutions = <<>> /\ Resolve(x, "deny")
    BY <1>4 DEF ToAnswer, RecoverApproval
  <2>2. ~Unasked(x)
    BY <1>1, <2>1 DEF Unasked, Unanswered, CallsInv
  <2>3. call[x].started => call[x].intent # "awaiting_approval"
    BY <2>1 DEF ConsentInv, StartNeedsConsent
  <2> QED BY <1>1, <1>2, <2>1, <2>2, <2>3, DecisionConsent DEF Choices, Over
<1>5. CASE \E x \in ToAnswer : RecoverResult(x)
  <2>1. PICK x \in Calls, r \in {"unknown", "not_run"} :
          /\ call[x].results = <<>>
          /\ RecordCall(x, [call[x] EXCEPT !.results = Append(@, r)])
    BY <1>5 DEF ToAnswer, Unanswered, RecoverResult
  <2> QED BY <2>1, <1>3, FirstResult
<1>6. CASE \E x \in ToMessage : RecoverMessage(x)
  <2>1. PICK x \in Calls : \E n : RecordCall(x, [call[x] EXCEPT !.messages = n])
    BY <1>6 DEF ToMessage, RecoverMessage
  <2> QED BY <2>1, <1>3, CallWritten, HandlerFacts DEF CallRecs
<1>7. CASE UNCHANGED call
  BY <1>7, <1>3
<1> QED BY <1>4, <1>5, <1>6, <1>7 DEF Recover, RecoverTerminal, RecoverEnding, RecordRun

(* A handler that has nothing to do with an approval.                        *)
LEMMA HandlerConsent ==
  ASSUME ConsentInv, UNCHANGED <<call, task, pending, mailbox, acked>>,
         rpc.pc \notin {"respond", "deliver", "cancel_resolved", "hung_up"},
         rpc'.pc \notin {"respond", "deliver"},
         rpc.pc \in Closing => rpc'.pc \in Closing
  PROVE  ConsentInv'
<1>1. PendingSound' /\ MailSound' /\ DecisionSound'
  <2>1. PendingSound'
    BY DEF ConsentInv, PendingSound
  <2>2. MailSound'
    BY DEF ConsentInv, MailSound, Allowed
  <2>3. DecisionSound'
    BY DEF DecisionSound
  <2> QED BY <2>1, <2>2, <2>3
<1>2. \A x \in Calls : Unasked(x)' => Unasked(x)
  BY DEF Unasked
<1>3. task'.pc \in Over => task'.batch = {}
  BY DEF ConsentInv
<1> QED BY <1>1, <1>2, <1>3, ConsentKept

(* The handlers of requests and cancellations, and the loss of the client.   *)
LEMMA ServeConsent ==
  ASSUME TypeInv, CallsInv, ConsentInv,
         \/ \E x \in Runs : StartRun(x)
         \/ GetSession \/ AcceptRun \/ ReturnSnapshot \/ LoseClient \/ Restart \/ Disconnect
         \/ CancelRun \/ MarkCancelled \/ CancelApproval \/ DenyPending
         \/ (Fault /\ FaultHandler)
  PROVE  ConsentInv'
<1>1. CASE \/ \E x \in Runs : StartRun(x)
           \/ GetSession \/ AcceptRun \/ ReturnSnapshot \/ LoseClient \/ Restart \/ Disconnect
           \/ CancelRun \/ MarkCancelled
  <2>1. UNCHANGED <<call, task, pending, mailbox, acked>>
    BY <1>1 DEF StartRun, GetSession, AcceptRun, ReturnSnapshot, LoseClient, Restart, Disconnect,
                CancelRun, MarkCancelled, Answering, RecordRun, journal, approval, Quiet, history
  <2>2. /\ rpc.pc \in {"idle", "recover", "down", "shutdown", "cancel_noted"}
        /\ rpc'.pc \in {"recover", "accepted", "idle", "shutdown", "disconnect", "cancel_noted",
                        "cancel_marked"}
        /\ rpc.pc = "shutdown" => rpc'.pc = "disconnect"
    BY <1>1, Replied DEF StartRun, GetSession, AcceptRun, ReturnSnapshot, LoseClient, Restart,
                         Disconnect, CancelRun, MarkCancelled, Handler
  <2> QED BY <2>1, <2>2, HandlerConsent DEF Closing
<1>2. CASE CancelApproval
  <2>1. /\ UNCHANGED <<task, pending, mailbox, acked>>
        /\ rpc.pc = "cancel_marked" /\ rpc'.pc = "cancel_resolved"
    BY <1>2, Replied DEF CancelApproval, approval, Quiet, history
  <2>2. CASE pending = NoCall /\ UNCHANGED journal
    BY <2>1, <2>2, HandlerConsent DEF journal, Closing
  <2>3. CASE pending # NoCall /\ Resolve(pending, "deny")
    <3>1. /\ pending \in Calls /\ ~Unasked(pending) /\ ~call[pending].started /\ mailbox = "none"
          /\ task.pc \in {"announce", "wait"} \cup Over
      BY <2>3, PendingFacts
    <3>2. call[pending].resolutions = <<>>
      BY <2>1, <2>3 DEF ConsentInv, PendingSound, Closing
    <3>3. PendingSound' /\ MailSound' /\ DecisionSound'
      BY <2>1, <2>3, <3>1, Decided DEF ConsentInv, PendingSound, MailSound, DecisionSound, Choices
    <3> QED BY <2>1, <2>3, <3>1, <3>2, <3>3, DecisionConsent DEF Choices, Over
  <2> QED BY <1>2, <2>2, <2>3 DEF CancelApproval
<1>3. CASE DenyPending
  <2>1. UNCHANGED <<task, pending, mailbox, acked>>
    BY <1>3 DEF DenyPending, approval, Quiet, history
  <2>2. CASE Reply("disconnect", "drain") /\ UNCHANGED <<journal, lock>>
    BY <2>1, <2>2, Replied, HandlerConsent DEF journal, Closing
  <2>3. CASE pending # NoCall /\ Reply("disconnect", "hung_up") /\ Resolve(pending, "deny")
    <3>0. rpc.pc = "disconnect" /\ rpc'.pc = "hung_up"
      BY <2>3, Replied
    <3>1. /\ pending \in Calls /\ ~Unasked(pending) /\ ~call[pending].started /\ mailbox = "none"
          /\ task.pc \in {"announce", "wait"} \cup Over
      BY <2>3, PendingFacts
    <3>2. ~EventTaskFails => call[pending].resolutions = <<>>
      BY <3>0, <2>3 DEF ConsentInv, PendingSound
    <3>3. PendingSound' /\ MailSound' /\ DecisionSound'
      BY <2>1, <2>3, <3>0, <3>1, Decided DEF ConsentInv, PendingSound, MailSound, DecisionSound, Choices
    <3> QED BY <2>1, <2>3, <3>1, <3>2, <3>3, DecisionConsent DEF Choices, Over
  <2> QED BY <1>3, <2>2, <2>3 DEF DenyPending
<1>4. CASE Fault /\ FaultHandler
  <2>1. UNCHANGED <<call, task, pending, mailbox, acked>>
    BY <1>4 DEF Fault, FaultHandler, journal, approval, history
  <2>2. \/ rpc.pc \in {"recover", "cancel_marked"} /\ rpc'.pc = "idle"
        \/ rpc.pc = "disconnect" /\ rpc'.pc = "drain"
    BY <1>4, Replied DEF FaultHandler
  <2> QED BY <2>1, <2>2, HandlerConsent DEF Closing
<1> QED BY <1>1, <1>2, <1>3, <1>4

(* Where a decision comes from and where it goes: the client's answer and    *)
(* its delivery, the end of a cancellation, a disconnect or the process.     *)
LEMMA AnswerConsent ==
  ASSUME TypeInv, CallsInv, ConsentInv,
         \/ \E choice \in Choices \cup {"expired"} : RespondApproval(choice)
         \/ TakePending \/ DeliverApproval \/ HangUp \/ FireCancellation
         \/ FailEventTask \/ LaunchRun \/ Exit \/ Crash
  PROVE  ConsentInv'
<1>l. rpc.pc \in {"respond", "cancel_resolved", "hung_up"} => task.pc # "announce"
  BY HandlerFacts, PlacesOfHandler DEF Held, TaskLocked
<1>m. Allowed(task.call) /\ call' = call /\ task' = task /\ acked \subseteq acked'
        => Allowed(task.call)'
  BY DEF Allowed
<1>u. task' = task /\ call' = call => \A x \in Calls : Unasked(x)' => Unasked(x)
  BY DEF Unasked
<1>o. task' = task => (task'.pc \in Over => task'.batch = {})
  BY DEF ConsentInv
<1>1. CASE \E choice \in Choices \cup {"expired"} : RespondApproval(choice)
  <2>1. PICK choice \in Choices \cup {"expired"} : RespondApproval(choice)
    BY <1>1
  <2>2. /\ rpc.pc = "idle" /\ pending # NoCall /\ UNCHANGED <<task, pending, mailbox, acked>>
        /\ Resolve(pending, IF choice = "expired" THEN "deny" ELSE choice)
        /\ rpc'.pc = "respond" /\ rpc'.choice = choice
    BY <2>1 DEF RespondApproval, Handler, approval, Quiet, history
  <2>3. /\ pending \in Calls /\ ~Unasked(pending) /\ ~call[pending].started /\ mailbox = "none"
        /\ task.pc \in {"announce", "wait"} \cup Over
    BY <2>2, PendingFacts
  <2>4. call[pending].resolutions = <<>>
    BY <2>2 DEF ConsentInv, PendingSound, Closing
  <2>5. PICK decision \in Choices :
          Resolve(pending, decision) /\ (choice = "allow_once" => decision = "allow_once")
    BY <2>2 DEF Choices
  <2>6. call'[pending].resolutions = <<decision>> /\ ~call'[pending].started
        /\ call'[pending].owner = call[pending].owner
    BY <2>3, <2>4, <2>5, Decided
  <2>7. PendingSound' /\ MailSound' /\ DecisionSound'
    BY <2>2, <2>3, <2>5, <2>6 DEF ConsentInv, PendingSound, MailSound, DecisionSound
  <2> QED BY <2>2, <2>3, <2>4, <2>5, <2>7, DecisionConsent DEF Over
<1>2. CASE TakePending
  <2>1. /\ rpc.pc = "respond" /\ pending' = NoCall /\ UNCHANGED <<call, task, acked>>
    BY <1>2 DEF TakePending, journal, Quiet, history
  <2>2. /\ pending # NoCall /\ mailbox = "none" /\ task.pc \in {"wait"} \cup Over
        /\ task.pc = "wait" => pending = task.call
        /\ rpc.choice = "allow_once" => call[pending].resolutions = <<"allow_once">>
    BY <2>1, <1>l, PendingFacts DEF ConsentInv, DecisionSound, Over
  <2>3. \/ rpc'.pc = "idle" /\ mailbox' = (IF task.pc = "wait" THEN "deny" ELSE mailbox)
        \/ rpc'.pc = "deliver" /\ rpc'.choice = rpc.choice /\ mailbox' = mailbox
    BY <1>2, HandlerFacts DEF TakePending, Post, Handler, Rpcs
  <2>4. PendingSound' /\ MailSound' /\ DecisionSound'
    BY <2>1, <2>2, <2>3 DEF PendingSound, MailSound, DecisionSound, Over
  <2> QED BY <2>1, <2>4, <1>u, <1>o, ConsentKept
<1>3. CASE DeliverApproval
  <2>1. /\ rpc.pc = "deliver" /\ rpc'.pc \in {"idle", "shutdown"}
        /\ pending' = pending /\ UNCHANGED <<call, task>> /\ acked \subseteq acked'
    BY <1>3, Replied DEF DeliverApproval, journal
  <2>2. pending = NoCall /\ mailbox = "none" /\ task.pc # "announce"
    BY <2>1 DEF ConsentInv, MailSound, DecisionSound, Over
  <2>3. mailbox' = "allow_once" => task.pc = "wait" /\ rpc.choice = "allow_once" /\ theCall \in acked'
    BY <1>3, <2>2 DEF DeliverApproval, Post
  <2>4. mailbox' # "none" => task.pc = "wait"
    BY <1>3, <2>2 DEF DeliverApproval, Post
  <2>5. MailSound'
    BY <2>1, <2>2, <2>3, <2>4 DEF ConsentInv, MailSound, DecisionSound, Allowed, theCall
  <2>6. PendingSound' /\ DecisionSound'
    BY <2>1, <2>2 DEF PendingSound, DecisionSound
  <2> QED BY <2>1, <2>5, <2>6, <1>u, <1>o, ConsentKept
<1>4. CASE HangUp \/ FireCancellation
  <2>1. /\ pending' = NoCall /\ UNCHANGED <<call, task, acked>> /\ task.pc # "announce"
        /\ rpc'.pc \in {"idle", "drain"}
    BY <1>4, <1>l, Replied DEF HangUp, FireCancellation, journal, Quiet, history
  <2>2. \/ mailbox' = mailbox
        \/ mailbox' \in {"deny", "cancellation"} /\ task.pc = "wait"
    BY <1>4 DEF HangUp, FireCancellation, Post
  <2>3. MailSound'
    BY <2>1, <2>2, <1>m DEF ConsentInv, MailSound
  <2>4. PendingSound' /\ DecisionSound'
    BY <2>1 DEF PendingSound, DecisionSound
  <2> QED BY <2>1, <2>3, <2>4, <1>u, <1>o, ConsentKept
<1>5. CASE FailEventTask
  <2>1. /\ rpc'.pc = "shutdown" /\ UNCHANGED <<call, task, acked, pending>> /\ EventTaskFails
    BY <1>5 DEF FailEventTask, Handler, journal, history
  <2>2. \/ mailbox' = mailbox
        \/ mailbox' = "undelivered" /\ task.pc = "wait" /\ rpc.pc = "deliver"
    BY <1>5 DEF FailEventTask, Post
  <2>3. MailSound'
    BY <2>1, <2>2, <1>m DEF ConsentInv, MailSound, DecisionSound
  <2>4. PendingSound' /\ DecisionSound'
    BY <2>1 DEF ConsentInv, PendingSound, DecisionSound, Closing
  <2> QED BY <2>1, <2>3, <2>4, <1>u, <1>o, ConsentKept
<1>6. CASE LaunchRun
  <2>1. /\ rpc.pc = "accepted" /\ rpc'.pc \in {"idle", "shutdown"}
        /\ UNCHANGED <<call, acked, pending, mailbox>>
        /\ task' = task \/ task' = [NoTask EXCEPT !.pc = "turn"]
    BY <1>6, Replied DEF LaunchRun, journal, approval, Quiet, history
  <2>2. task.pc = "none"
    BY <2>1, HandlerFacts DEF Bound
  <2>3. pending = NoCall /\ mailbox = "none"
    BY <2>2 DEF ConsentInv, PendingSound, MailSound, Over
  <2>4. task' = task \/ (task'.pc = "turn" /\ task'.batch = {} /\ task'.call = NoCall)
    BY <2>1 DEF NoTask
  <2>5. PendingSound' /\ MailSound' /\ DecisionSound'
    BY <2>1, <2>2, <2>3, <2>4 DEF PendingSound, MailSound, DecisionSound
  <2>6. (task'.pc \in Over => task'.batch = {}) /\ (task' = task \/ task'.pc # "start")
    BY <2>4, <1>o
  <2>7. \A x \in Calls : Unasked(x)' => Unasked(x)
    BY <2>1, <2>4 DEF Unasked
  <2> QED BY <2>1, <2>5, <2>6, <2>7, ConsentKept
<1>7. CASE Exit \/ Crash
  <2>1. /\ task'.pc = "none" /\ task'.batch = {} /\ task'.call = NoCall
        /\ pending' = NoCall /\ mailbox' = "none" /\ rpc'.pc = "down" /\ UNCHANGED <<call, acked>>
    BY <1>7 DEF Exit, Crash, Die, NoTask, Handler, journal, history
  <2>2. PendingSound' /\ MailSound' /\ DecisionSound'
    BY <2>1 DEF PendingSound, MailSound, DecisionSound
  <2>3. \A x \in Calls : Unasked(x)' => Unasked(x)
    BY <2>1 DEF Unasked
  <2> QED BY <2>1, <2>2, <2>3, ConsentKept
<1> QED BY <1>1, <1>2, <1>3, <1>4, <1>5, <1>6, <1>7

LEMMA ConsentNext ==
  ASSUME TypeInv, CallsInv, ConsentInv, [Next]_vars
  PROVE  ConsentInv'
<1>1. CASE UNCHANGED vars
  <2>1. UNCHANGED <<call, task, pending, mailbox, acked, rpc>>
    BY <1>1 DEF vars
  <2>2. PendingSound' /\ MailSound' /\ DecisionSound'
    <3>1. PendingSound'
      BY <2>1 DEF ConsentInv, PendingSound
    <3>2. MailSound' /\ DecisionSound'
      BY <2>1 DEF ConsentInv, MailSound, DecisionSound, Allowed
    <3> QED BY <3>1, <3>2
  <2>3. \A x \in Calls : Unasked(x)' => Unasked(x)
    BY <2>1 DEF Unasked
  <2>4. task'.pc \in Over => task'.batch = {}
    BY <2>1 DEF ConsentInv
  <2> QED BY <2>1, <2>2, <2>3, <2>4, ConsentKept
<1>2. CASE Task
  BY <1>2, LoopConsent, CallConsent, WaitConsent, EndConsent, Zenon DEF Task, LoopStep
<1>3. CASE Serve \/ Client
  BY <1>3, RecoverConsent, ServeConsent, AnswerConsent, Zenon DEF Serve, Client
<1>4. CASE FailEventTask \/ Crash \/ Restart \/ Fault
  <2>1. Fault => (Fault /\ (FaultTask \/ FaultFinalize)) \/ (Fault /\ FaultHandler)
    BY Zenon DEF Fault
  <2> QED BY <1>4, <2>1, EndConsent, ServeConsent, AnswerConsent
<1> QED BY <1>1, <1>2, <1>3, <1>4 DEF Next

(* Nothing is decided at first.                                              *)
LEMMA ConsentInit == Init => ConsentInv
BY DEF Init, NewCall, NoTask, Handler, ConsentInv, StartNeedsConsent, PendingSound, MailSound,
       DecisionSound, Over

(* Nothing turns into permission but one durable allow_once of the client    *)
(* whose response has been flushed: no timeout, disconnect, cancellation,    *)
(* recovery, lost response, failed append or crash (accept_approval,         *)
(* ApprovalResume, wait_for_approval_resolution).                            *)
THEOREM ConsentBeforeStart == Spec => []StartNeedsConsent
<1>1. Init => TypeInv /\ CallsInv /\ ConsentInv
  BY TypeInit, CallsInit, ConsentInit
<1>2. (TypeInv /\ CallsInv /\ ConsentInv) /\ [Next]_vars => (TypeInv /\ CallsInv /\ ConsentInv)'
  BY TypeNext, CallsNext, ConsentNext
<1>3. ConsentInv => StartNeedsConsent
  BY DEF ConsentInv
<1> QED BY <1>1, <1>2, <1>3, PTL DEF Spec

(* Client, deadline, cancellation, disconnect and recovery compete for the   *)
(* decision of a call, and one of them makes it, while the event task lives  *)
(* as long as the daemon: its death drops the handler that has written a     *)
(* decision before the entry leaves `approvals`.                             *)
THEOREM DecidedOnce ==
  ASSUME ~EventTaskFails
  PROVE  Spec => []ResolvedOnce
<1>1. Init => TypeInv /\ CallsInv /\ ConsentInv
  BY TypeInit, CallsInit, ConsentInit
<1>2. (TypeInv /\ CallsInv /\ ConsentInv) /\ [Next]_vars => (TypeInv /\ CallsInv /\ ConsentInv)'
  BY TypeNext, CallsNext, ConsentNext
<1>3. ConsentInv => ResolvedOnce
  <2>1. Len(<<>>) = 0 /\ 0 <= 1 /\ 1 <= 1
    OBVIOUS
  <2>2. ASSUME ConsentInv, NEW x \in Calls
        PROVE  Len(call[x].resolutions) <= 1
    <3>1. call[x].resolutions = <<>> \/ Len(call[x].resolutions) = 1
      BY <2>2 DEF ConsentInv
    <3> QED BY <2>1, <3>1
  <2> QED BY <2>2 DEF ResolvedOnce
<1> QED BY <1>1, <1>2, <1>3, PTL DEF Spec
-----------------------------------------------------------------------------
\* A call whose result or message is still to be written, and where the task
\* has it in hand.
Open(x) == Unanswered(x) \/ x \in ToMessage
OpenAt  == {"start", "execute", "ask", "announce", "wait", "result", "message"}

(* What is open belongs to a run that has not ended, and if that run is live *)
(* the task has it in hand. A failed append breaks this: the run ends with   *)
(* the call unanswered.                                                      *)
SettledInv ==
  /\ \A x \in Calls : call[x].owner # NoRun => run[call[x].owner].accepted
  /\ \A x \in Calls : call[x].owner # NoRun /\ Open(x) => ~Ended(call[x].owner)
  /\ \A x \in Calls : call[x].owner # NoRun /\ call[x].owner = active.run /\ Open(x) =>
       x = task.call /\ task.pc \in OpenAt

\* A step leaves call x as open or as answered as it was.
AsOpen(x) ==
  /\ call'[x].owner = call[x].owner /\ call'[x].intent = call[x].intent
  /\ call'[x].results = call[x].results /\ call'[x].messages = call[x].messages

LEMMA StaysOpen == \A x \in Calls : AsOpen(x) => (Open(x)' <=> Open(x))
BY DEF AsOpen, Open, Unanswered, ToMessage

(* Steps that open no call but the one the task has in hand.                 *)
LEMMA SettledKept ==
  ASSUME TypeInv, SettledInv,
         \A x \in Runs : run'[x].accepted = run[x].accepted /\ run'[x].terminals = run[x].terminals,
         \A x \in Calls : call'[x].owner = call[x].owner,
         \A x \in Calls : Open(x)' =>
           \/ Open(x)
           \/ /\ call[x].owner = active.run /\ ~Ended(active.run)
              /\ x = task'.call /\ task'.pc \in OpenAt,
         active'.run \in {active.run, NoRun},
         \/ task' = task
         \/ task'.call = task.call /\ task'.pc \in OpenAt
         \/ \A x \in Calls : call[x].owner # NoRun /\ call[x].owner = active.run => ~Open(x)'
  PROVE  SettledInv'
<1>1. \A x \in Calls : call[x].owner \in Runs \cup {NoRun}
  BY HandlerFacts DEF CallRecs
<1>2. (\A x \in Calls : call[x].owner # NoRun => run[call[x].owner].accepted)'
  BY <1>1 DEF SettledInv
<1>3. (\A x \in Calls : call[x].owner # NoRun /\ Open(x) => ~Ended(call[x].owner))'
  BY <1>1 DEF SettledInv, Ended
<1>4. (\A x \in Calls : call[x].owner # NoRun /\ call[x].owner = active.run /\ Open(x) =>
         x = task.call /\ task.pc \in OpenAt)'
  BY DEF SettledInv
<1> QED BY <1>2, <1>3, <1>4 DEF SettledInv

(* The steps of a call from its intent to its result.                        *)
LEMMA CallSettled ==
  ASSUME TypeInv, EndsInv, CallsInv, SettledInv,
         \/ WriteIntent \/ StartTool \/ Execute \/ AskApproval \/ AnnounceApproval
         \/ TakeAnswer \/ ApprovalTimeout \/ WriteResult
  PROVE  SettledInv'
<1>1. /\ task.pc \in {"intent", "intent_cancelled", "start", "execute", "ask", "announce",
                      "wait", "result"}
      /\ task'.pc \in OpenAt /\ task'.call = task.call
  <2>1. StartTool => Refuse("start", TRUE) \/ Step("start", "execute")
    BY Zenon DEF StartTool
  <2>2. Execute => Refuse("execute", TRUE) \/ Step("execute", "result")
    BY Zenon DEF Execute
  <2>3. AskApproval => Refuse("ask", TRUE) \/ Step("ask", "announce")
    BY Zenon DEF AskApproval
  <2>4. WriteResult => Step("result", "message")
    BY Zenon DEF WriteResult
  <2>5. CASE StartTool
    BY <2>1, <2>5, Moved DEF OpenAt
  <2>6. CASE Execute
    BY <2>2, <2>6, Moved DEF OpenAt
  <2>7. CASE AskApproval
    BY <2>3, <2>7, Moved DEF OpenAt
  <2>8. CASE WriteResult
    BY <2>4, <2>8, Moved DEF OpenAt
  <2> QED BY <2>5, <2>6, <2>7, <2>8, CallMoves DEF OpenAt
<1>2. /\ theCall \in Calls /\ theCall = task.call /\ active.run \in Runs
      /\ call[theCall].owner = active.run /\ call[theCall] \in CallRecs
  BY <1>1, OwnCall, CallPlaces DEF CallsInv
<1>3. ~Ended(active.run)
  BY <1>1, TaskFacts DEF EndsInv, Working, Ended
<1>4. UNCHANGED <<run, active>>
  BY DEF WriteIntent, StartTool, Execute, AskApproval, AnnounceApproval, TakeAnswer,
         ApprovalTimeout, WriteResult, RecordCall, Resolve, journal
<1>5. \/ UNCHANGED call
      \/ \E f : RecordCall(theCall, [call[theCall] EXCEPT !.intent = f])
      \/ \E f : RecordCall(theCall, [call[theCall] EXCEPT !.started = f])
      \/ \E f : RecordCall(theCall, [call[theCall] EXCEPT !.asked = f])
      \/ \E f : RecordCall(theCall, [call[theCall] EXCEPT !.results = f])
      \/ Resolve(theCall, "deny")
  <2>1. WriteIntent => \E f : RecordCall(theCall, [call[theCall] EXCEPT !.intent = f])
    BY DEF WriteIntent
  <2>2. StartTool => UNCHANGED call \/ \E f : RecordCall(theCall, [call[theCall] EXCEPT !.started = f])
    BY DEF StartTool, journal
  <2>3. AskApproval => UNCHANGED call \/ \E f : RecordCall(theCall, [call[theCall] EXCEPT !.asked = f])
    BY DEF AskApproval, journal
  <2>4. WriteResult => \E f : RecordCall(theCall, [call[theCall] EXCEPT !.results = f])
    BY DEF WriteResult
  <2>5. AnnounceApproval \/ ApprovalTimeout => UNCHANGED call \/ Resolve(theCall, "deny")
    BY DEF AnnounceApproval, ApprovalTimeout, journal
  <2>6. Execute \/ TakeAnswer => UNCHANGED call
    BY DEF Execute, TakeAnswer
  <2> QED BY <2>1, <2>2, <2>3, <2>4, <2>5, <2>6
<1>6. call'[theCall].owner = call[theCall].owner /\ \A y \in Calls \ {theCall} : call'[y] = call[y]
  <2>1. ASSUME NEW rec, RecordCall(theCall, rec), rec.owner = call[theCall].owner
        PROVE  call'[theCall].owner = call[theCall].owner /\ \A y \in Calls \ {theCall} : call'[y] = call[y]
    BY <1>2, <2>1, CallWritten
  <2>2. \A f : /\ [call[theCall] EXCEPT !.intent = f].owner = call[theCall].owner
               /\ [call[theCall] EXCEPT !.started = f].owner = call[theCall].owner
               /\ [call[theCall] EXCEPT !.asked = f].owner = call[theCall].owner
               /\ [call[theCall] EXCEPT !.results = f].owner = call[theCall].owner
    BY <1>2 DEF CallRecs
  <2>3. "deny" \in Choices
    BY DEF Choices
  <2>4. Resolve(theCall, "deny") =>
          call'[theCall].owner = call[theCall].owner /\ \A y \in Calls \ {theCall} : call'[y] = call[y]
    BY <1>2, <2>3, Decided
  <2> QED BY <1>5, <2>1, <2>2, <2>4
<1>7. \A y \in Calls \ {theCall} : Open(y)' <=> Open(y)
  BY <1>6, StaysOpen DEF AsOpen
<1> QED BY <1>1, <1>2, <1>3, <1>4, <1>6, <1>7, SettledKept

(* The other steps of the task: before an intent and after a message nothing *)
(* of the live run is open.                                                  *)
LEMMA TaskSettled ==
  ASSUME MaxFaults = 0, TypeInv, EndsInv, CallsInv, SettledInv, Task
  PROVE  SettledInv'
<1>r. /\ \A x \in Calls : call[x] \in CallRecs
      /\ \A x \in Runs : run[x] \in RunRecs
      /\ active.run \in Runs \cup {NoRun}
  BY HandlerFacts
<1>o. ASSUME task.pc \notin OpenAt
      PROVE  \A x \in Calls : call[x].owner # NoRun /\ call[x].owner = active.run => ~Open(x)
  BY <1>o DEF SettledInv
<1>1. CASE LoopStep
  <2>1. LoopEffect
    BY <1>1, LoopFrame
  <2>2. CASE WriteMessage
    <3>0. task.pc = "message" /\ theCall \in Calls /\ theCall = task.call
          /\ RecordCall(theCall, [call[theCall] EXCEPT !.messages = @ + 1])
      BY <2>2, Moved, OwnCall DEF WriteMessage
    <3>1. PICK c \in Calls : /\ task.pc = "message" /\ c = task.call
                             /\ RecordCall(c, [call[c] EXCEPT !.messages = @ + 1])
      BY <3>0
    <3>2. Len(call[c].results) = 1 /\ call[c].messages = 0
      BY <3>1 DEF CallsInv
    <3>3. call[c].results # <<>>
      <4>1. Len(<<>>) = 0 /\ 0 # 1
        OBVIOUS
      <4> QED BY <3>2, <4>1
    <3>4. /\ call'[c].messages = 1 /\ call'[c].results = call[c].results
          /\ call'[c].owner = call[c].owner
          /\ \A y \in Calls \ {c} : call'[y] = call[y]
      BY <1>r, <3>1, <3>2, CallWritten DEF CallRecs
    <3>5. ~Open(c)'
      BY <3>3, <3>4 DEF Open, Unanswered, ToMessage
    <3>6. \A y \in Calls \ {c} : Open(y)' <=> Open(y)
      BY <3>4, StaysOpen DEF AsOpen
    <3>7. \A x \in Calls : call[x].owner # NoRun /\ call[x].owner = active.run => ~Open(x)'
      BY <3>1, <3>5, <3>6 DEF SettledInv
    <3> QED BY <2>1, <3>4, <3>5, <3>6, <3>7, SettledKept DEF LoopEffect
  <2>3. CASE ~WriteMessage
    <3>1. task.pc \notin OpenAt
      <4>1. \E from \in {"turn", "attempt", "backoff", "stream", "drain", "next", "complete", "close"} :
              task.pc = from
        BY <1>1, <2>3, Moved, Zenon
           DEF LoopStep, BeginTurn, StartProvider, Backoff, ConsumeStream, DrainCompletion, NextCall,
               CompleteCall, CloseBatch
      <4> QED BY <4>1 DEF OpenAt
    <3>2. CASE \A x \in Calls : SameCall(x)
      <4>1. \A x \in Calls : AsOpen(x)
        BY <3>2, <2>1 DEF LoopEffect, SameCall, AsOpen
      <4>2. \A x \in Calls : Open(x)' <=> Open(x)
        BY <4>1, StaysOpen
      <4>3. \A x \in Calls : call[x].owner # NoRun /\ call[x].owner = active.run => ~Open(x)'
        BY <1>o, <3>1, <4>2
      <4> QED BY <2>1, <3>2, <4>2, <4>3, SettledKept DEF LoopEffect, SameCall
    <3>3. ASSUME NEW batch \in SUBSET {x \in Calls : call[x].owner = NoRun},
                 call' = [x \in Calls |-> IF x \in batch THEN [call[x] EXCEPT !.owner = theRun]
                                                         ELSE call[x]]
          PROVE  SettledInv'
      <4>1. \A x \in batch : ~Open(x)'
        <5>1. \A x \in batch : x \in Calls /\ Fresh(x) /\ call[x].intent = "none"
          BY <3>3 DEF CallsInv
        <5>2. \A x \in batch : call'[x].intent = "none" /\ call'[x].results = <<>>
          BY <1>r, <3>3, <5>1 DEF CallRecs, Fresh
        <5> QED BY <5>2 DEF Open, Unanswered, ToMessage
      <4>2. /\ \A x \in Calls \ batch : call'[x] = call[x]
            /\ \A x \in batch : call'[x].owner = active.run
        BY <1>r, <3>3 DEF CallRecs, theRun
      <4>3. \A x \in Calls \ batch : Open(x)' <=> Open(x)
        BY <4>2, StaysOpen DEF AsOpen
      <4>4. run[active.run].accepted
        <5>1. task.pc # "none"
          BY <2>1 DEF LoopEffect
        <5> QED BY <5>1, TaskFacts, NullAssumption DEF EndsInv
      <4>5. UNCHANGED <<run, active>>
        BY <2>1 DEF LoopEffect
      <4> QED BY <1>o, <3>1, <4>1, <4>2, <4>3, <4>4, <4>5 DEF SettledInv, Ended
    <3>4. CallWork \/ \A x \in Calls : SameCall(x)
      BY TaskNarrows
    <3>5. CASE NextCall
      <4>1. \A x \in Calls : SameCall(x)
        BY <3>5 DEF NextCall, Alone, SameCall
      <4> QED BY <4>1, <3>2
    <3>6. ~WriteResult /\ ~StartTool
      <4>1. ~WriteResult
        BY <2>1, Moved DEF WriteResult, LoopEffect, Deciding
      <4>2. StartTool => Refuse("start", TRUE) \/ Step("start", "execute")
        BY Zenon DEF StartTool
      <4> QED BY <2>1, <4>1, <4>2, Moved DEF LoopEffect, Deciding
    <3> QED BY <2>3, <3>2, <3>3, <3>4, <3>5, <3>6 DEF CallWork
  <2> QED BY <2>2, <2>3
<1>2. CASE Finalize
  <2>1. task.pc = "finalize" /\ task'.pc = "ending" /\ UNCHANGED <<active, call>>
    BY <1>2, Moved DEF Finalize, RecordRun
  <2>2. \A x \in Calls : call[x].owner # NoRun /\ call[x].owner = active.run => ~Open(x)
    BY <2>1, <1>o DEF OpenAt
  <2>3. theRun \in Runs /\ theRun = active.run
    BY <2>1, TaskFacts DEF theRun
  <2>4. /\ \A x \in Runs : run'[x].accepted = run[x].accepted
        /\ \A x \in Runs \ {active.run} : run'[x] = run[x]
    BY <1>2, <1>r, <2>3, HandlerFacts DEF Finalize, RecordRun, JournalOK, RunRecs
  <2>5. \A x \in Calls : Open(x)' <=> Open(x)
    BY <2>1, StaysOpen DEF AsOpen
  <2>6. \A x \in Calls : call[x].owner \in Runs \cup {NoRun}
    BY <1>r DEF CallRecs
  <2> QED BY <2>1, <2>2, <2>4, <2>5, <2>6 DEF SettledInv, Ended
<1>3. CASE EmitEnding \/ Retire
  <2>1. task.pc \in {"ending", "retire"} /\ UNCHANGED call /\ active'.run \in {active.run, NoRun}
    BY <1>3, Moved, HandlerFacts DEF EmitEnding, Retire, RecordRun, journal, NoActive, LiveOK, Lives
  <2>2. \A x \in Runs : run'[x].accepted = run[x].accepted /\ run'[x].terminals = run[x].terminals
    <3>1. theRun \in Runs
      BY <2>1, TaskFacts DEF theRun
    <3>2. CASE EmitEnding
      <4>1. PICK f : run' = [run EXCEPT ![theRun] = [run[theRun] EXCEPT !.endings = f]]
        BY <3>2 DEF EmitEnding, RecordRun
      <4>2. /\ run'[theRun] = [run[theRun] EXCEPT !.endings = f]
            /\ \A x \in Runs \ {theRun} : run'[x] = run[x]
        BY <3>1, <4>1, HandlerFacts DEF JournalOK
      <4> QED BY <1>r, <3>1, <4>2 DEF RunRecs
    <3>3. CASE Retire
      BY <3>3 DEF Retire, journal
    <3> QED BY <1>3, <3>2, <3>3
  <2>3. \A x \in Calls : Open(x)' <=> Open(x)
    BY <2>1, StaysOpen DEF AsOpen
  <2>4. \A x \in Calls : call[x].owner # NoRun /\ call[x].owner = active.run => ~Open(x)'
    BY <1>o, <2>1, <2>3 DEF OpenAt
  <2> QED BY <2>1, <2>2, <2>3, <2>4, SettledKept
<1> QED BY <1>1, <1>2, <1>3, CallSettled, Zenon DEF Task, LoopStep

(* Who else writes to the journal of a call: a handler decides the pending   *)
(* one, or recovery denies, answers or reports what a lost task left open.   *)
LEMMA OtherWriters ==
  ASSUME TypeInv, Serve \/ Client \/ FailEventTask \/ Crash \/ Restart \/ (Fault /\ FaultHandler)
  PROVE  \/ UNCHANGED call
         \/ pending # NoCall /\ \E choice \in Choices : Resolve(pending, choice)
         \/ /\ Recover /\ UNCHANGED run
            /\ \E x \in Calls :
                 /\ Open(x)
                 /\ \A y \in Calls \ {x} : call'[y] = call[y]
                 /\ call'[x].owner = call[x].owner /\ call'[x].intent = call[x].intent
<1>1. CASE Recover
  <2>1. CASE \E x \in ToAnswer : RecoverApproval(x)
    <3>1. PICK x \in Calls : Open(x) /\ Resolve(x, "deny")
      BY <2>1 DEF ToAnswer, RecoverApproval, Open
    <3> QED BY <1>1, <3>1, Decided DEF Choices
  <2>2. CASE \E x \in ToAnswer : RecoverResult(x)
    <3>1. PICK x \in Calls : \E r : Open(x) /\ RecordCall(x, [call[x] EXCEPT !.results = r])
      BY <2>2 DEF ToAnswer, RecoverResult, Open
    <3> QED BY <1>1, <3>1, CallWritten, HandlerFacts DEF CallRecs, RecordCall
  <2>3. CASE \E x \in ToMessage : RecoverMessage(x)
    <3>1. PICK x \in Calls : \E n : Open(x) /\ RecordCall(x, [call[x] EXCEPT !.messages = n])
      BY <2>3 DEF ToMessage, RecoverMessage, Open
    <3> QED BY <1>1, <3>1, CallWritten, HandlerFacts DEF CallRecs, RecordCall
  <2>4. CASE UNCHANGED call
    BY <2>4
  <2> QED BY <1>1, <2>1, <2>2, <2>3, <2>4 DEF Recover, RecoverTerminal, RecoverEnding, RecordRun
<1>2. CASE \E choice \in Choices \cup {"expired"} : RespondApproval(choice)
  BY <1>2 DEF RespondApproval, Choices
<1>3. CASE CancelApproval \/ DenyPending
  BY <1>3 DEF CancelApproval, DenyPending, Choices, journal
<1>4. CASE \/ AcceptRun \/ ReturnSnapshot \/ LaunchRun \/ TakePending \/ DeliverApproval
           \/ MarkCancelled \/ FireCancellation \/ Disconnect \/ HangUp \/ Exit
           \/ (\E x \in Runs : StartRun(x)) \/ GetSession \/ CancelRun \/ LoseClient
           \/ FailEventTask \/ Crash \/ Restart \/ FaultHandler
  BY <1>4 DEF AcceptRun, ReturnSnapshot, LaunchRun, TakePending, DeliverApproval,
              MarkCancelled, FireCancellation, Disconnect, HangUp, Exit, Die,
              StartRun, GetSession, CancelRun, LoseClient, FailEventTask, Crash, Restart,
              FaultHandler, Answering, RecordRun, journal
<1> QED BY <1>1, <1>2, <1>3, <1>4 DEF Serve, Client

LEMMA SettledNext ==
  ASSUME MaxFaults = 0, TypeInv, EndsInv, CallsInv, SettledInv, [Next]_vars
  PROVE  SettledInv'
<1>r. /\ \A x \in Calls : call[x] \in CallRecs /\ call[x].owner \in Runs \cup {NoRun}
      /\ \A x \in Runs : run[x] \in RunRecs
      /\ active.run \in Runs \cup {NoRun}
  BY HandlerFacts DEF CallRecs
<1>o. ASSUME task.pc = "none"
      PROVE  \A x \in Calls : call[x].owner # NoRun /\ call[x].owner = active.run => ~Open(x)
  BY <1>o DEF SettledInv, OpenAt
<1>f. ~Fault
  BY HandlerFacts, BoundAssumption DEF Fault, HistoryOK
<1>1. CASE UNCHANGED vars
  <2>1. UNCHANGED <<run, call, active, task>>
    BY <1>1 DEF vars
  <2>2. \A x \in Calls : Open(x)' <=> Open(x)
    BY <2>1, StaysOpen DEF AsOpen
  <2> QED BY <2>1, <2>2, SettledKept
<1>2. CASE Task
  BY <1>2, TaskSettled
<1>3. CASE (Serve \/ Client \/ FailEventTask \/ Crash \/ Restart) /\ ~Recover
  <2>1. UNCHANGED call \/ (pending # NoCall /\ \E choice \in Choices : Resolve(pending, choice))
    BY <1>3, OtherWriters
  <2>2. \A x \in Calls : AsOpen(x)
    <3>1. pending # NoCall => pending \in Calls
      BY HandlerFacts DEF MailOK
    <3> QED BY <2>1, <3>1, Decided DEF AsOpen
  <2>3. /\ \A x \in Calls : call'[x].owner = call[x].owner
        /\ \A x \in Calls : Open(x)' <=> Open(x)
    BY <2>2, StaysOpen DEF AsOpen
  <2>4. CASE Serving
    BY <2>3, <2>4, ServingFrame, SettledKept
  <2>5. CASE AcceptRun
    <3>1. /\ rpc.run \in Runs /\ rpc.run # NoRun /\ rpc.pc = "recover"
          /\ RecordRun(rpc.run, [run[rpc.run] EXCEPT !.accepted = TRUE])
          /\ active'.run = rpc.run
      BY <2>5, HandlerFacts DEF AcceptRun, Rpcs, NoActive
    <3>2. /\ \A x \in Runs \ {rpc.run} : run'[x] = run[x]
          /\ run'[rpc.run].accepted /\ run'[rpc.run].terminals = run[rpc.run].terminals
      BY <1>r, <3>1, HandlerFacts DEF RecordRun, JournalOK, RunRecs
    <3>3. ~run[rpc.run].accepted
      BY <3>1 DEF EndsInv
    <3>4. \A x \in Calls : call[x].owner # rpc.run
      BY <3>1, <3>3 DEF SettledInv
    <3> QED BY <1>r, <2>3, <3>1, <3>2, <3>4 DEF SettledInv, Ended
  <2>6. CASE LaunchRun
    <3>1. UNCHANGED <<run, active>> /\ rpc.pc = "accepted"
      BY <2>6, Replied DEF LaunchRun, journal
    <3>2. task.pc = "none"
      BY <3>1, HandlerFacts DEF Bound
    <3> QED BY <1>o, <2>3, <3>1, <3>2, SettledKept
  <2>7. CASE (\E x \in Runs : StartRun(x)) \/ GetSession
    <3>1. UNCHANGED <<run, active, task>>
      BY <2>7 DEF StartRun, GetSession, Answering, journal
    <3> QED BY <2>3, <3>1, SettledKept
  <2>8. CASE Exit \/ Crash
    <3>1. UNCHANGED run /\ active'.run = NoRun
      BY <2>8 DEF Exit, Crash, Die, NoActive, journal
    <3> QED BY <1>r, <2>3, <3>1 DEF SettledInv, Ended
  <2> QED BY <1>3, <2>4, <2>5, <2>6, <2>7, <2>8 DEF Serve, Client, Serving
<1>4. CASE Recover
  <2>1. /\ UNCHANGED <<active, task>> /\ active.run = NoRun
    BY <1>4, HandlerFacts DEF Recover, Bound, NoActive
  <2>2. CASE UNCHANGED run
    <3>1. \A x \in Calls : call'[x].owner = call[x].owner /\ (Open(x)' => Open(x))
      <4>1. CASE UNCHANGED call
        BY <4>1, StaysOpen DEF AsOpen
      <4>2. CASE pending # NoCall
        BY <4>2, <2>1, HandlerFacts
      <4>3. ASSUME NEW x \in Calls, Open(x), \A y \in Calls \ {x} : call'[y] = call[y],
                   call'[x].owner = call[x].owner
            PROVE  \A y \in Calls : call'[y].owner = call[y].owner /\ (Open(y)' => Open(y))
        BY <4>3, StaysOpen DEF AsOpen
      <4> QED BY <1>4, <4>1, <4>2, <4>3, OtherWriters DEF Serve
    <3> QED BY <2>1, <2>2, <3>1, SettledKept
  <2>3. CASE ~UNCHANGED run
    <3>1. /\ UNCHANGED call /\ ToAnswer \cup ToMessage = {}
          /\ \E x \in Runs : \E f : \/ RecordRun(x, [run[x] EXCEPT !.terminals = f])
                                     \/ RecordRun(x, [run[x] EXCEPT !.endings = f])
      BY <1>4, <2>3 DEF Recover, RecoverApproval, RecoverResult, RecoverMessage, RecoverTerminal,
                        RecoverEnding, Resolve, RecordCall, RecordRun, ToEnd, ToEmit
    <3>2. \A x \in Calls : ~Open(x)
      BY <3>1 DEF Open, ToAnswer
    <3>3. \A x \in Runs : run'[x].accepted = run[x].accepted
      BY <3>1, EndKeepsCancels
    <3>4. \A x \in Calls : ~Open(x)'
      BY <3>1, <3>2, StaysOpen DEF AsOpen
    <3> QED BY <1>r, <3>1, <3>3, <3>4 DEF SettledInv
  <2> QED BY <2>2, <2>3
<1> QED BY <1>f, <1>1, <1>2, <1>3, <1>4 DEF Next

(* Nothing is open at first.                                                 *)
LEMMA SettledInit == Init => SettledInv
BY DEF Init, NewCall, SettledInv

(* When no append fails, every intent of a run has its result before the     *)
(* run's terminal record, whether execute_tool_call or recover_interrupted   *)
(* got to write it.                                                          *)
THEOREM AnsweredBeforeEnd ==
  ASSUME MaxFaults = 0
  PROVE  Spec => []EndsAnswered
<1>1. Init => TypeInv /\ EndsInv /\ CallsInv /\ SettledInv
  BY TypeInit, EndsInit, CallsInit, SettledInit
<1>2. (TypeInv /\ EndsInv /\ CallsInv /\ SettledInv) /\ [Next]_vars
        => (TypeInv /\ EndsInv /\ CallsInv /\ SettledInv)'
  BY TypeNext, EndsNext, CallsNext, SettledNext
<1>3. SettledInv => EndsAnswered
  BY DEF SettledInv, EndsAnswered, Open
<1> QED BY <1>1, <1>2, <1>3, PTL DEF Spec

(* Both halves: a call is decided once, and answered before its run ends.    *)
THEOREM CallsAreSettled ==
  ASSUME ~EventTaskFails, MaxFaults = 0
  PROVE  Spec => []CallsSettled
<1>1. Spec => []ResolvedOnce
  BY DecidedOnce
<1>2. Spec => []EndsAnswered
  BY AnsweredBeforeEnd
<1> QED BY <1>1, <1>2, PTL DEF CallsSettled

(* A task that has a call in hand has not ended its run.                     *)
LEMMA HandedOpen ==
  ASSUME TypeInv, EndsInv, CallsInv, task.pc \in CallSteps
  PROVE  /\ task.call \in Calls /\ call[task.call].owner \in Runs
         /\ run[call[task.call].owner].endings = <<>>
<1>1. task.pc \in Working
  BY TaskFacts DEF Working, CallSteps
<1>2. call[task.call].owner = active.run /\ active.run \in Runs /\ task.call \in Calls
  BY TaskFacts DEF CallsInv, CallSteps, theCall
<1> QED BY <1>1, <1>2 DEF EndsInv, RunSound

(* Whoever writes to the journal of a call does so before its run is over.   *)
LEMMA QuietAfterEnding ==
  ASSUME MaxFaults = 0, TypeInv, EndsInv, CallsInv, ConsentInv, SettledInv, [Next]_vars,
         NEW x \in Calls, call'[x] # call[x], call[x].owner # NoRun
  PROVE  run[call[x].owner].endings = <<>>
<1>w. task.pc \in CallSteps => theCall \in Calls
  BY TaskFacts
<1>f. ~Fault
  BY HandlerFacts, BoundAssumption DEF Fault, HistoryOK
<1>u. call' # call
  OBVIOUS
<1>1. CASE Task
  <2>1. task.pc \in CallSteps /\ \E rec : RecordCall(theCall, rec)
    <3>1. ASSUME NEW batch \in SUBSET {y \in Calls : call[y].owner = NoRun},
                 call' = [y \in Calls |-> IF y \in batch THEN [call[y] EXCEPT !.owner = theRun]
                                                         ELSE call[y]]
          PROVE  FALSE
      BY <3>1
    <3>2. \/ WriteIntent \/ StartTool \/ AskApproval \/ AnnounceApproval \/ ApprovalTimeout
          \/ WriteResult \/ WriteMessage
      BY <1>1, <1>u, <3>1
         DEF Task, BeginTurn, StartProvider, Backoff, ConsumeStream, DrainCompletion, NextCall,
             Execute, TakeAnswer, CompleteCall, CloseBatch, Finalize, EmitEnding, Retire, Alone,
             RecordRun, journal
    <3>3. CASE WriteIntent \/ AnnounceApproval \/ ApprovalTimeout
      <4>1. \E rec : RecordCall(theCall, rec)
        BY <3>3, <1>u DEF WriteIntent, AnnounceApproval, ApprovalTimeout, Resolve, journal
      <4> QED BY <3>3, <4>1, CallMoves DEF CallSteps
    <3>4. CASE StartTool \/ AskApproval
      <4>1. /\ Step("start", "execute") \/ Step("ask", "announce")
            /\ \E rec : RecordCall(theCall, rec)
        BY <3>4, <1>u DEF StartTool, AskApproval, journal
      <4> QED BY <4>1, Moved DEF CallSteps
    <3>5. CASE WriteResult \/ WriteMessage
      <4>1. /\ Step("result", "message") \/ Step("message", "complete")
            /\ \E rec : RecordCall(theCall, rec)
        BY <3>5 DEF WriteResult, WriteMessage
      <4> QED BY <4>1, Moved DEF CallSteps
    <3> QED BY <3>2, <3>3, <3>4, <3>5
  <2>2. x = theCall
    BY <1>w, <2>1, CallWritten
  <2> QED BY <2>1, <2>2, HandedOpen DEF theCall
<1>2. CASE pending # NoCall /\ \E choice \in Choices : Resolve(pending, choice)
  <2>1. pending \in Calls /\ x = pending
    BY <1>2, HandlerFacts, Decided DEF MailOK
  <2>2. task.pc \in {"announce", "wait"} /\ pending = task.call
    BY <1>2 DEF ConsentInv, PendingSound
  <2> QED BY <2>1, <2>2, HandedOpen DEF CallSteps
<1>3. ASSUME NEW y \in Calls, Open(y), \A z \in Calls \ {y} : call'[z] = call[z]
      PROVE  run[call[x].owner].endings = <<>>
  <2>1. x = y
    BY <1>3
  <2>2. call[x].owner \in Runs /\ ~Ended(call[x].owner)
    BY <1>3, <2>1, HandlerFacts DEF SettledInv, CallRecs
  <2> QED BY <2>2 DEF EndsInv, RunSound, Ended
<1>4. CASE Serve \/ Client \/ FailEventTask \/ Crash \/ Restart
  BY <1>4, <1>u, <1>2, <1>3, OtherWriters
<1> QED BY <1>f, <1>u, <1>1, <1>4 DEF Next, vars

(* When no append fails, the terminal event of a run is the last thing the   *)
(* session says of it: no call of the run starts, is asked for, is decided   *)
(* or is answered afterwards, by the task, by a late handler or by recovery. *)
THEOREM NothingAfterEnding ==
  ASSUME MaxFaults = 0
  PROVE  Spec => EndingIsLast
<1>1. Init => TypeInv /\ EndsInv /\ CallsInv /\ ConsentInv /\ SettledInv
  BY TypeInit, EndsInit, CallsInit, ConsentInit, SettledInit
<1>2. (TypeInv /\ EndsInv /\ CallsInv /\ ConsentInv /\ SettledInv) /\ [Next]_vars
        => (TypeInv /\ EndsInv /\ CallsInv /\ ConsentInv /\ SettledInv)'
  BY TypeNext, EndsNext, CallsNext, ConsentNext, SettledNext
<1>3. (TypeInv /\ EndsInv /\ CallsInv /\ ConsentInv /\ SettledInv) /\ [Next]_vars
        => \A x \in Calls : call'[x] # call[x] /\ call[x].owner # NoRun =>
             run[call[x].owner].endings = <<>>
  BY QuietAfterEnding
<1> QED BY <1>1, <1>2, <1>3, PTL DEF Spec, EndingIsLast
=============================================================================
