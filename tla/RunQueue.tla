------------------------------ MODULE RunQueue ------------------------------
(***************************************************************************)
(* Steering and follow-up input of one run: run/steer and run/followUp     *)
(* (Agent::enqueue, rust/src/agent.rs) append to a queue while the agent   *)
(* task drains it at the boundaries of its turns.  RunControl.queues is    *)
(* one mutex; every durable append inside it is an await point at which    *)
(* the daemon can die or, in a handler, the future can be dropped.         *)
(***************************************************************************)
EXTENDS Naturals, Sequences, SequencesExt, FiniteSets

CONSTANTS
  Items,        \* queue item IDs, one per request
  NoItem,
  MaxQueued,    \* MAX_QUEUED_INPUTS
  MaxTurns,     \* MAX_TOOL_TURNS
  MaxFaults     \* bound on the journal appends of the task that fail

ASSUME ItemAssumption == NoItem \notin Items
ASSUME LimitAssumption == MaxQueued \in Nat \ {0} /\ MaxTurns \in Nat \ {0} /\ MaxFaults \in Nat

VARIABLES
  appended,  \* journal: queue.appended, per queue, in order
  consumed,  \* journal: queue.consumed, the batches in order
  injected,  \* journal: the user messages made of queued input, in order
  queue,     \* RunQueues.steering and follow_up
  accepting, \* RunQueues.accepting
  cancelled, \* the cancellation token
  lock,      \* who holds RunControl.queues
  task,      \* the agent task
  rpc,       \* the handler of the protocol loop
  acked,     \* history: items whose response was written
  faults

queueJournal == <<appended, consumed, injected>>
queueVars == <<appended, consumed, injected, queue, accepting, cancelled, lock, task, rpc,
               acked, faults>>

Kinds == {"steering", "follow_up"}

Handler(p) == [pc |-> p, item |-> NoItem, kind |-> "none"]
\* batch: items selected and not yet injected; taken: how many were selected.
NewTask == [pc |-> "turn", turns |-> 0, kind |-> "none", batch |-> <<>>, taken |-> 0,
            outcome |-> "none"]

QueueInit ==
  /\ appended = [k \in Kinds |-> <<>>] /\ consumed = <<>> /\ injected = <<>>
  /\ queue = [k \in Kinds |-> <<>>] /\ accepting = TRUE /\ cancelled = FALSE
  /\ lock = "free" /\ task = NewTask /\ rpc = Handler("idle")
  /\ acked = {} /\ faults = 0

-----------------------------------------------------------------------------
\* The ID of an item is made up for the request.
Unused == {i \in Items : \A k \in Kinds : i \notin ToSet(appended[k])}

(* run/steer, run/followUp: under the lock, only while the run accepts input *)
(* and the queue has room; durable first, then in memory, then the response. *)
Enqueue(k) ==
  /\ rpc.pc = "idle" /\ lock = "free" /\ accepting
  /\ Unused # {}
  /\ Len(queue[k]) < MaxQueued
  /\ LET i == CHOOSE x \in Unused : TRUE
     IN  /\ appended' = [appended EXCEPT ![k] = Append(@, i)]
         /\ rpc' = [pc |-> "push", item |-> i, kind |-> k]
  /\ lock' = "rpc"
  /\ UNCHANGED <<consumed, injected, queue, accepting, cancelled, task, acked, faults>>

PushItem ==
  /\ rpc.pc = "push"
  /\ queue' = [queue EXCEPT ![rpc.kind] = Append(@, rpc.item)]
  /\ lock' = "free"
  /\ rpc' = [rpc EXCEPT !.pc = "respond"]
  /\ UNCHANGED <<queueJournal, accepting, cancelled, task, acked, faults>>

Respond ==
  /\ rpc.pc = "respond"
  /\ \/ rpc' = Handler("idle") /\ acked' = acked \cup {rpc.item}
     \/ rpc' = Handler("gone") /\ UNCHANGED acked
  /\ UNCHANGED <<queueJournal, queue, accepting, cancelled, lock, task, faults>>

(* The event task fails and the handler is dropped where it stands. *)
DropHandler ==
  /\ rpc.pc # "gone"
  /\ rpc' = Handler("gone")
  /\ lock' = IF lock = "rpc" THEN "free" ELSE lock
  /\ UNCHANGED <<queueJournal, queue, accepting, cancelled, task, acked, faults>>

(* run/cancel: the durable request under the lock, then no more input; the   *)
(* token is fired after the lock is gone.                                    *)
NoteCancel ==
  /\ rpc.pc = "idle" /\ lock = "free" /\ ~cancelled
  /\ task.pc # "ended"
  /\ rpc' = Handler("cancel_noted") /\ lock' = "rpc"
  /\ UNCHANGED <<queueJournal, queue, accepting, cancelled, task, acked, faults>>

StopAccepting ==
  /\ rpc.pc = "cancel_noted"
  /\ rpc' = Handler("cancel_fire") /\ lock' = "free" /\ accepting' = FALSE
  /\ UNCHANGED <<queueJournal, queue, cancelled, task, acked, faults>>

FireToken ==
  /\ rpc.pc = "cancel_fire"
  /\ rpc' = Handler("idle") /\ cancelled' = TRUE
  /\ UNCHANGED <<queueJournal, queue, accepting, lock, task, acked, faults>>

-----------------------------------------------------------------------------
(* The agent task. *)

Untouched == UNCHANGED <<appended, cancelled, rpc, acked>>

EndTask(outcome) == task' = [NewTask EXCEPT !.pc = "close", !.outcome = outcome]

(* One turn: it ends in answers, in a tool batch, or the run ends.           *)
Turn ==
  /\ task.pc = "turn"
  /\ \/ /\ ~cancelled /\ task.turns < MaxTurns
        /\ \E next \in {"boundary", "completion"} :
             task' = [task EXCEPT !.pc = next, !.turns = @ + 1]
     \* among the failures: the turn limit
     \/ \E e \in {"failed", "interrupted"} : EndTask(e)
     \/ cancelled /\ EndTask("cancelled")
  /\ UNCHANGED <<consumed, injected, queue, accepting, lock, faults>> /\ Untouched

(* All items of a queue are selected; the lock stays held until they are in  *)
(* the context.                                                              *)
Select(k) ==
  /\ queue[k] # <<>>
  /\ task' = [task EXCEPT !.pc = "consume", !.kind = k, !.batch = queue[k],
                          !.taken = Len(queue[k])]
  /\ lock' = "task"
  /\ UNCHANGED accepting

(* drain_queue after a tool batch: steering only. *)
DrainQueue ==
  /\ task.pc = "boundary" /\ lock = "free"
  /\ \/ Select("steering")
     \/ /\ queue["steering"] = <<>>
        /\ task' = [task EXCEPT !.pc = "turn"]
        /\ UNCHANGED <<lock, accepting>>
  /\ UNCHANGED <<consumed, injected, queue, faults>> /\ Untouched

\* Mutant: the entrance is closed later, outside the lock.
DrainCompletionQueueOpen ==
  /\ task.pc = "completion" /\ lock = "free"
  /\ \/ Select("steering")
     \/ queue["steering"] = <<>> /\ Select("follow_up")
     \/ /\ \A k \in Kinds : queue[k] = <<>>
        /\ EndTask("completed")
        /\ UNCHANGED <<lock, accepting>>
  /\ UNCHANGED <<consumed, injected, queue, faults>> /\ Untouched

\* Mutant: the queues are taken in any order.
DrainCompletionQueueAny ==
  /\ task.pc = "completion" /\ lock = "free"
  /\ \/ \E k \in Kinds : Select(k)
     \/ /\ \A k \in Kinds : queue[k] = <<>>
        /\ EndTask("completed")
        /\ accepting' = FALSE
        /\ UNCHANGED lock
  /\ UNCHANGED <<consumed, injected, queue, faults>> /\ Untouched

(* drain_completion_queue: steering, else follow-ups, else nothing is        *)
(* accepted any more and the run is complete.                                *)
DrainCompletionQueue ==
  /\ task.pc = "completion" /\ lock = "free"
  /\ \/ Select("steering")
     \/ queue["steering"] = <<>> /\ Select("follow_up")
     \/ /\ \A k \in Kinds : queue[k] = <<>>
        /\ EndTask("completed")
        /\ accepting' = FALSE
        /\ UNCHANGED lock
  /\ UNCHANGED <<consumed, injected, queue, faults>> /\ Untouched

(* One queue.consumed for the whole batch, before any of its messages. *)
PersistConsumption ==
  /\ task.pc = "consume"
  /\ consumed' = Append(consumed, [kind |-> task.kind, items |-> task.batch])
  /\ task' = [task EXCEPT !.pc = "inject"]
  /\ UNCHANGED <<injected, queue, accepting, lock, faults>> /\ Untouched

(* One message per item, in order; with the last one the selected prefix     *)
(* leaves the queue and the next turn begins.                                *)
PersistMessage ==
  /\ task.pc = "inject"
  /\ injected' = Append(injected, Head(task.batch))
  /\ IF Len(task.batch) > 1
     THEN task' = [task EXCEPT !.batch = Tail(@)] /\ UNCHANGED <<queue, lock>>
     ELSE /\ task' = [NewTask EXCEPT !.turns = task.turns]
          /\ queue' = [queue EXCEPT ![task.kind] =
                         SubSeq(@, task.taken + 1, Len(@))]
          /\ lock' = "free"
  /\ UNCHANGED <<consumed, accepting, faults>> /\ Untouched

(* An append of the drain fails: the lock goes, the queue keeps its items.   *)
FaultDrain ==
  /\ faults < MaxFaults /\ faults' = faults + 1
  /\ task.pc \in {"consume", "inject"}
  /\ EndTask("failed")
  /\ lock' = "free"
  /\ UNCHANGED <<consumed, injected, queue, accepting>> /\ Untouched

(* After execute_run: no more input, whatever the outcome, then the end.     *)
CloseQueues ==
  /\ task.pc = "close" /\ lock = "free"
  /\ accepting' = FALSE
  /\ task' = [task EXCEPT !.pc = "ended"]
  /\ UNCHANGED <<consumed, injected, queue, lock, faults>> /\ Untouched

(* Memory is gone; recovery ends the run and never looks at its queues.      *)
LoseMemory ==
  /\ task.pc # "ended" \/ rpc.pc # "gone"
  /\ task' = [NewTask EXCEPT !.pc = "ended",
                 !.outcome = IF task.pc = "ended" THEN task.outcome ELSE "interrupted"]
  /\ queue' = [k \in Kinds |-> <<>>] /\ accepting' = FALSE
  /\ lock' = "free" /\ rpc' = Handler("gone")
  /\ UNCHANGED <<queueJournal, cancelled, acked, faults>>

-----------------------------------------------------------------------------
QueueNext ==
  \/ \E k \in Kinds : Enqueue(k)
  \/ PushItem \/ Respond \/ DropHandler
  \/ NoteCancel \/ StopAccepting \/ FireToken
  \/ Turn \/ DrainQueue \/ DrainCompletionQueue
  \/ PersistConsumption \/ PersistMessage \/ FaultDrain \/ CloseQueues
  \/ LoseMemory

QueueSpec == QueueInit /\ [][QueueNext]_queueVars

-----------------------------------------------------------------------------
AllItems(k) == {i \in Items : i \in ToSet(appended[k])}
Taken       == UNION {ToSet(consumed[n].items) : n \in DOMAIN consumed}

(* Each queue reaches the model's context in the order its requests were     *)
(* made durable, without a gap and without a repetition, whatever fails; and  *)
(* what enters the context was durably consumed before.                       *)
NoRepetition == \A m, n \in DOMAIN injected : injected[m] = injected[n] => m = n
NoGap ==
  \A n \in DOMAIN injected : \E k \in Kinds : \E p \in DOMAIN appended[k] :
    /\ injected[n] = appended[k][p]
    /\ \A q \in 1 .. p - 1 : \E m \in 1 .. n - 1 : injected[m] = appended[k][q]
Fifo == NoRepetition /\ NoGap /\ ToSet(injected) \subseteq Taken

(* A run that completes has taken up all the input it acknowledged. *)
CompletedTakesAll ==
  task.outcome = "completed" => acked \subseteq ToSet(injected)

(* A queue loses, repeats and reorders nothing, up to the run's completion. *)
QueuesKeepOrder == Fifo /\ CompletedTakesAll

(* Follow-ups wait until no acknowledged steering input is left. *)
SteeringFirst ==
  [][\A n \in DOMAIN consumed' \ DOMAIN consumed :
       consumed'[n].kind = "follow_up" =>
         acked \cap AllItems("steering") \subseteq Taken]_queueVars

=============================================================================
