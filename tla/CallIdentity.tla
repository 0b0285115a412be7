---------------------------- MODULE CallIdentity ----------------------------
(***************************************************************************)
(* The identity of tool calls across the runs of a session.  A run accepts *)
(* each call ID of its provider once (seen_tool_call_ids, rust/src/agent.rs *)
(* execute_run); recover_interrupted (rust/src/session.rs), which every    *)
(* run/start and session/get begins with, reads the calls of the whole     *)
(* session by their ID alone.                                              *)
(***************************************************************************)
EXTENDS Naturals, Sequences, FiniteSets, SequencesExt

CONSTANTS
  CallIds,     \* IDs the provider chooses from
  MaxRuns,     \* bound on the runs of the session
  MaxBatches,  \* MAX_TOOL_TURNS
  MaxDropOuts, \* bound on the runs a crash cuts short
  Reuses       \* TRUE: the provider may use the IDs of an earlier run again

ASSUME IdentityBounds ==
  /\ IsFiniteSet(CallIds)
  /\ MaxRuns \in Nat /\ MaxBatches \in Nat \ {0} /\ MaxDropOuts \in Nat /\ Reuses \in BOOLEAN

VARIABLES
  intents,  \* journal: tool.intent records [run, turn, id], in order
  results,  \* journal: the IDs of the tool.result records, in order
  messages, \* journal: the IDs of the tool messages, in order
  runs,     \* journal: how many runs were accepted
  pc,       \* "idle", "recover", "turn", "call", "result", "message"
  turn, seenIds, batch, current,
  dropOuts

callJournal == <<intents, results, messages, runs>>
identityVars == <<intents, results, messages, runs, pc, turn, seenIds, batch, current, dropOuts>>

\* What the provider may call the next calls.
Offered == {i \in CallIds :
              Reuses \/ \A n \in DOMAIN intents : intents[n].id = i => intents[n].run = runs}

IdentityInit ==
  /\ intents = <<>> /\ results = <<>> /\ messages = <<>> /\ runs = 0
  /\ pc = "idle" /\ turn = 0 /\ seenIds = {} /\ batch = <<>> /\ current = ""
  /\ dropOuts = 0

\* run/start with an idle session: recovery comes first.
StartRun ==
  /\ pc = "idle" /\ runs < MaxRuns
  /\ pc' = "recover"
  /\ UNCHANGED <<callJournal, turn, seenIds, batch, current, dropOuts>>

\* A call ID stands for one intent; anything else is taken for corruption.
Ambiguous == \E m, n \in DOMAIN intents : intents[m].id = intents[n].id /\ intents[m] # intents[n]

IntentIds == {intents[n].id : n \in DOMAIN intents}
Unresolved == IntentIds \ ToSet(results)

Unspoken == ToSet(results) \ ToSet(messages)

\* recover_interrupted refuses an ambiguous journal; else it appends the missing
\* results, then the missing messages...
Recover ==
  /\ pc = "recover" /\ ~Ambiguous
  /\ \/ /\ Unresolved # {}
        /\ results' = results \o SetToSeq(Unresolved)
        /\ UNCHANGED messages
     \/ /\ Unresolved = {} /\ Unspoken # {}
        /\ messages' = messages \o SetToSeq(Unspoken)
        /\ UNCHANGED results
  /\ UNCHANGED <<intents, runs, pc, turn, seenIds, batch, current, dropOuts>>

\* ...and the new run is accepted, with nothing seenIds.
AcceptRun ==
  /\ pc = "recover" /\ ~Ambiguous /\ Unresolved \cup Unspoken = {}
  /\ runs' = runs + 1 /\ pc' = "turn" /\ seenIds' = {} /\ turn' = 0
  /\ UNCHANGED <<intents, results, messages, batch, current, dropOuts>>

\* Mutant: only the batch itself is checked for repeated IDs.
AcceptBatchAlone ==
  /\ pc = "turn" /\ turn < MaxBatches
  /\ \E i \in Offered : batch' = <<i>> /\ seenIds' = seenIds \cup {i}
  /\ turn' = turn + 1 /\ pc' = "call"
  /\ UNCHANGED <<callJournal, current, dropOuts>>

\* validate_complete_tool_batch: no ID twice in the batch or in the run.
AcceptBatch ==
  /\ pc = "turn" /\ turn < MaxBatches
  /\ \E ids \in SUBSET (Offered \ seenIds) :
       /\ ids # {}
       /\ batch' = SetToSeq(ids) /\ seenIds' = seenIds \cup ids
  /\ turn' = turn + 1 /\ pc' = "call"
  /\ UNCHANGED <<callJournal, current, dropOuts>>

WriteIntent ==
  /\ pc = "call" /\ batch # <<>>
  /\ intents' = Append(intents, [run |-> runs, turn |-> turn, id |-> Head(batch)])
  /\ current' = Head(batch) /\ batch' = Tail(batch) /\ pc' = "result"
  /\ UNCHANGED <<results, messages, runs, turn, seenIds, dropOuts>>

WriteResult ==
  /\ pc = "result"
  /\ results' = Append(results, current) /\ pc' = "message"
  /\ UNCHANGED <<intents, messages, runs, turn, seenIds, batch, current, dropOuts>>

WriteMessage ==
  /\ pc = "message"
  /\ messages' = Append(messages, current) /\ current' = ""
  /\ pc' = IF batch = <<>> THEN "turn" ELSE "call"
  /\ UNCHANGED <<intents, results, runs, turn, seenIds, batch, dropOuts>>

EndRun ==
  /\ pc = "turn"
  /\ pc' = "idle" /\ turn' = 0 /\ seenIds' = {}
  /\ UNCHANGED <<callJournal, batch, current, dropOuts>>

DieMidRun ==
  /\ pc # "idle" /\ dropOuts < MaxDropOuts
  /\ dropOuts' = dropOuts + 1
  /\ pc' = "idle" /\ turn' = 0 /\ seenIds' = {} /\ batch' = <<>> /\ current' = ""
  /\ UNCHANGED callJournal

IdentityNext ==
  \/ StartRun \/ Recover \/ AcceptRun \/ AcceptBatch \/ WriteIntent \/ WriteResult \/ WriteMessage
  \/ EndRun \/ DieMidRun

IdentitySpec == IdentityInit /\ [][IdentityNext]_identityVars

-----------------------------------------------------------------------------
(* The journal of a session that only this daemon wrote is never refused by  *)
(* its own recovery.                                                         *)
NeverRefused == pc = "recover" => ~Ambiguous

(* An ID names one call of the session for ever: no later run, and no later   *)
(* turn, gives it to another call.                                            *)
IdsNeverReused ==
  \A m, n \in DOMAIN intents : m # n => intents[m].id # intents[n].id
=============================================================================
