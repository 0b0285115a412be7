--------------------------- MODULE EventSequence ---------------------------
(***************************************************************************)
(* The sequence numbers of a session's events.  Agent::emit                *)
(* (rust/src/agent.rs) takes them from a counter the daemon keeps in       *)
(* memory; recover_interrupted (rust/src/session.rs) takes them from the   *)
(* journal; SessionStore::snapshot refuses a session whose numbers do not  *)
(* increase.  The daemons that share a state root take turns under the     *)
(* writer lease (module WriterLease).                                      *)
(***************************************************************************)
EXTENDS Naturals, Sequences, FiniteSetsExt

CONSTANTS
  Daemons,
  NoDaemon,
  MaxEvents,  \* bound on the length of the journal
  MaxLost,    \* bound on the journal reads and appends that fail
  MaxDeaths   \* bound on the deaths of daemons

ASSUME DaemonAssumption == NoDaemon \notin Daemons
ASSUME SequenceBounds == MaxEvents \in Nat /\ MaxLost \in Nat /\ MaxDeaths \in Nat

VARIABLES
  events,   \* journal: every event.emitted, in order: its seq, and who numbered it
  unended,  \* journal: a run is accepted and its terminal event missing
  counter,  \* Agent::event_sequences of each daemon; 0: no entry yet
  behind,   \* history: daemons that left a terminal event without a number
  holder,   \* the daemon that has the writer lease
  step,     \* what the holder is doing
  taken,    \* the number the current emit took
  lost, deaths

sequenceVars == <<events, unended, counter, behind, holder, step, taken, lost, deaths>>

PersistedNext == Max({0} \cup {events[n].seq : n \in DOMAIN events}) + 1

\* by: "live" or, of a daemon that is behind, "stale"; "recovery".
Numbered(n, by) == [seq |-> n, by |-> by]

SequenceInit ==
  /\ events = <<>> /\ unended = FALSE
  /\ counter = [d \in Daemons |-> 0] /\ behind = {}
  /\ holder = NoDaemon /\ step = "none" /\ taken = 0
  /\ lost = 0 /\ deaths = 0

\* run/start or session/get takes the lease.
Acquire(d) ==
  /\ holder = NoDaemon
  /\ holder' = d
  /\ \E request \in {"start", "get"} : step' = request
  /\ UNCHANGED <<events, unended, counter, behind, taken, lost, deaths>>

\* Mutant: the length of the event log is taken for its greatest number.
NumberByLength ==
  /\ step \in {"start", "get"} /\ unended /\ Len(events) < MaxEvents
  /\ events' = Append(events, Numbered(Len(events) + 1, "recovery"))
  /\ unended' = FALSE
  /\ UNCHANGED <<counter, behind, holder, step, taken, lost, deaths>>

\* recover_interrupted: the missing terminal event gets the number after the
\* greatest durable one; the counters in memory are not looked at.
NumberTerminal ==
  /\ step \in {"start", "get"} /\ unended /\ Len(events) < MaxEvents
  /\ events' = Append(events, Numbered(PersistedNext, "recovery"))
  /\ unended' = FALSE
  /\ UNCHANGED <<counter, behind, holder, step, taken, lost, deaths>>

\* run.accepted after the recovery, or the end of session/get.
Proceed ==
  /\ ~unended
  /\ \/ step = "start" /\ step' = "run" /\ unended' = TRUE /\ UNCHANGED holder
     \/ step = "get" /\ step' = "none" /\ holder' = NoDaemon /\ UNCHANGED unended
  /\ UNCHANGED <<events, counter, behind, taken, lost, deaths>>

\* emit: the journal is read, the counter is set from it if it has no value,
\* and is moved on before anything is durable.
TakeNumber ==
  /\ step = "run"
  /\ LET n == IF counter[holder] = 0 THEN PersistedNext ELSE counter[holder]
     IN  taken' = n /\ counter' = [counter EXCEPT ![holder] = n + 1]
  /\ step' = "emit"
  /\ UNCHANGED <<events, unended, behind, holder, lost, deaths>>

\* emit: event.emitted; with the terminal event the run is over and its lease
\* goes.
AppendEvent ==
  /\ step = "emit" /\ Len(events) < MaxEvents
  /\ events' = Append(events, Numbered(taken, IF holder \in behind THEN "stale" ELSE "live"))
  /\ taken' = 0
  /\ \/ step' = "run" /\ UNCHANGED <<unended, holder>>
     \/ step' = "none" /\ unended' = FALSE /\ holder' = NoDaemon
  /\ UNCHANGED <<counter, behind, lost, deaths>>

Fault == lost < MaxLost /\ lost' = lost + 1

\* recover_interrupted cannot read or append: the request fails.
FailRecovery ==
  /\ Fault
  /\ step \in {"start", "get"} /\ unended /\ step' = "none" /\ holder' = NoDaemon
  /\ UNCHANGED <<events, unended, counter, behind, taken, deaths>>

\* emit: the journal cannot be read and no number is taken. The terminal event
\* is tried instead, or that was it: the recovery that will number it does not
\* move the counter on.
FailLoad ==
  /\ Fault
  /\ step = "run"
  /\ \/ UNCHANGED <<step, holder, behind>>
     \/ /\ step' = "none" /\ holder' = NoDaemon
        /\ behind' = IF counter[holder] = 0 THEN behind ELSE behind \cup {holder}
  /\ UNCHANGED <<events, unended, counter, taken, deaths>>

\* The append fails: the terminal event is tried instead, or that was it.
FailAppend ==
  /\ Fault
  /\ step = "emit" /\ taken' = 0
  /\ \/ step' = "run" /\ UNCHANGED holder
     \/ step' = "none" /\ holder' = NoDaemon
  /\ UNCHANGED <<events, unended, counter, behind, deaths>>

\* The daemon dies: its counter and its lease go with it.
DaemonDies(d) ==
  /\ deaths < MaxDeaths /\ deaths' = deaths + 1
  /\ counter' = [counter EXCEPT ![d] = 0] /\ behind' = behind \ {d}
  /\ IF holder = d THEN holder' = NoDaemon /\ step' = "none" /\ taken' = 0
                   ELSE UNCHANGED <<holder, step, taken>>
  /\ UNCHANGED <<events, unended, lost>>

SequenceNext ==
  \/ \E d \in Daemons : Acquire(d) \/ DaemonDies(d)
  \/ NumberTerminal \/ Proceed \/ TakeNumber \/ AppendEvent
  \/ FailRecovery \/ FailLoad \/ FailAppend

SequenceSpec == SequenceInit /\ [][SequenceNext]_sequenceVars

-----------------------------------------------------------------------------
(* For each session, event numbers are strictly increasing; gaps are allowed, *)
(* reuse or regression is not. Two daemons violate it.                        *)
SeqIncreasing ==
  \A m, n \in DOMAIN events : m < n => events[m].seq < events[n].seq

(* One daemon repeats or goes below a number in one way only: the event that *)
(* follows was numbered by a counter that a terminal event had missed since  *)
(* the daemon started, and the one before it by recovery. What recovery      *)
(* numbers, what one counter numbers, whatever appends failed, and all that  *)
(* a daemon numbers that missed nothing, or was started again, is greater    *)
(* than everything before it.                                                *)
OnlyMissedRepeat ==
  \A m, n \in DOMAIN events :
    m < n => \/ events[m].seq < events[n].seq
             \/ events[m].by = "recovery" /\ events[n].by = "stale"
=============================================================================
