----------------------------- MODULE MCLiveness -----------------------------
(* What has to end although others die or do not answer: a terminal that is  *)
(* asked to close, and the claim of a dead owner on a session directory. The *)
(* two share no step: TLC explores each by itself, in one run.               *)
EXTENDS Terminal, WriterLease

VARIABLE part

liveVars == <<part, terminalVars, vars>>

LiveInit == part \in {"terminal", "lease"} /\ TerminalInit /\ Init

LiveNext == \/ part = "terminal" /\ TerminalNext /\ UNCHANGED <<part, vars>>
            \/ part = "lease" /\ Next /\ UNCHANGED <<part, terminalVars>>

\* The fairness of each part, asked of the behaviors of that part only.
InTerminal == part = "terminal"
InLease == part = "lease"

LiveFairness ==
  /\ \A t \in Terminals :
       /\ WF_terminalVars(InTerminal /\ Waiter(t)) /\ WF_terminalVars(InTerminal /\ Cleaner(t))
       /\ WF_terminalVars(InTerminal /\ Shutdown(t))
  /\ WF_terminalVars(InTerminal /\ Loop)
  /\ \A p \in Procs :
       /\ WF_vars(InLease /\ Acquire(p)) /\ WF_vars(InLease /\ Drop(p))
       /\ SF_vars(InLease /\ ProbeOwner(p) /\ pc'[p] = "stale")
       /\ SF_vars(InLease /\ RevalidateStale(p) /\ pc'[p] = "remove")
  /\ WF_vars(InLease /\ GraceExpires)

LiveParts == LiveInit /\ [][LiveNext]_liveVars /\ LiveFairness
=============================================================================
