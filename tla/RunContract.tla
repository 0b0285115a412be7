---------------------------- MODULE RunContract ----------------------------
(***************************************************************************)
(* What a session promises about its runs, whatever happens to the daemon: *)
(* one run is open at a time, a run is accepted once and ends once, and a  *)
(* tool call is started at most once, in a run that is open.               *)
(* (SPEC/protocol.md "Only one run per session may execute".)              *)
(***************************************************************************)
CONSTANTS Runs, Calls, NoRun

VARIABLES
  phase,   \* of each run: "new", "open" or "ended"
  startedIn \* of each call: the run that started it, or NoRun

Init ==
  /\ phase = [x \in Runs |-> "new"]
  /\ startedIn = [x \in Calls |-> NoRun]

Accept(x) ==
  /\ phase[x] = "new" /\ \A y \in Runs : phase[y] # "open"
  /\ phase' = [phase EXCEPT ![x] = "open"]
  /\ UNCHANGED startedIn

Start(x, c) ==
  /\ phase[x] = "open" /\ startedIn[c] = NoRun
  /\ startedIn' = [startedIn EXCEPT ![c] = x]
  /\ UNCHANGED phase

End(x) ==
  /\ phase[x] = "open"
  /\ phase' = [phase EXCEPT ![x] = "ended"]
  /\ UNCHANGED startedIn

Next == \E x \in Runs : Accept(x) \/ End(x) \/ \E c \in Calls : Start(x, c)

Spec == Init /\ [][Next]_<<phase, startedIn>>
=============================================================================
