----------------------------- MODULE SessionLock -----------------------------
(***************************************************************************)
(* What a session writer lease promises: between Enter and Leave (or       *)
(* death) a process is the only one that reads, recovers or appends the    *)
(* session ("Exactly one process holds the writer lock", SPEC/session.md). *)
(***************************************************************************)
CONSTANT Procs
VARIABLE writers

Init     == writers = {}
Enter(p) == writers = {} /\ writers' = {p}
Leave(p) == p \in writers /\ writers' = writers \ {p}
Next     == \E p \in Procs : Enter(p) \/ Leave(p)
Spec     == Init /\ [][Next]_writers
=============================================================================
