---------------------------- MODULE ProcessTree ----------------------------
(***************************************************************************)
(* The processes of one tool execution (executor.rs): the child in a group *)
(* of its own, the guard that samples /proc for its descendants, the ends  *)
(* an execution can come to, and the cleanup by signals before its outputs *)
(* are joined. The kernel gives a freed PID to anybody; a start time tells *)
(* its owners apart.                                                       *)
(***************************************************************************)
EXTENDS Naturals, Sequences, FiniteSets

CONSTANTS Pids,
          InitPid, Daemon,          \* parents that are no PIDs of ours
          StopRounds, KillRounds,   \* samples that cleanup takes before and after it kills
          MaxBirths                 \* bound: processes that ever exist

ASSUME TreeAssumption ==
    /\ InitPid \notin Pids /\ Daemon \notin Pids \cup {InitPid}
    /\ StopRounds \in Nat \ {0} /\ KillRounds \in Nat /\ MaxBirths \in Nat \ {0}

VARIABLES os,       \* the process table
          births,   \* the start time the next process gets
          kin,      \* history: start times of the child and its descendants
          call,     \* the execution, and the steps it has still to take
          guard,    \* ProcessTreeGuard; 0: not tracked
          hit       \* history: start times of the processes group signals reached
treeVars == <<os, births, kin, call, guard, hit>>

Gone == [born |-> 0]
Proc(parent, group, pipe) ==
    [born |-> births, parent |-> parent, group |-> group, pipe |-> pipe, state |-> "live"]

TreeInit ==
    /\ os = [p \in Pids |-> Gone] /\ births = 1 /\ kin = {} /\ hit = {}
    /\ call = [pc |-> "spawn", root |-> InitPid, outcome |-> "none", plan |-> <<>>,
               targets |-> {}, aim |-> {}]
    /\ guard = [tracked |-> [p \in Pids |-> 0], monitor |-> FALSE, active |-> FALSE]

Exists(p) == os[p].born # 0
Zombie(p) == Exists(p) /\ os[p].state = "zombie"
Running(p) == Exists(p) /\ ~Zombie(p)
Kin(p) == os[p].born \in kin
Acts(p) == Running(p) /\ os[p].state = "live" /\ call.pc # "done"
Free(q) == ~Exists(q) /\ \A p \in Pids : Exists(p) => os[p].group.pid # q

\* The dead wait for their parent to look; init looks at once.
Died(victims) ==
    LET dying == {p \in victims : Running(p)}
        parent(p) == IF os[p].parent \in dying THEN InitPid ELSE os[p].parent
    IN  [p \in Pids |->
            CASE ~Exists(p) -> Gone
              [] Exists(p) /\ p \notin dying ->
                    IF Zombie(p) /\ parent(p) = InitPid THEN Gone
                    ELSE [os[p] EXCEPT !.parent = parent(p)]
              [] OTHER -> IF parent(p) = InitPid THEN Gone
                          ELSE [os[p] EXCEPT !.state = "zombie", !.pipe = FALSE]]
Frozen(victims) ==
    [p \in Pids |-> IF p \in victims /\ Running(p) THEN [os[p] EXCEPT !.state = "stopped"] ELSE os[p]]
Reaped(p) == [os EXCEPT ![p] = Gone]

-----------------------------------------------------------------------------
(* What the child, its descendants and other programs do.                  *)

Born(q, proc) == os' = [os EXCEPT ![q] = proc] /\ births' = births + 1

Fork(p, q) ==
    /\ Acts(p) /\ Kin(p) /\ Free(q) /\ births <= MaxBirths
    /\ Born(q, Proc(p, os[p].group, os[p].pipe))
    /\ kin' = kin \cup {births}
    /\ UNCHANGED <<call, guard, hit>>

NewSession(p) ==
    /\ Acts(p) /\ Kin(p) /\ \A q \in Pids : Exists(q) => os[q].group.pid # p
    /\ os' = [os EXCEPT ![p].group = [pid |-> p, born |-> os[p].born]]
    /\ UNCHANGED <<births, kin, call, guard, hit>>

ClosePipe(p) ==
    /\ Acts(p) /\ os[p].pipe
    /\ os' = [os EXCEPT ![p].pipe = FALSE]
    /\ UNCHANGED <<births, kin, call, guard, hit>>

WaitChild(p, q) ==
    /\ Acts(p) /\ Zombie(q) /\ os[q].parent = p
    /\ os' = Reaped(q)
    /\ UNCHANGED <<births, kin, call, guard, hit>>

Exit(p) ==
    /\ Acts(p)
    /\ os' = Died({p})
    /\ UNCHANGED <<births, kin, call, guard, hit>>

Stranger(q) ==
    /\ call.pc \notin {"spawn", "done"} /\ Free(q) /\ births <= MaxBirths
    /\ Born(q, Proc(InitPid, [pid |-> q, born |-> births], FALSE))
    /\ UNCHANGED <<kin, call, guard, hit>>

Others(p) ==
    \/ \E q \in Pids : Fork(p, q) \/ WaitChild(p, q)
    \/ NewSession(p) \/ ClosePipe(p) \/ Exit(p) \/ Stranger(p)

-----------------------------------------------------------------------------
(* execute, up to the end of the child.                                    *)

\* Cleanup freezes what it knows, looks again, kills, and looks again.
Rounds(n, signal) == [i \in 1 .. 2 * n |-> IF i % 2 = 1 THEN "refresh" ELSE signal]
Cleanup == <<"stopGroup">> \o Rounds(StopRounds, "stopTracked")
           \o <<"killGroup", "killTracked">> \o Rounds(KillRounds, "killTracked")
           \o <<"inactive">>

Work(plan, outcome) ==
    call' = [call EXCEPT !.pc = "work", !.plan = plan, !.outcome = outcome,
                         !.targets = {}, !.aim = {}]

Spawn(p) ==
    /\ call.pc = "spawn"
    /\ Born(p, Proc(Daemon, [pid |-> p, born |-> births], TRUE))
    /\ kin' = {births}
    /\ call' = [call EXCEPT !.pc = "guard", !.root = p]
    /\ UNCHANGED <<guard, hit>>

Root == call.root
Identified(p) == Exists(p) /\ os[p].born = guard.tracked[p]

StartGuard ==
    /\ call.pc = "guard"
    /\ guard' = [tracked |-> [guard.tracked EXCEPT ![Root] = os[Root].born],
                 monitor |-> TRUE, active |-> TRUE]
    /\ call' = [call EXCEPT !.pc = "select"]
    /\ UNCHANGED <<os, births, kin, hit>>

GuardFails ==
    /\ call.pc = "guard"
    /\ Work(<<"killGroupBlind", "killRoot", "reap", "fail">>, "failed")
    /\ UNCHANGED <<os, births, kin, guard, hit>>

\* refresh_descendants: the children of known processes, and theirs, by one look at /proc.
Closed(found) ==
    \A q \in Pids : Exists(q) /\ guard.tracked[q] = 0 /\ os[q].parent \in found => q \in found
Found == {q \in Pids : \A found \in SUBSET Pids :
                         {p \in Pids : Identified(p)} \subseteq found /\ Closed(found) => q \in found}
Grown == [q \in Pids |-> IF guard.tracked[q] = 0 /\ q \in Found THEN os[q].born
                         ELSE guard.tracked[q]]
Refresh == guard' = [guard EXCEPT !.tracked = Grown]

Sample ==
    /\ guard.monitor /\ Refresh
    /\ UNCHANGED <<os, births, kin, call, hit>>

\* The select: cancellation, too much output, the deadline or a failed wait cut the
\* execution short; the child's own end frees its PID.
CutShort ==
    /\ call.pc = "select"
    /\ guard' = [guard EXCEPT !.monitor = FALSE]
    /\ Work(Cleanup \o <<"killRoot", "reap", "join">>, "cut")
    /\ UNCHANGED <<os, births, kin, hit>>

ChildExited ==
    /\ call.pc = "select" /\ Zombie(Root)
    /\ os' = Reaped(Root)
    /\ guard' = [guard EXCEPT !.monitor = FALSE]
    /\ Work(Cleanup \o <<"join">>, "exited")
    /\ UNCHANGED <<births, kin, hit>>

\* The execution is dropped where it waits; its drop handlers do not.
DropCall ==
    /\ call.pc \in {"select", "work"} /\ call.outcome # "dropped"
    /\ guard' = [guard EXCEPT !.monitor = FALSE]
    /\ Work((IF guard.active THEN <<"killGroup", "killTracked", "inactive">> ELSE <<>>)
            \o <<"killRoot", "fail">>, "dropped")
    /\ UNCHANGED <<os, births, kin, hit>>

-----------------------------------------------------------------------------
(* The cleanup, step by step.                                              *)

Step(name) == call.pc = "work" /\ Head(call.plan) = name
Advance == call' = [call EXCEPT !.plan = Tail(@),
                             !.targets = {p \in Pids : guard'.tracked[p] # 0}]

\* Mutant: a child that has exited and was not waited for counts as gone.
RootIdentityOfRunning == Identified(Root) /\ Running(Root)

RootIdentity == Identified(Root)

\* The check and the signal are one step: only this execution can free the root's PID.
GroupMembers == {p \in Pids : Exists(p) /\ os[p].group.pid = Root}
SignalGroup(allowed, effect) ==
    IF allowed
    THEN os' = effect /\ hit' = hit \cup {os[p].born : p \in GroupMembers}
    ELSE UNCHANGED <<os, hit>>

StopGroup ==
    /\ Step("stopGroup") /\ SignalGroup(RootIdentity, Frozen(GroupMembers))
    /\ UNCHANGED <<births, kin, guard>> /\ Advance
KillGroup ==
    /\ Step("killGroup") /\ SignalGroup(RootIdentity, Died(GroupMembers))
    /\ UNCHANGED <<births, kin, guard>> /\ Advance
KillGroupBlind ==
    /\ Step("killGroupBlind") /\ SignalGroup(TRUE, Died(GroupMembers))
    /\ UNCHANGED <<births, kin, guard>> /\ Advance

Look ==
    /\ Step("refresh") /\ Refresh
    /\ UNCHANGED <<os, births, kin, hit>> /\ Advance

\* signal_tracked: each identity is checked, then its PID is signalled.
Tracked == Step("stopTracked") \/ Step("killTracked")
Verify(p) ==
    /\ Tracked /\ call.aim = {} /\ p \in call.targets
    /\ call' = [call EXCEPT !.targets = @ \ {p}, !.aim = IF Identified(p) THEN {p} ELSE {}]
    /\ UNCHANGED <<os, births, kin, guard, hit>>
Fire ==
    /\ Tracked /\ call.aim # {}
    /\ os' = IF Step("stopTracked") THEN Frozen(call.aim) ELSE Died(call.aim)
    /\ call' = [call EXCEPT !.aim = {}]
    /\ UNCHANGED <<births, kin, guard, hit>>
AllSignalled ==
    /\ Tracked /\ call.aim = {} /\ call.targets = {}
    /\ UNCHANGED <<os, births, kin, guard, hit>> /\ Advance

Deactivate ==
    /\ Step("inactive")
    /\ guard' = [guard EXCEPT !.active = FALSE]
    /\ UNCHANGED <<os, births, kin, hit>> /\ Advance

\* Child::kill, on an unreaped child only, and Child::wait.
KillRoot ==
    /\ Step("killRoot")
    /\ os' = IF Exists(Root) /\ os[Root].parent = Daemon THEN Died({Root}) ELSE os
    /\ UNCHANGED <<births, kin, guard, hit>> /\ Advance
Reap ==
    /\ Step("reap") /\ Zombie(Root)
    /\ os' = Reaped(Root)
    /\ UNCHANGED <<births, kin, guard, hit>> /\ Advance

\* The stdin writer and the two readers end when nobody holds the other end.
JoinOutputs ==
    /\ Step("join") /\ \A p \in Pids : Exists(p) => ~os[p].pipe
    /\ call' = [call EXCEPT !.pc = "done", !.plan = <<>>]
    /\ UNCHANGED <<os, births, kin, guard, hit>>
GiveUp ==
    /\ Step("fail")
    /\ call' = [call EXCEPT !.pc = "done", !.plan = <<>>]
    /\ UNCHANGED <<os, births, kin, guard, hit>>

TreeNext ==
    \/ \E p \in Pids : Others(p) \/ Spawn(p)
    \/ StartGuard \/ GuardFails \/ Sample
    \/ CutShort \/ ChildExited \/ DropCall
    \/ StopGroup \/ KillGroup \/ KillGroupBlind \/ Look
    \/ \E p \in Pids : Verify(p)
    \/ Fire \/ AllSignalled \/ Deactivate \/ KillRoot \/ Reap \/ JoinOutputs \/ GiveUp

TreeSpec == TreeInit /\ [][TreeNext]_treeVars

-----------------------------------------------------------------------------
(* Properties.                                                             *)

\* The child is the first process born.
Survives(p) == Running(p) /\ os[p].group.born = 1
Joining == call.pc = "work" /\ call.plan = <<"join">>

(* A group signal reaches the child's own group or nobody, however PIDs    *)
(* were reused since; and an execution that was cut short comes to join    *)
(* its outputs only when the whole group is dead, even if the child ended  *)
(* by itself at that moment.                                               *)
GroupSignalled ==
    /\ hit \subseteq kin
    /\ Joining /\ call.outcome = "cut" => \A p \in Pids : ~Survives(p)

(* When the outputs are joined the process tree has been cleaned up, and   *)
(* the readers can see the end of the pipes.                               *)
JoinSeesEof == Joining => \A p \in Pids : Survives(p) => ~os[p].pipe
=============================================================================
