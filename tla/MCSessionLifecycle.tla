------------------------- MODULE MCSessionLifecycle -------------------------
(* A foreign session is converted (LegacyImport), and then may be imported   *)
(* among the other operations on session directories (SessionLifecycle). The *)
(* conversion works on memory of its own, so it comes first. The desktop's   *)
(* calls to its daemons (DesktopBridge) share no step with them: TLC         *)
(* explores them by themselves, in the same run.                             *)
EXTENDS SessionLifecycle, LegacyImport, DesktopBridge

VARIABLE part

vars == <<part, lifecycleVars, importVars, bridgeVars>>

Init == part \in {"sessions", "bridge"} /\ LifecycleInit /\ ImportInit /\ BridgeInit

Sessions_ == part = "sessions" /\ UNCHANGED <<part, bridgeVars>>
Bridge_   == part = "bridge" /\ UNCHANGED <<part, lifecycleVars, importVars>>

Converting == phase \notin {"ready", "refused"}

Conversion == Sessions_ /\ ImportNext /\ UNCHANGED lifecycleVars

\* A refused conversion publishes nothing.
Lifecycle ==
    /\ Sessions_ /\ ~Converting
    /\ LifecycleNext
    /\ phase = "refused" => \A p \in Procs : (proc')[p].op # "import"
    /\ UNCHANGED importVars

Next == Conversion \/ Lifecycle \/ (Bridge_ /\ BridgeNext)

\* Every process goes on with what it has begun, and a deletion is asked for
\* again as long as its tombstone is there; every call of the desktop goes on.
Steps(p) == Sessions_ /\ ~Converting /\ Step(p) /\ UNCHANGED importVars
Retries(s) ==
    /\ Sessions_ /\ ~Converting /\ UNCHANGED importVars
    /\ \E p \in Procs : RetryDelete(p, s)
CallGoesOn(c) == Bridge_ /\ BridgeStep(c)

Spec ==
    /\ Init /\ [][Next]_vars
    /\ \A p \in Procs : WF_vars(Steps(p))
    /\ \A s \in Sessions : WF_vars(Retries(s))
    /\ \A c \in Commands : WF_vars(CallGoesOn(c))
=============================================================================
