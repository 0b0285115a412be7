------------------------------ MODULE ToolGate ------------------------------
(***************************************************************************)
(* The way of a tool call to its effect (tools.rs, policy.rs, daemon.rs):  *)
(* the profile of the run, preflight, policy, approval, preflight again,   *)
(* and the work. The workspace is on a file system where other programs    *)
(* rename directories and put links in their place, so that a path that    *)
(* was looked at leads elsewhere when it is used: file.read and file.write *)
(* (path_boundary.rs) and the sandbox (hard_sandbox.rs) go by descriptors. *)
(***************************************************************************)
EXTENDS Naturals

CONSTANTS NoProfile,
          MaxRebinds, MaxToolCalls \* bounds

ASSUME GateAssumption ==
    MaxRebinds \in Nat /\ MaxToolCalls \in Nat

VARIABLES host,      \* what the process found when it started
          tree,      \* the file system: what the names lead to
          screen,    \* the size of the X screen, or gone
          gateCall,  \* the tool call
          rebinds, toolCalls
gateVars == <<host, tree, screen, gateCall, rebinds, toolCalls>>

\* Directories: the workspace, the one that is in it as "d", and another.
\* In each there may be a file, and in the first two a link in its place.
\* System stands for what a sandbox has beside the workspace: the read-only
\* directories of the system, and /tmp, /proc and /dev of its own.
Workspace == "W"
Inner     == "D"
Outside   == "X"
System    == "S"
InTheWorkspace == {Workspace, Inner}
GatePaths == {"f", "d/f"}

Readers  == {"file.read", "search.text"}
Writers_ == {"file.write", "file.edit"}
Desktops == {"computer.observe", "computer.interact"}
ToolNames == Readers \cup Writers_ \cup {"process.exec"} \cup Desktops

\* shell.exec goes the way of process.exec, computer.screenshot that of computer.observe.
Effect(tool) ==
    CASE tool \in Readers -> "read" [] tool \in Writers_ -> "write"
      [] tool = "process.exec" -> "process" [] tool \in Desktops -> "computer"

\* What the provider, the client and the profiles are told of.
ExecutorDefinitions == {tool \in {"process.exec"} : host.procfs}
ComputerDefinitions ==
    CASE host.desktop = "none"    -> {}
      [] host.desktop = "observe" -> {"computer.observe"}
      [] OTHER                    -> Desktops
Definitions == Readers \cup Writers_ \cup ExecutorDefinitions \cup ComputerDefinitions

\* effect: what the registry carries out. It does not look for /proc.
Registered(tool) ==
    CASE tool = "computer.observe"  -> host.desktop # "none"
      [] tool = "computer.interact" -> host.desktop = "interact"
      [] OTHER                      -> TRUE

\* Mutant: the mode of a profile does not narrow its tools.
EffectiveOfAnyMode(profile) == profile.requested \cap Definitions

\* resolve_for_run: the tools that a run with this profile may use.
Effective(profile) ==
    {tool \in profile.requested \cap Definitions : profile.mode = "ask" \/ Effect(tool) = "read"}
Permits(tool) == host.profile # NoProfile => tool \in Effective(host.profile)

\* Only a program that embeds the registry sets dangerous. What decide wants
\* approved and what it denies come to the same in policy_decision.
Decide(effect) ==
    IF effect = "read" \/ (host.dangerous /\ effect # "computer") THEN "allow" ELSE "deny"

\* An approval needs a client that can answer it; the desktop needs one always.
Decision(effect, answerable) ==
    IF effect # "computer" /\ Decide(effect) = "allow" THEN "allow"
    ELSE IF answerable THEN "ask" ELSE "deny"

-----------------------------------------------------------------------------
\* The directory that holds the file of a path, by its names as they are now.
NamedDirectory(path) ==
    CASE path = "f" -> tree.root
      [] path = "d/f" /\ tree.root = Workspace /\ tree.sub = "dir"  -> Inner
      [] path = "d/f" /\ tree.root = Workspace /\ tree.sub = "link" -> Outside
      [] OTHER -> "none"

\* require_inside: the canonical path starts with that of the root.
Within(dir) == IF tree.root = Workspace THEN dir \in InTheWorkspace ELSE dir = Outside
\* The file, or what the link in its place leads to.
Leads(dir) == IF tree.leaf[dir] = "link" THEN Outside ELSE dir
Present(path) == NamedDirectory(path) # "none" /\ tree.leaf[NamedDirectory(path)] # "gone"

ResolveExisting(path) == Present(path) /\ Within(NamedDirectory(path)) /\ Within(Leads(NamedDirectory(path)))
ResolveDirectory(path) == NamedDirectory(path) # "none" /\ Within(NamedDirectory(path))
\* Of what does not exist, the nearest ancestor that does.
ResolveForWrite(path) ==
    IF Present(path) THEN ResolveExisting(path)
    ELSE NamedDirectory(path) # "none" => Within(NamedDirectory(path))

\* Read-only checks of the X server: that it can be captured, and that the
\* point of an action is on the screen.
Points == {"near", "far"}
ValidateObserve == screen # "gone"
ValidateInteract(point) == screen = "large" \/ (screen = "small" /\ point = "near")

RequireBackend == host.backend = "ready"
ExecutionOptions(c) == ResolveDirectory(c.path)

Resolves(c) ==
    IF c.tool = "process.exec" THEN ExecutionOptions(c) /\ (c.sandbox => RequireBackend)
    ELSE ResolveExisting(c.path)

\* Before the decision, and again before the work.
Preflight(c) ==
    /\ Registered(c.tool)
    /\ CASE c.tool = "file.write"        -> ResolveForWrite(c.path)
         [] c.tool = "computer.observe"  -> ValidateObserve
         [] c.tool = "computer.interact" -> ValidateInteract(c.path)
         [] OTHER                        -> Resolves(c)

-----------------------------------------------------------------------------
\* dir: where the work is done. steady: no name has changed since the last look at
\* the path, which went through the workspace itself (only the model knows).
NoToolCall == [pc |-> "idle", tool |-> "none", path |-> "none", sandbox |-> FALSE,
               consent |-> "none", dir |-> "none", steady |-> FALSE]

\* A host on which nothing is configured.
AnyHost == [dangerous |-> FALSE, approvals |-> FALSE, procfs |-> TRUE, desktop |-> "none",
            backend |-> "disabled", profile |-> NoProfile]

\* A backend that was asked for and failed its test makes initialize fail:
\* then there is no client, only the command line with its own run.
GateInit ==
    /\ host \in [dangerous : BOOLEAN, approvals : BOOLEAN, procfs : BOOLEAN,
                 desktop : {"none", "observe", "interact"},
                 backend : {"disabled", "ready", "unavailable"},
                 profile : {NoProfile} \cup [mode : {"ask", "deny"}, requested : {ToolNames, Readers}]]
    /\ host.backend = "unavailable" => ~host.approvals /\ host.profile = NoProfile
    /\ host.profile # NoProfile => (host.profile.mode = "deny" => ~host.approvals)
    /\ tree = [root |-> Workspace, sub |-> "dir", leaf |-> [d \in {Workspace, Inner, Outside} |-> "file"]]
    /\ screen = (IF host.desktop = "none" THEN "gone" ELSE "large")
    /\ gateCall = NoToolCall /\ rebinds = 0 /\ toolCalls = 0

Fails == gateCall' = NoToolCall
Comes(pc) == gateCall' = [gateCall EXCEPT !.pc = pc]
Done(dir) == gateCall' = [gateCall EXCEPT !.pc = "done", !.dir = dir]

\* The provider asks for any tool, told of it or not. The client may be gone.
RequestTool ==
    /\ gateCall.pc = "idle" /\ toolCalls < MaxToolCalls /\ toolCalls' = toolCalls + 1
    /\ \E tool \in ToolNames, path \in GatePaths \cup Points, sandbox, connected \in BOOLEAN :
         LET c == [NoToolCall EXCEPT !.tool = tool, !.path = path, !.sandbox = sandbox]
             decision == Decision(Effect(tool), host.approvals /\ connected)
         IN  /\ sandbox => tool = "process.exec"
             /\ path \in Points <=> tool \in Desktops
             /\ gateCall' = IF ~Permits(tool) \/ ~Preflight(c) \/ decision = "deny" THEN NoToolCall
                            ELSE [c EXCEPT !.pc = decision, !.consent = decision]
    /\ UNCHANGED <<host, tree, screen, rebinds>>

\* Refused, expired, cancelled, or the client left: the call fails.
AnswerApproval ==
    /\ gateCall.pc = "ask"
    /\ \/ gateCall' = [gateCall EXCEPT !.pc = "allow", !.consent = "approved"]
       \/ Fails
    /\ UNCHANGED <<host, tree, screen, rebinds, toolCalls>>

Branch(tool) ==
    CASE tool \in {"file.read", "file.write"} -> "root" [] tool \in Desktops -> "desktop"
      [] OTHER -> "again"

ExecuteAuthorized ==
    /\ gateCall.pc = "allow"
    /\ IF Preflight(gateCall) THEN Comes(Branch(gateCall.tool)) ELSE Fails
    /\ UNCHANGED <<host, tree, screen, rebinds, toolCalls>>

\* The directory with the name of the workspace has to be the one it was.
VerifyVisibleRoot ==
    /\ gateCall.pc = "root"
    /\ IF tree.root = Workspace THEN Comes("walk") ELSE Fails
    /\ UNCHANGED <<host, tree, screen, rebinds, toolCalls>>

\* Mutant: the walk follows a link.
WalkFollowing(path) ==
    CASE path = "f" -> Workspace [] path = "d/f" /\ tree.sub = "dir" -> Inner
      [] path = "d/f" /\ tree.sub = "link" -> Outside [] OTHER -> "none"

\* From the descriptor of the root, whatever has its name now, and not
\* through a link.
Walk(path) ==
    CASE path = "f" -> Workspace [] path = "d/f" /\ tree.sub = "dir" -> Inner [] OTHER -> "none"

OpenParent ==
    /\ gateCall.pc = "walk"
    /\ IF Walk(gateCall.path) = "none" THEN Fails
       ELSE gateCall' = [gateCall EXCEPT !.pc = "leaf", !.dir = Walk(gateCall.path)]
    /\ UNCHANGED <<host, tree, screen, rebinds, toolCalls>>

\* Not through a link either; the read goes on from this descriptor.
ReadLeaf ==
    /\ gateCall.pc = "leaf" /\ gateCall.tool = "file.read"
    /\ IF tree.leaf[gateCall.dir] = "file" THEN Done(gateCall.dir) ELSE Fails
    /\ UNCHANGED <<host, tree, screen, rebinds, toolCalls>>

\* The temporary file was made in the parent; a link is replaced, not followed.
RenameLeaf ==
    /\ gateCall.pc = "leaf" /\ gateCall.tool = "file.write"
    /\ tree' = [tree EXCEPT !.leaf[gateCall.dir] = "file"]
    /\ Done(gateCall.dir)
    /\ UNCHANGED <<host, screen, rebinds, toolCalls>>

\* file.edit, search.text and a process resolve their path once more, and then
\* use the name that they found.
ResolveAgain ==
    /\ gateCall.pc = "again"
    /\ IF Resolves(gateCall)
       THEN gateCall' = [gateCall EXCEPT !.pc = IF gateCall.tool = "process.exec" THEN "spawn" ELSE "byname",
                                         !.steady = tree.root = Workspace]
       ELSE Fails
    /\ UNCHANGED <<host, tree, screen, rebinds, toolCalls>>

\* A link that has come to the end of the path is followed.
WorkByName ==
    /\ gateCall.pc = "byname"
    /\ IF Present(gateCall.path) THEN Done(Leads(NamedDirectory(gateCall.path))) ELSE Fails
    /\ UNCHANGED <<host, tree, screen, rebinds, toolCalls>>

\* Mutant: the sandbox starts where the name leads outside of it.
HostDirectories(path) == {NamedDirectory(path)}

\* prepare_command: the sandbox binds the directory it knew at start, and
\* changes into the rest of the path there. A link leads to something in the
\* sandbox, or nowhere.
SandboxDirectories(path) ==
    CASE tree.root # Workspace -> {}
      [] tree.root = Workspace /\ path = "d/f" /\ tree.sub = "link" -> {Workspace, System}
      [] OTHER -> {Walk(path)}

\* Without /proc the child is killed as soon as it has started.
StartProcess ==
    /\ gateCall.pc = "spawn"
    /\ \/ \E dir \in IF gateCall.sandbox THEN SandboxDirectories(gateCall.path)
                    ELSE {NamedDirectory(gateCall.path)} :
             dir # "none" /\ host.procfs /\ Done(dir)
       \/ Fails
    /\ UNCHANGED <<host, tree, screen, rebinds, toolCalls>>

\* Cancelled, not to be captured any more, or the artifact cannot be stored.
CaptureDesktop ==
    /\ gateCall.pc = "desktop" /\ gateCall.tool = "computer.observe"
    /\ \/ ValidateObserve /\ Done(screen)
       \/ Fails
    /\ UNCHANGED <<host, tree, screen, rebinds, toolCalls>>

\* A new connection: the point has to be on the screen that the server tells of.
ConnectDesktop ==
    /\ gateCall.pc = "desktop" /\ gateCall.tool = "computer.interact"
    /\ IF ValidateInteract(gateCall.path) THEN Comes("input") ELSE Fails
    /\ UNCHANGED <<host, tree, screen, rebinds, toolCalls>>

\* The events follow one by one (DesktopInput); nobody looks at the screen again.
SendInput ==
    /\ gateCall.pc = "input"
    /\ \/ screen # "gone" /\ Done(screen)
       \/ Fails
    /\ UNCHANGED <<host, tree, screen, rebinds, toolCalls>>

AnswerCall ==
    /\ gateCall.pc = "done" /\ Fails
    /\ UNCHANGED <<host, tree, screen, rebinds, toolCalls>>

\* Other programs: one name is bound anew. The screen changes its size.
Rebind ==
    /\ rebinds < MaxRebinds /\ rebinds' = rebinds + 1
    /\ \/ \E root \in {Workspace, Outside} : tree' = [tree EXCEPT !.root = root]
       \/ \E sub \in {"dir", "link", "gone"} : tree' = [tree EXCEPT !.sub = sub]
       \/ \E dir \in InTheWorkspace, leaf \in {"file", "link", "gone"} :
            tree' = [tree EXCEPT !.leaf[dir] = leaf]
    /\ gateCall' = IF gateCall.pc = "done" THEN gateCall ELSE [gateCall EXCEPT !.steady = FALSE]
    /\ UNCHANGED <<host, screen, toolCalls>>

ScreenChanges ==
    /\ host.desktop # "none" /\ rebinds < MaxRebinds /\ rebinds' = rebinds + 1
    /\ screen' \in {"large", "small", "gone"}
    /\ UNCHANGED <<host, tree, gateCall, toolCalls>>

GateNext ==
    \/ RequestTool \/ AnswerApproval \/ ExecuteAuthorized \/ VerifyVisibleRoot \/ OpenParent
    \/ ReadLeaf \/ RenameLeaf \/ ResolveAgain \/ WorkByName \/ StartProcess
    \/ CaptureDesktop \/ ConnectDesktop \/ SendInput \/ AnswerCall
    \/ Rebind \/ ScreenChanges

GateSpec == GateInit /\ [][GateNext]_gateVars

-----------------------------------------------------------------------------
(* A call succeeds only with a tool that was offered, that the profile of  *)
(* the run asked for and its mode lets through, and with the consent that  *)
(* the effect needs: nothing but an approval will do for the desktop.      *)
Consented ==
    gateCall.pc = "done" =>
        /\ gateCall.tool \in Definitions
        /\ host.profile # NoProfile =>
             /\ gateCall.tool \in host.profile.requested
             /\ host.profile.mode = "deny" => Effect(gateCall.tool) = "read"
        /\ Effect(gateCall.tool) # "read" =>
             \/ gateCall.consent = "approved"
             \/ host.dangerous /\ Effect(gateCall.tool) # "computer"

(* What file.read answers from and what file.write replaces is in the      *)
(* workspace, and a sandboxed process starts in it or in what the sandbox  *)
(* has of the system, never in another directory of the host, whatever     *)
(* other programs bind to the names on the path while the client thinks it *)
(* over. file.edit, search.text and a process outside the sandbox go by    *)
(* name: they stay inside if no name changes between their last look at    *)
(* the path and its use, and the workspace had its own name at that look.  *)
(* Where a click lands is not promised: the screen may change after the    *)
(* geometry was checked.                                                   *)
StaysInside ==
    gateCall.pc = "done" =>
        /\ gateCall.tool \in {"file.read", "file.write"} => gateCall.dir \in InTheWorkspace
        /\ gateCall.sandbox => gateCall.dir \in InTheWorkspace \cup {System}
        /\ gateCall.steady => gateCall.dir \in InTheWorkspace

EffectsGated == Consented /\ StaysInside
=============================================================================
