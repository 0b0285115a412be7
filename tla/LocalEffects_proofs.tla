------------------------ MODULE LocalEffects_proofs ------------------------
(***************************************************************************)
(* What a tool does to this machine, for every limit and every bound: the  *)
(* output it may leave behind, the way of a call to its effect, the files  *)
(* it reads and replaces, the keys it holds down on the desktop, and the   *)
(* processes it signals. Each component has the inductive invariant that   *)
(* its property rests on, in named parts.                                  *)
(***************************************************************************)
EXTENDS OutputBudget, ToolGate, WorkspaceFiles, DesktopInput, ProcessTree,
        FiniteSetTheorems, SequenceTheorems, TLAPS

-----------------------------------------------------------------------------
(* The output of an execution.                                             *)

BudgetTypes ==
  /\ budget \in [observed : Nat, captured : Nat, overflow : BOOLEAN]
  /\ reader \in [Streams -> [pc : {"read", "load", "reserve", "report", "done"}, total : Nat,
                             kept : Nat, request : Nat, current : Nat, exceeded : BOOLEAN]]

\* What the tasks keep is what they reserved, and never too much of it; what a
\* task saw of the reservations is not more than there is now.
Reserved ==
  /\ budget.captured = Kept /\ Kept <= TotalLimit
  /\ \A s \in Streams : reader[s].pc = "reserve" => reader[s].current <= budget.captured

\* A stream that leaves bytes out has used up a limit, or is about to ask for
\* as much as its own limit has left.
LeftOut(s) ==
  LET r == reader[s]
  IN  /\ r.kept <= r.total /\ r.kept <= StreamLimit
      /\ r.pc \in {"load", "reserve"} =>
           /\ r.kept + r.request <= r.total /\ r.kept + r.request <= StreamLimit
           /\ r.kept + r.request < r.total => r.kept + r.request = StreamLimit \/ Kept = TotalLimit
      /\ r.pc \in {"read", "report", "done"} =>
           (r.kept < r.total => r.kept = StreamLimit \/ Kept = TotalLimit)

\* The overflow is known, or to the task that met it.
Telling(s) == reader[s].pc \in {"load", "reserve", "report"} /\ reader[s].exceeded
OverflowTold ==
  /\ budget.observed = reader["stdout"].total + reader["stderr"].total
  /\ budget.overflow \/ (\E s \in Streams : Telling(s)) => budget.observed > TotalLimit
  /\ budget.observed > TotalLimit => budget.overflow \/ \E s \in Streams : Telling(s)

BudgetInv == BudgetTypes /\ Reserved /\ (\A s \in Streams : LeftOut(s)) /\ OverflowTold

LEMMA BudgetHoldsAtStart == BudgetInit => BudgetInv
BY BudgetAssumption DEF BudgetInit, BudgetInv, BudgetTypes, Reserved, LeftOut, Telling, OverflowTold,
     Streams, Kept

LEMMA BudgetKept == BudgetInv /\ [BudgetNext]_budgetVars => BudgetInv'
<1> SUFFICES ASSUME BudgetInv, [BudgetNext]_budgetVars PROVE BudgetInv'
  OBVIOUS
<1> USE BudgetAssumption DEF BudgetInv, BudgetTypes, Streams, Kept
<1>1. ASSUME NEW s \in Streams, NEW n \in Chunks, ReadChunk(s, n) PROVE BudgetInv'
  <2> n \in Nat \ {0}
    OBVIOUS
  <2>0. /\ budget'.captured = budget.captured
        /\ \A t \in Streams : /\ reader'[t].kept = reader[t].kept /\ reader'[t].current = reader[t].current
                              /\ reader'[t].pc = "reserve" => reader[t].pc = "reserve"
    BY <1>1 DEF ReadChunk
  <2>2. Reserved'
    BY <2>0 DEF Reserved
  <2>1. BudgetTypes'
    BY <1>1 DEF ReadChunk, Smaller, Left
  <2>3. ASSUME NEW t \in Streams PROVE LeftOut(t)'
    <3>1. Kept' = Kept
      BY <2>0
    <3>2. CASE t = s
      <4>1. /\ reader'[s].pc = "load" /\ reader'[s].total = reader[s].total + n
            /\ reader'[s].request = Smaller(n, Left(StreamLimit, reader[s].kept))
        BY <1>1 DEF ReadChunk
      <4>2. reader[s].pc = "read" /\ LeftOut(s)
        BY <1>1 DEF ReadChunk
      <4> QED BY <2>0, <3>1, <3>2, <4>1, <4>2 DEF LeftOut, Smaller, Left
    <3>3. CASE t # s
      <4>1. reader'[t] = reader[t] /\ LeftOut(t)
        BY <1>1, <3>3 DEF ReadChunk
      <4> QED BY <3>1, <4>1 DEF LeftOut
    <3> QED BY <3>2, <3>3
  <2>4. OverflowTold'
    BY <1>1 DEF ReadChunk, OverflowTold, Telling
  <2> QED BY <2>1, <2>2, <2>3, <2>4
<1>2. ASSUME NEW s \in Streams, LoadUsed(s) PROVE BudgetInv'
  BY <1>2 DEF LoadUsed, Reserved, LeftOut, OverflowTold, Telling
<1>3. ASSUME NEW s \in Streams, Reserve(s) PROVE BudgetInv'
  <2> USE <1>3 DEF Reserve, Granted, Keep, Unchanged, Smaller, Left
  <2>1. BudgetTypes'
    OBVIOUS
  <2>2. Reserved'
    BY DEF Reserved
  <2>3. \A t \in Streams : LeftOut(t)'
    BY DEF LeftOut, Reserved
  <2>4. OverflowTold'
    BY DEF OverflowTold, Telling
  <2> QED BY <2>1, <2>2, <2>3, <2>4
<1>4. ASSUME NEW s \in Streams, ReportOverflow(s) PROVE BudgetInv'
  BY <1>4 DEF ReportOverflow, Reserved, LeftOut, OverflowTold, Telling
<1>5. ASSUME NEW s \in Streams, EndOfStream(s) PROVE BudgetInv'
  BY <1>5 DEF EndOfStream, Reserved, LeftOut, OverflowTold, Telling
<1>6. CASE UNCHANGED budgetVars
  BY <1>6 DEF budgetVars, Reserved, LeftOut, OverflowTold, Telling
<1> QED BY <1>1, <1>2, <1>3, <1>4, <1>5, <1>6, Zenon DEF BudgetNext

(* For every limit, the two readers that share a budget without a lock keep  *)
(* no more than it allows, leave bytes out only when a limit is used up, and *)
(* end with the overflow told exactly when there was one (executor.rs,       *)
(* read_bounded and reserve_capture).                                        *)
THEOREM OutputIsAccounted == BudgetSpec => []OutputAccounted
<1>1. BudgetInv => OutputAccounted
  BY DEF BudgetInv, BudgetTypes, Reserved, LeftOut, OverflowTold, Telling, OutputAccounted,
       Smaller, Streams, Kept
<1> QED BY BudgetHoldsAtStart, BudgetKept, <1>1, PTL DEF BudgetSpec

-----------------------------------------------------------------------------
(* The way of a call to its effect.                                        *)

GateTypes ==
  /\ gateCall \in [pc : {"idle", "ask", "allow", "root", "walk", "leaf", "again", "byname", "spawn",
                         "desktop", "input", "done"},
                   tool : ToolNames \cup {"none"}, path : GatePaths \cup Points \cup {"none"},
                   sandbox : BOOLEAN, consent : {"none", "ask", "allow", "approved"},
                   dir : {"none", Workspace, Inner, Outside, System, "large", "small", "gone"},
                   steady : BOOLEAN]
  /\ tree \in [root : {Workspace, Outside}, sub : {"dir", "link", "gone"},
               leaf : [{Workspace, Inner, Outside} -> {"file", "link", "gone"}]]
  /\ screen \in {"large", "small", "gone"}

\* A call that goes on is for a tool of the registry and of the run's profile.
Admitted ==
  gateCall.pc # "idle" =>
    /\ gateCall.tool \in ToolNames
    /\ \A tool \in ToolNames : gateCall.tool = tool => Registered(tool) /\ Permits(tool)
    /\ gateCall.sandbox => gateCall.tool = "process.exec"

\* It is asked about until it has the consent that its effect needs.
Consenting ==
  gateCall.pc \notin {"idle", "ask"} =>
    \/ Effect(gateCall.tool) = "read" \/ gateCall.consent = "approved"
    \/ host.dangerous /\ Effect(gateCall.tool) # "computer"

\* It works where its kind works; the two file tools that go by descriptors
\* have one of a directory in the workspace when they come to the leaf.
OnItsWay ==
  /\ gateCall.pc \in {"root", "walk", "leaf"} => gateCall.tool \in {"file.read", "file.write"}
  /\ gateCall.pc = "again" => gateCall.tool \in {"search.text", "file.edit", "process.exec"}
  /\ gateCall.pc = "spawn" => gateCall.tool = "process.exec"
  /\ gateCall.pc \in {"desktop", "input"} => gateCall.tool \in Desktops
  /\ gateCall.pc = "byname" => gateCall.tool \in {"search.text", "file.edit"}
  /\ gateCall.pc = "leaf" => gateCall.dir \in InTheWorkspace
  /\ gateCall.pc = "done" /\ gateCall.tool = "process.exec" => host.procfs
  /\ StaysInside

\* A call is steady only from its last look at the path on: then the path leads
\* to what it saw.
Steadied ==
  gateCall.steady =>
    /\ gateCall.pc \in {"byname", "spawn", "done"}
    /\ gateCall.pc \in {"byname", "spawn"} => tree.root = Workspace /\ Resolves(gateCall)

GateInv == GateTypes /\ Admitted /\ Consenting /\ OnItsWay /\ Steadied

LEMMA GateHoldsAtStart == GateInit => GateInv
BY DEF GateInit, GateInv, GateTypes, Admitted, Consenting, OnItsWay, StaysInside, Steadied,
     NoToolCall, Workspace, Inner, Outside

(* A call that is done in a directory, or on a screen.                       *)
LEMMA DoneTyped ==
  ASSUME GateTypes, UNCHANGED <<tree, screen>>, NEW dir, Done(dir),
         dir \in {"none", Workspace, Inner, Outside, System, "large", "small", "gone"}
  PROVE  GateTypes'
<1> DEFINE half == [gateCall EXCEPT !.pc = "done"]
<1>1. gateCall' = [half EXCEPT !.dir = dir]
  BY DEF Done
<1>2. /\ half.tool = gateCall.tool /\ half.path = gateCall.path /\ half.sandbox = gateCall.sandbox
      /\ half.consent = gateCall.consent /\ half.steady = gateCall.steady
      /\ half = [pc |-> "done", tool |-> gateCall.tool, path |-> gateCall.path, sandbox |-> gateCall.sandbox,
                 consent |-> gateCall.consent, dir |-> gateCall.dir, steady |-> gateCall.steady]
  BY DEF GateTypes
<1> HIDE DEF half
<1>3. gateCall' = [pc |-> "done", tool |-> gateCall.tool, path |-> gateCall.path, sandbox |-> gateCall.sandbox,
                   consent |-> gateCall.consent, dir |-> dir, steady |-> gateCall.steady]
  BY <1>1, <1>2
<1> QED BY <1>3 DEF GateTypes

(* What a request may become: nothing, or a call that was let in.            *)
LEMMA RequestAdmits ==
  ASSUME GateInv, RequestTool
  PROVE  GateInv'
<1> USE DEF GateInv, GateTypes, Admitted, Consenting, OnItsWay, StaysInside, Steadied
<1>1. UNCHANGED <<host, tree, screen>>
  BY DEF RequestTool
<1>2. CASE gateCall' = NoToolCall
  BY <1>1, <1>2 DEF NoToolCall
<1>3. CASE gateCall' # NoToolCall
  <2>1. PICK tool \in ToolNames, path \in GatePaths \cup Points, sandbox \in BOOLEAN,
             connected \in BOOLEAN :
          LET c == [NoToolCall EXCEPT !.tool = tool, !.path = path, !.sandbox = sandbox]
              decision == Decision(Effect(tool), host.approvals /\ connected)
          IN  /\ sandbox => tool = "process.exec"
              /\ path \in Points <=> tool \in Desktops
              /\ gateCall' = IF ~Permits(tool) \/ ~Preflight(c) \/ decision = "deny" THEN NoToolCall
                             ELSE [c EXCEPT !.pc = decision, !.consent = decision]
    BY DEF RequestTool
  <2> DEFINE c == [NoToolCall EXCEPT !.tool = tool, !.path = path, !.sandbox = sandbox]
             decision == Decision(Effect(tool), host.approvals /\ connected)
  <2>2. /\ Permits(tool) /\ Preflight(c) /\ decision # "deny"
        /\ gateCall' = [c EXCEPT !.pc = decision, !.consent = decision]
    BY <1>3, <2>1, Zenon
  <2>3. c.tool = tool /\ Registered(tool)
    BY <2>2 DEF Preflight, NoToolCall
  <2>4. /\ decision \in {"ask", "allow"}
        /\ decision = "allow" => Effect(tool) # "computer" /\ (Effect(tool) = "read" \/ host.dangerous)
    BY <2>2 DEF Decision, Decide
  <2>5. /\ gateCall'.pc = decision /\ gateCall'.consent = decision /\ gateCall'.tool = tool
        /\ gateCall'.path = path /\ gateCall'.sandbox = sandbox /\ gateCall'.dir = "none"
        /\ gateCall'.steady = FALSE
    BY <2>2 DEF NoToolCall
  <2>6. gateCall' = [pc |-> decision, tool |-> tool, path |-> path, sandbox |-> sandbox,
                     consent |-> decision, dir |-> "none", steady |-> FALSE]
    BY <2>2 DEF NoToolCall
  <2>7. GateTypes'
    BY <1>1, <2>4, <2>6
  <2>8. Registered(tool)' /\ Permits(tool)'
    BY <1>1, <2>2, <2>3 DEF Registered, Permits, Effective, Definitions, ExecutorDefinitions,
         ComputerDefinitions
  <2>9. Admitted'
    BY <2>1, <2>5, <2>8
  <2>10. Consenting'
    BY <1>1, <2>4, <2>5
  <2>11. OnItsWay'
    BY <2>4, <2>5
  <2>12. Steadied'
    BY <2>5
  <2> QED BY <2>7, <2>9, <2>10, <2>11, <2>12
<1> QED BY <1>2, <1>3

\* What a call keeps on its way from one step to the next.
KeepsCall ==
  /\ gateCall'.tool = gateCall.tool /\ gateCall'.path = gateCall.path
  /\ gateCall'.sandbox = gateCall.sandbox /\ gateCall'.consent = gateCall.consent
  /\ gateCall'.steady = gateCall.steady

(* A call that was let in, and has its consent, stays so as it goes on.      *)
LEMMA GoesOn ==
  ASSUME GateInv, UNCHANGED host, gateCall.pc \notin {"idle", "ask"}
  PROVE  /\ \A pc : Comes(pc) => /\ gateCall'.pc = pc /\ gateCall'.dir = gateCall.dir
                                 /\ KeepsCall /\ Admitted' /\ Consenting'
         /\ \A dir : Done(dir) => /\ gateCall'.pc = "done" /\ gateCall'.dir = dir
                                  /\ KeepsCall /\ Admitted' /\ Consenting'
         /\ \A pc, dir : gateCall' = [gateCall EXCEPT !.pc = pc, !.dir = dir] =>
                            /\ gateCall'.pc = pc /\ gateCall'.dir = dir
                            /\ KeepsCall /\ Admitted' /\ Consenting'
<1>1. \A tool : Registered(tool)' = Registered(tool) /\ Permits(tool)' = Permits(tool)
  BY DEF Registered, Permits, Effective, Definitions, ExecutorDefinitions, ComputerDefinitions
<1>2. ASSUME KeepsCall PROVE Admitted' /\ Consenting'
  BY <1>1, <1>2 DEF KeepsCall, GateInv, Admitted, Consenting
<1>3. \A pc : Comes(pc) => gateCall'.pc = pc /\ gateCall'.dir = gateCall.dir /\ KeepsCall
  BY DEF GateInv, GateTypes, Comes, KeepsCall
<1>4. \A dir : Done(dir) => gateCall'.pc = "done" /\ gateCall'.dir = dir /\ KeepsCall
  BY DEF GateInv, GateTypes, Done, KeepsCall
<1>5. \A pc, dir : gateCall' = [gateCall EXCEPT !.pc = pc, !.dir = dir] =>
                     gateCall'.pc = pc /\ gateCall'.dir = dir /\ KeepsCall
  BY DEF GateInv, GateTypes, KeepsCall
<1> QED BY <1>2, <1>3, <1>4, <1>5

LEMMA GateKept == GateInv /\ [GateNext]_gateVars => GateInv'
<1> SUFFICES ASSUME GateInv, [GateNext]_gateVars PROVE GateInv'
  OBVIOUS
<1>0. ASSUME UNCHANGED host
      PROVE \A tool : Registered(tool)' = Registered(tool) /\ Permits(tool)' = Permits(tool)
  BY <1>0 DEF Registered, Permits, Effective, Definitions, ExecutorDefinitions, ComputerDefinitions
<1>1. ASSUME UNCHANGED <<tree, screen>>, Fails PROVE GateInv'
  BY <1>1 DEF Fails, NoToolCall, GateInv, GateTypes, Admitted, Consenting, OnItsWay, StaysInside, Steadied
<1>2. CASE RequestTool
  BY <1>2, RequestAdmits
<1>3. CASE AnswerApproval
  <2>1. CASE Fails
    BY <1>1, <1>3, <2>1 DEF AnswerApproval
  <2>2. CASE gateCall' = [gateCall EXCEPT !.pc = "allow", !.consent = "approved"]
    <3>0. UNCHANGED <<host, tree, screen>> /\ gateCall.pc = "ask"
       BY <1>3 DEF AnswerApproval
    <3>1. GateTypes'
      BY <2>2, <3>0 DEF GateInv, GateTypes
    <3>2. Admitted'
      BY <2>2, <3>0, <1>0 DEF GateInv, GateTypes, Admitted
    <3>3. Consenting'
      BY <2>2, <3>0 DEF GateInv, GateTypes, Consenting
    <3>4. OnItsWay'
      BY <2>2, <3>0 DEF GateInv, GateTypes, OnItsWay, StaysInside
    <3>5. Steadied'
      BY <2>2, <3>0 DEF GateInv, GateTypes, Steadied
    <3> QED BY <3>1, <3>2, <3>3, <3>4, <3>5 DEF GateInv
  <2> QED BY <1>3, <2>1, <2>2 DEF AnswerApproval
<1>4. CASE ExecuteAuthorized
  <2>0. UNCHANGED <<host, tree, screen>> /\ gateCall.pc = "allow"
    BY <1>4 DEF ExecuteAuthorized
  <2>1. CASE Fails
    BY <1>1, <2>0, <2>1
  <2>2. CASE Comes(Branch(gateCall.tool))
    <3>1. Admitted' /\ Consenting' /\ KeepsCall /\ gateCall'.pc = Branch(gateCall.tool)
      BY <2>0, <2>2, GoesOn
    <3>2. GateTypes'
      BY <2>0, <2>2 DEF GateInv, GateTypes, Comes, Branch
    <3>3. OnItsWay'
      <4>1. gateCall.tool \in ToolNames
        BY <2>0 DEF GateInv, Admitted
      <4>2. \/ gateCall'.pc = "root" /\ gateCall.tool \in {"file.read", "file.write"}
            \/ gateCall'.pc = "desktop" /\ gateCall.tool \in Desktops
            \/ gateCall'.pc = "again" /\ gateCall.tool \in {"search.text", "file.edit", "process.exec"}
        BY <3>1, <4>1 DEF Branch, ToolNames, Readers, Writers_
      <4> QED BY <3>1, <4>2 DEF OnItsWay, StaysInside, KeepsCall
    <3>4. ~gateCall.steady /\ Steadied'
      BY <1>4, <2>0, <3>1 DEF ExecuteAuthorized, GateInv, GateTypes, Steadied, KeepsCall
    <3> QED BY <3>1, <3>2, <3>3, <3>4 DEF GateInv
  <2> QED BY <1>4, <2>1, <2>2 DEF ExecuteAuthorized
<1>5. CASE VerifyVisibleRoot
  <2>0. UNCHANGED <<host, tree, screen>> /\ gateCall.pc = "root"
    BY <1>5 DEF VerifyVisibleRoot
  <2>1. CASE Fails
    BY <1>1, <2>0, <2>1
  <2>2. CASE Comes("walk")
    <3>1. Admitted' /\ Consenting' /\ KeepsCall /\ gateCall'.pc = "walk"
      BY <2>0, <2>2, GoesOn
    <3>2. GateTypes'
      BY <2>0, <2>2, <1>5 DEF VerifyVisibleRoot, GateInv, GateTypes, Comes
    <3>3. OnItsWay'
      BY <2>0, <2>2, <1>5, GoesOn DEF VerifyVisibleRoot, GateInv, OnItsWay, StaysInside, KeepsCall, Comes
    <3>4. ~gateCall.steady /\ Steadied'
      BY <1>5, <2>0, <3>1 DEF VerifyVisibleRoot, GateInv, GateTypes, Steadied, KeepsCall
    <3> QED BY <3>1, <3>2, <3>3, <3>4 DEF GateInv
  <2> QED BY <1>5, <2>1, <2>2 DEF VerifyVisibleRoot
<1>6. CASE OpenParent
  <2>0. UNCHANGED <<host, tree, screen>> /\ gateCall.pc = "walk"
    BY <1>6 DEF OpenParent
  <2>1. CASE Fails
    BY <1>1, <2>0, <2>1
  <2>2. CASE /\ Walk(gateCall.path) # "none"
             /\ gateCall' = [gateCall EXCEPT !.pc = "leaf", !.dir = Walk(gateCall.path)]
    <3>1. /\ Admitted' /\ Consenting' /\ KeepsCall
          /\ gateCall'.pc = "leaf" /\ gateCall'.dir = Walk(gateCall.path)
      BY <2>0, <2>2, GoesOn
    <3>2. GateTypes'
      BY <2>0, <2>2 DEF GateInv, GateTypes, Walk, InTheWorkspace, Workspace, Inner, Outside
    <3>3. Walk(gateCall.path) \in InTheWorkspace
      BY <2>2 DEF Walk, InTheWorkspace, Workspace, Inner, Outside
    <3>4. OnItsWay'
      BY <2>0, <3>1, <3>3 DEF GateInv, OnItsWay, StaysInside, KeepsCall
    <3>5. Steadied'
      BY <2>0, <3>1 DEF GateInv, Steadied, KeepsCall
    <3> QED BY <3>1, <3>2, <3>4, <3>5 DEF GateInv
  <2> QED BY <1>6, <2>1, <2>2 DEF OpenParent
<1>7. CASE ReadLeaf
  <2>0. /\ UNCHANGED <<host, tree, screen>>
        /\ gateCall.pc = "leaf" /\ gateCall.tool = "file.read"
    BY <1>7 DEF ReadLeaf
  <2>1. CASE Fails
    BY <1>1, <2>0, <2>1
  <2>2. CASE Done(gateCall.dir)
    <3>1. Admitted' /\ Consenting' /\ KeepsCall /\ gateCall'.pc = "done" /\ gateCall'.dir = gateCall.dir
      BY <2>0, <2>2, GoesOn
    <3>2. GateTypes'
      BY <2>0, <2>2, DoneTyped DEF GateInv, GateTypes
    <3>3. OnItsWay'
      BY <2>0, <3>1 DEF GateInv, OnItsWay, StaysInside, KeepsCall
    <3>4. Steadied'
      BY <2>0, <3>1 DEF GateInv, Steadied, KeepsCall
    <3> QED BY <3>1, <3>2, <3>3, <3>4 DEF GateInv
  <2> QED BY <1>7, <2>1, <2>2 DEF ReadLeaf
<1>8. CASE RenameLeaf
  <2>0. UNCHANGED <<host, screen>> /\ gateCall.pc = "leaf" /\ gateCall.tool = "file.write"
    BY <1>8 DEF RenameLeaf
  <2>1. Admitted' /\ Consenting' /\ KeepsCall /\ gateCall'.pc = "done" /\ gateCall'.dir = gateCall.dir
    BY <1>8, <2>0, GoesOn DEF RenameLeaf
  <2>2. GateTypes'
    BY <1>8, <2>0 DEF RenameLeaf, Done, GateInv, GateTypes
  <2>3. OnItsWay'
    BY <2>0, <2>1 DEF GateInv, OnItsWay, StaysInside, KeepsCall
  <2>4. Steadied'
    BY <2>0, <2>1 DEF GateInv, Steadied, KeepsCall
  <2> QED BY <2>1, <2>2, <2>3, <2>4 DEF GateInv
<1>9. CASE ResolveAgain
  <2>0. UNCHANGED <<host, tree, screen>> /\ gateCall.pc = "again"
    BY <1>9 DEF ResolveAgain
  <2>1. CASE Fails
    BY <1>1, <2>0, <2>1
  <2>2. CASE ~Fails
    <3> DEFINE pc == IF gateCall.tool = "process.exec" THEN "spawn" ELSE "byname"
               sure == tree.root = Workspace
    <3>1. Resolves(gateCall) /\ gateCall' = [gateCall EXCEPT !.pc = pc, !.steady = sure]
      BY <1>9, <2>2 DEF ResolveAgain
    <3>2. pc \in {"spawn", "byname"} /\ sure \in BOOLEAN
      OBVIOUS
    <3> HIDE DEF pc, sure
    <3>3. /\ gateCall'.pc = pc /\ gateCall'.steady = sure /\ gateCall'.tool = gateCall.tool
          /\ gateCall'.path = gateCall.path /\ gateCall'.sandbox = gateCall.sandbox
          /\ gateCall'.consent = gateCall.consent
      BY <3>1 DEF GateInv, GateTypes
    <3>4. GateTypes'
      BY <2>0, <3>1, <3>2 DEF GateInv, GateTypes
    <3>5. Admitted'
      BY <1>0, <2>0, <3>3 DEF GateInv, Admitted
    <3>6. Consenting'
      BY <2>0, <3>3 DEF GateInv, Consenting
    <3>7. OnItsWay'
      BY <2>0, <3>3 DEF GateInv, OnItsWay, StaysInside, pc
    <3>8. Resolves(gateCall)'
      BY <2>0, <3>1, <3>3 DEF Resolves, ExecutionOptions, ResolveDirectory, RequireBackend, ResolveExisting,
           Present, NamedDirectory, Within, Leads
    <3>9. Steadied'
      BY <2>0, <3>2, <3>3, <3>8 DEF Steadied, sure
    <3> QED BY <3>4, <3>5, <3>6, <3>7, <3>9 DEF GateInv
  <2> QED BY <2>1, <2>2
<1>10. CASE WorkByName
  <2> DEFINE dir == Leads(NamedDirectory(gateCall.path))
  <2>0. UNCHANGED <<host, tree, screen>> /\ gateCall.pc = "byname"
    BY <1>10 DEF WorkByName
  <2>1. CASE Fails
    BY <1>1, <2>0, <2>1
  <2>2. CASE Done(dir)
    <3>1. dir \in {"none", Workspace, Inner, Outside}
      BY DEF GateInv, GateTypes, NamedDirectory, Leads
    <3>2. gateCall.steady => dir \in InTheWorkspace
      BY <2>0 DEF GateInv, Steadied, OnItsWay, Resolves, ResolveExisting, Within
    <3> HIDE DEF dir
    <3>3. Admitted' /\ Consenting' /\ KeepsCall /\ gateCall'.pc = "done" /\ gateCall'.dir = dir
      BY <2>0, <2>2, GoesOn
    <3>4. GateTypes'
      BY <2>0, <2>2, <3>1, DoneTyped DEF GateInv
    <3>5. gateCall'.tool \in {"search.text", "file.edit"} /\ ~gateCall'.sandbox
      <4>1. gateCall.tool \in {"search.text", "file.edit"} /\ gateCall.sandbox \in BOOLEAN
        BY <2>0 DEF GateInv, GateTypes, OnItsWay
      <4>2. gateCall.sandbox => gateCall.tool = "process.exec"
        BY <2>0 DEF GateInv, Admitted
      <4> QED BY <3>3, <4>1, <4>2 DEF KeepsCall
    <3>6. OnItsWay'
      BY <3>2, <3>3, <3>5 DEF OnItsWay, StaysInside, KeepsCall
    <3>7. Steadied'
      BY <3>3 DEF Steadied
    <3> QED BY <3>3, <3>4, <3>6, <3>7 DEF GateInv
  <2> QED BY <1>10, <2>1, <2>2 DEF WorkByName
<1>11. CASE StartProcess
  <2>0. UNCHANGED <<host, tree, screen>> /\ gateCall.pc = "spawn" /\ gateCall.tool = "process.exec"
    BY <1>11 DEF StartProcess, GateInv, OnItsWay
  <2>1. CASE Fails
    BY <1>1, <2>0, <2>1
  <2>2. CASE \E dir \in IF gateCall.sandbox THEN SandboxDirectories(gateCall.path)
                        ELSE {NamedDirectory(gateCall.path)} :
               dir # "none" /\ host.procfs /\ Done(dir)
    <3>1. PICK dir \in IF gateCall.sandbox THEN SandboxDirectories(gateCall.path)
                       ELSE {NamedDirectory(gateCall.path)} :
                 dir # "none" /\ host.procfs /\ Done(dir)
      BY <2>2
    <3>2. /\ dir \in {Workspace, Inner, Outside, System}
          /\ gateCall.sandbox => dir \in InTheWorkspace \cup {System}
      BY <3>1 DEF GateInv, GateTypes, NamedDirectory, SandboxDirectories, Walk, InTheWorkspace
    <3>3. gateCall.steady => dir \in InTheWorkspace
      <4> SUFFICES ASSUME gateCall.steady PROVE dir \in InTheWorkspace
        OBVIOUS
      <4>1. tree.root = Workspace /\ ResolveDirectory(gateCall.path)
        BY <2>0 DEF GateInv, Steadied, Resolves, ExecutionOptions
      <4>2. CASE gateCall.path = "f"
        BY <3>1, <4>1, <4>2 DEF SandboxDirectories, NamedDirectory, Walk, InTheWorkspace
      <4>3. CASE gateCall.path = "d/f" /\ tree.sub = "dir"
        BY <3>1, <4>1, <4>3 DEF SandboxDirectories, NamedDirectory, Walk, InTheWorkspace, Workspace
      <4>4. CASE gateCall.path # "f" /\ ~(gateCall.path = "d/f" /\ tree.sub = "dir")
        <5>1. NamedDirectory(gateCall.path) \in {Outside, "none"}
          BY <4>1, <4>4 DEF NamedDirectory, GateInv, GateTypes
        <5> QED BY <4>1, <5>1 DEF ResolveDirectory, Within, InTheWorkspace, Workspace, Inner, Outside
      <4> QED BY <4>2, <4>3, <4>4
    <3>4. Admitted' /\ Consenting' /\ KeepsCall /\ gateCall'.pc = "done" /\ gateCall'.dir = dir
      BY <2>0, <3>1, GoesOn
    <3>5. GateTypes'
      BY <2>0, <3>1, <3>2, DoneTyped DEF GateInv
    <3>6. OnItsWay'
      BY <2>0, <3>1, <3>2, <3>3, <3>4 DEF OnItsWay, StaysInside, KeepsCall
    <3>7. Steadied'
      BY <3>4 DEF Steadied
    <3> QED BY <3>4, <3>5, <3>6, <3>7 DEF GateInv
  <2> QED BY <1>11, <2>1, <2>2 DEF StartProcess
<1>12. ASSUME CaptureDesktop \/ SendInput PROVE GateInv'
  <2>0. UNCHANGED <<host, tree, screen>> /\ gateCall.pc \in {"desktop", "input"}
    BY <1>12 DEF CaptureDesktop, SendInput
  <2>1. CASE Fails
    BY <1>1, <2>0, <2>1
  <2>2. CASE Done(screen)
    <3>1. Admitted' /\ Consenting' /\ KeepsCall /\ gateCall'.pc = "done"
      BY <2>0, <2>2, GoesOn
    <3>2. GateTypes'
      BY <2>0, <2>2, DoneTyped DEF GateInv, GateTypes
    <3>3. gateCall.tool \in Desktops /\ ~gateCall.sandbox /\ ~gateCall.steady
      <4>1. gateCall.tool \in Desktops
        BY <2>0 DEF GateInv, OnItsWay
      <4> QED BY <2>0, <4>1 DEF GateInv, GateTypes, Admitted, Steadied, Desktops
    <3>4. OnItsWay'
      BY <3>1, <3>3 DEF OnItsWay, StaysInside, KeepsCall, Desktops
    <3>5. Steadied'
      BY <3>1 DEF Steadied
    <3> QED BY <3>1, <3>2, <3>4, <3>5 DEF GateInv
  <2> QED BY <1>12, <2>1, <2>2 DEF CaptureDesktop, SendInput
<1>13. CASE ConnectDesktop
  <2>0. UNCHANGED <<host, tree, screen>> /\ gateCall.pc = "desktop"
    BY <1>13 DEF ConnectDesktop
  <2>1. CASE Fails
    BY <1>1, <2>0, <2>1
  <2>2. CASE Comes("input")
    <3>1. Admitted' /\ Consenting' /\ KeepsCall /\ gateCall'.pc = "input"
      BY <2>0, <2>2, GoesOn
    <3>2. GateTypes'
      BY <2>0, <2>2 DEF GateInv, GateTypes, Comes
    <3>3. OnItsWay'
      BY <2>0, <3>1 DEF GateInv, OnItsWay, StaysInside, KeepsCall
    <3>4. Steadied'
      BY <2>0, <3>1 DEF GateInv, Steadied, KeepsCall
    <3> QED BY <3>1, <3>2, <3>3, <3>4 DEF GateInv
  <2> QED BY <1>13, <2>1, <2>2 DEF ConnectDesktop
<1>14. CASE AnswerCall
  BY <1>1, <1>14 DEF AnswerCall
<1>15. ASSUME UNCHANGED <<host, gateCall>>
       PROVE Admitted' /\ Consenting' /\ OnItsWay'
  BY <1>0, <1>15 DEF GateInv, Admitted, Consenting, OnItsWay, StaysInside
<1>16. CASE Rebind
  <2>0. UNCHANGED <<host, screen>>
    BY <1>16 DEF Rebind
  <2>1. tree' \in [root : {Workspace, Outside}, sub : {"dir", "link", "gone"},
                   leaf : [{Workspace, Inner, Outside} -> {"file", "link", "gone"}]]
    BY <1>16 DEF Rebind, InTheWorkspace, GateInv, GateTypes
  <2>2. CASE gateCall.pc = "done"
    <3>1. gateCall' = gateCall
      BY <1>16, <2>2 DEF Rebind
    <3>2. GateTypes'
      BY <2>0, <2>1, <3>1 DEF GateInv, GateTypes
    <3>3. Steadied'
      BY <2>2, <3>1 DEF Steadied
    <3> QED BY <1>15, <2>0, <3>1, <3>2, <3>3 DEF GateInv
  <2>3. CASE gateCall.pc # "done"
    <3>1. gateCall' = [gateCall EXCEPT !.steady = FALSE]
      BY <1>16, <2>3 DEF Rebind
    <3>2. /\ gateCall'.pc = gateCall.pc /\ gateCall'.steady = FALSE /\ gateCall'.tool = gateCall.tool
          /\ gateCall'.path = gateCall.path /\ gateCall'.sandbox = gateCall.sandbox
          /\ gateCall'.consent = gateCall.consent /\ gateCall'.dir = gateCall.dir
      BY <3>1 DEF GateInv, GateTypes
    <3>3. GateTypes'
      BY <2>0, <2>1, <3>1 DEF GateInv, GateTypes
    <3>4. Admitted'
      BY <1>0, <2>0, <3>2 DEF GateInv, Admitted
    <3>5. Consenting'
      BY <2>0, <3>2 DEF GateInv, Consenting
    <3>6. OnItsWay'
      BY <2>0, <2>3, <3>2 DEF GateInv, OnItsWay, StaysInside
    <3>7. Steadied'
      BY <3>2 DEF Steadied
    <3> QED BY <3>3, <3>4, <3>5, <3>6, <3>7 DEF GateInv
  <2> QED BY <2>2, <2>3
<1>17. ASSUME UNCHANGED <<host, tree, gateCall>>, screen' \in {"large", "small", "gone"} PROVE GateInv'
  <2>1. GateTypes'
    BY <1>17 DEF GateInv, GateTypes
  <2>2. Steadied'
    BY <1>17 DEF GateInv, Steadied, Resolves, ExecutionOptions, ResolveDirectory, RequireBackend,
         ResolveExisting, Present, NamedDirectory, Within, Leads
  <2> QED BY <1>15, <1>17, <2>1, <2>2 DEF GateInv
<1>18. CASE ScreenChanges
  BY <1>17, <1>18 DEF ScreenChanges
<1>19. CASE UNCHANGED gateVars
  BY <1>17, <1>19 DEF gateVars, GateInv, GateTypes
<1> QED BY <1>2, <1>3, <1>4, <1>5, <1>6, <1>7, <1>8, <1>9, <1>10, <1>11, <1>12, <1>13, <1>14,
           <1>16, <1>18, <1>19 DEF GateNext

(* Whatever other programs do to the names of the workspace while a client  *)
(* thinks, a call succeeds only with a tool that its run may use and the    *)
(* consent its effect needs; file.read and file.write stay in the           *)
(* workspace, a sandboxed process in it or in what its sandbox has of the   *)
(* system, and what goes by name stays inside unless a name changes after   *)
(* its last look (tools.rs, path_boundary.rs, hard_sandbox.rs).             *)
THEOREM EffectsAreGated == GateSpec => []EffectsGated
<1>1. GateInv => EffectsGated
  <2> SUFFICES ASSUME GateInv, gateCall.pc = "done" PROVE Consented
    BY DEF GateInv, OnItsWay, StaysInside, Consented, EffectsGated
  <2>1. gateCall.tool \in Definitions
    BY DEF GateInv, Admitted, OnItsWay, Registered, Definitions, ExecutorDefinitions,
         ComputerDefinitions, ToolNames, Desktops, Readers, Writers_
  <2>2. host.profile # NoProfile =>
          /\ gateCall.tool \in host.profile.requested
          /\ host.profile.mode = "deny" => Effect(gateCall.tool) = "read"
    BY DEF GateInv, Admitted, Permits, Effective
  <2> QED BY <2>1, <2>2 DEF GateInv, Consenting, Consented
<1> QED BY GateHoldsAtStart, GateKept, <1>1, PTL DEF GateSpec

-----------------------------------------------------------------------------
(* The files of the workspace.                                             *)

Bytes == {Old, New}
Files == [data : Seq(Bytes \cup {"torn"}), synced : BOOLEAN, maker : {"user", "write", "edit"}]

ToolCalls == [pc : {"idle", "create", "open", "read", "answered", "fill", "rename", "remove", "sync"},
              op : {"none", "read", "write", "edit", "search"}, path : Paths \cup {"none"},
              text : Seq(Bytes \cup {"torn"}), inode : Nat]

FilesTypes ==
  /\ inodes \in Seq(Files) /\ temporary \subseteq Nat
  /\ names \in [Paths -> Nat] /\ durable \in [Paths -> Nat]
  /\ toolCall \in [Calls -> ToolCalls] /\ outage \in BOOLEAN

\* A file that was written, to its end.
WholeFile(ls, i) == i \in DOMAIN ls /\ ls[i].data \in Seq(Bytes)

\* What a name leads to is whole; what is not synced, an edit made or nobody
\* wrote to its end.
NamesWhole ==
  /\ \A p \in Paths : WholeFile(inodes, names[p]) /\ WholeFile(inodes, durable[p])
  /\ \A i \in DOMAIN inodes : WholeFile(inodes, i) => inodes[i].synced \/ inodes[i].maker = "edit"

\* A call reads a whole file, and writes whole text to a file that it made.
SoundCall(n, ls) ==
  /\ n.pc \in {"open", "read", "create", "fill", "rename"} => n.path \in Paths
  /\ n.pc = "read" => WholeFile(ls, n.inode)
  /\ n.pc = "create" => n.op \in {"write", "edit"}
  /\ n.pc \in {"create", "fill"} => n.text \in Seq(Bytes)
  /\ n.pc \in {"fill", "rename"} => n.inode \in DOMAIN ls /\ ls[n.inode].maker = n.op
  /\ n.pc = "rename" => WholeFile(ls, n.inode)
CallsSound == \A c \in Calls : SoundCall(toolCall[c], inodes)

\* The temporary file of a write is in the hands of its call.
Holds(n, i) == n.inode = i /\ n.pc \in {"fill", "rename", "remove"}
LitterInHand ==
  \A i \in temporary :
    i \in DOMAIN inodes /\ (inodes[i].maker = "write" => \E c \in Calls : Holds(toolCall[c], i))

\* What an outage may have torn.
TornByEdit ==
  \A p \in Paths : inodes[names[p]].data = HalfWritten => outage /\ inodes[names[p]].maker = "edit"

FilesInv ==
  /\ FilesTypes
  /\ ~outage => NamesWhole /\ CallsSound /\ LitterInHand
  /\ TornByEdit

(* No file that was written to its end reads as half of one.                 *)
LEMMA WholeIsNotTorn == \A d \in Seq(Bytes) : d # HalfWritten
BY FilesAssumption DEF Bytes, HalfWritten

LEMMA FilesHoldAtStart == FilesInit => FilesInv
<1> SUFFICES ASSUME FilesInit PROVE FilesInv
  OBVIOUS
<1>1. Cardinality(Paths) \in Nat
  BY FS_CardinalityType, FilesAssumption
<1>2. <<Old>> \in Seq(Bytes) /\ <<Old>> # HalfWritten
  <2>1. <<Old>> \in Seq(Bytes)
    BY DEF Bytes
  <2> QED BY <2>1, WholeIsNotTorn
<1>3. inodes \in Seq(Files) /\ DOMAIN inodes = 1 .. Cardinality(Paths)
  <2> DEFINE first == File(<<Old>>, TRUE, "user")
  <2>1. <<Old>> \in Seq(Bytes \cup {"torn"})
    BY DEF Bytes
  <2>2. first \in Files
    BY <2>1 DEF Files, File
  <2>3. inodes = [i \in 1 .. Cardinality(Paths) |-> first]
    BY DEF FilesInit
  <2> HIDE DEF first
  <2> QED BY <1>1, <2>2, <2>3
<1>4. names \in [Paths -> DOMAIN inodes] /\ durable = names
  BY DEF FilesInit
<1>5. \A i \in DOMAIN inodes : inodes[i].data = <<Old>> /\ inodes[i].synced
  <2>1. \A i \in DOMAIN inodes : inodes[i] = File(<<Old>>, TRUE, "user")
    BY <1>3 DEF FilesInit
  <2> QED BY <2>1 DEF File
<1>6. FilesTypes
  <2>1. <<>> \in Seq(Bytes \cup {"torn"})
    OBVIOUS
  <2>2. toolCall = [c \in Calls |-> NoCall] /\ outage = FALSE
    BY DEF FilesInit
  <2>3. DOMAIN inodes \subseteq Nat
    BY <1>1, <1>3
  <2>4. NoCall \in ToolCalls /\ temporary = {}
    BY <2>1 DEF NoCall, ToolCalls, FilesInit
  <2> QED BY <1>3, <1>4, <2>2, <2>3, <2>4 DEF FilesTypes
<1>7. NamesWhole /\ TornByEdit
  BY <1>2, <1>4, <1>5 DEF NamesWhole, WholeFile, TornByEdit
<1>8. CallsSound /\ LitterInHand
  BY DEF FilesInit, CallsSound, SoundCall, LitterInHand, NoCall
<1> QED BY <1>6, <1>7, <1>8 DEF FilesInv

\* An operation of the file tools with the call c.
CallStep(c) ==
  \/ StartCall(c) \/ OpenFile(c) \/ ReadFile(c) \/ Answered(c) \/ CreateTemporary(c)
  \/ Fill(c) \/ Rename(c) \/ SyncParent(c) \/ RemoveTemporary(c)

(* A call's step changes that call alone.                                    *)
LEMMA OneCallMoves ==
  ASSUME FilesTypes, NEW c \in Calls, CallStep(c)
  PROVE  /\ \A d \in Calls \ {c} : toolCall'[d] = toolCall[d]
         /\ outage' = outage
<1>1. DOMAIN toolCall = Calls
  BY DEF FilesTypes
<1> QED BY <1>1 DEF CallStep, StartCall, OpenFile, ReadFile, Answered, CreateTemporary, Fill, Rename,
              SyncParent, RemoveTemporary, Over, Proceed

(* What was sound stays so as long as files are made and filled only.        *)
LEMMA SoundStays ==
  ASSUME NEW ls, NEW ms, DOMAIN ls \subseteq DOMAIN ms,
         \A i \in DOMAIN ls : ms[i].maker = ls[i].maker,
         \A i : WholeFile(ls, i) => WholeFile(ms, i)
  PROVE  \A n : SoundCall(n, ls) => SoundCall(n, ms)
BY DEF SoundCall

(* A step of a call that leaves the files alone, and holds none of its own.   *)
LEMMA LookingStep ==
  ASSUME FilesInv, ~outage, UNCHANGED <<inodes, names, durable, temporary, outage>>,
         NEW c \in Calls, toolCall[c].pc \notin {"fill", "rename", "remove"},
         NEW n \in ToolCalls, SoundCall(n, inodes), toolCall' = [toolCall EXCEPT ![c] = n]
  PROVE  FilesInv'
<1>1. toolCall' \in [Calls -> ToolCalls] /\ toolCall'[c] = n
      /\ \A d \in Calls \ {c} : toolCall'[d] = toolCall[d]
  BY DEF FilesInv, FilesTypes
<1>2. FilesTypes'
  BY <1>1 DEF FilesInv, FilesTypes
<1>3. NamesWhole' /\ TornByEdit'
  BY DEF FilesInv, NamesWhole, TornByEdit
<1>4. CallsSound'
  BY <1>1 DEF FilesInv, CallsSound
<1>5. LitterInHand'
  BY <1>1 DEF FilesInv, LitterInHand, Holds
<1> QED BY <1>2, <1>3, <1>4, <1>5 DEF FilesInv

LEMMA StartKept ==
  ASSUME FilesInv, ~outage, NEW c \in Calls, StartCall(c)
  PROVE  FilesInv'
<1>1. PICK op \in {"read", "write", "edit", "search"}, p \in Paths :
        toolCall' = [toolCall EXCEPT ![c] = [NoCall EXCEPT !.op = op, !.path = p, !.text = <<New>>,
                     !.pc = IF op = "write" THEN "create" ELSE "open"]]
  BY DEF StartCall
<1> DEFINE n == [NoCall EXCEPT !.op = op, !.path = p, !.text = <<New>>,
                 !.pc = IF op = "write" THEN "create" ELSE "open"]
<1>2. <<New>> \in Seq(Bytes) /\ <<New>> \in Seq(Bytes \cup {"torn"})
  BY DEF Bytes
<1>3. n \in ToolCalls /\ SoundCall(n, inodes)
  BY <1>2 DEF NoCall, ToolCalls, SoundCall
<1>4. UNCHANGED <<inodes, names, durable, temporary, outage>> /\ toolCall[c].pc = "idle"
  BY DEF StartCall
<1> HIDE DEF n
<1> QED BY <1>1, <1>3, <1>4, LookingStep DEF n

LEMMA OverKept ==
  ASSUME FilesInv, ~outage, UNCHANGED <<inodes, names, durable, temporary, outage>>,
         NEW c \in Calls, toolCall[c].pc \notin {"fill", "rename", "remove"}, Over(c)
  PROVE  FilesInv'
<1>1. NoCall \in ToolCalls /\ SoundCall(NoCall, inodes)
  <2>1. <<>> \in Seq(Bytes \cup {"torn"})
    OBVIOUS
  <2> QED BY <2>1 DEF NoCall, ToolCalls, SoundCall
<1> QED BY <1>1, LookingStep DEF Over

LEMMA OpenKept ==
  ASSUME FilesInv, ~outage, NEW c \in Calls, OpenFile(c)
  PROVE  FilesInv'
<1> DEFINE i == names[toolCall[c].path]
           n == [toolCall[c] EXCEPT !.pc = "read", !.inode = i]
<1>1. toolCall[c].pc = "open" /\ UNCHANGED <<inodes, names, durable, temporary, outage>>
  BY DEF OpenFile
<1>2. toolCall[c] \in ToolCalls /\ toolCall[c].path \in Paths
  BY <1>1 DEF FilesInv, FilesTypes, CallsSound, SoundCall
<1>3. i \in Nat /\ WholeFile(inodes, i)
  BY <1>2 DEF FilesInv, FilesTypes, NamesWhole
<1>4. Over(c) \/ toolCall' = [toolCall EXCEPT ![c] = n]
  BY DEF OpenFile
<1>5. n \in ToolCalls /\ SoundCall(n, inodes)
  BY <1>2, <1>3 DEF ToolCalls, SoundCall
<1> HIDE DEF n
<1> QED BY <1>1, <1>4, <1>5, OverKept, LookingStep

(* What an edit makes of a whole file is whole.                              *)
LEMMA ReplacedIsWhole == \A d \in Seq(Bytes) : Replaced(d) \in Seq(Bytes)
<1> TAKE d \in Seq(Bytes)
<1>1. Len(d) \in Nat /\ DOMAIN d = 1 .. Len(d) /\ \A i \in DOMAIN d : d[i] \in Bytes
  OBVIOUS
<1>2. Replaced(d) = [i \in 1 .. Len(d) |-> IF d[i] = Old THEN New ELSE d[i]]
  BY <1>1 DEF Replaced
<1> QED BY <1>1, <1>2 DEF Bytes

(* What a read answers is the file to its end, or it answers nothing.         *)
LEMMA AnswerIsWhole ==
  ASSUME FilesInv, ~outage, NEW c \in Calls, ReadFile(c), ~Over(c)
  PROVE  \/ /\ toolCall[c].op = "edit"
            /\ toolCall' = [toolCall EXCEPT ![c].pc = "create",
                                            ![c].text = Replaced(inodes[toolCall[c].inode].data)]
         \/ toolCall' = [toolCall EXCEPT ![c].pc = "answered",
                                         ![c].text = inodes[toolCall[c].inode].data]
<1> DEFINE data == inodes[toolCall[c].inode].data
<1>1. CASE toolCall[c].op = "edit"
  BY <1>1 DEF ReadFile
<1>2. CASE toolCall[c].op # "edit"
  <2>1. /\ Fits(c, Asked(c, data))
        /\ toolCall' = [toolCall EXCEPT ![c].pc = "answered", ![c].text = Asked(c, data)]
    BY <1>2 DEF ReadFile
  <2>2. data \in Seq(Bytes) /\ Len(data) \in Nat
    BY DEF FilesInv, CallsSound, SoundCall, WholeFile, ReadFile
  <2>3. MaxReadBytes \in Nat
    BY FilesAssumption
  <2> HIDE DEF data
  <2>4. Asked(c, data) = data
    BY <2>1, <2>2, <2>3 DEF Fits, Asked
  <2> QED BY <2>1, <2>4 DEF data
<1> QED BY <1>1, <1>2

LEMMA ReadKept ==
  ASSUME FilesInv, ~outage, NEW c \in Calls, ReadFile(c)
  PROVE  FilesInv'
<1> DEFINE data == inodes[toolCall[c].inode].data
           edited == [toolCall[c] EXCEPT !.pc = "create", !.text = Replaced(data)]
           read == [toolCall[c] EXCEPT !.pc = "answered", !.text = data]
<1>1. toolCall[c].pc = "read" /\ UNCHANGED <<inodes, names, durable, temporary, outage>>
  BY DEF ReadFile
<1>2. toolCall[c] \in ToolCalls /\ toolCall[c].path \in Paths /\ data \in Seq(Bytes)
  BY <1>1 DEF FilesInv, FilesTypes, CallsSound, SoundCall, WholeFile
<1>3. Seq(Bytes) \subseteq Seq(Bytes \cup {"torn"})
  OBVIOUS
<1>4. read \in ToolCalls /\ SoundCall(read, inodes)
  BY <1>2, <1>3 DEF ToolCalls, SoundCall
<1>5. Replaced(data) \in Seq(Bytes) /\ Replaced(data) \in Seq(Bytes \cup {"torn"})
  BY <1>2, <1>3, ReplacedIsWhole
<1>6. toolCall[c].op = "edit" => edited \in ToolCalls /\ SoundCall(edited, inodes)
  BY <1>2, <1>5 DEF ToolCalls, SoundCall
<1>7. \/ Over(c)
      \/ toolCall[c].op = "edit" /\ toolCall' = [toolCall EXCEPT ![c] = edited]
      \/ toolCall' = [toolCall EXCEPT ![c] = read]
  BY AnswerIsWhole
<1> HIDE DEF edited, read
<1> QED BY <1>1, <1>4, <1>6, <1>7, OverKept, LookingStep

LEMMA CreateKept ==
  ASSUME FilesInv, ~outage, NEW c \in Calls, CreateTemporary(c)
  PROVE  FilesInv'
<1>1. toolCall[c].pc = "create" /\ UNCHANGED <<names, durable, outage>>
  BY DEF CreateTemporary
<1>2. CASE Over(c) /\ UNCHANGED <<inodes, temporary>>
  BY <1>1, <1>2, OverKept
<1>3. CASE /\ inodes' = Append(inodes, File(HalfWritten, FALSE, toolCall[c].op))
           /\ temporary' = temporary \cup {Len(inodes) + 1}
           /\ toolCall' = [toolCall EXCEPT ![c].pc = "fill", ![c].inode = Len(inodes) + 1]
  <2> DEFINE new == File(HalfWritten, FALSE, toolCall[c].op)
             n == [toolCall[c] EXCEPT !.pc = "fill", !.inode = Len(inodes) + 1]
  <2>1. /\ toolCall[c] \in ToolCalls /\ toolCall[c].op \in {"write", "edit"}
        /\ toolCall[c].text \in Seq(Bytes) /\ toolCall[c].path \in Paths
    BY <1>1 DEF FilesInv, FilesTypes, CallsSound, SoundCall
  <2>2. new \in Files /\ new.maker = toolCall[c].op /\ new.data = HalfWritten
    <3>1. HalfWritten \in Seq(Bytes \cup {"torn"})
      BY DEF HalfWritten
    <3> QED BY <2>1, <3>1 DEF File, Files
  <2> HIDE DEF new
  <2>3. inodes \in Seq(Files) /\ Len(inodes) \in Nat /\ DOMAIN inodes = 1 .. Len(inodes)
    BY DEF FilesInv, FilesTypes
  <2>4. /\ inodes' \in Seq(Files) /\ DOMAIN inodes' = 1 .. Len(inodes) + 1
        /\ inodes'[Len(inodes) + 1] = new /\ \A i \in DOMAIN inodes : inodes'[i] = inodes[i]
    <3>1. inodes' = Append(inodes, new)
      BY <1>3 DEF new
    <3> HIDE <1>3
    <3> QED BY <2>2, <2>3, <3>1
  <2>5. \A i : WholeFile(inodes, i) => WholeFile(inodes', i)
    BY <2>3, <2>4 DEF WholeFile
  <2>6. \A i : WholeFile(inodes', i) => WholeFile(inodes, i) /\ inodes'[i] = inodes[i]
    <3> SUFFICES ASSUME NEW i, WholeFile(inodes', i) PROVE i # Len(inodes) + 1
      BY <2>3, <2>4 DEF WholeFile
    <3>1. inodes'[i].data # HalfWritten
      BY WholeIsNotTorn DEF WholeFile
    <3> QED BY <2>2, <2>4, <3>1
  <2>7. n \in ToolCalls /\ SoundCall(n, inodes') /\ Holds(n, Len(inodes) + 1)
    <3>1. /\ n.pc = "fill" /\ n.inode = Len(inodes) + 1 /\ n.op = toolCall[c].op
          /\ n.path = toolCall[c].path /\ n.text = toolCall[c].text /\ n \in ToolCalls
      <4> DEFINE m(k) == [toolCall[c] EXCEPT !.pc = "fill", !.inode = k]
      <4>1. \A k \in Nat : /\ m(k).pc = "fill" /\ m(k).inode = k /\ m(k).op = toolCall[c].op
                           /\ m(k).path = toolCall[c].path /\ m(k).text = toolCall[c].text
                           /\ m(k) \in ToolCalls
        BY <2>1 DEF ToolCalls
      <4>2. Len(inodes) + 1 \in Nat /\ n = m(Len(inodes) + 1)
        BY <2>3
      <4> HIDE DEF m, n
      <4> QED BY <4>1, <4>2
    <3>2. Len(inodes) + 1 \in DOMAIN inodes' /\ inodes'[Len(inodes) + 1].maker = n.op
      BY <2>2, <2>3, <2>4, <3>1
    <3> HIDE DEF n
    <3>3. n.inode \in DOMAIN inodes' /\ inodes'[n.inode].maker = n.op
      BY <3>1, <3>2, Zenon
    <3>4. SoundCall(n, inodes')
      BY <2>1, <3>1, <3>3, Zenon DEF SoundCall
    <3>5. Holds(n, Len(inodes) + 1)
      BY <3>1, Zenon DEF Holds
    <3> QED BY <3>1, <3>4, <3>5
  <2>8. toolCall' \in [Calls -> ToolCalls] /\ toolCall'[c] = n
        /\ \A d \in Calls \ {c} : toolCall'[d] = toolCall[d]
    <3>1. toolCall' = [toolCall EXCEPT ![c] = n] /\ toolCall \in [Calls -> ToolCalls]
      BY <1>3 DEF FilesInv, FilesTypes
    <3> HIDE DEF n
    <3> QED BY <2>7, <3>1
  <2>9. FilesTypes'
    <3>1. temporary' \subseteq Nat
      BY <1>3, <2>3 DEF FilesInv, FilesTypes
    <3> QED BY <1>1, <2>4, <2>8, <3>1 DEF FilesInv, FilesTypes
  <2>10. NamesWhole'
    BY <1>1, <2>5, <2>6 DEF FilesInv, NamesWhole, WholeFile
  <2>11. TornByEdit'
    BY <1>1, <2>4 DEF FilesInv, TornByEdit, NamesWhole, WholeFile
  <2>12. CallsSound'
    <3>1. \A m : SoundCall(m, inodes) => SoundCall(m, inodes')
      BY <2>3, <2>4, <2>5, SoundStays
    <3> QED BY <3>1, <2>7, <2>8 DEF FilesInv, CallsSound
  <2>13. LitterInHand'
    <3> SUFFICES ASSUME NEW i \in temporary'
                 PROVE  /\ i \in DOMAIN inodes'
                        /\ inodes'[i].maker = "write" => \E d \in Calls : Holds(toolCall'[d], i)
      BY DEF LitterInHand
    <3>1. CASE i = Len(inodes) + 1
      BY <3>1, <2>3, <2>4, <2>7, <2>8
    <3>2. CASE i \in temporary
      <4>1. i \in DOMAIN inodes /\ (inodes[i].maker = "write" => \E d \in Calls : Holds(toolCall[d], i))
        BY <3>2 DEF FilesInv, LitterInHand
      <4>2. \A d \in Calls : Holds(toolCall[d], i) => d # c
        BY <1>1 DEF Holds
      <4> QED BY <4>1, <4>2, <2>3, <2>4, <2>8
    <3> QED BY <1>3, <3>1, <3>2
  <2> QED BY <1>1, <2>9, <2>10, <2>11, <2>12, <2>13 DEF FilesInv
<1> QED BY <1>2, <1>3 DEF CreateTemporary

(* The step of a call that holds its file, while the files stay as they are.  *)
LEMMA HoldingStep ==
  ASSUME FilesInv, ~outage, UNCHANGED <<inodes, outage>>, NamesWhole', names' \in [Paths -> Nat],
         durable' \in [Paths -> Nat], temporary' \subseteq temporary,
         NEW c \in Calls, NEW n \in ToolCalls, SoundCall(n, inodes),
         toolCall' = [toolCall EXCEPT ![c] = n],
         \A i \in temporary' : inodes[i].maker = "write" /\ Holds(toolCall[c], i) => Holds(n, i)
  PROVE  FilesInv'
<1>1. toolCall' \in [Calls -> ToolCalls] /\ toolCall'[c] = n
      /\ \A d \in Calls \ {c} : toolCall'[d] = toolCall[d]
  BY DEF FilesInv, FilesTypes
<1>2. FilesTypes'
  BY <1>1 DEF FilesInv, FilesTypes
<1>3. TornByEdit'
  BY WholeIsNotTorn DEF NamesWhole, TornByEdit, WholeFile
<1>4. CallsSound'
  BY <1>1 DEF FilesInv, CallsSound
<1>5. LitterInHand'
  <2> SUFFICES ASSUME NEW i \in temporary'
               PROVE  /\ i \in DOMAIN inodes
                      /\ inodes[i].maker = "write" => \E d \in Calls : Holds(toolCall'[d], i)
    BY DEF LitterInHand
  <2>1. i \in DOMAIN inodes /\ (inodes[i].maker = "write" => \E d \in Calls : Holds(toolCall[d], i))
    BY DEF FilesInv, LitterInHand
  <2> QED BY <1>1, <2>1
<1> QED BY <1>2, <1>3, <1>4, <1>5 DEF FilesInv

(* What a call may become when it gives its file up, or tries to remove it.   *)
LEMMA CallEnds ==
  ASSUME FilesInv, ~outage, NEW c \in Calls
  PROVE  /\ NoCall \in ToolCalls /\ SoundCall(NoCall, inodes)
         /\ Over(c) <=> toolCall' = [toolCall EXCEPT ![c] = NoCall]
         /\ \A pc \in {"remove", "sync"} :
              /\ [toolCall[c] EXCEPT !.pc = pc] \in ToolCalls
              /\ SoundCall([toolCall[c] EXCEPT !.pc = pc], inodes)
              /\ Proceed(c, pc) <=> toolCall' = [toolCall EXCEPT ![c] = [toolCall[c] EXCEPT !.pc = pc]]
         /\ \A i : Holds(toolCall[c], i) => Holds([toolCall[c] EXCEPT !.pc = "remove"], i)
<1>1. <<>> \in Seq(Bytes \cup {"torn"})
  OBVIOUS
<1>2. toolCall[c] \in ToolCalls
  BY DEF FilesInv, FilesTypes
<1>3. NoCall \in ToolCalls /\ SoundCall(NoCall, inodes)
  BY <1>1 DEF NoCall, ToolCalls, SoundCall
<1>4. ASSUME NEW pc \in {"remove", "sync"}
      PROVE  /\ [toolCall[c] EXCEPT !.pc = pc] \in ToolCalls
             /\ SoundCall([toolCall[c] EXCEPT !.pc = pc], inodes)
             /\ Proceed(c, pc) <=> toolCall' = [toolCall EXCEPT ![c] = [toolCall[c] EXCEPT !.pc = pc]]
  BY <1>2 DEF ToolCalls, SoundCall, Proceed
<1>5. \A i : Holds(toolCall[c], i) => Holds([toolCall[c] EXCEPT !.pc = "remove"], i)
  BY <1>2 DEF ToolCalls, Holds
<1> QED BY <1>3, <1>4, <1>5 DEF Over

LEMMA RemoveKept ==
  ASSUME FilesInv, ~outage, NEW c \in Calls, RemoveTemporary(c)
  PROVE  FilesInv'
<1>1. /\ toolCall' = [toolCall EXCEPT ![c] = NoCall]
      /\ UNCHANGED <<inodes, names, durable, outage>>
      /\ temporary' = temporary \ {toolCall[c].inode}
  BY DEF RemoveTemporary, Over
<1>2. NamesWhole' /\ names' \in [Paths -> Nat] /\ durable' \in [Paths -> Nat]
  BY <1>1 DEF FilesInv, FilesTypes, NamesWhole
<1>3. NoCall \in ToolCalls /\ SoundCall(NoCall, inodes)
  BY CallEnds
<1>4. \A i \in temporary' : ~Holds(toolCall[c], i)
  BY <1>1 DEF Holds
<1> QED BY <1>1, <1>2, <1>3, <1>4, HoldingStep

LEMMA SyncKept ==
  ASSUME FilesInv, ~outage, NEW c \in Calls, SyncParent(c)
  PROVE  FilesInv'
<1>1. toolCall[c].pc = "sync" /\ UNCHANGED <<inodes, names, temporary, outage>>
  BY DEF SyncParent
<1>2. \/ durable' = names /\ toolCall' = [toolCall EXCEPT ![c] = NoCall]
      \/ durable' = durable /\ toolCall' = [toolCall EXCEPT ![c] = [toolCall[c] EXCEPT !.pc = "remove"]]
  BY CallEnds DEF SyncParent
<1>3. NamesWhole' /\ names' \in [Paths -> Nat] /\ durable' \in [Paths -> Nat]
  BY <1>1, <1>2 DEF FilesInv, FilesTypes, NamesWhole
<1>4. \A i : ~Holds(toolCall[c], i)
  BY <1>1 DEF Holds
<1> QED BY <1>1, <1>2, <1>3, <1>4, CallEnds, HoldingStep

LEMMA RenameKept ==
  ASSUME FilesInv, ~outage, NEW c \in Calls, Rename(c)
  PROVE  FilesInv'
<1>1. toolCall[c].pc = "rename" /\ UNCHANGED <<inodes, durable, outage>>
  BY DEF Rename
<1>2. /\ toolCall[c].path \in Paths /\ toolCall[c].inode \in Nat
      /\ WholeFile(inodes, toolCall[c].inode)
  BY <1>1 DEF FilesInv, FilesTypes, CallsSound, SoundCall, ToolCalls
<1>3. CASE Proceed(c, "remove") /\ UNCHANGED <<names, temporary>>
  <2>1. NamesWhole' /\ names' \in [Paths -> Nat] /\ durable' \in [Paths -> Nat]
    BY <1>1, <1>3 DEF FilesInv, FilesTypes, NamesWhole
  <2>2. toolCall' = [toolCall EXCEPT ![c] = [toolCall[c] EXCEPT !.pc = "remove"]]
    BY <1>3, CallEnds
  <2> QED BY <1>1, <1>3, <2>1, <2>2, CallEnds, HoldingStep
<1>4. CASE /\ names' = [names EXCEPT ![toolCall[c].path] = toolCall[c].inode]
           /\ temporary' = temporary \ {toolCall[c].inode}
           /\ Over(c) \/ Proceed(c, "sync")
  <2>1. NamesWhole' /\ names' \in [Paths -> Nat] /\ durable' \in [Paths -> Nat]
    BY <1>1, <1>2, <1>4 DEF FilesInv, FilesTypes, NamesWhole
  <2>2. \/ toolCall' = [toolCall EXCEPT ![c] = NoCall]
        \/ toolCall' = [toolCall EXCEPT ![c] = [toolCall[c] EXCEPT !.pc = "sync"]]
    BY <1>4, CallEnds
  <2>3. temporary' \subseteq temporary /\ \A i \in temporary' : ~Holds(toolCall[c], i)
    BY <1>4 DEF Holds
  <2> QED BY <1>1, <2>1, <2>2, <2>3, CallEnds, HoldingStep
<1> QED BY <1>1, <1>3, <1>4, Zenon DEF Rename

(* The contents of files change, and one call goes on with what it holds.     *)
LEMMA ContentStep ==
  ASSUME FilesInv, ~outage, UNCHANGED <<names, durable, temporary, outage>>,
         inodes' \in Seq(Files), DOMAIN inodes' = DOMAIN inodes,
         \A i \in DOMAIN inodes : inodes'[i].maker = inodes[i].maker,
         \A i : WholeFile(inodes, i) => WholeFile(inodes', i),
         \A i \in DOMAIN inodes :
           WholeFile(inodes', i) => inodes'[i].synced \/ inodes'[i].maker = "edit",
         NEW c \in Calls, NEW n \in ToolCalls, SoundCall(n, inodes'),
         toolCall' = [toolCall EXCEPT ![c] = n],
         \A i : Holds(toolCall[c], i) => Holds(n, i)
  PROVE  FilesInv'
<1>1. toolCall' \in [Calls -> ToolCalls] /\ toolCall'[c] = n
      /\ \A d \in Calls \ {c} : toolCall'[d] = toolCall[d]
  BY DEF FilesInv, FilesTypes
<1>2. FilesTypes'
  BY <1>1 DEF FilesInv, FilesTypes
<1>3. NamesWhole'
  BY DEF FilesInv, NamesWhole
<1>4. TornByEdit'
  BY <1>3, WholeIsNotTorn DEF NamesWhole, TornByEdit, WholeFile
<1>5. CallsSound'
  <2>1. \A m : SoundCall(m, inodes) => SoundCall(m, inodes')
    BY SoundStays
  <2> QED BY <1>1, <2>1 DEF FilesInv, CallsSound
<1>6. LitterInHand'
  <2> SUFFICES ASSUME NEW i \in temporary
               PROVE  /\ i \in DOMAIN inodes'
                      /\ inodes'[i].maker = "write" => \E d \in Calls : Holds(toolCall'[d], i)
    BY DEF LitterInHand
  <2>1. i \in DOMAIN inodes /\ (inodes[i].maker = "write" => \E d \in Calls : Holds(toolCall[d], i))
    BY DEF FilesInv, LitterInHand
  <2> QED BY <1>1, <2>1
<1> QED BY <1>2, <1>3, <1>4, <1>5, <1>6 DEF FilesInv

LEMMA FillKept ==
  ASSUME FilesInv, ~outage, NEW c \in Calls, Fill(c)
  PROVE  FilesInv'
<1> DEFINE k == toolCall[c].inode
           filled == [inodes[k] EXCEPT !.data = toolCall[c].text, !.synced = toolCall[c].op = "write"]
           n == [toolCall[c] EXCEPT !.pc = "rename"]
<1>1. toolCall[c].pc = "fill" /\ UNCHANGED <<names, durable, temporary, outage>>
  BY DEF Fill
<1>2. /\ toolCall[c] \in ToolCalls /\ toolCall[c].text \in Seq(Bytes) /\ toolCall[c].path \in Paths
      /\ k \in DOMAIN inodes /\ inodes[k].maker = toolCall[c].op
  BY <1>1 DEF FilesInv, FilesTypes, CallsSound, SoundCall
<1>3. inodes \in Seq(Files) /\ inodes[k] \in Files
  BY <1>2 DEF FilesInv, FilesTypes
<1>4. toolCall[c].op \in {"write", "edit"}
  BY <1>2, <1>3 DEF ToolCalls, Files
<1>5. /\ filled \in Files /\ filled.data \in Seq(Bytes) /\ filled.maker = toolCall[c].op
      /\ filled.synced \/ filled.maker = "edit"
  <2>1. Seq(Bytes) \subseteq Seq(Bytes \cup {"torn"})
    OBVIOUS
  <2> QED BY <1>2, <1>3, <1>4, <2>1 DEF Files
<1>6. CASE inodes' = [inodes EXCEPT ![k].data = toolCall[c].text,
                                    ![k].synced = toolCall[c].op = "write"]
           /\ Proceed(c, "rename")
  <2>1. inodes' = [inodes EXCEPT ![k] = filled]
    BY <1>2, <1>3, <1>6 DEF Files
  <2> HIDE DEF filled
  <2>2. /\ inodes' \in Seq(Files) /\ DOMAIN inodes' = DOMAIN inodes /\ inodes'[k] = filled
        /\ \A i \in DOMAIN inodes \ {k} : inodes'[i] = inodes[i]
    BY <1>2, <1>3, <1>5, <2>1
  <2>3. \A i : WholeFile(inodes, i) => WholeFile(inodes', i)
    BY <1>5, <2>2 DEF WholeFile
  <2>4. /\ \A i \in DOMAIN inodes : inodes'[i].maker = inodes[i].maker
        /\ \A i \in DOMAIN inodes :
             WholeFile(inodes', i) => inodes'[i].synced \/ inodes'[i].maker = "edit"
    BY <1>2, <1>5, <2>2 DEF FilesInv, NamesWhole, WholeFile
  <2>5. n \in ToolCalls /\ n.pc = "rename" /\ n.inode = k /\ n.op = toolCall[c].op
        /\ n.path = toolCall[c].path
    BY <1>2 DEF ToolCalls
  <2>6. SoundCall(n, inodes')
    BY <1>2, <1>5, <2>2, <2>5 DEF SoundCall, WholeFile
  <2>7. \A i : Holds(toolCall[c], i) => Holds(n, i)
    BY <2>5 DEF Holds
  <2>8. toolCall' = [toolCall EXCEPT ![c] = n]
    BY <1>6 DEF Proceed
  <2> HIDE DEF n
  <2> QED BY <1>1, <2>2, <2>3, <2>4, <2>5, <2>6, <2>7, <2>8, ContentStep
<1>7. CASE UNCHANGED inodes /\ toolCall[c].op = "write" /\ Proceed(c, "remove")
  <2>1. NamesWhole' /\ names' \in [Paths -> Nat] /\ durable' \in [Paths -> Nat]
    BY <1>1, <1>7 DEF FilesInv, FilesTypes, NamesWhole
  <2>2. toolCall' = [toolCall EXCEPT ![c] = [toolCall[c] EXCEPT !.pc = "remove"]]
    BY <1>7, CallEnds
  <2> QED BY <1>1, <1>7, <2>1, <2>2, CallEnds, HoldingStep
<1>8. CASE UNCHANGED inodes /\ toolCall[c].op # "write" /\ Over(c)
  <2>1. NamesWhole' /\ names' \in [Paths -> Nat] /\ durable' \in [Paths -> Nat]
    BY <1>1, <1>8 DEF FilesInv, FilesTypes, NamesWhole
  <2>2. \A i : Holds(toolCall[c], i) => inodes[i].maker # "write"
    BY <1>2, <1>8 DEF Holds
  <2> QED BY <1>1, <1>8, <2>1, <2>2, CallEnds, HoldingStep
<1> QED BY <1>6, <1>7, <1>8, Zenon DEF Fill

LEMMA GrowKept ==
  ASSUME FilesInv, ~outage, NEW p \in Paths, Grow(p)
  PROVE  FilesInv'
<1> DEFINE k == names[p]
           longer == [inodes[k] EXCEPT !.data = Append(inodes[k].data, Old)]
<1>1. UNCHANGED <<names, durable, temporary, toolCall, outage>>
  BY DEF Grow
<1>2. inodes \in Seq(Files) /\ WholeFile(inodes, k) /\ inodes[k] \in Files
  BY DEF FilesInv, FilesTypes, NamesWhole, WholeFile
<1>3. /\ longer \in Files /\ longer.data \in Seq(Bytes) /\ longer.maker = inodes[k].maker
      /\ longer.synced = inodes[k].synced
  <2>1. Append(inodes[k].data, Old) \in Seq(Bytes)
    BY <1>2 DEF WholeFile, Bytes
  <2>2. Seq(Bytes) \subseteq Seq(Bytes \cup {"torn"})
    OBVIOUS
  <2> QED BY <1>2, <2>1, <2>2 DEF Files
<1>4. inodes' = [inodes EXCEPT ![k] = longer]
  BY <1>2 DEF Grow, Files
<1> HIDE DEF longer
<1>5. /\ inodes' \in Seq(Files) /\ DOMAIN inodes' = DOMAIN inodes /\ inodes'[k] = longer
      /\ \A i \in DOMAIN inodes \ {k} : inodes'[i] = inodes[i]
  BY <1>2, <1>3, <1>4 DEF WholeFile
<1>6. \A i : WholeFile(inodes, i) <=> WholeFile(inodes', i)
  BY <1>2, <1>3, <1>5 DEF WholeFile
<1>7. \A i \in DOMAIN inodes : /\ inodes'[i].maker = inodes[i].maker
                              /\ inodes'[i].synced = inodes[i].synced
  BY <1>3, <1>5
<1>8. NamesWhole'
  BY <1>1, <1>5, <1>6, <1>7 DEF FilesInv, NamesWhole
<1>9. CallsSound'
  <2>1. \A m : SoundCall(m, inodes) => SoundCall(m, inodes')
    BY <1>5, <1>6, <1>7, SoundStays
  <2> QED BY <1>1, <2>1 DEF FilesInv, CallsSound
<1>10. LitterInHand' /\ FilesTypes'
  BY <1>1, <1>5, <1>7 DEF FilesInv, FilesTypes, LitterInHand
<1>11. TornByEdit'
  BY <1>8, WholeIsNotTorn DEF NamesWhole, TornByEdit, WholeFile
<1> QED BY <1>8, <1>9, <1>10, <1>11 DEF FilesInv

LEMMA OutageKept ==
  ASSUME FilesInv, ~outage, Outage
  PROVE  FilesInv'
<1>1. PICK lost \in SUBSET {i \in DOMAIN inodes : ~inodes[i].synced} :
        inodes' = [i \in DOMAIN inodes |->
                     IF i \in lost THEN [inodes[i] EXCEPT !.data = HalfWritten] ELSE inodes[i]]
  BY DEF Outage
<1>2. PICK back \in SUBSET {p \in Paths : names[p] # durable[p]} :
        names' = [p \in Paths |-> IF p \in back THEN durable[p] ELSE names[p]]
  BY DEF Outage
<1>3. outage' = TRUE /\ toolCall' = [c \in Calls |-> NoCall] /\ durable' = names'
      /\ temporary' = temporary
  BY DEF Outage
<1>4. inodes \in Seq(Files)
  BY DEF FilesInv, FilesTypes
<1>5. \A f \in Files : /\ [f EXCEPT !.data = HalfWritten] \in Files
                       /\ [f EXCEPT !.data = HalfWritten].maker = f.maker
  <2>1. HalfWritten \in Seq(Bytes \cup {"torn"})
    BY DEF HalfWritten
  <2> QED BY <2>1 DEF Files
<1>6. DOMAIN inodes' = DOMAIN inodes
      /\ \A i \in DOMAIN inodes : inodes'[i] \in Files /\ inodes'[i].maker = inodes[i].maker
  BY <1>1, <1>4, <1>5
<1>7. inodes' \in Seq(Files)
  <2>1. Len(inodes) \in Nat /\ DOMAIN inodes = 1 .. Len(inodes)
    BY <1>4
  <2>2. inodes' = [i \in 1 .. Len(inodes) |-> inodes'[i]]
    BY <1>1, <2>1
  <2> QED BY <1>6, <2>1, <2>2
<1>8. names' \in [Paths -> Nat]
  BY <1>2 DEF FilesInv, FilesTypes
<1>9. NoCall \in ToolCalls
  <2>1. <<>> \in Seq(Bytes \cup {"torn"})
    OBVIOUS
  <2> QED BY <2>1 DEF NoCall, ToolCalls
<1>10. FilesTypes'
  BY <1>3, <1>7, <1>8, <1>9 DEF FilesInv, FilesTypes
<1>11. TornByEdit'
  <2> SUFFICES ASSUME NEW p \in Paths, inodes'[names'[p]].data = HalfWritten
               PROVE  inodes'[names'[p]].maker = "edit"
    BY <1>3 DEF TornByEdit
  <2>1. WholeFile(inodes, names'[p])
    BY <1>2 DEF FilesInv, NamesWhole
  <2>2. names'[p] \in lost
    BY <1>1, <2>1, WholeIsNotTorn DEF WholeFile
  <2> QED BY <1>6, <2>1, <2>2 DEF FilesInv, NamesWhole
<1> QED BY <1>3, <1>10, <1>11 DEF FilesInv

LEMMA FilesKept == FilesInv /\ [FilesNext]_filesVars => FilesInv'
<1> SUFFICES ASSUME FilesInv, [FilesNext]_filesVars PROVE FilesInv'
  OBVIOUS
<1>1. CASE UNCHANGED filesVars
  BY <1>1 DEF filesVars, FilesInv, FilesTypes, NamesWhole, CallsSound, LitterInHand, TornByEdit
<1>2. ASSUME ~outage, NEW c \in Calls, CallStep(c) PROVE FilesInv'
  <2>1. CASE Answered(c)
    <3>1. toolCall[c].pc = "answered" /\ Over(c)
          /\ UNCHANGED <<inodes, names, durable, temporary, outage>>
      BY <2>1 DEF Answered
    <3> QED BY <1>2, <3>1, OverKept
  <2> QED BY <1>2, <2>1, StartKept, OpenKept, ReadKept, CreateKept, FillKept, RenameKept, SyncKept,
             RemoveKept DEF CallStep
<1>3. CASE FilesNext
  <2>1. CASE \E c \in Calls : CallStep(c)
    BY <1>2, <1>3, <2>1 DEF FilesNext
  <2>2. CASE \E p \in Paths : Grow(p)
    BY <1>3, <2>2, GrowKept DEF FilesNext
  <2>3. CASE Outage
    BY <1>3, <2>3, OutageKept DEF FilesNext
  <2> QED BY <1>3, <2>1, <2>2, <2>3, Zenon DEF FilesNext, CallStep
<1> QED BY <1>1, <1>3

\* The three parts of WholeVersions.
NamedIsWhole ==
  \A p \in Paths : inodes[names[p]].data = HalfWritten => outage /\ inodes[names[p]].maker = "edit"
NoWriteLitter == (\E i \in Litter : inodes[i].maker = "write") => outage
AnswersWhole ==
  \A c \in Calls : toolCall[c].pc = "read" /\ toolCall'[c].pc = "answered" =>
                    toolCall'[c].text = inodes[toolCall[c].inode].data

LEMMA AnswerStep == FilesInv /\ [FilesNext]_filesVars => AnswersWhole
<1> SUFFICES ASSUME FilesInv, [FilesNext]_filesVars, NEW c \in Calls,
                    toolCall[c].pc = "read", toolCall'[c].pc = "answered"
             PROVE  toolCall'[c].text = inodes[toolCall[c].inode].data
  BY DEF AnswersWhole
<1>1. toolCall \in [Calls -> ToolCalls] /\ toolCall[c] \in ToolCalls
  BY DEF FilesInv, FilesTypes
<1>2. ~outage /\ FilesNext
  BY DEF filesVars, FilesNext
<1>3. ~Outage /\ ~\E p \in Paths : Grow(p)
  <2>1. ~(toolCall' = [d \in Calls |-> NoCall]) /\ ~(toolCall' = toolCall)
    BY DEF NoCall
  <2> QED BY <2>1, Zenon DEF Outage, Grow
<1>4. PICK d \in Calls : CallStep(d)
  BY <1>2, <1>3, Zenon DEF FilesNext, CallStep
<1>5. d = c
  BY <1>4, OneCallMoves DEF FilesInv
<1>6. ReadFile(c)
  <2>1. ~StartCall(c) /\ ~OpenFile(c) /\ ~Answered(c) /\ ~CreateTemporary(c)
    BY Zenon DEF StartCall, OpenFile, Answered, CreateTemporary
  <2>2. ~Fill(c) /\ ~Rename(c) /\ ~SyncParent(c) /\ ~RemoveTemporary(c)
    BY Zenon DEF Fill, Rename, SyncParent, RemoveTemporary
  <2> QED BY <1>4, <1>5, <2>1, <2>2, Zenon DEF CallStep
<1>7. ~Over(c)
  BY <1>1 DEF Over, NoCall
<1>8. toolCall' = [toolCall EXCEPT ![c].pc = "answered", ![c].text = inodes[toolCall[c].inode].data]
  <2>1. ~(toolCall' = [toolCall EXCEPT ![c].pc = "create",
                                       ![c].text = Replaced(inodes[toolCall[c].inode].data)])
    BY <1>1 DEF ToolCalls
  <2> QED BY <1>2, <1>6, <1>7, <2>1, AnswerIsWhole
<1>9. \A t : toolCall' = [toolCall EXCEPT ![c].pc = "answered", ![c].text = t] => toolCall'[c].text = t
  BY <1>1 DEF ToolCalls
<1> QED BY <1>8, <1>9

(* A path never names a file that is not whole but after an outage, and then *)
(* an edit's alone; no write leaves its temporary file behind; what a read   *)
(* answers is a whole file, however files grow and are replaced meanwhile    *)
(* (tools.rs, path_boundary.rs).                                             *)
THEOREM VersionsAreWhole == FilesSpec => WholeVersions
<1>1. FilesInv => NamedIsWhole
  BY DEF FilesInv, TornByEdit, NamedIsWhole
<1>2. FilesInv => NoWriteLitter
  <2> SUFFICES ASSUME FilesInv, ~outage, NEW i \in Litter, inodes[i].maker = "write" PROVE FALSE
    BY DEF NoWriteLitter
  <2> QED BY DEF FilesInv, LitterInHand, Litter, Holds
<1> QED BY FilesHoldAtStart, FilesKept, AnswerStep, <1>1, <1>2, PTL
        DEF FilesSpec, WholeVersions, NamedIsWhole, NoWriteLitter, AnswersWhole


-----------------------------------------------------------------------------
(* The desktop.                                                            *)

Codes == Keys \cup Modifiers \cup {"b1", "b4", "b5", "b6", "b7"}
Units == {<<Motion>>} \cup {Chord(k, mods) : k \in Codes, mods \in Seq(Codes)}
Releases == {Lift(c) : c \in Codes}

Jobs == [pc : {"idle", "ready", "send", "repair"}, units : Seq(Units),
         unit : Units \cup Seq(Releases), at : Nat \ {0}, failed : BOOLEAN]

HandTypes ==
  \A h \in Hands :
    /\ hand[h] \in Jobs
    /\ hand[h].pc = "send" => hand[h].unit \in Units
    /\ hand[h].pc = "repair" => hand[h].unit \in Seq(Releases)

\* A hand answers for a code that it pressed, or tried to, and will lift.
Answers(job, c) ==
  \/ /\ job.pc = "send"
     /\ \E i \in 1 .. job.at - 1 : job.unit[i] = Press(c)
     /\ \E j \in job.at .. Len(job.unit) : job.unit[j] = Lift(c)
  \/ job.pc = "repair" /\ \E j \in 1 .. Len(job.unit) : job.unit[j] = Lift(c)

\* Somebody answers for each code that is down, unless its release was refused.
Accounted == \A c \in pressed \ unreleased : \E h \in Hands : Answers(hand[h], c)

DesktopInv ==
  /\ DOMAIN hand = Hands /\ pressed \subseteq Codes
  /\ HandTypes /\ Accounted

LEMMA Reversed ==
  ASSUME NEW S, NEW s \in Seq(S)
  PROVE  /\ Reverse(s) \in Seq(S) /\ Len(Reverse(s)) = Len(s)
         /\ \A i \in 1 .. Len(s) : Reverse(s)[i] = s[Len(s) - i + 1]
BY DEF Reverse

\* The events of a chord, one by one.
LEMMA ChordEvents ==
  ASSUME NEW k \in Codes, NEW mods \in Seq(Codes), NEW u, u = Chord(k, mods)
  PROVE  LET n == Len(mods)
         IN  /\ Len(u) = 2 * n + 2 /\ DOMAIN u = 1 .. Len(u)
             /\ \A i \in 1 .. n : u[i] = Press(mods[i])
             /\ u[n + 1] = Press(k) /\ u[n + 2] = Lift(k)
             /\ \A i \in 1 .. n : u[n + 2 + i] = Lift(mods[n - i + 1])
<1> DEFINE n == Len(mods)
           E == {Press(c) : c \in Codes} \cup Releases
           p == Presses(mods)
           m == <<Press(k), Lift(k)>>
           r == Lifts(Reverse(mods))
<1>0. n \in Nat /\ DOMAIN mods = 1 .. n /\ \A i \in 1 .. n : mods[i] \in Codes
  OBVIOUS
<1>1. p \in Seq(E) /\ Len(p) = n /\ \A i \in 1 .. n : p[i] = Press(mods[i])
  <2>1. p = [i \in 1 .. n |-> Press(mods[i])]
    BY <1>0 DEF Presses
  <2>2. p \in [1 .. n -> E]
    BY <2>1, <1>0
  <2> QED BY <2>1, <2>2, <1>0
<1>2. m \in Seq(E) /\ Len(m) = 2 /\ m[1] = Press(k) /\ m[2] = Lift(k)
  BY DEF Releases
<1>3. r \in Seq(E) /\ Len(r) = n /\ \A i \in 1 .. n : r[i] = Lift(mods[n - i + 1])
  <2>0. /\ Reverse(mods) \in Seq(Codes) /\ Len(Reverse(mods)) = n
        /\ \A i \in 1 .. n : Reverse(mods)[i] = mods[n - i + 1]
    BY Reversed
  <2>1. r = [i \in 1 .. n |-> Lift(Reverse(mods)[i])]
    BY <2>0 DEF Lifts
  <2>2. \A i \in 1 .. n : Reverse(mods)[i] \in Codes
    BY <2>0
  <2>3. r \in [1 .. n -> E]
    BY <2>1, <2>2, <1>0 DEF Releases
  <2>4. r \in Seq(E) /\ Len(r) = n
    BY <2>3, <1>0
  <2>5. \A i \in 1 .. n : r[i] = Lift(mods[n - i + 1])
    BY <2>0, <2>1
  <2> QED BY <2>4, <2>5
<1>4. u = p \o m \o r
  BY DEF Chord
<1> HIDE DEF n, p, m, r, E
<1>5. p \o m \in Seq(E) /\ Len(p \o m) = n + 2 /\ u \in Seq(E) /\ Len(u) = 2 * n + 2
  <2>1. p \o m \in Seq(E) /\ Len(p \o m) = n + 2
    <3>1. p \in Seq(E) /\ m \in Seq(E) /\ Len(p) = n /\ Len(m) = 2
      BY <1>1, <1>2
    <3>2. p \o m \in Seq(E) /\ Len(p \o m) = Len(p) + Len(m)
      BY <3>1, ConcatProperties, Zenon
    <3> QED BY <3>1, <3>2
  <2>2. u \in Seq(E) /\ Len(u) = n + 2 + n
    <3> DEFINE q == p \o m
    <3>1. q \in Seq(E) /\ Len(q) = n + 2 /\ u = q \o r
      BY <2>1, <1>4
    <3> HIDE DEF q
    <3>2. q \o r \in Seq(E) /\ Len(q \o r) = Len(q) + Len(r)
      BY <3>1, <1>3, ConcatProperties
    <3> QED BY <3>1, <3>2, <1>3
  <2> QED BY <2>1, <2>2, <1>0
<1>6. /\ \A i \in 1 .. n : u[i] = p[i]
      /\ u[n + 1] = m[1] /\ u[n + 2] = m[2]
      /\ \A i \in 1 .. n : u[n + 2 + i] = r[i]
  <2>1. \A i \in 1 .. n : (p \o m)[i] = p[i] /\ u[i] = (p \o m)[i]
    BY <1>0, <1>1, <1>2, <1>3, <1>4, <1>5
  <2>2. (p \o m)[n + 1] = m[1] /\ (p \o m)[n + 2] = m[2]
    <3>1. n + 1 \in 1 .. Len(p) + Len(m) /\ n + 2 \in 1 .. Len(p) + Len(m)
      BY <1>0, <1>1, <1>2
    <3>2. \A i \in 1 .. Len(p) + Len(m) :
            (p \o m)[i] = IF i <= Len(p) THEN p[i] ELSE m[i - Len(p)]
      <4>1. p \in Seq(E) /\ m \in Seq(E)
        BY <1>1, <1>2
      <4> QED BY <4>1, ConcatProperties, Zenon
    <3>3. n + 1 - n = 1 /\ n + 2 - n = 2 /\ ~(n + 1 <= n) /\ ~(n + 2 <= n)
      BY <1>0
    <3> QED BY <3>1, <3>2, <3>3, <1>1
  <2>3. u[n + 1] = (p \o m)[n + 1] /\ u[n + 2] = (p \o m)[n + 2]
    BY <1>0, <1>3, <1>4, <1>5
  <2>4. \A i \in 1 .. n : u[n + 2 + i] = r[i]
    BY <1>0, <1>3, <1>4, <1>5
  <2> QED BY <2>1, <2>2, <2>3, <2>4
<1>7. DOMAIN u = 1 .. Len(u)
  BY <1>5
<1> QED BY <1>0, <1>1, <1>2, <1>3, <1>5, <1>6, <1>7 DEF n

\* What a unit presses it lifts later, and what it lifts or presses has a code.
LEMMA PressedIsLifted ==
  ASSUME NEW u \in Units
  PROVE  /\ Len(u) \in Nat \ {0}
         /\ \A i \in 1 .. Len(u) :
              \/ u[i] = Motion
              \/ \E c \in Codes : \/ u[i] = Lift(c)
                                  \/ /\ u[i] = Press(c)
                                     /\ \E j \in i + 1 .. Len(u) : u[j] = Lift(c)
<1>1. CASE u = <<Motion>>
  BY <1>1
<1>2. CASE u \in {Chord(k, mods) : k \in Codes, mods \in Seq(Codes)}
  <2> PICK k \in Codes, mods \in Seq(Codes) : u = Chord(k, mods)
    BY <1>2
  <2> DEFINE n == Len(mods)
  <2>0. n \in Nat /\ \A i \in 1 .. n : mods[i] \in Codes
    OBVIOUS
  <2>1. /\ Len(u) = 2 * n + 2
        /\ \A i \in 1 .. n : u[i] = Press(mods[i])
        /\ u[n + 1] = Press(k) /\ u[n + 2] = Lift(k)
        /\ \A i \in 1 .. n : u[n + 2 + i] = Lift(mods[n - i + 1])
    BY ChordEvents
  <2> HIDE DEF n
  <2> SUFFICES ASSUME NEW i \in 1 .. Len(u)
               PROVE  \E c \in Codes : \/ u[i] = Lift(c)
                                       \/ /\ u[i] = Press(c)
                                          /\ \E j \in i + 1 .. Len(u) : u[j] = Lift(c)
    BY <2>0, <2>1
  <2>2. CASE i \in 1 .. n
    <3> DEFINE j == 2 * n + 3 - i
    <3>1. n - i + 1 \in 1 .. n /\ j \in i + 1 .. Len(u) /\ j = n + 2 + (n - i + 1)
      BY <2>0, <2>1, <2>2
    <3>2. n - (n - i + 1) + 1 = i
      BY <2>0, <2>2
    <3>3. u[j] = Lift(mods[i])
      <4> DEFINE l == n - i + 1
      <4>1. l \in 1 .. n /\ j = n + 2 + l /\ n - l + 1 = i
        BY <3>1, <3>2
      <4> HIDE DEF l, j
      <4> QED BY <4>1, <2>1
    <3> HIDE DEF j
    <3> QED BY <2>0, <2>1, <2>2, <3>1, <3>3
  <2>3. CASE i = n + 1
    BY <2>0, <2>1, <2>3
  <2>4. CASE i = n + 2
    BY <2>0, <2>1, <2>4
  <2>5. CASE i \in n + 3 .. 2 * n + 2
    <3> DEFINE j == i - (n + 2)
    <3>1. j \in 1 .. n /\ i = n + 2 + j /\ n - j + 1 \in 1 .. n
      BY <2>0, <2>5
    <3>2. u[i] = Lift(mods[n - j + 1])
      BY <2>1, <3>1
    <3> QED BY <3>1, <3>2, <2>0
  <2> QED BY <2>0, <2>1, <2>2, <2>3, <2>4, <2>5
<1> QED BY <1>1, <1>2 DEF Units

\* The compensation lifts all that was pressed up to the event that failed; a
\* press of a modifier, the press or the lift of the key, or the end of the unit.
LEMMA CompensationCovers ==
  ASSUME NEW u \in Units, NEW at \in 1 .. Len(u), ~ReleasesModifier(u, at) \/ at = Len(u)
  PROVE  /\ Compensation(u, at) \in Seq(Releases)
         /\ \A i \in 1 .. at, c \in Codes : u[i] = Press(c) =>
              \E j \in 1 .. Len(Compensation(u, at)) : Compensation(u, at)[j] = Lift(c)
<1> DEFINE C == Compensation(u, at)
<1>1. CASE u = <<Motion>>
  <2>1. C = <<>> /\ \A i \in 1 .. at : u[i] = Motion
    BY <1>1 DEF Compensation
  <2> QED BY <2>1 DEF Motion, Press
<1>2. CASE u \in {Chord(k, mods) : k \in Codes, mods \in Seq(Codes)}
  <2> PICK k \in Codes, mods \in Seq(Codes) : u = Chord(k, mods)
    BY <1>2
  <2> DEFINE n == Len(mods)
             m == IF at <= n THEN at ELSE n
             done == [i \in 1 .. m |-> u[i].code]
             first == IF at > n THEN <<Lift(k)>> ELSE <<>>
             rest == Lifts(Reverse(done))
  <2>0. n \in Nat /\ (\A i \in 1 .. n : mods[i] \in Codes) /\ m \in 0 .. n /\ at \in Nat
    BY PressedIsLifted
  <2>1. /\ Len(u) = 2 * n + 2
        /\ \A i \in 1 .. n : u[i] = Press(mods[i])
        /\ u[n + 1] = Press(k) /\ u[n + 2] = Lift(k)
        /\ \A i \in 1 .. n : u[n + 2 + i] = Lift(mods[n - i + 1])
    BY ChordEvents
  <2>2. (Len(u) - 2) \div 2 = n /\ Len(u) # 1
    <3>1. Len(u) - 2 = 2 * n
      BY <2>0, <2>1
    <3> QED BY <2>0, <2>1, <3>1
  <2> HIDE DEF n
  <2>a. u[n + 1].code = k
    BY <2>1 DEF Press
  <2>3. C = first \o rest
    BY <2>a, <2>2 DEF Compensation
  <2>4. done \in Seq(Codes) /\ Len(done) = m /\ \A i \in 1 .. m : done[i] = mods[i]
    <3>0. \A i \in 1 .. m : i \in 1 .. n
      BY <2>0
    <3> HIDE DEF m
    <3>1. \A i \in 1 .. m : u[i].code = mods[i] /\ mods[i] \in Codes
      <4> TAKE i \in 1 .. m
      <4>1. i \in 1 .. n /\ mods[i] \in Codes /\ u[i] = Press(mods[i])
        BY <3>0, <2>0, <2>1
      <4> QED BY <4>1 DEF Press
    <3>2. done \in [1 .. m -> Codes] /\ \A i \in 1 .. m : done[i] = mods[i]
      BY <3>1
    <3>3. m \in Nat
      BY <2>0
    <3> HIDE DEF done
    <3>4. done \in Seq(Codes) /\ Len(done) = m
      BY <3>2, <3>3
    <3> QED BY <3>2, <3>4
  <2>5. /\ rest \in Seq(Releases) /\ Len(rest) = m
        /\ \A i \in 1 .. m : rest[i] = Lift(mods[m - i + 1])
    <3> HIDE DEF done, m
    <3>1. /\ Reverse(done) \in Seq(Codes) /\ Len(Reverse(done)) = m
          /\ \A i \in 1 .. m : Reverse(done)[i] = done[m - i + 1]
      BY <2>4, Reversed
    <3>2. rest = [i \in 1 .. m |-> Lift(Reverse(done)[i])]
      BY <3>1 DEF Lifts
    <3>3. \A i \in 1 .. m : Reverse(done)[i] \in Codes
      BY <3>1
    <3>4. rest \in [1 .. m -> Releases]
      BY <3>2, <3>3 DEF Releases
    <3>5. \A i \in 1 .. m : m - i + 1 \in 1 .. m
      BY <2>0
    <3> QED BY <3>1, <3>2, <3>4, <3>5, <2>0, <2>4
  <2>6. first \in Seq(Releases) /\ (at > n => Len(first) = 1 /\ first[1] = Lift(k))
    <3>1. <<>> \in Seq(Releases) /\ <<Lift(k)>> \in Seq(Releases)
      BY DEF Releases
    <3>2. CASE at > n
      BY <3>1, <3>2
    <3>3. CASE ~(at > n)
      BY <3>1, <3>3
    <3> QED BY <3>2, <3>3
  <2>b. at <= n => m = at
    OBVIOUS
  <2>c. ~(at <= n) => m = n
    OBVIOUS
  <2> HIDE DEF first, rest, done, m
  <2>7. /\ C \in Seq(Releases) /\ Len(C) = Len(first) + m
        /\ \A i \in 1 .. Len(first) : C[i] = first[i]
        /\ \A i \in 1 .. m : C[Len(first) + i] = rest[i]
    <3> HIDE DEF C
    <3>1. Len(first) \in Nat /\ Len(rest) = m /\ m \in Nat
      BY <2>0, <2>5, <2>6
    <3>2. C \in Seq(Releases) /\ Len(C) = Len(first) + m
      <4>1. first \o rest \in Seq(Releases) /\ Len(first \o rest) = Len(first) + Len(rest)
        BY <2>5, <2>6, ConcatProperties
      <4> QED BY <4>1, <2>3, <3>1
    <3>3. \A i \in 1 .. Len(first) : C[i] = first[i]
      BY <2>3, <2>5, <2>6, <3>1
    <3>4. \A i \in 1 .. m : C[Len(first) + i] = rest[i]
      BY <2>3, <2>5, <2>6, <3>1
    <3> QED BY <3>2, <3>3, <3>4
  <2> HIDE DEF C
  <2>8. ASSUME NEW i \in 1 .. at, NEW c \in Codes, u[i] = Press(c)
        PROVE  \E j \in 1 .. Len(C) : C[j] = Lift(c)
    <3>1. CASE i \in 1 .. n
      <4>1. i \in 1 .. m /\ mods[i] = c
        <5>1. i \in 1 .. m
          BY <2>0, <2>b, <2>c, <3>1
        <5>2. Press(mods[i]) = Press(c)
          BY <2>1, <2>8, <3>1
        <5> QED BY <5>1, <5>2 DEF Press
      <4> DEFINE j == m - i + 1
      <4>2. j \in 1 .. m /\ m - j + 1 = i
        BY <2>0, <4>1
      <4>3. rest[j] = Lift(c)
        BY <2>5, <4>1, <4>2
      <4>4. C[Len(first) + j] = Lift(c) /\ Len(first) + j \in 1 .. Len(C)
        <5>1. Len(first) \in Nat /\ j \in Nat
          BY <2>0, <2>6, <4>2
        <5> HIDE DEF j
        <5>2. Len(first) + j \in 1 .. Len(first) + m
          BY <5>1, <4>2, <2>0
        <5>3. C[Len(first) + j] = rest[j]
          BY <2>7, <4>2
        <5> QED BY <5>2, <5>3, <2>7, <4>3
      <4> QED BY <4>4
    <3>2. CASE i = n + 1
      <4>1. at > n /\ c = k
        BY <2>0, <2>1, <2>8, <3>2 DEF Press
      <4>2. Len(first) = 1 /\ C[1] = Lift(k) /\ 1 \in 1 .. Len(C)
        <5>1. Len(first) = 1 /\ first[1] = Lift(k)
          BY <4>1, <2>6
        <5> QED BY <5>1, <2>0, <2>7
      <4> QED BY <4>1, <4>2
    <3>3. CASE i > n + 1
      <4>1. u[i].type = "lift"
        <5>1. CASE i = n + 2
          BY <5>1, <2>1 DEF Lift
        <5>2. CASE i > n + 2
          <6> DEFINE j == i - (n + 2)
          <6>1. j \in 1 .. n /\ i = n + 2 + j
            BY <5>2, <2>0, <2>1
          <6>2. u[i] = Lift(mods[n - j + 1])
            BY <6>1, <2>1
          <6> QED BY <6>2 DEF Lift
        <5> QED BY <5>1, <5>2, <3>3, <2>0
      <4> QED BY <4>1, <2>8 DEF Press
    <3> QED BY <3>1, <3>2, <3>3, <2>0
  <2> QED BY <2>7, <2>8 DEF C
<1> QED BY <1>1, <1>2 DEF Units

\* An interaction is made of clicks and chords.
LEMMA ActionsAreUnits == Actions \subseteq Seq(Units)
<1> USE DesktopAssumption
<1>0. <<>> \in Seq(Codes) /\ <<Motion>> \in Units
  BY DEF Units
<1>1. \A n \in Nat, b \in {"b1", "b4", "b5", "b6", "b7"} : Repeated(n, b) \in Seq(Units)
  <2> TAKE n \in Nat, b \in {"b1", "b4", "b5", "b6", "b7"}
  <2>1. Chord(b, <<>>) \in Units
    <3>1. b \in Codes
      BY DEF Codes
    <3>2. \A k \in Codes, mods \in Seq(Codes) : Chord(k, mods) \in Units
      BY DEF Units
    <3> QED BY <3>1, <3>2, <1>0
  <2>2. Repeated(n, b) \in [1 .. n -> Units]
    BY <2>1 DEF Repeated
  <2> QED BY <2>2
<1>2. \A n \in 1 .. MaxRepeats : Click("b1", n) \in Seq(Units)
  <2> TAKE n \in 1 .. MaxRepeats
  <2>1. <<<<Motion>>>> \in Seq(Units) /\ Repeated(n, "b1") \in Seq(Units)
    BY <1>0, <1>1
  <2> QED BY <2>1, ConcatProperties DEF Click
<1>3. \A dx, dy \in -MaxRepeats .. MaxRepeats : Scroll(dx, dy) \in Seq(Units)
  <2>1. \A d \in -MaxRepeats .. MaxRepeats : Magnitude(d) \in Nat
    BY DEF Magnitude
  <2>2. \A d \in -MaxRepeats .. MaxRepeats :
          ScrollAxis(d, "b4", "b5") \in Seq(Units) /\ ScrollAxis(d, "b6", "b7") \in Seq(Units)
    BY <2>1, <1>1 DEF ScrollAxis
  <2> QED BY <2>2, ConcatProperties DEF Scroll
<1>4. \A mods \in SetToAllKPermutations(Modifiers) : mods \in Seq(Modifiers)
  <2> TAKE mods \in SetToAllKPermutations(Modifiers)
  <2>1. PICK S \in SUBSET Modifiers : mods \in SetToSeqs(S)
    BY DEF SetToAllKPermutations
  <2>2. Cardinality(S) \in Nat
    BY <2>1, FS_Subset, FS_CardinalityType
  <2>3. mods \in [1 .. Cardinality(S) -> S]
    BY <2>1 DEF SetToSeqs
  <2>4. mods \in [1 .. Cardinality(S) -> Modifiers]
    BY <2>1, <2>3
  <2> QED BY <2>2, <2>4
<1>5. \A mods \in Seq(Modifiers), needed \in BOOLEAN : WithShift(mods, needed) \in Seq(Codes)
  <2> TAKE mods \in Seq(Modifiers), needed \in BOOLEAN
  <2>1. mods \in Seq(Codes) /\ Shift \in Codes
    BY DEF Codes
  <2> QED BY <2>1 DEF WithShift
<1>6. \A k \in Keys, mods \in SetToAllKPermutations(Modifiers), needed \in BOOLEAN :
        <<Chord(k, WithShift(mods, needed))>> \in Seq(Units)
  <2> TAKE k \in Keys, mods \in SetToAllKPermutations(Modifiers), needed \in BOOLEAN
  <2>1. WithShift(mods, needed) \in Seq(Codes) /\ k \in Codes
    BY <1>4, <1>5 DEF Codes
  <2>2. Chord(k, WithShift(mods, needed)) \in Units
    BY <2>1 DEF Units
  <2> QED BY <2>2
<1>7. <<<<Motion>>>> \in Seq(Units)
  BY <1>0
<1> SUFFICES ASSUME NEW a \in Actions PROVE a \in Seq(Units)
  OBVIOUS
<1>8. \/ a = <<<<Motion>>>> \/ \E n \in 1 .. MaxRepeats : a = Click("b1", n)
      \/ \E dx, dy \in -MaxRepeats .. MaxRepeats : a = Scroll(dx, dy)
      \/ \E k \in Keys, mods \in SetToAllKPermutations(Modifiers), needed \in BOOLEAN :
           a = <<Chord(k, WithShift(mods, needed))>>
  <2> DEFINE chords(k, mods) == {<<Chord(k, WithShift(mods, needed))>> :
                 needed \in {n \in BOOLEAN : Distinct(k, WithShift(mods, n))}}
             clicks == {Click("b1", n) : n \in 1 .. MaxRepeats}
             scrolls == {Scroll(dx, dy) : dx \in -MaxRepeats .. MaxRepeats,
                                          dy \in -MaxRepeats .. MaxRepeats}
             typing == UNION {chords(k, mods) : k \in Keys, mods \in SetToAllKPermutations(Modifiers)}
  <2>0. a \in {<<<<Motion>>>>} \cup clicks \cup scrolls \cup typing
    BY DEF Actions
  <2>3. a \in clicks => \E n \in 1 .. MaxRepeats : a = Click("b1", n)
    OBVIOUS
  <2>4. a \in scrolls => \E dx, dy \in -MaxRepeats .. MaxRepeats : a = Scroll(dx, dy)
    OBVIOUS
  <2> HIDE DEF clicks, scrolls
  <2>1. \/ a = <<<<Motion>>>> \/ \E n \in 1 .. MaxRepeats : a = Click("b1", n)
        \/ \E dx, dy \in -MaxRepeats .. MaxRepeats : a = Scroll(dx, dy)
        \/ a \in UNION {chords(k, mods) : k \in Keys, mods \in SetToAllKPermutations(Modifiers)}
    BY <2>0, <2>3, <2>4
  <2>2. \A k, mods : a \in chords(k, mods) => 
          \E needed \in BOOLEAN : a = <<Chord(k, WithShift(mods, needed))>>
    OBVIOUS
  <2> HIDE DEF chords
  <2> QED BY <2>1, <2>2
<1> QED BY <1>2, <1>3, <1>6, <1>7, <1>8

\* What an event does to what is down and to what was refused.
LEMMA EventEffect ==
  ASSUME NEW e, NEW ok \in BOOLEAN, FakeInput(e, ok)
  PROVE  /\ e = Motion => pressed' = pressed /\ unreleased' = unreleased
         /\ \A c : e = Press(c) => pressed' \subseteq pressed \cup {c} /\ unreleased' = unreleased \ {c}
         /\ \A c : e = Lift(c) => /\ pressed' \subseteq pressed /\ unreleased \ {c} \subseteq unreleased'
                                  /\ c \notin pressed' \ unreleased'
<1> USE DEF FakeInput, Motion, Press, Lift
<1>1. e = Motion => pressed' = pressed /\ unreleased' = unreleased
  OBVIOUS
<1>2. ASSUME NEW c, e = Press(c)
      PROVE  pressed' \subseteq pressed \cup {c} /\ unreleased' = unreleased \ {c}
  <2>1. e.type = "press" /\ e.code = c
    BY <1>2
  <2> QED BY <2>1
<1>3. ASSUME NEW c, e = Lift(c)
      PROVE  /\ pressed' \subseteq pressed /\ unreleased \ {c} \subseteq unreleased'
             /\ c \notin pressed' \ unreleased'
  <2>1. e.type = "lift" /\ e.code = c
    BY <1>3
  <2>2. CASE ok
    BY <2>1, <2>2
  <2>3. CASE ~ok
    BY <2>1, <2>3
  <2> QED BY <2>2, <2>3
<1> QED BY <1>1, <1>2, <1>3

LEMMA RestingIsAJob == Resting \in Jobs /\ Resting.pc = "idle"
BY DEF Resting, Jobs

LEMMA DesktopHoldsAtStart == DesktopInit => DesktopInv
<1>1. Resting \in Jobs /\ Resting.pc = "idle"
  BY RestingIsAJob
<1> QED BY <1>1 DEF DesktopInit, DesktopInv, HandTypes, Accounted

\* A step of a hand keeps the account when the job after it answers for what the
\* job before it answered for, and for what its event pressed.
LEMMA AccountKept ==
  ASSUME DesktopInv, NEW h \in Hands, NEW job, hand' = [hand EXCEPT ![h] = job],
         \A c \in pressed' \ unreleased' :
           \/ Answers(job, c)
           \/ c \in pressed \ unreleased /\ ~Answers(hand[h], c)
  PROVE  Accounted'
<1> SUFFICES ASSUME NEW c \in pressed' \ unreleased' PROVE \E g \in Hands : Answers(hand'[g], c)
  BY DEF Accounted, Answers
<1>1. CASE Answers(job, c)
  BY <1>1 DEF DesktopInv
<1>2. CASE c \in pressed \ unreleased /\ ~Answers(hand[h], c)
  <2>1. PICK g \in Hands : Answers(hand[g], c)
    BY <1>2 DEF DesktopInv, Accounted
  <2>2. hand'[g] = hand[g]
    BY <2>1, <1>2 DEF DesktopInv
  <2> QED BY <2>1, <2>2
<1> QED BY <1>1, <1>2

LEMMA TypesKept ==
  ASSUME DesktopInv, NEW h \in Hands, NEW job, hand' = [hand EXCEPT ![h] = job],
         job \in Jobs, job.pc = "send" => job.unit \in Units,
         job.pc = "repair" => job.unit \in Seq(Releases)
  PROVE  DOMAIN hand' = Hands /\ HandTypes'
<1>1. DOMAIN hand' = Hands
  BY DEF DesktopInv
<1>2. \A g \in Hands : hand'[g] = IF g = h THEN job ELSE hand[g]
  BY DEF DesktopInv
<1> QED BY <1>1, <1>2 DEF DesktopInv, HandTypes

LEMMA DesktopKept == DesktopInv /\ [DesktopNext]_desktopVars => DesktopInv'
<1> SUFFICES ASSUME DesktopInv, [DesktopNext]_desktopVars PROVE DesktopInv'
  OBVIOUS
<1>1. ASSUME NEW h \in Hands, Begin(h) PROVE DesktopInv'
  <2>1. PICK units \in Actions : hand' = [hand EXCEPT ![h] = [Resting EXCEPT !.pc = "ready", !.units = units]]
    BY <1>1 DEF Begin
  <2> DEFINE job == [Resting EXCEPT !.pc = "ready", !.units = units]
  <2>2. job \in Jobs /\ job.pc = "ready"
    BY ActionsAreUnits, RestingIsAJob DEF Jobs
  <2>3. hand[h].pc = "idle" /\ pressed' = pressed /\ unreleased' = unreleased
    BY <1>1 DEF Begin
  <2>4. hand' = [hand EXCEPT ![h] = job]
    BY <2>1
  <2> HIDE DEF job
  <2>5. DOMAIN hand' = Hands /\ HandTypes'
    BY <2>2, <2>4, TypesKept
  <2>6. \A c : ~Answers(hand[h], c)
    BY <2>3 DEF Answers
  <2>7. Accounted'
    BY <2>3, <2>4, <2>6, AccountKept
  <2> QED BY <2>3, <2>5, <2>7 DEF DesktopInv
<1>2. ASSUME NEW h \in Hands, CancelInteraction(h) PROVE DesktopInv'
  BY <1>2 DEF CancelInteraction, DesktopInv, HandTypes, Accounted
<1>3. ASSUME NEW h \in Hands, NextUnit(h) PROVE DesktopInv'
  <2> DEFINE job == IF h \in stopped \/ hand[h].units = <<>> THEN Resting
                    ELSE [hand[h] EXCEPT !.pc = "send", !.units = Tail(hand[h].units),
                                         !.unit = Head(hand[h].units), !.at = 1]
  <2>1. hand' = [hand EXCEPT ![h] = job]
    BY <1>3 DEF NextUnit
  <2>2. hand[h].pc = "ready" /\ pressed' = pressed /\ unreleased' = unreleased
    BY <1>3 DEF NextUnit
  <2>3. hand[h] \in Jobs /\ hand[h].units \in Seq(Units)
    BY DEF DesktopInv, HandTypes, Jobs
  <2>4. hand[h].units # <<>> => Head(hand[h].units) \in Units /\ Tail(hand[h].units) \in Seq(Units)
    BY <2>3
  <2>5. job \in Jobs /\ job.pc \in {"idle", "send"} /\ (job.pc = "send" => job.unit \in Units)
    <3>1. CASE h \in stopped \/ hand[h].units = <<>>
      <4>1. job = Resting
        BY <3>1
      <4> QED BY <4>1, RestingIsAJob
    <3>2. CASE ~(h \in stopped \/ hand[h].units = <<>>)
      <4>0. job = [hand[h] EXCEPT !.pc = "send", !.units = Tail(hand[h].units), !.unit = Head(hand[h].units), !.at = 1]
        BY <3>2
      <4> HIDE DEF job
      <4>1. job = [pc |-> "send", units |-> Tail(hand[h].units), unit |-> Head(hand[h].units),
                   at |-> 1, failed |-> hand[h].failed]
        BY <2>3, <4>0 DEF Jobs
      <4> QED BY <3>2, <2>3, <2>4, <4>1 DEF Jobs
    <3> QED BY <3>1, <3>2
  <2> HIDE DEF job
  <2>6. DOMAIN hand' = Hands /\ HandTypes'
    BY <2>1, <2>5, TypesKept
  <2>7. \A c : ~Answers(hand[h], c)
    BY <2>2 DEF Answers
  <2>8. Accounted'
    BY <2>1, <2>2, <2>7, AccountKept
  <2> QED BY <2>2, <2>6, <2>8 DEF DesktopInv
<1>4. ASSUME NEW h \in Hands, SendEvent(h) PROVE DesktopInv'
  <2> DEFINE u == hand[h].unit
             at == hand[h].at
             e == u[at]
             C == Compensation(u, at)
  <2>1. PICK ok \in BOOLEAN :
          /\ FakeInput(e, ok)
          /\ hand' = [hand EXCEPT ![h] =
                IF ok THEN [hand[h] EXCEPT !.at = hand[h].at + 1]
                ELSE IF ReleasesModifier(hand[h].unit, hand[h].at)
                     THEN [hand[h] EXCEPT !.at = hand[h].at + 1, !.failed = TRUE]
                     ELSE [hand[h] EXCEPT !.pc = "repair", !.unit = Compensation(hand[h].unit, hand[h].at)]]
    BY <1>4 DEF SendEvent
  <2>2. /\ hand[h] \in Jobs /\ hand[h].pc = "send"
        /\ u \in Units /\ at \in Nat \ {0} /\ at <= Len(u)
    BY <1>4 DEF SendEvent, DesktopInv, HandTypes, Jobs
  <2> DEFINE onward == ok \/ ReleasesModifier(u, at)
             job == IF ok THEN [hand[h] EXCEPT !.at = hand[h].at + 1]
                    ELSE IF ReleasesModifier(u, at) THEN [hand[h] EXCEPT !.at = hand[h].at + 1, !.failed = TRUE]
                    ELSE [hand[h] EXCEPT !.pc = "repair", !.unit = Compensation(u, at)]
  <2>3. hand' = [hand EXCEPT ![h] = job]
    BY <2>1
  <2>4. onward => job \in Jobs /\ job.pc = "send" /\ job.unit = u /\ job.at = at + 1
    <3>1. onward => job \in {[hand[h] EXCEPT !.at = at + 1], [hand[h] EXCEPT !.at = at + 1, !.failed = TRUE]}
      OBVIOUS
    <3> HIDE DEF job
    <3> DEFINE f == [hand[h] EXCEPT !.at = at + 1]
               g == [f EXCEPT !.failed = TRUE]
    <3>2. f \in Jobs /\ f.pc = "send" /\ f.unit = u /\ f.at = at + 1
      BY <2>2 DEF Jobs
    <3>3. g = [hand[h] EXCEPT !.at = at + 1, !.failed = TRUE]
      OBVIOUS
    <3> HIDE DEF f
    <3>4. g \in Jobs /\ g.pc = "send" /\ g.unit = u /\ g.at = at + 1
      BY <3>2 DEF Jobs
    <3> HIDE DEF g
    <3> QED BY <3>1, <3>2, <3>3, <3>4 DEF f
  <2>5. ~onward => /\ job.pc = "repair" /\ job.unit = C
                   /\ C \in Seq(Releases) => job \in Jobs
    <3>1. ~onward => job = [hand[h] EXCEPT !.pc = "repair", !.unit = C]
      OBVIOUS
    <3> HIDE DEF C, job
    <3> DEFINE f == [hand[h] EXCEPT !.pc = "repair", !.unit = C]
    <3>2. f.pc = "repair" /\ f.unit = C /\ (C \in Seq(Releases) => f \in Jobs)
      BY <2>2 DEF Jobs
    <3> HIDE DEF f
    <3> QED BY <3>1, <3>2 DEF f
  <2> HIDE DEF job
  <2>6. /\ Len(u) \in Nat /\ at \in 1 .. Len(u)
        /\ \A i \in 1 .. Len(u) :
              \/ u[i] = Motion
              \/ \E c \in Codes : \/ u[i] = Lift(c)
                                  \/ /\ u[i] = Press(c)
                                     /\ \E j \in i + 1 .. Len(u) : u[j] = Lift(c)
    BY <2>2, PressedIsLifted
  <2>7. ~onward => /\ C \in Seq(Releases)
                   /\ \A i \in 1 .. at, c \in Codes : u[i] = Press(c) =>
                        \E j \in 1 .. Len(C) : C[j] = Lift(c)
    BY <2>2, <2>6, CompensationCovers DEF C
  <2> HIDE DEF C
  <2>8. DOMAIN hand' = Hands /\ HandTypes'
    BY <2>2, <2>3, <2>4, <2>5, <2>7, TypesKept
  <2>9. pressed' \subseteq Codes
    BY <2>1, <2>6, EventEffect DEF DesktopInv
  <2> HIDE DEF u, at, e
  <2>a. \A c \in Codes, i \in 1 .. at : u[i] = Press(c) /\ (\E j \in at + 1 .. Len(u) : u[j] = Lift(c))
          => Answers(job, c)
    <3> SUFFICES ASSUME NEW c \in Codes, NEW i \in 1 .. at, u[i] = Press(c),
                        \E j \in at + 1 .. Len(u) : u[j] = Lift(c)
                 PROVE  Answers(job, c)
      OBVIOUS
    <3>1. CASE onward
      BY <3>1, <2>4, <2>6 DEF Answers
    <3>2. CASE ~onward
      BY <3>2, <2>5, <2>7 DEF Answers
    <3> QED BY <3>1, <3>2
  <2>b. ASSUME NEW c \in Codes, Answers(hand[h], c), e # Lift(c) PROVE Answers(job, c)
    <3>1. PICK i \in 1 .. at - 1, j \in at .. Len(u) : u[i] = Press(c) /\ u[j] = Lift(c)
      BY <2>b, <2>2 DEF Answers, u, at
    <3>2. j # at
      BY <3>1, <2>b DEF e
    <3>3. i \in 1 .. at /\ j \in at + 1 .. Len(u)
      BY <3>1, <3>2, <2>6
    <3> QED BY <3>1, <3>3, <2>a
  <2>c. ASSUME NEW c \in pressed' \ unreleased'
        PROVE  Answers(job, c) \/ (c \in pressed \ unreleased /\ ~Answers(hand[h], c))
    <3>0. c \in Codes
      BY <2>9, <2>c
    <3>1. CASE e = Press(c)
      <4>1. \E j \in at + 1 .. Len(u) : u[j] = Lift(c)
        <5>1. PICK d \in Codes : \/ e = Lift(d)
                                 \/ e = Press(d) /\ \E j \in at + 1 .. Len(u) : u[j] = Lift(d)
          BY <2>6, <3>1 DEF e, Press, Motion
        <5>2. e # Lift(d) /\ (e = Press(d) => d = c)
          BY <3>1 DEF Press, Lift
        <5> QED BY <5>1, <5>2
      <4>2. at \in 1 .. at /\ u[at] = Press(c)
        BY <3>1, <2>6 DEF e
      <4> QED BY <4>1, <4>2, <3>0, <2>a
    <3>2. CASE e # Press(c)
      <4>1. e # Lift(c)
        BY <2>1, <2>c, EventEffect
      <4>2. c \in pressed \ unreleased
        <5>1. CASE e = Motion
          BY <5>1, <2>1, <2>c, EventEffect
        <5>2. CASE \E d \in Codes : e = Lift(d)
          <6>1. PICK d \in Codes : e = Lift(d)
            BY <5>2
          <6> QED BY <6>1, <4>1, <2>1, <2>c, EventEffect
        <5>3. CASE \E d \in Codes : e = Press(d)
          <6>1. PICK d \in Codes : e = Press(d)
            BY <5>3
          <6> QED BY <6>1, <3>2, <2>1, <2>c, EventEffect
        <5> QED BY <5>1, <5>2, <5>3, <2>6 DEF e
      <4> QED BY <2>b, <3>0, <4>1, <4>2
    <3> QED BY <3>1, <3>2 DEF e
  <2>d. Accounted'
    BY <2>3, <2>c, AccountKept
  <2> QED BY <2>8, <2>9, <2>d DEF DesktopInv
<1>5. ASSUME NEW h \in Hands, UnitSent(h) PROVE DesktopInv'
  <2> DEFINE u == hand[h].unit
             job == IF hand[h].failed THEN [hand[h] EXCEPT !.pc = "repair", !.unit = Compensation(u, Len(u))]
                    ELSE [hand[h] EXCEPT !.pc = "ready"]
  <2>1. hand' = [hand EXCEPT ![h] = job]
    BY <1>5 DEF UnitSent
  <2>2. /\ hand[h].pc = "send" /\ u \in Units /\ hand[h].units \in Seq(Units)
        /\ hand[h].at \in Nat /\ hand[h].at > Len(u) /\ pressed' = pressed /\ unreleased' = unreleased
        /\ hand[h] \in Jobs
    BY <1>5 DEF UnitSent, DesktopInv, HandTypes, Jobs
  <2>3. Len(u) \in Nat \ {0} /\ Compensation(u, Len(u)) \in Seq(Releases)
    BY <2>2, PressedIsLifted, CompensationCovers
  <2>4. job \in Jobs /\ job.pc \in {"repair", "ready"} /\ (job.pc = "repair" => job.unit \in Seq(Releases))
    BY <2>2, <2>3 DEF Jobs
  <2> HIDE DEF job
  <2>5. DOMAIN hand' = Hands /\ HandTypes'
    BY <2>1, <2>2, <2>3, <2>4, TypesKept
  <2>6. \A c : ~Answers(hand[h], c)
    BY <2>2, <2>3 DEF Answers
  <2>7. Accounted'
    BY <2>1, <2>2, <2>6, AccountKept
  <2> QED BY <2>2, <2>5, <2>7 DEF DesktopInv
<1>6. ASSUME NEW h \in Hands, Repair(h) PROVE DesktopInv'
  <2> DEFINE u == hand[h].unit
  <2>0. hand[h].pc = "repair" /\ u \in Seq(Releases)
    BY <1>6 DEF Repair, DesktopInv, HandTypes
  <2>a. hand[h] \in Jobs
    BY DEF DesktopInv, HandTypes
  <2>1. CASE u = <<>>
    <3>1. hand' = [hand EXCEPT ![h] = Resting] /\ pressed' = pressed /\ unreleased' = unreleased
      BY <1>6, <2>1 DEF Repair
    <3>2. DOMAIN hand' = Hands /\ HandTypes'
      BY <3>1, TypesKept, RestingIsAJob
    <3>3. \A c : ~Answers(hand[h], c)
      BY <2>0, <2>1 DEF Answers
    <3>4. Accounted'
      BY <3>1, <3>3, AccountKept
    <3> QED BY <3>1, <3>2, <3>4 DEF DesktopInv
  <2>2. CASE u # <<>>
    <3> DEFINE job == [hand[h] EXCEPT !.unit = Tail(u)]
    <3>1. PICK ok \in BOOLEAN : FakeInput(Head(u), ok)
      BY <1>6, <2>2 DEF Repair
    <3>2. hand' = [hand EXCEPT ![h] = job]
      BY <1>6, <2>2 DEF Repair
    <3>3. PICK d \in Codes : Head(u) = Lift(d)
      BY <2>0, <2>2 DEF Releases
    <3>4. /\ Tail(u) \in Seq(Releases) /\ Len(Tail(u)) = Len(u) - 1 /\ Len(u) \in Nat
          /\ \A i \in 1 .. Len(u) - 1 : Tail(u)[i] = u[i + 1]
      BY <2>0, <2>2
    <3>5. job \in Jobs /\ job.pc = "repair" /\ job.unit = Tail(u)
      BY <2>0, <2>a, <3>4 DEF Jobs
    <3> HIDE DEF job
    <3>6. DOMAIN hand' = Hands /\ HandTypes'
      BY <3>2, <3>4, <3>5, TypesKept
    <3>7. pressed' \subseteq pressed /\ unreleased \ {d} \subseteq unreleased' /\ d \notin pressed' \ unreleased'
      BY <3>1, <3>3, EventEffect
    <3>8. ASSUME NEW c \in pressed' \ unreleased'
          PROVE  Answers(job, c) \/ (c \in pressed \ unreleased /\ ~Answers(hand[h], c))
      <4>1. c # d /\ c \in pressed \ unreleased
        BY <3>7, <3>8
      <4>2. ASSUME Answers(hand[h], c) PROVE Answers(job, c)
        <5>1. PICK j \in 1 .. Len(u) : u[j] = Lift(c)
          BY <4>2, <2>0 DEF Answers
        <5>2. j # 1
          BY <5>1, <4>1, <3>3, <2>0, <2>2 DEF Lift
        <5>3. j - 1 \in 1 .. Len(u) - 1 /\ (j - 1) + 1 = j
          BY <5>1, <5>2, <3>4
        <5>4. Tail(u)[j - 1] = Lift(c)
          BY <5>1, <5>3, <3>4
        <5>5. j - 1 \in 1 .. Len(job.unit) /\ job.unit[j - 1] = Lift(c)
          BY <5>3, <5>4, <3>4, <3>5
        <5> QED BY <5>5, <3>5 DEF Answers
      <4> QED BY <4>1, <4>2
    <3>9. Accounted'
      BY <3>2, <3>8, AccountKept
    <3> QED BY <3>6, <3>7, <3>9 DEF DesktopInv
  <2> QED BY <2>1, <2>2
<1>7. CASE UNCHANGED desktopVars
  BY <1>7 DEF desktopVars, DesktopInv, HandTypes, Accounted
<1> QED BY <1>1, <1>2, <1>3, <1>4, <1>5, <1>6, <1>7 DEF DesktopNext

(* NothingStaysPressed: when the threads that click and type have ended,   *)
(* whatever failed, was cancelled or came in between, no button and no key *)
(* stays down, but for those that the server refused to release when it    *)
(* was asked last (computer.rs, the compensations of send_button and       *)
(* send_keycode). While one of them works, it answers for what it pressed. *)
THEOREM NothingIsLeftDown == DesktopSpec => []NothingStaysPressed
<1>1. DesktopInv => NothingStaysPressed
  BY DEF DesktopInv, Accounted, Answers, NothingStaysPressed
<1> QED BY <1>1, DesktopHoldsAtStart, DesktopKept, PTL DEF DesktopSpec
-----------------------------------------------------------------------------
(* The processes of an execution.                                          *)

Processes == [born : Nat \ {0}, parent : Pids \cup {InitPid, Daemon},
              group : [pid : Pids, born : Nat \ {0}], pipe : BOOLEAN,
              state : {"live", "stopped", "zombie"}]
Plans == {"stopGroup", "killGroup", "killGroupBlind", "refresh", "stopTracked", "killTracked",
          "inactive", "killRoot", "reap", "join", "fail"}

Executions == [pc : {"spawn", "guard", "select", "work", "done"}, root : Pids \cup {InitPid},
               outcome : {"none", "failed", "cut", "exited", "dropped"}, plan : Seq(Plans),
               targets : SUBSET Pids, aim : SUBSET Pids]
GuardStates == [tracked : [Pids -> Nat], monitor : BOOLEAN, active : BOOLEAN]

TreeTypes ==
    /\ os \in [Pids -> {Gone} \cup Processes] /\ births \in Nat \ {0}
    /\ call \in Executions
    /\ guard \in GuardStates

\* Before the child there is nobody; it is born at 1, and so is its group.
Begun ==
    /\ call.pc = "spawn" => /\ births = 1 /\ hit = {} /\ call.outcome = "none"
                            /\ \A p \in Pids : os[p] = Gone /\ guard.tracked[p] = 0
    /\ call.pc # "spawn" => births > 1 /\ Root \in Pids /\ 1 \in kin
    /\ \A p \in Pids : Exists(p) => os[p].born < births
\* The daemon's child has the first PID, its own group, and no other parent.
ChildSound ==
    \A p \in Pids :
        /\ os[p].born = 1 => p = Root /\ os[p].parent = Daemon /\ os[p].group.born = 1
        /\ Exists(p) /\ os[p].group.born = 1 => os[p].group.pid = Root
\* While it is not reaped, who is in the group of its PID descends from it.
GroupIsKin ==
    /\ hit \subseteq kin
    /\ Root \in Pids /\ os[Root].born = 1 =>
         \A p \in Pids : Exists(p) /\ os[p].group.pid = Root => os[p].born \in kin
\* The guard knows the child by its start, or it knows nobody.
GuardSound ==
    /\ Root \in Pids => guard.tracked[Root] = 1 \/ \A p \in Pids : guard.tracked[p] = 0
    /\ call.pc = "select" \/ call.outcome = "cut" => guard.tracked[Root] = 1

Kills == {"killGroup", "killGroupBlind"}
Has(plan, steps) == \E i \in DOMAIN plan : plan[i] \in steps
Pending(steps) == Has(call.plan, steps)
\* Where only this execution reaps the child, it has killed the group before.
Unreaped ==
    /\ call.pc \in {"guard", "select"} => os[Root].born = 1
    /\ call.pc = "work" /\ call.outcome \in {"cut", "failed"} /\ Pending(Kills) => os[Root].born = 1
PlanFits(plan, outcome) ==
    /\ plan \in Seq(Plans) /\ Len(plan) > 0
    /\ \A i \in DOMAIN plan : plan[i] \in {"join", "fail"} <=> i = Len(plan)
    /\ Has(plan, {"killGroupBlind"}) => outcome = "failed"
    /\ outcome \in {"cut", "failed"} =>
         \A i, j \in DOMAIN plan : plan[i] = "reap" /\ plan[j] \in Kills => j < i
PlanSound == IF call.pc = "work" THEN PlanFits(call.plan, call.outcome) ELSE call.plan = <<>>
\* Once the group of a cut execution was killed, nobody comes into it again.
GroupIsDead ==
    call.pc = "work" /\ call.outcome = "cut" /\ ~Pending(Kills) => \A p \in Pids : ~Survives(p)

TreeInv ==
    /\ TreeTypes /\ Begun /\ ChildSound /\ GroupIsKin /\ GuardSound
    /\ Unreaped /\ PlanSound /\ GroupIsDead

(* The process table under a signal, an exit or a look of a parent: who is   *)
(* left is who was there, no more alive, and the daemon's child is there.    *)
Thinned(new) ==
    \A p \in Pids :
        \/ new[p] = Gone
        \/ /\ new[p] \in Processes /\ Exists(p)
           /\ new[p].born = os[p].born /\ new[p].group = os[p].group
           /\ new[p].state # "zombie" => Running(p)
           /\ os[p].parent = Daemon => new[p].parent = Daemon
SparesChild(new) == \A p \in Pids : Exists(p) /\ os[p].parent = Daemon => new[p] # Gone

LEMMA Living ==
  ASSUME TreeTypes, NEW p \in Pids
  PROVE  /\ os[p] = Gone <=> ~Exists(p)
         /\ Exists(p) => os[p] \in Processes
<1>1. os[p] \in {Gone} \cup Processes /\ Gone.born = 0
  BY DEF TreeTypes, Executions, GuardStates, Gone
<1>2. \A x \in Processes : x.born # 0
  BY DEF Processes
<1> QED BY <1>1, <1>2 DEF Exists

LEMMA DiedThins ==
  ASSUME TreeTypes, NEW victims \in SUBSET Pids
  PROVE  /\ Died(victims) \in [Pids -> {Gone} \cup Processes]
         /\ Thinned(Died(victims)) /\ SparesChild(Died(victims))
         /\ \A p \in victims : Died(victims)[p] = Gone \/ Died(victims)[p].state = "zombie"
<1> DEFINE dying == {p \in victims : Running(p)}
           parent(p) == IF os[p].parent \in dying THEN InitPid ELSE os[p].parent
           after(p) == CASE ~Exists(p) -> Gone
                         [] Exists(p) /\ p \notin dying ->
                               IF Zombie(p) /\ parent(p) = InitPid THEN Gone
                               ELSE [os[p] EXCEPT !.parent = parent(p)]
                         [] OTHER -> IF parent(p) = InitPid THEN Gone
                                     ELSE [os[p] EXCEPT !.state = "zombie", !.pipe = FALSE]
<1>1. Died(victims) = [p \in Pids |-> after(p)]
  BY DEF Died
<1>2. ASSUME NEW p \in Pids
      PROVE  /\ after(p) = Gone \/
                  /\ after(p) \in Processes /\ Exists(p)
                  /\ after(p).born = os[p].born /\ after(p).group = os[p].group
                  /\ after(p).state # "zombie" => Running(p)
                  /\ os[p].parent = Daemon => after(p).parent = Daemon
             /\ Exists(p) /\ os[p].parent = Daemon => after(p) # Gone
             /\ p \in victims => after(p) = Gone \/ after(p).state = "zombie"
  <2>1. CASE ~Exists(p)
    BY <2>1
  <2>2. CASE Exists(p)
    <3>1. os[p] \in Processes
      BY <2>2, Living
    <3>2. parent(p) \in Pids \cup {InitPid, Daemon} /\ (os[p].parent = Daemon => parent(p) = Daemon)
      BY <3>1, TreeAssumption DEF Processes
    <3> DEFINE q == parent(p)
    <3> HIDE DEF parent
    <3>4. CASE p \notin dying
      <4>1. after(p) = IF Zombie(p) /\ q = InitPid THEN Gone ELSE [os[p] EXCEPT !.parent = q]
        BY <2>2, <3>4
      <4>2. [os[p] EXCEPT !.parent = q] \in Processes
        BY <3>1, <3>2 DEF Processes
      <4>3. /\ [os[p] EXCEPT !.parent = q].born = os[p].born
            /\ [os[p] EXCEPT !.parent = q].group = os[p].group
            /\ [os[p] EXCEPT !.parent = q].state = os[p].state
            /\ [os[p] EXCEPT !.parent = q].parent = q
        BY <3>1 DEF Processes
      <4>4. p \in victims => Zombie(p)
        BY <2>2, <3>4 DEF Running
      <4>5. [os[p] EXCEPT !.parent = q] # Gone
        BY <2>2, <4>3 DEF Gone, Exists
      <4> HIDE DEF after
      <4> QED BY <2>2, <3>2, <4>1, <4>2, <4>3, <4>4, <4>5, TreeAssumption DEF Running, Zombie
    <3>5. CASE p \in dying
      <4>1. after(p) = IF q = InitPid THEN Gone
                       ELSE [os[p] EXCEPT !.state = "zombie", !.pipe = FALSE]
        BY <2>2, <3>5
      <4> DEFINE z == [os[p] EXCEPT !.state = "zombie", !.pipe = FALSE]
      <4>2. z \in Processes /\ z.born = os[p].born /\ z.group = os[p].group /\ z.state = "zombie"
            /\ z.parent = os[p].parent
        BY <3>1 DEF Processes
      <4>3. z # Gone
        BY <2>2, <4>2 DEF Gone, Exists
      <4> HIDE DEF after, z
      <4> QED BY <2>2, <3>2, <4>1, <4>2, <4>3, TreeAssumption DEF z
    <3> QED BY <3>4, <3>5
  <2> QED BY <2>1, <2>2
<1> HIDE DEF after
<1> QED BY <1>1, <1>2 DEF Thinned, SparesChild

LEMMA FrozenThins ==
  ASSUME TreeTypes, NEW victims \in SUBSET Pids
  PROVE  /\ Frozen(victims) \in [Pids -> {Gone} \cup Processes]
         /\ Thinned(Frozen(victims)) /\ SparesChild(Frozen(victims))
<1> SUFFICES ASSUME NEW p \in Pids
             PROVE  /\ Frozen(victims)[p] \in {Gone} \cup Processes
                    /\ \/ Frozen(victims)[p] = Gone
                       \/ /\ Frozen(victims)[p] \in Processes /\ Exists(p)
                          /\ Frozen(victims)[p].born = os[p].born
                          /\ Frozen(victims)[p].group = os[p].group
                          /\ Frozen(victims)[p].state # "zombie" => Running(p)
                          /\ os[p].parent = Daemon => Frozen(victims)[p].parent = Daemon
                    /\ Exists(p) => Frozen(victims)[p] # Gone
  BY DEF Thinned, SparesChild, Frozen
<1>1. Frozen(victims)[p] = IF p \in victims /\ Running(p)
                           THEN [os[p] EXCEPT !.state = "stopped"] ELSE os[p]
  BY DEF Frozen
<1>2. CASE Exists(p)
  <2>1. os[p] \in Processes
    BY <1>2, Living
  <2> DEFINE f == [os[p] EXCEPT !.state = "stopped"]
  <2>2. f \in Processes /\ f.born = os[p].born /\ f.group = os[p].group /\ f.parent = os[p].parent
    BY <2>1 DEF Processes
  <2>3. f # Gone /\ os[p] # Gone
    BY <1>2, <2>2 DEF Gone, Exists
  <2> HIDE DEF f
  <2> QED BY <1>1, <1>2, <2>1, <2>2, <2>3 DEF f, Running, Zombie
<1>3. CASE ~Exists(p)
  BY <1>1, <1>3, Living DEF Running
<1> QED BY <1>2, <1>3

LEMMA ReapedThins ==
  ASSUME TreeTypes, NEW r \in Pids
  PROVE  /\ Reaped(r) \in [Pids -> {Gone} \cup Processes] /\ Thinned(Reaped(r))
         /\ \A p \in Pids : p # r /\ Exists(p) => Reaped(r)[p] # Gone
<1>1. \A p \in Pids : Reaped(r)[p] = IF p = r THEN Gone ELSE os[p]
  BY DEF Reaped, TreeTypes, Executions, GuardStates
<1> QED BY <1>1, Living DEF Thinned, Reaped, TreeTypes, Executions, GuardStates, Running, Zombie

(* The part of the invariant that the process table is in, as it thins out.  *)
TableSound == os \in [Pids -> {Gone} \cup Processes] /\ Begun /\ ChildSound /\ GroupIsKin
NoneSurvive == \A p \in Pids : ~Survives(p)

LEMMA TableThins ==
  ASSUME TreeTypes, TableSound, Thinned(os'), os' \in [Pids -> {Gone} \cup Processes],
         UNCHANGED <<births, kin>>, call'.root = call.root,
         call.pc # "spawn", call'.pc # "spawn", hit' \subseteq kin
  PROVE  TableSound' /\ (NoneSurvive => NoneSurvive')
<1>1. ASSUME NEW p \in Pids, Exists(p)'
      PROVE  /\ Exists(p) /\ os'[p].born = os[p].born /\ os'[p].group = os[p].group
             /\ Survives(p)' => Survives(p) /\ (os[p].parent = Daemon => os'[p].parent = Daemon)
             /\ os[p].parent = Daemon => os'[p].parent = Daemon
  <2>1. os'[p] # Gone
    BY <1>1 DEF Exists, Gone
  <2>2. /\ Exists(p) /\ os'[p].born = os[p].born /\ os'[p].group = os[p].group
        /\ os'[p].state # "zombie" => Running(p)
        /\ os[p].parent = Daemon => os'[p].parent = Daemon
    BY <2>1 DEF Thinned
  <2>3. Survives(p)' => Survives(p)
    BY <1>1, <2>2 DEF Survives, Running, Zombie
  <2> QED BY <2>2, <2>3
<1>2. \A p \in Pids : Survives(p)' => Exists(p)'
  BY DEF Survives, Running
<1>3. Begun'
  BY <1>1 DEF TableSound, Begun, Root
<1>4. ChildSound'
  <2>1. \A p \in Pids : os'[p].born = 1 => Exists(p)'
    BY DEF Exists
  <2> QED BY <1>1, <2>1 DEF TableSound, ChildSound, Root
<1>5. GroupIsKin'
  <2>1. Root' = Root /\ Root \in Pids
    BY DEF Root, TableSound, Begun
  <2>2. os'[Root].born = 1 => os[Root].born = 1
    BY <1>1, <2>1 DEF Exists
  <2> QED BY <1>1, <2>1, <2>2 DEF TableSound, GroupIsKin
<1>6. NoneSurvive => NoneSurvive'
  BY <1>1, <1>2 DEF NoneSurvive
<1> QED BY <1>3, <1>4, <1>5, <1>6 DEF TableSound

(* What a look or a switch of the guard leaves of it.                        *)
GuardKept ==
    /\ guard' \in GuardStates
    /\ \A p \in Pids : guard.tracked[p] # 0 => guard'.tracked[p] = guard.tracked[p]
    /\ (\A p \in Pids : guard.tracked[p] = 0) => \A p \in Pids : guard'.tracked[p] = 0

(* As long as the call does not move, the table and the child are what counts. *)
LEMMA CallLasts ==
  ASSUME TreeInv, GuardKept, TableSound', births' \in Nat \ {0},
         call'.pc = call.pc, call'.root = call.root, call'.outcome = call.outcome, call'.plan = call.plan,
         call' \in Executions,
         Root \in Pids /\ os[Root].born = 1 => os'[Root].born = 1, NoneSurvive => NoneSurvive'
  PROVE  TreeInv'
<1> USE DEF TreeInv
<1>1. TreeTypes' /\ Begun' /\ ChildSound' /\ GroupIsKin'
  BY DEF TableSound, TreeTypes, Executions, GuardStates, GuardKept
<1>2. GuardSound'
  <2>1. Root \in Pids /\ guard.tracked[Root] = 1 => guard'.tracked[Root] = 1
    BY DEF GuardKept
  <2>2. call.pc = "select" \/ call.outcome = "cut" => guard.tracked[Root] = 1
    BY DEF GuardSound
  <2>3. call.pc = "select" \/ call.outcome = "cut" => Root \in Pids
    BY DEF Begun
  <2> QED BY <2>1, <2>2, <2>3 DEF GuardSound, GuardKept, Root
<1>3. PlanSound' /\ Unreaped'
  BY DEF PlanSound, Unreaped, Begun, Pending, Has, Root
<1>4. GroupIsDead'
  BY DEF GroupIsDead, NoneSurvive, Pending, Has
<1> QED BY <1>1, <1>2, <1>3, <1>4

LEMMA CallStays ==
  ASSUME TreeInv, UNCHANGED <<call, guard>>, TableSound', births' \in Nat \ {0},
         Root \in Pids /\ os[Root].born = 1 => os'[Root].born = 1, NoneSurvive => NoneSurvive'
  PROVE  TreeInv'
<1>1. GuardKept
  BY DEF TreeInv, TreeTypes, Executions, GuardStates, GuardKept
<1>2. call' \in Executions
  BY DEF TreeInv, TreeTypes, Executions, GuardStates
<1> QED BY <1>1, <1>2, CallLasts

LEMMA ChildThere ==
  ASSUME TreeTypes, Begun, ChildSound, SparesChild(os'), Thinned(os'), Root \in Pids, os[Root].born = 1
  PROVE  os'[Root].born = 1
<1>1. Exists(Root) /\ os[Root].parent = Daemon
  BY DEF ChildSound, Exists
<1> QED BY <1>1 DEF SparesChild, Thinned

(* Other processes, and the child itself.                                    *)
LEMMA KeptByBirth ==
  ASSUME TreeInv, NEW q \in Pids, NEW new \in Processes, Free(q), call.pc # "spawn",
         os' = [os EXCEPT ![q] = new], new.born = births, births' = births + 1,
         kin \subseteq kin', new.parent # Daemon, UNCHANGED <<call, guard, hit>>,
         \/ new.group.pid = q /\ new.group.born = births
         \/ births \in kin' /\ \E p \in Pids : Running(p) /\ new.group = os[p].group
  PROVE  TreeInv'
<1> USE DEF TreeInv
<1>1. births \in Nat /\ births > 1 /\ Root \in Pids /\ Root' = Root
  BY DEF Begun, TreeTypes, Executions, GuardStates, Root
<1>2. births # 1 /\ births' > 1 /\ births' \in Nat \ {0} /\ \A n \in Nat : n < births => n < births'
  BY <1>1
<1>3. os'[q] = new /\ \A r \in Pids : r # q => os'[r] = os[r]
  BY DEF TreeTypes, Executions, GuardStates
<1>4. os' \in [Pids -> {Gone} \cup Processes]
  BY DEF TreeTypes, Executions, GuardStates
<1>5. ~Exists(q) /\ \A r \in Pids : Exists(r) => os[r].group.pid # q
  BY DEF Free
<1>6. \A r \in Pids : Exists(r) => os[r].born \in Nat /\ os[r].born < births
  <2>1. \A r \in Pids : Exists(r) => os[r] \in Processes
    BY Living
  <2> QED BY <2>1 DEF Begun, Processes
<1>7. Begun'
  <2>1. ASSUME NEW r \in Pids, Exists(r)' PROVE os'[r].born < births'
    <3>1. CASE r = q
      BY <1>1, <1>3, <3>1
    <3>2. CASE r # q
      BY <1>2, <1>3, <1>6, <2>1, <3>2 DEF Exists
    <3> QED BY <3>1, <3>2
  <2> QED BY <1>1, <1>2, <2>1 DEF Begun
<1>8. ChildSound'
  <2>1. new.born # 1
    BY <1>2
  <2>2. new.group.born = 1 => new.group.pid = Root
    <3>1. \A p \in Pids : Running(p) => Exists(p)
      BY DEF Running
    <3> QED BY <1>2, <3>1 DEF ChildSound
  <2> QED BY <1>1, <1>3, <2>1, <2>2 DEF ChildSound, Exists
<1>9. GroupIsKin'
  <2>1. hit' \subseteq kin'
    BY DEF GroupIsKin
  <2>2. ASSUME os'[Root].born = 1, NEW r \in Pids, Exists(r)', os'[r].group.pid = Root
        PROVE  os'[r].born \in kin'
    <3>1. Root # q /\ os[Root].born = 1
      BY <1>1, <1>2, <1>3, <2>2
    <3>2. CASE r # q
      BY <1>1, <1>3, <2>2, <3>1, <3>2 DEF GroupIsKin, Exists
    <3>3. CASE r = q
      BY <1>3, <2>2, <3>1, <3>3
    <3> QED BY <3>2, <3>3
  <2> QED BY <1>1, <2>1, <2>2 DEF GroupIsKin
<1>10. NoneSurvive => NoneSurvive'
  <2>1. Survives(q)' => \E p \in Pids : Survives(p)
    BY <1>2, <1>3 DEF Survives
  <2>2. \A r \in Pids : r # q => (Survives(r)' <=> Survives(r))
    BY <1>3 DEF Survives, Running, Zombie, Exists
  <2> QED BY <2>1, <2>2 DEF NoneSurvive
<1>11. os[Root].born = 1 => os'[Root].born = 1
  BY <1>1, <1>3, <1>5 DEF Exists
<1> QED BY <1>2, <1>4, <1>7, <1>8, <1>9, <1>10, <1>11, CallStays DEF TableSound

LEMMA KeptByBirths ==
  ASSUME TreeInv, NEW p \in Pids, NEW q \in Pids, Fork(p, q) \/ Stranger(q)
  PROVE  TreeInv'
<1>1. TreeTypes /\ Begun /\ births \in Nat \ {0}
  BY DEF TreeInv, TreeTypes, Executions, GuardStates
<1>2. CASE Fork(p, q)
  <2> DEFINE new == Proc(p, os[p].group, os[p].pipe)
  <2>1. Exists(p) /\ Running(p) /\ os[p] \in Processes
    BY <1>1, <1>2, Living DEF Fork, Acts, Running
  <2>2. new \in Processes /\ new.born = births /\ new.group = os[p].group /\ new.parent = p
    BY <1>1, <2>1 DEF Processes, Proc
  <2>3. call.pc # "spawn"
    BY <1>1, <2>1, Living DEF Begun
  <2>4. /\ Free(q) /\ os' = [os EXCEPT ![q] = new] /\ births' = births + 1
        /\ kin \subseteq kin' /\ births \in kin' /\ UNCHANGED <<call, guard, hit>>
    BY <1>2 DEF Fork, Born
  <2>5. p # Daemon
    BY TreeAssumption
  <2> HIDE DEF new
  <2> QED BY <2>1, <2>2, <2>3, <2>4, <2>5, KeptByBirth
<1>3. CASE Stranger(q)
  <2> DEFINE new == Proc(InitPid, [pid |-> q, born |-> births], FALSE)
  <2>1. /\ new \in Processes /\ new.born = births /\ new.parent = InitPid
        /\ new.group.pid = q /\ new.group.born = births
    BY <1>1 DEF Processes, Proc
  <2>2. /\ Free(q) /\ os' = [os EXCEPT ![q] = new] /\ births' = births + 1
        /\ kin \subseteq kin' /\ UNCHANGED <<call, guard, hit>> /\ call.pc # "spawn"
    BY <1>3 DEF Stranger, Born
  <2>3. InitPid # Daemon
    BY TreeAssumption
  <2> HIDE DEF new
  <2> QED BY <2>1, <2>2, <2>3, KeptByBirth
<1> QED BY <1>2, <1>3

LEMMA KeptByOthers ==
  ASSUME TreeInv, NEW p \in Pids, Others(p)
  PROVE  TreeInv'
<1> USE DEF TreeInv
<1>1. ASSUME Acts(p) PROVE Exists(p) /\ os[p] \in Processes /\ call.pc # "spawn" /\ Root \in Pids
  <2>1. Exists(p) /\ os[p] \in Processes
    BY <1>1, Living DEF Acts, Running
  <2>2. call.pc # "spawn"
    BY <2>1, Living DEF Begun
  <2> QED BY <2>1, <2>2 DEF Begun
<1>2. CASE NewSession(p)
  <2> DEFINE g == [pid |-> p, born |-> os[p].born]
             new == [os[p] EXCEPT !.group = g]
  <2>0. Acts(p)
    BY <1>2 DEF NewSession
  <2>1. /\ Exists(p) /\ os[p] \in Processes /\ call.pc # "spawn" /\ Root \in Pids
        /\ os[p].born \in kin /\ (\A q \in Pids : Exists(q) => os[q].group.pid # p)
        /\ UNCHANGED <<births, kin, call, guard, hit>>
    BY <1>1, <1>2, <2>0 DEF NewSession, Kin
  <2>2. os[p].born \in Nat \ {0}
    BY <2>1 DEF Processes
  <2>3. g \in [pid : Pids, born : Nat \ {0}] /\ g.pid = p /\ g.born = os[p].born
    BY <2>2
  <2>4. os' = [os EXCEPT ![p] = new]
    BY <1>2 DEF NewSession
  <2> HIDE DEF g
  <2>5. /\ new \in Processes /\ new.group = g /\ new.born = os[p].born /\ new.state = os[p].state
        /\ new.parent = os[p].parent
    BY <2>1, <2>3 DEF Processes
  <2> HIDE DEF new
  <2>6. /\ os'[p] = new /\ \A q \in Pids : q # p => os'[q] = os[q]
        /\ os' \in [Pids -> {Gone} \cup Processes]
    BY <2>4, <2>5 DEF TreeTypes, Executions, GuardStates
  <2>7. \A q \in Pids : (Exists(q)' <=> Exists(q)) /\ os'[q].born = os[q].born
    BY <2>5, <2>6 DEF Exists
  <2>8. Begun'
    BY <2>1, <2>7 DEF Begun, Root
  <2>9. ChildSound'
    BY <2>1, <2>3, <2>5, <2>6, <2>7 DEF ChildSound, Root, Exists
  <2>10. GroupIsKin'
    BY <2>1, <2>6, <2>7 DEF GroupIsKin, Root
  <2>11. NoneSurvive => NoneSurvive'
    <3>1. Survives(p)' => Survives(p)
      BY <2>0, <2>1, <2>3, <2>5, <2>6 DEF Survives, ChildSound, Acts
    <3>2. \A q \in Pids : q # p => (Survives(q)' <=> Survives(q))
      BY <2>6 DEF Survives, Running, Zombie, Exists
    <3> QED BY <3>1, <3>2 DEF NoneSurvive
  <2>12. births' \in Nat \ {0}
    BY <2>1 DEF TreeTypes, Executions, GuardStates
  <2> QED BY <2>1, <2>6, <2>7, <2>8, <2>9, <2>10, <2>11, <2>12, CallStays DEF TableSound
<1>3. CASE ClosePipe(p) \/ Exit(p) \/ \E q \in Pids : WaitChild(p, q)
  <2>1. /\ Acts(p) /\ UNCHANGED <<births, kin, call, guard, hit>>
        /\ call.pc # "spawn" /\ Root \in Pids /\ births' \in Nat \ {0}
    <3>1. Acts(p) /\ UNCHANGED <<births, kin, call, guard, hit>>
      BY <1>3 DEF ClosePipe, Exit, WaitChild
    <3> QED BY <1>1, <3>1 DEF TreeTypes, Executions, GuardStates
  <2>2. /\ os' \in [Pids -> {Gone} \cup Processes] /\ Thinned(os')
        /\ os[Root].born = 1 => os'[Root].born = 1
    <3>1. CASE ClosePipe(p)
      <4> DEFINE new == [os[p] EXCEPT !.pipe = FALSE]
      <4>1. os[p] \in Processes /\ Exists(p) /\ Running(p)
        BY <1>1, <2>1 DEF Acts
      <4>2. os' = [os EXCEPT ![p] = new]
        BY <3>1 DEF ClosePipe
      <4>3. /\ new \in Processes /\ new.group = os[p].group /\ new.born = os[p].born
            /\ new.state = os[p].state /\ new.parent = os[p].parent
        BY <4>1 DEF Processes
      <4> HIDE DEF new
      <4>4. \A q \in Pids : os'[q] = IF q = p THEN new ELSE os[q]
        BY <4>2 DEF TreeTypes, Executions, GuardStates
      <4>5. os' \in [Pids -> {Gone} \cup Processes]
        BY <4>2, <4>3 DEF TreeTypes, Executions, GuardStates
      <4>6. Thinned(os')
        BY <4>1, <4>3, <4>4, Living DEF Thinned, Running, Zombie
      <4> QED BY <2>1, <4>3, <4>4, <4>5, <4>6
    <3>2. CASE Exit(p)
      BY <2>1, <3>2, DiedThins, ChildThere DEF Exit
    <3>3. ASSUME NEW q \in Pids, WaitChild(p, q)
          PROVE  /\ os' \in [Pids -> {Gone} \cup Processes] /\ Thinned(os')
                 /\ os[Root].born = 1 => os'[Root].born = 1
      <4>1. os' = Reaped(q) /\ os[q].parent = p /\ p # Daemon
        BY <3>3, TreeAssumption DEF WaitChild
      <4>2. os[Root].born = 1 => Root # q
        BY <4>1 DEF ChildSound
      <4> QED BY <2>1, <4>1, <4>2, ReapedThins DEF Reaped, TreeTypes, Executions, GuardStates
    <3> QED BY <1>3, <3>1, <3>2, <3>3
  <2>3. hit' \subseteq kin
    BY <2>1 DEF GroupIsKin
  <2>4. TableSound
    BY DEF TableSound, TreeTypes, Executions, GuardStates
  <2>5. TableSound' /\ (NoneSurvive => NoneSurvive')
    BY <2>1, <2>2, <2>3, <2>4, TableThins
  <2> QED BY <2>1, <2>2, <2>5, CallStays
<1> QED BY <1>2, <1>3, KeptByBirths DEF Others

(* The steps of a plan.                                                      *)
LEMMA TailFits ==
  ASSUME NEW plan, NEW outcome, PlanFits(plan, outcome), Head(plan) \notin {"join", "fail"}
  PROVE  /\ PlanFits(Tail(plan), outcome)
         /\ \A steps : Has(Tail(plan), steps) => Has(plan, steps)
         /\ \A steps : Has(plan, steps) => Head(plan) \in steps \/ Has(Tail(plan), steps)
         /\ Head(plan) = "reap" /\ outcome \in {"cut", "failed"} => ~Has(Tail(plan), Kills)
<1> DEFINE s == Tail(plan)
<1>1. /\ plan \in Seq(Plans) /\ Len(plan) \in Nat /\ Len(plan) > 0 /\ DOMAIN plan = 1 .. Len(plan)
      /\ Head(plan) = plan[1] /\ 1 \in DOMAIN plan
  BY DEF PlanFits
<1>2. s \in Seq(Plans) /\ Len(s) = Len(plan) - 1 /\ DOMAIN s = 1 .. Len(s)
  BY <1>1
<1>3. \A i \in DOMAIN s : s[i] = plan[i + 1] /\ i \in Nat /\ i + 1 \in DOMAIN plan /\ i + 1 > 1
  BY <1>1, <1>2
<1>4. \A i \in DOMAIN plan : i \in Nat /\ (i = 1 \/ (i - 1 \in DOMAIN s /\ s[i - 1] = plan[i]))
  <2> SUFFICES ASSUME NEW i \in DOMAIN plan, i # 1
               PROVE  i \in Nat /\ i - 1 \in DOMAIN s /\ s[i - 1] = plan[i]
    BY <1>1
  <2>1. i \in Nat /\ i - 1 \in DOMAIN s
    BY <1>1, <1>2
  <2>2. (i - 1) + 1 = i
    BY <2>1
  <2> QED BY <1>3, <2>1, <2>2
<1>5. Len(plan) # 1
  BY <1>1 DEF PlanFits
<1> HIDE DEF s
<1>6. \A i \in DOMAIN s : s[i] \in {"join", "fail"} <=> i = Len(s)
  <2> TAKE i \in DOMAIN s
  <2>1. s[i] \in {"join", "fail"} <=> i + 1 = Len(plan)
    BY <1>3 DEF PlanFits
  <2>2. i \in Nat
    BY <1>3
  <2> QED BY <1>1, <1>2, <2>1, <2>2
<1>7. \A steps : Has(s, steps) => Has(plan, steps)
  BY <1>3 DEF Has
<1>8. \A steps : Has(plan, steps) => Head(plan) \in steps \/ Has(s, steps)
  BY <1>1, <1>4 DEF Has
<1>9. ASSUME outcome \in {"cut", "failed"}, NEW i \in DOMAIN s, NEW j \in DOMAIN s,
             s[i] = "reap", s[j] \in Kills
      PROVE  j < i
  <2>1. j + 1 < i + 1 /\ i \in Nat /\ j \in Nat
    BY <1>3, <1>9 DEF PlanFits
  <2> QED BY <2>1
<1>10. Head(plan) = "reap" /\ outcome \in {"cut", "failed"} => ~Has(s, Kills)
  <2> SUFFICES ASSUME Head(plan) = "reap", outcome \in {"cut", "failed"},
                      NEW j \in DOMAIN s, s[j] \in Kills
               PROVE  FALSE
    BY DEF Has
  <2>1. j + 1 < 1 /\ j \in Nat
    BY <1>1, <1>3 DEF PlanFits
  <2> QED BY <2>1
<1>11. Len(s) > 0
  BY <1>1, <1>2, <1>5
<1>12. PlanFits(s, outcome)
  BY <1>2, <1>6, <1>7, <1>9, <1>11 DEF PlanFits
<1> QED BY <1>7, <1>8, <1>10, <1>12 DEF s

LEMMA ConcatElements ==
  ASSUME NEW S, NEW a \in Seq(S), NEW b \in Seq(S)
  PROVE  /\ a \o b \in Seq(S) /\ Len(a \o b) = Len(a) + Len(b)
         /\ \A i \in DOMAIN a : i \in DOMAIN (a \o b) /\ (a \o b)[i] = a[i]
         /\ \A i \in DOMAIN b : Len(a) + i \in DOMAIN (a \o b) /\ (a \o b)[Len(a) + i] = b[i]
         /\ \A i \in DOMAIN (a \o b) :
              \/ i \in DOMAIN a
              \/ i > Len(a) /\ i - Len(a) \in DOMAIN b /\ (a \o b)[i] = b[i - Len(a)]
<1>1. /\ a \o b \in Seq(S) /\ Len(a \o b) = Len(a) + Len(b)
      /\ Len(a) \in Nat /\ Len(b) \in Nat /\ DOMAIN a = 1 .. Len(a) /\ DOMAIN b = 1 .. Len(b)
      /\ DOMAIN (a \o b) = 1 .. (Len(a) + Len(b))
  OBVIOUS
<1>2. \A i \in 1 .. (Len(a) + Len(b)) : (a \o b)[i] = IF i <= Len(a) THEN a[i] ELSE b[i - Len(a)]
  OBVIOUS
<1>3. \A m, n \in Nat : \A i \in 1 .. (m + n) : i \in 1 .. m \/ (i > m /\ i - m \in 1 .. n)
  OBVIOUS
<1>4. \A m, n \in Nat : (\A i \in 1 .. m : i \in 1 .. (m + n) /\ i <= m)
                       /\ \A i \in 1 .. n : m + i \in 1 .. (m + n) /\ ~(m + i <= m) /\ (m + i) - m = i
  OBVIOUS
<1>5. ASSUME NEW i \in DOMAIN (a \o b)
      PROVE  \/ i \in DOMAIN a
             \/ i > Len(a) /\ i - Len(a) \in DOMAIN b /\ (a \o b)[i] = b[i - Len(a)]
  <2>1. i \in DOMAIN a \/ (i > Len(a) /\ i - Len(a) \in DOMAIN b)
    BY <1>1, <1>3, Zenon
  <2>2. i > Len(a) => ~(i <= Len(a))
    BY <1>1
  <2> QED BY <1>1, <1>2, <2>1, <2>2
<1>6. \A i \in DOMAIN a : i \in DOMAIN (a \o b) /\ (a \o b)[i] = a[i]
  BY <1>1, <1>2, <1>4
<1>7. \A i \in DOMAIN b : Len(a) + i \in DOMAIN (a \o b) /\ (a \o b)[Len(a) + i] = b[i]
  BY <1>1, <1>2, <1>4
<1> QED BY <1>1, <1>5, <1>6, <1>7

LEMMA ConcatHas ==
  ASSUME NEW S, NEW a \in Seq(S), NEW b \in Seq(S), NEW steps, Has(a, steps) \/ Has(b, steps)
  PROVE  a \o b \in Seq(S) /\ Has(a \o b, steps)
<1>1. /\ a \o b \in Seq(S)
      /\ \A i \in DOMAIN a : i \in DOMAIN (a \o b) /\ (a \o b)[i] = a[i]
      /\ \A i \in DOMAIN b : Len(a) + i \in DOMAIN (a \o b) /\ (a \o b)[Len(a) + i] = b[i]
  BY ConcatElements
<1> QED BY <1>1 DEF Has

Repeatable == {"stopGroup", "refresh", "stopTracked", "killGroup", "killTracked", "inactive"}
LEMMA CleanupSteps ==
  Cleanup \in Seq(Repeatable) /\ Has(Cleanup, {"killGroup"})
<1> DEFINE a == <<"stopGroup">>
           r1 == Rounds(StopRounds, "stopTracked")
           k == <<"killGroup", "killTracked">>
           r2 == Rounds(KillRounds, "killTracked")
           z == <<"inactive">>
<1>1. ASSUME NEW n \in Nat, NEW signal \in Repeatable PROVE Rounds(n, signal) \in Seq(Repeatable)
  <2>1. 2 * n \in Nat
    OBVIOUS
  <2>2. \A i \in 1 .. 2 * n : (IF i % 2 = 1 THEN "refresh" ELSE signal) \in Repeatable
    BY DEF Repeatable
  <2> DEFINE m == 2 * n
  <2>3. Rounds(n, signal) \in [1 .. m -> Repeatable]
    BY <2>2 DEF Rounds
  <2> HIDE DEF m
  <2> QED BY <2>1, <2>3 DEF m
<1>2. r1 \in Seq(Repeatable) /\ r2 \in Seq(Repeatable)
  BY <1>1, TreeAssumption DEF Repeatable
<1>3. a \in Seq(Repeatable) /\ k \in Seq(Repeatable) /\ z \in Seq(Repeatable)
  BY DEF Repeatable
<1>4. 1 \in DOMAIN k /\ k[1] = "killGroup"
  OBVIOUS
<1>5. Cleanup = (((a \o r1) \o k) \o r2) \o z
  BY DEF Cleanup
<1> HIDE DEF a, r1, k, r2, z
<1>6. (a \o r1) \in Seq(Repeatable)
  BY <1>2, <1>3
<1>7. (a \o r1) \o k \in Seq(Repeatable) /\ Has((a \o r1) \o k, {"killGroup"})
  BY <1>3, <1>4, <1>6, ConcatHas DEF Has
<1>8. ((a \o r1) \o k) \o r2 \in Seq(Repeatable) /\ Has(((a \o r1) \o k) \o r2, {"killGroup"})
  BY <1>2, <1>7, ConcatHas
<1>9. (((a \o r1) \o k) \o r2) \o z \in Seq(Repeatable)
      /\ Has((((a \o r1) \o k) \o r2) \o z, {"killGroup"})
  BY <1>3, <1>8, ConcatHas
<1> QED BY <1>5, <1>9

LEMMA CleanupFits ==
  ASSUME NEW outcome, NEW rest \in Seq({"killRoot", "reap", "join"}), Len(rest) > 0,
         \A i \in DOMAIN rest : rest[i] = "join" <=> i = Len(rest)
  PROVE  PlanFits(Cleanup \o rest, outcome) /\ Has(Cleanup \o rest, {"killGroup"})
<1> DEFINE plan == Cleanup \o rest
<1>1. Cleanup \in Seq(Plans) /\ rest \in Seq(Plans) /\ Has(Cleanup, {"killGroup"})
      /\ (\A i \in DOMAIN Cleanup : Cleanup[i] \in Repeatable)
      /\ (\A i \in DOMAIN rest : rest[i] \in {"killRoot", "reap", "join"})
  BY CleanupSteps DEF Repeatable, Plans
<1>2. Len(Cleanup) \in Nat /\ Len(rest) \in Nat
      /\ DOMAIN Cleanup = 1 .. Len(Cleanup) /\ DOMAIN rest = 1 .. Len(rest)
  BY <1>1
<1> HIDE DEF plan
<1>3. /\ plan \in Seq(Plans) /\ Len(plan) = Len(Cleanup) + Len(rest)
      /\ \A i \in DOMAIN Cleanup : i \in DOMAIN plan /\ plan[i] = Cleanup[i]
      /\ \A i \in DOMAIN plan :
           \/ i \in DOMAIN Cleanup
           \/ i > Len(Cleanup) /\ i - Len(Cleanup) \in DOMAIN rest /\ plan[i] = rest[i - Len(Cleanup)]
  BY <1>1, ConcatElements DEF plan
<1>4. ASSUME NEW i \in DOMAIN plan
      PROVE  \/ plan[i] \in Repeatable /\ i \in Nat /\ i <= Len(Cleanup)
             \/ /\ plan[i] \in {"killRoot", "reap", "join"} /\ i > Len(Cleanup) /\ i \in Nat
                /\ plan[i] = "join" <=> i = Len(plan)
  <2>1. i \in Nat
    BY <1>3
  <2>2. CASE i \in DOMAIN Cleanup
    BY <1>1, <1>2, <1>3, <2>2
  <2>3. CASE i > Len(Cleanup) /\ i - Len(Cleanup) \in DOMAIN rest /\ plan[i] = rest[i - Len(Cleanup)]
    <3>1. plan[i] = "join" <=> i - Len(Cleanup) = Len(rest)
      BY <2>3
    <3>2. i - Len(Cleanup) = Len(rest) <=> i = Len(plan)
      BY <1>2, <1>3, <2>1
    <3> QED BY <1>1, <2>1, <2>3, <3>1, <3>2
  <2> QED BY <1>3, <2>2, <2>3
<1>5. Len(plan) \in Nat /\ Len(plan) > Len(Cleanup) /\ Len(plan) > 0
  BY <1>2, <1>3
<1>6. \A i \in DOMAIN plan : plan[i] \in {"join", "fail"} <=> i = Len(plan)
  <2> TAKE i \in DOMAIN plan
  <2>1. CASE plan[i] \in Repeatable /\ i \in Nat /\ i <= Len(Cleanup)
    <3>1. i # Len(plan)
      BY <1>2, <1>5, <2>1
    <3> QED BY <2>1, <3>1 DEF Repeatable
  <2>2. CASE plan[i] \in {"killRoot", "reap", "join"} /\ (plan[i] = "join" <=> i = Len(plan))
    BY <2>2
  <2> QED BY <1>4, <2>1, <2>2
<1>7. ~Has(plan, {"killGroupBlind"})
  BY <1>4 DEF Has, Repeatable
<1>8. \A i, j \in DOMAIN plan : plan[i] = "reap" /\ plan[j] \in Kills => j < i
  <2> SUFFICES ASSUME NEW i \in DOMAIN plan, NEW j \in DOMAIN plan, plan[i] = "reap", plan[j] \in Kills
               PROVE  j < i
    OBVIOUS
  <2>1. i \in Nat /\ i > Len(Cleanup) /\ j \in Nat /\ j <= Len(Cleanup)
    BY <1>4 DEF Repeatable, Kills
  <2> QED BY <1>2, <2>1
<1>9. Has(plan, {"killGroup"})
  BY <1>1, <1>3 DEF Has
<1> QED BY <1>3, <1>5, <1>6, <1>7, <1>8, <1>9 DEF PlanFits, plan

(* The execution up to the end of its child.                                 *)
LEMMA FirstOfPlan ==
  ASSUME TreeInv, NEW name, Step(name)
  PROVE  /\ PlanFits(call.plan, call.outcome) /\ call.pc = "work" /\ Root \in Pids /\ Head(call.plan) = name
         /\ \A steps : name \in steps => Pending(steps)
<1>1. PlanFits(call.plan, call.outcome) /\ call.pc = "work" /\ Root \in Pids /\ Head(call.plan) = name
  BY DEF TreeInv, PlanSound, Begun, Step
<1>2. 1 \in DOMAIN call.plan /\ call.plan[1] = name
  BY <1>1 DEF PlanFits
<1> QED BY <1>1, <1>2 DEF Pending, Has

LEMMA GuardLooks ==
  ASSUME TreeInv, Refresh
  PROVE  GuardKept
<1> USE DEF TreeInv, TreeTypes, Executions, GuardStates
<1>1. \A p \in Pids : os[p].born \in Nat
  BY DEF Processes, Gone
<1>2. Grown \in [Pids -> Nat] /\ \A p \in Pids : guard.tracked[p] # 0 => Grown[p] = guard.tracked[p]
  BY <1>1 DEF Grown
<1>3. ASSUME \A p \in Pids : guard.tracked[p] = 0 PROVE \A p \in Pids : Grown[p] = 0
  <2>1. {p \in Pids : Identified(p)} \subseteq {}
    BY <1>3 DEF Identified, Exists
  <2>2. {} \in SUBSET Pids /\ Closed({})
    BY DEF Closed
  <2>3. Found = {}
    BY <2>1, <2>2 DEF Found
  <2> QED BY <1>3, <2>3 DEF Grown
<1>4. guard' = [guard EXCEPT !.tracked = Grown]
  BY DEF Refresh
<1> HIDE DEF Grown
<1>5. guard'.tracked = Grown /\ guard' \in GuardStates
  BY <1>2, <1>4
<1> QED BY <1>2, <1>3, <1>5 DEF GuardKept

LEMMA BeginKeepsTree ==
  ASSUME TreeInv, NEW p \in Pids, Spawn(p)
  PROVE  TreeInv'
<1> USE DEF TreeInv
<1> DEFINE g == [pid |-> p, born |-> births]
           new == Proc(Daemon, g, TRUE)
<1>1. /\ births = 1 /\ hit = {} /\ call.outcome = "none" /\ call.plan = <<>>
      /\ \A q \in Pids : os[q] = Gone /\ guard.tracked[q] = 0
  BY DEF Spawn, Begun, PlanSound
<1>2. /\ os' = [os EXCEPT ![p] = new] /\ births' = births + 1 /\ kin' = {births} /\ UNCHANGED <<guard, hit>>
      /\ call' = [call EXCEPT !.pc = "guard", !.root = p]
  BY DEF Spawn, Born
<1>3. g \in [pid : Pids, born : Nat \ {0}] /\ g.pid = p /\ g.born = 1
  BY <1>1
<1> HIDE DEF g
<1>4. new \in Processes /\ new.born = 1 /\ new.group = g /\ new.parent = Daemon
  BY <1>1, <1>3 DEF Processes, Proc
<1> HIDE DEF new
<1>5. os'[p] = new /\ (\A q \in Pids : q # p => os'[q] = Gone) /\ os' \in [Pids -> {Gone} \cup Processes]
  BY <1>1, <1>2, <1>4 DEF TreeTypes, Executions, GuardStates
<1>6. /\ births' = 2 /\ kin' = {1} /\ hit' = {} /\ Root' = p
      /\ call'.pc = "guard" /\ call'.outcome = "none" /\ call'.plan = <<>>
  BY <1>1, <1>2 DEF TreeTypes, Executions, GuardStates, Root
<1>7. TreeTypes'
  <2>1. call' \in Executions
    BY <1>2 DEF TreeTypes, Executions, GuardStates
  <2>2. guard' \in GuardStates /\ births' \in Nat \ {0}
    BY <1>2, <1>6 DEF TreeTypes, Executions, GuardStates
  <2> QED BY <1>5, <2>1, <2>2 DEF TreeTypes, Executions, GuardStates
<1>8. \A q \in Pids : q # p => os'[q].born = 0
  BY <1>5 DEF Gone
<1>9. Begun' /\ ChildSound' /\ GroupIsKin'
  BY <1>3, <1>4, <1>5, <1>6, <1>8 DEF Begun, ChildSound, GroupIsKin, Exists
<1>10. GuardSound' /\ PlanSound' /\ Unreaped' /\ GroupIsDead'
  BY <1>1, <1>2, <1>4, <1>5, <1>6 DEF GuardSound, PlanSound, Unreaped, GroupIsDead
<1> QED BY <1>7, <1>9, <1>10

LEMMA GuardStarts ==
  ASSUME TreeInv, StartGuard
  PROVE  TreeInv'
<1> USE DEF TreeInv
<1>1. Root \in Pids /\ os[Root].born = 1 /\ call.plan = <<>> /\ call.pc = "guard"
  BY DEF StartGuard, Begun, Unreaped, PlanSound
<1> DEFINE known == [guard.tracked EXCEPT ![Root] = os[Root].born]
<1>2. known \in [Pids -> Nat] /\ known[Root] = 1
  BY <1>1 DEF TreeTypes, Executions, GuardStates
<1>3. /\ guard' = [tracked |-> known, monitor |-> TRUE, active |-> TRUE]
      /\ call' = [call EXCEPT !.pc = "select"] /\ UNCHANGED <<os, births, kin, hit>>
  BY DEF StartGuard
<1> HIDE DEF known
<1>4. Root' = Root /\ call'.pc = "select" /\ call'.plan = <<>> /\ guard'.tracked = known
  BY <1>1, <1>3 DEF TreeTypes, Executions, GuardStates, Root
<1>5. TreeTypes'
  BY <1>2, <1>3 DEF TreeTypes, Executions, GuardStates
<1>6. Begun' /\ ChildSound' /\ GroupIsKin'
  BY <1>1, <1>3, <1>4 DEF Begun, ChildSound, GroupIsKin, Exists
<1>7. GuardSound' /\ PlanSound' /\ Unreaped' /\ GroupIsDead'
  BY <1>1, <1>2, <1>3, <1>4 DEF GuardSound, PlanSound, Unreaped, GroupIsDead
<1> QED BY <1>5, <1>6, <1>7

(* A new plan, for whatever end the execution came to.                       *)
LEMMA Plan ==
  ASSUME TreeInv, TableSound', births' \in Nat \ {0}, call.pc # "spawn",
         NEW plan, NEW outcome \in {"failed", "cut", "exited", "dropped"}, Work(plan, outcome),
         PlanFits(plan, outcome),
         guard' \in GuardStates,
         guard'.tracked = guard.tracked,
         outcome \in {"cut", "failed"} => os'[Root].born = 1,
         outcome = "cut" => guard.tracked[Root] = 1 /\ Has(plan, Kills)
  PROVE  TreeInv'
<1> USE DEF TreeInv
<1>1. /\ Root \in Pids /\ Root' = Root /\ call'.pc = "work" /\ call'.outcome = outcome /\ call'.plan = plan
      /\ call' \in Executions
  BY DEF Work, TreeTypes, Executions, GuardStates, PlanFits, Root, Begun
<1>2. TreeTypes' /\ Begun' /\ ChildSound' /\ GroupIsKin'
  BY <1>1 DEF TreeTypes, Executions, GuardStates, TableSound
<1>3. GuardSound' /\ Unreaped' /\ PlanSound'
  BY <1>1 DEF GuardSound, Unreaped, PlanSound
<1>4. GroupIsDead'
  BY <1>1 DEF GroupIsDead, Pending
<1> QED BY <1>2, <1>3, <1>4

LEMMA TableStays ==
  ASSUME TreeInv, UNCHANGED <<os, births, kin, hit>>, call'.root = call.root,
         call.pc # "spawn", call'.pc # "spawn"
  PROVE  TableSound' /\ births' \in Nat \ {0} /\ (NoneSurvive => NoneSurvive')
<1>1. \A p \in Pids : Exists(p)' = Exists(p) /\ Survives(p)' = Survives(p)
  BY DEF Survives, Exists, Running, Zombie
<1>2. TreeTypes /\ Begun /\ ChildSound /\ GroupIsKin /\ Root' = Root
  BY DEF TreeInv, Root
<1>3. os' \in [Pids -> {Gone} \cup Processes] /\ births' \in Nat \ {0}
  BY <1>2 DEF TreeTypes
<1>4. Begun'
  BY <1>1, <1>2 DEF Begun
<1>5. ChildSound' /\ GroupIsKin'
  BY <1>1, <1>2 DEF ChildSound, GroupIsKin
<1>6. NoneSurvive => NoneSurvive'
  BY <1>1 DEF NoneSurvive
<1> QED BY <1>3, <1>4, <1>5, <1>6 DEF TableSound

LEMMA EndsKeepTree ==
  ASSUME TreeInv, GuardFails \/ CutShort \/ ChildExited \/ DropCall
  PROVE  TreeInv'
<1>0. /\ call.pc # "spawn" /\ call'.pc = "work" /\ call'.root = call.root
      /\ TreeTypes /\ TableSound /\ Root \in Pids
  BY DEF TreeInv, GuardFails, CutShort, ChildExited, DropCall, Work, TreeTypes, Executions,
         GuardStates, TableSound, Begun
<1>1. CASE GuardFails
  <2> DEFINE plan == <<"killGroupBlind", "killRoot", "reap", "fail">>
  <2>1. /\ plan \in Seq(Plans) /\ DOMAIN plan = 1 .. 4 /\ Len(plan) = 4
        /\ plan[1] = "killGroupBlind" /\ plan[2] = "killRoot" /\ plan[3] = "reap" /\ plan[4] = "fail"
    BY DEF Plans
  <2>2. Work(plan, "failed") /\ UNCHANGED <<os, births, kin, guard, hit>> /\ call.pc = "guard"
    BY <1>1 DEF GuardFails
  <2> HIDE DEF plan
  <2>3. \A i \in 1 .. 4 : i = 1 \/ i = 2 \/ i = 3 \/ i = 4
    OBVIOUS
  <2>4. PlanFits(plan, "failed")
    BY <2>1, <2>3 DEF PlanFits, Kills
  <2>5. os'[Root].born = 1
    BY <2>2 DEF TreeInv, Unreaped
  <2> QED BY <1>0, <2>2, <2>4, <2>5, Plan, TableStays DEF TreeTypes, Executions, GuardStates
<1>2. CASE CutShort
  <2> DEFINE rest == <<"killRoot", "reap", "join">>
  <2>1. /\ rest \in Seq({"killRoot", "reap", "join"}) /\ DOMAIN rest = 1 .. 3 /\ Len(rest) = 3
        /\ rest[1] = "killRoot" /\ rest[2] = "reap" /\ rest[3] = "join"
    OBVIOUS
  <2>2. /\ Work(Cleanup \o rest, "cut") /\ UNCHANGED <<os, births, kin, hit>> /\ call.pc = "select"
        /\ guard' = [guard EXCEPT !.monitor = FALSE]
    BY <1>2 DEF CutShort
  <2> HIDE DEF rest
  <2>3. \A i \in 1 .. 3 : i = 1 \/ i = 2 \/ i = 3
    OBVIOUS
  <2>9. Len(rest) > 0 /\ \A i \in DOMAIN rest : rest[i] = "join" <=> i = Len(rest)
    BY <2>1, <2>3
  <2>4. PlanFits(Cleanup \o rest, "cut") /\ Has(Cleanup \o rest, {"killGroup"})
    BY <2>1, <2>9, CleanupFits
  <2>5. Has(Cleanup \o rest, Kills)
    BY <2>4 DEF Has, Kills
  <2>6. os'[Root].born = 1 /\ guard.tracked[Root] = 1
    BY <2>2 DEF TreeInv, Unreaped, GuardSound
  <2>7. guard'.tracked = guard.tracked
        /\ guard' \in GuardStates
    BY <1>0, <2>2 DEF TreeTypes, Executions, GuardStates
  <2>8. TableSound' /\ births' \in Nat \ {0}
    BY <1>0, <2>2, TableStays
  <2> QED BY <1>0, <2>2, <2>4, <2>5, <2>6, <2>7, <2>8, Plan
<1>3. CASE ChildExited
  <2> DEFINE rest == <<"join">>
  <2>1. /\ rest \in Seq({"killRoot", "reap", "join"}) /\ DOMAIN rest = 1 .. 1 /\ Len(rest) = 1
        /\ rest[1] = "join"
    OBVIOUS
  <2>2. /\ Work(Cleanup \o rest, "exited") /\ UNCHANGED <<births, kin, hit>> /\ os' = Reaped(Root)
        /\ guard' = [guard EXCEPT !.monitor = FALSE]
    BY <1>3 DEF ChildExited
  <2> HIDE DEF rest
  <2>8. Len(rest) > 0 /\ \A i \in DOMAIN rest : rest[i] = "join" <=> i = Len(rest)
    BY <2>1
  <2>3. PlanFits(Cleanup \o rest, "exited")
    BY <2>1, <2>8, CleanupFits
  <2>4. guard'.tracked = guard.tracked
        /\ guard' \in GuardStates
    BY <1>0, <2>2 DEF TreeTypes, Executions, GuardStates
  <2>5. Thinned(os') /\ os' \in [Pids -> {Gone} \cup Processes]
    BY <1>0, <2>2, ReapedThins
  <2>6. hit' \subseteq kin /\ births' \in Nat \ {0}
    BY <1>0, <2>2 DEF TableSound, GroupIsKin, TreeTypes, Executions, GuardStates
  <2>7. TableSound'
    BY <1>0, <2>2, <2>5, <2>6, TableThins
  <2> QED BY <1>0, <2>2, <2>3, <2>4, <2>6, <2>7, Plan
<1>4. CASE DropCall
  <2> DEFINE long == <<"killGroup", "killTracked", "inactive">> \o <<"killRoot", "fail">>
             short == <<>> \o <<"killRoot", "fail">>
             plan == (IF guard.active THEN <<"killGroup", "killTracked", "inactive">> ELSE <<>>)
                     \o <<"killRoot", "fail">>
  <2>1. PlanFits(long, "dropped")
    <3>1. /\ long \in Seq(Plans) /\ DOMAIN long = 1 .. 5 /\ Len(long) = 5
          /\ long[1] = "killGroup" /\ long[2] = "killTracked" /\ long[3] = "inactive"
          /\ long[4] = "killRoot" /\ long[5] = "fail"
      BY DEF Plans
    <3>2. \A i \in 1 .. 5 : i = 1 \/ i = 2 \/ i = 3 \/ i = 4 \/ i = 5
      OBVIOUS
    <3> HIDE DEF long
    <3> QED BY <3>1, <3>2 DEF PlanFits, Has
  <2>2. PlanFits(short, "dropped")
    <3>1. /\ short \in Seq(Plans) /\ DOMAIN short = 1 .. 2 /\ Len(short) = 2
          /\ short[1] = "killRoot" /\ short[2] = "fail"
      BY DEF Plans
    <3>2. \A i \in 1 .. 2 : i = 1 \/ i = 2
      OBVIOUS
    <3> HIDE DEF short
    <3> QED BY <3>1, <3>2 DEF PlanFits, Has
  <2>3. plan = long \/ plan = short
    OBVIOUS
  <2>4. /\ Work(plan, "dropped") /\ UNCHANGED <<os, births, kin, hit>>
        /\ guard' = [guard EXCEPT !.monitor = FALSE]
    BY <1>4 DEF DropCall
  <2> HIDE DEF plan, long, short
  <2>5. guard'.tracked = guard.tracked
        /\ guard' \in GuardStates
    BY <1>0, <2>4 DEF TreeTypes, Executions, GuardStates
  <2>6. TableSound' /\ births' \in Nat \ {0}
    BY <1>0, <2>4, TableStays
  <2>7. PlanFits(plan, "dropped")
    BY <2>1, <2>2, <2>3
  <2> QED BY <1>0, <2>4, <2>5, <2>6, <2>7, Plan
<1> QED BY <1>1, <1>2, <1>3, <1>4

(* The cleanup: a step leaves the plan, and does what it has to do.          *)
LEMMA PlanAdvances ==
  ASSUME TreeInv, NEW name, Step(name), name \notin {"join", "fail"}, Advance,
         GuardKept, TableSound', births' \in Nat \ {0},
         name = "reap" \/ (os[Root].born = 1 => os'[Root].born = 1),
         NoneSurvive => NoneSurvive',
         name \in Kills /\ call.outcome = "cut" => NoneSurvive'
  PROVE  TreeInv'
<1> USE DEF TreeInv
<1> DEFINE plan == call.plan
           aims == {p \in Pids : guard'.tracked[p] # 0}
<1>1. /\ PlanFits(plan, call.outcome) /\ call.pc = "work" /\ Root \in Pids /\ Head(plan) = name
      /\ Root' = Root
  BY FirstOfPlan DEF Root, Advance, TreeTypes, Executions, GuardStates
<1>2. /\ PlanFits(Tail(plan), call.outcome)
      /\ \A steps : Has(Tail(plan), steps) => Has(plan, steps)
      /\ \A steps : Has(plan, steps) => name \in steps \/ Has(Tail(plan), steps)
      /\ name = "reap" /\ call.outcome \in {"cut", "failed"} => ~Has(Tail(plan), Kills)
  BY <1>1, TailFits
<1>3. aims \in SUBSET Pids /\ Tail(plan) \in Seq(Plans)
  BY <1>2 DEF PlanFits
<1>4. call' = [call EXCEPT !.plan = Tail(plan), !.targets = aims]
  BY DEF Advance
<1> HIDE DEF aims
<1>5. /\ call'.plan = Tail(plan) /\ call'.pc = "work" /\ call'.outcome = call.outcome
      /\ call' \in Executions
  BY <1>1, <1>3, <1>4 DEF TreeTypes, Executions, GuardStates
<1>6. TreeTypes' /\ Begun' /\ ChildSound' /\ GroupIsKin'
  BY <1>5 DEF TableSound, TreeTypes, Executions, GuardStates, GuardKept
<1>7. GuardSound'
  <2>1. guard.tracked[Root] = 1 => guard'.tracked[Root] = 1
    BY <1>1 DEF GuardKept
  <2> QED BY <1>1, <1>5, <2>1 DEF GuardSound, GuardKept
<1>8. PlanSound'
  BY <1>2, <1>5 DEF PlanSound
<1>9. Unreaped'
  <2>1. call.outcome \in {"cut", "failed"} /\ Has(Tail(plan), Kills) => os[Root].born = 1 /\ name # "reap"
    BY <1>1, <1>2 DEF Unreaped, Pending
  <2> QED BY <1>1, <1>5, <2>1 DEF Unreaped, Pending
<1>10. GroupIsDead'
  <2>1. ASSUME call.outcome = "cut", ~Has(Tail(plan), Kills) PROVE NoneSurvive'
    <3>1. CASE name \in Kills
      BY <2>1, <3>1
    <3>2. CASE name \notin Kills
      BY <1>1, <1>2, <2>1, <3>2 DEF GroupIsDead, NoneSurvive, Pending
    <3> QED BY <3>1, <3>2
  <2> QED BY <1>5, <2>1 DEF GroupIsDead, NoneSurvive, Pending
<1> QED BY <1>6, <1>7, <1>8, <1>9, <1>10

(* Where the group is signalled, it is the child's: its leader is unreaped.  *)
LEMMA GroupIsOurs ==
  ASSUME TreeInv, Root \in Pids, os[Root].born = 1
  PROVE  {os[p].born : p \in GroupMembers} \subseteq kin
BY DEF TreeInv, GroupIsKin, GroupMembers

LEMMA RootIsOurs ==
  ASSUME TreeInv, Root \in Pids, RootIdentity
  PROVE  os[Root].born = 1
BY DEF TreeInv, RootIdentity, Identified, Exists, GuardSound

LEMMA SignalsKeepTree ==
  ASSUME TreeInv, StopGroup \/ KillGroup \/ KillGroupBlind
  PROVE  TreeInv'
<1> DEFINE name == IF StopGroup THEN "stopGroup" ELSE IF KillGroup THEN "killGroup" ELSE "killGroupBlind"
           effect == IF StopGroup THEN Frozen(GroupMembers) ELSE Died(GroupMembers)
<1>1. /\ Step(name) /\ Advance /\ UNCHANGED <<births, kin, guard>>
      /\ name \in {"stopGroup", "killGroup", "killGroupBlind"}
      /\ name \in Kills => effect = Died(GroupMembers)
      /\ effect = Frozen(GroupMembers) \/ effect = Died(GroupMembers)
      /\ \/ name # "killGroupBlind" /\ SignalGroup(RootIdentity, effect)
         \/ name = "killGroupBlind" /\ SignalGroup(TRUE, effect)
  BY DEF StopGroup, KillGroup, KillGroupBlind, Kills
<1> HIDE DEF name, effect
<1>2. /\ PlanFits(call.plan, call.outcome) /\ call.pc = "work" /\ Root \in Pids
      /\ \A steps : name \in steps => Pending(steps)
      /\ TreeTypes /\ TableSound /\ ChildSound
  BY <1>1, FirstOfPlan DEF TreeInv, TableSound, TreeTypes, Executions, GuardStates
<1>3. name \in Kills /\ call.outcome \in {"cut", "failed"} => os[Root].born = 1
  BY <1>2 DEF TreeInv, Unreaped
<1>4. name = "killGroupBlind" => name \in Kills /\ call.outcome = "failed"
  <2>1. name = "killGroupBlind" => Pending({"killGroupBlind"})
    BY <1>2
  <2> QED BY <1>2, <2>1 DEF PlanFits, Pending, Kills
<1>5. GuardKept /\ births' \in Nat \ {0}
  BY <1>1, <1>2 DEF TreeTypes, Executions, GuardStates, GuardKept
<1>6. GroupMembers \in SUBSET Pids
  BY DEF GroupMembers
<1>7. /\ call'.root = call.root /\ call'.pc = "work"
  BY <1>1, <1>2 DEF Advance, TreeTypes, Executions, GuardStates
<1>8. CASE os' = effect /\ hit' = hit \cup {os[p].born : p \in GroupMembers} /\ os[Root].born = 1
  <2>1. os' \in [Pids -> {Gone} \cup Processes] /\ Thinned(os') /\ SparesChild(os')
    BY <1>1, <1>2, <1>6, <1>8, DiedThins, FrozenThins
  <2>2. hit' \subseteq kin
    BY <1>2, <1>8, GroupIsOurs DEF TableSound, GroupIsKin
  <2>3. TableSound' /\ (NoneSurvive => NoneSurvive')
    BY <1>1, <1>2, <1>7, <2>1, <2>2, TableThins
  <2>4. os'[Root].born = 1
    BY <1>2, <1>8, <2>1, ChildThere DEF TableSound
  <2>5. name \in Kills => NoneSurvive'
    <3> SUFFICES ASSUME name \in Kills, NEW p \in Pids, Survives(p)'
                 PROVE  FALSE
      BY DEF NoneSurvive
    <3>1. os'[p] # Gone /\ os'[p].state # "zombie" /\ os'[p].group.born = 1
      BY DEF Survives, Running, Zombie, Exists, Gone
    <3>2. Exists(p) /\ os[p].group.born = 1
      BY <2>1, <3>1 DEF Thinned
    <3>3. p \in GroupMembers
      BY <1>2, <3>2 DEF ChildSound, GroupMembers
    <3> QED BY <1>1, <1>2, <1>6, <1>8, <3>1, <3>3, DiedThins
  <2> QED BY <1>1, <1>5, <2>3, <2>4, <2>5, PlanAdvances
<1>9. CASE UNCHANGED <<os, hit>> /\ ~RootIdentity /\ name # "killGroupBlind"
  <2>1. TableSound' /\ (NoneSurvive => NoneSurvive')
    BY <1>1, <1>2, <1>7, <1>9, TableStays
  <2>2. ~(name \in Kills /\ call.outcome = "cut")
    <3>1. call.outcome = "cut" => guard.tracked[Root] = 1
      BY DEF TreeInv, GuardSound
    <3> QED BY <1>3, <1>9, <3>1 DEF RootIdentity, Identified, Exists
  <2> QED BY <1>1, <1>5, <1>9, <2>1, <2>2, PlanAdvances
<1>10. CASE name = "killGroupBlind" /\ SignalGroup(TRUE, effect)
  BY <1>3, <1>4, <1>8, <1>10 DEF SignalGroup
<1>11. CASE SignalGroup(RootIdentity, effect) /\ name # "killGroupBlind"
  <2>1. CASE RootIdentity
    BY <1>2, <1>8, <1>11, <2>1, RootIsOurs DEF SignalGroup
  <2>2. CASE ~RootIdentity
    BY <1>9, <1>11, <2>2 DEF SignalGroup
  <2> QED BY <2>1, <2>2
<1> QED BY <1>1, <1>10, <1>11

(* A process that was identified is signalled on its own.                    *)
LEMMA TrackedKeepTree ==
  ASSUME TreeInv, NEW p \in Pids, Verify(p) \/ Fire
  PROVE  TreeInv'
<1>1. TreeTypes /\ TableSound /\ Root \in Pids /\ call.pc = "work"
  BY DEF TreeInv, TableSound, TreeTypes, Executions, GuardStates, Begun, Verify, Fire, Tracked, Step
<1>2. call.aim \in SUBSET Pids /\ call.targets \in SUBSET Pids
  BY <1>1 DEF TreeTypes, Executions, GuardStates
<1> DEFINE aim == IF Identified(p) THEN {p} ELSE {}
           targets == call.targets \ {p}
<1>3. CASE Verify(p)
  <2>1. aim \in SUBSET Pids /\ targets \in SUBSET Pids
    BY <1>2
  <2>2. call' = [call EXCEPT !.targets = targets, !.aim = aim] /\ UNCHANGED <<os, births, kin, guard, hit>>
    BY <1>3 DEF Verify
  <2> HIDE DEF aim, targets
  <2>3. /\ call'.pc = call.pc /\ call'.root = call.root /\ call'.outcome = call.outcome
        /\ call'.plan = call.plan
        /\ call' \in Executions
    BY <1>1, <2>1, <2>2 DEF TreeTypes, Executions, GuardStates
  <2>4. TableSound' /\ births' \in Nat \ {0} /\ (NoneSurvive => NoneSurvive')
    BY <1>1, <2>2, <2>3, TableStays
  <2>5. GuardKept
    BY <1>1, <2>2 DEF GuardKept, TreeTypes, Executions, GuardStates
  <2> QED BY <2>2, <2>3, <2>4, <2>5, CallLasts
<1>4. CASE Fire
  <2>1. /\ call' = [call EXCEPT !.aim = {}] /\ UNCHANGED <<births, kin, guard, hit>>
        /\ os' = Frozen(call.aim) \/ os' = Died(call.aim)
    BY <1>4 DEF Fire
  <2>2. /\ call'.pc = call.pc /\ call'.root = call.root /\ call'.outcome = call.outcome
        /\ call'.plan = call.plan
        /\ call' \in Executions
    BY <1>1, <2>1 DEF TreeTypes, Executions, GuardStates
  <2>3. os' \in [Pids -> {Gone} \cup Processes] /\ Thinned(os') /\ SparesChild(os')
    BY <1>1, <1>2, <2>1, DiedThins, FrozenThins
  <2>4. hit' \subseteq kin /\ births' \in Nat \ {0}
    BY <1>1, <2>1 DEF TableSound, GroupIsKin, TreeTypes, Executions, GuardStates
  <2>5. TableSound' /\ (NoneSurvive => NoneSurvive')
    BY <1>1, <2>1, <2>2, <2>3, <2>4, TableThins
  <2>6. GuardKept
    BY <1>1, <2>1 DEF GuardKept, TreeTypes, Executions, GuardStates
  <2>7. os[Root].born = 1 => os'[Root].born = 1
    BY <1>1, <2>3, ChildThere DEF TableSound
  <2> QED BY <2>2, <2>4, <2>5, <2>6, <2>7, CallLasts
<1> QED BY <1>3, <1>4

(* The other steps of the cleanup signal nobody, or the child alone.         *)
LEMMA CleanupKeepsTree ==
  ASSUME TreeInv, Look \/ AllSignalled \/ Deactivate \/ KillRoot \/ Reap
  PROVE  TreeInv'
<1>1. PICK name \in {"refresh", "stopTracked", "killTracked", "inactive", "killRoot", "reap"} :
         /\ Step(name) /\ Advance /\ UNCHANGED <<births, kin, hit>>
         /\ KillRoot \/ Reap \/ os' = os
         /\ Reap => name = "reap"
         /\ Refresh \/ Deactivate \/ UNCHANGED guard
  BY DEF Look, AllSignalled, Deactivate, KillRoot, Reap, Tracked
<1>2. /\ TreeTypes /\ TableSound /\ Root \in Pids /\ call.pc = "work"
      /\ call'.root = call.root /\ call'.pc = "work"
  BY <1>1, FirstOfPlan DEF TreeInv, TableSound, TreeTypes, Executions, GuardStates, Advance
<1>3. GuardKept /\ births' \in Nat \ {0}
  <2>1. CASE Refresh
    BY <2>1, <1>1, <1>2, GuardLooks DEF TreeTypes, Executions, GuardStates
  <2>2. CASE Deactivate
    BY <2>2, <1>1, <1>2 DEF Deactivate, TreeTypes, Executions, GuardStates, GuardKept
  <2>3. CASE UNCHANGED guard
    BY <2>3, <1>1, <1>2 DEF TreeTypes, Executions, GuardStates, GuardKept
  <2> QED BY <1>1, <2>1, <2>2, <2>3
<1>4. hit' \subseteq kin
  BY <1>1, <1>2 DEF TableSound, GroupIsKin
<1>5. name \notin Kills /\ name \notin {"join", "fail"}
  BY DEF Kills
<1>6. CASE os' = os
  <2>1. TableSound' /\ (NoneSurvive => NoneSurvive')
    BY <1>1, <1>2, <1>6, TableStays
  <2> QED BY <1>1, <1>3, <1>5, <1>6, <2>1, PlanAdvances
<1>7. CASE os' = Died({Root})
  <2>1. {Root} \in SUBSET Pids
    BY <1>2
  <2>2. os' \in [Pids -> {Gone} \cup Processes] /\ Thinned(os') /\ SparesChild(os')
    BY <1>2, <1>7, <2>1, DiedThins
  <2>3. TableSound' /\ (NoneSurvive => NoneSurvive')
    BY <1>1, <1>2, <1>4, <2>2, TableThins
  <2>4. os[Root].born = 1 => os'[Root].born = 1
    BY <1>2, <2>2, ChildThere DEF TableSound
  <2> QED BY <1>1, <1>3, <1>5, <2>3, <2>4, PlanAdvances
<1>8. CASE Reap
  <2>1. os' = Reaped(Root)
    BY <1>8 DEF Reap
  <2>2. os' \in [Pids -> {Gone} \cup Processes] /\ Thinned(os')
    BY <1>2, <2>1, ReapedThins
  <2>3. TableSound' /\ (NoneSurvive => NoneSurvive')
    BY <1>1, <1>2, <1>4, <2>2, TableThins
  <2> QED BY <1>1, <1>3, <1>5, <1>8, <2>3, PlanAdvances
<1> QED BY <1>1, <1>6, <1>7, <1>8 DEF KillRoot

LEMMA DoneKeepsTree ==
  ASSUME TreeInv, JoinOutputs \/ GiveUp
  PROVE  TreeInv'
<1>1. /\ call' = [call EXCEPT !.pc = "done", !.plan = <<>>] /\ UNCHANGED <<os, births, kin, guard, hit>>
      /\ call.pc = "work"
  BY DEF JoinOutputs, GiveUp, Step
<1>2. <<>> \in Seq(Plans)
  OBVIOUS
<1>3. /\ call'.pc = "done" /\ call'.plan = <<>> /\ call'.root = call.root /\ call'.outcome = call.outcome
      /\ call' \in Executions
  BY <1>1, <1>2 DEF TreeInv, TreeTypes, Executions, GuardStates
<1>4. TableSound' /\ births' \in Nat \ {0}
  BY <1>1, <1>3, TableStays
<1>5. TreeTypes' /\ Begun' /\ ChildSound' /\ GroupIsKin'
  BY <1>1, <1>3, <1>4 DEF TreeInv, TreeTypes, Executions, GuardStates, TableSound
<1>6. GuardSound' /\ PlanSound' /\ Unreaped' /\ GroupIsDead'
  BY <1>1, <1>3 DEF TreeInv, GuardSound, PlanSound, Unreaped, GroupIsDead, Root
<1> QED BY <1>5, <1>6 DEF TreeInv

LEMMA TreeInitially ==
  ASSUME TreeInit
  PROVE  TreeInv
<1>1. TreeTypes
  <2>1. <<>> \in Seq(Plans)
    OBVIOUS
  <2> QED BY <2>1 DEF TreeInit, TreeTypes, Executions, GuardStates
<1>2. InitPid \notin Pids /\ Gone.born = 0
  BY TreeAssumption DEF Gone
<1> QED BY <1>1, <1>2 DEF TreeInit, TreeInv, Begun, ChildSound, GroupIsKin, GuardSound, Unreaped,
                     PlanSound, GroupIsDead, Root, Exists

LEMMA TreeKept ==
  ASSUME TreeInv, [TreeNext]_treeVars
  PROVE  TreeInv'
<1>1. CASE UNCHANGED treeVars
  BY <1>1 DEF treeVars, TreeInv, TreeTypes, Executions, GuardStates, Begun, ChildSound,
              GroupIsKin, GuardSound, Unreaped,
              PlanSound, GroupIsDead, Root, Exists, Pending, Survives, Running, Zombie
<1>2. CASE Sample
  <2>1. GuardKept /\ UNCHANGED <<os, births, kin, call, hit>>
    BY <1>2, GuardLooks DEF Sample
  <2>2. TableSound' /\ births' \in Nat \ {0} /\ (NoneSurvive => NoneSurvive')
    <3>1. Begun'
      BY <2>1 DEF TreeInv, Begun, GuardKept, Exists, Root
    <3>2. ChildSound' /\ GroupIsKin'
      BY <2>1 DEF TreeInv, ChildSound, GroupIsKin, Exists, Root
    <3>3. NoneSurvive => NoneSurvive'
      BY <2>1 DEF NoneSurvive, Survives, Exists, Running, Zombie
    <3> QED BY <2>1, <3>1, <3>2, <3>3 DEF TreeInv, TreeTypes, Executions, GuardStates, TableSound
  <2>3. call' = call
        /\ call \in Executions
    BY <2>1 DEF TreeInv, TreeTypes, Executions, GuardStates
  <2> QED BY <2>1, <2>2, <2>3, CallLasts
<1>3. ASSUME NEW p \in Pids, Others(p) \/ Spawn(p) PROVE TreeInv'
  BY <1>3, KeptByOthers, BeginKeepsTree
<1>4. ASSUME NEW p \in Pids, Verify(p) PROVE TreeInv'
  BY <1>4, TrackedKeepTree
<1>5. CASE Fire
  <2>1. Root \in Pids
    BY <1>5 DEF Fire, Tracked, Step, TreeInv, Begun
  <2> QED BY <1>5, <2>1, TrackedKeepTree
<1>6. CASE StartGuard \/ GuardFails \/ CutShort \/ ChildExited \/ DropCall
  BY <1>6, GuardStarts, EndsKeepTree
<1>7. CASE StopGroup \/ KillGroup \/ KillGroupBlind
  BY <1>7, SignalsKeepTree
<1>8. CASE Look \/ AllSignalled \/ Deactivate \/ KillRoot \/ Reap
  BY <1>8, CleanupKeepsTree
<1>9. CASE JoinOutputs \/ GiveUp
  BY <1>9, DoneKeepsTree
<1> QED BY <1>1, <1>2, <1>3, <1>4, <1>5, <1>6, <1>7, <1>8, <1>9 DEF TreeNext

LEMMA TreeAlways ==
  TreeSpec => []TreeInv
BY TreeInitially, TreeKept, PTL DEF TreeSpec

(* A group signal of an execution reaches processes of its own tree or       *)
(* nobody, however the kernel reuses PIDs and whenever the monitor looks;    *)
(* and when a cut execution joins its outputs nobody of the child's group    *)
(* is alive, even if the child ended by itself at that moment.               *)
THEOREM GroupsAreSignalled ==
  TreeSpec => []GroupSignalled
<1>1. TreeInv => GroupSignalled
  <2> SUFFICES ASSUME TreeInv PROVE GroupSignalled
    OBVIOUS
  <2>1. Joining => ~Pending(Kills)
    <3>1. <<"join">>[1] = "join" /\ DOMAIN <<"join">> = {1}
      OBVIOUS
    <3> QED BY <3>1 DEF Joining, Pending, Has, Kills
  <2> QED BY <2>1 DEF TreeInv, GroupSignalled, GroupIsKin, GroupIsDead, Joining
<1> QED BY <1>1, TreeAlways, PTL
=============================================================================
