---- MODULE MCProviderExecutor ----
(* What a run takes in from outside and does to the machine: a provider's   *)
(* stream, its decoding, the processes and the output of a tool, and the    *)
(* desktop. They share no step: TLC explores each by itself, in one run.    *)
EXTENDS ProviderTurn, SseDecoder, ProcessTree, OutputBudget, DesktopInput, TLC

VARIABLE part

Parts == {"turn", "decoder", "tree", "budget", "desktop"}
streamVars == <<turnVars, decoderVars>>
toolVars == <<treeVars, budgetVars>>
vars == <<part, streamVars, toolVars, desktopVars>>

Init == /\ part \in Parts
        /\ TurnInit /\ DecoderInit /\ TreeInit /\ BudgetInit /\ DesktopInit
        /\ part # "turn" => family = "faux" /\ seen = {}

Streams_ == /\ UNCHANGED <<part, toolVars, desktopVars>>
            /\ \/ part = "turn" /\ TurnNext /\ UNCHANGED decoderVars
               \/ part = "decoder" /\ DecoderNext /\ UNCHANGED turnVars

Tools == /\ UNCHANGED <<part, streamVars, desktopVars>>
         /\ \/ part = "tree" /\ TreeNext /\ UNCHANGED budgetVars
            \/ part = "budget" /\ BudgetNext /\ UNCHANGED treeVars

Desktop == /\ UNCHANGED <<part, streamVars, toolVars>>
           /\ part = "desktop" /\ DesktopNext

Next == Streams_ \/ Tools \/ Desktop

Spec == Init /\ [][Next]_vars

\* The parts have their values in common: a permutation is cheaper so.
Symm == Permutations(Ids) \union Permutations(Pids)
====
