-------------------------- MODULE MCSessionJournal --------------------------
(* What is kept in files: the journal of a session, the artifacts it names,  *)
(* the sponsored catalogue with the routes installed from it, and the files  *)
(* of the workspace that tools read and write.                               *)
(* They share no step: TLC explores each by itself, in one run.              *)
EXTENDS SessionJournal, ArtifactStore, SponsoredCatalog, WorkspaceFiles

VARIABLE part

rootVars == <<journalVars, artifactVars>>
vars == <<part, rootVars, catalogVars, filesVars>>

Init == /\ part \in {"journal", "artifacts", "catalog", "workspace"}
        /\ JournalInit /\ ArtifactInit /\ CatalogInit /\ FilesInit
        /\ part # "catalog" => source = NoSource

Root_     == UNCHANGED <<part, catalogVars, filesVars>>
Catalog   == part = "catalog" /\ CatalogNext /\ UNCHANGED <<part, rootVars, filesVars>>
Workspace == part = "workspace" /\ FilesNext /\ UNCHANGED <<part, rootVars, catalogVars>>

Next == \/ part = "journal" /\ JournalNext /\ UNCHANGED artifactVars /\ Root_
        \/ part = "artifacts" /\ ArtifactNext /\ UNCHANGED journalVars /\ Root_
        \/ Catalog \/ Workspace

Spec == Init /\ [][Next]_vars

\* The payloads of a catalogue differ in what they offer.
MCOffers == [c \in Contents |-> IF c = "a" THEN {"e"} ELSE {"e", "f"}]
MCExpiring == {<<1, "a">>}

\* The parts have their values in common: a permutation is cheaper so.
Symmetry == Permutations(Runs) \cup Permutations(Clients)
            \cup Permutations(Workers)
=============================================================================
