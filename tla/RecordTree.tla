----------------------------- MODULE RecordTree -----------------------------
(***************************************************************************)
(* The tree that the records of a journal form (session.rs): a record has  *)
(* one earlier parent, the head is the last record, branch.selected alone  *)
(* jumps, and context.compacted replaces a prefix of its chain by the      *)
(* summary before it. A journal is a sequence of records with fields kind, *)
(* run (the run or call it is about), parent (a line, 0 for none) and keep *)
(* (the boundary a compaction retains).                                    *)
(***************************************************************************)
EXTENDS Naturals, Sequences, SequencesExt, FiniteSetsExt

\* The ancestry of each record, as the set of its lines.
Chains(ls) ==
    LET chain[i \in 0..Len(ls)] == IF i = 0 THEN {} ELSE {i} \cup chain[ls[i].parent]
    IN  chain
Chain(ls, i) == Chains(ls)[i]

OfKind(ls, S, kind) == {ls[i].run : i \in {j \in S : ls[j].kind = kind}}

\* No run, tool call or approval is open on the ancestry of a record.
Quiescent(ls, i) ==
    LET S == Chain(ls, i)
    IN  /\ OfKind(ls, S, "accepted") \subseteq OfKind(ls, S, "terminal")
        /\ OfKind(ls, S, "intent") \subseteq OfKind(ls, S, "result")

\* Mutant: any record of the chain will do as a boundary.
BoundaryAnywhere(ls, source, keep) == keep \in Chain(ls, source)

\* A retained boundary is a user message of the ancestry of the source.
Boundary(ls, source, keep) == keep \in Chain(ls, source) /\ ls[keep].kind = "user"

Compaction(ls, i) ==
    LET summary == ls[i].parent
    IN  /\ summary > 0 /\ ls[summary].kind = "summary"
        /\ Boundary(ls, ls[summary].parent, ls[i].keep)

\* What every reader and writer checks of the whole file.
Valid(ls) ==
    \A i \in DOMAIN ls :
        LET before == SubSeq(ls, 1, i - 1)
        IN  /\ IF ls[i].kind = "selected"
               THEN ls[i].parent \in 1..(i - 1) /\ Quiescent(before, ls[i].parent)
               ELSE ls[i].parent = i - 1
            /\ ls[i].kind = "compacted" => Compaction(ls, i)

\* The messages a provider sees: the selected chain, cut by its last compaction.
Messages == {"user", "call", "answer", "summary"}
Projection(ls) ==
    LET chain   == Chain(ls, Len(ls))
        cuts    == {i \in chain : ls[i].kind = "compacted"}
        visible == IF cuts = {} THEN chain
                   ELSE LET cut     == Max(cuts)
                            summary == ls[cut].parent
                            kept    == {i \in Chain(ls, ls[summary].parent) : i >= ls[cut].keep}
                        IN  {summary} \cup kept \cup {i \in chain : i > cut}
    IN  {i \in visible : ls[i].kind \in Messages}

=============================================================================
