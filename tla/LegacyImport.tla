---------------------------- MODULE LegacyImport ----------------------------
(***************************************************************************)
(* The conversion of a foreign session, format v3, into a journal          *)
(* (legacy_session_v3_import.rs): the source is read and checked entry by  *)
(* entry, then every entry becomes one or more records on the branch its   *)
(* source parent stands for; what has no equivalent is kept as an          *)
(* extension record outside the provider's context.                        *)
(***************************************************************************)
EXTENDS RecordTree

CONSTANTS EntryTypes,   \* entry types that occur in the source
          MaxEntries    \* bound: entries of the source

VARIABLES phase,         \* load, convert, ready or refused
          sourceEntries, \* its entries: type, parent, ref (another entry they name), content
          out            \* the records, the leaf record of each converted entry, is a model known
importVars == <<phase, sourceEntries, out>>

Roles == {"user", "assistant", "toolResult", "bashExecution"}   \* of message entries
Plain == {"model_change", "thinking_level_change", "branch_summary", "session_info",
          "custom", "custom_message", "unknown"}
Blocks == {"text", "image", "none"}   \* none: no block of it is supported

ASSUME EntriesAssumption ==
    /\ EntryTypes \subseteq Roles \cup Plain \cup {"compaction", "label"}
    /\ MaxEntries \in Nat

At == Len(out.leaf) + 1                 \* the entry to convert
Entry == sourceEntries[At]

NoRecords == [records |-> <<>>, leaf |-> <<>>, model |-> FALSE]

ImportInit ==
    /\ phase = "load" /\ sourceEntries = <<>>
    /\ out = NoRecords

\* One root, earlier parents only; a compaction retains an ancestor, a label names
\* an earlier entry.
KnownEntry(e) ==
    CASE e.type = "compaction" -> e.ref \in Chain(sourceEntries, e.parent)
      [] e.type = "label"      -> e.ref \in DOMAIN sourceEntries
      [] OTHER                 -> e.ref = 0

ParseEntry ==
    /\ phase = "load" /\ Len(sourceEntries) < MaxEntries
    /\ \E type \in EntryTypes,
          parent \in IF sourceEntries = <<>> THEN {0} ELSE DOMAIN sourceEntries,
          ref \in 0..Len(sourceEntries),
          content \in Blocks :
          LET e == [type |-> type, parent |-> parent, ref |-> ref, content |-> content]
          IN  /\ content # "text" => type \in {"user", "toolResult"}
              /\ KnownEntry(e)
              /\ sourceEntries' = Append(sourceEntries, e)
    /\ UNCHANGED <<phase, out>>

LoadSource ==
    /\ phase = "load" /\ sourceEntries # <<>>
    /\ phase' = "convert"
    /\ UNCHANGED <<sourceEntries, out>>

-----------------------------------------------------------------------------

\* A record of the current entry on top of the records rs.
Imported(rs, kind, keep) ==
    [kind |-> kind, run |-> "none", parent |-> Len(rs), keep |-> keep, origin |-> At]

\* Mutant: only messages and compactions change the branch.
SelectIfEarlier ==
    LET target == out.leaf[Entry.parent]
    IN  IF Entry.parent = 0 \/ Entry.parent + 1 = At \/ Entry.type \in Plain
        THEN out.records
        ELSE Append(out.records,
                    [Imported(out.records, "selected", 0) EXCEPT !.parent = target, !.origin = 0])

\* The records so far, ending on the branch of the entry's parent.
SelectSourceParent ==
    LET target == out.leaf[Entry.parent]
    IN  IF Entry.parent = 0 \/ target = Len(out.records)
        THEN out.records
        ELSE Append(out.records,
                    [Imported(out.records, "selected", 0) EXCEPT !.parent = target, !.origin = 0])

\* Records of these kinds, each on top of the one before.
Extend(rs, kinds) ==
    rs \o [i \in DOMAIN kinds |->
             [Imported(rs, kinds[i], 0) EXCEPT !.parent = Len(rs) + i - 1]]

\* The entry becomes records of these kinds; the last one is its leaf.
Convert(records, model) ==
    /\ phase = "convert" /\ At <= Len(sourceEntries)
    /\ out' = [records |-> records, leaf |-> Append(out.leaf, Len(records)), model |-> model]
    /\ UNCHANGED <<phase, sourceEntries>>

Is(types) == phase = "convert" /\ At <= Len(sourceEntries) /\ Entry.type \in types
\* Whether it succeeds or not, nothing of the conversion stays in memory.
End(result) == phase' = result /\ sourceEntries' = <<>> /\ out' = NoRecords

Quarantine == Convert(Extend(SelectSourceParent, <<"extension">>), out.model)

\* Images become artifact records ahead of the message that refers to them.
MaterializeContent == IF Entry.content = "image" THEN <<"artifact">> ELSE <<>>

ConvertMessage ==
    /\ Is({"user", "assistant", "toolResult"})
    /\ IF Entry.content = "none"
       THEN Quarantine
       ELSE LET kind == CASE Entry.type = "user"      -> "user"
                          [] Entry.type = "assistant" -> "call"
                          [] OTHER                    -> "answer"
            IN  Convert(Extend(SelectSourceParent, Append(MaterializeContent, kind)),
                        out.model \/ Entry.type = "assistant")

\* A thinking level belongs to a model; without one it has no equivalent.
ConvertModelChange ==
    /\ Is({"model_change", "thinking_level_change"})
    /\ IF Entry.type = "thinking_level_change" /\ ~out.model
       THEN Quarantine
       ELSE Convert(Extend(SelectSourceParent, <<"model">>), TRUE)

\* The summary message, then the compaction: refused unless the boundary became
\* a user message and a model is known.
ConvertCompaction ==
    /\ Is({"compaction"})
    /\ IF out.records[out.leaf[Entry.ref]].kind = "user" /\ out.model
       THEN LET withSummary == Extend(SelectSourceParent, <<"summary">>)
            IN  Convert(Append(withSummary,
                               Imported(withSummary, "compacted", out.leaf[Entry.ref])),
                        out.model)
       ELSE End("refused")

ConvertBranchSummary ==
    /\ Is({"branch_summary"})
    /\ Convert(Extend(SelectSourceParent, <<"user">>), out.model)

ConvertSessionInfo ==
    /\ Is({"session_info"})
    /\ Convert(Extend(SelectSourceParent, <<"metadata">>), out.model)

\* Labels, custom entries, other roles and unknown types.
ConvertExtension ==
    /\ Is({"label", "custom", "custom_message", "unknown", "bashExecution"})
    /\ Quarantine

\* The report is bound to the journal by a last record; the encoded journal is all
\* that remains.
AppendReport ==
    /\ phase = "convert" /\ At > Len(sourceEntries)
    /\ End("ready")

ImportNext ==
    \/ ParseEntry \/ LoadSource
    \/ ConvertMessage \/ ConvertModelChange \/ ConvertCompaction \/ ConvertBranchSummary
    \/ ConvertSessionInfo \/ ConvertExtension \/ AppendReport

ImportSpec == ImportInit /\ [][ImportNext]_importVars

-----------------------------------------------------------------------------

(* The journal the conversion writes is one that every reader accepts, so  *)
(* the check of the staged target never refuses it.                        *)
ImportReadable == Valid(out.records)

(* Branches survive: the ancestry of the leaf of an entry holds all the    *)
(* records of its source ancestors, and of nothing else.                   *)
ImportKeepsTree ==
    \A i \in DOMAIN out.leaf :
        {k \in Chain(out.records, out.leaf[i]) : out.records[k].origin # 0}
          = {k \in DOMAIN out.records : out.records[k].origin \in Chain(sourceEntries, i)}

ImportFaithful == ImportReadable /\ ImportKeepsTree

=============================================================================
