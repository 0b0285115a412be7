--------------------------- MODULE SessionJournal ---------------------------
(***************************************************************************)
(* The journal file of one session (session.rs): JSON lines appended and   *)
(* synced one by one, a tail without LF that a crash or a failed write     *)
(* leaves, its recovery, and the record tree the lines form: every record  *)
(* extends the last one, branch.selected alone jumps to an earlier record, *)
(* context.compacted replaces a prefix of the selected chain by a summary. *)
(*                                                                         *)
(* Operations run under the writer lease (WriterLease, SessionLock), so    *)
(* there is one at a time, op, whichever daemon runs it; the append lock   *)
(* serialises it with the handlers that append beside a live run. A record *)
(* is known by its line and by the era in which it was written, because a  *)
(* loss of power may drop unsynced lines and reuse their place.            *)
(***************************************************************************)
EXTENDS RecordTree

CONSTANTS Runs,       \* run IDs; a run makes at most one tool call
          Clients,    \* clients that select branches and compact
          MaxLines,   \* bound: records in the journal
          MaxExtras,  \* bound: uploads, handler records and steering inputs
          MaxControls,\* bound: branch selections and compactions
          MaxFaults,  \* bound: failed writes and crashes of the daemon
          MaxOutages  \* bound: losses of power

ASSUME BoundsAssumption ==
    MaxLines \in Nat /\ MaxExtras \in Nat /\ MaxControls \in Nat
    /\ MaxFaults \in Nat /\ MaxOutages \in Nat

VARIABLES header,   \* header line of the file: absent, torn or whole
          lines,    \* complete lines: the records
          tail,     \* bytes after the last LF: 0 for none, else which fault left them
          synced,   \* number of lines known to be on disk
          backups,  \* recovery backups: the image of the journal they hold
          op,       \* the operation that holds the writer lease
          io,       \* the append in progress, holder of the append lock
          seen,     \* the selected head each client observed last
          promise,  \* the journal as of the last append that reported success
          faults, outages
journalVars == <<header, lines, tail, synced, backups, op, io, seen, promise, faults, outages>>

-----------------------------------------------------------------------------
(* Records and the tree they form.                                         *)

Root == [line |-> 0, era |-> 0]         \* the head of a journal without records
Id(ls, i) == IF i = 0 THEN Root ELSE [line |-> i, era |-> ls[i].era]
Head_(ls) == Id(ls, Len(ls))            \* the selected head is the last record

\* An ordinary record extends the head; basis is what the caller had observed.
Record(ls, kind, run) ==
    [kind |-> kind, run |-> run, parent |-> Len(ls), keep |-> 0,
     basis |-> Head_(ls), era |-> outages]

\* The next record recover_interrupted appends: results of open calls, then
\* their messages, then the terminals of open runs.
Repairs(ls) ==
    LET S == DOMAIN ls
        open    == OfKind(ls, S, "intent") \ OfKind(ls, S, "result")
        silent  == OfKind(ls, S, "result") \ OfKind(ls, S, "answer")
        running == OfKind(ls, S, "accepted") \ OfKind(ls, S, "terminal")
    IN  IF open # {} THEN {[kind |-> "result", run |-> r] : r \in open}
        ELSE IF silent # {} THEN {[kind |-> "answer", run |-> r] : r \in silent}
        ELSE {[kind |-> "terminal", run |-> r] : r \in running}

-----------------------------------------------------------------------------
(* The writer lease and the append lock.                                   *)

NoRun == "no_run"
NoOp == [name |-> "none", step |-> "none", run |-> NoRun, client |-> NoRun, aim |-> 0]
NoIo == [todo |-> <<>>, written |-> FALSE, by |-> "none", next |-> "none"]

Extras == Cardinality({i \in DOMAIN lines :
    \/ lines[i].kind \in {"artifact", "queued"}
    \/ lines[i].kind = "user" /\ i > 1 /\ lines[i - 1].run = lines[i].run})

Controls == Cardinality({i \in DOMAIN lines : lines[i].kind \in {"selected", "summary"}})

Goto(step) == op' = IF step = "done" THEN NoOp ELSE [op EXCEPT !.step = step]
Room(n) == Len(lines) + n <= MaxLines

\* Take the append lock, read and validate the journal, validate the candidate.
Readable == header = "whole" /\ tail = 0 /\ Valid(lines)
Begin(by, records, next) ==
    /\ io = NoIo
    /\ Room(Len(records))
    /\ Readable /\ Valid(lines \o records)
    /\ io' = [todo |-> records, written |-> FALSE, by |-> by, next |-> next]

\* An append that cannot begin: the journal does not parse.
Refused == io = NoIo /\ ~Readable

Image == <<lines, tail>>

JournalInit ==
    /\ header = "absent" /\ lines = <<>> /\ tail = 0 /\ synced = 0
    /\ backups = {} /\ op = NoOp /\ io = NoIo
    /\ seen = [c \in Clients |-> Root]
    /\ promise = <<>> /\ faults = 0 /\ outages = 0

-----------------------------------------------------------------------------
(* Opening: create_session writes the header, acquire_writer takes the     *)
(* lease and repairs the tail.                                             *)

\* recover_tail_unlocked comes first, then recover_interrupted except for an upload.
Settled(name) == IF name = "upload" \/ Repairs(lines) = {} THEN "act" ELSE "recover"

\* A torn header is no valid prefix: the session does not open any more.
Open(name, run, client, aim) ==
    /\ op = NoOp /\ header # "torn"
    /\ op' = [name |-> name, run |-> run, client |-> client, aim |-> aim,
              step |-> CASE header = "absent"              -> "create"
                         [] header = "whole" /\ tail # 0 -> "backup"
                         [] OTHER                          -> Settled(name)]
    /\ UNCHANGED <<header, lines, tail, synced, backups, io, seen, promise, faults, outages>>

\* Only run/start and an upload create a session; the others find it missing.
CreateSession ==
    /\ op.step = "create"
    /\ IF op.name \in {"run", "upload"}
       THEN header' = "whole" /\ Goto("act")
       ELSE UNCHANGED header /\ Goto("done")
    /\ UNCHANGED <<lines, tail, synced, backups, io, seen, promise, faults, outages>>

\* Mutant: a backup that exists is taken for the one needed.
PublishBackupOnce ==
    /\ op.step = "backup"
    /\ Room(1)
    /\ backups' = IF backups = {} THEN {Image} ELSE backups
    /\ Goto("truncate")
    /\ UNCHANGED <<header, lines, tail, synced, io, seen, promise, faults, outages>>

PublishBackup ==
    /\ op.step = "backup"
    /\ Room(1)
    /\ backups' = backups \cup {Image}
    /\ Goto("truncate")
    /\ UNCHANGED <<header, lines, tail, synced, io, seen, promise, faults, outages>>

TruncateTail ==
    /\ op.step = "truncate"
    /\ tail' = 0
    /\ synced' = Len(lines)
    /\ io' = [todo |-> <<Record(lines, "note", NoRun)>>, written |-> FALSE,
              by |-> "op", next |-> "tail"]
    /\ Goto("tail")
    /\ UNCHANGED <<header, lines, backups, seen, promise, faults, outages>>

TailDone ==
    /\ op.step = "tail" /\ io = NoIo
    /\ Goto(Settled(op.name))
    /\ UNCHANGED <<header, lines, tail, synced, backups, io, seen, promise, faults, outages>>

RecoverInterrupted ==
    /\ op.step = "recover"
    /\ \/ /\ io = NoIo /\ Repairs(lines) = {}
          /\ Goto("act")
          /\ UNCHANGED io
       \/ \E r \in Repairs(lines) :
             Begin("op", <<Record(lines, r.kind, r.run)>>, "recover") /\ UNCHANGED op
    /\ UNCHANGED <<header, lines, tail, synced, backups, seen, promise, faults, outages>>

-----------------------------------------------------------------------------
(* Writing lines.                                                          *)

WriteLine ==
    /\ io.todo # <<>> /\ ~io.written
    /\ lines' = Append(lines, Head(io.todo))
    /\ io' = [io EXCEPT !.written = TRUE]
    /\ UNCHANGED <<header, tail, synced, backups, op, seen, promise, faults, outages>>

\* Mutant: success is reported without the sync.
SyncLineLater ==
    /\ io.written
    /\ IF Len(io.todo) > 1
       THEN /\ io' = [io EXCEPT !.todo = Tail(@), !.written = FALSE]
            /\ UNCHANGED <<op, promise>>
       ELSE /\ io' = NoIo
            /\ promise' = lines
            /\ IF io.by = "op" THEN Goto(io.next) ELSE UNCHANGED op
    /\ UNCHANGED <<header, lines, tail, synced, backups, seen, faults, outages>>

SyncLine ==
    /\ io.written
    /\ synced' = Len(lines)
    /\ IF Len(io.todo) > 1
       THEN /\ io' = [io EXCEPT !.todo = Tail(@), !.written = FALSE]
            /\ UNCHANGED <<op, promise>>
       ELSE /\ io' = NoIo
            /\ promise' = lines
            /\ IF io.by = "op" THEN Goto(io.next) ELSE UNCHANGED op
    /\ UNCHANGED <<header, lines, tail, backups, seen, faults, outages>>

\* The write or the sync fails: nothing, part of a line, or an unsynced line stays.
FailAppend ==
    /\ io.todo # <<>> /\ faults < MaxFaults
    /\ faults' = faults + 1
    /\ tail' \in IF io.written THEN {tail} ELSE {tail, faults'}
    /\ io' = NoIo
    /\ IF io.by = "op" THEN Goto(IF op.name = "run" /\ op.step = "live" THEN "end" ELSE "done")
       ELSE UNCHANGED op
    /\ UNCHANGED <<header, lines, synced, backups, seen, promise, outages>>

-----------------------------------------------------------------------------
(* The operations.                                                         *)

\* session/get: the client learns the selected head.
Snapshot ==
    /\ op.name = "get" /\ op.step = "act"
    /\ Readable
    /\ seen' = [seen EXCEPT ![op.client] = Head_(lines)]
    /\ Goto("done")
    /\ UNCHANGED <<header, lines, tail, synced, backups, io, promise, faults, outages>>

Selection ==
    [Record(lines, "selected", NoRun) EXCEPT !.parent = op.aim, !.basis = seen[op.client]]

\* Mutant: the head the client expects is not compared.
SelectBranchBlind ==
    /\ op.name = "select" /\ op.step = "act" /\ io = NoIo
    /\ IF op.aim \in DOMAIN lines /\ Quiescent(lines, op.aim)
       THEN Begin("op", <<Selection>>, "done") /\ UNCHANGED op
       ELSE UNCHANGED io /\ Goto("done")
    /\ UNCHANGED <<header, lines, tail, synced, backups, seen, promise, faults, outages>>

SelectBranch ==
    /\ op.name = "select" /\ op.step = "act" /\ io = NoIo
    /\ IF seen[op.client] = Head_(lines) /\ op.aim \in DOMAIN lines /\ Quiescent(lines, op.aim)
       THEN Begin("op", <<Selection>>, "done") /\ UNCHANGED op
       ELSE UNCHANGED io /\ Goto("done")
    /\ UNCHANGED <<header, lines, tail, synced, backups, seen, promise, faults, outages>>

\* The summary, an ordinary assistant message, then the record that uses it.
Summary == [Record(lines, "summary", NoRun) EXCEPT !.basis = seen[op.client]]
Compacted ==
    [Record(Append(lines, Summary), "compacted", NoRun)
       EXCEPT !.keep = op.aim, !.basis = seen[op.client]]

CompactContext ==
    /\ op.name = "compact" /\ op.step = "act" /\ io = NoIo
    /\ IF /\ seen[op.client] = Head_(lines)
          /\ Quiescent(lines, Len(lines))
          /\ Boundary(lines, Len(lines), op.aim)
       THEN Begin("op", <<Summary, Compacted>>, "done") /\ UNCHANGED op
       ELSE UNCHANGED io /\ Goto("done")
    /\ UNCHANGED <<header, lines, tail, synced, backups, seen, promise, faults, outages>>

\* artifact/publish: no run is live, none is recovered either.
Upload ==
    /\ op.name = "upload" /\ op.step = "act" /\ Extras < MaxExtras
    /\ Begin("op", <<Record(lines, "artifact", NoRun)>>, "done")
    /\ UNCHANGED <<header, lines, tail, synced, backups, op, seen, promise, faults, outages>>

Did(kind) == \E i \in DOMAIN lines : lines[i].kind = kind /\ lines[i].run = op.run

\* accept_run appends the input message, then run.accepted.
AcceptRun ==
    /\ op.name = "run"
    /\ \/ /\ op.step = "act"
          /\ Begin("op", <<Record(lines, "user", op.run)>>, "accept")
       \/ /\ op.step = "accept"
          /\ Begin("op", <<Record(lines, "accepted", op.run)>>, "live")
    /\ UNCHANGED <<header, lines, tail, synced, backups, op, seen, promise, faults, outages>>

\* The task: a call with its intent, result and message, and steering input at
\* the turn boundary after it.
After == [call |-> "accepted", intent |-> "call", result |-> "intent",
          answer |-> "result", user |-> "answer"]
TaskRecords ==
    {k \in DOMAIN After :
        Did(After[k]) /\ IF k = "user" THEN Extras < MaxExtras ELSE ~Did(k)}

RunStep ==
    /\ op.name = "run" /\ op.step = "live"
    /\ \E k \in TaskRecords : Begin("op", <<Record(lines, k, op.run)>>, "live")
    /\ UNCHANGED <<header, lines, tail, synced, backups, op, seen, promise, faults, outages>>

\* The task ends at a turn boundary, or because the journal refuses its record.
EndTask ==
    /\ op.name = "run" /\ op.step = "live" /\ io = NoIo
    /\ Refused \/ ~Did("intent") \/ Did("answer")
    /\ Goto("end")
    /\ UNCHANGED <<header, lines, tail, synced, backups, io, seen, promise, faults, outages>>

\* finalize_run: the terminal record, if the journal still takes one.
EndRun ==
    /\ op.name = "run" /\ op.step = "end"
    /\ \/ Begin("op", <<Record(lines, "terminal", op.run)>>, "done") /\ UNCHANGED op
       \/ Refused /\ UNCHANGED io /\ Goto("done")
    /\ UNCHANGED <<header, lines, tail, synced, backups, seen, promise, faults, outages>>

\* session/get beside a live run reads without the lease.
Observe(c) ==
    /\ op.name = "run" /\ op.step = "live" /\ io = NoIo
    /\ Readable
    /\ seen' = [seen EXCEPT ![c] = Head_(lines)]
    /\ UNCHANGED <<header, lines, tail, synced, backups, op, io, promise, faults, outages>>

\* A handler appends beside the live run: a queued input, a cancellation.
HandlerAppend ==
    /\ op.name = "run" /\ op.step = "live" /\ Extras < MaxExtras
    /\ Begin("handler", <<Record(lines, "queued", op.run)>>, "live")
    /\ UNCHANGED <<header, lines, tail, synced, backups, op, seen, promise, faults, outages>>

-----------------------------------------------------------------------------
(* Faults.                                                                 *)

\* What the file may hold when the process dies: the line being written is cut.
Torn == IF (io.todo # <<>> /\ ~io.written) THEN {tail, faults'} ELSE {tail}

\* The daemon dies, or an operation that is not a live run returns an error.
Crash ==
    /\ op # NoOp /\ faults < MaxFaults
    /\ faults' = faults + 1
    /\ tail' \in Torn
    /\ header' \in IF op.step = "create" THEN {"absent", "torn"} ELSE {header}
    /\ op' = NoOp /\ io' = NoIo
    /\ UNCHANGED <<lines, synced, backups, seen, promise, outages>>

\* Power fails: unsynced lines are lost from some point on.
PowerLoss ==
    /\ outages < MaxOutages
    /\ outages' = outages + 1
    /\ \E n \in synced..Len(lines) :
          /\ lines' = SubSeq(lines, 1, n)
          /\ tail' \in IF n < Len(lines) THEN {0, MaxFaults + outages'} ELSE {0, tail}
    /\ op' = NoOp /\ io' = NoIo
    /\ UNCHANGED <<header, synced, backups, seen, promise, faults>>

Request ==
    \/ \E r \in Runs : ~(\E i \in DOMAIN lines : lines[i].run = r) /\ Open("run", r, NoRun, 0)
    \/ \E c \in Clients :
          \/ Open("get", NoRun, c, 0)
          \/ /\ Controls < MaxControls
             /\ \E name \in {"select", "compact"}, aim \in 1..seen[c].line :
                    Open(name, NoRun, c, aim)
    \/ Extras < MaxExtras /\ Open("upload", NoRun, NoRun, 0)

Work ==
    \/ CreateSession \/ PublishBackup \/ TruncateTail \/ TailDone \/ RecoverInterrupted
    \/ WriteLine \/ SyncLine
    \/ Snapshot \/ SelectBranch \/ CompactContext \/ Upload
    \/ AcceptRun \/ RunStep \/ EndTask \/ EndRun

JournalNext ==
    \/ Request \/ Work \/ HandlerAppend
    \/ \E c \in Clients : Observe(c)
    \/ FailAppend \/ Crash \/ PowerLoss
JournalSpec == JournalInit /\ [][JournalNext]_journalVars

-----------------------------------------------------------------------------
(* Correctness.                                                            *)

(* What an append reported durable stays in the journal, in its place and  *)
(* unchanged, whatever crash, loss of power or tail recovery follows.      *)
CommittedKept == IsPrefix(promise, lines)

(* A run, and a call, is concluded on the branch where it was begun, by    *)
(* the task or by recovery.                                                *)
ConcludedOnItsBranch ==
    \A i \in DOMAIN lines :
        LET begun == OfKind(lines, Chain(lines, i), CASE lines[i].kind = "terminal" -> "accepted"
                                                      [] lines[i].kind = "result"   -> "intent"
                                                      [] lines[i].kind = "answer"   -> "result"
                                                      [] OTHER -> "none")
        IN  lines[i].kind \in {"terminal", "result", "answer"} => lines[i].run \in begun

(* A branch selection or a compaction follows immediately the head its     *)
(* client observed: nothing the client did not know of lies in between.    *)
NothingUnseen ==
    \A i \in DOMAIN lines :
        LET first == IF lines[i].kind = "compacted" THEN i - 1 ELSE i
        IN  lines[i].kind \in {"selected", "compacted"} => lines[i].basis = Id(lines, first - 1)

(* No tool message reaches a provider without the call it answers: neither *)
(* compaction nor a branch cuts between them.                              *)
NoOrphanResult ==
    LET visible == Projection(lines)
    IN  OfKind(lines, visible, "answer") \subseteq OfKind(lines, visible, "call")

(* What belongs together stays on one branch, and in one projection of it. *)
BranchesStayWhole == ConcludedOnItsBranch /\ NoOrphanResult

(* Recovery removes a tail only when a backup holds the journal with it.   *)
TailBackedUp ==
    [][tail # 0 /\ tail' = 0 /\ lines' = lines /\ outages' = outages => Image \in backups]_journalVars

=============================================================================
