--------------------------- MODULE Storage_proofs ---------------------------
(***************************************************************************)
(* What the files of the state root keep: the journal of a session         *)
(* (SessionJournal), the journal a foreign session becomes (LegacyImport), *)
(* the artifacts a journal names (ArtifactStore), and the sponsored        *)
(* catalogue with the routes taken from it (SponsoredCatalog).             *)
(***************************************************************************)
EXTENDS SessionJournal, LegacyImport, ArtifactStore, SponsoredCatalog, FiniteSetTheorems,
        WellFoundedInduction, TLAPS

-----------------------------------------------------------------------------
(* The journal.                                                            *)

Points == [line : Nat, era : Nat]
\* The kinds of record the operations write.
RecKinds == {"note", "selected", "summary", "compacted", "artifact", "queued", "user", "accepted",
             "call", "intent", "result", "answer", "terminal"}
Recs == [kind : RecKinds, run : Runs \cup {NoRun}, parent : Nat, keep : Nat, basis : Points, era : Nat]
Steps == {"none", "create", "backup", "truncate", "tail", "recover", "act", "accept", "live", "end"}
Ops == [name : {"none", "run", "get", "select", "compact", "upload"}, step : Steps,
        run : Runs \cup {NoRun}, client : Clients \cup {NoRun}, aim : Nat]
Ios == [todo : Seq(Recs), written : BOOLEAN, by : {"none", "op", "handler"},
        next : {"none", "tail", "recover", "done", "accept", "live"}]

JournalTypes ==
  /\ lines \in Seq(Recs) /\ promise \in Seq(Recs)
  /\ tail \in Nat /\ synced \in Nat /\ faults \in Nat /\ outages \in Nat
  /\ op \in Ops /\ io \in Ios /\ seen \in [Clients -> Points]

\* An append belongs to an operation that is past its opening.
AppendsAtWork ==
  io # NoIo => \/ op.step \in {"tail", "recover", "accept", "live", "end"}
               \/ op.step = "act" /\ op.name # "get"

\* The tail is cut only after the journal with it was copied.
CopiedFirst == op.step = "truncate" => Image \in backups

\* What was promised is a prefix of what is on disk.
PromiseOnDisk ==
  /\ Len(promise) <= synced /\ synced <= Len(lines)
  /\ \A i \in 1 .. Len(promise) : promise[i] = lines[i]

JournalInv == JournalTypes /\ AppendsAtWork /\ CopiedFirst /\ PromiseOnDisk

LEMMA OpsTyped ==
  /\ NoOp \in Ops /\ NoIo \in Ios
  /\ NoOp.step = "none"
<1>1. <<>> \in Seq(Recs)
  OBVIOUS
<1> QED BY <1>1 DEF NoOp, Ops, Steps, NoIo, Ios, NoRun

LEMMA GoesTo ==
  ASSUME NEW s \in Steps \cup {"done"}, op \in Ops, Goto(s)
  PROVE  /\ op' \in Ops
         /\ s # "done" => op'.step = s /\ op'.name = op.name
         /\ s = "done" => op'.step = "none"
BY OpsTyped DEF Goto, Ops, Steps

LEMMA HeadTyped ==
  ASSUME NEW ls \in Seq(Recs)
  PROVE  Head_(ls) \in Points
<1>1. CASE Len(ls) = 0
  BY <1>1 DEF Head_, Id, Root, Points
<1>2. CASE Len(ls) # 0
  <2>1. Len(ls) \in Nat /\ ls[Len(ls)] \in Recs
    BY <1>2
  <2>2. ls[Len(ls)].era \in Nat
    BY <2>1 DEF Recs
  <2> QED BY <1>2, <2>1, <2>2 DEF Head_, Id, Points
<1> QED BY <1>1, <1>2

LEMMA RecordTyped ==
  ASSUME NEW ls \in Seq(Recs), NEW kind \in RecKinds, NEW run \in Runs \cup {NoRun}, outages \in Nat
  PROVE  Record(ls, kind, run) \in Recs
<1>1. Head_(ls) \in Points /\ Len(ls) \in Nat
  BY HeadTyped
<1> QED BY <1>1 DEF Record, Recs

LEMMA JournalHoldsAtStart == JournalInit => JournalInv
<1> SUFFICES ASSUME JournalInit PROVE JournalInv
  OBVIOUS
<1>1. <<>> \in Seq(Recs) /\ Len(<<>>) = 0 /\ Root \in Points
  BY DEF Root, Points
<1>2. JournalTypes
  BY <1>1, OpsTyped DEF JournalInit, JournalTypes
<1> QED BY <1>1, <1>2, OpsTyped
        DEF JournalInit, JournalInv, AppendsAtWork, CopiedFirst, PromiseOnDisk

\* Steps that leave the file alone, and move the operation or begin an append.
LEMMA FileLeftAlone ==
  ASSUME JournalInv, UNCHANGED <<lines, synced, promise, tail>>, backups \subseteq backups',
         faults' \in Nat, outages' \in Nat, op' \in Ops, io' \in Ios, seen' \in [Clients -> Points],
         AppendsAtWork', op'.step = "truncate" => Image \in backups'
  PROVE  JournalInv'
BY DEF JournalInv, JournalTypes, CopiedFirst, PromiseOnDisk, Image

(* The records an append of the operation at hand may write.                 *)
LEMMA BeginsTyped ==
  ASSUME JournalInv, NEW records \in Seq(Recs), NEW by \in {"op", "handler"},
         NEW next \in {"recover", "done", "accept", "live"}, Begin(by, records, next)
  PROVE  io = NoIo /\ io' \in Ios
BY DEF Begin, Ios

LEMMA OneRecord ==
  ASSUME NEW r \in Recs
  PROVE  <<r>> \in Seq(Recs)
OBVIOUS

LEMMA KindsTyped ==
  /\ \A k \in {"note", "selected", "summary", "compacted", "artifact", "queued", "user", "accepted",
              "call", "intent", "result", "answer", "terminal"} : k \in RecKinds
  /\ NoRun \in Runs \cup {NoRun}
BY DEF RecKinds

LEMMA RepairsTyped ==
  ASSUME NEW ls \in Seq(Recs), NEW r \in Repairs(ls)
  PROVE  r.kind \in RecKinds /\ r.run \in Runs \cup {NoRun}
<1>1. ASSUME NEW kind, NEW run \in OfKind(ls, DOMAIN ls, kind) PROVE run \in Runs \cup {NoRun}
  <2>1. PICK i \in DOMAIN ls : run = ls[i].run
    BY <1>1 DEF OfKind
  <2>2. ls[i] \in Recs
    OBVIOUS
  <2> QED BY <2>1, <2>2 DEF Recs
<1>2. PICK run : \/ run \in OfKind(ls, DOMAIN ls, "intent") /\ r = [kind |-> "result", run |-> run]
                 \/ run \in OfKind(ls, DOMAIN ls, "result") /\ r = [kind |-> "answer", run |-> run]
                 \/ run \in OfKind(ls, DOMAIN ls, "accepted") /\ r = [kind |-> "terminal", run |-> run]
  BY DEF Repairs
<1>3. r.run = run /\ r.kind \in {"result", "answer", "terminal"}
  BY <1>2
<1>4. run \in Runs \cup {NoRun}
  BY <1>1, <1>2
<1> QED BY <1>3, <1>4, KindsTyped

LEMMA OpeningKeeps ==
  ASSUME JournalInv, \/ Request \/ CreateSession \/ PublishBackup \/ TailDone \/ RecoverInterrupted
  PROVE  JournalInv'
<1>0. /\ JournalTypes /\ AppendsAtWork /\ op \in Ops /\ io \in Ios /\ faults \in Nat /\ outages \in Nat
      /\ seen \in [Clients -> Points] /\ lines \in Seq(Recs)
  BY DEF JournalInv, JournalTypes
<1>1. CASE Request
  <2>1. PICK name \in {"run", "get", "select", "compact", "upload"}, run \in Runs \cup {NoRun},
             client \in Clients \cup {NoRun}, aim \in Nat : Open(name, run, client, aim)
    <3>1. \A c \in Clients : 1 .. seen[c].line \subseteq Nat
      BY <1>0 DEF Points
    <3> QED BY <1>1, <3>1 DEF Request
  <2>2. op'.step \in {"create", "backup", "act", "recover"} /\ op' \in Ops
    BY <2>1 DEF Open, Settled, Ops, Steps
  <2>3. UNCHANGED <<lines, synced, promise, tail, backups, faults, outages, io, seen>> /\ op = NoOp
    BY <2>1 DEF Open
  <2>4. AppendsAtWork'
    BY <1>0, <2>3, OpsTyped DEF AppendsAtWork
  <2> QED BY <1>0, <2>2, <2>3, <2>4, FileLeftAlone
<1>2. CASE CreateSession
  <2>1. /\ UNCHANGED <<lines, synced, promise, tail, backups, faults, outages, io, seen>>
        /\ op.step = "create" /\ (Goto("act") \/ Goto("done"))
    BY <1>2 DEF CreateSession
  <2>2. op' \in Ops /\ op'.step \in {"act", "none"}
    BY <1>0, <2>1, GoesTo DEF Steps
  <2>3. AppendsAtWork'
    BY <1>0, <2>1 DEF AppendsAtWork
  <2> QED BY <1>0, <2>1, <2>2, <2>3, FileLeftAlone
<1>3. CASE PublishBackup
  <2>1. /\ UNCHANGED <<lines, synced, promise, tail, faults, outages, io, seen>>
        /\ op.step = "backup" /\ Goto("truncate") /\ backups' = backups \cup {Image}
    BY <1>3 DEF PublishBackup
  <2>2. op' \in Ops /\ op'.step = "truncate"
    BY <1>0, <2>1, GoesTo DEF Steps
  <2>3. AppendsAtWork'
    BY <1>0, <2>1 DEF AppendsAtWork
  <2> QED BY <1>0, <2>1, <2>2, <2>3, FileLeftAlone
<1>4. CASE TailDone
  <2>1. /\ UNCHANGED <<lines, synced, promise, tail, backups, faults, outages, io, seen>>
        /\ io = NoIo /\ (Goto("act") \/ Goto("recover"))
    BY <1>4 DEF TailDone, Settled
  <2>2. op' \in Ops /\ op'.step \in {"act", "recover"}
    BY <1>0, <2>1, GoesTo DEF Steps
  <2>3. AppendsAtWork'
    BY <2>1 DEF AppendsAtWork
  <2> QED BY <1>0, <2>1, <2>2, <2>3, FileLeftAlone
<1>5. CASE RecoverInterrupted
  <2>1. UNCHANGED <<lines, synced, promise, tail, backups, faults, outages, seen>> /\ op.step = "recover"
    BY <1>5 DEF RecoverInterrupted
  <2>2. CASE io = NoIo /\ Goto("act") /\ UNCHANGED io
    <3>1. op' \in Ops /\ op'.step = "act"
      BY <1>0, <2>2, GoesTo DEF Steps
    <3> QED BY <1>0, <2>1, <2>2, <3>1, FileLeftAlone DEF AppendsAtWork
  <2>3. ASSUME NEW r \in Repairs(lines), Begin("op", <<Record(lines, r.kind, r.run)>>, "recover"),
               UNCHANGED op
        PROVE  JournalInv'
    <3>1. <<Record(lines, r.kind, r.run)>> \in Seq(Recs)
      BY <1>0, RepairsTyped, RecordTyped, OneRecord
    <3>2. io' \in Ios
      BY <2>3, <3>1, BeginsTyped
    <3> QED BY <1>0, <2>1, <2>3, <3>2, FileLeftAlone DEF AppendsAtWork
  <2> QED BY <1>5, <2>2, <2>3 DEF RecoverInterrupted
<1> QED BY <1>1, <1>2, <1>3, <1>4, <1>5

\* The journal grows by what the append had left to write.
LEMMA WritingKeeps ==
  ASSUME JournalInv, TruncateTail \/ WriteLine \/ SyncLine \/ FailAppend
  PROVE  JournalInv'
<1>0. /\ JournalTypes /\ AppendsAtWork /\ op \in Ops /\ io \in Ios /\ faults \in Nat /\ outages \in Nat
      /\ seen \in [Clients -> Points] /\ lines \in Seq(Recs) /\ promise \in Seq(Recs)
      /\ synced \in Nat /\ tail \in Nat /\ io.todo \in Seq(Recs) /\ PromiseOnDisk
      /\ Len(lines) \in Nat /\ Len(promise) \in Nat
  BY DEF JournalInv, JournalTypes, Ios
<1>1. NoIo.todo = <<>> /\ NoIo.written = FALSE
  BY DEF NoIo
<1>2. CASE TruncateTail
  <2>1. /\ op.step = "truncate" /\ tail' = 0 /\ synced' = Len(lines) /\ Goto("tail")
        /\ io' = [todo |-> <<Record(lines, "note", NoRun)>>, written |-> FALSE,
                  by |-> "op", next |-> "tail"]
        /\ UNCHANGED <<lines, seen, promise, faults, outages>>
    BY <1>2 DEF TruncateTail
  <2>2. op' \in Ops /\ op'.step = "tail"
    BY <1>0, <2>1, GoesTo DEF Steps
  <2>3. <<Record(lines, "note", NoRun)>> \in Seq(Recs)
    BY <1>0, RecordTyped, OneRecord, KindsTyped
  <2>4. io' \in Ios
    BY <2>1, <2>3 DEF Ios
  <2>5. JournalTypes'
    BY <1>0, <2>1, <2>2, <2>4 DEF JournalTypes
  <2>6. PromiseOnDisk'
    BY <1>0, <2>1 DEF PromiseOnDisk
  <2> QED BY <2>2, <2>5, <2>6 DEF JournalInv, AppendsAtWork, CopiedFirst
<1>3. CASE WriteLine
  <2>1. /\ io.todo # <<>> /\ lines' = Append(lines, Head(io.todo)) /\ io' = [io EXCEPT !.written = TRUE]
        /\ UNCHANGED <<tail, synced, op, seen, promise, faults, outages>>
    BY <1>3 DEF WriteLine
  <2>2. Head(io.todo) \in Recs
    BY <1>0, <2>1
  <2>3. /\ lines' \in Seq(Recs) /\ Len(lines') = Len(lines) + 1
        /\ \A i \in 1 .. Len(lines) : lines'[i] = lines[i]
    BY <1>0, <2>1, <2>2
  <2>4. io' \in Ios /\ io # NoIo
    BY <1>0, <1>1, <2>1 DEF Ios
  <2>5. JournalTypes'
    BY <1>0, <2>1, <2>3, <2>4 DEF JournalTypes
  <2>6. AppendsAtWork' /\ op'.step # "truncate"
    BY <1>0, <2>1, <2>4 DEF AppendsAtWork
  <2>7. \A i \in 1 .. Len(promise) : i \in 1 .. Len(lines)
    BY <1>0 DEF PromiseOnDisk
  <2>8. PromiseOnDisk'
    BY <1>0, <2>1, <2>3, <2>7 DEF PromiseOnDisk
  <2> QED BY <2>5, <2>6, <2>8 DEF JournalInv, CopiedFirst
<1>4. CASE SyncLine
  <2>1. /\ io.written /\ synced' = Len(lines) /\ UNCHANGED <<lines, tail, seen, faults, outages>>
    BY <1>4 DEF SyncLine
  <2>2. io # NoIo
    BY <1>1, <2>1
  <2>3. CASE Len(io.todo) > 1
    <3>1. io' = [io EXCEPT !.todo = Tail(@), !.written = FALSE] /\ UNCHANGED <<op, promise>>
      BY <1>4, <2>3 DEF SyncLine
    <3>2. Tail(io.todo) \in Seq(Recs)
      <4>1. io.todo # <<>>
        BY <2>3
      <4> QED BY <1>0, <4>1
    <3>3. io' \in Ios
      BY <1>0, <3>1, <3>2 DEF Ios
    <3>4. JournalTypes'
      BY <1>0, <2>1, <3>1, <3>3 DEF JournalTypes
    <3>5. AppendsAtWork' /\ op'.step # "truncate"
      BY <1>0, <2>2, <3>1 DEF AppendsAtWork
    <3>6. PromiseOnDisk'
      BY <1>0, <2>1, <3>1 DEF PromiseOnDisk
    <3> QED BY <3>4, <3>5, <3>6 DEF JournalInv, CopiedFirst
  <2>4. CASE ~(Len(io.todo) > 1)
    <3>1. io' = NoIo /\ promise' = lines /\ (Goto(io.next) \/ UNCHANGED op)
      BY <1>4, <2>4 DEF SyncLine
    <3>2. op' \in Ops /\ op'.step # "truncate"
      <4>1. io.next \in {"none", "tail", "recover", "done", "accept", "live"}
        BY <1>0 DEF Ios
      <4>2. ASSUME Goto(io.next) PROVE op' \in Ops /\ op'.step # "truncate"
        BY <1>0, <4>1, <4>2, GoesTo DEF Steps
      <4>3. op.step # "truncate"
        BY <1>0, <2>2 DEF AppendsAtWork
      <4> QED BY <1>0, <3>1, <4>2, <4>3
    <3>3. JournalTypes'
      BY <1>0, <2>1, <3>1, <3>2, OpsTyped DEF JournalTypes
    <3>4. PromiseOnDisk'
      BY <1>0, <2>1, <3>1 DEF PromiseOnDisk
    <3> QED BY <3>1, <3>2, <3>3, <3>4 DEF JournalInv, AppendsAtWork, CopiedFirst
  <2> QED BY <2>3, <2>4
<1>5. CASE FailAppend
  <2>1. /\ io.todo # <<>> /\ faults' = faults + 1 /\ tail' \in {tail, faults'} /\ io' = NoIo
        /\ Goto("end") \/ Goto("done") \/ UNCHANGED op
        /\ UNCHANGED <<lines, synced, seen, promise, outages>>
    BY <1>5 DEF FailAppend
  <2>2. op' \in Ops /\ op'.step # "truncate"
    <3>1. op.step # "truncate"
      BY <1>0, <1>1, <2>1 DEF AppendsAtWork
    <3> QED BY <1>0, <2>1, <3>1, GoesTo DEF Steps
  <2>3. JournalTypes'
    BY <1>0, <2>1, <2>2, OpsTyped DEF JournalTypes
  <2>4. PromiseOnDisk'
    BY <1>0, <2>1 DEF PromiseOnDisk
  <2> QED BY <2>1, <2>2, <2>3, <2>4 DEF JournalInv, AppendsAtWork, CopiedFirst
<1> QED BY <1>2, <1>3, <1>4, <1>5

\* The operations read the journal, and begin an append or are over.
LEMMA OperationsKeep ==
  ASSUME JournalInv, \/ Snapshot \/ SelectBranch \/ CompactContext \/ Upload
                     \/ AcceptRun \/ RunStep \/ EndTask \/ EndRun \/ HandlerAppend
                     \/ \E c \in Clients : Observe(c)
  PROVE  JournalInv'
<1>0. /\ JournalTypes /\ AppendsAtWork /\ op \in Ops /\ io \in Ios /\ faults \in Nat /\ outages \in Nat
      /\ seen \in [Clients -> Points] /\ lines \in Seq(Recs) /\ Len(lines) \in Nat
      /\ op.run \in Runs \cup {NoRun} /\ op.aim \in Nat
  BY DEF JournalInv, JournalTypes, Ops
\* An append is begun, and the operation waits for it.
<1>1. ASSUME NEW records \in Seq(Recs), NEW by \in {"op", "handler"},
             NEW next \in {"recover", "done", "accept", "live"}, Begin(by, records, next),
             op.step \in {"act", "accept", "live", "end"}, op.name # "get",
             UNCHANGED <<lines, synced, promise, tail, backups, faults, outages, seen, op>>
      PROVE  JournalInv'
  <2>1. io' \in Ios
    BY <1>1, BeginsTyped
  <2>2. AppendsAtWork'
    BY <1>1 DEF AppendsAtWork
  <2> QED BY <1>0, <1>1, <2>1, <2>2, FileLeftAlone
\* The operation is over or at its end, and nothing is being written.
<1>2. ASSUME NEW s \in {"done", "end"}, Goto(s), io = NoIo, UNCHANGED io, seen' \in [Clients -> Points],
             UNCHANGED <<lines, synced, promise, tail, backups, faults, outages>>
      PROVE  JournalInv'
  <2>1. op' \in Ops /\ op'.step \in {"none", "end"}
    BY <1>0, <1>2, GoesTo DEF Steps
  <2> QED BY <1>0, <1>2, <2>1, FileLeftAlone DEF AppendsAtWork
<1>3. CASE Snapshot
  <2>1. io = NoIo
    BY <1>0, <1>3 DEF Snapshot, AppendsAtWork
  <2>2. seen' \in [Clients -> Points]
    BY <1>0, <1>3, HeadTyped DEF Snapshot
  <2> QED BY <1>2, <1>3, <2>1, <2>2 DEF Snapshot
<1>4. CASE SelectBranch
  <2>1. CASE Goto("done") /\ UNCHANGED io
    BY <1>0, <1>2, <1>4, <2>1 DEF SelectBranch
  <2>2. CASE /\ Begin("op", <<Selection>>, "done") /\ UNCHANGED op
             /\ seen[op.client] = Head_(lines)
    <3>1. Record(lines, "selected", NoRun) \in Recs /\ Head_(lines) \in Points
      BY <1>0, RecordTyped, HeadTyped, KindsTyped
    <3>2. Selection \in Recs
      BY <1>0, <2>2, <3>1 DEF Selection, Recs
    <3>3. <<Selection>> \in Seq(Recs)
      BY <3>2, OneRecord
    <3> QED BY <1>1, <1>4, <2>2, <3>3 DEF SelectBranch
  <2> QED BY <1>4, <2>1, <2>2 DEF SelectBranch
<1>5. CASE CompactContext
  <2>1. CASE Goto("done") /\ UNCHANGED io
    BY <1>0, <1>2, <1>5, <2>1 DEF CompactContext
  <2>2. CASE /\ Begin("op", <<Summary, Compacted>>, "done") /\ UNCHANGED op
             /\ seen[op.client] = Head_(lines)
    <3>1. Record(lines, "summary", NoRun) \in Recs /\ Head_(lines) \in Points
      BY <1>0, RecordTyped, HeadTyped, KindsTyped
    <3>2. Summary \in Recs
      BY <1>0, <2>2, <3>1 DEF Summary, Recs
    <3>3. Append(lines, Summary) \in Seq(Recs)
      BY <1>0, <3>2
    <3>4. Record(Append(lines, Summary), "compacted", NoRun) \in Recs
      BY <1>0, <3>3, RecordTyped, KindsTyped
    <3>5. Compacted \in Recs
      BY <1>0, <2>2, <3>1, <3>4 DEF Compacted, Recs
    <3>6. <<Summary, Compacted>> \in Seq(Recs)
      BY <3>2, <3>5
    <3> QED BY <1>1, <1>5, <2>2, <3>6 DEF CompactContext
  <2> QED BY <1>5, <2>1, <2>2 DEF CompactContext
<1>6. ASSUME NEW kind \in RecKinds, NEW run \in Runs \cup {NoRun}
      PROVE  <<Record(lines, kind, run)>> \in Seq(Recs)
  BY <1>0, RecordTyped, OneRecord
<1>7. CASE Upload
  <2>1. <<Record(lines, "artifact", NoRun)>> \in Seq(Recs)
    BY <1>6, KindsTyped
  <2> QED BY <1>1, <1>7, <2>1 DEF Upload
<1>8. CASE AcceptRun
  <2>1. PICK kind \in {"user", "accepted"}, next \in {"accept", "live"} :
          Begin("op", <<Record(lines, kind, op.run)>>, next)
    BY <1>8 DEF AcceptRun
  <2>2. <<Record(lines, kind, op.run)>> \in Seq(Recs)
    BY <1>0, <1>6, KindsTyped
  <2> QED BY <1>1, <1>8, <2>1, <2>2 DEF AcceptRun
<1>9. CASE RunStep
  <2>1. PICK kind \in {"call", "intent", "result", "answer", "user"} :
          Begin("op", <<Record(lines, kind, op.run)>>, "live")
    BY <1>9 DEF RunStep, TaskRecords, After
  <2>2. <<Record(lines, kind, op.run)>> \in Seq(Recs)
    BY <1>0, <1>6, KindsTyped
  <2> QED BY <1>1, <1>9, <2>1, <2>2 DEF RunStep
<1>10. CASE EndTask
  BY <1>0, <1>2, <1>10 DEF EndTask
<1>11. CASE EndRun
  <2>1. <<Record(lines, "terminal", op.run)>> \in Seq(Recs)
    BY <1>0, <1>6, KindsTyped
  <2> QED BY <1>0, <1>1, <1>2, <1>11, <2>1 DEF EndRun, Refused
<1>12. CASE HandlerAppend
  <2>1. <<Record(lines, "queued", op.run)>> \in Seq(Recs)
    BY <1>0, <1>6, KindsTyped
  <2> QED BY <1>1, <1>12, <2>1 DEF HandlerAppend
<1>13. ASSUME NEW c \in Clients, Observe(c) PROVE JournalInv'
  <2>1. seen' \in [Clients -> Points]
    BY <1>0, <1>13, HeadTyped DEF Observe
  <2>2. io = NoIo /\ op.step = "live"
    BY <1>13 DEF Observe
  <2> QED BY <1>0, <1>13, <2>1, <2>2, FileLeftAlone DEF Observe, AppendsAtWork
<1> QED BY <1>3, <1>4, <1>5, <1>7, <1>8, <1>9, <1>10, <1>11, <1>12, <1>13

LEMMA JournalKept == JournalInv /\ [JournalNext]_journalVars => JournalInv'
<1> SUFFICES ASSUME JournalInv, [JournalNext]_journalVars PROVE JournalInv'
  OBVIOUS
<1>0. /\ JournalTypes /\ AppendsAtWork /\ op \in Ops /\ io \in Ios /\ faults \in Nat /\ outages \in Nat
      /\ seen \in [Clients -> Points] /\ lines \in Seq(Recs) /\ promise \in Seq(Recs)
      /\ Len(lines) \in Nat /\ Len(promise) \in Nat /\ synced \in Nat /\ tail \in Nat
  BY DEF JournalInv, JournalTypes
<1>1. CASE Crash
  <2>1. /\ op' = NoOp /\ io' = NoIo /\ faults' = faults + 1 /\ tail' \in {tail, faults'}
        /\ UNCHANGED <<lines, synced, backups, seen, promise, outages>>
    BY <1>1 DEF Crash, Torn
  <2>2. JournalTypes'
    BY <1>0, <2>1, OpsTyped DEF JournalTypes
  <2> QED BY <2>1, <2>2, OpsTyped DEF JournalInv, AppendsAtWork, CopiedFirst, PromiseOnDisk
<1>2. CASE PowerLoss
  <2>1. PICK n \in synced .. Len(lines) : lines' = SubSeq(lines, 1, n)
    BY <1>2 DEF PowerLoss
  <2>2. /\ op' = NoOp /\ io' = NoIo /\ outages' = outages + 1 /\ tail' \in {0, tail, MaxFaults + outages'}
        /\ UNCHANGED <<synced, seen, promise, faults>>
    BY <1>2 DEF PowerLoss
  <2>3. n \in Nat /\ n <= Len(lines) /\ synced <= n
    BY <1>0, <2>1
  <2>4. /\ lines' \in Seq(Recs) /\ Len(lines') = n /\ \A i \in 1 .. n : lines'[i] = lines[i]
    BY <1>0, <2>1, <2>3
  <2>5. JournalTypes'
    BY <1>0, <2>2, <2>4, OpsTyped, BoundsAssumption DEF JournalTypes
  <2>6. \A i \in 1 .. Len(promise) : i \in 1 .. n
    BY <1>0, <2>3 DEF JournalInv, PromiseOnDisk
  <2>7. PromiseOnDisk'
    BY <1>0, <2>2, <2>3, <2>4, <2>6 DEF JournalInv, PromiseOnDisk
  <2> QED BY <2>2, <2>5, <2>7, OpsTyped DEF JournalInv, AppendsAtWork, CopiedFirst
<1>3. CASE UNCHANGED journalVars
  BY <1>3 DEF journalVars, JournalInv, JournalTypes, AppendsAtWork, CopiedFirst, PromiseOnDisk, Image
<1> QED BY <1>1, <1>2, <1>3, OpeningKeeps, WritingKeeps, OperationsKeep, Zenon DEF JournalNext, Work

(* What an append reported durable stays in the journal, in its place and    *)
(* unchanged, whatever crash, loss of power or recovery of the tail follows: *)
(* the promise never runs ahead of the sync, and nothing cuts below the sync *)
(* (session.rs, append_unlocked and recover_tail_unlocked).                  *)
THEOREM PromisesAreKept == JournalSpec => []CommittedKept
<1>1. JournalInv => CommittedKept
  <2> SUFFICES ASSUME JournalInv PROVE CommittedKept
    OBVIOUS
  <2>1. /\ promise \in Seq(Recs) /\ lines \in Seq(Recs) /\ Len(promise) \in Nat /\ Len(lines) \in Nat
        /\ Len(promise) <= Len(lines) /\ \A i \in 1 .. Len(promise) : promise[i] = lines[i]
    BY DEF JournalInv, JournalTypes, PromiseOnDisk
  <2>2. /\ SubSeq(promise, 1, Len(promise)) \in Seq(Recs) /\ SubSeq(lines, 1, Len(promise)) \in Seq(Recs)
        /\ Len(SubSeq(promise, 1, Len(promise))) = Len(promise)
        /\ Len(SubSeq(lines, 1, Len(promise))) = Len(promise)
        /\ \A i \in 1 .. Len(promise) : /\ SubSeq(promise, 1, Len(promise))[i] = promise[i]
                                        /\ SubSeq(lines, 1, Len(promise))[i] = lines[i]
    BY <2>1
  <2>3. SubSeq(promise, 1, Len(promise)) = SubSeq(lines, 1, Len(promise))
    BY <2>1, <2>2
  <2> QED BY <2>1, <2>3 DEF CommittedKept, IsPrefix
<1> QED BY JournalHoldsAtStart, JournalKept, <1>1, PTL DEF JournalSpec

(* Recovery cuts a tail only after a backup holds the journal with it: what  *)
(* a fault left of a line is never thrown away unseen (session.rs,           *)
(* recover_tail_unlocked).                                                   *)
THEOREM TailsAreBackedUp == JournalSpec => TailBackedUp
<1> DEFINE Covered ==
      tail # 0 /\ tail' = 0 /\ lines' = lines /\ outages' = outages => Image \in backups
<1>1. JournalInv /\ [JournalNext]_journalVars => [Covered]_journalVars
  <2> SUFFICES ASSUME JournalInv, JournalNext, tail # 0, tail' = 0, outages' = outages
               PROVE  Image \in backups
    OBVIOUS
  <2>1. faults \in Nat /\ outages \in Nat
    BY DEF JournalInv, JournalTypes
  <2>2. ~PowerLoss
    BY <2>1 DEF PowerLoss
  <2>3. ~(Crash \/ FailAppend)
    BY <2>1 DEF Crash, FailAppend, Torn
  <2>4. TruncateTail
    BY <2>2, <2>3 DEF JournalNext, Request, Open, Work, CreateSession, PublishBackup, TailDone,
       RecoverInterrupted, WriteLine, SyncLine, Snapshot, SelectBranch, CompactContext, Upload,
       AcceptRun, RunStep, EndTask, EndRun, HandlerAppend, Observe
  <2> QED BY <2>4 DEF TruncateTail, JournalInv, CopiedFirst
<1> QED BY JournalHoldsAtStart, JournalKept, <1>1, PTL DEF JournalSpec, TailBackedUp

-----------------------------------------------------------------------------
(* Nothing unseen: where the record stands that a client asked for.        *)

\* A branch selection follows what its client had observed at once, and of the
\* two records of a compaction the first does.
Back(r) == IF r.kind = "compacted" THEN 2 ELSE 1
Faces(ls, r, n) ==
  r.kind \in {"selected", "compacted"} =>
    n - Back(r) \in 0 .. Len(ls) /\ r.basis = Id(ls, n - Back(r))

\* The line before the records that the append has still to write or to sync.
Base == IF io.written THEN Len(lines) - 1 ELSE Len(lines)

UnseenInv ==
  /\ \A i \in DOMAIN lines : Faces(lines, lines[i], i)
  /\ \A j \in DOMAIN io.todo : Faces(lines, io.todo[j], Base + j)

LEMMA IdKept ==
  ASSUME NEW a \in Seq(Recs), NEW b \in Seq(Recs), NEW k \in 0 .. Len(a), k <= Len(b),
         \A i \in 1 .. k : a[i] = b[i]
  PROVE  Id(b, k) = Id(a, k)
BY DEF Id

LEMMA FacesKept ==
  ASSUME NEW a \in Seq(Recs), NEW b \in Seq(Recs), Len(a) <= Len(b), NEW r, NEW n,
         \A i \in 1 .. Len(a) : a[i] = b[i], Faces(a, r, n)
  PROVE  Faces(b, r, n)
<1> SUFFICES ASSUME r.kind \in {"selected", "compacted"}
             PROVE  n - Back(r) \in 0 .. Len(b) /\ r.basis = Id(b, n - Back(r))
  BY DEF Faces
<1>1. PICK k \in 0 .. Len(a) : k = n - Back(r) /\ r.basis = Id(a, k)
  BY DEF Faces
<1>2. Len(a) \in Nat /\ Len(b) \in Nat
  OBVIOUS
<1>3. k <= Len(b) /\ \A i \in 1 .. k : a[i] = b[i]
  BY <1>1, <1>2
<1> QED BY <1>1, <1>2, <1>3, IdKept

LEMMA UnseenStays ==
  ASSUME UnseenInv, UNCHANGED lines,
         \/ UNCHANGED io
         \/ ~io'.written /\ \A j \in DOMAIN io'.todo : Faces(lines, io'.todo[j], Len(lines) + j)
  PROVE  UnseenInv'
BY DEF UnseenInv, Base

LEMMA UnseenByBegin ==
  ASSUME UnseenInv, UNCHANGED lines, NEW records, NEW by, NEW next, Begin(by, records, next),
         \A j \in DOMAIN records : Faces(lines, records[j], Len(lines) + j)
  PROVE  UnseenInv'
<1>1. ~io'.written /\ io'.todo = records
  BY DEF Begin
<1> QED BY <1>1, UnseenStays

LEMMA UnseenByRecord ==
  ASSUME UnseenInv, UNCHANGED lines, NEW run, NEW kind \in RecKinds \ {"selected", "compacted"},
         io'.todo = <<Record(lines, kind, run)>>, ~io'.written
  PROVE  UnseenInv'
<1> DEFINE r == Record(lines, kind, run)
<1>1. r.kind = kind
  BY DEF Record
<1>2. io'.todo = <<r>> /\ ~io'.written
  OBVIOUS
<1> HIDE DEF r
<1>3. \A j \in DOMAIN <<r>> : <<r>>[j] = r
  OBVIOUS
<1>4. \A j \in DOMAIN io'.todo : Faces(lines, io'.todo[j], Len(lines) + j)
  BY <1>1, <1>2, <1>3 DEF Faces
<1> QED BY <1>2, <1>4, UnseenStays

LEMMA UnseenKept ==
  ASSUME JournalInv, UnseenInv, [JournalNext]_journalVars
  PROVE  UnseenInv'
<1>0. /\ lines \in Seq(Recs) /\ lines' \in Seq(Recs) /\ io.todo \in Seq(Recs) /\ Len(lines) \in Nat
      /\ op.run \in Runs \cup {NoRun}
  <2>1. JournalInv'
    BY JournalKept
  <2> QED BY <2>1 DEF JournalInv, JournalTypes, Ios, Ops
<1>1. ASSUME UNCHANGED lines, UNCHANGED io \/ io' = NoIo PROVE UnseenInv'
  <2>1. ~NoIo.written /\ NoIo.todo = <<>> /\ DOMAIN <<>> = {}
    BY DEF NoIo
  <2> QED BY <1>1, <2>1, UnseenStays
\* Appends of one record that no client asked for.
<1>2. ASSUME UNCHANGED lines, NEW run \in Runs \cup {NoRun},
             NEW kind \in RecKinds \ {"selected", "compacted"},
             NEW by, NEW next, Begin(by, <<Record(lines, kind, run)>>, next)
      PROVE  UnseenInv'
  <2>1. io'.todo = <<Record(lines, kind, run)>> /\ ~io'.written
    BY <1>2 DEF Begin
  <2> QED BY <1>2, <2>1, UnseenByRecord
<1>3. CASE \/ Request \/ CreateSession \/ PublishBackup \/ TailDone \/ Snapshot \/ EndTask
           \/ \E c \in Clients : Observe(c)
           \/ FailAppend \/ Crash
  <2>1. UNCHANGED lines
    BY <1>3 DEF Request, Open, CreateSession, PublishBackup, TailDone, Snapshot, EndTask, Observe,
       FailAppend, Crash
  <2>2. UNCHANGED io \/ io' = NoIo
    BY <1>3 DEF Request, Open, CreateSession, PublishBackup, TailDone, Snapshot, EndTask, Observe,
       FailAppend, Crash
  <2> QED BY <1>1, <2>1, <2>2
<1>4. CASE TruncateTail
  <2>1. io'.todo = <<Record(lines, "note", NoRun)>> /\ ~io'.written /\ UNCHANGED lines
    BY <1>4 DEF TruncateTail
  <2> QED BY <2>1, UnseenByRecord, KindsTyped
<1>5. CASE RecoverInterrupted
  <2>1. UNCHANGED lines
    BY <1>5 DEF RecoverInterrupted
  <2>2. ASSUME NEW r \in Repairs(lines), Begin("op", <<Record(lines, r.kind, r.run)>>, "recover")
        PROVE  UnseenInv'
    <3>1. r.kind \in {"result", "answer", "terminal"}
      BY <2>2 DEF Repairs
    <3>2. r.run \in Runs \cup {NoRun} /\ r.kind \in RecKinds
      BY <1>0, RepairsTyped
    <3> QED BY <1>2, <2>1, <2>2, <3>1, <3>2
  <2> QED BY <1>1, <1>5, <2>1, <2>2 DEF RecoverInterrupted
<1>6. CASE Upload
  BY <1>2, <1>6, KindsTyped DEF Upload
<1>7. CASE AcceptRun
  BY <1>0, <1>2, <1>7, KindsTyped DEF AcceptRun
<1>8. CASE RunStep
  <2>1. PICK kind \in {"call", "intent", "result", "answer", "user"} :
          Begin("op", <<Record(lines, kind, op.run)>>, "live")
    BY <1>8 DEF RunStep, TaskRecords, After
  <2> QED BY <1>0, <1>2, <1>8, <2>1, KindsTyped DEF RunStep
<1>9. CASE EndRun
  BY <1>0, <1>1, <1>2, <1>9, KindsTyped DEF EndRun
<1>10. CASE HandlerAppend
  BY <1>0, <1>2, <1>10, KindsTyped DEF HandlerAppend
<1>11. CASE SelectBranch
  <2>1. UNCHANGED lines
    BY <1>11 DEF SelectBranch
  <2>2. CASE UNCHANGED io
    BY <1>1, <2>1, <2>2
  <2>3. CASE Begin("op", <<Selection>>, "done") /\ seen[op.client] = Head_(lines)
    <3>1. Selection.kind = "selected" /\ Selection.basis = Id(lines, Len(lines))
      BY <2>3 DEF Selection, Record, Head_
    <3>2. io'.todo = <<Selection>> /\ ~io'.written
      BY <2>3 DEF Begin
    <3>3. PICK r : r = Selection
      OBVIOUS
    <3>4. r.kind = "selected" /\ Back(r) = 1 /\ Len(lines) + 1 - 1 = Len(lines)
      BY <1>0, <3>1, <3>3 DEF Back
    <3>5. Faces(lines, r, Len(lines) + 1)
      BY <1>0, <3>1, <3>3, <3>4 DEF Faces
    <3>6. DOMAIN <<r>> = {1} /\ <<r>>[1] = r
      OBVIOUS
    <3>7. \A j \in DOMAIN io'.todo : Faces(lines, io'.todo[j], Len(lines) + j)
      BY <3>2, <3>3, <3>5, <3>6
    <3> QED BY <2>1, <3>2, <3>7, UnseenStays
  <2> QED BY <1>11, <2>2, <2>3 DEF SelectBranch
<1>12. CASE CompactContext
  <2>1. UNCHANGED lines
    BY <1>12 DEF CompactContext
  <2>2. CASE UNCHANGED io
    BY <1>1, <2>1, <2>2
  <2>3. CASE Begin("op", <<Summary, Compacted>>, "done") /\ seen[op.client] = Head_(lines)
    <3>1. /\ Compacted.kind = "compacted" /\ Compacted.basis = Id(lines, Len(lines))
          /\ Summary.kind = "summary"
      BY <2>3 DEF Compacted, Summary, Record, Head_
    <3>2. io'.todo = <<Summary, Compacted>> /\ ~io'.written
      BY <2>3 DEF Begin
    <3>3. PICK r, t : r = Summary /\ t = Compacted
      OBVIOUS
    <3>4. t.kind = "compacted" /\ Back(t) = 2 /\ Len(lines) + 2 - 2 = Len(lines)
      BY <1>0, <3>1, <3>3 DEF Back
    <3>5. Faces(lines, t, Len(lines) + 2) /\ Faces(lines, r, Len(lines) + 1)
      BY <1>0, <3>1, <3>3, <3>4 DEF Faces
    <3>6. DOMAIN <<r, t>> = {1, 2} /\ <<r, t>>[1] = r /\ <<r, t>>[2] = t
      OBVIOUS
    <3>7. \A j \in DOMAIN io'.todo : Faces(lines, io'.todo[j], Len(lines) + j)
      BY <3>2, <3>3, <3>5, <3>6
    <3> QED BY <2>1, <3>2, <3>7, UnseenStays
  <2> QED BY <1>12, <2>2, <2>3 DEF CompactContext
<1>13. CASE WriteLine
  <2>1. /\ io.todo # <<>> /\ ~io.written /\ lines' = Append(lines, Head(io.todo))
        /\ io' = [io EXCEPT !.written = TRUE]
    BY <1>13 DEF WriteLine
  <2>2. io'.written /\ io'.todo = io.todo
    BY <2>1 DEF JournalInv, JournalTypes, Ios
  <2>3. PICK r \in Recs : r = Head(io.todo) /\ r = io.todo[1] /\ 1 \in DOMAIN io.todo
    BY <1>0, <2>1
  <2>4. /\ Len(lines') = Len(lines) + 1 /\ lines'[Len(lines) + 1] = r
        /\ \A i \in 1 .. Len(lines) : lines'[i] = lines[i]
    BY <1>0, <2>1, <2>3
  <2>5. Base = Len(lines) /\ Base' = Len(lines)
    BY <1>0, <2>1, <2>2, <2>4 DEF Base
  <2>6. Faces(lines, r, Len(lines) + 1)
    BY <2>3, <2>5 DEF UnseenInv
  <2>7. \A x, n : Faces(lines, x, n) => Faces(lines', x, n)
    BY <1>0, <2>4, FacesKept
  <2>8. \A i \in DOMAIN lines' : Faces(lines', lines'[i], i)
    <3> SUFFICES ASSUME NEW i \in DOMAIN lines' PROVE Faces(lines', lines'[i], i)
      OBVIOUS
    <3>1. CASE i = Len(lines) + 1
      BY <2>4, <2>6, <2>7, <3>1
    <3>2. CASE i \in 1 .. Len(lines)
      <4>1. i \in DOMAIN lines
        BY <1>0, <3>2
      <4> QED BY <2>4, <2>7, <3>2, <4>1 DEF UnseenInv
    <3> QED BY <1>0, <2>4, <3>1, <3>2
  <2>9. \A j \in DOMAIN io'.todo : Faces(lines', io'.todo[j], Base' + j)
    BY <2>2, <2>5, <2>7 DEF UnseenInv
  <2> QED BY <2>8, <2>9 DEF UnseenInv
<1>14. CASE SyncLine
  <2>1. io.written /\ UNCHANGED lines
    BY <1>14 DEF SyncLine
  <2>2. CASE Len(io.todo) > 1
    <3>1. io' = [io EXCEPT !.todo = Tail(@), !.written = FALSE]
      BY <1>14, <2>2 DEF SyncLine
    <3>2. ~io'.written /\ io'.todo = Tail(io.todo)
      BY <3>1 DEF JournalInv, JournalTypes, Ios
    <3>3. io.todo # <<>>
      BY <2>2
    <3>4. \A j \in DOMAIN Tail(io.todo) : /\ j + 1 \in DOMAIN io.todo /\ Tail(io.todo)[j] = io.todo[j + 1]
                                          /\ Base + (j + 1) = Len(lines) + j
      BY <1>0, <2>1, <3>3 DEF Base
    <3>5. \A j \in DOMAIN io'.todo : Faces(lines, io'.todo[j], Len(lines) + j)
      BY <3>2, <3>4 DEF UnseenInv
    <3> QED BY <2>1, <3>2, <3>5, UnseenStays
  <2>3. CASE ~(Len(io.todo) > 1)
    BY <1>1, <1>14, <2>1, <2>3 DEF SyncLine
  <2> QED BY <2>2, <2>3
<1>15. CASE PowerLoss
  <2>1. PICK n \in synced .. Len(lines) : lines' = SubSeq(lines, 1, n)
    BY <1>15 DEF PowerLoss
  <2>2. io' = NoIo /\ n \in Nat /\ n <= Len(lines)
    BY <1>0, <1>15, <2>1 DEF PowerLoss, JournalInv, JournalTypes
  <2>3. Len(lines') = n /\ \A i \in 1 .. n : lines'[i] = lines[i]
    BY <1>0, <2>1, <2>2
  <2>4. DOMAIN io'.todo = {}
    BY <2>2 DEF NoIo
  <2>5. ASSUME NEW i \in 1 .. n PROVE Faces(lines', lines'[i], i)
    <3> SUFFICES ASSUME lines[i].kind \in {"selected", "compacted"}
                 PROVE  /\ i - Back(lines[i]) \in 0 .. n
                        /\ lines[i].basis = Id(lines', i - Back(lines[i]))
      BY <2>3, <2>5 DEF Faces
    <3>1. PICK k \in 0 .. Len(lines) : k = i - Back(lines[i]) /\ lines[i].basis = Id(lines, k)
      BY <1>0, <2>2, <2>5 DEF UnseenInv, Faces
    <3>2. k <= n
      BY <2>2, <2>5, <3>1 DEF Back
    <3>3. Id(lines', k) = Id(lines, k)
      BY <1>0, <2>2, <2>3, <3>2, IdKept
    <3> QED BY <2>2, <3>1, <3>2, <3>3
  <2>6. \A i \in DOMAIN lines' : Faces(lines', lines'[i], i)
    BY <1>0, <2>3, <2>5
  <2> QED BY <2>4, <2>6 DEF UnseenInv
<1>16. CASE UNCHANGED journalVars
  BY <1>1, <1>16 DEF journalVars
<1> QED BY <1>3, <1>4, <1>5, <1>6, <1>7, <1>8, <1>9, <1>10, <1>11, <1>12, <1>13, <1>14, <1>15,
           <1>16, Zenon DEF JournalNext, Work

(* A branch selection or a compaction follows immediately the head that its  *)
(* client had observed, across crashes and losses of power: the head is      *)
(* compared under the writer lease and the append that follows it leaves no  *)
(* room for another record (session.rs, select_branch and compact_context).  *)
THEOREM NothingUnseenIsReplaced == JournalSpec => []NothingUnseen
<1>1. JournalInit => UnseenInv
  BY DEF JournalInit, UnseenInv, NoIo
<1>2. UnseenInv /\ JournalInv => NothingUnseen
  <2> SUFFICES ASSUME UnseenInv, lines \in Seq(Recs), NEW i \in DOMAIN lines,
                      lines[i].kind \in {"selected", "compacted"}
               PROVE  LET first == IF lines[i].kind = "compacted" THEN i - 1 ELSE i
                      IN  lines[i].basis = Id(lines, first - 1)
    BY DEF NothingUnseen, JournalInv, JournalTypes
  <2>1. lines[i].basis = Id(lines, i - Back(lines[i])) /\ i \in Nat
    BY DEF UnseenInv, Faces
  <2>2. (i - 1) - 1 = i - 2
    BY <2>1
  <2> QED BY <2>1, <2>2 DEF Back
<1>3. JournalInv /\ UnseenInv /\ [JournalNext]_journalVars => (JournalInv /\ UnseenInv)'
  BY JournalKept, UnseenKept
<1> QED BY JournalHoldsAtStart, <1>1, <1>2, <1>3, PTL DEF JournalSpec

\* A set of naturals has a least element.
LEMMA Least ==
  ASSUME NEW T, T \subseteq Nat, T # {}
  PROVE  \E n \in T : \A m \in T : n <= m
<1> DEFINE R == OpToRel(<, Nat)
<1>1. PICK n \in T : \A m \in T : ~(<<m, n>> \in R)
  BY WFMin, NatLessThanWellFounded
<1>2. ASSUME NEW m \in T PROVE n <= m
  <2>1. <<m, n>> \notin R
    BY <1>1
  <2>2. m < n => <<m, n>> \in R
    BY DEF OpToRel
  <2> HIDE DEF R
  <2> QED BY <2>1, <2>2
<1> QED BY <1>2

\* What a line has when the lines before it have it, all lines have.
LEMMA LineInduction ==
  ASSUME NEW n \in Nat, NEW S, \A i \in 0 .. n : (\A j \in 0 .. i - 1 : j \in S) => i \in S
  PROVE  \A i \in 0 .. n : i \in S
<1> DEFINE T == {i \in 0 .. n : i \notin S}
<1>1. ASSUME T # {} PROVE FALSE
  <2>1. T \subseteq Nat
    OBVIOUS
  <2>2. PICK i \in T : \A m \in T : i <= m
    <3> HIDE DEF T
    <3> QED BY <1>1, <2>1, Least
  <2>3. i \in 0 .. n /\ \A j \in 0 .. i - 1 : j \in S
    BY <2>2
  <2> QED BY <2>2, <2>3
<1> QED BY <1>1

-----------------------------------------------------------------------------
(* The ancestry of a record.                                               *)

Parents(ls) == \A i \in DOMAIN ls : ls[i].parent \in 0 .. i - 1

\* The recursive definition has a solution, for it refers to earlier lines only.
LEMMA ChainsSolve ==
  ASSUME NEW ls, Len(ls) \in Nat, DOMAIN ls = 1 .. Len(ls), Parents(ls)
  PROVE  Chains(ls) = [i \in 0 .. Len(ls) |-> IF i = 0 THEN {} ELSE {i} \cup Chains(ls)[ls[i].parent]]
<1> DEFINE Up(f, i) == IF i = 0 THEN {} ELSE {i} \cup f[ls[i].parent]
           S == {n \in 0 .. Len(ls) : \E f : f = [i \in 0 .. n |-> Up(f, i)]}
<1>1. ASSUME NEW n \in 0 .. Len(ls), \A j \in 0 .. n - 1 : j \in S PROVE n \in S
  <2>1. CASE n = 0
    <3> DEFINE z == [i \in 0 .. 0 |-> {}]
    <3>1. \A i \in 0 .. 0 : z[i] = Up(z, i)
      OBVIOUS
    <3>2. z = [i \in 0 .. 0 |-> Up(z, i)]
      BY <3>1
    <3> HIDE DEF z, Up
    <3> QED BY <2>1, <3>2
  <2>2. CASE n # 0
    <3>1. n - 1 \in S
      <4>1. n - 1 \in 0 .. n - 1
        BY <2>2
      <4> HIDE DEF S
      <4> QED BY <1>1, <4>1
    <3>2. PICK g : g = [i \in 0 .. (n - 1) |-> Up(g, i)]
      BY <3>1
    <3> DEFINE h == [i \in 0 .. n |-> IF i < n THEN g[i] ELSE Up(g, n)]
    <3>a. \A i \in 0 .. (n - 1) : h[i] = g[i]
      OBVIOUS
    <3>b. \A i \in 0 .. (n - 1) : g[i] = Up(g, i)
      BY <3>2
    <3>3. \A i \in 0 .. (n - 1) : h[i] = g[i] /\ g[i] = Up(g, i)
      <4> HIDE DEF h, Up
      <4> QED BY <3>a, <3>b
    <3>4. h[n] = Up(g, n)
      OBVIOUS
    <3>5. h = [i \in 0 .. n |-> h[i]]
      OBVIOUS
    <3> HIDE DEF h
    <3>6. ASSUME NEW i \in 0 .. n PROVE h[i] = Up(h, i)
      <4>1. i # 0 => ls[i].parent \in 0 .. i - 1
        BY DEF Parents
      <4>2. i # 0 => ls[i].parent \in 0 .. (n - 1)
        BY <4>1
      <4>3. Up(g, i) = Up(h, i)
        BY <3>3, <4>2
      <4>4. i = n \/ i \in 0 .. (n - 1)
        OBVIOUS
      <4> HIDE DEF Up
      <4> QED BY <3>3, <3>4, <4>3, <4>4
    <3>7. h = [i \in 0 .. n |-> Up(h, i)]
      <4> HIDE DEF Up
      <4> QED BY <3>5, <3>6
    <3> HIDE DEF Up
    <3> QED BY <3>7
  <2> QED BY <2>1, <2>2
<1>2. Len(ls) \in S
  <2>1. \A n \in 0 .. Len(ls) : (\A j \in 0 .. n - 1 : j \in S) => n \in S
    BY ONLY <1>1
  <2>2. Len(ls) \in 0 .. Len(ls)
    OBVIOUS
  <2> HIDE DEF S
  <2> QED BY <2>1, <2>2, LineInduction
<1>3. \E f : f = [i \in 0 .. Len(ls) |-> Up(f, i)]
  BY <1>2
<1> QED BY <1>3 DEF Chains

LEMMA ChainStep ==
  ASSUME NEW ls, Len(ls) \in Nat, DOMAIN ls = 1 .. Len(ls), Parents(ls)
  PROVE  /\ Chain(ls, 0) = {}
         /\ \A i \in DOMAIN ls : Chain(ls, i) = {i} \cup Chain(ls, ls[i].parent)
<1> DEFINE c == Chains(ls)
<1>1. c = [i \in 0 .. Len(ls) |-> IF i = 0 THEN {} ELSE {i} \cup c[ls[i].parent]]
  BY ChainsSolve
<1>2. Chain(ls, 0) = c[0] /\ \A i \in DOMAIN ls : Chain(ls, i) = c[i] /\ Chain(ls, ls[i].parent) = c[ls[i].parent]
  BY DEF Chain
<1> HIDE DEF c
<1>3. c[0] = {}
  <2>1. 0 \in 0 .. Len(ls)
    OBVIOUS
  <2> QED BY <1>1, <2>1
<1>4. \A i \in DOMAIN ls : c[i] = {i} \cup c[ls[i].parent]
  <2> TAKE i \in DOMAIN ls
  <2>1. i \in 0 .. Len(ls) /\ i # 0
    OBVIOUS
  <2> QED BY <1>1, <2>1
<1> QED BY <1>2, <1>3, <1>4

\* The ancestry of a record are lines not after it, and that of an ancestor is part of it.
LEMMA ChainOrder ==
  ASSUME NEW ls, Len(ls) \in Nat, DOMAIN ls = 1 .. Len(ls), Parents(ls), NEW i \in 0 .. Len(ls)
  PROVE  Chain(ls, i) \subseteq 1 .. i /\ \A j \in Chain(ls, i) : Chain(ls, j) \subseteq Chain(ls, i)
<1> DEFINE Ok(k) == Chain(ls, k) \subseteq 1 .. k /\ \A j \in Chain(ls, k) : Chain(ls, j) \subseteq Chain(ls, k)
           S == {k \in 0 .. Len(ls) : Ok(k)}
<1>1. ASSUME NEW n \in 0 .. Len(ls), \A j \in 0 .. n - 1 : j \in S PROVE n \in S
  <2>1. CASE n = 0
    BY <2>1, ChainStep
  <2>2. CASE n # 0
    <3> DEFINE p == ls[n].parent
    <3>1. p \in 0 .. n - 1 /\ n \in DOMAIN ls
      BY <2>2 DEF Parents
    <3>2. Chain(ls, n) = {n} \cup Chain(ls, p)
      BY <3>1, ChainStep
    <3>3. Ok(p)
      BY <1>1, <3>1
    <3> HIDE DEF p
    <3> QED BY <3>1, <3>2, <3>3
  <2> QED BY <2>1, <2>2
<1>2. i \in S
  <2>1. \A n \in 0 .. Len(ls) : (\A j \in 0 .. n - 1 : j \in S) => n \in S
    BY ONLY <1>1
  <2> HIDE DEF S
  <2> QED BY <2>1, LineInduction
<1> QED BY <1>2

\* It depends on the lines up to the record.
LEMMA ChainAgrees ==
  ASSUME NEW a, Len(a) \in Nat, DOMAIN a = 1 .. Len(a), Parents(a),
         NEW b, Len(b) \in Nat, DOMAIN b = 1 .. Len(b), Parents(b),
         NEW n \in Nat, n <= Len(a), n <= Len(b), \A i \in 1 .. n : a[i] = b[i]
  PROVE  \A i \in 0 .. n : Chain(a, i) = Chain(b, i)
<1> DEFINE S == {k \in 0 .. n : Chain(a, k) = Chain(b, k)}
<1>1. ASSUME NEW k \in 0 .. n, \A j \in 0 .. k - 1 : j \in S PROVE k \in S
  <2>1. CASE k = 0
    BY <2>1, ChainStep
  <2>2. CASE k # 0
    <3>1. a[k] = b[k] /\ k \in DOMAIN a /\ k \in DOMAIN b /\ a[k].parent \in 0 .. k - 1
      BY <2>2 DEF Parents
    <3>2. Chain(a, k) = {k} \cup Chain(a, a[k].parent) /\ Chain(b, k) = {k} \cup Chain(b, b[k].parent)
      BY <3>1, ChainStep
    <3> QED BY <1>1, <3>1, <3>2
  <2> QED BY <2>1, <2>2
<1> HIDE DEF S
<1>2. \A k \in 0 .. n : k \in S
  BY ONLY <1>1, LineInduction, n \in Nat
<1> QED BY <1>2 DEF S

\* A record has on its ancestry all lines back to the last selection of a branch.
LEMMA ChainReaches ==
  ASSUME NEW ls, Len(ls) \in Nat, DOMAIN ls = 1 .. Len(ls), Parents(ls),
         NEW c \in DOMAIN ls, NEW i \in DOMAIN ls, c <= i,
         \A s \in c + 1 .. i : ls[s].parent = s - 1
  PROVE  \A x \in c .. i : x \in Chain(ls, i)
<1> DEFINE S == {k \in 0 .. i : k >= c => \A x \in c .. k : x \in Chain(ls, k)}
<1>1. ASSUME NEW k \in 0 .. i, \A j \in 0 .. k - 1 : j \in S PROVE k \in S
  <2> SUFFICES ASSUME k >= c PROVE \A x \in c .. k : x \in Chain(ls, k)
    OBVIOUS
  <2>1. k \in DOMAIN ls /\ Chain(ls, k) = {k} \cup Chain(ls, ls[k].parent)
    BY ChainStep
  <2>2. CASE k = c
    BY <2>1, <2>2
  <2>3. CASE k > c
    <3>1. ls[k].parent = k - 1 /\ k - 1 \in 0 .. k - 1 /\ k - 1 >= c
      BY <2>3
    <3>2. \A x \in c .. k - 1 : x \in Chain(ls, k - 1)
      BY <1>1, <3>1
    <3> QED BY <2>1, <3>1, <3>2
  <2> QED BY <2>2, <2>3
<1> HIDE DEF S
<1>2. \A k \in 0 .. i : k \in S
  <2>1. i \in Nat
    OBVIOUS
  <2> QED BY ONLY <1>1, <2>1, LineInduction
<1>3. i \in S
  BY <1>2
<1> QED BY <1>3 DEF S

-----------------------------------------------------------------------------
(* What the records of a journal mean together.                            *)

Grown(ls, i) ==
  /\ IF ls[i].kind = "selected" THEN ls[i].parent \in 0 .. i - 1 ELSE ls[i].parent = i - 1
  /\ ls[i].kind = "compacted" => Compaction(ls, i)

\* What a record of each kind follows from, and the records that do not come in
\* between: no branch goes off while a run or a call is open, and no message at
\* which a compaction could cut stands between a call and its answer.
Before(kind) == CASE kind = "terminal" -> "accepted" [] kind = "intent" -> "call"
                  [] kind = "result" -> "intent" [] OTHER -> "result"
Trace == {"call", "intent", "result", "answer"}
Bound == {"terminal", "intent", "result", "answer"}
ToolCuts == {"selected", "user", "compacted"}
Cuts(kind) == IF kind = "terminal" THEN {"selected"} ELSE ToolCuts

Uncut(ls, a, n, kinds) == \A s \in a + 1 .. n : ls[s].kind \notin kinds
Follows(ls, kind, run, n) ==
  \E a \in 1 .. n : /\ ls[a].kind = Before(kind) /\ ls[a].run = run
                    /\ Uncut(ls, a, n, Cuts(kind))
Linked(ls, i) == ls[i].kind \in Bound => Follows(ls, ls[i].kind, ls[i].run, i - 1)

Ended(ls, n, kind, end) ==
  \A x \in 1 .. n : ls[x].kind = kind => \E y \in 1 .. n : ls[y].kind = end /\ ls[y].run = ls[x].run
ToolsEnded(ls, n) == Ended(ls, n, "intent", "result") /\ Ended(ls, n, "result", "answer")
Settles(ls, i) ==
  /\ ls[i].kind \in ToolCuts => ToolsEnded(ls, i - 1)
  /\ ls[i].kind = "selected" => Ended(ls, i - 1, "accepted", "terminal")

Coherent(ls) == \A i \in DOMAIN ls : Grown(ls, i) /\ Linked(ls, i) /\ Settles(ls, i)

LEMMA CoherentTree == \A ls \in Seq(Recs) : Coherent(ls) => Parents(ls)
<1> TAKE ls \in Seq(Recs)
<1> HAVE Coherent(ls)
<1>1. ASSUME NEW i \in DOMAIN ls PROVE ls[i].parent \in 0 .. i - 1
  <2>1. i \in Nat \ {0}
    OBVIOUS
  <2>2. Grown(ls, i)
    BY DEF Coherent
  <2> QED BY <2>1, <2>2 DEF Grown
<1> QED BY <1>1 DEF Parents

\* What is said of a line depends on the lines up to it.
LEMMA LineAgrees ==
  ASSUME NEW a \in Seq(Recs), NEW b \in Seq(Recs), Parents(a), Parents(b),
         NEW n \in 1 .. Len(a), n <= Len(b), \A i \in 1 .. n : a[i] = b[i],
         Grown(a, n), Linked(a, n), Settles(a, n)
  PROVE  Grown(b, n) /\ Linked(b, n) /\ Settles(b, n)
<1>0. n \in Nat \ {0} /\ a[n] = b[n] /\ Len(a) \in Nat /\ Len(b) \in Nat
      /\ DOMAIN a = 1 .. Len(a) /\ DOMAIN b = 1 .. Len(b)
  OBVIOUS
<1>1. Grown(b, n)
  <2>1. ASSUME b[n].kind = "compacted" PROVE Compaction(b, n)
    <3> DEFINE s == a[n].parent
               p == a[s].parent
    <3>1. Compaction(a, n) /\ s = n - 1
      BY <1>0, <2>1 DEF Grown
    <3>2. s > 0 /\ a[s].kind = "summary" /\ a[n].keep \in Chain(a, p) /\ a[a[n].keep].kind = "user"
      BY <3>1 DEF Compaction, Boundary
    <3>3. s \in 1 .. n /\ b[s] = a[s] /\ b[n] = a[n] /\ p \in 0 .. s - 1
      BY <1>0, <3>1, <3>2 DEF Parents
    <3> HIDE DEF s, p
    <3>4. p \in 0 .. n /\ p \in 0 .. Len(a)
      BY <1>0, <3>1, <3>3
    <3>5. Chain(a, p) = Chain(b, p) /\ Chain(a, p) \subseteq 1 .. p
      BY <1>0, <3>4, ChainAgrees, ChainOrder
    <3>6. a[n].keep \in 1 .. n
      BY <3>2, <3>4, <3>5
    <3>7. b[n].parent = s /\ b[s].parent = p
      BY <3>3 DEF s, p
    <3> QED BY <3>2, <3>3, <3>5, <3>6, <3>7 DEF Compaction, Boundary
  <2> QED BY <1>0, <2>1 DEF Grown
<1>2. \A i \in 1 .. n - 1 : a[i] = b[i]
  BY <1>0
<1>3. Linked(b, n)
  <2> SUFFICES ASSUME b[n].kind \in Bound
               PROVE  \E x \in 1 .. n - 1 : /\ b[x].kind = Before(b[n].kind) /\ b[x].run = b[n].run
                                            /\ Uncut(b, x, n - 1, Cuts(b[n].kind))
    BY DEF Linked, Follows
  <2>1. PICK x \in 1 .. n - 1 : /\ a[x].kind = Before(a[n].kind) /\ a[x].run = a[n].run
                                /\ Uncut(a, x, n - 1, Cuts(a[n].kind))
    BY <1>0 DEF Linked, Follows
  <2>2. Uncut(b, x, n - 1, Cuts(b[n].kind))
    BY <1>0, <1>2, <2>1 DEF Uncut
  <2> QED BY <1>0, <1>2, <2>1, <2>2
<1>4. \A k, e : Ended(a, n - 1, k, e) => Ended(b, n - 1, k, e)
  BY <1>2 DEF Ended
<1>5. Settles(b, n)
  BY <1>0, <1>4 DEF Settles, ToolsEnded
<1> QED BY <1>1, <1>3, <1>5

LEMMA PrefixCoherent ==
  ASSUME NEW a \in Seq(Recs), Coherent(a), NEW b \in Seq(Recs), Len(b) <= Len(a),
         \A i \in 1 .. Len(b) : a[i] = b[i]
  PROVE  Coherent(b)
<1>1. Parents(a)
  BY CoherentTree
<1>2. \A i \in DOMAIN b : i \in DOMAIN a /\ i \in Nat /\ b[i] = a[i]
  OBVIOUS
<1>3. Parents(b)
  BY <1>1, <1>2 DEF Parents
<1>4. ASSUME NEW n \in DOMAIN b PROVE Grown(b, n) /\ Linked(b, n) /\ Settles(b, n)
  <2>1. n \in 1 .. Len(a) /\ n <= Len(b) /\ \A i \in 1 .. n : a[i] = b[i]
    OBVIOUS
  <2>2. Grown(a, n) /\ Linked(a, n) /\ Settles(a, n)
    BY <1>2 DEF Coherent
  <2> QED BY <1>1, <1>3, <2>1, <2>2, LineAgrees
<1> QED BY <1>4 DEF Coherent

\* Valid, which every writer checks of the whole file, makes it a tree.
LEMMA ValidGrows ==
  ASSUME NEW ls \in Seq(Recs), Valid(ls), NEW i \in DOMAIN ls
  PROVE  Grown(ls, i)
BY DEF Valid, Grown

\* One more record.
LEMMA AddRecord ==
  ASSUME NEW ls \in Seq(Recs), Coherent(ls), NEW r \in Recs,
         IF r.kind \in {"selected", "compacted"} THEN Valid(Append(ls, r)) ELSE r.parent = Len(ls),
         r.kind \in Bound => Follows(ls, r.kind, r.run, Len(ls)),
         r.kind \in ToolCuts => ToolsEnded(ls, Len(ls)),
         r.kind = "selected" => Ended(ls, Len(ls), "accepted", "terminal")
  PROVE  Coherent(Append(ls, r))
<1> DEFINE b == Append(ls, r)
           n == Len(ls) + 1
<1>1. /\ b \in Seq(Recs) /\ Len(b) = n /\ b[n] = r /\ Len(ls) \in Nat /\ n \in Nat /\ n - 1 = Len(ls)
      /\ n \in DOMAIN b /\ DOMAIN b = 1 .. n /\ DOMAIN ls = 1 .. Len(ls)
      /\ \A i \in 1 .. Len(ls) : ls[i] = b[i]
  OBVIOUS
<1>2. Grown(b, n)
  <2>1. CASE r.kind \in {"selected", "compacted"}
    BY <1>1, <2>1, ValidGrows
  <2>2. CASE r.kind \notin {"selected", "compacted"}
    <3> HIDE DEF b, n
    <3> QED BY <1>1, <2>2 DEF Grown
  <2> QED BY <2>1, <2>2
<1> HIDE DEF b, n
<1>3. Linked(b, n)
  <2> SUFFICES ASSUME r.kind \in Bound PROVE Follows(b, r.kind, r.run, Len(ls))
    BY <1>1 DEF Linked
  <2>1. PICK x \in 1 .. Len(ls) : /\ ls[x].kind = Before(r.kind) /\ ls[x].run = r.run
                                  /\ Uncut(ls, x, Len(ls), Cuts(r.kind))
    BY DEF Follows
  <2>2. Uncut(b, x, Len(ls), Cuts(r.kind))
    BY <1>1, <2>1 DEF Uncut
  <2> QED BY <1>1, <2>1, <2>2 DEF Follows
<1>4. \A k, e : Ended(ls, Len(ls), k, e) => Ended(b, Len(ls), k, e)
  BY <1>1 DEF Ended
<1>5. Settles(b, n)
  BY <1>1, <1>4 DEF Settles, ToolsEnded
<1>6. Parents(ls)
  BY CoherentTree
<1>7. Parents(b)
  <2>1. ASSUME NEW i \in DOMAIN b PROVE b[i].parent \in 0 .. i - 1
    <3>1. CASE i = n
      BY <1>1, <1>2, <3>1 DEF Grown
    <3>2. CASE i \in DOMAIN ls
      BY <1>1, <1>6, <3>2 DEF Parents
    <3> QED BY <1>1, <3>1, <3>2
  <2> QED BY <2>1 DEF Parents
<1>8. ASSUME NEW i \in DOMAIN b PROVE Grown(b, i) /\ Linked(b, i) /\ Settles(b, i)
  <2>1. CASE i = n
    BY <1>2, <1>3, <1>5, <2>1
  <2>2. CASE i \in 1 .. Len(ls)
    <3>1. Grown(ls, i) /\ Linked(ls, i) /\ Settles(ls, i)
      BY <1>1, <2>2 DEF Coherent
    <3>2. i <= Len(b) /\ \A j \in 1 .. i : ls[j] = b[j]
      BY <1>1, <2>2
    <3> QED BY <1>1, <1>6, <1>7, <2>2, <3>1, <3>2, LineAgrees
  <2> QED BY <1>1, <2>1, <2>2
<1> QED BY <1>8 DEF Coherent, b

\* A record of another kind leaves what is ended ended.
LEMMA EndedGrows ==
  ASSUME NEW ls \in Seq(Recs), NEW r \in Recs, NEW kind, NEW end, r.kind # kind,
         Ended(ls, Len(ls), kind, end)
  PROVE  Ended(Append(ls, r), Len(ls) + 1, kind, end)
<1> DEFINE b == Append(ls, r)
<1>1. /\ Len(ls) \in Nat /\ b[Len(ls) + 1] = r
      /\ \A i \in 1 .. Len(ls) : ls[i] = b[i]
  OBVIOUS
<1> HIDE DEF b
<1>2. ASSUME NEW x \in 1 .. Len(ls) + 1, b[x].kind = kind
      PROVE  \E y \in 1 .. Len(ls) + 1 : b[y].kind = end /\ b[y].run = b[x].run
  <2>1. x \in 1 .. Len(ls) /\ ls[x].kind = kind
    BY <1>1, <1>2
  <2>2. PICK y \in 1 .. Len(ls) : ls[y].kind = end /\ ls[y].run = ls[x].run
    BY <2>1 DEF Ended
  <2>3. y \in 1 .. Len(ls) + 1 /\ b[y] = ls[y] /\ b[x] = ls[x]
    BY <1>1, <2>1, <2>2
  <2> QED BY <2>2, <2>3
<1> QED BY <1>2 DEF Ended, b

LEMMA OfKindIs ==
  ASSUME NEW ls \in Seq(Recs), NEW kind, NEW run
  PROVE  run \in OfKind(ls, DOMAIN ls, kind) <=>
           \E i \in 1 .. Len(ls) : ls[i].kind = kind /\ ls[i].run = run
BY DEF OfKind

LEMMA NothingToRepair ==
  ASSUME NEW ls \in Seq(Recs), Repairs(ls) = {}
  PROVE  ToolsEnded(ls, Len(ls)) /\ Ended(ls, Len(ls), "accepted", "terminal")
<1> DEFINE D == DOMAIN ls
<1>1. /\ OfKind(ls, D, "intent") \subseteq OfKind(ls, D, "result")
      /\ OfKind(ls, D, "result") \subseteq OfKind(ls, D, "answer")
      /\ OfKind(ls, D, "accepted") \subseteq OfKind(ls, D, "terminal")
  <2> HIDE DEF D
  <2> QED BY DEF Repairs, D
<1>2. \A k, e : OfKind(ls, D, k) \subseteq OfKind(ls, D, e) => Ended(ls, Len(ls), k, e)
  <2> TAKE k, e
  <2> HAVE OfKind(ls, D, k) \subseteq OfKind(ls, D, e)
  <2>1. ASSUME NEW x \in 1 .. Len(ls), ls[x].kind = k
        PROVE  \E y \in 1 .. Len(ls) : ls[y].kind = e /\ ls[y].run = ls[x].run
    <3>1. ls[x].run \in OfKind(ls, D, k)
      BY <2>1, OfKindIs
    <3> QED BY <3>1, OfKindIs
  <2> QED BY <2>1 DEF Ended
<1> QED BY <1>1, <1>2 DEF ToolsEnded

\* A repair follows from the record it answers: what cuts in between had found it answered.
LEMMA RepairsFollow ==
  ASSUME NEW ls \in Seq(Recs), Coherent(ls), NEW r \in Repairs(ls)
  PROVE  /\ r.kind \in {"result", "answer", "terminal"}
         /\ Follows(ls, r.kind, r.run, Len(ls))
         /\ \E a \in 1 .. Len(ls) : ls[a].kind = Before(r.kind) /\ ls[a].run = r.run
<1> DEFINE D == DOMAIN ls
<1>1. PICK run : \/ /\ run \in OfKind(ls, D, "intent") \ OfKind(ls, D, "result")
                    /\ r = [kind |-> "result", run |-> run]
                 \/ /\ run \in OfKind(ls, D, "result") \ OfKind(ls, D, "answer")
                    /\ r = [kind |-> "answer", run |-> run]
                 \/ /\ run \in OfKind(ls, D, "accepted") \ OfKind(ls, D, "terminal")
                    /\ r = [kind |-> "terminal", run |-> run]
  BY DEF Repairs
<1>2. /\ r.kind \in {"result", "answer", "terminal"} /\ r.run = run
      /\ run \in OfKind(ls, D, Before(r.kind)) /\ run \notin OfKind(ls, D, r.kind)
  BY <1>1 DEF Before
<1> HIDE DEF D
<1>3. PICK a \in 1 .. Len(ls) : ls[a].kind = Before(r.kind) /\ ls[a].run = run
  BY <1>2, OfKindIs DEF D
<1>4. ASSUME NEW s \in a + 1 .. Len(ls), ls[s].kind \in Cuts(r.kind) PROVE FALSE
  <2>1. s \in 1 .. Len(ls) /\ a \in 1 .. s - 1 /\ s \in DOMAIN ls
    OBVIOUS
  <2>2. Settles(ls, s)
    BY <2>1 DEF Coherent
  <2>3. Ended(ls, s - 1, Before(r.kind), r.kind)
    BY <1>2, <1>4, <2>2 DEF Settles, ToolsEnded, Cuts, Before, ToolCuts
  <2>4. PICK y \in 1 .. s - 1 : ls[y].kind = r.kind /\ ls[y].run = run
    BY <1>3, <2>1, <2>3 DEF Ended
  <2>5. y \in 1 .. Len(ls)
    BY <2>1, <2>4
  <2> QED BY <1>2, <2>4, <2>5, OfKindIs DEF D
<1>5. Uncut(ls, a, Len(ls), Cuts(r.kind))
  BY <1>4 DEF Uncut
<1> QED BY <1>2, <1>3, <1>5 DEF Follows

LEMMA Greatest ==
  ASSUME NEW n \in Nat, NEW T, T \subseteq 0 .. n, T # {}
  PROVE  Max(T) \in T /\ \A x \in T : x <= Max(T)
<1> DEFINE U == {n - x : x \in T}
<1>1. U \subseteq Nat /\ U # {}
  <2>1. \A x \in T : n - x \in Nat
    <3> TAKE x \in T
    <3>1. x \in 0 .. n
      OBVIOUS
    <3> QED BY <3>1
  <2> QED BY <2>1
<1>2. PICK u \in U : \A m \in U : u <= m
  <2> HIDE DEF U
  <2> QED BY <1>1, Least
<1>3. PICK t \in T : u = n - t
  BY <1>2
<1>4. \A x \in T : t >= x
  <2> TAKE x \in T
  <2>1. n - x \in U /\ u <= n - x
    BY <1>2
  <2> QED BY <1>3, <2>1
<1>5. Max(T) \in T /\ \A x \in T : Max(T) >= x
  BY <1>4 DEF Max
<1> QED BY <1>5

\* Between a record and what it follows from the branch is the same.
LEMMA FollowedIsAncestor ==
  ASSUME NEW ls \in Seq(Recs), Coherent(ls), NEW a \in 1 .. Len(ls), NEW i \in 1 .. Len(ls), a <= i,
         Uncut(ls, a, i, {"selected"})
  PROVE  \A x \in a .. i : x \in Chain(ls, i)
<1>1. Parents(ls) /\ Len(ls) \in Nat /\ DOMAIN ls = 1 .. Len(ls)
  BY CoherentTree
<1>2. \A s \in a + 1 .. i : ls[s].parent = s - 1
  <2> TAKE s \in a + 1 .. i
  <2>1. s \in DOMAIN ls /\ ls[s].kind # "selected"
    BY DEF Uncut
  <2> QED BY <2>1 DEF Coherent, Grown
<1> QED BY <1>1, <1>2, ChainReaches

LEMMA ConcludedThere == \A ls \in Seq(Recs) : ls = lines /\ Coherent(ls) => ConcludedOnItsBranch
<1> SUFFICES ASSUME lines \in Seq(Recs), Coherent(lines), NEW i \in DOMAIN lines,
                    lines[i].kind \in {"terminal", "result", "answer"}
             PROVE  lines[i].run \in OfKind(lines, Chain(lines, i), Before(lines[i].kind))
  BY DEF ConcludedOnItsBranch, Before
<1>1. Linked(lines, i) /\ i \in Nat /\ Grown(lines, i)
  BY DEF Coherent
<1>2. PICK a \in 1 .. i - 1 : /\ lines[a].kind = Before(lines[i].kind) /\ lines[a].run = lines[i].run
                              /\ Uncut(lines, a, i - 1, Cuts(lines[i].kind))
  BY <1>1 DEF Linked, Follows, Bound
<1>3. Uncut(lines, a, i, {"selected"})
  <2>1. \A s \in a + 1 .. i : s = i \/ s \in a + 1 .. i - 1
    BY <1>1, <1>2
  <2>2. "selected" \in Cuts(lines[i].kind)
    BY DEF Cuts, ToolCuts
  <2> QED BY <1>2, <2>1, <2>2 DEF Uncut
<1>4. a \in Chain(lines, i)
  BY <1>1, <1>2, <1>3, FollowedIsAncestor
<1> QED BY <1>2, <1>4 DEF OfKind

\* A message of a tool has its call before it, with nothing in between at which
\* a branch goes off or a compaction begins or ends.
LEMMA CallBeforeAnswer ==
  ASSUME NEW ls \in Seq(Recs), Coherent(ls), NEW i \in 1 .. Len(ls), ls[i].kind = "answer"
  PROVE  \E c \in 1 .. i - 1 : /\ ls[c].kind = "call" /\ ls[c].run = ls[i].run
                               /\ Uncut(ls, c, i, ToolCuts)
<1>0. i \in Nat /\ Len(ls) \in Nat
  OBVIOUS
<1>1. \A x \in 1 .. Len(ls) : Linked(ls, x)
  BY DEF Coherent
<1>2. PICK b \in 1 .. i - 1 : ls[b].kind = "result" /\ ls[b].run = ls[i].run /\ Uncut(ls, b, i - 1, ToolCuts)
  BY <1>1 DEF Linked, Follows, Bound, Before, Cuts
<1>3. b \in 1 .. Len(ls) /\ b \in Nat
  BY <1>0
<1>4. PICK d \in 1 .. b - 1 : ls[d].kind = "intent" /\ ls[d].run = ls[b].run /\ Uncut(ls, d, b - 1, ToolCuts)
  BY <1>1, <1>2, <1>3 DEF Linked, Follows, Bound, Before, Cuts
<1>5. d \in 1 .. Len(ls) /\ d \in Nat
  BY <1>0, <1>3
<1>6. PICK c \in 1 .. d - 1 : ls[c].kind = "call" /\ ls[c].run = ls[d].run /\ Uncut(ls, c, d - 1, ToolCuts)
  BY <1>1, <1>4, <1>5 DEF Linked, Follows, Bound, Before, Cuts
<1>7. Uncut(ls, c, i, ToolCuts)
  <2> SUFFICES ASSUME NEW s \in c + 1 .. i PROVE ls[s].kind \notin ToolCuts
    BY DEF Uncut
  <2>1. \/ s \in c + 1 .. d - 1 \/ s = d \/ s \in d + 1 .. b - 1 \/ s = b \/ s \in b + 1 .. i - 1 \/ s = i
    BY <1>0, <1>3, <1>5, <1>6
  <2>2. \A k \in {"intent", "result", "answer"} : k \notin ToolCuts
    BY DEF ToolCuts
  <2> QED BY <1>2, <1>4, <1>6, <2>1, <2>2 DEF Uncut
<1>8. c \in 1 .. i - 1
  BY <1>0, <1>3, <1>5
<1> QED BY <1>2, <1>4, <1>6, <1>7, <1>8

LEMMA NoOrphans == \A ls \in Seq(Recs) : ls = lines /\ Coherent(ls) => NoOrphanResult
<1> SUFFICES ASSUME lines \in Seq(Recs), Coherent(lines) PROVE NoOrphanResult
  OBVIOUS
<1> DEFINE n == Len(lines)
           chain == Chain(lines, n)
           cuts == {i \in chain : lines[i].kind = "compacted"}
           cut == Max(cuts)
           summary == lines[cut].parent
           kept == {i \in Chain(lines, lines[summary].parent) : i >= lines[cut].keep}
           visible == IF cuts = {} THEN chain
                      ELSE {summary} \cup kept \cup {i \in chain : i > cut}
<1>1. Projection(lines) = {i \in visible : lines[i].kind \in Messages}
  BY DEF Projection
<1>2. n \in Nat /\ DOMAIN lines = 1 .. n /\ Parents(lines)
  BY CoherentTree
<1> HIDE DEF visible
<1> SUFFICES ASSUME NEW i \in visible, lines[i].kind = "answer"
             PROVE  \E c \in visible : lines[c].kind = "call" /\ lines[c].run = lines[i].run
  BY <1>1 DEF NoOrphanResult, OfKind, Messages
<1> HIDE DEF n, chain, cuts, cut, summary, kept
<1>3. /\ chain \subseteq 1 .. n /\ \A j \in chain : Chain(lines, j) \subseteq chain
  BY <1>2, ChainOrder DEF chain, n
\* The call is on every branch that the answer is on.
<1>4. ASSUME i \in 1 .. n
      PROVE  \E c \in 1 .. i - 1 : /\ lines[c].kind = "call" /\ lines[c].run = lines[i].run
                                   /\ Uncut(lines, c, i, ToolCuts) /\ c \in Chain(lines, i)
  <2>1. PICK c \in 1 .. i - 1 : /\ lines[c].kind = "call" /\ lines[c].run = lines[i].run
                                /\ Uncut(lines, c, i, ToolCuts)
    BY <1>4, CallBeforeAnswer DEF n
  <2>2. Uncut(lines, c, i, {"selected"}) /\ c \in 1 .. n /\ c <= i
    BY <1>2, <1>4, <2>1 DEF Uncut, ToolCuts
  <2>3. c \in Chain(lines, i)
    BY <1>2, <1>4, <2>2, FollowedIsAncestor DEF n
  <2> QED BY <2>1, <2>3
<1>5. CASE cuts = {}
  <2>1. visible = chain
    BY <1>5 DEF visible
  <2>2. i \in 1 .. n
    BY <1>3, <2>1
  <2>3. PICK c \in 1 .. i - 1 : /\ lines[c].kind = "call" /\ lines[c].run = lines[i].run
                                /\ c \in Chain(lines, i)
    BY <1>4, <2>2
  <2> QED BY <1>3, <2>1, <2>3
<1>6. CASE cuts # {}
  <2>1. cut \in cuts
    <3>1. cuts \subseteq 0 .. n
      <4>1. \A x \in 1 .. n : x \in 0 .. n
        BY <1>2
      <4>2. cuts \subseteq chain
        BY DEF cuts
      <4> QED BY <1>3, <4>1, <4>2
    <3> QED BY <1>2, <1>6, <3>1, Greatest DEF cut
  <2>2. cut \in chain /\ cut \in 1 .. n /\ lines[cut].kind = "compacted"
    BY <1>3, <2>1 DEF cuts
  <2>3. Compaction(lines, cut) /\ summary = cut - 1
    BY <1>2, <2>2 DEF Coherent, Grown, summary
  <2>4. /\ summary > 0 /\ lines[summary].kind = "summary"
        /\ lines[cut].keep \in Chain(lines, lines[summary].parent)
        /\ lines[lines[cut].keep].kind = "user"
    BY <2>3 DEF Compaction, Boundary, summary
  <2>5. visible = {summary} \cup kept \cup {j \in chain : j > cut}
    BY <1>6 DEF visible
  <2>6. summary \in 1 .. n /\ lines[summary].parent \in 0 .. n
    <3>1. summary \in 1 .. n
      BY <1>2, <2>2, <2>3, <2>4
    <3>2. lines[summary].parent \in 0 .. summary - 1
      BY <1>2, <3>1 DEF Parents
    <3> QED BY <1>2, <3>1, <3>2
  <2> DEFINE older == Chain(lines, lines[summary].parent)
  <2>7. older \subseteq 1 .. n /\ \A j \in older : Chain(lines, j) \subseteq older
    <3>1. older \subseteq 1 .. lines[summary].parent /\ \A j \in older : Chain(lines, j) \subseteq older
      BY <1>2, <2>6, ChainOrder DEF n
    <3> QED BY <1>2, <2>6, <3>1
  <2>8. CASE i \in kept
    <3>1. i \in older /\ i >= lines[cut].keep /\ i \in 1 .. n /\ lines[cut].keep \in 1 .. n
      BY <2>4, <2>7, <2>8 DEF kept
    <3>2. PICK c \in 1 .. i - 1 : /\ lines[c].kind = "call" /\ lines[c].run = lines[i].run
                                  /\ Uncut(lines, c, i, ToolCuts) /\ c \in Chain(lines, i)
      BY <1>4, <3>1
    <3>3. ~(lines[cut].keep \in c + 1 .. i)
      BY <2>4, <3>2 DEF Uncut, ToolCuts
    <3>4. c >= lines[cut].keep
      BY <3>1, <3>2, <3>3
    <3>5. c \in kept
      BY <2>7, <3>1, <3>2, <3>4 DEF kept
    <3> QED BY <2>5, <3>2, <3>5
  <2>9. CASE i \in chain /\ i > cut
    <3>1. i \in 1 .. n
      BY <1>3, <2>9
    <3>2. PICK c \in 1 .. i - 1 : /\ lines[c].kind = "call" /\ lines[c].run = lines[i].run
                                  /\ Uncut(lines, c, i, ToolCuts) /\ c \in Chain(lines, i)
      BY <1>4, <3>1
    <3>3. ~(cut \in c + 1 .. i)
      BY <2>2, <3>2 DEF Uncut, ToolCuts
    <3>4. c # cut
      BY <2>2, <3>2
    <3>5. c > cut /\ c \in chain
      BY <1>3, <2>2, <2>9, <3>1, <3>2, <3>3, <3>4
    <3> QED BY <2>5, <3>2, <3>5
  <2> QED BY <2>4, <2>5, <2>8, <2>9
<1> QED BY <1>5, <1>6

-----------------------------------------------------------------------------
(* The tree stays coherent, whoever appends.                               *)

\* The journal with the records that the append at hand has still to write.
Coming == lines \o (IF io.written THEN Tail(io.todo) ELSE io.todo)

FreshIn(ls, kinds) == \A i \in DOMAIN ls : ls[i].kind \in kinds => ls[i].run # op.run

\* Where the operation goes when its append is done.
NextStep ==
  CASE op.step = "act" -> IF op.name = "run" THEN "accept" ELSE "done"
    [] op.step = "accept" -> "live"
    [] op.step = "end" -> "done"
    [] OTHER -> op.step

HeaderFirst ==
  /\ header \in {"absent", "torn", "whole"}
  /\ op.step \notin {"none", "create"} => header = "whole"
  /\ op.step = "create" => header = "absent"
  /\ header # "whole" => lines = <<>>

\* Who selects, compacts or starts a run finds nothing open, and nobody else
\* appends before it does.
Opened ==
  /\ op.step = "act" /\ op.name # "upload" /\ io = NoIo => Repairs(lines) = {}
  /\ op.step \in {"accept", "live", "end"} => op.name = "run"
  /\ io # NoIo /\ io.by = "handler" =>
       op.step = "live" /\ \A j \in DOMAIN io.todo : io.todo[j].kind = "queued"
  /\ io # NoIo => io.todo # <<>> /\ (io.by = "handler" \/ (io.by = "op" /\ io.next = NextStep))

\* A run is new, and when it starts no call of another waits.
Opening_ == {"create", "backup", "truncate", "tail", "recover", "act"}
Starting(ls) ==
  /\ op.name = "run" /\ op.step \in Opening_ => FreshIn(ls, Trace \cup {"accepted"})
  /\ op.name = "run" /\ op.step = "act" => ToolsEnded(ls, Len(ls))
  /\ op.step = "accept" =>
       /\ FreshIn(ls, Trace) /\ ToolsEnded(ls, Len(ls))
       /\ io # NoIo => Follows(ls, "terminal", op.run, Len(ls))

\* While it is live its acceptance is on the branch.
Accepted(ls) ==
  op.step \in {"live", "end"} =>
    \E a \in DOMAIN lines : /\ lines[a].kind = "accepted" /\ lines[a].run = op.run
                            /\ Uncut(ls, a, Len(ls), {"selected"})

\* The calls of other runs are settled, and what came after its own call came
\* after the answer to it.
EndsElse(ls, kind, end) ==
  \A x \in DOMAIN ls : ls[x].run # op.run /\ ls[x].kind = kind =>
    \E y \in DOMAIN ls : ls[y].run = ls[x].run /\ ls[y].kind = end
Answered(ls) == \E y \in DOMAIN ls : ls[y].run = op.run /\ ls[y].kind = "answer"
OwnCall(ls) ==
  \A x, s \in DOMAIN ls :
    ls[x].run = op.run /\ ls[x].kind = "call" /\ s > x /\ ls[s].kind \in ToolCuts => Answered(ls)
Living(ls) ==
  op.step = "live" => EndsElse(ls, "intent", "result") /\ EndsElse(ls, "result", "answer") /\ OwnCall(ls)

TreeInv ==
  /\ HeaderFirst /\ Opened
  /\ Coherent(Coming) /\ Starting(Coming) /\ Accepted(Coming) /\ Living(Coming)

\* The types that the steps below need.
Typed ==
  /\ lines \in Seq(Recs) /\ Len(lines) \in Nat /\ io \in Ios /\ io.todo \in Seq(Recs)
  /\ op \in Ops /\ outages \in Nat /\ op.run \in Runs \cup {NoRun}

LEMMA JournalTyped == JournalInv => Typed
BY DEF JournalInv, JournalTypes, Typed, Ios, Ops

LEMMA NoIoIs == NoIo.todo = <<>> /\ ~NoIo.written /\ NoIo # [NoIo EXCEPT !.written = TRUE]
BY DEF NoIo

LEMMA ComingIdle == Typed /\ io = NoIo => Coming = lines
<1> SUFFICES ASSUME Typed, io = NoIo PROVE Coming = lines
  OBVIOUS
<1>1. lines \o <<>> = lines
  BY DEF Typed
<1> QED BY <1>1, NoIoIs DEF Coming

\* What is still to come begins with the journal as it is.
LEMMA ComingExtends ==
  ASSUME Typed, TreeInv
  PROVE  /\ Coming \in Seq(Recs) /\ Len(Coming) \in Nat /\ Len(lines) <= Len(Coming)
         /\ \A i \in 1 .. Len(lines) : Coming[i] = lines[i]
         /\ \A i \in Len(lines) + 1 .. Len(Coming) :
              \E j \in DOMAIN io.todo : Coming[i] = io.todo[j]
<1> DEFINE t == IF io.written THEN Tail(io.todo) ELSE io.todo
<1>1. /\ t \in Seq(Recs) /\ \A k \in DOMAIN t : \E j \in DOMAIN io.todo : t[k] = io.todo[j]
  <2>1. CASE io.written
    <3>1. io.todo # <<>>
      <4>1. io # NoIo
        BY <2>1, NoIoIs
      <4> QED BY <4>1 DEF TreeInv, Opened
    <3>2. /\ t = Tail(io.todo) /\ t \in Seq(Recs)
          /\ \A k \in DOMAIN t : k + 1 \in DOMAIN io.todo /\ t[k] = io.todo[k + 1]
      BY <2>1, <3>1 DEF Typed
    <3> QED BY <3>2
  <2>2. CASE ~io.written
    BY <2>2 DEF Typed
  <2> QED BY <2>1, <2>2
<1>2. Coming = lines \o t
  BY DEF Coming
<1> HIDE DEF t
<1>3. /\ Coming \in Seq(Recs) /\ Len(Coming) = Len(lines) + Len(t) /\ Len(t) \in Nat
      /\ \A i \in 1 .. Len(lines) : Coming[i] = lines[i]
      /\ \A i \in Len(lines) + 1 .. Len(Coming) : Coming[i] = t[i - Len(lines)]
  BY <1>1, <1>2 DEF Typed
<1>4. ASSUME NEW i \in Len(lines) + 1 .. Len(Coming)
      PROVE  \E j \in DOMAIN io.todo : Coming[i] = io.todo[j]
  <2>1. i - Len(lines) \in DOMAIN t
    BY <1>1, <1>3 DEF Typed
  <2> QED BY <1>1, <1>3, <2>1
<1> QED BY <1>3, <1>4 DEF Typed

LEMMA LinesCoherent == Typed /\ TreeInv => Coherent(lines)
<1> SUFFICES ASSUME Typed, TreeInv PROVE Coherent(lines)
  OBVIOUS
<1>1. Coherent(Coming) /\ lines \in Seq(Recs)
  BY DEF TreeInv, Typed
<1> QED BY <1>1, ComingExtends, PrefixCoherent

\* An append that begins with one record.
LEMMA ComingGrows ==
  ASSUME Typed, Typed', UNCHANGED lines, io = NoIo, NEW r \in Recs, io'.todo = <<r>>, ~io'.written
  PROVE  /\ Coming = lines /\ Coming' = Append(lines, r) /\ io' # NoIo
         /\ Len(Coming') = Len(lines) + 1 /\ Coming'[Len(lines) + 1] = r
         /\ \A i \in 1 .. Len(lines) : Coming'[i] = lines[i]
         /\ DOMAIN Coming' = 1 .. Len(lines) + 1
<1>1. Coming = lines
  BY ComingIdle
<1>2. Coming' = lines \o <<r>>
  BY DEF Coming
<1>3. lines \o <<r>> = Append(lines, r)
  BY DEF Typed
<1>4. io' # NoIo
  BY NoIoIs
<1>5. /\ Len(Append(lines, r)) = Len(lines) + 1 /\ Append(lines, r)[Len(lines) + 1] = r
      /\ \A i \in 1 .. Len(lines) : Append(lines, r)[i] = lines[i]
      /\ DOMAIN Append(lines, r) = 1 .. Len(lines) + 1
  BY DEF Typed
<1> QED BY <1>1, <1>2, <1>3, <1>4, <1>5

\* The records before the new one keep what is said of the run.
LEMMA FreshGrows ==
  ASSUME NEW ls \in Seq(Recs), NEW r \in Recs, NEW kinds, FreshIn(ls, kinds),
         r.kind \in kinds => r.run # op.run
  PROVE  FreshIn(Append(ls, r), kinds)
<1> DEFINE b == Append(ls, r)
<1>1. /\ DOMAIN b = 1 .. Len(ls) + 1 /\ b[Len(ls) + 1] = r /\ \A i \in 1 .. Len(ls) : b[i] = ls[i]
      /\ DOMAIN ls = 1 .. Len(ls) /\ Len(ls) \in Nat
  OBVIOUS
<1> HIDE DEF b
<1>2. ASSUME NEW i \in DOMAIN b PROVE b[i].kind \in kinds => b[i].run # op.run
  <2>1. i = Len(ls) + 1 \/ i \in 1 .. Len(ls)
    BY <1>1
  <2> QED BY <1>1, <2>1 DEF FreshIn
<1> QED BY <1>2 DEF FreshIn, b

LEMMA UncutGrows ==
  ASSUME NEW ls \in Seq(Recs), NEW r \in Recs, NEW a \in Nat, NEW kinds, Uncut(ls, a, Len(ls), kinds),
         r.kind \notin kinds
  PROVE  Uncut(Append(ls, r), a, Len(ls) + 1, kinds)
<1> DEFINE b == Append(ls, r)
<1>1. /\ b[Len(ls) + 1] = r /\ \A i \in 1 .. Len(ls) : b[i] = ls[i]
      /\ Len(ls) \in Nat
  OBVIOUS
<1> HIDE DEF b
<1>2. ASSUME NEW s \in a + 1 .. Len(ls) + 1 PROVE b[s].kind \notin kinds
  <2>1. s = Len(ls) + 1 \/ (s \in 1 .. Len(ls) /\ s \in a + 1 .. Len(ls))
    BY <1>1
  <2> QED BY <1>1, <2>1 DEF Uncut
<1> QED BY <1>2 DEF Uncut, b

LEMMA AppendBegins ==
  ASSUME Typed, Typed', TreeInv, UNCHANGED <<lines, op, header>>, io = NoIo,
         NEW r \in Recs, io'.todo = <<r>>, ~io'.written,
         \/ io'.by = "handler" /\ op.step = "live" /\ r.kind = "queued"
         \/ io'.by = "op" /\ io'.next = NextStep,
         Coherent(Append(lines, r)),
         op.name = "run" /\ op.step \in Opening_ => r.kind \notin Trace \cup {"accepted"} \/ r.run # op.run,
         op.name = "run" /\ op.step = "act" => r.kind \notin {"intent", "result"},
         op.step = "accept" => r.kind = "accepted" /\ r.run = op.run,
         op.step \in {"live", "end"} => r.kind # "selected",
         op.step = "live" => r.run = op.run /\ (r.kind \in ToolCuts => Answered(lines))
  PROVE  TreeInv'
<1> DEFINE b == Append(lines, r)
<1>1. /\ Coming = lines /\ Coming' = b /\ io' # NoIo
      /\ Len(b) = Len(lines) + 1 /\ b[Len(lines) + 1] = r /\ b \in Seq(Recs)
      /\ \A i \in 1 .. Len(lines) : b[i] = lines[i]
      /\ DOMAIN b = 1 .. Len(lines) + 1 /\ DOMAIN lines = 1 .. Len(lines)
      /\ lines \in Seq(Recs) /\ Len(lines) \in Nat
  BY ComingGrows DEF Typed
<1>2. HeaderFirst'
  BY DEF TreeInv, HeaderFirst
<1>3. Opened'
  <2>1. \A j \in DOMAIN <<r>> : <<r>>[j] = r
    OBVIOUS
  <2>2. <<r>> # <<>>
    OBVIOUS
  <2> QED BY <1>1, <2>1, <2>2 DEF TreeInv, Opened, NextStep
<1>4. \A kinds : FreshIn(lines, kinds) /\ (r.kind \in kinds => r.run # op.run) => FreshIn(b, kinds)
  BY <1>1, FreshGrows
<1>5. Starting(lines) /\ Accepted(lines) /\ Living(lines)
  BY <1>1 DEF TreeInv
<1>6. \A kind, end : r.kind # kind /\ Ended(lines, Len(lines), kind, end) => Ended(b, Len(b), kind, end)
  BY <1>1, EndedGrows
<1> HIDE DEF b
<1>7. ToolsEnded(lines, Len(lines)) /\ r.kind \notin {"intent", "result"} => ToolsEnded(b, Len(b))
  BY <1>6 DEF ToolsEnded
<1>8. Starting(b)'
  <2>1. op.name = "run" /\ op.step \in Opening_ => FreshIn(b, Trace \cup {"accepted"})
    BY <1>4, <1>5 DEF Starting
  <2>2. op.name = "run" /\ op.step = "act" => ToolsEnded(b, Len(b))
    BY <1>5, <1>7 DEF Starting
  <2>3. op.step = "accept" => FreshIn(b, Trace) /\ ToolsEnded(b, Len(b)) /\ Follows(b, "terminal", op.run, Len(b))
    <3> SUFFICES ASSUME op.step = "accept"
                 PROVE  FreshIn(b, Trace) /\ ToolsEnded(b, Len(b)) /\ Follows(b, "terminal", op.run, Len(b))
      OBVIOUS
    <3>1. r.kind = "accepted" /\ r.run = op.run /\ "accepted" \notin Trace
      BY DEF Trace
    <3>2. Uncut(b, Len(b), Len(b), Cuts("terminal"))
      BY <1>1 DEF Uncut
    <3>3. Follows(b, "terminal", op.run, Len(b))
      BY <1>1, <3>1, <3>2 DEF Follows, Before
    <3> QED BY <1>4, <1>5, <1>7, <3>1, <3>3 DEF Starting
  <2>4. b' = b
    BY DEF b
  <2>5. \A kinds : FreshIn(b, kinds) => FreshIn(b, kinds)'
    BY <2>4 DEF FreshIn
  <2> QED BY <2>1, <2>2, <2>3, <2>4, <2>5 DEF Starting
<1>9. Accepted(b)'
  <2> SUFFICES ASSUME op.step \in {"live", "end"}
               PROVE  \E a \in DOMAIN lines : /\ lines[a].kind = "accepted" /\ lines[a].run = op.run
                                              /\ Uncut(b, a, Len(b), {"selected"})
    BY DEF Accepted, b
  <2>1. PICK a \in DOMAIN lines : /\ lines[a].kind = "accepted" /\ lines[a].run = op.run
                                  /\ Uncut(lines, a, Len(lines), {"selected"})
    BY <1>5 DEF Accepted
  <2>2. Uncut(b, a, Len(lines) + 1, {"selected"})
    BY <1>1, <2>1, UncutGrows DEF b
  <2> QED BY <1>1, <2>1, <2>2
<1>10. Living(b)'
  <2> SUFFICES ASSUME op.step = "live"
               PROVE  EndsElse(b, "intent", "result") /\ EndsElse(b, "result", "answer") /\ OwnCall(b)
    BY DEF Living, EndsElse, OwnCall, Answered, b
  <2>1. EndsElse(lines, "intent", "result") /\ EndsElse(lines, "result", "answer") /\ OwnCall(lines)
    BY <1>5 DEF Living
  <2>2. \A kind, end : EndsElse(lines, kind, end) => EndsElse(b, kind, end)
    BY <1>1 DEF EndsElse
  <2>3. Answered(lines) => Answered(b)
    BY <1>1 DEF Answered
  <2>4. OwnCall(b)
    <3> SUFFICES ASSUME NEW x \in DOMAIN b, NEW s \in DOMAIN b, b[x].run = op.run, b[x].kind = "call",
                        s > x, b[s].kind \in ToolCuts
                 PROVE  Answered(b)
      BY DEF OwnCall
    <3>1. CASE s = Len(lines) + 1
      BY <1>1, <2>3, <3>1
    <3>2. CASE s \in 1 .. Len(lines)
      <4>1. x \in DOMAIN lines /\ s \in DOMAIN lines
        BY <1>1, <3>2
      <4> QED BY <1>1, <2>1, <2>3, <4>1 DEF OwnCall
    <3> QED BY <1>1, <3>1, <3>2
  <2> QED BY <2>1, <2>2, <2>4
<1> QED BY <1>1, <1>2, <1>3, <1>8, <1>9, <1>10 DEF TreeInv, b

LEMMA RecordFields ==
  ASSUME NEW ls, NEW kind, NEW run
  PROVE  /\ Record(ls, kind, run).kind = kind /\ Record(ls, kind, run).run = run
         /\ Record(ls, kind, run).parent = Len(ls)
BY DEF Record

\* An append of a record that extends the head.
LEMMA RecordBegins ==
  ASSUME Typed, Typed', TreeInv, UNCHANGED <<lines, op, header>>, io = NoIo,
         NEW kind \in RecKinds \ {"selected", "compacted"}, NEW run \in Runs \cup {NoRun},
         io'.todo = <<Record(lines, kind, run)>>, ~io'.written,
         \/ io'.by = "handler" /\ op.step = "live" /\ kind = "queued"
         \/ io'.by = "op" /\ io'.next = NextStep,
         kind \in Bound => Follows(lines, kind, run, Len(lines)),
         kind = "user" => ToolsEnded(lines, Len(lines)),
         op.name = "run" /\ op.step \in Opening_ => kind \notin Trace \cup {"accepted"} \/ run # op.run,
         op.name = "run" /\ op.step = "act" => kind \notin {"intent", "result"},
         op.step = "accept" => kind = "accepted" /\ run = op.run,
         op.step = "live" => run = op.run /\ (kind = "user" => Answered(lines))
  PROVE  TreeInv'
<1> DEFINE r == Record(lines, kind, run)
<1>1. r \in Recs /\ r.kind = kind /\ r.run = run /\ r.parent = Len(lines)
  BY RecordTyped, RecordFields DEF Typed
<1>2. io'.todo = <<r>>
  OBVIOUS
<1> HIDE DEF r
<1>3. kind \in ToolCuts => kind = "user"
  BY DEF ToolCuts
<1>4. Coherent(lines) /\ lines \in Seq(Recs)
  BY LinesCoherent DEF Typed
<1>5. Coherent(Append(lines, r))
  BY <1>1, <1>3, <1>4, AddRecord
<1> QED BY <1>1, <1>2, <1>3, <1>5, AppendBegins

LEMMA BeginIs ==
  ASSUME NEW by, NEW records, NEW next, Begin(by, records, next)
  PROVE  /\ io = NoIo /\ io'.todo = records /\ ~io'.written /\ io'.by = by /\ io'.next = next
         /\ Valid(lines \o records)
BY DEF Begin

\* The operation moves, the journal and the append stay.
LEMMA OperationMoves ==
  ASSUME Typed, TreeInv, UNCHANGED <<lines, io>>, HeaderFirst',
         op'.step \notin {"accept", "live"},
         op'.step = "act" /\ op'.name # "upload" /\ io = NoIo => Repairs(lines) = {},
         op'.step = "end" => op'.name = "run" /\ Accepted(Coming)',
         io = NoIo,
         op'.name = "run" /\ op'.step \in Opening_ => FreshIn(lines, Trace \cup {"accepted"})'
  PROVE  TreeInv'
<1>1. Coming' = Coming /\ Coming = lines
  BY ComingIdle DEF Coming
<1>2. Opened'
  BY DEF Opened
<1>3. Coherent(Coming')
  BY <1>1 DEF TreeInv
<1>4. op'.name = "run" /\ op'.step = "act" => ToolsEnded(lines, Len(lines))
  BY NothingToRepair DEF Typed
<1>5. Starting(Coming)'
  BY <1>1, <1>4 DEF Starting
<1>6. Living(Coming)'
  BY DEF Living
<1>7. Accepted(Coming)'
  BY DEF Accepted
<1> QED BY <1>2, <1>3, <1>5, <1>6, <1>7 DEF TreeInv

\* Going from one step of the opening to the next the operation is the same.
LEMMA GoesSame ==
  ASSUME NEW s, op \in Ops, Goto(s)
  PROVE  /\ s # "done" => op'.step = s /\ op'.name = op.name /\ op'.run = op.run
         /\ s = "done" => op' = NoOp
BY DEF Goto, Ops

\* An operation that is over leaves nothing to say of it.
LEMMA OperationEnds ==
  ASSUME Typed, Typed', TreeInv, op' = NoOp, io' = NoIo,
         Len(lines') <= Len(Coming), \A i \in 1 .. Len(lines') : lines'[i] = Coming[i],
         header' \in {"absent", "torn", "whole"}, header' # "whole" => lines' = <<>>
  PROVE  TreeInv'
<1>1. op'.step = "none" /\ op'.name = "none"
  BY DEF NoOp
<1>2. Coming' = lines'
  <2>1. (Typed /\ io = NoIo => Coming = lines)'
    BY ComingIdle, PTL
  <2> QED BY <2>1
<1>3. Coherent(lines')
  BY PrefixCoherent, ComingExtends DEF TreeInv, Typed
<1>4. HeaderFirst' /\ Opened'
  BY <1>1 DEF HeaderFirst, Opened
<1>5. Starting(Coming)' /\ Accepted(Coming)' /\ Living(Coming)'
  BY <1>1 DEF Starting, Accepted, Living, Opening_
<1> QED BY <1>2, <1>3, <1>4, <1>5 DEF TreeInv

LEMMA NoneAppends == JournalInv /\ op.step \in {"none", "create", "backup", "truncate"} => io = NoIo
BY DEF JournalInv, AppendsAtWork

LEMMA TreeOpens ==
  ASSUME JournalInv, JournalInv', TreeInv,
         Request \/ CreateSession \/ PublishBackup \/ TruncateTail \/ TailDone \/ RecoverInterrupted
  PROVE  TreeInv'
<1>0. Typed /\ Typed'
  <2>1. (JournalInv => Typed)'
    BY JournalTyped, PTL
  <2> QED BY JournalTyped, <2>1
<1>1. CASE Request
  <2>1. PICK name, run, client, aim : /\ Open(name, run, client, aim)
                                      /\ name = "run" => \A i \in DOMAIN lines : lines[i].run # run
    <3>1. CASE \E r \in Runs : ~(\E i \in DOMAIN lines : lines[i].run = r) /\ Open("run", r, NoRun, 0)
      BY <3>1
    <3>2. CASE \E c \in Clients :
                 \/ Open("get", NoRun, c, 0)
                 \/ /\ Controls < MaxControls
                    /\ \E name \in {"select", "compact"}, aim \in 1 .. seen[c].line : Open(name, NoRun, c, aim)
      <4>1. \A name \in {"select", "compact"} : name # "run"
        OBVIOUS
      <4>2. "get" # "run"
        OBVIOUS
      <4> QED BY <3>2, <4>1, <4>2
    <3>3. CASE Extras < MaxExtras /\ Open("upload", NoRun, NoRun, 0)
      BY <3>3
    <3> QED BY <1>1, <3>1, <3>2, <3>3 DEF Request
  <2>2. /\ op = NoOp /\ header # "torn" /\ UNCHANGED <<header, lines, io>>
        /\ op'.name = name /\ op'.run = run
        /\ op'.step = CASE header = "absent" -> "create" [] header = "whole" /\ tail # 0 -> "backup" [] OTHER -> Settled(name)
    BY <2>1 DEF Open
  <2>3. io = NoIo
    BY <2>2, NoneAppends DEF NoOp
  <2>4. HeaderFirst'
    <3>0. header # "torn" /\ HeaderFirst
      BY <2>2 DEF TreeInv
    <3>1. header \in {"absent", "whole"} /\ (header # "whole" => lines = <<>>)
      BY ONLY <3>0 DEF HeaderFirst
    <3>2. header = "absent" => op'.step = "create"
      BY <2>2
    <3>3. header = "whole" => op'.step \in {"backup", "act", "recover"}
      <4>1. header = "whole" => op'.step = IF tail # 0 THEN "backup" ELSE Settled(name)
        BY <2>2
      <4>2. Settled(name) \in {"act", "recover"}
        BY DEF Settled
      <4> HIDE DEF Settled
      <4> QED BY <4>1, <4>2
    <3>4. header' = header /\ lines' = lines
      BY <2>2
    <3> QED BY ONLY <3>1, <3>2, <3>3, <3>4 DEF HeaderFirst
  <2>5. /\ op'.step \in {"create", "backup", "act", "recover"}
        /\ op'.step = "act" => name = "upload" \/ Repairs(lines) = {}
    BY <2>2 DEF Settled
  <2>6. op'.name = "run" => FreshIn(lines, Trace \cup {"accepted"})'
    BY <2>1, <2>2 DEF FreshIn
  <2> QED BY <1>0, <2>2, <2>3, <2>4, <2>5, <2>6, OperationMoves
<1>2. CASE CreateSession
  <2>1. /\ op.step = "create" /\ UNCHANGED <<lines, io>> /\ lines = <<>>
        /\ \/ header' = "whole" /\ Goto("act")
           \/ UNCHANGED header /\ Goto("done")
    BY <1>2 DEF CreateSession, TreeInv, HeaderFirst
  <2>2. io = NoIo
    BY <2>1, <1>0, NoneAppends
  <2>3. HeaderFirst' /\ op'.step \in {"act", "none"}
    BY <1>0, <2>1, GoesSame DEF TreeInv, HeaderFirst, Typed, NoOp
  <2>4. Repairs(lines) = {}
    BY <2>1 DEF Repairs, OfKind
  <2>5. FreshIn(lines, Trace \cup {"accepted"})'
    BY <2>1 DEF FreshIn
  <2> QED BY <1>0, <2>1, <2>2, <2>3, <2>4, <2>5, OperationMoves
<1>3. CASE PublishBackup
  <2>1. op.step = "backup" /\ UNCHANGED <<lines, io, header>> /\ Goto("truncate")
    BY <1>3 DEF PublishBackup
  <2>2. io = NoIo /\ op'.step = "truncate" /\ op'.name = op.name /\ op'.run = op.run
    BY <2>1, <1>0, NoneAppends, GoesSame DEF Typed
  <2>3. HeaderFirst'
    BY <2>1, <2>2 DEF TreeInv, HeaderFirst
  <2>4. op'.name = "run" => FreshIn(lines, Trace \cup {"accepted"})'
    BY <1>0, <2>1, <2>2, ComingIdle DEF TreeInv, Starting, FreshIn, Opening_
  <2> QED BY <1>0, <2>1, <2>2, <2>3, <2>4, OperationMoves
<1>4. CASE TruncateTail
  <2>1. /\ op.step = "truncate" /\ UNCHANGED <<lines, header>> /\ Goto("tail")
        /\ io'.todo = <<Record(lines, "note", NoRun)>> /\ ~io'.written /\ io'.by = "op" /\ io'.next = "tail"
    BY <1>4 DEF TruncateTail
  <2>2. io = NoIo /\ op'.step = "tail" /\ op'.name = op.name /\ op'.run = op.run
    BY <2>1, <1>0, NoneAppends, GoesSame DEF Typed
  <2> DEFINE r == Record(lines, "note", NoRun)
  <2>3. r \in Recs /\ r.kind = "note" /\ r.parent = Len(lines) /\ io'.todo = <<r>>
    BY <1>0, <2>1, RecordTyped, RecordFields, KindsTyped DEF Typed
  <2> HIDE DEF r
  <2>4. /\ Coming = lines /\ Coming' = Append(lines, r) /\ io' # NoIo
    BY <1>0, <2>1, <2>2, <2>3, ComingGrows
  <2>5. Coherent(Append(lines, r))
    <3>1. Coherent(lines) /\ lines \in Seq(Recs)
      BY <1>0, LinesCoherent DEF Typed
    <3>2. "note" \notin Bound /\ "note" \notin ToolCuts
      BY DEF Bound, ToolCuts
    <3> QED BY <2>3, <3>1, <3>2, AddRecord
  <2>6. HeaderFirst'
    BY <2>1, <2>2 DEF TreeInv, HeaderFirst
  <2>7. Opened'
    BY <2>1, <2>2, <2>3 DEF Opened, NextStep
  <2>8. op.name = "run" => FreshIn(Append(lines, r), Trace \cup {"accepted"})
    <3>1. op.name = "run" => FreshIn(lines, Trace \cup {"accepted"})
      BY <2>1, <2>4 DEF TreeInv, Starting, Opening_
    <3>2. "note" \notin Trace \cup {"accepted"}
      BY DEF Trace
    <3> QED BY <1>0, <2>3, <3>1, <3>2, FreshGrows DEF Typed
  <2>9. Starting(Coming)'
    BY <2>2, <2>4, <2>8 DEF Starting, FreshIn
  <2>10. Accepted(Coming)' /\ Living(Coming)'
    BY <2>2 DEF Accepted, Living
  <2> QED BY <2>4, <2>5, <2>6, <2>7, <2>9, <2>10 DEF TreeInv
<1>5. CASE TailDone
  <2>1. op.step = "tail" /\ io = NoIo /\ UNCHANGED <<lines, io, header>> /\ Goto(Settled(op.name))
    BY <1>5 DEF TailDone
  <2>2. /\ op'.step \in {"act", "recover"} /\ op'.name = op.name /\ op'.run = op.run
        /\ op'.step = "act" => op.name = "upload" \/ Repairs(lines) = {}
    BY <2>1, <1>0, GoesSame DEF Settled, Typed
  <2>3. HeaderFirst'
    BY <2>1, <2>2 DEF TreeInv, HeaderFirst
  <2>4. op'.name = "run" => FreshIn(lines, Trace \cup {"accepted"})'
    BY <1>0, <2>1, <2>2, ComingIdle DEF TreeInv, Starting, FreshIn, Opening_
  <2> QED BY <1>0, <2>1, <2>2, <2>3, <2>4, OperationMoves
<1>6. CASE RecoverInterrupted
  <2>1. op.step = "recover" /\ UNCHANGED <<lines, header>>
    BY <1>6 DEF RecoverInterrupted
  <2>2. CASE io = NoIo /\ Repairs(lines) = {} /\ Goto("act") /\ UNCHANGED io
    <3>1. op'.step = "act" /\ op'.name = op.name /\ op'.run = op.run
      BY <1>0, <2>2, GoesSame DEF Typed
    <3>2. HeaderFirst'
      BY <2>1, <3>1 DEF TreeInv, HeaderFirst
    <3>3. op'.name = "run" => FreshIn(lines, Trace \cup {"accepted"})'
      BY <1>0, <2>1, <2>2, <3>1, ComingIdle DEF TreeInv, Starting, FreshIn, Opening_
    <3> QED BY <1>0, <2>1, <2>2, <3>1, <3>2, <3>3, OperationMoves
  <2>3. ASSUME NEW r \in Repairs(lines), UNCHANGED op,
               Begin("op", <<Record(lines, r.kind, r.run)>>, "recover")
        PROVE  TreeInv'
    <3>1. /\ io = NoIo /\ io'.todo = <<Record(lines, r.kind, r.run)>> /\ ~io'.written
          /\ io'.by = "op" /\ io'.next = NextStep
      BY <2>1, <2>3, BeginIs DEF NextStep
    <3>2. Coherent(lines) /\ lines \in Seq(Recs)
      BY <1>0, LinesCoherent DEF Typed
    <3>3. /\ r.kind \in {"result", "answer", "terminal"} /\ Follows(lines, r.kind, r.run, Len(lines))
          /\ \E a \in 1 .. Len(lines) : lines[a].kind = Before(r.kind) /\ lines[a].run = r.run
          /\ r.kind \in RecKinds /\ r.run \in Runs \cup {NoRun}
      BY <3>2, RepairsFollow, RepairsTyped
    <3>4. op.name = "run" => r.run # op.run
      <4>1. op.name = "run" => FreshIn(lines, Trace \cup {"accepted"})
        BY <1>0, <2>1, <3>1, ComingIdle DEF TreeInv, Starting, Opening_
      <4>2. Before(r.kind) \in Trace \cup {"accepted"}
        BY <3>3 DEF Before, Trace
      <4> QED BY <1>0, <3>3, <4>1, <4>2 DEF FreshIn, Typed
    <3> QED BY <1>0, <2>1, <2>3, <3>1, <3>3, <3>4, RecordBegins
  <2> QED BY <1>6, <2>2, <2>3 DEF RecoverInterrupted
<1> QED BY <1>1, <1>2, <1>3, <1>4, <1>5, <1>6

LEMMA TreeStutters == ASSUME TreeInv, UNCHANGED <<header, lines, op, io>> PROVE TreeInv'
<1>1. Coming' = Coming
  BY DEF Coming
<1>2. HeaderFirst' /\ Opened'
  BY DEF TreeInv, HeaderFirst, Opened, NextStep
<1>3. Starting(Coming)' /\ Accepted(Coming)' /\ Living(Coming)'
  BY <1>1 DEF TreeInv, Starting, Accepted, Living, EndsElse, OwnCall, Answered, FreshIn
<1> QED BY <1>1, <1>2, <1>3 DEF TreeInv

LEMMA OverIdle ==
  ASSUME Typed, Typed', TreeInv, io = NoIo, Goto("done"), UNCHANGED <<header, lines, io>>
  PROVE  TreeInv'
<1>1. op' = NoOp
  BY DEF Goto
<1>2. Len(lines') <= Len(Coming) /\ \A i \in 1 .. Len(lines') : lines'[i] = Coming[i]
  BY ComingExtends
<1>3. header' \in {"absent", "torn", "whole"} /\ (header' # "whole" => lines' = <<>>)
  BY DEF TreeInv, HeaderFirst
<1> QED BY <1>1, <1>2, <1>3, OperationEnds

\* A record of a bound kind is there because the one it follows from is.
LEMMA BoundAfter ==
  ASSUME NEW ls \in Seq(Recs), Coherent(ls), NEW i \in DOMAIN ls, ls[i].kind \in Bound
  PROVE  \E a \in DOMAIN ls : ls[a].kind = Before(ls[i].kind) /\ ls[a].run = ls[i].run
<1>1. PICK a \in 1 .. i - 1 : ls[a].kind = Before(ls[i].kind) /\ ls[a].run = ls[i].run
  BY DEF Coherent, Linked, Follows
<1>2. a \in DOMAIN ls
  OBVIOUS
<1> QED BY <1>1, <1>2

\* A result or an answer still owed is not cut off from what it answers.
LEMMA OwedFollows ==
  ASSUME NEW ls \in Seq(Recs), Coherent(ls), NEW kind \in {"result", "answer"}, NEW a \in DOMAIN ls,
         ls[a].kind = Before(kind),
         ~ \E y \in DOMAIN ls : ls[y].kind = kind /\ ls[y].run = ls[a].run
  PROVE  Follows(ls, kind, ls[a].run, Len(ls))
<1>1. ASSUME NEW s \in a + 1 .. Len(ls), ls[s].kind \in ToolCuts PROVE FALSE
  <2>1. s \in DOMAIN ls /\ a \in 1 .. s - 1
    OBVIOUS
  <2>2. ToolsEnded(ls, s - 1)
    BY <1>1, <2>1 DEF Coherent, Settles
  <2>3. Ended(ls, s - 1, Before(kind), kind)
    BY <2>2 DEF ToolsEnded, Before
  <2>4. PICK y \in 1 .. s - 1 : ls[y].kind = kind /\ ls[y].run = ls[a].run
    BY <2>1, <2>3 DEF Ended
  <2>5. y \in DOMAIN ls
    BY <2>1
  <2> QED BY <2>4, <2>5
<1>2. Uncut(ls, a, Len(ls), Cuts(kind)) /\ a \in 1 .. Len(ls)
  BY <1>1 DEF Uncut, Cuts
<1> QED BY <1>2 DEF Follows

\* The records of the task itself.
LEMMA TaskFollows ==
  ASSUME Typed, TreeInv, io = NoIo, op.step = "live", NEW kind \in TaskRecords
  PROVE  /\ kind \in Bound => Follows(lines, kind, op.run, Len(lines))
         /\ kind = "user" => ToolsEnded(lines, Len(lines)) /\ Answered(lines)
<1>0. /\ lines \in Seq(Recs) /\ Coherent(lines) /\ DOMAIN lines = 1 .. Len(lines) /\ Len(lines) \in Nat
      /\ EndsElse(lines, "intent", "result") /\ EndsElse(lines, "result", "answer") /\ OwnCall(lines)
  BY ComingIdle, LinesCoherent DEF TreeInv, Living, Typed
<1>1. ASSUME NEW k \in {"result", "answer"}, Did(k) PROVE Did(Before(k))
  <2>1. PICK i \in DOMAIN lines : lines[i].kind = k /\ lines[i].run = op.run
    BY <1>1 DEF Did
  <2> QED BY <1>0, <2>1, BoundAfter DEF Bound, Did
<1>2. /\ Before("result") = "intent" /\ Before("answer") = "result" /\ Before("intent") = "call"
  BY DEF Before
<1>3. CASE kind = "call"
  BY <1>3 DEF Bound
<1>4. CASE kind = "intent"
  <2>1. ~Did("intent") /\ Did("call")
    BY <1>4 DEF TaskRecords, After
  <2>2. PICK x \in DOMAIN lines : lines[x].kind = "call" /\ lines[x].run = op.run
    BY <2>1 DEF Did
  <2>3. ~Answered(lines)
    BY <1>1, <1>2, <2>1 DEF Answered, Did
  <2>4. ASSUME NEW s \in x + 1 .. Len(lines), lines[s].kind \in ToolCuts PROVE FALSE
    <3>1. s \in DOMAIN lines /\ s > x
      BY <1>0
    <3> QED BY <1>0, <2>2, <2>3, <2>4, <3>1 DEF OwnCall
  <2>5. Uncut(lines, x, Len(lines), Cuts("intent")) /\ x \in 1 .. Len(lines)
    BY <1>0, <2>4 DEF Uncut, Cuts
  <2> QED BY <1>2, <1>4, <2>2, <2>5 DEF Follows
<1>5. CASE kind \in {"result", "answer"}
  <2>1. ~Did(kind) /\ Did(Before(kind))
    BY <1>2, <1>5 DEF TaskRecords, After
  <2>2. PICK a \in DOMAIN lines : lines[a].kind = Before(kind) /\ lines[a].run = op.run
    BY <2>1 DEF Did
  <2>3. ~ \E y \in DOMAIN lines : lines[y].kind = kind /\ lines[y].run = lines[a].run
    BY <2>1, <2>2 DEF Did
  <2> QED BY <1>0, <1>5, <2>2, <2>3, OwedFollows
<1>6. CASE kind = "user"
  <2>1. Did("answer") /\ Did("result")
    BY <1>1, <1>2, <1>6 DEF TaskRecords, After
  <2>2. \A k, e : EndsElse(lines, k, e) /\ Did(e) => Ended(lines, Len(lines), k, e)
    BY <1>0 DEF EndsElse, Did, Ended
  <2>3. ToolsEnded(lines, Len(lines))
    BY <1>0, <2>1, <2>2 DEF ToolsEnded
  <2> QED BY <1>6, <2>1, <2>3 DEF Bound, Answered, Did
<1> QED BY <1>3, <1>4, <1>5, <1>6 DEF TaskRecords, After

LEMMA SelectionFields ==
  ASSUME lines \in Seq(Recs), outages \in Nat, op.aim \in Nat, seen[op.client] = Head_(lines)
  PROVE  /\ Selection \in Recs /\ Selection.kind = "selected"
         /\ Summary \in Recs /\ Summary.kind = "summary" /\ Summary.parent = Len(lines)
         /\ Compacted \in Recs /\ Compacted.kind = "compacted"
<1>1. /\ Record(lines, "selected", NoRun) \in Recs /\ Record(lines, "summary", NoRun) \in Recs
      /\ Head_(lines) \in Points
  BY RecordTyped, HeadTyped, KindsTyped
<1>2. Selection \in Recs /\ Selection.kind = "selected"
  <2> DEFINE R == Record(lines, "selected", NoRun)
  <2>1. R \in Recs /\ R.kind = "selected"
    BY <1>1, RecordFields
  <2>2. Selection = [R EXCEPT !.parent = op.aim, !.basis = Head_(lines)]
    BY DEF Selection
  <2> HIDE DEF R
  <2> QED BY <1>1, <2>1, <2>2 DEF Recs
<1>3. Summary \in Recs /\ Summary.kind = "summary" /\ Summary.parent = Len(lines)
  BY <1>1, RecordFields DEF Summary, Recs
<1>4. Append(lines, Summary) \in Seq(Recs)
  BY <1>3
<1> DEFINE R == Record(Append(lines, Summary), "compacted", NoRun)
<1>5. R \in Recs /\ R.kind = "compacted"
  <2>1. R \in Recs
    BY <1>4, RecordTyped, KindsTyped
  <2>2. R.kind = "compacted"
    BY RecordFields
  <2> QED BY <2>1, <2>2
<1>6. Compacted = [R EXCEPT !.keep = op.aim, !.basis = Head_(lines)]
  BY DEF Compacted
<1> HIDE DEF R
<1>7. Compacted \in Recs /\ Compacted.kind = "compacted"
  BY <1>1, <1>5, <1>6 DEF Recs
<1> QED BY <1>2, <1>3, <1>7

LEMMA TreeWorks ==
  ASSUME JournalInv, JournalInv', TreeInv,
         \/ Snapshot \/ SelectBranch \/ CompactContext \/ Upload
         \/ AcceptRun \/ RunStep \/ EndTask \/ EndRun \/ HandlerAppend
         \/ \E c \in Clients : Observe(c)
  PROVE  TreeInv'
<1>0. Typed /\ Typed'
  <2>1. (JournalInv => Typed)'
    BY JournalTyped, PTL
  <2> QED BY JournalTyped, <2>1
<1>1. /\ lines \in Seq(Recs) /\ Coherent(lines) /\ outages \in Nat /\ Len(lines) \in Nat
      /\ op \in Ops /\ op.aim \in Nat /\ op.run \in Runs \cup {NoRun}
  BY <1>0, LinesCoherent DEF Typed, Ops
<1>2. CASE Snapshot
  <2>1. io = NoIo
    BY <1>2 DEF Snapshot, JournalInv, AppendsAtWork
  <2> QED BY <1>0, <1>2, <2>1, OverIdle DEF Snapshot
<1>3. CASE SelectBranch
  <2>1. CASE Goto("done") /\ UNCHANGED io
    BY <1>0, <1>3, <2>1, OverIdle DEF SelectBranch
  <2>2. CASE Begin("op", <<Selection>>, "done") /\ UNCHANGED op /\ seen[op.client] = Head_(lines)
    <3>1. /\ op.name = "select" /\ op.step = "act" /\ UNCHANGED <<header, lines, op>>
      BY <1>3, <2>2 DEF SelectBranch
    <3>2. /\ io = NoIo /\ io'.todo = <<Selection>> /\ ~io'.written /\ io'.by = "op" /\ io'.next = NextStep
          /\ Valid(lines \o <<Selection>>)
      BY <2>2, <3>1, BeginIs DEF NextStep
    <3>3. Selection \in Recs /\ Selection.kind = "selected"
      BY <1>1, <2>2, SelectionFields
    <3>4. lines \o <<Selection>> = Append(lines, Selection)
      BY <1>1, <3>3
    <3>5. ToolsEnded(lines, Len(lines)) /\ Ended(lines, Len(lines), "accepted", "terminal")
      BY <1>1, <3>1, <3>2, NothingToRepair DEF TreeInv, Opened
    <3>6. Coherent(Append(lines, Selection))
      BY <1>1, <3>2, <3>3, <3>4, <3>5, AddRecord DEF Bound
    <3> QED BY <1>0, <3>1, <3>2, <3>3, <3>6, AppendBegins
  <2> QED BY <1>3, <2>1, <2>2 DEF SelectBranch
<1>4. CASE CompactContext
  <2>1. CASE Goto("done") /\ UNCHANGED io
    BY <1>0, <1>4, <2>1, OverIdle DEF CompactContext
  <2>2. CASE Begin("op", <<Summary, Compacted>>, "done") /\ UNCHANGED op /\ seen[op.client] = Head_(lines)
    <3> DEFINE one == Append(lines, Summary)
               two == Append(one, Compacted)
    <3>1. /\ op.name = "compact" /\ op.step = "act" /\ UNCHANGED <<header, lines, op>>
      BY <1>4, <2>2 DEF CompactContext
    <3>2. /\ io = NoIo /\ io'.todo = <<Summary, Compacted>> /\ ~io'.written /\ io'.by = "op"
          /\ io'.next = "done" /\ Valid(lines \o <<Summary, Compacted>>)
      BY <2>2, BeginIs
    <3>3. /\ Summary \in Recs /\ Summary.kind = "summary" /\ Summary.parent = Len(lines)
          /\ Compacted \in Recs /\ Compacted.kind = "compacted"
      BY <1>1, <2>2, SelectionFields
    <3>4. lines \o <<Summary, Compacted>> = two /\ one \in Seq(Recs) /\ Len(one) = Len(lines) + 1
      BY <1>1, <3>3
    <3>5. ToolsEnded(lines, Len(lines))
      BY <1>1, <3>1, <3>2, NothingToRepair DEF TreeInv, Opened
    <3>6. ToolsEnded(one, Len(one))
      <4>1. Summary.kind # "intent" /\ Summary.kind # "result"
        BY <3>3
      <4> QED BY <1>1, <3>3, <3>4, <3>5, <4>1, EndedGrows DEF ToolsEnded
    <3>7. Coherent(one)
      BY <1>1, <3>3, AddRecord DEF Bound, ToolCuts
    <3> HIDE DEF one
    <3>8. Coherent(two)
      BY <3>2, <3>3, <3>4, <3>6, <3>7, AddRecord DEF Bound
    <3>9. Coming' = two
      BY <3>1, <3>2, <3>4 DEF Coming
    <3> HIDE DEF two
    <3>10. HeaderFirst'
      BY <3>1 DEF TreeInv, HeaderFirst
    <3>11. io'.todo # <<>>
      <4>1. <<Summary, Compacted>> # <<>>
        OBVIOUS
      <4> QED BY <3>2, <4>1
    <3>12. io' # NoIo
      BY <3>11, NoIoIs
    <3>13. Opened'
      BY <3>1, <3>2, <3>11, <3>12 DEF Opened, NextStep
    <3>14. Starting(Coming)' /\ Accepted(Coming)' /\ Living(Coming)'
      BY <3>1 DEF Starting, Accepted, Living
    <3> QED BY <3>8, <3>9, <3>10, <3>13, <3>14 DEF TreeInv
  <2> QED BY <1>4, <2>1, <2>2 DEF CompactContext
<1>5. CASE Upload
  <2>1. /\ op.name = "upload" /\ op.step = "act" /\ UNCHANGED <<header, lines, op>>
        /\ Begin("op", <<Record(lines, "artifact", NoRun)>>, "done")
    BY <1>5 DEF Upload
  <2>2. /\ io = NoIo /\ io'.todo = <<Record(lines, "artifact", NoRun)>> /\ ~io'.written
        /\ io'.by = "op" /\ io'.next = NextStep
    BY <2>1, BeginIs DEF NextStep
  <2>3. "artifact" \in RecKinds \ {"selected", "compacted"} /\ "artifact" \notin Bound
    BY DEF RecKinds, Bound
  <2> QED BY <1>0, <2>1, <2>2, <2>3, KindsTyped, RecordBegins
<1>6. CASE AcceptRun
  <2>1. /\ op.name = "run" /\ UNCHANGED <<header, lines, op>>
    BY <1>6 DEF AcceptRun
  <2>2. CASE op.step = "act" /\ Begin("op", <<Record(lines, "user", op.run)>>, "accept")
    <3>1. /\ io = NoIo /\ io'.todo = <<Record(lines, "user", op.run)>> /\ ~io'.written
          /\ io'.by = "op" /\ io'.next = NextStep
      BY <2>1, <2>2, BeginIs DEF NextStep
    <3>2. /\ "user" \in RecKinds \ {"selected", "compacted"} /\ "user" \notin Bound
          /\ "user" \notin Trace \cup {"accepted"}
      BY DEF RecKinds, Bound, Trace
    <3>3. ToolsEnded(lines, Len(lines))
      BY <1>0, <2>1, <2>2, <3>1, ComingIdle DEF TreeInv, Starting
    <3> QED BY <1>0, <1>1, <2>1, <2>2, <3>1, <3>2, <3>3, RecordBegins
  <2>3. CASE op.step = "accept" /\ Begin("op", <<Record(lines, "accepted", op.run)>>, "live")
    <3>1. /\ io = NoIo /\ io'.todo = <<Record(lines, "accepted", op.run)>> /\ ~io'.written
          /\ io'.by = "op" /\ io'.next = NextStep
      BY <2>1, <2>3, BeginIs DEF NextStep
    <3>2. /\ "accepted" \in RecKinds \ {"selected", "compacted"} /\ "accepted" \notin Bound
          /\ op.step \notin Opening_
      BY <2>3 DEF RecKinds, Bound, Opening_
    <3> QED BY <1>0, <1>1, <2>1, <2>3, <3>1, <3>2, RecordBegins
  <2> QED BY <1>6, <2>2, <2>3 DEF AcceptRun
<1>7. CASE RunStep
  <2>1. /\ op.name = "run" /\ op.step = "live" /\ UNCHANGED <<header, lines, op>>
    BY <1>7 DEF RunStep
  <2>2. PICK k \in TaskRecords : Begin("op", <<Record(lines, k, op.run)>>, "live")
    BY <1>7 DEF RunStep
  <2>3. /\ io = NoIo /\ io'.todo = <<Record(lines, k, op.run)>> /\ ~io'.written
        /\ io'.by = "op" /\ io'.next = NextStep
    BY <2>1, <2>2, BeginIs DEF NextStep
  <2>4. k \in RecKinds \ {"selected", "compacted"}
    <3>1. k \in {"call", "intent", "result", "answer", "user"}
      BY DEF TaskRecords, After
    <3> QED BY ONLY <3>1 DEF RecKinds
  <2>5. /\ k \in Bound => Follows(lines, k, op.run, Len(lines))
        /\ k = "user" => ToolsEnded(lines, Len(lines)) /\ Answered(lines)
    BY <1>0, <2>1, <2>3, TaskFollows
  <2>6. op.step \notin Opening_ /\ op.step # "accept" /\ op.step # "act"
    BY <2>1 DEF Opening_
  <2> QED BY <1>0, <1>1, <2>1, <2>3, <2>4, <2>5, <2>6, RecordBegins
<1>8. CASE EndTask
  <2>1. /\ op.name = "run" /\ op.step = "live" /\ io = NoIo /\ Goto("end")
        /\ UNCHANGED <<header, lines, io>>
    BY <1>8 DEF EndTask
  <2>2. op'.step = "end" /\ op'.name = op.name /\ op'.run = op.run
    BY <1>1, <2>1, GoesSame
  <2>3. HeaderFirst'
    BY <2>1, <2>2 DEF TreeInv, HeaderFirst
  <2>4. Accepted(Coming)'
    <3>1. Coming' = Coming
      BY <2>1 DEF Coming
    <3> QED BY <2>1, <2>2, <3>1 DEF TreeInv, Accepted
  <2>5. op'.step \notin Opening_
    BY <2>2 DEF Opening_
  <2> QED BY <1>0, <2>1, <2>2, <2>3, <2>4, <2>5, OperationMoves
<1>9. CASE EndRun
  <2>1. /\ op.name = "run" /\ op.step = "end" /\ UNCHANGED <<header, lines>>
    BY <1>9 DEF EndRun
  <2>2. CASE Refused /\ UNCHANGED io /\ Goto("done")
    BY <1>0, <2>1, <2>2, OverIdle DEF Refused
  <2>3. CASE Begin("op", <<Record(lines, "terminal", op.run)>>, "done") /\ UNCHANGED op
    <3>1. /\ io = NoIo /\ io'.todo = <<Record(lines, "terminal", op.run)>> /\ ~io'.written
          /\ io'.by = "op" /\ io'.next = NextStep
      BY <2>1, <2>3, BeginIs DEF NextStep
    <3>2. Accepted(lines)
      BY <1>0, <3>1, ComingIdle DEF TreeInv
    <3>3. PICK a \in DOMAIN lines : /\ lines[a].kind = "accepted" /\ lines[a].run = op.run
                                    /\ Uncut(lines, a, Len(lines), {"selected"})
      BY <2>1, <3>2 DEF Accepted
    <3>4. Follows(lines, "terminal", op.run, Len(lines))
      BY <1>1, <3>3 DEF Follows, Before, Cuts
    <3>5. "terminal" \in RecKinds \ {"selected", "compacted"} /\ op.step \notin Opening_
      BY <2>1 DEF RecKinds, Opening_
    <3> QED BY <1>0, <1>1, <2>1, <2>3, <3>1, <3>4, <3>5, RecordBegins
  <2> QED BY <1>9, <2>2, <2>3 DEF EndRun
<1>10. CASE HandlerAppend
  <2>1. /\ op.name = "run" /\ op.step = "live" /\ UNCHANGED <<header, lines, op>>
        /\ Begin("handler", <<Record(lines, "queued", op.run)>>, "live")
    BY <1>10 DEF HandlerAppend
  <2>2. /\ io = NoIo /\ io'.todo = <<Record(lines, "queued", op.run)>> /\ ~io'.written
        /\ io'.by = "handler"
    BY <2>1, BeginIs
  <2>3. /\ "queued" \in RecKinds \ {"selected", "compacted"} /\ "queued" \notin Bound
        /\ op.step \notin Opening_ /\ op.step # "act" /\ op.step # "accept"
    BY <2>1 DEF RecKinds, Bound, Opening_
  <2> QED BY <1>0, <1>1, <2>1, <2>2, <2>3, RecordBegins
<1>11. ASSUME NEW c \in Clients, Observe(c) PROVE TreeInv'
  BY <1>11, TreeStutters DEF Observe
<1> QED BY <1>2, <1>3, <1>4, <1>5, <1>6, <1>7, <1>8, <1>9, <1>10, <1>11

\* Who appends has a whole header.
LEMMA AppendsToWhole == ASSUME JournalInv, TreeInv, io # NoIo PROVE header = "whole"
BY DEF JournalInv, AppendsAtWork, TreeInv, HeaderFirst

\* The appended line is written, or synced with more to come: what comes is the same.
LEMMA SameComing ==
  ASSUME Typed, Typed', TreeInv, header = "whole", io # NoIo, io' # NoIo, Coming' = Coming,
         UNCHANGED <<header, op>>, io'.by = io.by, io'.next = io.next, io'.todo # <<>>,
         \A j \in DOMAIN io'.todo : \E k \in DOMAIN io.todo : io'.todo[j] = io.todo[k],
         \A i \in DOMAIN lines : i \in DOMAIN lines' /\ lines'[i] = lines[i]
  PROVE  TreeInv'
<1>1. HeaderFirst'
  BY DEF TreeInv, HeaderFirst
<1>2. Opened'
  <2>1. NextStep' = NextStep
    BY DEF NextStep
  <2>2. io.by = "handler" => op.step = "live" /\ \A j \in DOMAIN io'.todo : io'.todo[j].kind = "queued"
    BY DEF TreeInv, Opened
  <2> QED BY <2>1, <2>2 DEF TreeInv, Opened
<1>3. Starting(Coming)' /\ Living(Coming)'
  BY DEF TreeInv, Starting, Living, EndsElse, OwnCall, Answered, FreshIn
<1>4. Accepted(Coming)'
  BY DEF TreeInv, Accepted
<1> QED BY <1>1, <1>2, <1>3, <1>4 DEF TreeInv

\* The append is over, and nothing more comes.
LEMMA SeqEnds == \A s \in Seq(Recs) : Len(s) <= 1 /\ s # <<>> => lines \o Tail(s) = lines \o <<>>
<1> TAKE s \in Seq(Recs)
<1> HAVE Len(s) <= 1 /\ s # <<>>
<1>1. Tail(s) = <<>>
  OBVIOUS
<1> QED BY <1>1

LEMMA LastSynced ==
  ASSUME JournalInv, Typed, Typed', TreeInv, header = "whole", io # NoIo, io' = NoIo, Coming = lines,
         UNCHANGED <<header, lines>>,
         IF io.by = "op" THEN Goto(io.next) ELSE UNCHANGED op
  PROVE  TreeInv'
<1>1. Coming' = lines
  <2>1. (Typed /\ io = NoIo => Coming = lines)'
    BY ComingIdle, PTL
  <2> QED BY <2>1
<1>2. /\ Coherent(lines) /\ Starting(lines) /\ Accepted(lines) /\ Living(lines) /\ Opened /\ HeaderFirst
      /\ DOMAIN lines = 1 .. Len(lines)
  BY DEF TreeInv, Typed
<1>3. CASE io.by # "op"
  <2>1. UNCHANGED op /\ op.step = "live"
    BY <1>2, <1>3 DEF Opened
  <2>2. HeaderFirst' /\ Opened'
    BY <1>2, <2>1 DEF HeaderFirst, Opened
  <2>3. Starting(lines)' /\ Accepted(lines)' /\ Living(lines)'
    BY <1>2, <2>1 DEF Starting, Accepted, Living, EndsElse, OwnCall, Answered, FreshIn
  <2> QED BY <1>1, <1>2, <2>2, <2>3 DEF TreeInv
<1>4. CASE io.by = "op"
  <2>1. Goto(NextStep)
    BY <1>2, <1>4 DEF Opened
  <2>2. CASE NextStep = "done"
    <3>1. op' = NoOp
      BY <2>1, <2>2 DEF Goto
    <3>2. Len(lines') <= Len(Coming) /\ \A i \in 1 .. Len(lines') : lines'[i] = Coming[i]
      BY DEF Typed
    <3> QED BY <3>1, <3>2, OperationEnds
  <2>3. CASE NextStep # "done"
    <3>1. op'.step = NextStep /\ op'.name = op.name /\ op'.run = op.run
      BY <2>1, <2>3, GoesSame DEF Typed
    <3>2. /\ op.step \in {"tail", "recover", "act", "accept", "live", "end"}
          /\ op.step # "end" /\ (op.step = "act" => op.name = "run")
      BY <2>3 DEF JournalInv, AppendsAtWork, NextStep
    <3>3. /\ op.step = "tail" => op'.step = "tail"
          /\ op.step = "recover" => op'.step = "recover"
          /\ op.step = "act" => op'.step = "accept"
          /\ op.step = "accept" => op'.step = "live"
          /\ op.step = "live" => op'.step = "live"
      BY <3>1, <3>2 DEF NextStep
    <3>4. /\ op'.step = "tail" => op.step = "tail"
          /\ op'.step = "recover" => op.step = "recover"
          /\ op'.step = "accept" => op.step = "act"
          /\ op'.step = "live" => op.step \in {"accept", "live"}
          /\ op'.step \in {"tail", "recover", "accept", "live"}
      BY ONLY <3>2, <3>3
    <3>5. HeaderFirst'
      BY <3>4 DEF HeaderFirst
    <3>6. Opened'
      BY <1>2, <3>1, <3>2, <3>4 DEF Opened
    <3>7. Starting(lines)'
      <4>1. op'.name = "run" /\ op'.step \in Opening_ => FreshIn(lines, Trace \cup {"accepted"})'
        <5>1. op'.step \in Opening_ => op.step \in Opening_
          BY <3>4 DEF Opening_
        <5> QED BY <1>2, <3>1, <5>1 DEF Starting, FreshIn
      <4>2. op'.step = "accept" => FreshIn(lines, Trace)' /\ ToolsEnded(lines, Len(lines))'
        <5> SUFFICES ASSUME op'.step = "accept"
                     PROVE  FreshIn(lines, Trace)' /\ ToolsEnded(lines, Len(lines))'
          OBVIOUS
        <5>1. op.name = "run" /\ op.step = "act" /\ op.step \in Opening_
          BY <3>2, <3>4 DEF Opening_
        <5>2. FreshIn(lines, Trace \cup {"accepted"}) /\ ToolsEnded(lines, Len(lines))
          BY <1>2, <5>1 DEF Starting
        <5>3. ToolsEnded(lines, Len(lines))'
          BY <5>2
        <5> QED BY <3>1, <5>2, <5>3 DEF FreshIn
      <4> QED BY <3>4, <4>1, <4>2 DEF Starting
    <3>8. Accepted(lines)'
      <4> SUFFICES ASSUME op'.step = "live"
                   PROVE  \E a \in DOMAIN lines : /\ lines[a].kind = "accepted" /\ lines[a].run = op.run
                                                  /\ Uncut(lines, a, Len(lines), {"selected"})
        BY <3>1, <3>4 DEF Accepted
      <4>1. CASE op.step = "accept"
        BY <1>2, <4>1 DEF Starting, Follows, Before, Cuts
      <4>2. CASE op.step = "live"
        BY <1>2, <4>2 DEF Accepted
      <4> QED BY <3>4, <4>1, <4>2
    <3>9. Living(lines)'
      <4> SUFFICES ASSUME op'.step = "live"
                   PROVE  EndsElse(lines, "intent", "result") /\ EndsElse(lines, "result", "answer") /\ OwnCall(lines)
        BY <3>1 DEF Living, EndsElse, OwnCall, Answered
      <4>1. CASE op.step = "accept"
        <5>1. FreshIn(lines, Trace) /\ ToolsEnded(lines, Len(lines))
          BY <1>2, <4>1 DEF Starting
        <5>2. EndsElse(lines, "intent", "result") /\ EndsElse(lines, "result", "answer")
          BY <1>2, <5>1 DEF ToolsEnded, Ended, EndsElse
        <5>3. OwnCall(lines)
          BY <5>1 DEF FreshIn, OwnCall, Trace
        <5> QED BY <5>2, <5>3
      <4>2. CASE op.step = "live"
        BY <1>2, <4>2 DEF Living
      <4> QED BY <3>4, <4>1, <4>2
    <3> QED BY <1>1, <1>2, <3>5, <3>6, <3>7, <3>8, <3>9 DEF TreeInv
  <2> QED BY <2>2, <2>3
<1> QED BY <1>3, <1>4

\* An append given up: what it had to come is not written any more.
LEMMA AppendGivenUp ==
  ASSUME JournalInv, Typed, Typed', TreeInv, header = "whole", io # NoIo, io' = NoIo,
         UNCHANGED <<header, lines>>,
         IF io.by = "op" THEN Goto(IF op.name = "run" /\ op.step = "live" THEN "end" ELSE "done")
         ELSE UNCHANGED op
  PROVE  TreeInv'
<1>1. Coming' = lines
  <2>1. (Typed /\ io = NoIo => Coming = lines)'
    BY ComingIdle, PTL
  <2> QED BY <2>1
<1>2. /\ Coherent(lines) /\ lines \in Seq(Recs) /\ Len(lines) \in Nat /\ Len(Coming) \in Nat
      /\ Len(lines) <= Len(Coming) /\ Coming \in Seq(Recs)
      /\ DOMAIN lines = 1 .. Len(lines) /\ DOMAIN Coming = 1 .. Len(Coming)
      /\ \A i \in 1 .. Len(lines) : Coming[i] = lines[i]
      /\ Accepted(Coming) /\ Living(Coming) /\ Opened /\ HeaderFirst
  BY LinesCoherent, ComingExtends DEF TreeInv, Typed
<1>3. \A a \in Nat : Uncut(Coming, a, Len(Coming), {"selected"}) => Uncut(lines, a, Len(lines), {"selected"})
  <2> TAKE a \in Nat
  <2> HAVE Uncut(Coming, a, Len(Coming), {"selected"})
  <2>1. ASSUME NEW s \in a + 1 .. Len(lines) PROVE lines[s].kind \notin {"selected"}
    <3>1. s \in a + 1 .. Len(Coming) /\ s \in 1 .. Len(lines)
      BY <1>2
    <3> QED BY <1>2, <3>1 DEF Uncut
  <2> QED BY <2>1 DEF Uncut
<1>4. Accepted(lines)
  <2> SUFFICES ASSUME op.step \in {"live", "end"}
               PROVE  \E a \in DOMAIN lines : /\ lines[a].kind = "accepted" /\ lines[a].run = op.run
                                              /\ Uncut(lines, a, Len(lines), {"selected"})
    BY DEF Accepted
  <2>1. PICK a \in DOMAIN lines : /\ lines[a].kind = "accepted" /\ lines[a].run = op.run
                                  /\ Uncut(Coming, a, Len(Coming), {"selected"})
    BY <1>2 DEF Accepted
  <2>2. a \in Nat
    BY <1>2
  <2> QED BY <1>3, <2>1, <2>2
<1>5. CASE io.by # "op"
  <2>1. UNCHANGED op /\ op.step = "live" /\ \A j \in DOMAIN io.todo : io.todo[j].kind = "queued"
    BY <1>2, <1>5 DEF Opened
  <2>2. HeaderFirst' /\ Opened'
    BY <1>2, <2>1 DEF HeaderFirst, Opened
  <2>3. \A i \in DOMAIN Coming : i \in DOMAIN lines \/ Coming[i].kind = "queued"
    <3> TAKE i \in DOMAIN Coming
    <3>1. i \in DOMAIN lines \/ i \in Len(lines) + 1 .. Len(Coming)
      BY <1>2
    <3> QED BY <2>1, <3>1, ComingExtends
  <2>4. \A k, e : e # "queued" /\ EndsElse(Coming, k, e) => EndsElse(lines, k, e)
    <3> TAKE k, e
    <3> HAVE e # "queued" /\ EndsElse(Coming, k, e)
    <3>1. ASSUME NEW x \in DOMAIN lines, lines[x].run # op.run, lines[x].kind = k
          PROVE  \E y \in DOMAIN lines : lines[y].run = lines[x].run /\ lines[y].kind = e
      <4>1. x \in DOMAIN Coming /\ Coming[x] = lines[x]
        BY <1>2
      <4>2. PICK y \in DOMAIN Coming : Coming[y].run = lines[x].run /\ Coming[y].kind = e
        BY <3>1, <4>1 DEF EndsElse
      <4>3. y \in DOMAIN lines /\ Coming[y] = lines[y]
        BY <1>2, <2>3, <4>2
      <4> QED BY <4>2, <4>3
    <3> QED BY <3>1 DEF EndsElse
  <2>5. Answered(Coming) => Answered(lines)
    <3> HAVE Answered(Coming)
    <3>1. PICK y \in DOMAIN Coming : Coming[y].run = op.run /\ Coming[y].kind = "answer"
      BY DEF Answered
    <3>2. y \in DOMAIN lines /\ Coming[y] = lines[y]
      BY <1>2, <2>3, <3>1
    <3> QED BY <3>1, <3>2 DEF Answered
  <2>6. Living(lines)
    <3>1. OwnCall(Coming) => OwnCall(lines)
      <4> SUFFICES ASSUME OwnCall(Coming), NEW x \in DOMAIN lines, NEW s \in DOMAIN lines,
                          lines[x].run = op.run, lines[x].kind = "call", s > x, lines[s].kind \in ToolCuts
                   PROVE  Answered(lines)
        BY DEF OwnCall
      <4>1. x \in DOMAIN Coming /\ s \in DOMAIN Coming /\ Coming[x] = lines[x] /\ Coming[s] = lines[s]
        BY <1>2
      <4> QED BY <2>5, <4>1 DEF OwnCall
    <3> QED BY <1>2, <2>4, <3>1 DEF Living
  <2>7. Starting(lines)' /\ Accepted(lines)' /\ Living(lines)'
    BY <1>4, <2>1, <2>6 DEF Starting, Accepted, Living, EndsElse, OwnCall, Answered, Opening_
  <2> QED BY <1>1, <1>2, <2>2, <2>7 DEF TreeInv
<1>6. CASE io.by = "op" /\ ~(op.name = "run" /\ op.step = "live")
  <2>1. op' = NoOp
    BY <1>6 DEF Goto
  <2>2. Len(lines') <= Len(Coming) /\ \A i \in 1 .. Len(lines') : lines'[i] = Coming[i]
    BY <1>2
  <2> QED BY <2>1, <2>2, OperationEnds
<1>7. CASE io.by = "op" /\ op.name = "run" /\ op.step = "live"
  <2>1. Goto("end")
    BY <1>7
  <2>2. op'.step = "end" /\ op'.name = "run" /\ op'.run = op.run
    BY <1>7, <2>1, GoesSame DEF Typed
  <2>3. HeaderFirst' /\ Opened'
    BY <2>2 DEF HeaderFirst, Opened
  <2>4. Starting(lines)' /\ Living(lines)'
    BY <2>2 DEF Starting, Living, Opening_
  <2>5. Accepted(lines)'
    BY <1>4, <1>7, <2>2 DEF Accepted
  <2> QED BY <1>1, <1>2, <2>3, <2>4, <2>5 DEF TreeInv
<1> QED BY <1>5, <1>6, <1>7

LEMMA Joined ==
  ASSUME NEW x \in Seq(Recs), NEW y \in Seq(Recs)
  PROVE  /\ x \o y \in Seq(Recs) /\ Len(x \o y) = Len(x) + Len(y)
         /\ \A i \in 1 .. Len(x) : (x \o y)[i] = x[i]
         /\ \A i \in 1 .. Len(y) : (x \o y)[Len(x) + i] = y[i]
OBVIOUS

LEMMA SameRecords ==
  ASSUME NEW x \in Seq(Recs), NEW y \in Seq(Recs), Len(x) = Len(y), \A i \in 1 .. Len(x) : x[i] = y[i]
  PROVE  x = y
OBVIOUS

\* Writing the first record of what is to come moves it to the journal.
LEMMA HeadMoves ==
  ASSUME NEW ls \in Seq(Recs), NEW t \in Seq(Recs), t # <<>>
  PROVE  Append(ls, Head(t)) \o Tail(t) = ls \o t
<1> DEFINE h == Head(t)
           a == Append(ls, h)
           b == Tail(t)
<1>1. /\ h \in Recs /\ h = t[1] /\ b \in Seq(Recs) /\ Len(b) = Len(t) - 1
      /\ \A i \in 1 .. Len(b) : b[i] = t[i + 1]
      /\ Len(t) \in Nat /\ Len(ls) \in Nat /\ Len(t) > 0
  OBVIOUS
<1>2. /\ a \in Seq(Recs) /\ Len(a) = Len(ls) + 1 /\ a[Len(ls) + 1] = h
      /\ \A i \in 1 .. Len(ls) : a[i] = ls[i]
  BY <1>1
<1> HIDE DEF h, a, b
<1>3. /\ a \o b \in Seq(Recs) /\ ls \o t \in Seq(Recs)
      /\ Len(a \o b) = Len(a) + Len(b) /\ Len(ls \o t) = Len(ls) + Len(t)
      /\ \A i \in 1 .. Len(a) : (a \o b)[i] = a[i]
      /\ \A i \in 1 .. Len(b) : (a \o b)[Len(a) + i] = b[i]
      /\ \A i \in 1 .. Len(ls) : (ls \o t)[i] = ls[i]
      /\ \A i \in 1 .. Len(t) : (ls \o t)[Len(ls) + i] = t[i]
  BY <1>1, <1>2, Joined
<1> DEFINE x == a \o b
           y == ls \o t
<1>4. ASSUME NEW i \in 1 .. Len(ls) + Len(t) PROVE x[i] = y[i]
  <2> HIDE DEF x, y
  <2>1. CASE i <= Len(ls)
    <3>1. i \in 1 .. Len(ls) /\ i \in 1 .. Len(a)
      BY <1>1, <1>2, <2>1
    <3>2. x[i] = a[i] /\ y[i] = ls[i]
      BY <1>3, <3>1 DEF x, y
    <3> QED BY <1>2, <3>1, <3>2
  <2>2. CASE i = Len(ls) + 1
    <3>1. x[i] = h
      BY <1>1, <1>2, <1>3, <2>2 DEF x
    <3>2. y[Len(ls) + 1] = t[1]
      BY <1>1, <1>3 DEF y
    <3> QED BY <1>1, <2>2, <3>1, <3>2
  <2>3. CASE i > Len(ls) + 1
    <3> DEFINE k == i - Len(ls) - 1
    <3>1. /\ k \in 1 .. Len(b) /\ k + 1 \in 1 .. Len(t)
          /\ i = Len(a) + k /\ i = Len(ls) + (k + 1)
      BY <1>1, <1>2, <2>3
    <3> HIDE DEF k
    <3>2. x[i] = b[k]
      BY <1>3, <3>1 DEF x
    <3>3. y[i] = t[k + 1]
      BY <1>3, <3>1 DEF y
    <3> QED BY <1>1, <3>1, <3>2, <3>3
  <2> QED BY <1>1, <2>1, <2>2, <2>3
<1>5. a \o b = ls \o t
  <2>1. Len(x) = Len(ls) + Len(t) /\ Len(x) = Len(y) /\ x \in Seq(Recs) /\ y \in Seq(Recs)
    BY <1>1, <1>2, <1>3
  <2>2. \A i \in 1 .. Len(x) : x[i] = y[i]
    BY <1>4, <2>1
  <2> HIDE DEF x, y
  <2>3. x = y
    BY <2>1, <2>2, SameRecords
  <2> QED BY <2>3 DEF x, y
<1> QED BY <1>5 DEF a, b, h

LEMMA TreeWrites ==
  ASSUME JournalInv, JournalInv', TreeInv, WriteLine \/ SyncLine \/ FailAppend
  PROVE  TreeInv'
<1>0. Typed /\ Typed'
  <2>1. (JournalInv => Typed)'
    BY JournalTyped, PTL
  <2> QED BY JournalTyped, <2>1
<1>1. io # NoIo
  BY NoIoIs DEF WriteLine, SyncLine, FailAppend
<1>2. header = "whole" /\ io.todo # <<>> /\ io.todo \in Seq(Recs) /\ lines \in Seq(Recs)
  BY <1>0, <1>1, AppendsToWhole DEF TreeInv, Opened, Typed
<1>3. CASE WriteLine
  <2>1. /\ ~io.written /\ lines' = Append(lines, Head(io.todo)) /\ io' = [io EXCEPT !.written = TRUE]
        /\ UNCHANGED <<header, op>>
    BY <1>3 DEF WriteLine
  <2>2. /\ io'.todo = io.todo /\ io'.by = io.by /\ io'.next = io.next /\ io'.written
    BY <1>0, <2>1 DEF Typed, Ios
  <2>3. Coming' = Coming
    <3>1. Append(lines, Head(io.todo)) \o Tail(io.todo) = lines \o io.todo
      BY <1>2, HeadMoves
    <3> QED BY <2>1, <2>2, <3>1 DEF Coming
  <2>4. \A i \in DOMAIN lines : i \in DOMAIN lines' /\ lines'[i] = lines[i]
    BY <1>2, <2>1
  <2>5. io' # NoIo
    BY <2>2, NoIoIs
  <2> QED BY <1>0, <1>1, <1>2, <2>1, <2>2, <2>3, <2>4, <2>5, SameComing
<1>4. CASE SyncLine
  <2>1. io.written /\ UNCHANGED <<header, lines>>
    BY <1>4 DEF SyncLine
  <2>2. CASE Len(io.todo) > 1
    <3>1. io' = [io EXCEPT !.todo = Tail(@), !.written = FALSE] /\ UNCHANGED op
      BY <1>4, <2>2 DEF SyncLine
    <3>2. io'.todo = Tail(io.todo) /\ io'.by = io.by /\ io'.next = io.next /\ ~io'.written
      BY <1>0, <3>1 DEF Typed, Ios
    <3>3. Coming' = Coming
      BY <2>1, <3>2 DEF Coming
    <3>4. /\ Tail(io.todo) # <<>>
          /\ \A j \in DOMAIN Tail(io.todo) : \E k \in DOMAIN io.todo : Tail(io.todo)[j] = io.todo[k]
      <4>1. /\ Len(Tail(io.todo)) = Len(io.todo) - 1 /\ Tail(io.todo) \in Seq(Recs)
            /\ \A j \in DOMAIN Tail(io.todo) : j + 1 \in DOMAIN io.todo /\ Tail(io.todo)[j] = io.todo[j + 1]
        BY <1>2
      <4>2. Tail(io.todo) # <<>>
        BY <2>2, <4>1
      <4> QED BY <4>1, <4>2
    <3>5. io' # NoIo
      BY <3>2, <3>4, NoIoIs
    <3> QED BY <1>0, <1>1, <1>2, <2>1, <3>1, <3>2, <3>3, <3>4, <3>5, SameComing
  <2>3. CASE ~(Len(io.todo) > 1)
    <3>1. io' = NoIo /\ (IF io.by = "op" THEN Goto(io.next) ELSE UNCHANGED op)
      BY <1>4, <2>3 DEF SyncLine
    <3>2. Coming = lines
      <4>1. Len(io.todo) <= 1
        BY <1>2, <2>3
      <4>2. lines \o Tail(io.todo) = lines \o <<>>
        BY <1>2, <4>1, SeqEnds
      <4> QED BY <1>2, <2>1, <4>2 DEF Coming
    <3> QED BY <1>0, <1>1, <1>2, <2>1, <3>1, <3>2, LastSynced
  <2> QED BY <2>2, <2>3
<1>5. CASE FailAppend
  BY <1>0, <1>1, <1>2, <1>5, AppendGivenUp DEF FailAppend
<1> QED BY <1>3, <1>4, <1>5

LEMMA TreeHoldsAtStart == JournalInit => TreeInv
<1> SUFFICES ASSUME JournalInit PROVE TreeInv
  OBVIOUS
<1>1. header = "absent" /\ lines = <<>> /\ op.step = "none" /\ op.name = "none" /\ io = NoIo
  BY DEF JournalInit, NoOp
<1>2. Coming = <<>>
  BY <1>1, ComingIdle, JournalHoldsAtStart, JournalTyped
<1>3. Coherent(Coming)
  BY <1>2 DEF Coherent
<1>4. HeaderFirst /\ Opened
  BY <1>1 DEF HeaderFirst, Opened
<1>5. Starting(Coming) /\ Accepted(Coming) /\ Living(Coming)
  BY <1>1 DEF Starting, Accepted, Living
<1> QED BY <1>3, <1>4, <1>5 DEF TreeInv

LEMMA TreeKept == JournalInv /\ JournalInv' /\ TreeInv /\ [JournalNext]_journalVars => TreeInv'
<1> SUFFICES ASSUME JournalInv, JournalInv', TreeInv, [JournalNext]_journalVars PROVE TreeInv'
  OBVIOUS
<1>0. Typed /\ Typed'
  <2>1. (JournalInv => Typed)'
    BY JournalTyped, PTL
  <2> QED BY JournalTyped, <2>1
<1>1. CASE Crash
  <2>1. /\ op' = NoOp /\ io' = NoIo /\ UNCHANGED lines
        /\ header' \in IF op.step = "create" THEN {"absent", "torn"} ELSE {header}
    BY <1>1 DEF Crash
  <2>2. header' \in {"absent", "torn", "whole"} /\ (header' # "whole" => lines' = <<>>)
    BY <2>1 DEF TreeInv, HeaderFirst
  <2>3. Len(lines') <= Len(Coming) /\ \A i \in 1 .. Len(lines') : lines'[i] = Coming[i]
    BY <1>0, <2>1, ComingExtends
  <2> QED BY <1>0, <2>1, <2>2, <2>3, OperationEnds
<1>2. CASE PowerLoss
  <2>1. PICK n \in synced .. Len(lines) : lines' = SubSeq(lines, 1, n)
    BY <1>2 DEF PowerLoss
  <2>2. op' = NoOp /\ io' = NoIo /\ UNCHANGED header
    BY <1>2 DEF PowerLoss
  <2>3. n \in Nat /\ n <= Len(lines) /\ lines \in Seq(Recs) /\ Len(lines) \in Nat
    BY <2>1 DEF JournalInv, JournalTypes
  <2>4. /\ Len(lines') = n /\ \A i \in 1 .. n : lines'[i] = lines[i] /\ i \in 1 .. Len(lines)
    BY <2>1, <2>3
  <2>5. Len(lines') <= Len(Coming) /\ \A i \in 1 .. Len(lines') : lines'[i] = Coming[i]
    BY <1>0, <2>3, <2>4, ComingExtends
  <2>6. header' \in {"absent", "torn", "whole"} /\ (header' # "whole" => lines' = <<>>)
    <3>1. lines = <<>> => lines' = <<>>
      <4> HAVE lines = <<>>
      <4>1. Len(lines') = 0 /\ lines' \in Seq(Recs)
        BY <1>0, <2>3, <2>4 DEF Typed
      <4> QED BY <4>1
    <3> QED BY <2>2, <3>1 DEF TreeInv, HeaderFirst
  <2> QED BY <1>0, <2>2, <2>5, <2>6, OperationEnds
<1>3. CASE UNCHANGED journalVars
  BY <1>3, TreeStutters DEF journalVars
<1> QED BY <1>1, <1>2, <1>3, TreeOpens, TreeWorks, TreeWrites, Zenon DEF JournalNext, Work

(* What belongs together stays on one branch, and in one projection of it: a *)
(* run and a call end on the branch where they began, whether the task or a  *)
(* later recovery ends them, and no tool message is projected without its    *)
(* call, for journals of any length, whatever branch is selected, compacted  *)
(* or cut off by a fault (session.rs, validate_records, select_branch,       *)
(* compact_context and recover_interrupted).                                 *)
THEOREM BranchesAreWhole == JournalSpec => []BranchesStayWhole
<1>1. JournalInv /\ TreeInv => BranchesStayWhole
  <2> SUFFICES ASSUME JournalInv, TreeInv PROVE BranchesStayWhole
    OBVIOUS
  <2>1. lines \in Seq(Recs) /\ Coherent(lines)
    BY JournalTyped, LinesCoherent DEF Typed
  <2> QED BY <2>1, ConcludedThere, NoOrphans DEF BranchesStayWhole
<1> QED BY JournalHoldsAtStart, JournalKept, TreeHoldsAtStart, TreeKept, <1>1, PTL DEF JournalSpec

-----------------------------------------------------------------------------
(* A foreign session becomes a journal.                                    *)

SourceEntryTypes == [type : EntryTypes, parent : Nat, ref : Nat, content : Blocks]
ImportKinds == {"selected", "extension", "artifact", "user", "call", "answer", "model", "summary",
                "compacted", "metadata"}
ImportRecs == [kind : ImportKinds, run : {"none"}, parent : Nat, keep : Nat, origin : Nat]

SourceSound ==
  /\ sourceEntries \in Seq(SourceEntryTypes) /\ Parents(sourceEntries)
  /\ \A i \in DOMAIN sourceEntries :
       /\ i > 1 => sourceEntries[i].parent # 0
       /\ sourceEntries[i].type = "compaction" =>
            sourceEntries[i].ref \in Chain(sourceEntries, sourceEntries[i].parent)

Placed(rs, i) ==
  /\ IF rs[i].kind = "selected" THEN rs[i].parent \in 1 .. i - 1 ELSE rs[i].parent = i - 1
  /\ rs[i].kind = "compacted" => Compaction(rs, i)

\* The records on an ancestry that came from entries, and those that came from given entries.
Own(rs, n) == {k \in Chain(rs, n) : rs[k].origin # 0}
OfSources(rs, S) == {k \in DOMAIN rs : rs[k].origin \in S}

\* Records that stand for the entries up to n, with the leaves of the converted ones.
Stand(rs, n) ==
  /\ rs \in Seq(ImportRecs) /\ \A i \in DOMAIN rs : Placed(rs, i) /\ rs[i].origin \in 0 .. n
  /\ \A i \in DOMAIN out.leaf :
       /\ out.leaf[i] \in DOMAIN rs /\ rs[out.leaf[i]].origin = i
       /\ Own(rs, out.leaf[i]) = OfSources(rs, Chain(sourceEntries, i))

\* The records of the entry at hand, so far.
Building(rs) ==
  /\ Stand(rs, At)
  /\ Own(rs, Len(rs)) = OfSources(rs, {At} \cup Chain(sourceEntries, Entry.parent))

OutTypes == [records : Seq(ImportRecs), leaf : Seq(Nat), model : BOOLEAN]
ImportInv ==
  /\ SourceSound /\ phase \in {"load", "convert", "ready", "refused"} /\ out \in OutTypes
  /\ phase # "convert" => out = NoRecords
  /\ Len(out.leaf) <= Len(sourceEntries)
  /\ Stand(out.records, Len(out.leaf))
  /\ out.leaf = <<>> => out.records = <<>>

LEMMA StandTree ==
  ASSUME NEW rs \in Seq(ImportRecs), \A i \in DOMAIN rs : Placed(rs, i)
  PROVE  /\ Parents(rs) /\ Len(rs) \in Nat /\ DOMAIN rs = 1 .. Len(rs)
<1>1. ASSUME NEW i \in DOMAIN rs PROVE rs[i].parent \in 0 .. i - 1
  <2>1. i \in Nat \ {0}
    OBVIOUS
  <2> QED BY <2>1 DEF Placed
<1> QED BY <1>1 DEF Parents

\* One more record: the ancestry of the others stays, and so does what was said of them.
LEMMA RecordJoins ==
  ASSUME NEW rs \in Seq(ImportRecs), \A i \in DOMAIN rs : Placed(rs, i),
         NEW r \in ImportRecs, r.parent \in 0 .. Len(rs)
  PROVE  LET b == Append(rs, r)
         IN  /\ b \in Seq(ImportRecs) /\ Len(b) = Len(rs) + 1 /\ b[Len(b)] = r /\ Parents(b)
             /\ DOMAIN b = 1 .. Len(rs) + 1
             /\ \A i \in 1 .. Len(rs) : b[i] = rs[i] /\ Placed(b, i)
             /\ \A i \in 0 .. Len(rs) : Chain(b, i) = Chain(rs, i) /\ Own(b, i) = Own(rs, i)
                                        /\ Chain(rs, i) \subseteq 1 .. i
             /\ Own(b, Len(b)) = Own(rs, r.parent) \cup (IF r.origin = 0 THEN {} ELSE {Len(b)})
<1> DEFINE b == Append(rs, r)
           n == Len(rs)
<1>1. /\ b \in Seq(ImportRecs) /\ Len(b) = n + 1 /\ b[n + 1] = r /\ \A i \in 1 .. n : b[i] = rs[i]
      /\ DOMAIN b = 1 .. n + 1 /\ n \in Nat /\ DOMAIN rs = 1 .. n /\ r.parent \in 0 .. n
  OBVIOUS
<1> HIDE DEF b, n
<1>2. Parents(rs) /\ Len(rs) = n
  BY StandTree DEF n
<1>3. Parents(b)
  <2>1. ASSUME NEW i \in DOMAIN b PROVE b[i].parent \in 0 .. i - 1
    <3>1. i = n + 1 \/ i \in DOMAIN rs
      BY <1>1
    <3> QED BY <1>1, <1>2, <3>1 DEF Parents
  <2> QED BY <2>1 DEF Parents
<1>4. \A i \in 0 .. n : Chain(b, i) = Chain(rs, i) /\ Chain(rs, i) \subseteq 1 .. i
  <2>1. \A i \in 0 .. n : Chain(rs, i) = Chain(b, i)
    <3>1. n <= Len(rs) /\ n <= Len(b) /\ \A i \in 1 .. n : rs[i] = b[i]
      BY <1>1, <1>2
    <3>2. Len(rs) \in Nat /\ Len(b) \in Nat /\ DOMAIN b = 1 .. Len(b) /\ DOMAIN rs = 1 .. Len(rs)
      BY <1>1, <1>2
    <3> QED BY <1>1, <1>2, <1>3, <3>1, <3>2, ChainAgrees
  <2> QED BY <1>1, <1>2, <2>1, ChainOrder
<1>5. \A i \in 0 .. n : Own(b, i) = Own(rs, i)
  <2> TAKE i \in 0 .. n
  <2>1. \A k \in Chain(rs, i) : k \in 1 .. n
    BY <1>1, <1>4
  <2> QED BY <1>1, <1>4, <2>1 DEF Own
<1>6. ASSUME NEW i \in 1 .. n PROVE Placed(b, i)
  <2>1. Placed(rs, i) /\ b[i] = rs[i] /\ rs[i].parent \in 0 .. i - 1
    BY <1>1, <1>2 DEF Parents
  <2>2. ASSUME rs[i].kind = "compacted" PROVE Compaction(b, i)
    <3> DEFINE s == rs[i].parent
               p == rs[s].parent
    <3>1. Compaction(rs, i)
      BY <2>1, <2>2 DEF Placed
    <3>2. s \in 1 .. n /\ b[s] = rs[s] /\ p \in 0 .. s - 1
      <4>1. s > 0
        BY <3>1 DEF Compaction
      <4>2. s \in 1 .. n
        BY <1>1, <2>1, <4>1
      <4> QED BY <1>1, <1>2, <4>2 DEF Parents
    <3>3. rs[s].kind = "summary" /\ rs[i].keep \in Chain(rs, p) /\ rs[rs[i].keep].kind = "user" /\ s > 0
      BY <3>1 DEF Compaction, Boundary
    <3> HIDE DEF s, p
    <3>4. p \in 0 .. n
      BY <1>1, <3>2
    <3>5. Chain(b, p) = Chain(rs, p) /\ rs[i].keep \in 1 .. n
      BY <1>1, <1>4, <3>3, <3>4
    <3>6. b[i].parent = s /\ b[s].parent = p
      BY <2>1, <3>2 DEF s, p
    <3> QED BY <1>1, <2>1, <3>2, <3>3, <3>5, <3>6 DEF Compaction, Boundary
  <2> QED BY <2>1, <2>2 DEF Placed
<1>7. Own(b, n + 1) = Own(rs, r.parent) \cup (IF r.origin = 0 THEN {} ELSE {n + 1})
  <2>1. Chain(b, n + 1) = {n + 1} \cup Chain(b, r.parent)
    <3>1. n + 1 \in DOMAIN b /\ Len(b) \in Nat /\ DOMAIN b = 1 .. Len(b)
      BY <1>1
    <3> QED BY <1>1, <1>3, <3>1, ChainStep
  <2>2. Own(b, n + 1) = Own(b, r.parent) \cup (IF r.origin = 0 THEN {} ELSE {n + 1})
    BY <1>1, <2>1 DEF Own
  <2> QED BY <1>1, <1>5, <2>2
<1> QED BY <1>1, <1>2, <1>3, <1>4, <1>5, <1>6, <1>7 DEF b, n

LEMMA SourceChains ==
  ASSUME SourceSound
  PROVE  /\ Len(sourceEntries) \in Nat /\ DOMAIN sourceEntries = 1 .. Len(sourceEntries)
         /\ Chain(sourceEntries, 0) = {}
         /\ \A i \in DOMAIN sourceEntries :
              Chain(sourceEntries, i) = {i} \cup Chain(sourceEntries, sourceEntries[i].parent)
         /\ \A i \in 0 .. Len(sourceEntries) : Chain(sourceEntries, i) \subseteq 1 .. i
<1>1. Len(sourceEntries) \in Nat /\ DOMAIN sourceEntries = 1 .. Len(sourceEntries) /\ Parents(sourceEntries)
  BY DEF SourceSound
<1> QED BY <1>1, ChainStep, ChainOrder

\* The entry that a conversion takes next.
LEMMA EntryIs ==
  ASSUME ImportInv, phase = "convert", At <= Len(sourceEntries)
  PROVE  /\ At \in DOMAIN sourceEntries /\ At = Len(out.leaf) + 1 /\ Len(out.leaf) \in Nat /\ At \in Nat
         /\ DOMAIN out.leaf = 1 .. Len(out.leaf)
         /\ Entry.parent \in 0 .. At - 1 /\ (Entry.parent = 0 => out.leaf = <<>>)
         /\ Entry.parent # 0 => Entry.parent \in DOMAIN out.leaf
         /\ Chain(sourceEntries, At) = {At} \cup Chain(sourceEntries, Entry.parent)
         /\ Chain(sourceEntries, Entry.parent) \subseteq 1 .. At - 1
<1>1. out.leaf \in Seq(Nat) /\ SourceSound
  BY DEF ImportInv, OutTypes
<1>2. /\ At = Len(out.leaf) + 1 /\ Len(out.leaf) \in Nat /\ At \in Nat /\ At \in DOMAIN sourceEntries
      /\ DOMAIN out.leaf = 1 .. Len(out.leaf)
  BY <1>1, SourceChains DEF At
<1>3. Entry.parent \in 0 .. At - 1 /\ (At > 1 => Entry.parent # 0)
  BY <1>1, <1>2 DEF SourceSound, Parents, Entry
<1>4. Entry.parent = 0 => out.leaf = <<>>
  <2> HAVE Entry.parent = 0
  <2>1. Len(out.leaf) = 0
    BY <1>2, <1>3
  <2> QED BY <1>1, <2>1
<1>5. Entry.parent # 0 => Entry.parent \in DOMAIN out.leaf
  BY <1>2, <1>3
<1>6. Entry.parent \in 0 .. Len(sourceEntries)
  BY <1>1, <1>2, <1>3, SourceChains
<1>7. Chain(sourceEntries, Entry.parent) \subseteq 1 .. Entry.parent
  BY <1>1, <1>6, SourceChains
<1>8. Chain(sourceEntries, At) = {At} \cup Chain(sourceEntries, Entry.parent)
  BY <1>1, <1>2, SourceChains DEF Entry
<1> QED BY <1>2, <1>3, <1>4, <1>5, <1>7, <1>8

LEMMA OwnedEarlier ==
  ASSUME NEW rs \in Seq(ImportRecs), NEW r \in ImportRecs, NEW S, r.origin \notin S
  PROVE  OfSources(Append(rs, r), S) = OfSources(rs, S)
<1> DEFINE b == Append(rs, r)
           n == Len(rs)
<1>1. /\ b[n + 1] = r /\ \A i \in 1 .. n : b[i] = rs[i]
      /\ DOMAIN b = 1 .. n + 1 /\ n \in Nat /\ DOMAIN rs = 1 .. n
  OBVIOUS
<1> HIDE DEF b, n
<1>2. \A k : k \in DOMAIN b /\ b[k].origin \in S <=> k \in DOMAIN rs /\ rs[k].origin \in S
  <2> TAKE k
  <2>1. CASE k = n + 1
    BY <1>1, <2>1
  <2>2. CASE k # n + 1
    BY <1>1, <2>2
  <2> QED BY <2>1, <2>2
<1>3. OfSources(b, S) = OfSources(rs, S)
  BY <1>2 DEF OfSources
<1> QED BY <1>3 DEF b

\* What is said of the converted entries stays when a record is added.
LEMMA StandGrows ==
  ASSUME ImportInv, phase = "convert", At <= Len(sourceEntries), NEW rs, Stand(rs, At),
         NEW r \in ImportRecs, r.origin \in {0, At}, r.parent \in 0 .. Len(rs),
         Placed(Append(rs, r), Len(rs) + 1)
  PROVE  Stand(Append(rs, r), At)
<1> DEFINE b == Append(rs, r)
           n == Len(rs)
<1>1. rs \in Seq(ImportRecs) /\ (\A i \in DOMAIN rs : Placed(rs, i)) /\ n \in Nat /\ DOMAIN rs = 1 .. n
  BY DEF Stand
<1>2. /\ b \in Seq(ImportRecs) /\ DOMAIN b = 1 .. n + 1 /\ b[n + 1] = r
      /\ \A i \in 1 .. n : b[i] = rs[i] /\ Placed(b, i)
      /\ \A i \in 0 .. n : Own(b, i) = Own(rs, i)
  BY <1>1, RecordJoins
<1>3. At \in Nat /\ 0 \in 0 .. At /\ At \in 0 .. At /\ Len(out.leaf) \in Nat /\ At = Len(out.leaf) + 1
  BY EntryIs
<1> HIDE DEF b, n
<1>4. ASSUME NEW i \in DOMAIN b PROVE Placed(b, i) /\ b[i].origin \in 0 .. At
  <2>1. CASE i = n + 1
    BY <1>2, <1>3, <2>1 DEF b, n
  <2>2. CASE i \in 1 .. n
    BY <1>1, <1>2, <2>2 DEF Stand
  <2> QED BY <1>1, <1>2, <2>1, <2>2
<1>5. ASSUME NEW i \in DOMAIN out.leaf
      PROVE  /\ out.leaf[i] \in DOMAIN b /\ b[out.leaf[i]].origin = i
             /\ Own(b, out.leaf[i]) = OfSources(b, Chain(sourceEntries, i))
  <2>1. /\ out.leaf[i] \in DOMAIN rs /\ rs[out.leaf[i]].origin = i
        /\ Own(rs, out.leaf[i]) = OfSources(rs, Chain(sourceEntries, i))
    BY DEF Stand
  <2>2. out.leaf[i] \in 1 .. n /\ out.leaf[i] \in 0 .. n /\ out.leaf[i] \in DOMAIN b
    BY <1>1, <1>2, <2>1
  <2>3. r.origin \notin Chain(sourceEntries, i)
    <3>1. i \in 1 .. At - 1 /\ SourceSound
      BY <1>3, EntryIs DEF ImportInv
    <3>2. i \in 0 .. Len(sourceEntries) /\ Len(sourceEntries) \in Nat
      BY <3>1, <1>3, SourceChains
    <3>3. Chain(sourceEntries, i) \subseteq 1 .. i
      BY <3>1, <3>2, SourceChains
    <3> QED BY <1>3, <3>1, <3>3
  <2>4. OfSources(b, Chain(sourceEntries, i)) = OfSources(rs, Chain(sourceEntries, i))
    BY <1>1, <2>3, OwnedEarlier DEF b
  <2> QED BY <1>2, <2>1, <2>2, <2>4
<1> QED BY <1>2, <1>4, <1>5 DEF Stand, b

\* The branch of the parent is at the tip before the first record of the entry.
LEMMA ParentSelected ==
  ASSUME ImportInv, phase = "convert", At <= Len(sourceEntries)
  PROVE  /\ Building(SelectSourceParent)
         /\ \A i \in DOMAIN out.records : /\ i \in DOMAIN SelectSourceParent
                                          /\ SelectSourceParent[i] = out.records[i]
<1> DEFINE rs == out.records
           n == Len(rs)
           p == Entry.parent
           up == Chain(sourceEntries, p)
<1>1. /\ Stand(rs, At) /\ rs \in Seq(ImportRecs) /\ n \in Nat /\ DOMAIN rs = 1 .. n
      /\ \A i \in DOMAIN rs : rs[i].origin \in 0 .. At - 1
  <2>1. Stand(rs, Len(out.leaf)) /\ rs \in Seq(ImportRecs)
    BY DEF ImportInv, Stand
  <2>2. \A i \in DOMAIN rs : rs[i].origin \in 0 .. At - 1 /\ rs[i].origin \in 0 .. At
    BY <2>1, EntryIs DEF Stand
  <2> QED BY <2>1, <2>2 DEF Stand
<1>2. \A i \in DOMAIN rs : rs[i].origin # At
  BY <1>1, EntryIs
<1>3. OfSources(rs, {At} \cup up) = OfSources(rs, up)
  BY <1>2 DEF OfSources
<1>4. CASE p = 0
  <2>1. rs = <<>> /\ SelectSourceParent = rs
    BY <1>4, EntryIs DEF ImportInv, SelectSourceParent
  <2>2. n = 0
    BY <2>1
  <2>3. Chain(rs, 0) = {}
    <3>1. Parents(rs)
      BY <1>1, StandTree DEF Stand
    <3> QED BY <1>1, <3>1, ChainStep
  <2>4. Own(rs, n) = {} /\ OfSources(rs, {At} \cup up) = {}
    BY <1>1, <2>2, <2>3 DEF Own, OfSources
  <2> QED BY <1>1, <2>1, <2>4 DEF Building
<1>5. CASE p # 0
  <2> DEFINE t == out.leaf[p]
  <2>1. p \in DOMAIN out.leaf /\ t \in DOMAIN rs /\ t \in 1 .. n /\ Own(rs, t) = OfSources(rs, up)
    BY <1>1, <1>5, EntryIs DEF Stand
  <2>2. CASE t = n
    <3>1. SelectSourceParent = rs
      BY <2>2 DEF SelectSourceParent
    <3> QED BY <1>1, <1>3, <2>1, <2>2, <3>1 DEF Building
  <2>3. CASE t # n
    <3> DEFINE r == [Imported(rs, "selected", 0) EXCEPT !.parent = t, !.origin = 0]
    <3>1. SelectSourceParent = Append(rs, r)
      BY <1>5, <2>3 DEF SelectSourceParent
    <3> HIDE DEF t
    <3>2. r = [kind |-> "selected", run |-> "none", parent |-> t, keep |-> 0, origin |-> 0]
      <4> DEFINE q == Imported(rs, "selected", 0)
      <4>1. q = [kind |-> "selected", run |-> "none", parent |-> n, keep |-> 0, origin |-> At]
        BY DEF Imported
      <4>2. r = [q EXCEPT !.parent = t, !.origin = 0]
        OBVIOUS
      <4> HIDE DEF q, r
      <4> QED BY ONLY <4>1, <4>2
    <3> HIDE DEF r
    <3>3. r \in ImportRecs /\ r.kind = "selected" /\ r.parent = t /\ r.origin = 0 /\ t \in 0 .. n
      <4>1. t \in Nat /\ t \in 0 .. n
        BY <1>1, <2>1
      <4> QED BY ONLY <3>2, <4>1 DEF ImportRecs, ImportKinds
    <3> DEFINE b == Append(rs, r)
    <3>4. /\ b \in Seq(ImportRecs) /\ Len(b) = n + 1 /\ b[n + 1] = r
          /\ DOMAIN b = 1 .. n + 1 /\ \A i \in 1 .. n : b[i] = rs[i]
          /\ Own(b, Len(b)) = Own(rs, t)
      <4>1. \A i \in DOMAIN rs : Placed(rs, i)
        BY <1>1 DEF Stand
      <4>2. r \in ImportRecs /\ r.parent \in 0 .. Len(rs)
        BY <3>3
      <4>3. /\ b \in Seq(ImportRecs) /\ Len(b) = Len(rs) + 1 /\ b[Len(b)] = r
            /\ DOMAIN b = 1 .. Len(rs) + 1 /\ \A i \in 1 .. Len(rs) : b[i] = rs[i]
            /\ Own(b, Len(b)) = Own(rs, r.parent) \cup (IF r.origin = 0 THEN {} ELSE {Len(b)})
        <5> HIDE DEF rs
        <5> QED BY <1>1, <4>1, <4>2, RecordJoins
      <4> HIDE DEF b
      <4>4. Own(b, Len(b)) = Own(rs, t)
        BY <3>3, <4>3
      <4> QED BY <4>3, <4>4
    <3>5. Placed(b, n + 1)
      BY <1>1, <2>1, <3>3, <3>4 DEF Placed
    <3>6. Stand(b, At)
      BY <1>1, <3>3, <3>5, StandGrows
    <3>7. OfSources(b, {At} \cup up) = OfSources(rs, {At} \cup up)
      <4>1. r.origin \notin {At} \cup up
        BY <3>3, EntryIs
      <4> QED BY <1>1, <3>3, <4>1, OwnedEarlier
    <3> HIDE DEF b
    <3>8. Building(b)
      BY <1>3, <2>1, <3>4, <3>6, <3>7 DEF Building
    <3> QED BY <1>1, <3>1, <3>4, <3>8 DEF b
  <2> QED BY <2>2, <2>3
<1> QED BY <1>4, <1>5

\* A record of the entry on top of those it has.
LEMMA EntryGrows ==
  ASSUME ImportInv, phase = "convert", At <= Len(sourceEntries), NEW rs, Building(rs),
         NEW kind \in ImportKinds \ {"selected"}, NEW keep \in Nat,
         kind = "compacted" => Compaction(Append(rs, Imported(rs, kind, keep)), Len(rs) + 1)
  PROVE  LET b == Append(rs, Imported(rs, kind, keep))
         IN  /\ Building(b) /\ Len(b) = Len(rs) + 1 /\ b[Len(b)] = Imported(rs, kind, keep)
             /\ DOMAIN b = 1 .. Len(b) /\ Len(rs) \in Nat
             /\ \A i \in 1 .. Len(rs) : b[i] = rs[i]
             /\ \A i \in 0 .. Len(rs) : Chain(b, i) = Chain(rs, i)
<1> DEFINE r == Imported(rs, kind, keep)
           n == Len(rs)
           b == Append(rs, r)
           S == {At} \cup Chain(sourceEntries, Entry.parent)
<1>1. /\ Stand(rs, At) /\ Own(rs, n) = OfSources(rs, S)
      /\ rs \in Seq(ImportRecs) /\ n \in Nat /\ DOMAIN rs = 1 .. n /\ \A i \in DOMAIN rs : Placed(rs, i)
  BY DEF Building, Stand
<1>2. At \in Nat \ {0}
  BY EntryIs
<1>3. r \in ImportRecs /\ r.kind = kind /\ r.parent = n /\ r.origin = At /\ r.parent \in 0 .. Len(rs)
  BY <1>1, <1>2 DEF Imported, ImportRecs
<1> HIDE DEF r
<1>4. /\ b \in Seq(ImportRecs) /\ Len(b) = n + 1 /\ b[n + 1] = r
      /\ DOMAIN b = 1 .. n + 1 /\ \A i \in 1 .. n : b[i] = rs[i]
      /\ \A i \in 0 .. n : Chain(b, i) = Chain(rs, i)
      /\ Own(b, Len(b)) = Own(rs, n) \cup {n + 1}
  <2>1. r.origin # 0
    BY <1>2, <1>3
  <2> QED BY <1>1, <1>3, <2>1, RecordJoins
<1>5. Placed(b, n + 1)
  <2>1. kind = "compacted" => Compaction(b, n + 1)
    BY DEF r
  <2> HIDE DEF b
  <2> QED BY <1>1, <1>3, <1>4, <2>1 DEF Placed
<1>6. Stand(b, At)
  BY <1>1, <1>3, <1>5, StandGrows
<1> HIDE DEF b, n, S
<1>7. OfSources(b, S) = OfSources(rs, S) \cup {n + 1}
  <2>1. r.origin \in S
    BY <1>3 DEF S
  <2>2. \A k : k \in DOMAIN b /\ b[k].origin \in S
               <=> (k \in DOMAIN rs /\ rs[k].origin \in S) \/ k = n + 1
    <3> TAKE k
    <3>1. CASE k = n + 1
      BY <1>1, <1>4, <2>1, <3>1
    <3>2. CASE k # n + 1
      BY <1>1, <1>4, <3>2
    <3> QED BY <3>1, <3>2
  <2> QED BY <2>2 DEF OfSources
<1>8. Building(b)
  BY <1>1, <1>4, <1>6, <1>7 DEF Building, S
<1> QED BY <1>1, <1>4, <1>8 DEF b, n, r

LEMMA ExtendOne ==
  ASSUME NEW rs \in Seq(ImportRecs), NEW kind, Imported(rs, kind, 0) \in ImportRecs
  PROVE  Extend(rs, <<kind>>) = Append(rs, Imported(rs, kind, 0))
<1> DEFINE r == Imported(rs, kind, 0)
           e == [i \in DOMAIN <<kind>> |-> [Imported(rs, <<kind>>[i], 0) EXCEPT !.parent = Len(rs) + i - 1]]
<1>1. DOMAIN <<kind>> = 1 .. 1 /\ <<kind>>[1] = kind /\ Len(rs) + 1 - 1 = Len(rs)
  OBVIOUS
<1>2. [r EXCEPT !.parent = Len(rs)] = r
  BY DEF Imported
<1>3. e = [i \in 1 .. 1 |-> r]
  <2>1. \A i \in 1 .. 1 : i = 1
    OBVIOUS
  <2>2. e[1] = r
    BY <1>1, <1>2
  <2>3. e = [i \in 1 .. 1 |-> e[i]]
    BY <1>1
  <2> HIDE DEF e, r
  <2> QED BY <2>1, <2>2, <2>3
<1>4. e = <<r>>
  <2> HIDE DEF e, r
  <2>1. <<r>> = [i \in 1 .. 1 |-> r]
    OBVIOUS
  <2> QED BY <1>3, <2>1
<1>5. rs \o <<r>> = Append(rs, r)
  <2> HIDE DEF r
  <2>1. r \in ImportRecs
    BY DEF r
  <2> QED BY <2>1
<1>6. Extend(rs, <<kind>>) = rs \o e
  BY DEF Extend
<1> HIDE DEF e
<1> QED BY <1>4, <1>5, <1>6

LEMMA ExtendTwo ==
  ASSUME NEW rs \in Seq(ImportRecs), NEW one, NEW two,
         Imported(rs, one, 0) \in ImportRecs, Imported(Append(rs, Imported(rs, one, 0)), two, 0) \in ImportRecs
  PROVE  LET b == Append(rs, Imported(rs, one, 0))
         IN  Extend(rs, Append(<<one>>, two)) = Append(b, Imported(b, two, 0))
<1> DEFINE r == Imported(rs, one, 0)
           b == Append(rs, r)
           s == Imported(b, two, 0)
           kinds == Append(<<one>>, two)
           e == [i \in DOMAIN kinds |-> [Imported(rs, kinds[i], 0) EXCEPT !.parent = Len(rs) + i - 1]]
<1>1. /\ DOMAIN kinds = 1 .. 2 /\ kinds[1] = one /\ kinds[2] = two /\ Len(rs) + 1 - 1 = Len(rs)
      /\ Len(rs) + 2 - 1 = Len(rs) + 1 /\ Len(b) = Len(rs) + 1
  OBVIOUS
<1>2. [r EXCEPT !.parent = Len(rs)] = r
  BY DEF Imported
<1>3. [Imported(rs, two, 0) EXCEPT !.parent = Len(rs) + 1] = s
  BY <1>1 DEF Imported
<1>4. e[1] = r /\ e[2] = s /\ e = [i \in 1 .. 2 |-> e[i]]
  <2> HIDE DEF kinds
  <2>1. e[1] = [Imported(rs, one, 0) EXCEPT !.parent = Len(rs)]
    BY <1>1
  <2>2. e[2] = [Imported(rs, two, 0) EXCEPT !.parent = Len(rs) + 1]
    BY <1>1
  <2>3. e = [i \in 1 .. 2 |-> e[i]]
    BY <1>1
  <2> QED BY <1>2, <1>3, <2>1, <2>2, <2>3
<1>5. Extend(rs, kinds) = rs \o e
  BY DEF Extend
<1>6. r \in ImportRecs /\ s \in ImportRecs
  OBVIOUS
<1> HIDE DEF e, r, s, kinds
<1>7. e = <<r, s>>
  <2>1. <<r, s>> = [i \in 1 .. 2 |-> IF i = 1 THEN r ELSE s]
    OBVIOUS
  <2>2. \A i \in 1 .. 2 : e[i] = IF i = 1 THEN r ELSE s
    BY <1>4
  <2> QED BY <1>4, <2>1, <2>2
<1>8. rs \o <<r, s>> = Append(Append(rs, r), s)
  BY <1>6
<1> QED BY <1>5, <1>7, <1>8 DEF r, s, kinds

LEMMA ConvertKeeps ==
  ASSUME ImportInv, NEW rs, NEW m \in BOOLEAN, Convert(rs, m), Building(rs),
         Len(rs) \in DOMAIN rs, rs[Len(rs)].origin = At
  PROVE  ImportInv'
<1>1. /\ phase = "convert" /\ At <= Len(sourceEntries) /\ UNCHANGED <<phase, sourceEntries>>
      /\ out' = [records |-> rs, leaf |-> Append(out.leaf, Len(rs)), model |-> m]
  BY DEF Convert
<1>2. /\ Stand(rs, At) /\ Own(rs, Len(rs)) = OfSources(rs, Chain(sourceEntries, At))
      /\ rs \in Seq(ImportRecs) /\ Len(rs) \in Nat /\ out.leaf \in Seq(Nat) /\ SourceSound
      /\ out \in OutTypes
  <2>1. Chain(sourceEntries, At) = {At} \cup Chain(sourceEntries, Entry.parent)
    BY <1>1, EntryIs
  <2>2. Stand(rs, At) /\ Own(rs, Len(rs)) = OfSources(rs, Chain(sourceEntries, At))
    BY <2>1 DEF Building
  <2>3. rs \in Seq(ImportRecs)
    BY <2>2 DEF Stand
  <2>4. out \in OutTypes /\ SourceSound
    BY DEF ImportInv
  <2> QED BY <2>2, <2>3, <2>4 DEF OutTypes
<1>3. /\ out'.records = rs /\ out'.leaf = Append(out.leaf, Len(rs)) /\ out'.model = m
      /\ At = Len(out.leaf) + 1 /\ Len(out.leaf) \in Nat /\ Len(out'.leaf) = At
      /\ DOMAIN out'.leaf = 1 .. At /\ DOMAIN out.leaf = 1 .. Len(out.leaf)
      /\ out'.leaf[At] = Len(rs) /\ \A i \in DOMAIN out.leaf : out'.leaf[i] = out.leaf[i]
  <2>1. out'.records = rs /\ out'.leaf = Append(out.leaf, Len(rs)) /\ out'.model = m
    BY <1>1
  <2>2. At = Len(out.leaf) + 1 /\ Len(out.leaf) \in Nat /\ DOMAIN out.leaf = 1 .. Len(out.leaf)
    BY <1>1, EntryIs
  <2> DEFINE l == Append(out.leaf, Len(rs))
             n == Len(out.leaf)
  <2>3. /\ Len(l) = n + 1 /\ DOMAIN l = 1 .. n + 1 /\ l[n + 1] = Len(rs)
        /\ \A i \in 1 .. n : l[i] = out.leaf[i]
    BY <1>2
  <2> HIDE DEF l
  <2> QED BY <2>1, <2>2, <2>3 DEF l
<1>4. out' \in OutTypes
  BY <1>1, <1>2 DEF OutTypes
<1>5. SourceSound'
  BY <1>1, <1>2 DEF SourceSound, Parents
<1>6. ASSUME NEW i \in DOMAIN out'.leaf
      PROVE  /\ out'.leaf[i] \in DOMAIN rs /\ rs[out'.leaf[i]].origin = i
             /\ Own(rs, out'.leaf[i]) = OfSources(rs, Chain(sourceEntries, i))
  <2>1. CASE i = At
    BY <1>2, <1>3, <2>1
  <2>2. CASE i \in DOMAIN out.leaf
    BY <1>2, <1>3, <2>2 DEF Stand
  <2> QED BY <1>3, <2>1, <2>2
<1>7. \A i \in DOMAIN rs : Placed(rs, i) /\ rs[i].origin \in 0 .. At
  BY <1>2 DEF Stand
<1>8. Stand(out.records, Len(out.leaf))'
  <2>1. \A i \in DOMAIN out'.leaf : Chain(sourceEntries', i) = Chain(sourceEntries, i)
    BY <1>1
  <2> QED BY <1>2, <1>3, <1>6, <1>7, <2>1 DEF Stand
<1>9. out'.leaf # <<>>
  BY <1>3, EntryIs
<1> QED BY <1>1, <1>3, <1>4, <1>5, <1>8, <1>9 DEF ImportInv

\* The entry becomes one record, or an artifact and one.
LEMMA OneConverted ==
  ASSUME ImportInv, NEW kind \in ImportKinds \ {"selected", "compacted"}, NEW m \in BOOLEAN,
         Convert(Extend(SelectSourceParent, <<kind>>), m)
  PROVE  ImportInv'
<1> DEFINE rs == SelectSourceParent
           b == Append(rs, Imported(rs, kind, 0))
<1>1. phase = "convert" /\ At <= Len(sourceEntries)
  BY DEF Convert
<1>2. Building(rs)
  BY <1>1, ParentSelected
<1> HIDE DEF rs
<1>3. /\ Building(b) /\ Len(b) = Len(rs) + 1 /\ b[Len(b)] = Imported(rs, kind, 0)
      /\ DOMAIN b = 1 .. Len(b) /\ Len(rs) \in Nat
  BY <1>1, <1>2, EntryGrows
<1>4. rs \in Seq(ImportRecs) /\ Imported(rs, kind, 0) \in ImportRecs
  <2>1. Len(b) \in DOMAIN b /\ b \in Seq(ImportRecs)
    BY <1>3 DEF Building, Stand
  <2> HIDE DEF b
  <2> QED BY <1>2, <1>3, <2>1 DEF Building, Stand
<1>5. Extend(rs, <<kind>>) = b
  BY <1>4, ExtendOne
<1>6. b[Len(b)].origin = At
  BY <1>3 DEF Imported
<1>7. Len(b) \in DOMAIN b
  BY <1>3
<1>8. Convert(b, m)
  BY <1>5 DEF rs
<1> HIDE DEF b
<1> QED BY <1>3, <1>6, <1>7, <1>8, ConvertKeeps

LEMMA TwoConverted ==
  ASSUME ImportInv, NEW kind \in ImportKinds \ {"selected", "compacted"}, NEW m \in BOOLEAN,
         Convert(Extend(SelectSourceParent, Append(<<"artifact">>, kind)), m)
  PROVE  ImportInv'
<1> DEFINE rs == SelectSourceParent
           a == Append(rs, Imported(rs, "artifact", 0))
           b == Append(a, Imported(a, kind, 0))
<1>1. phase = "convert" /\ At <= Len(sourceEntries)
  BY DEF Convert
<1>2. Building(rs)
  BY <1>1, ParentSelected
<1> HIDE DEF rs
<1>3. /\ Building(a) /\ Len(a) = Len(rs) + 1 /\ a[Len(a)] = Imported(rs, "artifact", 0)
      /\ DOMAIN a = 1 .. Len(a) /\ Len(rs) \in Nat
  <2>1. "artifact" \in ImportKinds \ {"selected"} /\ "artifact" # "compacted" /\ 0 \in Nat
    BY DEF ImportKinds
  <2> QED BY <1>1, <1>2, <2>1, EntryGrows
<1>4. rs \in Seq(ImportRecs) /\ Imported(rs, "artifact", 0) \in ImportRecs
  <2>1. Len(a) \in DOMAIN a /\ a \in Seq(ImportRecs)
    BY <1>3 DEF Building, Stand
  <2> HIDE DEF a
  <2> QED BY <1>2, <1>3, <2>1 DEF Building, Stand
<1>5. /\ Building(b) /\ Len(b) = Len(a) + 1 /\ b[Len(b)] = Imported(a, kind, 0)
      /\ DOMAIN b = 1 .. Len(b) /\ Len(a) \in Nat
  <2> HIDE DEF a
  <2> QED BY <1>1, <1>3, EntryGrows
<1>6. Imported(a, kind, 0) \in ImportRecs
  <2>1. Len(b) \in DOMAIN b /\ b \in Seq(ImportRecs)
    BY <1>5 DEF Building, Stand
  <2> HIDE DEF b, a
  <2> QED BY <1>5, <2>1
<1>7. Extend(rs, Append(<<"artifact">>, kind)) = b
  BY <1>4, <1>6, ExtendTwo
<1>8. b[Len(b)].origin = At /\ Len(b) \in DOMAIN b
  BY <1>5 DEF Imported
<1>9. Convert(b, m)
  BY <1>7 DEF rs
<1> HIDE DEF b
<1> QED BY <1>5, <1>8, <1>9, ConvertKeeps

LEMMA CompactionKeeps == ASSUME ImportInv, ConvertCompaction, ~End("refused") PROVE ImportInv'
<1> DEFINE rs == SelectSourceParent
           keep == out.leaf[Entry.ref]
           one == Append(rs, Imported(rs, "summary", 0))
           two == Append(one, Imported(one, "compacted", keep))
<1>1. /\ phase = "convert" /\ At <= Len(sourceEntries) /\ Entry.type = "compaction"
  BY DEF ConvertCompaction, Is
<1>2. Building(rs) /\ \A i \in DOMAIN out.records : i \in DOMAIN rs /\ rs[i] = out.records[i]
  BY <1>1, ParentSelected
<1>4. CASE /\ out.records[keep].kind = "user" /\ out.model
           /\ LET withSummary == Extend(rs, <<"summary">>)
              IN  Convert(Append(withSummary, Imported(withSummary, "compacted", keep)), out.model)
  <2> HIDE DEF rs, keep
  <2>1. /\ Building(one) /\ Len(one) = Len(rs) + 1 /\ one[Len(one)] = Imported(rs, "summary", 0)
        /\ DOMAIN one = 1 .. Len(one) /\ Len(rs) \in Nat
        /\ \A i \in 1 .. Len(rs) : one[i] = rs[i]
        /\ \A i \in 0 .. Len(rs) : Chain(one, i) = Chain(rs, i)
    <3>1. "summary" \in ImportKinds \ {"selected"} /\ "summary" # "compacted" /\ 0 \in Nat
      BY DEF ImportKinds
    <3> QED BY <1>1, <1>2, <3>1, EntryGrows
  <2>2. rs \in Seq(ImportRecs) /\ one \in Seq(ImportRecs) /\ Imported(rs, "summary", 0) \in ImportRecs
    <3>1. Len(one) \in DOMAIN one /\ one \in Seq(ImportRecs)
      BY <2>1 DEF Building, Stand
    <3> HIDE DEF one
    <3> QED BY <1>2, <2>1, <3>1 DEF Building, Stand
  <2>3. Extend(rs, <<"summary">>) = one
    BY <2>2, ExtendOne
  \* The boundary is the leaf of an entry on the ancestry, so it is on the branch.
  <2>4. Entry.ref \in Chain(sourceEntries, Entry.parent)
    BY <1>1, EntryIs DEF ImportInv, SourceSound, Entry
  <2>5. Entry.ref \in DOMAIN out.leaf
    BY <1>1, <2>4, EntryIs
  <2>6. keep \in DOMAIN out.records /\ out.records[keep].origin = Entry.ref
    BY <2>5 DEF ImportInv, Stand, keep
  <2>7. keep \in Chain(rs, Len(rs)) /\ rs[keep].kind = "user" /\ keep \in 1 .. Len(rs)
    <3>1. keep \in DOMAIN rs /\ rs[keep] = out.records[keep]
      BY <1>2, <2>6
    <3>2. keep \in OfSources(rs, {At} \cup Chain(sourceEntries, Entry.parent))
      BY <2>4, <2>6, <3>1 DEF OfSources
    <3> QED BY <1>2, <1>4, <2>2, <3>1, <3>2 DEF Building, Own
  <2>8. Compaction(two, Len(one) + 1)
    <3> DEFINE n == Len(rs)
               r == Imported(one, "compacted", keep)
    <3>1. keep \in Nat /\ At \in Nat
      BY <1>1, <2>7, EntryIs
    <3>2. r \in ImportRecs /\ r.parent = Len(one) /\ r.keep = keep
      BY <2>1, <3>1 DEF Imported, ImportRecs, ImportKinds
    <3>3. one[n + 1].kind = "summary" /\ one[n + 1].parent = n
      BY <2>1 DEF Imported
    <3> HIDE DEF one, r
    <3>4. /\ two[n + 2] = r /\ two[n + 1] = one[n + 1] /\ \A i \in 1 .. n : two[i] = one[i]
          /\ Chain(two, n) = Chain(one, n)
      <4>1. \A i \in DOMAIN one : Placed(one, i)
        BY <2>1 DEF Building, Stand
      <4>2. r.parent \in 0 .. Len(one)
        BY <2>1, <3>2
      <4>3. /\ Len(two) = Len(one) + 1 /\ two[Len(two)] = r
            /\ \A i \in 1 .. Len(one) : two[i] = one[i]
            /\ \A i \in 0 .. Len(one) : Chain(two, i) = Chain(one, i)
        BY <2>2, <3>2, <4>1, <4>2, RecordJoins DEF r
      <4> HIDE DEF two
      <4> QED BY <2>1, <4>3
    <3> HIDE DEF two
    <3>5. two[n + 2].parent = n + 1 /\ two[n + 2].keep = keep /\ two[n + 1].kind = "summary"
          /\ two[n + 1].parent = n /\ two[keep].kind = "user" /\ keep \in Chain(two, n) /\ n + 1 > 0
      BY <2>1, <2>7, <3>2, <3>3, <3>4
    <3>6. Len(one) + 1 = n + 2
      BY <2>1
    <3> HIDE DEF n
    <3> QED BY <3>5, <3>6 DEF Compaction, Boundary
  <2> HIDE DEF one
  <2>9. /\ Building(two) /\ Len(two) = Len(one) + 1 /\ two[Len(two)] = Imported(one, "compacted", keep)
        /\ DOMAIN two = 1 .. Len(two) /\ Len(one) \in Nat
    <3>1. "compacted" \in ImportKinds \ {"selected"} /\ keep \in Nat
      BY <2>7 DEF ImportKinds
    <3> QED BY <1>1, <2>1, <2>8, <3>1, EntryGrows
  <2>10. two[Len(two)].origin = At /\ Len(two) \in DOMAIN two
    BY <2>9 DEF Imported
  <2>11. Convert(two, out.model) /\ out.model \in BOOLEAN
    BY <1>4, <2>3 DEF ImportInv, OutTypes
  <2> HIDE DEF two
  <2> QED BY <2>9, <2>10, <2>11, ConvertKeeps
<1> QED BY <1>4 DEF ConvertCompaction, rs, keep

LEMMA NothingStands ==
  ASSUME SourceSound', phase' \in {"load", "ready", "refused", "convert"}, out' = NoRecords
  PROVE  ImportInv'
<1>1. /\ out'.records = <<>> /\ out'.leaf = <<>> /\ out'.model = FALSE
      /\ <<>> \in Seq(ImportRecs) /\ <<>> \in Seq(Nat) /\ Len(<<>>) = 0 /\ DOMAIN <<>> = {}
  BY DEF NoRecords
<1>2. out' \in OutTypes
  BY <1>1 DEF NoRecords, OutTypes
<1>3. Stand(out.records, Len(out.leaf))'
  BY <1>1 DEF Stand
<1>4. Len(out'.leaf) <= Len(sourceEntries')
  <2>1. Len(sourceEntries') \in Nat
    BY DEF SourceSound
  <2> QED BY <1>1, <2>1
<1> QED BY <1>1, <1>2, <1>3, <1>4 DEF ImportInv

LEMMA EmptySource == sourceEntries = <<>> => SourceSound
<1> SUFFICES ASSUME sourceEntries = <<>> PROVE SourceSound
  OBVIOUS
<1>1. sourceEntries \in Seq(SourceEntryTypes) /\ DOMAIN sourceEntries = {}
  OBVIOUS
<1> QED BY <1>1 DEF SourceSound, Parents

LEMMA ParseKeeps == ASSUME ImportInv, ParseEntry PROVE ImportInv'
<1>1. /\ phase = "load" /\ UNCHANGED <<phase, out>> /\ out = NoRecords /\ SourceSound
      /\ Len(sourceEntries) \in Nat /\ DOMAIN sourceEntries = 1 .. Len(sourceEntries)
      /\ sourceEntries \in Seq(SourceEntryTypes) /\ Parents(sourceEntries)
  BY DEF ImportInv, ParseEntry, SourceSound
<1> DEFINE s == sourceEntries
           n == Len(s)
<1>2. PICK type \in EntryTypes, parent \in (IF s = <<>> THEN {0} ELSE DOMAIN s), ref \in 0 .. n,
           content \in Blocks :
        LET e == [type |-> type, parent |-> parent, ref |-> ref, content |-> content]
        IN  KnownEntry(e) /\ sourceEntries' = Append(sourceEntries, e)
  BY DEF ParseEntry
<1> DEFINE e == [type |-> type, parent |-> parent, ref |-> ref, content |-> content]
           b == Append(s, e)
<1>3. /\ e.type = type /\ e.parent = parent /\ e.ref = ref /\ e \in SourceEntryTypes
      /\ e.parent \in 0 .. n /\ (n # 0 => e.parent # 0)
      /\ e.type = "compaction" => e.ref \in Chain(s, e.parent)
  <2>1. parent \in 0 .. n /\ (n # 0 => parent # 0)
    BY <1>1
  <2>2. e \in SourceEntryTypes
    BY <2>1 DEF SourceEntryTypes
  <2>3. type = "compaction" => ref \in Chain(s, parent)
    <3> HAVE type = "compaction"
    <3>1. KnownEntry(e)
      BY <1>2
    <3>2. e.type = "compaction" /\ e.type # "label"
      OBVIOUS
    <3>3. e.ref \in Chain(sourceEntries, e.parent)
      <4> HIDE DEF e
      <4> QED BY <3>1, <3>2 DEF KnownEntry
    <3> QED BY <3>3
  <2> QED BY <2>1, <2>2, <2>3
<1>4. sourceEntries' = b
  BY <1>2
<1> HIDE DEF e
<1>5. /\ b \in Seq(SourceEntryTypes) /\ Len(b) = n + 1 /\ DOMAIN b = 1 .. n + 1 /\ b[n + 1] = e
      /\ \A i \in 1 .. n : b[i] = s[i]
  BY <1>1, <1>3
<1> HIDE DEF b
<1>6. Parents(b)
  <2>1. ASSUME NEW i \in DOMAIN b PROVE b[i].parent \in 0 .. i - 1
    <3>1. i = n + 1 \/ i \in DOMAIN s
      BY <1>1, <1>5
    <3> QED BY <1>1, <1>3, <1>5, <3>1 DEF Parents
  <2> QED BY <2>1 DEF Parents
<1>7. \A i \in 0 .. n : Chain(s, i) = Chain(b, i)
  <2>1. Len(b) \in Nat /\ DOMAIN b = 1 .. Len(b) /\ n <= Len(s) /\ n <= Len(b) /\ \A i \in 1 .. n : s[i] = b[i]
    BY <1>1, <1>5
  <2> HIDE DEF s
  <2> QED BY <1>1, <1>6, <2>1, ChainAgrees DEF s
<1>8. ASSUME NEW i \in DOMAIN b
      PROVE  /\ i > 1 => b[i].parent # 0
             /\ b[i].type = "compaction" => b[i].ref \in Chain(b, b[i].parent)
  <2>1. CASE i = n + 1
    BY <1>1, <1>3, <1>5, <1>7, <2>1
  <2>2. CASE i \in DOMAIN s
    <3>1. b[i] = s[i] /\ s[i].parent \in 0 .. n
      BY <1>1, <1>5, <2>2 DEF Parents
    <3> QED BY <1>1, <1>7, <2>2, <3>1 DEF SourceSound
  <2> QED BY <1>1, <1>5, <2>1, <2>2
<1>9. SourceSound'
  BY <1>4, <1>5, <1>6, <1>8 DEF SourceSound
<1> QED BY <1>1, <1>9, NothingStands

LEMMA ImportHoldsAtStart == ImportInit => ImportInv
<1> SUFFICES ASSUME ImportInit PROVE ImportInv
  OBVIOUS
<1>1. /\ out = NoRecords /\ phase = "load" /\ sourceEntries = <<>>
  BY DEF ImportInit
<1>2. /\ out.records = <<>> /\ out.leaf = <<>> /\ out.model = FALSE
      /\ <<>> \in Seq(ImportRecs) /\ <<>> \in Seq(Nat) /\ Len(<<>>) = 0 /\ DOMAIN <<>> = {}
  BY <1>1 DEF NoRecords
<1>3. out \in OutTypes
  BY <1>1, <1>2 DEF NoRecords, OutTypes
<1>4. Stand(out.records, Len(out.leaf))
  BY <1>2 DEF Stand
<1> QED BY <1>1, <1>2, <1>3, <1>4, EmptySource DEF ImportInv

LEMMA ImportKept == ImportInv /\ [ImportNext]_importVars => ImportInv'
<1> SUFFICES ASSUME ImportInv, [ImportNext]_importVars PROVE ImportInv'
  OBVIOUS
<1>0. out.model \in BOOLEAN /\ \A a : (out.model \/ a) \in BOOLEAN
  BY DEF ImportInv, OutTypes
<1>a. {"user", "call", "answer", "model", "metadata", "extension"} \subseteq ImportKinds \ {"selected", "compacted"}
  BY DEF ImportKinds
<1>b. ASSUME Quarantine PROVE ImportInv'
  BY <1>0, <1>a, <1>b, OneConverted DEF Quarantine
<1>c. ASSUME sourceEntries' = <<>>, out' = NoRecords, phase' \in {"ready", "refused"} PROVE ImportInv'
  <2>1. (sourceEntries = <<>> => SourceSound)'
    BY EmptySource, PTL
  <2> QED BY <1>c, <2>1, NothingStands
<1>1. CASE ParseEntry
  BY <1>1, ParseKeeps
<1>2. CASE LoadSource
  <2>1. phase' = "convert" /\ UNCHANGED <<sourceEntries, out>> /\ out = NoRecords /\ SourceSound
    BY <1>2 DEF LoadSource, ImportInv
  <2>2. SourceSound'
    BY <2>1 DEF SourceSound, Parents
  <2> QED BY <2>1, <2>2, NothingStands
<1>3. CASE ConvertMessage
  <2>1. CASE Quarantine
    BY <1>b, <2>1
  <2>2. PICK kind \in {"user", "call", "answer"} :
          \/ Quarantine
          \/ Convert(Extend(SelectSourceParent, Append(MaterializeContent, kind)),
                     out.model \/ Entry.type = "assistant")
    <3> DEFINE kind == CASE Entry.type = "user" -> "user" [] Entry.type = "assistant" -> "call"
                         [] OTHER -> "answer"
    <3>1. kind \in {"user", "call", "answer"}
      OBVIOUS
    <3>2. \/ Quarantine
          \/ Convert(Extend(SelectSourceParent, Append(MaterializeContent, kind)),
                     out.model \/ Entry.type = "assistant")
      BY <1>3 DEF ConvertMessage
    <3> HIDE DEF kind
    <3> QED BY <3>1, <3>2
  <2>3. CASE Entry.content = "image"
    BY <1>0, <1>a, <2>1, <2>2, <2>3, TwoConverted DEF MaterializeContent
  <2>4. CASE Entry.content # "image"
    <3>1. Append(MaterializeContent, kind) = <<kind>>
      BY <2>4 DEF MaterializeContent
    <3> QED BY <1>0, <1>a, <2>1, <2>2, <3>1, OneConverted
  <2> QED BY <2>3, <2>4
<1>4. CASE ConvertModelChange
  BY <1>a, <1>b, <1>4, OneConverted DEF ConvertModelChange
<1>5. CASE ConvertCompaction
  <2>1. CASE End("refused")
    BY <1>c, <2>1 DEF End
  <2>2. CASE ~End("refused")
    BY <1>5, <2>2, CompactionKeeps
  <2> QED BY <2>1, <2>2
<1>6. CASE ConvertBranchSummary
  BY <1>0, <1>a, <1>6, OneConverted DEF ConvertBranchSummary
<1>7. CASE ConvertSessionInfo
  BY <1>0, <1>a, <1>7, OneConverted DEF ConvertSessionInfo
<1>8. CASE ConvertExtension
  BY <1>b, <1>8 DEF ConvertExtension
<1>9. CASE AppendReport
  BY <1>c, <1>9 DEF AppendReport, End
<1>10. CASE UNCHANGED importVars
  BY <1>10 DEF importVars, ImportInv, SourceSound, Parents, Stand
<1> QED BY <1>1, <1>2, <1>3, <1>4, <1>5, <1>6, <1>7, <1>8, <1>9, <1>10 DEF ImportNext

LEMMA ImportedAreValid == ASSUME NEW rs \in Seq(ImportRecs), \A i \in DOMAIN rs : Placed(rs, i) PROVE Valid(rs)
<1>1. Parents(rs) /\ Len(rs) \in Nat /\ DOMAIN rs = 1 .. Len(rs)
  BY StandTree
<1>2. ASSUME NEW i \in DOMAIN rs, NEW p \in 1 .. i - 1 PROVE Quiescent(SubSeq(rs, 1, i - 1), p)
  <2> DEFINE b == SubSeq(rs, 1, i - 1)
  <2>1. /\ b \in Seq(ImportRecs) /\ Len(b) = i - 1 /\ DOMAIN b = 1 .. i - 1 /\ i - 1 \in Nat
        /\ \A j \in 1 .. i - 1 : b[j] = rs[j]
    BY <1>1
  <2> HIDE DEF b
  <2>2. Parents(b)
    BY <1>1, <2>1 DEF Parents
  <2>3. Chain(b, p) \subseteq 1 .. p
    BY <2>1, <2>2, ChainOrder
  <2>4. \A j \in Chain(b, p) : b[j].kind \in ImportKinds
    <3> TAKE j \in Chain(b, p)
    <3>1. j \in DOMAIN b
      BY <2>1, <2>3
    <3>2. b[j] \in ImportRecs
      BY <2>1, <3>1
    <3> QED BY <3>2 DEF ImportRecs
  <2>5. \A kind \in {"accepted", "intent"} : OfKind(b, Chain(b, p), kind) = {}
    BY <2>4 DEF OfKind, ImportKinds
  <2> QED BY <2>5 DEF Quiescent, b
<1>3. ASSUME NEW i \in DOMAIN rs
      PROVE  /\ IF rs[i].kind = "selected"
                THEN rs[i].parent \in 1 .. (i - 1) /\ Quiescent(SubSeq(rs, 1, i - 1), rs[i].parent)
                ELSE rs[i].parent = i - 1
             /\ rs[i].kind = "compacted" => Compaction(rs, i)
  BY <1>2 DEF Placed
<1> QED BY <1>3 DEF Valid

(* The journal a foreign session becomes is one that every reader accepts,   *)
(* and its branches are those of the source: the ancestry of an entry's leaf *)
(* holds the records of its source ancestors and of nothing else, for any    *)
(* tree of entries (legacy_session_v3_import.rs, select_source_parent and    *)
(* convert_compaction).                                                      *)
THEOREM ImportsAreFaithful == ImportSpec => []ImportFaithful
<1>1. ImportInv => ImportFaithful
  <2> SUFFICES ASSUME ImportInv PROVE ImportFaithful
    OBVIOUS
  <2>1. Stand(out.records, Len(out.leaf)) /\ out.records \in Seq(ImportRecs)
    BY DEF ImportInv, Stand
  <2>2. Valid(out.records)
    BY <2>1, ImportedAreValid DEF Stand
  <2>3. ImportKeepsTree
    BY <2>1 DEF Stand, ImportKeepsTree, Own, OfSources
  <2> QED BY <2>2, <2>3 DEF ImportFaithful, ImportReadable
<1> QED BY ImportHoldsAtStart, ImportKept, <1>1, PTL DEF ImportSpec

-----------------------------------------------------------------------------
(* The artifacts.                                                          *)

JobKinds == {"batch", "shot", "upload", "tool"}
Jobs == [pc : {"idle", "publish", "append", "cleanup"}, kind : JobKinds \cup {"none"},
         images : Seq(Pictures), ids : Seq(ArtifactIds), done : Nat]
ArtifactLines == [kind : {"artifact", "message", "cancelled"}, id : ArtifactIds \cup {0},
                  bytes : Pictures \cup {Absent}, shot : BOOLEAN]

\* The identifiers drawn so far; the others are digests.
Drawn(n) == {"uuid"} \X (1 .. n)
Digests == {"sha256"} \X Pictures

ArtifactTypes ==
  /\ files \in [ArtifactIds -> Pictures \cup {Absent}]
  /\ entries \in Seq(ArtifactLines) /\ worker \in [Workers -> Jobs] /\ drawn \in Nat

\* A job has an ID for every image, drawn for it unless it is a digest; what it
\* has published is there.
JobSound(job, n, fs) ==
  /\ Len(job.ids) = Len(job.images) /\ (job.pc = "append" => job.done = Len(job.ids))
  /\ job.pc = "publish" => job.done < Len(job.ids)
  /\ job.pc = "cleanup" => job.kind = "batch"
  /\ \A i \in DOMAIN job.ids : job.ids[i] \in Drawn(n) \cup Digests
  /\ job.kind = "batch" => \A i \in DOMAIN job.ids : job.ids[i] \in Drawn(n)
  /\ job.pc # "cleanup" =>
       \A i \in DOMAIN job.ids : i <= job.done => fs[job.ids[i]] = job.images[i]
JobsSound == \A w \in Workers : JobSound(worker[w], drawn, files)

\* Nobody else has the IDs a batch drew, and no line names them.
Apart(job, other) ==
  job.kind = "batch" =>
    \A i \in DOMAIN job.ids, j \in DOMAIN other.ids : job.ids[i] # other.ids[j]
Unnamed(job, ls) ==
  job.kind = "batch" =>
    \A i \in DOMAIN job.ids, k \in DOMAIN ls : ls[k].kind = "artifact" => ls[k].id # job.ids[i]
OwnIds ==
  /\ \A w, v \in Workers : w # v => Apart(worker[w], worker[v])
  /\ \A w \in Workers : Unnamed(worker[w], entries)

\* A line names a file that is there, under an ID that was drawn before.
Names_(line, n, fs) ==
  line.kind = "artifact" =>
    /\ line.bytes \in Pictures /\ line.id \in ArtifactIds /\ line.id \in Drawn(n) \cup Digests
    /\ fs[line.id] = line.bytes
NamedAreThere == \A k \in DOMAIN entries : Names_(entries[k], drawn, files)

\* A screenshot has the append lock from its look at the journal on.
ShotsHold ==
  /\ \A w \in Workers : worker[w].kind = "shot" => appendLock = w /\ ~Cancelled
  /\ \A i, j \in DOMAIN entries : entries[i].kind = "cancelled" /\ i < j => ~entries[j].shot

ArtifactInv == ArtifactTypes /\ JobsSound /\ OwnIds /\ NamedAreThere /\ ShotsHold

LEMMA DrawnGrows ==
  ASSUME NEW n \in Nat, NEW m \in Nat
  PROVE  /\ Drawn(n) \subseteq Drawn(n + m)
         /\ \A i \in 1 .. m : <<"uuid", n + i>> \in Drawn(n + m) /\ <<"uuid", n + i>> \notin Drawn(n)
         /\ \A i \in 1 .. m : <<"uuid", n + i>> \notin Digests
BY DEF Drawn, Digests

LEMMA IdleSound ==
  /\ Idle \in Jobs /\ Idle.kind = "none" /\ Idle.pc = "idle" /\ Idle.ids = <<>>
  /\ \A n \in Nat : \A fs : JobSound(Idle, n, fs)
  /\ \A ls : Unnamed(Idle, ls)
  /\ \A job : Apart(Idle, job) /\ Apart(job, Idle)
<1>1. <<>> \in Seq(Pictures) /\ <<>> \in Seq(ArtifactIds) /\ DOMAIN <<>> = {} /\ Len(<<>>) = 0
  OBVIOUS
<1>2. /\ Idle \in Jobs /\ Idle.kind = "none" /\ Idle.pc = "idle" /\ Idle.ids = <<>>
      /\ Idle.images = <<>>
  BY <1>1 DEF Idle, Jobs
<1>3. \A n \in Nat : \A fs : JobSound(Idle, n, fs)
  BY <1>1, <1>2 DEF JobSound
<1> QED BY <1>1, <1>2, <1>3 DEF Unnamed, Apart

LEMMA ArtifactHoldsAtStart == ArtifactInit => ArtifactInv
<1> SUFFICES ASSUME ArtifactInit PROVE ArtifactInv
  OBVIOUS
<1>1. <<>> \in Seq(ArtifactLines) /\ DOMAIN <<>> = {}
  OBVIOUS
<1>2. \A w \in Workers : worker[w] = Idle
  BY DEF ArtifactInit
<1>3. ArtifactTypes
  BY <1>1, IdleSound DEF ArtifactInit, ArtifactTypes
<1>4. drawn = 0 /\ entries = <<>>
  BY DEF ArtifactInit
<1>5. JobsSound /\ OwnIds
  BY <1>2, <1>4, IdleSound DEF JobsSound, OwnIds
<1>6. NamedAreThere /\ ShotsHold
  BY <1>1, <1>2, <1>4, IdleSound DEF NamedAreThere, ShotsHold, Cancelled
<1> QED BY <1>3, <1>5, <1>6 DEF ArtifactInv

\* One job changes its stage or ends; what the other jobs rely on stays.
LEMMA JobMoves ==
  ASSUME ArtifactInv, NEW w \in Workers, NEW job \in Jobs, worker' = [worker EXCEPT ![w] = job],
         \/ job = Idle /\ Release(w)
         \/ job.ids = worker[w].ids /\ job.kind = worker[w].kind /\ UNCHANGED appendLock,
         JobSound(job, drawn, files'), Unnamed(job, entries'),
         files' \in [ArtifactIds -> Pictures \cup {Absent}], entries' \in Seq(ArtifactLines),
         UNCHANGED drawn,
         \A v \in Workers \ {w} : JobSound(worker[v], drawn, files') /\ Unnamed(worker[v], entries'),
         NamedAreThere', Cancelled' = Cancelled,
         \A i, j \in DOMAIN entries' : entries'[i].kind = "cancelled" /\ i < j => ~entries'[j].shot
  PROVE  ArtifactInv'
<1> USE DEF ArtifactInv
<1>1. /\ worker \in [Workers -> Jobs] /\ worker'[w] = job
      /\ \A v \in Workers : v # w => worker'[v] = worker[v]
  BY DEF ArtifactTypes
<1>2. ArtifactTypes'
  BY <1>1 DEF ArtifactTypes
<1>3. JobsSound'
  BY <1>1 DEF JobsSound
<1>4. \A v \in Workers : v # w => Apart(job, worker[v]) /\ Apart(worker[v], job)
  BY IdleSound DEF OwnIds, Apart
<1>5. OwnIds'
  BY <1>1, <1>4 DEF OwnIds
<1>6. \A v \in Workers : worker'[v].kind = "shot" => appendLock' = v /\ ~Cancelled'
  <2> SUFFICES ASSUME NEW v \in Workers, worker'[v].kind = "shot" PROVE appendLock' = v /\ ~Cancelled'
    OBVIOUS
  <2>1. worker[v].kind = "shot" /\ (v = w => job # Idle)
    BY <1>1, IdleSound
  <2>2. appendLock = v /\ ~Cancelled
    BY <2>1 DEF ShotsHold
  <2> QED BY <2>1, <2>2 DEF Release, Holds
<1>7. ShotsHold'
  BY <1>6 DEF ShotsHold
<1> QED BY <1>2, <1>3, <1>5, <1>7

\* A job that is over takes nothing with it.
LEMMA JobGivenUp ==
  ASSUME ArtifactInv, NEW w \in Workers, Fails(w), UNCHANGED <<files, entries, drawn>>
  PROVE  ArtifactInv'
<1> USE DEF ArtifactInv
<1>1. worker' = [worker EXCEPT ![w] = Idle] /\ Release(w)
  BY DEF Fails
<1>2. UNCHANGED Cancelled /\ drawn \in Nat
  BY DEF Cancelled, ArtifactTypes
<1>3. NamedAreThere'
  BY DEF NamedAreThere
<1>4. Idle \in Jobs /\ JobSound(Idle, drawn, files') /\ Unnamed(Idle, entries')
  BY <1>2, IdleSound
<1>5. \A v \in Workers : JobSound(worker[v], drawn, files') /\ Unnamed(worker[v], entries')
  BY DEF JobsSound, OwnIds
<1> QED BY <1>1, <1>2, <1>3, <1>4, <1>5, JobMoves DEF ArtifactTypes, ShotsHold

\* Where a failure leads: a batch has its files to remove.
LEMMA JobRefused ==
  ASSUME ArtifactInv, NEW w \in Workers,
         \/ Refuse(w)
         \/ worker[w].kind = "batch" /\ Reach(w, "cleanup") /\ UNCHANGED appendLock,
         UNCHANGED <<entries, drawn>>,
         files' \in [ArtifactIds -> Pictures \cup {Absent}], NamedAreThere',
         \A v \in Workers : JobSound(worker[v], drawn, files')
  PROVE  ArtifactInv'
<1> USE DEF ArtifactInv
<1>1. /\ UNCHANGED Cancelled /\ drawn \in Nat /\ worker[w] \in Jobs
      /\ \A v \in Workers : Unnamed(worker[v], entries')
  BY DEF Cancelled, ArtifactTypes, OwnIds
<1>2. CASE Fails(w)
  <2>1. Idle \in Jobs /\ JobSound(Idle, drawn, files') /\ Unnamed(Idle, entries')
    BY <1>1, IdleSound
  <2> QED BY <1>1, <1>2, <2>1, JobMoves DEF Fails, ArtifactTypes, ShotsHold
<1>3. CASE worker[w].kind = "batch" /\ Reach(w, "cleanup") /\ UNCHANGED appendLock
  <2> DEFINE job == [worker[w] EXCEPT !.pc = "cleanup"]
  <2>1. /\ job \in Jobs /\ job.pc = "cleanup" /\ job.ids = worker[w].ids /\ job.kind = worker[w].kind
        /\ job.done = worker[w].done /\ job.images = worker[w].images
    BY <1>1 DEF Jobs
  <2>2. worker' = [worker EXCEPT ![w] = job]
    BY <1>3 DEF Reach
  <2> HIDE DEF job
  <2>3. JobSound(job, drawn, files') /\ Unnamed(job, entries')
    BY <1>1, <1>3, <2>1 DEF JobSound, Unnamed
  <2> QED BY <1>1, <1>3, <2>1, <2>2, <2>3, JobMoves DEF ArtifactTypes, ShotsHold
<1> QED BY <1>2, <1>3 DEF Refuse

\* What a job's lines say: its images under their IDs, nothing of a
\* cancellation, and the screen only in a screenshot's.
LineOf(job, line) ==
  /\ line \in ArtifactLines /\ line.kind # "cancelled" /\ (line.shot => job.kind = "shot")
  /\ line.kind = "artifact" =>
       \E i \in DOMAIN job.ids : line.id = job.ids[i] /\ line.bytes = job.images[i]

LEMMA LinesSound ==
  ASSUME ArtifactInv, NEW w \in Workers, worker[w].pc = "append"
  PROVE  Lines(w) \in Seq(ArtifactLines) /\ \A k \in DOMAIN Lines(w) : LineOf(worker[w], Lines(w)[k])
<1> DEFINE job == worker[w]
           named == [i \in DOMAIN job.ids |->
                        Line("artifact", job.ids[i], job.images[i], job.kind = "shot")]
           message == Line("message", 0, Absent, FALSE)
<1>1. job \in Jobs /\ job.ids \in Seq(ArtifactIds) /\ job.images \in Seq(Pictures)
      /\ Len(job.ids) = Len(job.images)
  BY DEF ArtifactInv, ArtifactTypes, JobsSound, JobSound, Jobs
<1>2. \A i \in DOMAIN job.ids : /\ job.ids[i] \in ArtifactIds /\ job.images[i] \in Pictures
                                /\ named[i] = Line("artifact", job.ids[i], job.images[i], job.kind = "shot")
  BY <1>1
<1>3. \A i \in DOMAIN named : LineOf(job, named[i]) /\ named[i] \in ArtifactLines
  BY <1>2 DEF LineOf, Line, ArtifactLines
<1>4. LineOf(job, message) /\ message \in ArtifactLines
  BY DEF LineOf, Line, ArtifactLines
<1>5. named \in Seq(ArtifactLines) /\ DOMAIN named = 1 .. Len(job.ids) /\ Len(named) = Len(job.ids)
  <2>1. DOMAIN named = 1 .. Len(job.ids) /\ Len(job.ids) \in Nat
    BY <1>1
  <2> QED BY <1>3, <2>1
<1> HIDE DEF named, message
<1>6. /\ Append(named, message) \in Seq(ArtifactLines)
      /\ \A k \in DOMAIN Append(named, message) : LineOf(job, Append(named, message)[k])
  BY <1>3, <1>4, <1>5
<1>7. Lines(w) = IF job.kind = "batch" THEN Append(named, message) ELSE named
  BY DEF Lines, named, message
<1> QED BY <1>3, <1>5, <1>6, <1>7

\* Lines of a job enter the journal: the files they name are there already.
LEMMA LinesJoin ==
  ASSUME ArtifactInv, NEW w \in Workers, worker[w].pc = "append", NEW more \in Seq(ArtifactLines),
         \A k \in DOMAIN more : LineOf(worker[w], more[k]),
         entries' = entries \o more, UNCHANGED <<files, drawn>>
  PROVE  /\ entries' \in Seq(ArtifactLines) /\ NamedAreThere' /\ Cancelled' = Cancelled
         /\ \A i, j \in DOMAIN entries' : entries'[i].kind = "cancelled" /\ i < j => ~entries'[j].shot
         /\ \A v \in Workers \ {w} : Unnamed(worker[v], entries')
<1> USE DEF ArtifactInv
<1>1. entries \in Seq(ArtifactLines) /\ Len(entries) \in Nat /\ Len(more) \in Nat
  BY DEF ArtifactTypes
<1>2. /\ entries' \in Seq(ArtifactLines) /\ DOMAIN entries' = 1 .. (Len(entries) + Len(more))
      /\ DOMAIN entries = 1 .. Len(entries) /\ DOMAIN more = 1 .. Len(more)
  BY <1>1
<1>3. \A k \in DOMAIN entries' :
        \/ k \in DOMAIN entries /\ entries'[k] = entries[k]
        \/ k \notin DOMAIN entries /\ LineOf(worker[w], entries'[k])
  <2> SUFFICES ASSUME NEW k \in DOMAIN entries', k \notin DOMAIN entries
               PROVE  LineOf(worker[w], entries'[k])
    BY <1>1, <1>2
  <2>1. k - Len(entries) \in DOMAIN more /\ entries'[k] = more[k - Len(entries)]
    BY <1>1, <1>2
  <2> QED BY <2>1
<1>4. \A k \in DOMAIN entries : k \in DOMAIN entries' /\ entries'[k] = entries[k]
  BY <1>1, <1>2
<1>5. /\ worker[w] \in Jobs /\ JobSound(worker[w], drawn, files) /\ worker[w].done = Len(worker[w].ids)
      /\ worker[w].ids \in Seq(ArtifactIds) /\ worker[w].images \in Seq(Pictures)
      /\ Len(worker[w].ids) = Len(worker[w].images)
  BY DEF ArtifactTypes, JobsSound, JobSound, Jobs
<1>6. \A i \in DOMAIN worker[w].ids :
        /\ files[worker[w].ids[i]] = worker[w].images[i] /\ worker[w].images[i] \in Pictures
        /\ worker[w].ids[i] \in ArtifactIds /\ worker[w].ids[i] \in Drawn(drawn) \cup Digests
  BY <1>5 DEF JobSound
<1>7. \A line : LineOf(worker[w], line) => Names_(line, drawn, files)
  BY <1>6 DEF LineOf, Names_
<1>8. NamedAreThere'
  BY <1>3, <1>7 DEF NamedAreThere
<1>9. Cancelled' = Cancelled
  BY <1>3, <1>4 DEF Cancelled, LineOf
<1>10. \A i, j \in DOMAIN entries' : entries'[i].kind = "cancelled" /\ i < j => ~entries'[j].shot
  <2> SUFFICES ASSUME NEW i \in DOMAIN entries', NEW j \in DOMAIN entries',
                      entries'[i].kind = "cancelled", i < j, entries'[j].shot
               PROVE  FALSE
    BY Zenon
  <2>1. i \in DOMAIN entries /\ entries[i].kind = "cancelled"
    BY <1>3 DEF LineOf
  <2>2. CASE j \in DOMAIN entries
    <3>1. entries'[j] = entries[j]
      BY <2>2, <1>4
    <3> QED BY <2>1, <2>2, <3>1 DEF ShotsHold
  <2>3. CASE j \notin DOMAIN entries
    <3>1. worker[w].kind = "shot"
      BY <2>3, <1>3 DEF LineOf
    <3> QED BY <2>1, <3>1 DEF ShotsHold, Cancelled
  <2> QED BY <2>2, <2>3
<1>11. ASSUME NEW v \in Workers \ {w} PROVE Unnamed(worker[v], entries')
  <2> SUFFICES ASSUME worker[v].kind = "batch", NEW i \in DOMAIN worker[v].ids,
                      NEW k \in DOMAIN entries', entries'[k].kind = "artifact"
               PROVE  entries'[k].id # worker[v].ids[i]
    BY DEF Unnamed
  <2>1. Unnamed(worker[v], entries) /\ Apart(worker[v], worker[w])
    BY DEF OwnIds
  <2> QED BY <1>3, <2>1 DEF Unnamed, Apart, LineOf
<1> QED BY <1>2, <1>8, <1>9, <1>10, <1>11

\* The ways an append ends: done, or failed with some lines written.
LEMMA AppendKeeps ==
  ASSUME ArtifactInv, NEW w \in Workers, AppendLines(w) \/ AppendFails(w)
  PROVE  ArtifactInv'
<1> USE DEF ArtifactInv
<1>1. /\ worker[w].pc = "append" /\ UNCHANGED <<files, drawn>> /\ drawn \in Nat
      /\ Lines(w) \in Seq(ArtifactLines) /\ Len(Lines(w)) \in Nat
      /\ \A k \in DOMAIN Lines(w) : LineOf(worker[w], Lines(w)[k])
  <2>1. worker[w].pc = "append" /\ UNCHANGED <<files, drawn>> /\ drawn \in Nat
    BY DEF AppendLines, AppendFails, ArtifactTypes
  <2> QED BY <2>1, LinesSound
<1>2. ASSUME NEW more \in Seq(ArtifactLines), entries' = entries \o more, Fails(w),
             \A k \in DOMAIN more : LineOf(worker[w], more[k])
      PROVE  ArtifactInv'
  <2>1. /\ entries' \in Seq(ArtifactLines) /\ NamedAreThere' /\ Cancelled' = Cancelled
        /\ \A i, j \in DOMAIN entries' : entries'[i].kind = "cancelled" /\ i < j => ~entries'[j].shot
        /\ \A v \in Workers \ {w} : Unnamed(worker[v], entries')
    BY <1>1, <1>2, LinesJoin
  <2>2. Idle \in Jobs /\ JobSound(Idle, drawn, files') /\ Unnamed(Idle, entries')
    BY <1>1, IdleSound
  <2>3. files' \in [ArtifactIds -> Pictures \cup {Absent}] /\ UNCHANGED drawn
        /\ \A v \in Workers : JobSound(worker[v], drawn, files')
    BY <1>1 DEF ArtifactTypes, JobsSound
  <2>4. worker' = [worker EXCEPT ![w] = Idle] /\ Release(w)
    BY <1>2 DEF Fails
  <2> QED BY <2>1, <2>2, <2>3, <2>4, JobMoves
<1>3. CASE AppendLines(w)
  <2>1. entries' = entries \o Lines(w) /\ Fails(w)
    BY <1>3 DEF AppendLines
  <2> QED BY <1>1, <1>2, <2>1
<1>4. CASE AppendFails(w)
  <2>1. PICK n \in 0 .. Len(Lines(w)) : entries' = entries \o SubSeq(Lines(w), 1, n)
    BY <1>4 DEF AppendFails
  <2> DEFINE more == SubSeq(Lines(w), 1, n)
  <2>2. /\ more \in Seq(ArtifactLines) /\ \A k \in DOMAIN more : LineOf(worker[w], more[k])
    BY <1>1
  <2> HIDE DEF more
  <2>3. CASE Fails(w)
    BY <1>2, <2>1, <2>2, <2>3 DEF more
  <2>4. CASE Cleans(w) /\ Reach(w, "cleanup") /\ UNCHANGED appendLock
    <3>1. UNCHANGED entries /\ worker[w].kind = "batch"
      BY <2>4 DEF Cleans
    <3>2. NamedAreThere' /\ files' \in [ArtifactIds -> Pictures \cup {Absent}]
          /\ \A v \in Workers : JobSound(worker[v], drawn, files')
      BY <1>1, <3>1 DEF NamedAreThere, ArtifactTypes, JobsSound
    <3> QED BY <1>1, <2>4, <3>1, <3>2, JobRefused
  <2> QED BY <1>4, <2>3, <2>4 DEF AppendFails
<1> QED BY <1>3, <1>4

LEMMA StageSet ==
  ASSUME NEW job \in Jobs, NEW pc \in {"append", "publish"}
  PROVE  LET next == [job EXCEPT !.done = @ + 1, !.pc = pc]
         IN  /\ next.done = job.done + 1 /\ next.pc = pc /\ next.ids = job.ids /\ next.kind = job.kind
             /\ next.images = job.images /\ next \in Jobs
<1>1. job.done \in Nat /\ job.done + 1 \in Nat
  BY DEF Jobs
<1> QED BY <1>1 DEF Jobs

\* A file is published under a name nobody has or that has the same bytes, so
\* all that was there stays there.
LEMMA PublishKeeps ==
  ASSUME ArtifactInv, NEW w \in Workers, PublishNoReplace(w)
  PROVE  ArtifactInv'
<1> USE DEF ArtifactInv
<1> DEFINE job == worker[w]
           at == job.done + 1
           id == job.ids[at]
           bytes == job.images[at]
<1>1. /\ job \in Jobs /\ job.ids \in Seq(ArtifactIds) /\ job.images \in Seq(Pictures) /\ job.done \in Nat
      /\ Len(job.ids) = Len(job.images) /\ job.done < Len(job.ids) /\ JobSound(job, drawn, files)
      /\ job.pc = "publish" /\ UNCHANGED <<entries, drawn>> /\ drawn \in Nat
  BY DEF ArtifactTypes, JobsSound, JobSound, Jobs, PublishNoReplace
<1>2. at \in DOMAIN job.ids /\ id \in ArtifactIds /\ bytes \in Pictures
  BY <1>1
<1>3. files[id] \in {Absent, bytes} /\ files' = [files EXCEPT ![id] = bytes]
  BY DEF PublishNoReplace, Current, Bytes
<1>4. files' \in [ArtifactIds -> Pictures \cup {Absent}] /\ files'[id] = bytes
  BY <1>2, <1>3 DEF ArtifactTypes
<1>5. \A x, p : x \in ArtifactIds /\ p \in Pictures /\ files[x] = p => files'[x] = p
  BY <1>2, <1>3, <1>4, ArtifactAssumption DEF ArtifactTypes
<1>6. NamedAreThere'
  <2>1. \A line : Names_(line, drawn, files) => Names_(line, drawn, files')
    BY <1>5 DEF Names_
  <2> QED BY <1>1, <2>1 DEF NamedAreThere
<1>7. \A v \in Workers : JobSound(worker[v], drawn, files')
  <2> SUFFICES ASSUME NEW v \in Workers PROVE JobSound(worker[v], drawn, files')
    OBVIOUS
  <2>1. /\ JobSound(worker[v], drawn, files) /\ worker[v].ids \in Seq(ArtifactIds)
        /\ worker[v].images \in Seq(Pictures) /\ Len(worker[v].ids) = Len(worker[v].images)
    BY DEF JobsSound, JobSound, ArtifactTypes, Jobs
  <2>2. \A i \in DOMAIN worker[v].ids : worker[v].ids[i] \in ArtifactIds /\ worker[v].images[i] \in Pictures
    BY <2>1
  <2> QED BY <1>5, <2>1, <2>2 DEF JobSound
<1>8. CASE /\ worker' = [worker EXCEPT ![w].done = @ + 1,
                                       ![w].pc = IF at = Len(job.images) THEN "append" ELSE "publish"]
           /\ UNCHANGED <<appendLock, mishaps>>
  <2> DEFINE stage == IF at = Len(job.images) THEN "append" ELSE "publish"
             next == [job EXCEPT !.done = @ + 1, !.pc = stage]
  <2>1. /\ next.done = at /\ next.ids = job.ids /\ next.images = job.images /\ next.kind = job.kind
        /\ next.pc = stage /\ next \in Jobs
    <3>1. job \in Jobs /\ stage \in {"append", "publish"}
      BY <1>1
    <3> HIDE DEF job, stage
    <3> QED BY <3>1, StageSet
  <2>2. worker' = [worker EXCEPT ![w] = next]
    BY <1>8
  <2> HIDE DEF next
  <2>3. \A i \in DOMAIN job.ids : i <= at => files'[job.ids[i]] = job.images[i]
    <3> SUFFICES ASSUME NEW i \in DOMAIN job.ids, i <= at PROVE files'[job.ids[i]] = job.images[i]
      OBVIOUS
    <3>1. i \in Nat /\ (i = at \/ i <= job.done)
      <4>1. DOMAIN job.ids = 1 .. Len(job.ids) /\ Len(job.ids) \in Nat
        BY <1>1
      <4>2. \A d \in Nat : i <= d + 1 /\ i \in Nat => i = d + 1 \/ i <= d
        OBVIOUS
      <4> QED BY <1>1, <4>1, <4>2
    <3>2. i <= job.done => files'[job.ids[i]] = job.images[i]
      BY <1>1, <1>7 DEF JobSound
    <3> QED BY <1>4, <3>1, <3>2
  <2>4. next.pc = "append" => next.done = Len(next.ids)
    BY <1>1, <2>1
  <2>5. next.pc = "publish" => next.done < Len(next.ids)
    BY <1>1, <2>1
  <2>6. JobSound(next, drawn, files')
    BY <1>1, <2>1, <2>3, <2>4, <2>5 DEF JobSound
  <2>7. Unnamed(next, entries') /\ \A v \in Workers : Unnamed(worker[v], entries')
    BY <1>1, <2>1 DEF OwnIds, Unnamed
  <2>8. /\ Cancelled' = Cancelled /\ entries' \in Seq(ArtifactLines)
        /\ \A i, j \in DOMAIN entries' : entries'[i].kind = "cancelled" /\ i < j => ~entries'[j].shot
    BY <1>1 DEF Cancelled, ArtifactTypes, ShotsHold
  <2> QED BY <1>1, <1>4, <1>6, <1>7, <1>8, <2>1, <2>2, <2>6, <2>7, <2>8, JobMoves
<1>9. CASE Refuse(w)
  <2>1. UNCHANGED <<entries, drawn>>
    BY <1>1
  <2>2. files' \in [ArtifactIds -> Pictures \cup {Absent}]
    BY <1>4
  <2> HIDE DEF ArtifactInv
  <2> QED BY <1>6, <1>7, <1>9, <2>1, <2>2, JobRefused
<1> QED BY <1>8, <1>9 DEF PublishNoReplace

\* A batch removes the files it published, which nobody else has and no line names.
LEMMA CleanupKeeps ==
  ASSUME ArtifactInv, NEW w \in Workers, Cleanup(w)
  PROVE  ArtifactInv'
<1> USE DEF ArtifactInv
<1> DEFINE job == worker[w]
           own == {job.ids[i] : i \in {j \in DOMAIN job.ids : j <= job.done + 1}}
<1>1. /\ job.pc = "cleanup" /\ UNCHANGED <<entries, drawn>> /\ drawn \in Nat
      /\ files' = [id \in ArtifactIds |-> IF id \in own THEN Absent ELSE files[id]]
      /\ worker' = [worker EXCEPT ![w] = Idle] /\ Release(w)
  BY DEF Cleanup, Fails, ArtifactTypes
<1>2. job.kind = "batch" /\ JobSound(job, drawn, files)
  BY <1>1 DEF JobsSound, JobSound
<1>3. \A id \in ArtifactIds : id \notin own => files'[id] = files[id]
  BY <1>1
<1>4. files' \in [ArtifactIds -> Pictures \cup {Absent}]
  BY <1>1 DEF ArtifactTypes
<1>5. NamedAreThere'
  <2> SUFFICES ASSUME NEW k \in DOMAIN entries PROVE Names_(entries[k], drawn, files')
    BY <1>1 DEF NamedAreThere
  <2>1. Names_(entries[k], drawn, files)
    BY DEF NamedAreThere
  <2>2. entries[k].kind = "artifact" => entries[k].id \notin own
    BY <1>2 DEF OwnIds, Unnamed
  <2> QED BY <1>3, <2>1, <2>2 DEF Names_
<1>6. ASSUME NEW v \in Workers \ {w} PROVE JobSound(worker[v], drawn, files')
  <2>1. JobSound(worker[v], drawn, files) /\ worker[v].ids \in Seq(ArtifactIds)
    BY DEF JobsSound, ArtifactTypes, Jobs
  <2>2. \A i \in DOMAIN worker[v].ids : worker[v].ids[i] \in ArtifactIds /\ worker[v].ids[i] \notin own
    BY <1>2, <2>1 DEF OwnIds, Apart
  <2> QED BY <1>3, <2>1, <2>2 DEF JobSound
<1> HIDE DEF own
<1>7. Idle \in Jobs /\ JobSound(Idle, drawn, files') /\ Unnamed(Idle, entries')
  BY <1>1, IdleSound
<1>8. /\ Cancelled' = Cancelled /\ entries' \in Seq(ArtifactLines)
      /\ \A v \in Workers : Unnamed(worker[v], entries')
      /\ \A i, j \in DOMAIN entries' : entries'[i].kind = "cancelled" /\ i < j => ~entries'[j].shot
  BY <1>1 DEF Cancelled, ArtifactTypes, ShotsHold, OwnIds
<1> QED BY <1>1, <1>4, <1>5, <1>6, <1>7, <1>8, JobMoves

\* A job begins with IDs nobody had before, or with a digest.
LEMMA JobBegins ==
  ASSUME ArtifactInv, NEW w \in Workers, NEW job \in Jobs, worker' = [worker EXCEPT ![w] = job],
         NEW n \in Nat, drawn' = drawn + n, UNCHANGED <<files, entries>>,
         JobSound(job, drawn + n, files),
         \A i \in DOMAIN job.ids : job.ids[i] \notin Drawn(drawn),
         job.kind = "batch" => \A i \in DOMAIN job.ids : job.ids[i] \notin Digests,
         appendLock' = appendLock \/ appendLock = Absent,
         job.kind = "shot" => appendLock' = w /\ ~Cancelled
  PROVE  ArtifactInv'
<1> USE DEF ArtifactInv
<1>1. /\ worker \in [Workers -> Jobs] /\ worker'[w] = job /\ drawn \in Nat /\ drawn + n \in Nat
      /\ \A v \in Workers : v # w => worker'[v] = worker[v]
  BY DEF ArtifactTypes
<1>2. ArtifactTypes'
  BY <1>1 DEF ArtifactTypes
<1>3. Drawn(drawn) \subseteq Drawn(drawn')
  BY <1>1, DrawnGrows
<1>4. JobsSound'
  <2> SUFFICES ASSUME NEW v \in Workers PROVE JobSound(worker'[v], drawn', files')
    BY DEF JobsSound
  <2>1. JobSound(worker[v], drawn, files)
    BY DEF JobsSound
  <2>2. JobSound(worker[v], drawn', files')
    BY <1>3, <2>1 DEF JobSound
  <2> QED BY <1>1, <2>2
<1>5. ASSUME NEW v \in Workers, v # w PROVE Apart(job, worker[v]) /\ Apart(worker[v], job)
  <2>1. JobSound(worker[v], drawn, files)
    BY DEF JobsSound
  <2> QED BY <2>1 DEF JobSound, Apart
<1>6. Unnamed(job, entries)
  <2>1. \A k \in DOMAIN entries : Names_(entries[k], drawn, files)
    BY DEF NamedAreThere
  <2> QED BY <2>1 DEF Names_, Unnamed
<1>7. OwnIds'
  BY <1>1, <1>5, <1>6 DEF OwnIds
<1>8. NamedAreThere'
  <2>1. \A line : Names_(line, drawn, files) => Names_(line, drawn', files)
    BY <1>3 DEF Names_
  <2> QED BY <2>1 DEF NamedAreThere
<1>9. Cancelled' = Cancelled
  BY DEF Cancelled
<1>10. \A v \in Workers : worker'[v].kind = "shot" => appendLock' = v /\ ~Cancelled'
  BY <1>1, <1>9, ArtifactAssumption DEF ShotsHold
<1>11. ShotsHold'
  BY <1>10 DEF ShotsHold
<1> QED BY <1>2, <1>4, <1>7, <1>8, <1>11

LEMMA TakeLockKeeps ==
  ASSUME ArtifactInv, NEW w \in Workers, NEW kind \in {"batch", "shot"}, NEW images \in Seq(Pictures),
         Len(images) > 0, TakeLock(w, kind, images)
  PROVE  ArtifactInv'
<1> DEFINE ids == [i \in DOMAIN images |-> <<"uuid", drawn + i>>]
           job == [pc |-> "publish", kind |-> kind, images |-> images, done |-> 0, ids |-> ids]
<1>1. /\ drawn \in Nat /\ Len(images) \in Nat /\ drawn + Len(images) \in Nat
      /\ DOMAIN images = 1 .. Len(images) /\ drawn + Len(images) <= MaxIds
  BY DEF ArtifactInv, ArtifactTypes, TakeLock
<1>2. \A i \in 1 .. Len(images) :
        /\ <<"uuid", drawn + i>> \in Drawn(drawn + Len(images)) /\ <<"uuid", drawn + i>> \notin Drawn(drawn)
        /\ <<"uuid", drawn + i>> \notin Digests /\ <<"uuid", drawn + i>> \in ArtifactIds
  <2>1. \A n, m \in Nat : n + m <= MaxIds => \A i \in 1 .. m : i \in Nat /\ n + i \in 1 .. MaxIds
    BY ArtifactAssumption
  <2>2. \A i \in 1 .. Len(images) : i \in Nat /\ drawn + i \in 1 .. MaxIds
    BY <1>1, <2>1, Zenon
  <2> QED BY <1>1, <2>2, DrawnGrows DEF ArtifactIds
<1>3. ids \in Seq(ArtifactIds) /\ Len(ids) = Len(images) /\ DOMAIN ids = 1 .. Len(images)
  BY <1>1, <1>2
<1>4. \A i \in DOMAIN ids : ids[i] = <<"uuid", drawn + i>>
  BY <1>1
<1> HIDE DEF ids
<1>5. job \in Jobs /\ job.ids = ids /\ job.images = images /\ job.kind = kind /\ job.pc = "publish" /\ job.done = 0
  BY <1>3 DEF Jobs, JobKinds
<1>6. worker' = [worker EXCEPT ![w] = job] /\ appendLock = Absent /\ appendLock' = w
      /\ drawn' = drawn + Len(images) /\ UNCHANGED <<files, entries>>
      /\ (kind = "shot" => ~Cancelled)
  BY DEF TakeLock, Admitted, ids
<1> HIDE DEF job
<1>7. \A i \in DOMAIN job.ids : ~(i <= 0)
  BY <1>1, <1>3, <1>5
<1>8. JobSound(job, drawn + Len(images), files)
  BY <1>1, <1>2, <1>3, <1>4, <1>5, <1>7 DEF JobSound
<1>9. \A i \in DOMAIN job.ids : job.ids[i] \notin Drawn(drawn) /\ job.ids[i] \notin Digests
  BY <1>2, <1>3, <1>4, <1>5
<1> QED BY <1>1, <1>5, <1>6, <1>8, <1>9, JobBegins

LEMMA StoreArtifactKeeps ==
  ASSUME ArtifactInv, NEW w \in Workers, NEW kind \in {"upload", "tool"}, StoreArtifact(w, kind)
  PROVE  ArtifactInv'
<1>1. PICK a \in Pictures :
         worker' = [worker EXCEPT ![w] =
             [pc |-> "publish", kind |-> kind, images |-> <<a>>, done |-> 0,
              ids |-> <<IF kind = "upload" THEN <<"uuid", drawn + 1>> ELSE <<"sha256", a>> >>]]
  BY DEF StoreArtifact
<1> DEFINE id == IF kind = "upload" THEN <<"uuid", drawn + 1>> ELSE <<"sha256", a>>
           job == [pc |-> "publish", kind |-> kind, images |-> <<a>>, done |-> 0, ids |-> <<id>>]
<1>2. drawn \in Nat /\ drawn < MaxIds /\ drawn' = drawn + 1 /\ UNCHANGED <<files, entries, appendLock>>
  BY DEF ArtifactInv, ArtifactTypes, StoreArtifact
<1>3. drawn + 1 \in 1 .. MaxIds
  BY <1>2, ArtifactAssumption
<1>4. id \in Drawn(drawn + 1) \cup Digests /\ id \notin Drawn(drawn) /\ id \in ArtifactIds
  BY <1>2, <1>3 DEF Drawn, Digests, ArtifactIds
<1> HIDE DEF id
<1>5. /\ <<id>> \in Seq(ArtifactIds) /\ <<a>> \in Seq(Pictures) /\ Len(<<id>>) = 1 /\ Len(<<a>>) = 1
      /\ DOMAIN <<id>> = {1} /\ <<id>>[1] = id
  BY <1>4
<1>6. /\ job \in Jobs /\ job.ids = <<id>> /\ job.images = <<a>> /\ job.kind = kind /\ job.pc = "publish"
      /\ job.done = 0
  BY <1>5 DEF Jobs, JobKinds
<1>7. worker' = [worker EXCEPT ![w] = job]
  BY <1>1 DEF id
<1> HIDE DEF job
<1>8. JobSound(job, drawn + 1, files)
  BY <1>4, <1>5, <1>6 DEF JobSound
<1>9. \A i \in DOMAIN job.ids : job.ids[i] \notin Drawn(drawn)
  BY <1>4, <1>5, <1>6
<1> QED BY <1>2, <1>6, <1>7, <1>8, <1>9, JobBegins

\* Wherever the process dies, the lines that got through name files that are there.
LEMMA ArtifactCrashKeeps ==
  ASSUME ArtifactInv, ArtifactCrash
  PROVE  ArtifactInv'
<1> USE DEF ArtifactInv
<1>1. /\ UNCHANGED <<files, token, drawn>> /\ appendLock' = Absent /\ drawn \in Nat
      /\ worker' = [w \in Workers |-> Idle]
  BY DEF ArtifactCrash, ArtifactTypes
<1>2. /\ entries' \in Seq(ArtifactLines) /\ NamedAreThere'
      /\ \A i, j \in DOMAIN entries' : entries'[i].kind = "cancelled" /\ i < j => ~entries'[j].shot
  <2>1. CASE UNCHANGED entries
    BY <1>1, <2>1 DEF ArtifactTypes, NamedAreThere, ShotsHold
  <2>2. ASSUME NEW w \in Workers, worker[w].pc = "append", NEW n \in 1 .. Len(Lines(w)),
               entries' = entries \o SubSeq(Lines(w), 1, n)
        PROVE  /\ entries' \in Seq(ArtifactLines) /\ NamedAreThere'
               /\ \A i, j \in DOMAIN entries' : entries'[i].kind = "cancelled" /\ i < j => ~entries'[j].shot
    <3> DEFINE more == SubSeq(Lines(w), 1, n)
    <3>1. /\ Lines(w) \in Seq(ArtifactLines) /\ Len(Lines(w)) \in Nat
          /\ \A k \in DOMAIN Lines(w) : LineOf(worker[w], Lines(w)[k])
      BY <2>2, LinesSound
    <3>2. /\ more \in Seq(ArtifactLines) /\ \A k \in DOMAIN more : LineOf(worker[w], more[k])
      BY <3>1
    <3> HIDE DEF more
    <3> QED BY <1>1, <2>2, <3>2, LinesJoin DEF more
  <2> QED BY <2>1, <2>2 DEF ArtifactCrash
<1>3. \A w \in Workers : worker'[w] = Idle
  BY <1>1
<1>4. ArtifactTypes' /\ JobsSound' /\ OwnIds'
  BY <1>1, <1>2, <1>3, IdleSound DEF ArtifactTypes, JobsSound, OwnIds
<1>5. ShotsHold'
  BY <1>2, <1>3, IdleSound DEF ShotsHold
<1> QED BY <1>2, <1>4, <1>5

\* The cancellation is recorded under the lock, so no screenshot is on its way.
LEMMA CancellationKeeps ==
  ASSUME ArtifactInv, RecordCancellation
  PROVE  ArtifactInv'
<1> USE DEF ArtifactInv
<1> DEFINE line == Line("cancelled", 0, Absent, FALSE)
<1>1. /\ entries' = Append(entries, line) /\ UNCHANGED <<files, appendLock, token, worker, drawn>>
      /\ appendLock = Absent /\ ~Cancelled /\ entries \in Seq(ArtifactLines) /\ Len(entries) \in Nat
  BY DEF RecordCancellation, ArtifactTypes
<1>2. line \in ArtifactLines /\ line.kind = "cancelled" /\ line.shot = FALSE
  BY DEF Line, ArtifactLines
<1> HIDE DEF line
<1>3. /\ entries' \in Seq(ArtifactLines) /\ DOMAIN entries' = 1 .. (Len(entries) + 1)
      /\ \A k \in DOMAIN entries : entries'[k] = entries[k]
      /\ \A k \in DOMAIN entries' : entries'[k] = line \/ (k \in DOMAIN entries /\ entries'[k] = entries[k])
  BY <1>1, <1>2
<1>4. ArtifactTypes' /\ JobsSound'
  BY <1>1, <1>3 DEF ArtifactTypes, JobsSound
<1>5. OwnIds'
  <2>1. \A w \in Workers : Unnamed(worker[w], entries')
    BY <1>2, <1>3 DEF OwnIds, Unnamed
  <2> QED BY <1>1, <2>1 DEF OwnIds
<1>6. NamedAreThere'
  BY <1>1, <1>2, <1>3 DEF NamedAreThere, Names_
<1>7. \A w \in Workers : worker'[w].kind # "shot"
  BY <1>1, ArtifactAssumption DEF ShotsHold
<1>8. \A i, j \in DOMAIN entries' : entries'[i].kind = "cancelled" /\ i < j => ~entries'[j].shot
  <2>1. \A j \in DOMAIN entries' : entries'[j].shot => j \in DOMAIN entries /\ entries'[j] = entries[j]
    BY <1>2, <1>3
  <2>2. \A i \in DOMAIN entries' : \A j \in DOMAIN entries : i < j => i \in DOMAIN entries
    BY <1>1, <1>3
  <2>3. \A i \in DOMAIN entries : entries[i].kind # "cancelled"
    BY <1>1 DEF Cancelled
  <2> QED BY <1>3, <2>1, <2>2, <2>3
<1>9. ShotsHold'
  BY <1>7, <1>8 DEF ShotsHold
<1> QED BY <1>4, <1>5, <1>6, <1>9

LEMMA ArtifactKept == ArtifactInv /\ [ArtifactNext]_artifactVars => ArtifactInv'
<1> SUFFICES ASSUME ArtifactInv, [ArtifactNext]_artifactVars PROVE ArtifactInv'
  OBVIOUS
<1>1. ASSUME NEW w \in Workers, StoreImageCompletion(w) PROVE ArtifactInv'
  <2>1. PICK images \in Seq(Pictures) : Len(images) > 0 /\ TakeLock(w, "batch", images)
    <3>1. \A a, b \in Pictures : /\ <<a>> \in Seq(Pictures) /\ Len(<<a>>) > 0
                                 /\ <<a, b>> \in Seq(Pictures) /\ Len(<<a, b>>) > 0
      OBVIOUS
    <3> QED BY <1>1, <3>1 DEF StoreImageCompletion
  <2> QED BY <2>1, TakeLockKeeps
<1>2. ASSUME NEW w \in Workers, StoreScreenshot(w) PROVE ArtifactInv'
  <2>1. PICK images \in Seq(Pictures) : Len(images) > 0 /\ TakeLock(w, "shot", images)
    <3>1. \A a \in Pictures : <<a>> \in Seq(Pictures) /\ Len(<<a>>) > 0
      OBVIOUS
    <3> QED BY <1>2, <3>1 DEF StoreScreenshot
  <2> QED BY <2>1, TakeLockKeeps
<1>3. ASSUME NEW w \in Workers, GiveUp(w) \/ Dropped(w) PROVE ArtifactInv'
  BY <1>3, JobGivenUp DEF GiveUp, Dropped
<1>4. ASSUME NEW w \in Workers, PublishFails(w) PROVE ArtifactInv'
  <2>1. UNCHANGED <<files, entries, drawn>> /\ Refuse(w)
    BY <1>4 DEF PublishFails
  <2>2. files' \in [ArtifactIds -> Pictures \cup {Absent}] /\ NamedAreThere'
        /\ \A v \in Workers : JobSound(worker[v], drawn, files')
    BY <2>1 DEF ArtifactInv, ArtifactTypes, NamedAreThere, JobsSound
  <2> QED BY <2>1, <2>2, JobRefused
<1>5. CASE CancelToken \/ UNCHANGED artifactVars
  BY <1>5 DEF CancelToken, artifactVars, ArtifactInv, ArtifactTypes, JobsSound, OwnIds, NamedAreThere,
              ShotsHold, Cancelled
<1>6. ASSUME NEW w \in Workers, AppendLines(w) \/ AppendFails(w) PROVE ArtifactInv'
  BY <1>6, AppendKeeps
<1> QED BY <1>1, <1>2, <1>3, <1>4, <1>5, <1>6, StoreArtifactKeeps, PublishKeeps, CleanupKeeps,
           ArtifactCrashKeeps, CancellationKeeps DEF ArtifactNext

(* Every file the journal names is there with all its bytes, whatever      *)
(* failed or died on the way, and nothing of the screen enters the journal *)
(* after the run's cancellation: a file is published before it is named,   *)
(* never over other bytes, and taken back only by the batch that drew its  *)
(* ID and whose lines are not in the journal.                              *)
THEOREM NamedFilesStay == ArtifactSpec => []NamedFilesExist
<1>1. ArtifactInv => NamedFilesExist
  BY DEF ArtifactInv, NamedAreThere, Names_, ShotsHold, NamedFilesExist
<1> QED BY ArtifactHoldsAtStart, ArtifactKept, <1>1, PTL DEF ArtifactSpec

-----------------------------------------------------------------------------
(* The sponsored catalogue.                                                *)

Caches == UNION {[C -> {"torn", "whole"}] : C \in SUBSET Catalogs}
SourceChoice == {NoSource} \cup {<<s>> : s \in Sources}
CatalogChoice == {NoSource} \cup Catalogs
EntryChoice == {NoSource} \cup {<<e>> : e \in Entries}
CallStages == {"idle", "done", "replace", "removeOld", "rename", "readSource", "readCache",
               "readFiles", "decide", "write", "loaded", "tryLock", "readRoutes", "publish"}
Calls(d) == [at : CallStages, kind : Commands \cup {"none"}, offline : BOOLEAN,
             source : SourceChoice, entry : EntryChoice, listed : SUBSET Catalogs,
             unread : SUBSET Catalogs, active : CatalogChoice, remote : CatalogChoice,
             origin : {"none", "cache", "remote"}, catalog : CatalogChoice,
             before : SUBSET Catalogs, document : {d}]

CatalogTypes ==
  /\ source \in SourceChoice /\ cache \in [Sources -> Caches] /\ routeLock \in SUBSET Shells
  /\ accepted \in [Sources -> SUBSET Catalogs]
  /\ DOMAIN call = Shells /\ call = [p \in Shells |-> call[p]]

\* What was returned from the server has a name in the cache.
AcceptedIsNamed == \A s \in Sources : accepted[s] \subseteq DOMAIN cache[s]

\* A load lists the cache after it began, and decides with what it listed.
LoadSound(r, acc, cs) ==
  /\ r.at \in {"readSource", "readCache", "readFiles", "decide", "write"} => r.origin = "none"
  /\ r.at \in {"readCache", "readFiles", "decide", "write"} =>
       r.source[1] \in Sources /\ r.before \subseteq acc[r.source[1]]
  /\ r.at \in {"readFiles", "decide", "write"} => r.before \subseteq r.listed
  /\ r.at = "write" => Acceptable(r.listed, r.remote) /\ r.remote \in DOMAIN cs[r.source[1]]
  /\ r.origin = "remote" => r.before \subseteq r.listed /\ Acceptable(r.listed, r.catalog)

\* One shell has the lock from its look at the route document on.
EditSound(p, r, lock, doc) ==
  /\ r.at \in {"readRoutes", "publish"} => lock = {p}
  /\ r.at = "publish" => r.document = doc

CallSound(p, r, acc, cs, lock, doc) ==
  r \in Calls(r.document) /\ LoadSound(r, acc, cs) /\ EditSound(p, r, lock, doc)
CallsSound == \A p \in Shells : CallSound(p, call[p], accepted, cache, routeLock, routes)

CatalogInv == CatalogTypes /\ AcceptedIsNamed /\ CallsSound

LEMMA NoCommandSound ==
  ASSUME NEW p, NEW acc, NEW cs, NEW lock, NEW doc
  PROVE  /\ CallSound(p, NoCommand, acc, cs, lock, doc) /\ NoCommand.at = "idle"
         /\ NoCommand.origin = "none" /\ NoCommand \in Calls(<<>>)
BY DEF NoCommand, CallSound, LoadSound, EditSound, Calls, CallStages, SourceChoice, EntryChoice,
       CatalogChoice

LEMMA CatalogHoldsAtStart == CatalogInit => CatalogInv
<1> SUFFICES ASSUME CatalogInit PROVE CatalogInv
  OBVIOUS
<1>1. <<>> \in Caches
  <2>1. <<>> \in [{} -> {"torn", "whole"}]
    OBVIOUS
  <2>2. {} \in SUBSET Catalogs
    OBVIOUS
  <2> QED BY <2>1, <2>2 DEF Caches
<1>2. CatalogTypes /\ AcceptedIsNamed
  BY <1>1 DEF CatalogInit, CatalogTypes, AcceptedIsNamed, SourceChoice
<1>3. \A p \in Shells : call[p] = NoCommand
  BY DEF CatalogInit
<1>4. CallsSound
  BY <1>3, NoCommandSound DEF CallsSound
<1> QED BY <1>2, <1>4 DEF CatalogInv

\* One shell moves; no other shell is at work on the document when it is changed.
LEMMA CallMoves ==
  ASSUME CatalogInv, NEW p \in Shells, NEW r, call' = [call EXCEPT ![p] = r],
         CallSound(p, r, accepted', cache', routeLock', routes'),
         source' \in SourceChoice, cache' \in [Sources -> Caches],
         accepted' \in [Sources -> SUBSET Catalogs], AcceptedIsNamed',
         \A s \in Sources : accepted[s] \subseteq accepted'[s] /\ DOMAIN cache[s] \subseteq DOMAIN cache'[s],
         \/ UNCHANGED routeLock
         \/ routeLock = {} /\ routeLock' = {p}
         \/ Unlock(p),
         UNCHANGED routes \/ routeLock = {p}
  PROVE  CatalogInv'
<1> USE DEF CatalogInv
<1>1. DOMAIN call = Shells /\ call'[p] = r /\ \A q \in Shells : q # p => call'[q] = call[q]
  BY DEF CatalogTypes
<1>2. routeLock' \in SUBSET Shells
  BY DEF CatalogTypes, Unlock
<1>3. CatalogTypes'
  BY <1>1, <1>2 DEF CatalogTypes
<1>4. ASSUME NEW q \in Shells, q # p PROVE CallSound(q, call[q], accepted', cache', routeLock', routes')
  <2>1. CallSound(q, call[q], accepted, cache, routeLock, routes)
    BY DEF CallsSound
  <2>2. LoadSound(call[q], accepted', cache')
    BY <2>1 DEF CallSound, LoadSound
  <2>3. call[q].at \in {"readRoutes", "publish"} => routeLock = {q} /\ q \notin {p}
    BY <1>4, <2>1 DEF CallSound, EditSound
  <2>4. call[q].at \in {"readRoutes", "publish"} => routeLock' = {q} /\ UNCHANGED routes
    BY <1>4, <2>3 DEF Unlock
  <2>5. EditSound(q, call[q], routeLock', routes')
    BY <2>1, <2>4 DEF CallSound, EditSound
  <2> QED BY <2>1, <2>2, <2>5 DEF CallSound
<1>5. CallsSound'
  BY <1>1, <1>4 DEF CallsSound
<1> QED BY <1>3, <1>5

\* The shell's call is over.
LEMMA CallEnds ==
  ASSUME CatalogInv, NEW p \in Shells, Ends(p), source' \in SourceChoice,
         UNCHANGED <<cache, accepted>>, UNCHANGED routeLock \/ Unlock(p),
         UNCHANGED routes \/ routeLock = {p}
  PROVE  CatalogInv'
<1>1. call' = [call EXCEPT ![p] = NoCommand] /\ CallSound(p, NoCommand, accepted', cache', routeLock', routes')
  BY NoCommandSound DEF Ends
<1>2. /\ cache' \in [Sources -> Caches] /\ accepted' \in [Sources -> SUBSET Catalogs]
      /\ AcceptedIsNamed'
      /\ \A s \in Sources : accepted[s] \subseteq accepted'[s] /\ DOMAIN cache[s] \subseteq DOMAIN cache'[s]
  BY DEF CatalogInv, CatalogTypes, AcceptedIsNamed
<1> QED BY <1>1, <1>2, CallMoves

\* The shell's call goes on; nothing but its own record changes.
LEMMA CallGoes ==
  ASSUME CatalogInv, NEW p \in Shells, NEW r, call' = [call EXCEPT ![p] = r],
         CallSound(p, r, accepted, cache, routeLock', routes), source' \in SourceChoice,
         UNCHANGED <<cache, accepted, routes>>,
         UNCHANGED routeLock \/ (routeLock = {} /\ routeLock' = {p})
  PROVE  CatalogInv'
<1>1. /\ cache' \in [Sources -> Caches] /\ accepted' \in [Sources -> SUBSET Catalogs]
      /\ AcceptedIsNamed'
      /\ \A s \in Sources : accepted[s] \subseteq accepted'[s] /\ DOMAIN cache[s] \subseteq DOMAIN cache'[s]
  BY DEF CatalogInv, CatalogTypes, AcceptedIsNamed
<1> QED BY <1>1, CallMoves

LEMMA CallTyped ==
  ASSUME CatalogInv, NEW p \in Shells
  PROVE  /\ call[p] \in Calls(call[p].document) /\ LoadSound(call[p], accepted, cache)
         /\ EditSound(p, call[p], routeLock, routes)
BY DEF CatalogInv, CallsSound, CallSound

\* The steps that only go on, none of them within a load.
LEMMA StageGoes ==
  ASSUME CatalogInv, NEW p \in Shells, NEW step \in {"rename", "removeOld", "tryLock", "readRoutes"},
         Goes(p, step), source' \in SourceChoice, UNCHANGED <<cache, accepted, routes>>,
         \/ step # "readRoutes" /\ UNCHANGED routeLock
         \/ routeLock = {} /\ routeLock' = {p}
  PROVE  CatalogInv'
<1> DEFINE r == [call[p] EXCEPT !.at = step]
<1>1. /\ r.at = step /\ r \in Calls(r.document) /\ r.origin = call[p].origin /\ r.before = call[p].before
      /\ r.listed = call[p].listed /\ r.catalog = call[p].catalog
  BY CallTyped DEF Calls, CallStages
<1>2. call' = [call EXCEPT ![p] = r]
  BY DEF Goes
<1> HIDE DEF r
<1>3. CallSound(p, r, accepted, cache, routeLock', routes)
  BY <1>1, CallTyped DEF CallSound, LoadSound, EditSound
<1> QED BY <1>2, <1>3, CallGoes

LEMMA BeginCommandKeeps ==
  ASSUME CatalogInv, NEW p \in Shells, BeginCommand(p)
  PROVE  CatalogInv'
<1>1. PICK kind \in Commands, offline \in BOOLEAN, s \in Sources, e \in Entries :
        /\ (kind \notin {"list", "use"}) => ~offline
        /\ call' = [call EXCEPT ![p] =
            [NoCommand EXCEPT !.at = CASE kind \in {"list", "use"} -> "readSource"
                                  [] kind = "configure" -> "replace"
                                  [] OTHER -> "tryLock",
                         !.kind = kind, !.offline = offline,
                         !.source = IF kind = "configure" THEN <<s>> ELSE NoSource,
                         !.entry = IF kind \in {"use", "remove"} THEN <<e>> ELSE NoSource]]
  BY DEF BeginCommand
<1> DEFINE at == CASE kind \in {"list", "use"} -> "readSource"
                   [] kind = "configure" -> "replace"
                   [] OTHER -> "tryLock"
           from == IF kind = "configure" THEN <<s>> ELSE NoSource
           entry == IF kind \in {"use", "remove"} THEN <<e>> ELSE NoSource
           r == [NoCommand EXCEPT !.at = at, !.kind = kind, !.offline = offline,
                                  !.source = from, !.entry = entry]
<1>2. at \in {"readSource", "replace", "tryLock"} /\ from \in SourceChoice /\ entry \in EntryChoice
  BY DEF SourceChoice, EntryChoice
<1> HIDE DEF at, from, entry
<1>3. /\ r.at = at /\ r.origin = "none" /\ r.document = <<>> /\ r \in Calls(<<>>)
  BY <1>2 DEF NoCommand, Calls, CallStages, SourceChoice, CatalogChoice
<1>4. call' = [call EXCEPT ![p] = r]
  BY <1>1 DEF at, from, entry
<1> HIDE DEF r
<1>5. CallSound(p, r, accepted, cache, routeLock', routes)
  BY <1>2, <1>3 DEF CallSound, LoadSound, EditSound
<1>6. UNCHANGED <<source, cache, routes, routeLock, accepted>> /\ source \in SourceChoice
  BY DEF BeginCommand, CatalogInv, CatalogTypes
<1> QED BY <1>4, <1>5, <1>6, CallGoes

Built(at, kind, entry, origin, catalog, before, listed) ==
  [NoCommand EXCEPT !.at = at, !.kind = kind, !.entry = entry, !.origin = origin,
                    !.catalog = catalog, !.before = before, !.listed = listed]

LEMMA CallBuilt ==
  ASSUME NEW at \in CallStages, NEW kind \in Commands \cup {"none"}, NEW entry \in EntryChoice,
         NEW origin \in {"cache", "remote"}, NEW catalog \in Catalogs,
         NEW before \in SUBSET Catalogs, NEW listed \in SUBSET Catalogs
  PROVE  LET r == Built(at, kind, entry, origin, catalog, before, listed)
         IN  /\ r.at = at /\ r.origin = origin /\ r.catalog = catalog /\ r.before = before
             /\ r.listed = listed /\ r.document = <<>> /\ r \in Calls(<<>>)
<1> DEFINE base == [NoCommand EXCEPT !.at = at, !.kind = kind, !.entry = entry, !.origin = origin]
           r == [base EXCEPT !.catalog = catalog, !.before = before, !.listed = listed]
<1>1. base \in Calls(<<>>) /\ base.at = at /\ base.origin = origin /\ base.document = <<>>
  BY DEF NoCommand, Calls, CallStages, SourceChoice, CatalogChoice, EntryChoice
<1> HIDE DEF base
<1>2. catalog \in CatalogChoice
  BY DEF CatalogChoice
<1>3. /\ r.at = at /\ r.origin = origin /\ r.catalog = catalog /\ r.before = before
      /\ r.listed = listed /\ r.document = <<>> /\ r \in Calls(<<>>)
  BY <1>1, <1>2 DEF Calls
<1> QED BY <1>3, Zenon DEF base, Built

\* What a load gives its command: from the cache, or what the server returned.
LEMMA GivesSound ==
  ASSUME CatalogInv, NEW p \in Shells, NEW origin, NEW catalog \in Catalogs,
         \/ origin = "cache"
         \/ /\ origin = "remote" /\ call[p].before \subseteq call[p].listed
            /\ Acceptable(call[p].listed, catalog),
         Gives(p, origin, catalog),
         source' \in SourceChoice, cache' \in [Sources -> Caches],
         accepted' \in [Sources -> SUBSET Catalogs], AcceptedIsNamed',
         \A s \in Sources : accepted[s] \subseteq accepted'[s] /\ DOMAIN cache[s] \subseteq DOMAIN cache'[s],
         UNCHANGED <<routes, routeLock>>
  PROVE  CatalogInv'
<1> DEFINE from == call[p]
           at == IF from.kind = "use" THEN "loaded" ELSE "done"
           before == IF origin = "remote" THEN from.before ELSE {}
           listed == IF origin = "remote" THEN from.listed ELSE {}
           kind == from.kind
           entry == from.entry
           r == Built(at, kind, entry, origin, catalog, before, listed)
<1>1. /\ kind \in Commands \cup {"none"} /\ entry \in EntryChoice
      /\ from.before \in SUBSET Catalogs /\ from.listed \in SUBSET Catalogs
  BY CallTyped DEF Calls
<1>2. /\ at \in {"loaded", "done"} /\ at \in CallStages
      /\ before \in SUBSET Catalogs /\ listed \in SUBSET Catalogs /\ origin \in {"cache", "remote"}
      /\ origin = "remote" => before \subseteq listed /\ Acceptable(listed, catalog)
  BY <1>1 DEF CallStages
<1>3. call' = [call EXCEPT ![p] = r]
  BY DEF Gives, Built
<1> HIDE DEF at, before, listed, kind, entry
<1>6. /\ r.at = at /\ r.origin = origin /\ r.catalog = catalog /\ r.before = before
      /\ r.listed = listed /\ r.document = <<>> /\ r \in Calls(<<>>)
  BY <1>1, <1>2, CallBuilt
<1> HIDE DEF r
<1>7. CallSound(p, r, accepted', cache', routeLock', routes')
  BY <1>2, <1>6 DEF CallSound, LoadSound, EditSound
<1> QED BY <1>3, <1>7, CallMoves

\* A load on its way to the server's answer.
LEMMA LoadGoes ==
  ASSUME CatalogInv, NEW p \in Shells,
         ReadSource(p) \/ ListCache(p) \/ (\E c \in call[p].unread : ReadCacheFile(p, c)) \/ Fetch(p)
  PROVE  CatalogInv'
<1> DEFINE old == call[p]
<1>1. UNCHANGED <<source, cache, accepted, routes, routeLock>> /\ source \in SourceChoice
  BY DEF ReadSource, ListCache, ReadCacheFile, Fetch, CatalogInv, CatalogTypes
<1>2. old \in Calls(old.document) /\ LoadSound(old, accepted, cache) /\ EditSound(p, old, routeLock, routes)
  BY CallTyped
<1>3. CASE ReadSource(p)
  <2>1. CASE Ends(p)
    BY <1>1, <2>1, CallEnds
  <2>2. CASE /\ source # NoSource
             /\ call' = [call EXCEPT ![p].at = "readCache", ![p].source = source,
                                     ![p].before = accepted[source[1]]]
    <3> DEFINE before == accepted[source[1]]
               r == [old EXCEPT !.at = "readCache", !.source = source, !.before = before]
    <3>1. source[1] \in Sources /\ before \subseteq Catalogs
      BY <1>1, <2>2 DEF SourceChoice, CatalogInv, CatalogTypes
    <3>2. call' = [call EXCEPT ![p] = r]
      BY <2>2
    <3> HIDE DEF before
    <3>3. /\ r.at = "readCache" /\ r.source = source /\ r.before = before /\ r.listed = old.listed
          /\ r.origin = old.origin /\ r.catalog = old.catalog /\ r \in Calls(r.document)
      BY <1>1, <1>2, <3>1 DEF Calls, CallStages
    <3>4. old.origin = "none"
      BY <1>2, <1>3 DEF ReadSource, LoadSound
    <3> HIDE DEF r
    <3>5. CallSound(p, r, accepted, cache, routeLock', routes)
      BY <3>1, <3>3, <3>4 DEF CallSound, LoadSound, EditSound, before
    <3> QED BY <1>1, <3>2, <3>5, CallGoes
  <2> QED BY <1>3, <2>1, <2>2 DEF ReadSource
<1>4. CASE ListCache(p)
  <2> DEFINE names == Names(old.source[1])
             r == [old EXCEPT !.at = "readFiles", !.listed = names, !.unread = names]
  <2>1. /\ old.source[1] \in Sources /\ old.before \subseteq accepted[old.source[1]]
        /\ old.origin = "none" /\ call' = [call EXCEPT ![p] = r]
    BY <1>2, <1>4 DEF ListCache, LoadSound
  <2>2. names \subseteq Catalogs /\ old.before \subseteq names
    BY <2>1 DEF CatalogInv, CatalogTypes, Caches, AcceptedIsNamed, Names
  <2> HIDE DEF names
  <2>3. /\ r.at = "readFiles" /\ r.source = old.source /\ r.before = old.before /\ r.listed = names
        /\ r.origin = "none" /\ r \in Calls(r.document)
    BY <1>2, <2>1, <2>2 DEF Calls, CallStages
  <2> HIDE DEF r
  <2>4. CallSound(p, r, accepted, cache, routeLock', routes)
    BY <2>1, <2>2, <2>3 DEF CallSound, LoadSound, EditSound
  <2> QED BY <1>1, <2>1, <2>4, CallGoes
<1>5. ASSUME NEW c \in old.unread, ReadCacheFile(p, c) PROVE CatalogInv'
  <2> DEFINE left == old.unread \ {c}
             active == IF /\ Usable(old.source[1], c)
                          /\ old.active = NoSource \/ Version(c) > Version(old.active)
                         THEN c ELSE old.active
             r == [old EXCEPT !.unread = left, !.active = active]
  <2>1. old.at = "readFiles" /\ call' = [call EXCEPT ![p] = r]
    BY <1>5 DEF ReadCacheFile
  <2>2. left \subseteq Catalogs /\ active \in CatalogChoice
    BY <1>2 DEF Calls, CatalogChoice
  <2> HIDE DEF left, active
  <2>3. /\ r.at = "readFiles" /\ r.source = old.source /\ r.before = old.before /\ r.listed = old.listed
        /\ r.origin = old.origin /\ r \in Calls(r.document)
    BY <1>2, <2>1, <2>2 DEF Calls, CallStages
  <2> HIDE DEF r
  <2>4. CallSound(p, r, accepted, cache, routeLock', routes)
    BY <1>2, <2>1, <2>3 DEF CallSound, LoadSound, EditSound
  <2> QED BY <1>1, <2>1, <2>4, CallGoes
<1>6. CASE Fetch(p)
  <2>1. PICK c \in CatalogChoice : call' = [call EXCEPT ![p].at = "decide", ![p].remote = c]
    BY <1>6 DEF Fetch, CatalogChoice
  <2> DEFINE r == [old EXCEPT !.at = "decide", !.remote = c]
  <2>2. old.at = "readFiles" /\ call' = [call EXCEPT ![p] = r]
    BY <1>6, <2>1 DEF Fetch
  <2>3. /\ r.at = "decide" /\ r.source = old.source /\ r.before = old.before /\ r.listed = old.listed
        /\ r.origin = old.origin /\ r \in Calls(r.document)
    BY <1>2, <2>1, <2>2 DEF Calls, CallStages
  <2> HIDE DEF r
  <2>4. CallSound(p, r, accepted, cache, routeLock', routes)
    BY <1>2, <2>2, <2>3 DEF CallSound, LoadSound, EditSound
  <2> QED BY <1>1, <2>2, <2>4, CallGoes
<1> QED BY <1>3, <1>4, <1>5, <1>6

\* A new name in a cache, and a file written out, keep the names that were there.
LEMMA CacheFiles ==
  ASSUME NEW f \in Caches, NEW c \in Catalogs
  PROVE  /\ Put(f, c, "torn") \in Caches /\ DOMAIN f \subseteq DOMAIN Put(f, c, "torn")
         /\ c \in DOMAIN Put(f, c, "torn")
         /\ [f EXCEPT ![c] = "whole"] \in Caches /\ DOMAIN [f EXCEPT ![c] = "whole"] = DOMAIN f
<1>1. PICK C \in SUBSET Catalogs : f \in [C -> {"torn", "whole"}]
  BY DEF Caches
<1>2. [f EXCEPT ![c] = "whole"] \in [C -> {"torn", "whole"}] /\ DOMAIN [f EXCEPT ![c] = "whole"] = DOMAIN f
  BY <1>1
<1> DEFINE g == Put(f, c, "torn")
<1>3. /\ DOMAIN g = {c} \cup C /\ g \in [{c} \cup C -> {"torn", "whole"}]
  BY <1>1 DEF Put
<1>4. {c} \cup C \in SUBSET Catalogs
  OBVIOUS
<1> HIDE DEF g
<1>5. g \in Caches /\ DOMAIN f \subseteq DOMAIN g /\ c \in DOMAIN g
  BY <1>1, <1>3, <1>4 DEF Caches
<1>6. [f EXCEPT ![c] = "whole"] \in Caches
  BY <1>1, <1>2 DEF Caches
<1> QED BY <1>2, <1>5, <1>6 DEF g

\* What ends or decides a load, and the cache files it writes.
LEMMA LoadEnds ==
  ASSUME CatalogInv, NEW p \in Shells,
         AnswerOffline(p) \/ FallBack(p) \/ CreateFile(p) \/ WriteFile(p) \/ WriteFails(p)
  PROVE  CatalogInv'
<1> DEFINE old == call[p]
           s == old.source[1]
           c == old.remote
<1>1. UNCHANGED <<source, routes, routeLock>> /\ source \in SourceChoice
  BY DEF AnswerOffline, FallBack, CreateFile, WriteFile, WriteFails, CatalogInv, CatalogTypes
<1>2. old \in Calls(old.document) /\ LoadSound(old, accepted, cache) /\ EditSound(p, old, routeLock, routes)
  BY CallTyped
<1>3. /\ s \in Sources /\ old.before \subseteq old.listed /\ old.before \subseteq accepted[s]
      /\ old.active \in CatalogChoice /\ c \in CatalogChoice /\ old.origin = "none"
  BY <1>2 DEF AnswerOffline, FallBack, CreateFile, WriteFile, WriteFails, LoadSound, Calls
<1>4. /\ cache \in [Sources -> Caches] /\ accepted \in [Sources -> SUBSET Catalogs]
      /\ \A x \in Sources : accepted[x] \subseteq DOMAIN cache[x]
  BY DEF CatalogInv, CatalogTypes, AcceptedIsNamed
<1>5. CASE AnswerOffline(p) \/ FallBack(p)
  <2>1. UNCHANGED <<cache, accepted>>
    BY <1>5 DEF AnswerOffline, FallBack
  <2>2. CASE Ends(p)
    BY <1>1, <2>1, <2>2, CallEnds
  <2>3. CASE old.active # NoSource /\ Gives(p, "cache", old.active)
    <3>1. old.active \in Catalogs
      BY <1>3, <2>3 DEF CatalogChoice
    <3>2. cache' \in [Sources -> Caches] /\ accepted' \in [Sources -> SUBSET Catalogs]
          /\ AcceptedIsNamed'
          /\ \A x \in Sources : accepted[x] \subseteq accepted'[x] /\ DOMAIN cache[x] \subseteq DOMAIN cache'[x]
      BY <1>4, <2>1 DEF AcceptedIsNamed
    <3> QED BY <1>1, <2>3, <3>1, <3>2, GivesSound
  <2> QED BY <1>5, <2>2, <2>3 DEF AnswerOffline, FallBack
<1>6. CASE WriteFails(p)
  BY <1>1, <1>6, CallEnds DEF WriteFails
<1>7. ASSUME Accept(p), c \in Catalogs, Acceptable(old.listed, c), cache' \in [Sources -> Caches],
             c \in DOMAIN cache'[s], \A x \in Sources : DOMAIN cache[x] \subseteq DOMAIN cache'[x]
      PROVE  CatalogInv'
  <2>1. accepted' = [accepted EXCEPT ![s] = @ \cup {c}] /\ Gives(p, "remote", c)
    BY <1>7 DEF Accept
  <2>2. accepted' \in [Sources -> SUBSET Catalogs] /\ \A x \in Sources : accepted[x] \subseteq accepted'[x]
    BY <1>3, <1>4, <1>7, <2>1
  <2>3. \A x \in Sources : accepted'[x] \subseteq DOMAIN cache'[x]
    BY <1>3, <1>4, <1>7, <2>1
  <2> QED BY <1>1, <1>3, <1>7, <2>1, <2>2, <2>3, GivesSound DEF AcceptedIsNamed
<1>8. CASE WriteFile(p)
  <2>1. c \in Catalogs /\ Acceptable(old.listed, c)
    BY <1>2, <1>3, <1>8 DEF WriteFile, LoadSound, CatalogChoice, Acceptable
  <2>2. cache' = [cache EXCEPT ![s] = [@ EXCEPT ![c] = "whole"]] /\ Accept(p) /\ old.at = "write"
    BY <1>8 DEF WriteFile
  <2>3. cache[s] \in Caches
    BY <1>3, <1>4
  <2>4. /\ cache' \in [Sources -> Caches]
        /\ \A x \in Sources : DOMAIN cache[x] \subseteq DOMAIN cache'[x]
    BY <1>3, <1>4, <2>1, <2>2, <2>3, CacheFiles
  <2>5. c \in DOMAIN cache'[s]
    BY <1>2, <1>3, <2>2, <2>4 DEF LoadSound
  <2> QED BY <1>7, <2>1, <2>2, <2>4, <2>5
<1>9. CASE CreateFile(p)
  <2>1. c \in Catalogs /\ Acceptable(old.listed, c)
    BY <1>3, <1>9 DEF CreateFile, CatalogChoice, Acceptable
  <2>2. CASE c \in Names(s) /\ Accept(p) /\ UNCHANGED cache
    BY <1>4, <1>7, <2>1, <2>2 DEF Names
  <2>3. CASE /\ cache' = [cache EXCEPT ![s] = Put(@, c, "torn")]
             /\ Goes(p, "write") /\ UNCHANGED accepted
    <3> DEFINE r == [old EXCEPT !.at = "write"]
    <3>1. call' = [call EXCEPT ![p] = r]
      BY <2>3 DEF Goes
    <3>2. /\ r.at = "write" /\ r.source = old.source /\ r.before = old.before /\ r.listed = old.listed
          /\ r.remote = c /\ r.origin = "none" /\ r \in Calls(r.document)
      BY <1>2, <1>3 DEF Calls, CallStages
    <3> HIDE DEF r
    <3>3. CallSound(p, r, accepted', cache', routeLock', routes')
      <4>1. c \in DOMAIN cache'[s]
        BY <1>3, <1>4, <2>1, <2>3, CacheFiles
      <4> QED BY <1>3, <2>1, <2>3, <3>2, <4>1 DEF CallSound, LoadSound, EditSound
    <3>4. cache[s] \in Caches
      BY <1>3, <1>4
    <3>5. /\ cache' \in [Sources -> Caches]
          /\ \A x \in Sources : DOMAIN cache[x] \subseteq DOMAIN cache'[x]
      BY <1>3, <1>4, <2>1, <2>3, <3>4, CacheFiles
    <3>6. /\ AcceptedIsNamed' /\ accepted' \in [Sources -> SUBSET Catalogs]
          /\ \A x \in Sources : accepted[x] \subseteq accepted'[x]
      BY <1>4, <2>3, <3>5 DEF AcceptedIsNamed
    <3> QED BY <1>1, <3>1, <3>3, <3>5, <3>6, CallMoves
  <2> QED BY <1>9, <2>2, <2>3 DEF CreateFile
<1> QED BY <1>5, <1>6, <1>8, <1>9

LEMMA EditKeeps ==
  ASSUME CatalogInv, NEW p \in Shells, TryLock(p) \/ ReadRoutes(p) \/ Publish(p) \/ CommandDies(p)
  PROVE  CatalogInv'
<1>1. UNCHANGED <<source, cache, accepted>> /\ source' \in SourceChoice
  BY DEF TryLock, ReadRoutes, Publish, CommandDies, CatalogInv, CatalogTypes
<1>2. /\ call[p] \in Calls(call[p].document) /\ LoadSound(call[p], accepted, cache)
      /\ EditSound(p, call[p], routeLock, routes)
  BY CallTyped
<1>3. CASE TryLock(p)
  <2>1. CASE Lockable /\ routeLock' = routeLock \cup {p} /\ Goes(p, "readRoutes")
    <3>1. routeLock = {} /\ routeLock' = {p} /\ UNCHANGED routes
      BY <1>3, <2>1 DEF Lockable, TryLock
    <3> QED BY <1>1, <2>1, <3>1, StageGoes
  <2>2. CASE Ends(p) /\ UNCHANGED routeLock
    BY <1>1, <1>3, <2>2, CallEnds DEF TryLock
  <2> QED BY <1>3, <2>1, <2>2 DEF TryLock
<1>4. CASE ReadRoutes(p)
  <2>1. CASE Ends(p) /\ Unlock(p)
    BY <1>1, <1>4, <2>1, CallEnds DEF ReadRoutes
  <2>2. CASE /\ call' = [call EXCEPT ![p].at = "publish", ![p].document = routes]
             /\ UNCHANGED routeLock
    <3> DEFINE r == [call[p] EXCEPT !.at = "publish", !.document = routes]
    <3>1. call' = [call EXCEPT ![p] = r] /\ UNCHANGED routes /\ routeLock = {p}
      BY <1>2, <1>4, <2>2 DEF ReadRoutes, EditSound
    <3>2. /\ r.at = "publish" /\ r.document = routes /\ r.before = call[p].before
          /\ r.listed = call[p].listed /\ r.origin = call[p].origin /\ r.catalog = call[p].catalog
          /\ r \in Calls(r.document)
      BY <1>2 DEF Calls, CallStages
    <3> HIDE DEF r
    <3>3. CallSound(p, r, accepted, cache, routeLock', routes)
      BY <1>2, <2>2, <3>1, <3>2 DEF CallSound, LoadSound, EditSound
    <3> QED BY <1>1, <2>2, <3>1, <3>3, CallGoes
  <2> QED BY <1>4, <2>1, <2>2 DEF ReadRoutes
<1>5. CASE Publish(p)
  <2>1. routeLock = {p} /\ Ends(p) /\ Unlock(p)
    BY <1>2, <1>5 DEF Publish, EditSound
  <2> QED BY <1>1, <2>1, CallEnds
<1>6. CASE CommandDies(p)
  BY <1>1, <1>6, CallEnds DEF CommandDies
<1> QED BY <1>3, <1>4, <1>5, <1>6

LEMMA CatalogKept == CatalogInv /\ [CatalogNext]_catalogVars => CatalogInv'
<1> SUFFICES ASSUME CatalogInv, [CatalogNext]_catalogVars PROVE CatalogInv'
  OBVIOUS
<1>1. source \in SourceChoice
  BY DEF CatalogInv, CatalogTypes
<1>2. ASSUME NEW p \in Shells, SeeOldSource(p) \/ RemoveOldSource(p) \/ RenameSource(p) \/ Install(p)
      PROVE  CatalogInv'
  <2>1. UNCHANGED <<cache, accepted, routes, routeLock>>
    BY <1>2 DEF SeeOldSource, RemoveOldSource, RenameSource, Install
  <2>2. source' \in SourceChoice
    BY <1>1, <1>2, CallTyped DEF SeeOldSource, RemoveOldSource, RenameSource, Install, SourceChoice, Calls
  <2>3. Ends(p) \/ \E step \in {"rename", "removeOld", "tryLock"} : Goes(p, step)
    BY <1>2 DEF SeeOldSource, RemoveOldSource, RenameSource, Install
  <2> QED BY <2>1, <2>2, <2>3, CallEnds, StageGoes
<1>3. CASE (\E c \in Expiring : Expire(c)) \/ UNCHANGED catalogVars
  BY <1>3 DEF Expire, catalogVars, CatalogInv, CatalogTypes, AcceptedIsNamed, CallsSound
<1> QED BY <1>2, <1>3, BeginCommandKeeps, LoadGoes, LoadEnds, EditKeeps DEF CatalogNext

(* A catalogue a load returns from the server is not older than one that   *)
(* any load had returned from it before this one began, and where it gives *)
(* an accepted version another content, an overlapping load had put that   *)
(* content in the cache before this one listed it: whatever was returned   *)
(* has a name in the cache, and a load lists the names after it began.     *)
THEOREM CatalogueNeverRollsBack == CatalogSpec => []NoRollback
<1>1. CatalogInv => NoRollback
  <2> SUFFICES ASSUME CatalogInv, NEW p \in Shells, call[p].origin = "remote", NEW old \in call[p].before
               PROVE  /\ Version(old) <= Version(call[p].catalog)
                      /\ (Version(old) = Version(call[p].catalog) /\ old # call[p].catalog)
                           => call[p].catalog \in call[p].listed
    BY DEF NoRollback
  <2> DEFINE catalog == call[p].catalog
             listed == call[p].listed
  <2>1. /\ old \in listed /\ Acceptable(listed, catalog) /\ listed \in SUBSET Catalogs
        /\ catalog \in CatalogChoice
    BY CallTyped DEF LoadSound, Calls
  <2>2. catalog \in Catalogs /\ old \in Catalogs
    BY <2>1 DEF Acceptable, CatalogChoice
  <2>3. Version(old) \in Nat /\ Version(catalog) \in Nat
    BY <2>2, CatalogAssumption DEF Catalogs, Version
  <2>4. ~(Version(catalog) < Version(old))
    BY <2>1 DEF Acceptable, RolledBack
  <2>5. catalog \notin listed => Version(catalog) # Version(old)
    BY <2>1 DEF Acceptable, Equivocates
  <2> QED BY <2>3, <2>4, <2>5
<1> QED BY CatalogHoldsAtStart, CatalogKept, <1>1, PTL DEF CatalogSpec

\* The edit of one entry leaves the document alone elsewhere.
LEMMA EditIsLocal ==
  ASSUME NEW p, NEW x, x # call[p].entry[1]
  PROVE  /\ x \in DOMAIN Edited(p) <=> x \in DOMAIN call[p].document
         /\ x \in DOMAIN call[p].document => Edited(p)[x] = call[p].document[x]
<1> DEFINE e == call[p].entry[1]
           doc == call[p].document
           others == Restrict(doc, DOMAIN doc \ {e})
<1>1. others = [y \in DOMAIN doc \ {e} |-> doc[y]]
  BY DEF Restrict
<1>2. DOMAIN others = DOMAIN doc \ {e} /\ (x \in DOMAIN doc => others[x] = doc[x])
  BY <1>1
<1> HIDE DEF others
<1>3. /\ DOMAIN Put(others, e, call[p].catalog) = DOMAIN others \cup {e}
      /\ x \in DOMAIN others => Put(others, e, call[p].catalog)[x] = others[x]
  BY DEF Put
<1>4. Edited(p) = IF call[p].kind = "remove" THEN others ELSE Put(others, e, call[p].catalog)
  BY DEF Edited, others
<1> QED BY <1>2, <1>3, <1>4

(* A command that publishes the route document changes the route of its    *)
(* own entry and of no other, whoever else edits the document meanwhile:   *)
(* the shell holds the lock from its look at the document to its renaming, *)
(* so what it edits is what is there.                                      *)
THEOREM RoutesStay == CatalogSpec => RoutesKeepOthers
<1> DEFINE A == \A p \in Shells : (call[p].at = "publish" /\ call'[p].at = "idle") =>
                  LET other == Entries \ {call[p].entry[1]} IN
                  /\ DOMAIN routes' \cap other = DOMAIN routes \cap other
                  /\ \A e \in DOMAIN routes \cap other : routes'[e] = routes[e]
<1>1. CatalogInv /\ [CatalogNext]_catalogVars => [A]_catalogVars
  <2> SUFFICES ASSUME CatalogInv, CatalogNext, NEW p \in Shells, call[p].at = "publish", call'[p].at = "idle"
               PROVE  \A e \in Entries \ {call[p].entry[1]} :
                        /\ e \in DOMAIN routes' <=> e \in DOMAIN routes
                        /\ e \in DOMAIN routes => routes'[e] = routes[e]
    BY Zenon
  <2>1. call[p].document = routes /\ routeLock = {p}
    BY CallTyped DEF EditSound
  <2>2. CASE UNCHANGED routes
    BY <2>2
  <2>3. ASSUME NEW q \in Shells, Publish(q), ~UNCHANGED routes PROVE q = p /\ routes' = Edited(p)
    <3>1. routeLock = {q}
      BY <2>3, CallTyped DEF EditSound, Publish
    <3> QED BY <2>1, <2>3, <3>1 DEF Publish
  <2>4. UNCHANGED routes \/ \E q \in Shells : Publish(q)
    BY DEF CatalogNext, BeginCommand, SeeOldSource, RemoveOldSource, RenameSource, ReadSource, ListCache,
           ReadCacheFile, AnswerOffline, Fetch, FallBack, CreateFile, WriteFile, WriteFails, Install,
           TryLock, ReadRoutes, CommandDies, Expire
  <2> QED BY <2>1, <2>2, <2>3, <2>4, EditIsLocal
<1>2. CatalogSpec => [][A]_catalogVars
  BY CatalogHoldsAtStart, CatalogKept, <1>1, PTL DEF CatalogSpec
<1> QED BY <1>2 DEF RoutesKeepOthers

=============================================================================
