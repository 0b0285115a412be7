---------------------------- MODULE ArtifactStore ----------------------------
(***************************************************************************)
(* The artifacts of one session (session.rs): image files in a directory,  *)
(* and the journal records that name them. A provider's images are         *)
(* published as one batch with their message, a screenshot under the       *)
(* append lock, an upload and a tool's output before it is taken. The      *)
(* workers are blocking threads, which go on when the future that waits    *)
(* for them is dropped.                                                    *)
(***************************************************************************)
EXTENDS Naturals, Sequences, FiniteSets

CONSTANTS Workers,            \* blocking threads
          Pictures,           \* the bytes of an image
          Absent,             \* no file, no holder
          MaxIds,             \* bound: artifacts begun (UUIDs never repeat)
          MaxArtifactFaults   \* bound: failed system calls and crashes

ASSUME ArtifactAssumption ==
    Absent \notin Pictures \cup Workers /\ MaxIds \in Nat /\ MaxArtifactFaults \in Nat

VARIABLES files,       \* the artifacts directory: ID -> the bytes of its file
          entries,     \* complete lines of the journal that matter here
          appendLock,  \* append.lock: its holder
          token,       \* the run's cancellation token
          worker,      \* what each worker does
          drawn,       \* artifacts begun so far
          mishaps
artifactVars == <<files, entries, appendLock, token, worker, drawn, mishaps>>

\* A batch, a screenshot and an upload draw their identifiers; a tool's output
\* is named by its digest.
ArtifactIds == ({"uuid"} \X (1 .. MaxIds)) \cup ({"sha256"} \X Pictures)
Line(kind, id, bytes, shot) == [kind |-> kind, id |-> id, bytes |-> bytes, shot |-> shot]
Idle == [pc |-> "idle", kind |-> "none", images |-> <<>>, ids |-> <<>>, done |-> 0]

ArtifactInit ==
    /\ files = [id \in ArtifactIds |-> Absent]
    /\ entries = <<>> /\ appendLock = Absent /\ token = FALSE
    /\ worker = [w \in Workers |-> Idle]
    /\ drawn = 0 /\ mishaps = 0

Cancelled == \E i \in DOMAIN entries : entries[i].kind = "cancelled"
Reach(w, pc) == worker' = [worker EXCEPT ![w].pc = pc]
Mishap == mishaps < MaxArtifactFaults /\ mishaps' = mishaps + 1
Holds(w) == appendLock = w
Stopped(w) == worker[w].kind = "shot" /\ token
Release(w) == appendLock' = IF Holds(w) THEN Absent ELSE appendLock
Fails(w) == worker' = [worker EXCEPT ![w] = Idle] /\ Release(w)

\* Mutant: a screenshot goes by the token alone.
AdmittedByToken(w, kind) == kind = "shot" => ~token

\* The wait for the lock changes nothing: a screenshot polls it between looks at
\* the token, and once it is held the journal says whether the run is active.
Admitted(w, kind) == kind = "shot" => ~token /\ ~Cancelled

\* store_image_completion_sync, store_computer_screenshot_artifact_sync.
TakeLock(w, kind, images) ==
    /\ worker[w].pc = "idle" /\ appendLock = Absent /\ Admitted(w, kind)
    /\ drawn + Len(images) <= MaxIds /\ drawn' = drawn + Len(images)
    /\ appendLock' = w
    /\ worker' = [worker EXCEPT ![w] =
           [pc |-> "publish", kind |-> kind, images |-> images, done |-> 0,
            ids |-> [i \in DOMAIN images |-> <<"uuid", drawn + i>>]]]
    /\ UNCHANGED <<files, entries, token, mishaps>>

StoreImageCompletion(w) ==
    \E a, b \in Pictures : TakeLock(w, "batch", <<a>>) \/ TakeLock(w, "batch", <<a, b>>)
StoreScreenshot(w) == \E a \in Pictures : TakeLock(w, "shot", <<a>>)

\* store_image_artifact and store_artifact publish before they take the lock.
StoreArtifact(w, kind) ==
    /\ worker[w].pc = "idle" /\ drawn < MaxIds /\ drawn' = drawn + 1
    /\ \E a \in Pictures :
         worker' = [worker EXCEPT ![w] =
             [pc |-> "publish", kind |-> kind, images |-> <<a>>, done |-> 0,
              ids |-> <<IF kind = "upload" THEN <<"uuid", drawn + 1>> ELSE <<"sha256", a>> >>]]
    /\ UNCHANGED <<files, entries, appendLock, token, mishaps>>

\* A cancelled screenshot gives up at its next look at the token.
GiveUp(w) ==
    /\ Stopped(w) /\ Fails(w)
    /\ UNCHANGED <<files, entries, token, drawn, mishaps>>

\* Whatever fails, a batch cleans up after itself; the others leave their file.
Refuse(w) ==
    IF worker[w].kind = "batch" THEN Reach(w, "cleanup") /\ UNCHANGED appendLock ELSE Fails(w)

Current(w) == worker[w].ids[worker[w].done + 1]
Bytes(w) == worker[w].images[worker[w].done + 1]

\* A temporary file, written and synced whole, is linked to a name that nobody
\* has or that holds the same bytes; then the directory is synced.
PublishNoReplace(w) ==
    LET last == worker[w].done + 1 = Len(worker[w].images)
    IN  /\ worker[w].pc = "publish" /\ ~Stopped(w)
        /\ files[Current(w)] \in {Absent, Bytes(w)}
        /\ files' = [files EXCEPT ![Current(w)] = Bytes(w)]
        /\ \/ /\ worker' = [worker EXCEPT ![w].done = @ + 1,
                                          ![w].pc = IF last THEN "append" ELSE "publish"]
              /\ UNCHANGED <<appendLock, mishaps>>
           \/ Mishap /\ Refuse(w)
        /\ UNCHANGED <<entries, token, drawn>>

PublishFails(w) ==
    /\ worker[w].pc = "publish" /\ Mishap /\ Refuse(w)
    /\ UNCHANGED <<files, entries, token, drawn>>

Lines(w) ==
    LET job == worker[w]
        named == [i \in DOMAIN job.ids |->
                     Line("artifact", job.ids[i], job.images[i], job.kind = "shot")]
    IN  IF job.kind = "batch" THEN Append(named, Line("message", 0, Absent, FALSE)) ELSE named

\* append_records_unlocked and append_unlocked; an upload and a tool's output
\* take the lock for just this.
AppendLines(w) ==
    /\ worker[w].pc = "append" /\ appendLock \in {w, Absent} /\ ~Stopped(w)
    /\ entries' = entries \o Lines(w)
    /\ Fails(w)
    /\ UNCHANGED <<files, token, drawn, mishaps>>

\* Mutant: the files go although the journal may name them.
CleansAlways(w) == worker[w].kind = "batch"

\* A failed append of a batch: truncated for sure, or who knows what is left.
Cleans(w) == worker[w].kind = "batch" /\ entries' = entries

AppendFails(w) ==
    /\ worker[w].pc = "append" /\ appendLock \in {w, Absent} /\ ~Stopped(w) /\ Mishap
    /\ \E n \in 0 .. Len(Lines(w)) : entries' = entries \o SubSeq(Lines(w), 1, n)
    /\ \/ Cleans(w) /\ Reach(w, "cleanup") /\ UNCHANGED appendLock
       \/ Fails(w)
    /\ UNCHANGED <<files, token, drawn>>

\* The failed image's name, where a link without a synced directory may be, too.
Cleanup(w) ==
    /\ worker[w].pc = "cleanup"
    /\ LET own == {worker[w].ids[i] : i \in {j \in DOMAIN worker[w].ids : j <= worker[w].done + 1}}
       IN  files' = [id \in ArtifactIds |-> IF id \in own THEN Absent ELSE files[id]]
    /\ Fails(w)
    /\ UNCHANGED <<entries, token, drawn, mishaps>>

\* The future that would append is dropped, and with it all it would still do.
Dropped(w) ==
    /\ worker[w].pc = "append" /\ worker[w].kind \in {"upload", "tool"} /\ Fails(w)
    /\ UNCHANGED <<files, entries, token, drawn, mishaps>>

\* The process dies, perhaps in the middle of a batch of lines.
ArtifactCrash ==
    /\ Mishap
    /\ \/ UNCHANGED entries
       \/ \E w \in Workers :
            /\ worker[w].pc = "append" /\ Holds(w)
            /\ \E n \in 1 .. Len(Lines(w)) : entries' = entries \o SubSeq(Lines(w), 1, n)
    /\ worker' = [w \in Workers |-> Idle] /\ appendLock' = Absent
    /\ UNCHANGED <<files, token, drawn>>

\* run/cancel: the record first, and the token last.
RecordCancellation ==
    /\ ~Cancelled /\ appendLock = Absent
    /\ entries' = Append(entries, Line("cancelled", 0, Absent, FALSE))
    /\ UNCHANGED <<files, appendLock, token, worker, drawn, mishaps>>
CancelToken ==
    /\ Cancelled /\ token' = TRUE
    /\ UNCHANGED <<files, entries, appendLock, worker, drawn, mishaps>>

ArtifactNext ==
    \/ \E w \in Workers :
         \/ StoreImageCompletion(w) \/ StoreScreenshot(w) \/ GiveUp(w)
         \/ \E kind \in {"upload", "tool"} : StoreArtifact(w, kind)
         \/ PublishNoReplace(w) \/ PublishFails(w)
         \/ AppendLines(w) \/ AppendFails(w) \/ Cleanup(w) \/ Dropped(w)
    \/ ArtifactCrash \/ RecordCancellation \/ CancelToken

ArtifactSpec == ArtifactInit /\ [][ArtifactNext]_artifactVars

-----------------------------------------------------------------------------
(* Every file the journal names is there with all its bytes, whatever      *)
(* failed or died on the way; and nothing of the screen enters the journal *)
(* after the run's cancellation, though its token comes later than the     *)
(* record.                                                                 *)
NamedFilesExist ==
    /\ \A i \in DOMAIN entries :
         entries[i].kind = "artifact" => files[entries[i].id] = entries[i].bytes
    /\ \A i, j \in DOMAIN entries : entries[i].kind = "cancelled" /\ i < j => ~entries[j].shot
=============================================================================
