-------------------------- MODULE SessionLifecycle --------------------------
(***************************************************************************)
(* Session directories and what several daemons do with them               *)
(* (session_lifecycle.rs, session.rs, legacy_session_v3_import.rs): open   *)
(* and create, list, archive and restore, permanent deletion by way of a   *)
(* tombstone that a later call can finish, publication of an import. The   *)
(* coordination lease of a session ID is taken for a lock here (its own    *)
(* races are WriterLease's); a process that dies frees it.                 *)
(***************************************************************************)
EXTENDS Naturals

CONSTANTS Procs, Sessions,
          None, Dead,       \* no process; a writer claim whose owner died
          MaxDirs,          \* bound: directories ever created
          MaxRequests,      \* bound: requests other than a retried deletion
          MaxCrashes        \* bound: crashes

ASSUME LifecycleAssumption ==
    /\ None \notin Procs /\ Dead \notin Procs /\ None # Dead
    /\ MaxDirs \in Nat /\ MaxRequests \in Nat /\ MaxCrashes \in Nat

VARIABLES home,     \* the directory at sessions/<id>: its identity, journal, claim, file lock
          tomb,     \* the directory at .session-tombstones/<id>
          archive,  \* archive-state.json: the archived session IDs
          coord,    \* holder of the coordination lease of an ID
          life,     \* holder of session-lifecycle.lock
          proc,     \* what each process is doing
          dirs, requests, crashes
lifecycleVars == <<home, tomb, archive, coord, life, proc, dirs, requests, crashes>>

NoDir == [inc |-> 0, journal |-> FALSE, claim |-> None, lock |-> None]
Idle == [pc |-> "idle", op |-> "none", sid |-> None, inc |-> 0, doc |-> {}]
Exists(d) == d.inc # 0

LifecycleInit ==
    /\ home = [s \in Sessions |-> NoDir] /\ tomb = [s \in Sessions |-> NoDir]
    /\ archive = {} /\ coord = [s \in Sessions |-> None] /\ life = None
    /\ proc = [p \in Procs |-> Idle]
    /\ dirs = 0 /\ requests = 0 /\ crashes = 0

At_(p, pc) == proc[p].pc = pc
Sid(p) == proc[p].sid
Op(p) == proc[p].op
Goto(p, pc) == proc' = [proc EXCEPT ![p].pc = pc]

\* A directory without the claim and the file lock of p.
Freed(d, p, claim) == [d EXCEPT !.claim = IF @ = p THEN claim ELSE @,
                                !.lock = IF @ = p THEN None ELSE @]

\* The process leaves the operation and drops everything it holds.
Leave(p, claim) ==
    /\ home' = [s \in Sessions |-> Freed(home[s], p, claim)]
    /\ tomb' = [s \in Sessions |-> Freed(tomb[s], p, claim)]
    /\ coord' = [s \in Sessions |-> IF coord[s] = p THEN None ELSE coord[s]]
    /\ life' = IF life = p THEN None ELSE life
    /\ proc' = [proc EXCEPT ![p] = Idle]
Quit(p) == Leave(p, None) /\ UNCHANGED archive

Bounds == UNCHANGED <<dirs, requests, crashes>>
Stays == UNCHANGED <<home, tomb, archive, coord, life>>

-----------------------------------------------------------------------------
(* Opening a session: create_session, then acquire_writer.                 *)

TakeCoordination(p) ==
    /\ At_(p, "coordinate")
    /\ IF coord[Sid(p)] = None
       THEN /\ coord' = [coord EXCEPT ![Sid(p)] = p]
            /\ Goto(p, IF Op(p) = "delete" THEN "lifecycle" ELSE "tombstone")
            /\ UNCHANGED <<home, tomb, archive, life>>
       ELSE Quit(p)
    /\ Bounds

CheckTombstone(p) ==
    /\ At_(p, "tombstone")
    /\ IF Exists(tomb[Sid(p)])
       THEN Quit(p)
       ELSE Goto(p, IF Op(p) = "create" THEN "mkdir" ELSE "claim") /\ Stays
    /\ Bounds

\* A new directory at the path of the session; at the bound the file system refuses.
Full == dirs = MaxDirs
NewDir(s, journal) ==
    /\ ~Full
    /\ dirs' = dirs + 1
    /\ home' = [home EXCEPT ![s] = [NoDir EXCEPT !.inc = dirs + 1, !.journal = journal]]

MakeDirectory(p) ==
    /\ At_(p, "mkdir")
    /\ CASE Exists(home[Sid(p)]) -> Goto(p, "claim") /\ Stays /\ UNCHANGED dirs
         [] ~Exists(home[Sid(p)]) /\ ~Full ->
                NewDir(Sid(p), FALSE) /\ Goto(p, "claim") /\ UNCHANGED <<tomb, archive, coord, life>>
         [] OTHER -> Quit(p) /\ UNCHANGED dirs
    /\ UNCHANGED <<requests, crashes>>

\* The claim of a dead writer is taken over.
TakeClaim(p) ==
    /\ At_(p, "claim")
    /\ IF Exists(home[Sid(p)]) /\ home[Sid(p)].claim \in {None, Dead}
       THEN /\ home' = [home EXCEPT ![Sid(p)].claim = p]
            /\ Goto(p, "lock")
            /\ UNCHANGED <<tomb, archive, coord, life>>
       ELSE Quit(p)
    /\ Bounds

TakeLock(p) ==
    /\ At_(p, "lock")
    /\ IF home[Sid(p)].lock = None /\ (Op(p) = "create" \/ home[Sid(p)].journal)
       THEN /\ home' = [home EXCEPT ![Sid(p)].lock = p]
            /\ proc' = [proc EXCEPT ![p].pc = IF Op(p) = "create" THEN "header" ELSE "writing",
                                    ![p].inc = home[Sid(p)].inc]
            /\ UNCHANGED <<tomb, archive, coord, life>>
       ELSE Quit(p)
    /\ Bounds

\* The header is written unless it is there; everything is released, and
\* acquire_writer starts again.
WriteHeader(p) ==
    /\ At_(p, "header")
    /\ home' = [home EXCEPT ![Sid(p)] = [Freed(@, p, None) EXCEPT !.journal = TRUE]]
    /\ coord' = [coord EXCEPT ![Sid(p)] = None]
    /\ proc' = [proc EXCEPT ![p].pc = "coordinate", ![p].op = "open", ![p].inc = 0]
    /\ UNCHANGED <<tomb, archive, life>>
    /\ Bounds

CloseWriter(p) == At_(p, "writing") /\ Quit(p) /\ Bounds

-----------------------------------------------------------------------------
(* Archive, restore, list and delete.                                      *)

TakeLifecycle(p) ==
    /\ At_(p, "lifecycle")
    /\ IF life = None
       THEN /\ life' = p
            /\ Goto(p, CASE Op(p) = "delete" -> "look"
                         [] Op(p) = "list"   -> "list"
                         [] OTHER            -> "resolve")
            /\ UNCHANGED <<home, tomb, archive, coord>>
       ELSE Quit(p)
    /\ Bounds

\* The lock covers the reading of the archive only, not the scan of the directories.
ListSessions(p) == At_(p, "list") /\ Quit(p) /\ Bounds

\* Mutant: a deletion starts from the session only.
LookForHome(p) ==
    /\ At_(p, "look")
    /\ IF Exists(home[Sid(p)]) /\ ~Exists(tomb[Sid(p)])
       THEN Goto(p, "resolve") /\ Stays
       ELSE Quit(p)
    /\ Bounds

\* A deletion that was interrupted goes on with the tombstone.
LookForSession(p) ==
    /\ At_(p, "look")
    /\ CASE Exists(home[Sid(p)]) /\ ~Exists(tomb[Sid(p)]) -> Goto(p, "resolve") /\ Stays
         [] ~Exists(home[Sid(p)]) /\ Exists(tomb[Sid(p)]) -> Goto(p, "unlist") /\ Stays
         [] OTHER -> Quit(p)
    /\ Bounds

Resolve(p) ==
    /\ At_(p, "resolve")
    /\ IF Exists(home[Sid(p)]) /\ home[Sid(p)].journal
       THEN Goto(p, "session") /\ Stays
       ELSE Quit(p)
    /\ Bounds

\* Mutant: a held file lock is not respected.
LockSessionAnyway(p) ==
    /\ At_(p, "session")
    /\ home' = [home EXCEPT ![Sid(p)].lock = p]
    /\ Goto(p, IF Op(p) = "delete" THEN "retire" ELSE "read")
    /\ UNCHANGED <<tomb, archive, coord, life>>
    /\ Bounds

\* The file lock of the session, then the absence of any writer claim.
LockSession(p) ==
    /\ At_(p, "session")
    /\ IF Exists(home[Sid(p)]) /\ home[Sid(p)].lock = None
       THEN /\ home' = [home EXCEPT ![Sid(p)].lock = p]
            /\ Goto(p, "presence")
            /\ UNCHANGED <<tomb, archive, coord, life>>
       ELSE Quit(p)
    /\ Bounds

RejectWriterPresence(p) ==
    /\ At_(p, "presence")
    /\ IF home[Sid(p)].claim = None
       THEN Goto(p, IF Op(p) = "delete" THEN "retire" ELSE "read") /\ Stays
       ELSE Quit(p)
    /\ Bounds

ReadArchive(p) ==
    /\ At_(p, "read")
    /\ proc' = [proc EXCEPT ![p].pc = "publish", ![p].doc = archive]
    /\ Stays
    /\ Bounds

\* A new document replaces the old one atomically.
PublishArchive(p) ==
    /\ At_(p, "publish")
    /\ archive' = IF Op(p) = "archive" THEN proc[p].doc \cup {Sid(p)} ELSE proc[p].doc \ {Sid(p)}
    /\ Leave(p, None)
    /\ Bounds

\* The directory moves, with whatever is in it; its file lock is dropped.
MoveToTombstone(p) ==
    /\ At_(p, "retire")
    /\ IF Exists(tomb[Sid(p)])
       THEN Quit(p)
       ELSE /\ tomb' = [tomb EXCEPT ![Sid(p)] = Freed(home[Sid(p)], p, None)]
            /\ home' = [home EXCEPT ![Sid(p)] = NoDir]
            /\ Goto(p, "unlist")
            /\ UNCHANGED <<archive, coord, life>>
    /\ Bounds

\* Mutant: the tombstone goes first, the archive is cleaned afterwards.
UnlistLast(p) ==
    /\ At_(p, "unlist")
    /\ tomb' = [tomb EXCEPT ![Sid(p)] = NoDir]
    /\ Goto(p, "purge")
    /\ UNCHANGED <<home, archive, coord, life>>
    /\ Bounds

\* The archive forgets the session before the tombstone goes.
Unlist(p) ==
    /\ At_(p, "unlist")
    /\ archive' = archive \ {Sid(p)}
    /\ Goto(p, "purge")
    /\ UNCHANGED <<home, tomb, coord, life>>
    /\ Bounds

RemoveTombstone(p) ==
    /\ At_(p, "purge")
    /\ tomb' = [tomb EXCEPT ![Sid(p)] = NoDir]
    /\ coord' = [coord EXCEPT ![Sid(p)] = None]
    /\ life' = None
    /\ proc' = [proc EXCEPT ![p] = Idle]
    /\ UNCHANGED <<home, archive>>
    /\ Bounds

-----------------------------------------------------------------------------
(* Import: staged beside the sessions, published by a rename that never    *)
(* replaces. It asks neither the coordination lease nor the tombstones.    *)

StageImport(p) ==
    /\ At_(p, "stage")
    /\ IF Exists(home[Sid(p)]) THEN Quit(p) ELSE Goto(p, "rename") /\ Stays
    /\ Bounds

PublishImport(p) ==
    /\ At_(p, "rename")
    /\ IF Exists(home[Sid(p)]) \/ Full
       THEN Quit(p) /\ UNCHANGED dirs
       ELSE /\ NewDir(Sid(p), TRUE)
            /\ proc' = [proc EXCEPT ![p] = Idle]
            /\ UNCHANGED <<tomb, archive, coord, life>>
    /\ UNCHANGED <<requests, crashes>>

-----------------------------------------------------------------------------

First == [create |-> "coordinate", open |-> "coordinate", delete |-> "coordinate",
          archive |-> "lifecycle", restore |-> "lifecycle", list |-> "lifecycle",
          import |-> "stage"]

Begin(p, op, s) ==
    /\ At_(p, "idle")
    /\ proc' = [proc EXCEPT ![p] = [Idle EXCEPT !.pc = First[op], !.op = op, !.sid = s]]
    /\ UNCHANGED <<home, tomb, archive, coord, life, dirs, crashes>>

Request(p, s) ==
    /\ requests < MaxRequests
    /\ requests' = requests + 1
    /\ \E op \in DOMAIN First : Begin(p, op, s)

\* The client of an interrupted deletion asks again.
RetryDelete(p, s) ==
    /\ Exists(tomb[s]) /\ UNCHANGED requests
    /\ Begin(p, "delete", s)

Step(p) ==
    \/ TakeCoordination(p) \/ CheckTombstone(p) \/ MakeDirectory(p) \/ TakeClaim(p)
    \/ TakeLock(p) \/ WriteHeader(p) \/ CloseWriter(p)
    \/ TakeLifecycle(p) \/ ListSessions(p) \/ LookForSession(p) \/ Resolve(p)
    \/ LockSession(p) \/ RejectWriterPresence(p) \/ ReadArchive(p) \/ PublishArchive(p)
    \/ MoveToTombstone(p) \/ Unlist(p) \/ RemoveTombstone(p)
    \/ StageImport(p) \/ PublishImport(p)

\* The process dies, or a call of the file system fails and the operation returns.
Crash(p) ==
    /\ ~At_(p, "idle") /\ crashes < MaxCrashes
    /\ crashes' = crashes + 1
    /\ Leave(p, Dead)
    /\ UNCHANGED <<archive, dirs, requests>>

LifecycleNext ==
    \E p \in Procs :
        \/ Step(p) \/ Crash(p)
        \/ \E s \in Sessions : Request(p, s) \/ RetryDelete(p, s)

-----------------------------------------------------------------------------

(* Who writes a session, or its header, has the directory it opened under  *)
(* its lock: it is not moved, deleted, or replaced by another meanwhile.   *)
WriterKeepsItsDirectory ==
    \A p \in Procs :
        proc[p].pc \in {"header", "writing"} =>
            home[Sid(p)].inc = proc[p].inc /\ home[Sid(p)].lock = p

(* An ID in the archive document belongs to a session that is there or     *)
(* about to be deleted: no new session of that ID starts archived.         *)
ArchivedHasHome == \A s \in archive : Exists(home[s]) \/ Exists(tomb[s])

(* The two together.                                                        *)
DirectoriesSound == WriterKeepsItsDirectory /\ ArchivedHasHome

(* An interrupted deletion is finished when its client asks again, unless  *)
(* an import has put a new session beside the tombstone.                   *)
PendingDeleteEnds ==
    \A s \in Sessions : Exists(tomb[s]) ~> (~Exists(tomb[s]) \/ Exists(home[s]))

=============================================================================
