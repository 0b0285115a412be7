----------------------------- MODULE WriterLease -----------------------------
(***************************************************************************)
(* The portable writer lease of one session directory                      *)
(* (rust/src/session/writer_lease.rs) and the advisory lock that           *)
(* SessionStore::acquire_writer takes on top of it (rust/src/session.rs).  *)
(*                                                                         *)
(* Ownership is the directory writer.lock.d, created atomically; its       *)
(* owner.json names a token, and a loopback listener that lives exactly as *)
(* long as the owning process is the witness that the owner is alive.      *)
(* Every file-system call and every probe is a step of its own, so steps   *)
(* of different processes interleave between them.                         *)
(*                                                                         *)
(* One trip round the loop of `acquire` is one pass from "idle" back to    *)
(* "idle": whether the next pass belongs to the same call (a retry) or to  *)
(* a later one (after session_locked, or after the deadline) changes       *)
(* nothing the other processes can see.                                    *)
(***************************************************************************)
EXTENDS Naturals, FiniteSets

CONSTANTS
  Procs,       \* processes that open the session
  Tokens,      \* lease tokens; the bound on how many may be live in one state
  NoToken,
  NoProc,
  Advisory,    \* TRUE: SessionLease (portable lease + flock); FALSE: the
               \* SessionCoordinationLease, which is the portable lease alone
  GraceCovers  \* TRUE: an initializer that is still running is never older
               \* than INITIALIZATION_GRACE (2 s); FALSE: it may be

ASSUME NullAssumption == NoToken \notin Tokens /\ NoProc \notin Procs
ASSUME ModeAssumption == Advisory \in BOOLEAN /\ GraceCovers \in BOOLEAN

VARIABLES
  claim,       \* what writer.lock.d holds, or NoDir
  moved,       \* per process, the sibling writer.stale.* / writer.release.* it renamed the claim to
  listening,   \* tokens whose loopback listener accepts connections
  flock,       \* the process holding the advisory lock on `lock`, or NoProc
  pc,          \* per process, the next step of acquire / release
  token,       \* per process, the token of its current candidate
  seen,        \* per process, the token of the owner.json it inspected
  aged         \* per process, whether the claim it inspected was past the grace

vars == <<claim, moved, listening, flock, pc, token, seen, aged>>

-----------------------------------------------------------------------------
\* A claim directory: its owner.json, the temporary files of initializers that
\* are still running, whether there are temporaries of others, and its age.
Dirs == [owner : Tokens \cup {NoToken}, temps : SUBSET Tokens,
         litter : BOOLEAN, old : BOOLEAN]
NoDir == [owner |-> NoToken, temps |-> {NoToken}, litter |-> FALSE, old |-> FALSE]

EmptyDir == [owner |-> NoToken, temps |-> {}, litter |-> FALSE, old |-> FALSE]
IsEmpty(d) == d.owner = NoToken /\ d.temps = {} /\ ~d.litter

\* Nobody is going to rename the temporary file of token t any more.
Littered(d, t) ==
  IF t \in d.temps THEN [d EXCEPT !.temps = @ \ {t}, !.litter = TRUE] ELSE d

Initializing == {"temporary", "destination", "publish"}
TakingOver   == {"revalidate", "canonical", "restore", "remove"}
Releasing    == {"prepare", "rename", "unlock", "finish"}
Holding      == {"writing", "prepare", "rename"}
Steps == {"down", "idle", "create", "stat", "read", "probe", "stale", "owned", "writing"}
           \cup Initializing \cup TakingOver \cup Releasing

\* 256 random bits never repeat: a token is fresh while no state refers to it.
InDir(t, d) == t = d.owner \/ t \in d.temps
InUse(t) == \/ t \in listening
            \/ InDir(t, claim)
            \/ \E p \in Procs : t = token[p] \/ t = seen[p] \/ InDir(t, moved[p])

Goto(p, from, to) == pc[p] = from /\ pc' = [pc EXCEPT ![p] = to]

\* Return from the attempt: the listener closes; a sibling left behind is never
\* read again by anybody and no longer tracked.
Forget(p, from, to) ==
  /\ Goto(p, from, to)
  /\ listening' = listening \ {token[p]}
  /\ token' = [token EXCEPT ![p] = NoToken]
  /\ seen'  = [seen  EXCEPT ![p] = NoToken]
  /\ aged'  = [aged  EXCEPT ![p] = FALSE]

Abandon(p, from, to) ==
  /\ Forget(p, from, to)
  /\ claim' = Littered(claim, token[p])
  /\ moved' = [q \in Procs |-> IF q = p THEN NoDir ELSE Littered(moved[q], token[p])]

GiveUp(p, from) == Abandon(p, from, "idle")

Unmoved == UNCHANGED <<claim, moved>>
Unseen  == UNCHANGED <<token, seen, aged>>

-----------------------------------------------------------------------------
Init ==
  /\ claim = NoDir
  /\ moved = [p \in Procs |-> NoDir]
  /\ listening = {}
  /\ flock = NoProc
  /\ pc    = [p \in Procs |-> "idle"]
  /\ token = [p \in Procs |-> NoToken]
  /\ seen  = [p \in Procs |-> NoToken]
  /\ aged  = [p \in Procs |-> FALSE]

(* PortableWriterLease::candidate: bind the listener, draw the token. *)
Candidate(p) ==
  /\ Goto(p, "idle", "create")
  /\ \E t \in Tokens :
       /\ ~InUse(t)
       /\ token' = [token EXCEPT ![p] = t]
       /\ listening' = listening \cup {t}
  /\ Unmoved /\ UNCHANGED <<flock, seen, aged>>

(* create_dir(writer.lock.d): the winner initialises it, a loser closes its *)
(* listener and inspects what is there.                                     *)
CreateClaim(p) ==
  /\ \/ /\ claim = NoDir
        /\ Goto(p, "create", "temporary")
        /\ claim' = EmptyDir
        /\ UNCHANGED listening
     \/ /\ claim # NoDir
        /\ Goto(p, "create", "stat")
        /\ listening' = listening \ {token[p]}
        /\ UNCHANGED claim
  /\ Unseen /\ UNCHANGED <<moved, flock>>

-----------------------------------------------------------------------------
(* write_owner works by path: whatever directory is called writer.lock.d at  *)
(* that moment receives the file, and touching it renews its mtime.          *)
WriteTemporary(p) ==
  \/ /\ claim # NoDir
     /\ Goto(p, "temporary", "destination")
     /\ claim' = [claim EXCEPT !.temps = @ \cup {token[p]}, !.old = FALSE]
     /\ Unseen /\ UNCHANGED <<moved, listening, flock>>
  \/ /\ claim = NoDir
     /\ GiveUp(p, "temporary")
     /\ UNCHANGED flock

(* destination.try_exists(): an owner.json already there is an error. *)
CheckDestination(p) ==
  \/ /\ claim.owner = NoToken
     /\ Goto(p, "destination", "publish")
     /\ Unmoved /\ Unseen /\ UNCHANGED <<listening, flock>>
  \/ /\ claim.owner # NoToken
     /\ GiveUp(p, "destination")
     /\ UNCHANGED flock

(* rename(.owner.<token>.tmp, owner.json) replaces an owner.json that came   *)
(* in between, and fails when the temporary is not in this directory.        *)
PublishOwner(p) ==
  \/ /\ token[p] \in claim.temps
     /\ Goto(p, "publish", "owned")
     /\ claim' = [claim EXCEPT !.owner = token[p], !.temps = @ \ {token[p]},
                               !.old = FALSE]
     /\ Unseen /\ UNCHANGED <<moved, listening, flock>>
  \/ /\ token[p] \notin claim.temps
     /\ GiveUp(p, "publish")
     /\ UNCHANGED flock

-----------------------------------------------------------------------------
(* inspect_claim: symlink_metadata(writer.lock.d); gone means retry. *)
StatClaim(p) ==
  \/ /\ claim # NoDir
     /\ Goto(p, "stat", "read")
     /\ aged' = [aged EXCEPT ![p] = claim.old]
     /\ Unmoved /\ UNCHANGED <<listening, flock, token, seen>>
  \/ /\ claim = NoDir
     /\ GiveUp(p, "stat")
     /\ UNCHANGED flock

(* read_owner: a young claim without owner.json is waited for, an old one is *)
(* StaleCandidate::Missing; a claim that vanished is an error. The age is    *)
(* that of the mtime read by StatClaim, at the time of this step.            *)
ReadOwner(p) ==
  \/ /\ claim.owner # NoToken
     /\ Goto(p, "read", "probe")
     /\ seen' = [seen EXCEPT ![p] = claim.owner]
     /\ aged' = [aged EXCEPT ![p] = FALSE]
     /\ Unmoved /\ UNCHANGED <<listening, flock, token>>
  \/ /\ claim # NoDir /\ claim.owner = NoToken
     /\ aged[p] \/ claim.old
     /\ Goto(p, "read", "stale")
     /\ aged' = [aged EXCEPT ![p] = FALSE]
     /\ Unmoved /\ UNCHANGED <<listening, flock, token, seen>>
  \/ /\ claim.owner = NoToken
     /\ claim = NoDir \/ ~(aged[p] \/ claim.old)
     /\ GiveUp(p, "read")
     /\ UNCHANGED flock

\* Mutant: a refused connection is not taken as proof of death.
ProbeOwnerTimid(p) == GiveUp(p, "probe") /\ UNCHANGED flock

(* probe_owner: only an explicit refusal makes the owner stale, and only a   *)
(* closed listener refuses; anything else (a timeout, a port taken over by   *)
(* an unrelated process) is Locked.                                          *)
ProbeOwner(p) ==
  \/ /\ seen[p] \notin listening
     /\ Goto(p, "probe", "stale")
     /\ Unmoved /\ Unseen /\ UNCHANGED <<listening, flock>>
  \/ /\ GiveUp(p, "probe")
     /\ UNCHANGED flock

-----------------------------------------------------------------------------
(* take_over_stale: rename(writer.lock.d, writer.stale.<token>). *)
RenameStale(p) ==
  \/ /\ claim # NoDir
     /\ Goto(p, "stale", "revalidate")
     /\ moved' = [moved EXCEPT ![p] = claim]
     /\ claim' = NoDir
     /\ Unseen /\ UNCHANGED <<listening, flock>>
  \/ /\ claim = NoDir
     /\ GiveUp(p, "stale")
     /\ UNCHANGED flock

\* Mutant: the moved directory is not compared with the inspected one.
StillStaleUnread(p) == seen[p] \notin listening

(* revalidate_stale: is the directory just moved the one that was inspected, *)
(* and is its listener still closed? A second probe may be ambiguous too.    *)
StillStale(p) ==
  /\ moved[p].owner = seen[p]
  /\ seen[p] \notin listening

RevalidateStale(p) ==
  /\ \/ StillStale(p) /\ Goto(p, "revalidate", "remove")
     \/ (StillStale(p) => seen[p] # NoToken) /\ Goto(p, "revalidate", "canonical")
  /\ Unmoved /\ Unseen /\ UNCHANGED <<listening, flock>>

(* remove_dir_all of the moved directory, then another round of the loop. *)
RemoveStale(p) ==
  /\ GiveUp(p, "remove")
  /\ UNCHANGED flock

(* restore_moved_claim: is the canonical name free... *)
CheckCanonical(p) ==
  \/ /\ claim = NoDir
     /\ Goto(p, "canonical", "restore")
     /\ Unmoved /\ Unseen /\ UNCHANGED <<listening, flock>>
  \/ /\ claim # NoDir
     /\ GiveUp(p, "canonical")
     /\ UNCHANGED flock

(* ...then rename it back, over nothing or over a directory that is empty.   *)
RestoreClaim(p) ==
  /\ \/ /\ claim = NoDir \/ IsEmpty(claim)
        /\ Forget(p, "restore", "idle")
        /\ claim' = moved[p]
        /\ moved' = [moved EXCEPT ![p] = NoDir]
     \/ /\ claim # NoDir /\ ~IsEmpty(claim)
        /\ GiveUp(p, "restore")
  /\ UNCHANGED flock

-----------------------------------------------------------------------------
(* acquire_writer: try_lock_exclusive on `lock`; when busy, release the      *)
(* portable lease. acquire_session_coordination stops at the portable lease. *)
LockAdvisory(p) ==
  /\ \/ /\ Advisory /\ flock = NoProc
        /\ Goto(p, "owned", "writing")
        /\ flock' = p
     \/ /\ Advisory /\ flock # NoProc
        /\ Goto(p, "owned", "prepare")
        /\ UNCHANGED flock
     \/ /\ ~Advisory
        /\ Goto(p, "owned", "writing")
        /\ UNCHANGED flock
  /\ Unmoved /\ Unseen /\ UNCHANGED listening

(* The holder drops its lease. *)
Release(p) ==
  /\ Goto(p, "writing", "prepare")
  /\ Unmoved /\ Unseen /\ UNCHANGED <<listening, flock>>

(* prepare_release: does owner.json still carry our token... *)
PrepareRelease(p) ==
  /\ \/ claim.owner = token[p] /\ Goto(p, "prepare", "rename")
     \/ claim.owner # token[p] /\ Goto(p, "prepare", "unlock")
  /\ Unmoved /\ Unseen /\ UNCHANGED <<listening, flock>>

(* ...then rename(writer.lock.d, writer.release.<token>). *)
RenameRelease(p) ==
  /\ Goto(p, "rename", "unlock")
  /\ moved' = [moved EXCEPT ![p] = claim]
  /\ claim' = NoDir
  /\ Unseen /\ UNCHANGED <<listening, flock>>

\* Mutant: unlock frees the lock whoever holds it.
UnlockAnyAdvisory(p) ==
  /\ Goto(p, "unlock", "finish")
  /\ flock' = NoProc
  /\ Unmoved /\ Unseen /\ UNCHANGED listening

(* release_writer_locks: the advisory lock goes before the listener. *)
UnlockAdvisory(p) ==
  /\ Goto(p, "unlock", "finish")
  /\ flock' = IF flock = p THEN NoProc ELSE flock
  /\ Unmoved /\ Unseen /\ UNCHANGED listening

(* finish_release: close the listener, remove the release sibling. *)
FinishRelease(p) ==
  /\ GiveUp(p, "finish")
  /\ UNCHANGED flock

-----------------------------------------------------------------------------
(* The process dies: the system closes its listener and its file lock, the   *)
(* directories stay. It may come back as a new contender.                    *)
Crash(p) ==
  /\ pc[p] \notin {"idle", "down"}
  /\ Abandon(p, pc[p], "down")
  /\ flock' = IF flock = p THEN NoProc ELSE flock

Restart(p) ==
  /\ Goto(p, "down", "idle")
  /\ Unmoved /\ Unseen /\ UNCHANGED <<listening, flock>>

(* INITIALIZATION_GRACE elapses over a claim without owner.json. *)
GraceExpires ==
  /\ claim # NoDir /\ claim.owner = NoToken /\ ~claim.old
  /\ GraceCovers => \A p \in Procs : pc[p] \notin Initializing
  /\ claim' = [claim EXCEPT !.old = TRUE]
  /\ UNCHANGED <<moved, listening, flock, pc, token, seen, aged>>

Acquire(p) ==
  \/ Candidate(p) \/ CreateClaim(p)
  \/ WriteTemporary(p) \/ CheckDestination(p) \/ PublishOwner(p)
  \/ StatClaim(p) \/ ReadOwner(p) \/ ProbeOwner(p)
  \/ RenameStale(p) \/ RevalidateStale(p) \/ RemoveStale(p)
  \/ CheckCanonical(p) \/ RestoreClaim(p)
  \/ LockAdvisory(p)

Drop(p) ==
  \/ Release(p) \/ PrepareRelease(p) \/ RenameRelease(p)
  \/ UnlockAdvisory(p) \/ FinishRelease(p)

Next == GraceExpires \/ \E p \in Procs : Acquire(p) \/ Drop(p) \/ Crash(p) \/ Restart(p)

Spec == Init /\ [][Next]_vars

(* A process neither dies nor stops between two steps, and a client retries  *)
(* the retryable session_locked error; a probe of a closed port is answered  *)
(* with a refusal infinitely often (SF), not always with an ambiguous error. *)
Fairness ==
  \A p \in Procs :
    /\ WF_vars(Acquire(p))
    /\ WF_vars(Drop(p))
    /\ SF_vars(ProbeOwner(p) /\ pc'[p] = "stale")
    /\ SF_vars(RevalidateStale(p) /\ pc'[p] = "remove")

LiveSpec == Spec /\ Fairness /\ WF_vars(GraceExpires)

-----------------------------------------------------------------------------
\* Values, and when a process has a candidate: exactly while it is at work.
TypeOK ==
  /\ claim \in Dirs \cup {NoDir}
  /\ moved \in [Procs -> Dirs \cup {NoDir}]
  /\ listening \in SUBSET Tokens
  /\ flock \in Procs \cup {NoProc}
  /\ pc \in [Procs -> Steps]
  /\ token \in [Procs -> Tokens \cup {NoToken}]
  /\ seen \in [Procs -> Tokens \cup {NoToken}]
  /\ aged \in [Procs -> BOOLEAN]
  /\ \A p \in Procs : token[p] = NoToken <=> pc[p] \in {"idle", "down"}

Writers == {p \in Procs : pc[p] = "writing"}

(* Two processes never work on the session at the same time. For            *)
(* acquire_writer this has to hold whatever becomes of the portable claim;  *)
(* for acquire_session_coordination it rests on the claim alone.            *)
WritersExclude == \A p, q \in Writers : p = q

(* take_over_stale deletes a claim only when the owner it names is dead: a  *)
(* new or changed owner is never deleted, however old the snapshot is.      *)
TakeoverSparesLive ==
  \A p \in Procs : pc[p] = "remove" => moved[p].owner \notin listening

(* The leases taken one after the other are a mutual exclusion lock.        *)
Lock == INSTANCE SessionLock WITH writers <- Writers
ImplementsLock == Lock!Spec

(* A claim whose owner died is reclaimed as long as one contender survives   *)
(* and keeps trying: a crash never locks a session for good.                 *)
DeadClaim == claim # NoDir /\ claim.owner \notin listening
DeadClaimReclaimed ==
  (\E p \in Procs : <>[](pc[p] # "down")) => (DeadClaim ~> ~DeadClaim)

=============================================================================
