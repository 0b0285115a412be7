------------------------- MODULE WriterLease_proofs -------------------------
(***************************************************************************)
(* Proofs about WriterLease, for any number of processes and tokens.       *)
(*                                                                         *)
(* TypeOK is inductive. With the advisory lock, the strengthening that     *)
(* makes mutual exclusion inductive is FlockHeld: whoever writes holds the *)
(* flock. TakeoverSparesLive is inductive relative to TypeOK, because a    *)
(* token is fresh when its listener opens.                                 *)
(***************************************************************************)
EXTENDS WriterLease, TLAPS

Maybe == Dirs \cup {NoDir}

(* Losing an initializer's temporary file leaves a directory a directory,   *)
(* and no directory no directory (Abandon, on every error path of acquire). *)
LEMMA LitteredType ==
  ASSUME NEW d \in Maybe, NEW t \in Tokens
  PROVE  /\ Littered(d, t) \in Maybe
         /\ Littered(d, t).owner = d.owner
<1>1. CASE d \in Dirs
  BY <1>1 DEF Littered, Dirs, Maybe
<1>2. CASE d = NoDir
  BY <1>2, NullAssumption DEF Littered, NoDir, Maybe
<1> QED BY <1>1, <1>2 DEF Maybe

(* A process that is neither idle nor down has a token of its own. *)
LEMMA OwnToken ==
  ASSUME TypeOK, NEW p \in Procs, pc[p] \notin {"idle", "down"}
  PROVE  token[p] \in Tokens
BY DEF TypeOK

(* Leaving an attempt keeps the types: Forget, Abandon and what they reset. *)
LEMMA ForgetType ==
  ASSUME TypeOK, NEW p \in Procs, NEW from \in Steps, NEW to \in {"idle", "down"},
         from \notin {"idle", "down"}, Forget(p, from, to)
  PROVE  /\ listening' \in SUBSET Tokens
         /\ pc' \in [Procs -> Steps]
         /\ token' \in [Procs -> Tokens \cup {NoToken}]
         /\ seen' \in [Procs -> Tokens \cup {NoToken}]
         /\ aged' \in [Procs -> BOOLEAN]
         /\ \A q \in Procs : token'[q] = NoToken <=> pc'[q] \in {"idle", "down"}
<1>1. to \in Steps
  BY DEF Steps
<1> QED BY <1>1 DEF TypeOK, Forget, Goto

LEMMA AbandonType ==
  ASSUME TypeOK, NEW p \in Procs, NEW from \in Steps, NEW to \in {"idle", "down"},
         from \notin {"idle", "down"}, Abandon(p, from, to),
         flock' \in Procs \cup {NoProc}
  PROVE  TypeOK'
<1>1. Forget(p, from, to)
  BY DEF Abandon
<1>2. token[p] \in Tokens
  BY <1>1, OwnToken DEF Forget, Goto
<1>3. claim' \in Maybe
  BY <1>2, LitteredType DEF Abandon, TypeOK, Maybe
<1>4. moved' \in [Procs -> Maybe]
  <2>1. ASSUME NEW q \in Procs
        PROVE  (IF q = p THEN NoDir ELSE Littered(moved[q], token[p])) \in Maybe
    BY <1>2, LitteredType DEF TypeOK, Maybe
  <2> QED BY <2>1 DEF Abandon
<1>5. /\ listening' \in SUBSET Tokens
      /\ pc' \in [Procs -> Steps]
      /\ token' \in [Procs -> Tokens \cup {NoToken}]
      /\ seen' \in [Procs -> Tokens \cup {NoToken}]
      /\ aged' \in [Procs -> BOOLEAN]
      /\ \A q \in Procs : token'[q] = NoToken <=> pc'[q] \in {"idle", "down"}
  BY <1>1, ForgetType
<1> QED BY <1>3, <1>4, <1>5 DEF TypeOK, Maybe

(* A step that moves p from one step of acquire or release to another and   *)
(* keeps its candidate.                                                     *)
LEMMA GotoType ==
  ASSUME TypeOK, NEW p \in Procs, NEW from \in Steps, NEW to \in Steps,
         from \notin {"idle", "down"}, to \notin {"idle", "down"},
         Goto(p, from, to), token' = token
  PROVE  /\ pc' \in [Procs -> Steps]
         /\ token' \in [Procs -> Tokens \cup {NoToken}]
         /\ \A q \in Procs : token'[q] = NoToken <=> pc'[q] \in {"idle", "down"}
BY DEF TypeOK, Goto

-----------------------------------------------------------------------------
LEMMA TypeInit == Init => TypeOK
BY NullAssumption DEF Init, TypeOK, Steps

(* Type correctness of acquire, one step per call of the code. *)
LEMMA TypeAcquire ==
  ASSUME TypeOK, NEW p \in Procs, Acquire(p)
  PROVE  TypeOK'
<1> DEFINE Seps == {"create", "stat", "read", "probe", "stale", "owned", "writing",
                    "temporary", "destination", "publish",
                    "revalidate", "canonical", "restore", "remove",
                    "prepare", "rename", "unlock", "finish"}
<1>a. Seps \subseteq Steps /\ {"idle", "down"} \cap Seps = {} /\ "idle" \in Steps
  BY DEF Steps, Initializing, TakingOver, Releasing
<1>b. ASSUME NEW from \in Seps, GiveUp(p, from), UNCHANGED flock
      PROVE  TypeOK'
  BY <1>a, <1>b, AbandonType DEF GiveUp, TypeOK
<1>c. ASSUME NEW from \in Seps, NEW to \in Seps, Goto(p, from, to), UNCHANGED token
      PROVE  /\ pc' \in [Procs -> Steps]
             /\ token' \in [Procs -> Tokens \cup {NoToken}]
             /\ \A q \in Procs : token'[q] = NoToken <=> pc'[q] \in {"idle", "down"}
  BY <1>a, <1>c, GotoType
<1>d. ASSUME NEW from \in Seps, NEW to \in Seps, Goto(p, from, to), Unmoved,
             UNCHANGED <<listening, token, seen, aged>>, flock' \in Procs \cup {NoProc}
      PROVE  TypeOK'
  BY <1>c, <1>d DEF TypeOK, Unmoved
<1>1. CASE Candidate(p)
  <2>1. PICK t \in Tokens : token' = [token EXCEPT ![p] = t]
                            /\ listening' = listening \cup {t}
    BY <1>1 DEF Candidate
  <2>2. "create" \in Steps
    BY <1>a
  <2> QED BY <1>1, <2>1, <2>2, NullAssumption DEF Candidate, TypeOK, Goto, Unmoved
<1>2. CASE CreateClaim(p)
  <2>1. EmptyDir \in Dirs
    BY DEF EmptyDir, Dirs
  <2>2. CASE Goto(p, "create", "temporary")
    BY <1>2, <1>c, <2>1, <2>2 DEF CreateClaim, TypeOK, Unseen
  <2>3. CASE Goto(p, "create", "stat")
    BY <1>2, <1>c, <2>1, <2>3 DEF CreateClaim, TypeOK, Unseen
  <2> QED BY <1>2, <2>2, <2>3 DEF CreateClaim
<1>3. CASE WriteTemporary(p)
  <2>1. CASE GiveUp(p, "temporary") /\ UNCHANGED flock
    BY <1>b, <2>1
  <2>2. CASE Goto(p, "temporary", "destination") /\ WriteTemporary(p) /\ claim # NoDir
             /\ claim' = [claim EXCEPT !.temps = @ \cup {token[p]}, !.old = FALSE]
             /\ UNCHANGED <<token, seen, aged, moved, listening, flock>>
    <3>1. token[p] \in Tokens
      BY <2>2, OwnToken DEF Goto
    <3>2. claim' \in Dirs
      BY <2>2, <3>1 DEF TypeOK, Dirs
    <3> QED BY <2>2, <3>2, <1>c DEF TypeOK
  <2> QED BY <1>3, <2>1, <2>2 DEF WriteTemporary, Unseen
<1>4. CASE CheckDestination(p)
  BY <1>4, <1>b, <1>d DEF CheckDestination, Unseen, TypeOK
<1>5. CASE PublishOwner(p)
  <2>1. CASE GiveUp(p, "publish") /\ UNCHANGED flock
    BY <1>b, <2>1
  <2>2. CASE Goto(p, "publish", "owned") /\ token[p] \in claim.temps
             /\ claim' = [claim EXCEPT !.owner = token[p], !.temps = @ \ {token[p]},
                                       !.old = FALSE]
             /\ UNCHANGED <<token, seen, aged, moved, listening, flock>>
    <3>1. token[p] \in Tokens
      BY <2>2, OwnToken DEF Goto
    <3>2. claim \in Dirs
      BY <2>2, <3>1, NullAssumption DEF TypeOK, NoDir
    <3>3. claim' \in Dirs
      BY <2>2, <3>1, <3>2 DEF Dirs
    <3> QED BY <2>2, <3>3, <1>c DEF TypeOK
  <2> QED BY <1>5, <2>1, <2>2 DEF PublishOwner, Unseen
<1>6. CASE StatClaim(p)
  <2>1. CASE GiveUp(p, "stat") /\ UNCHANGED flock
    BY <1>b, <2>1
  <2>2. CASE Goto(p, "stat", "read") /\ claim # NoDir
             /\ aged' = [aged EXCEPT ![p] = claim.old]
             /\ UNCHANGED <<claim, moved, listening, flock, token, seen>>
    <3>1. claim.old \in BOOLEAN
      BY <2>2 DEF TypeOK, Dirs
    <3> QED BY <2>2, <3>1, <1>c DEF TypeOK
  <2> QED BY <1>6, <2>1, <2>2 DEF StatClaim, Unmoved
<1>7. CASE ReadOwner(p)
  <2>1. CASE GiveUp(p, "read") /\ UNCHANGED flock
    BY <1>b, <2>1
  <2>2. CASE Goto(p, "read", "probe")
             /\ seen' = [seen EXCEPT ![p] = claim.owner]
             /\ aged' = [aged EXCEPT ![p] = FALSE]
             /\ UNCHANGED <<claim, moved, listening, flock, token>>
    <3>1. claim.owner \in Tokens \cup {NoToken}
      BY DEF TypeOK, Dirs, NoDir
    <3> QED BY <2>2, <3>1, <1>c DEF TypeOK
  <2>3. CASE Goto(p, "read", "stale")
             /\ aged' = [aged EXCEPT ![p] = FALSE]
             /\ UNCHANGED <<claim, moved, listening, flock, token, seen>>
    BY <2>3, <1>c DEF TypeOK
  <2> QED BY <1>7, <2>1, <2>2, <2>3 DEF ReadOwner, Unmoved
<1>8. CASE ProbeOwner(p)
  BY <1>8, <1>b, <1>d DEF ProbeOwner, Unseen, TypeOK
<1>9. CASE RenameStale(p)
  <2>1. CASE GiveUp(p, "stale") /\ UNCHANGED flock
    BY <1>b, <2>1
  <2>2. CASE Goto(p, "stale", "revalidate")
             /\ moved' = [moved EXCEPT ![p] = claim] /\ claim' = NoDir
             /\ UNCHANGED <<token, seen, aged, listening, flock>>
    BY <2>2, <1>c DEF TypeOK
  <2> QED BY <1>9, <2>1, <2>2 DEF RenameStale, Unseen
<1>10. CASE RevalidateStale(p)
  BY <1>10, <1>d DEF RevalidateStale, Unseen, TypeOK
<1>11. CASE RemoveStale(p)
  BY <1>11, <1>b DEF RemoveStale
<1>12. CASE CheckCanonical(p)
  BY <1>12, <1>b, <1>d DEF CheckCanonical, Unseen, TypeOK
<1>13. CASE RestoreClaim(p)
  <2>1. CASE GiveUp(p, "restore") /\ UNCHANGED flock
    BY <1>b, <2>1
  <2>2. CASE Forget(p, "restore", "idle") /\ claim' = moved[p]
             /\ moved' = [moved EXCEPT ![p] = NoDir] /\ UNCHANGED flock
    <3>1. /\ listening' \in SUBSET Tokens
          /\ pc' \in [Procs -> Steps]
          /\ token' \in [Procs -> Tokens \cup {NoToken}]
          /\ seen' \in [Procs -> Tokens \cup {NoToken}]
          /\ aged' \in [Procs -> BOOLEAN]
          /\ \A q \in Procs : token'[q] = NoToken <=> pc'[q] \in {"idle", "down"}
      BY <2>2, <1>a, ForgetType
    <3> QED BY <2>2, <3>1 DEF TypeOK
  <2> QED BY <1>13, <2>1, <2>2 DEF RestoreClaim
<1>14. CASE LockAdvisory(p)
  BY <1>14, <1>d DEF LockAdvisory, Unseen, TypeOK
<1> QED BY <1>1, <1>2, <1>3, <1>4, <1>5, <1>6, <1>7, <1>8, <1>9, <1>10, <1>11,
           <1>12, <1>13, <1>14 DEF Acquire

(* Type correctness of release, of a crash and of time. *)
LEMMA TypeDrop ==
  ASSUME TypeOK, NEW p \in Procs, Drop(p) \/ Crash(p) \/ Restart(p)
  PROVE  TypeOK'
<1>a. {"writing", "prepare", "rename", "unlock", "finish"} \subseteq Steps
  BY DEF Steps, Releasing
<1>b. ASSUME NEW from \in {"writing", "prepare", "rename", "unlock", "finish"},
             NEW to \in {"writing", "prepare", "rename", "unlock", "finish"},
             Goto(p, from, to), UNCHANGED token
      PROVE  /\ pc' \in [Procs -> Steps]
             /\ token' \in [Procs -> Tokens \cup {NoToken}]
             /\ \A q \in Procs : token'[q] = NoToken <=> pc'[q] \in {"idle", "down"}
  BY <1>a, <1>b, GotoType
<1>1. CASE Release(p)
  BY <1>1, <1>b DEF Release, Unmoved, Unseen, TypeOK
<1>2. CASE PrepareRelease(p)
  BY <1>2, <1>b DEF PrepareRelease, Unmoved, Unseen, TypeOK
<1>3. CASE RenameRelease(p)
  BY <1>3, <1>b DEF RenameRelease, Unseen, TypeOK
<1>4. CASE UnlockAdvisory(p)
  BY <1>4, <1>b DEF UnlockAdvisory, Unmoved, Unseen, TypeOK
<1>5. CASE FinishRelease(p)
  BY <1>5, <1>a, AbandonType DEF FinishRelease, GiveUp, TypeOK
<1>6. CASE Crash(p)
  <2>1. pc[p] \in Steps /\ flock' \in Procs \cup {NoProc}
    BY <1>6 DEF Crash, TypeOK
  <2> QED BY <1>6, <2>1, AbandonType DEF Crash
<1>7. CASE Restart(p)
  <2>1. "idle" \in Steps
    BY DEF Steps
  <2> QED BY <1>7, <2>1 DEF Restart, Goto, Unmoved, Unseen, TypeOK
<1> QED BY <1>1, <1>2, <1>3, <1>4, <1>5, <1>6, <1>7 DEF Drop

LEMMA TypeGrace == ASSUME TypeOK, GraceExpires PROVE TypeOK'
<1>1. claim' \in Dirs
  BY DEF GraceExpires, TypeOK, Dirs
<1> QED BY <1>1 DEF GraceExpires, TypeOK

LEMMA TypeNext == TypeOK /\ [Next]_vars => TypeOK'
<1> SUFFICES ASSUME TypeOK, [Next]_vars PROVE TypeOK'
  OBVIOUS
<1>1. CASE UNCHANGED vars
  BY <1>1 DEF vars, TypeOK
<1>2. CASE GraceExpires
  BY <1>2, TypeGrace
<1>3. ASSUME NEW p \in Procs, Acquire(p) PROVE TypeOK'
  BY <1>3, TypeAcquire
<1>4. ASSUME NEW p \in Procs, Drop(p) \/ Crash(p) \/ Restart(p) PROVE TypeOK'
  BY <1>4, TypeDrop
<1> QED BY <1>1, <1>2, <1>3, <1>4 DEF Next

(* Every reachable state has the declared types, and a process has a token  *)
(* exactly while it is acquiring, holding or releasing a lease.             *)
THEOREM TypeCorrect == Spec => []TypeOK
BY TypeInit, TypeNext, PTL DEF Spec

-----------------------------------------------------------------------------
(* With the advisory lock, whoever works on the session holds the flock,    *)
(* whatever has become of its portable claim.                               *)
FlockHeld == \A p \in Procs : pc[p] = "writing" => flock = p

LEMMA FlockInit == Init => FlockHeld
BY DEF Init, FlockHeld

(* Only LockAdvisory enters "writing"; only UnlockAdvisory and Crash free   *)
(* the flock, and only for the process that holds it and has left.          *)
LEMMA FlockNext == Advisory /\ TypeOK /\ FlockHeld /\ [Next]_vars => FlockHeld'
<1> SUFFICES ASSUME Advisory, TypeOK, FlockHeld, [Next]_vars,
                    NEW q \in Procs, pc'[q] = "writing"
             PROVE  flock' = q
  BY DEF FlockHeld
<1>1. CASE UNCHANGED vars
  BY <1>1 DEF vars, FlockHeld
<1>2. CASE GraceExpires
  BY <1>2 DEF GraceExpires, FlockHeld
<1>a. ASSUME NEW p \in Procs, NEW from, NEW to, Goto(p, from, to),
             to # "writing", flock' = flock
      PROVE  flock' = q
  BY <1>a DEF Goto, FlockHeld, TypeOK
<1>b. ASSUME NEW p \in Procs, NEW from, GiveUp(p, from), flock' = flock
      PROVE  flock' = q
  BY <1>a, <1>b DEF GiveUp, Abandon, Forget
<1>3. ASSUME NEW p \in Procs, Acquire(p) PROVE flock' = q
  <2>1. CASE LockAdvisory(p)
    <3>1. CASE Goto(p, "owned", "writing") /\ flock = NoProc /\ flock' = p
      BY <3>1, NullAssumption DEF Goto, FlockHeld, TypeOK
    <3>2. CASE Goto(p, "owned", "prepare") /\ flock' = flock
      BY <3>2, <1>a
    <3> QED BY <2>1, <3>1, <3>2 DEF LockAdvisory
  <2>2. CASE RestoreClaim(p)
    BY <2>2, <1>a, <1>b DEF RestoreClaim, Forget
  <2>3. CASE Candidate(p) \/ CreateClaim(p) \/ WriteTemporary(p)
             \/ CheckDestination(p) \/ PublishOwner(p)
    BY <2>3, <1>a, <1>b DEF Candidate, CreateClaim, WriteTemporary, CheckDestination,
                            PublishOwner
  <2>4. CASE StatClaim(p) \/ ReadOwner(p) \/ ProbeOwner(p) \/ RenameStale(p)
             \/ RevalidateStale(p) \/ RemoveStale(p) \/ CheckCanonical(p)
    BY <2>4, <1>a, <1>b DEF StatClaim, ReadOwner, ProbeOwner, RenameStale,
                            RevalidateStale, RemoveStale, CheckCanonical
  <2> QED BY <1>3, <2>1, <2>2, <2>3, <2>4 DEF Acquire
<1>4. ASSUME NEW p \in Procs, Drop(p) PROVE flock' = q
  <2>1. CASE UnlockAdvisory(p)
    <3>1. q # p /\ pc[q] = "writing"
      BY <2>1 DEF UnlockAdvisory, Goto, TypeOK
    <3> QED BY <2>1, <3>1 DEF UnlockAdvisory, FlockHeld
  <2>2. CASE Release(p) \/ PrepareRelease(p) \/ RenameRelease(p) \/ FinishRelease(p)
    BY <2>2, <1>a, <1>b DEF Release, PrepareRelease, RenameRelease, FinishRelease
  <2> QED BY <1>4, <2>1, <2>2 DEF Drop
<1>5. ASSUME NEW p \in Procs, Crash(p) PROVE flock' = q
  <2>1. q # p /\ pc[q] = "writing"
    BY <1>5 DEF Crash, Abandon, Forget, Goto, TypeOK
  <2> QED BY <1>5, <2>1 DEF Crash, FlockHeld
<1>6. ASSUME NEW p \in Procs, Restart(p) PROVE flock' = q
  BY <1>6, <1>a DEF Restart
<1> QED BY <1>1, <1>2, <1>3, <1>4, <1>5, <1>6 DEF Next

LEMMA FlockExcludes == FlockHeld => WritersExclude
BY DEF FlockHeld, WritersExclude, Writers

(* acquire_writer admits one writer at a time, for any number of contenders *)
(* and whatever crashes, takeovers and restores do to the portable claim.   *)
THEOREM WriterExclusion == ASSUME Advisory PROVE Spec => []WritersExclude
<1>1. TypeOK /\ FlockHeld /\ [Next]_vars => (TypeOK /\ FlockHeld)'
  BY TypeNext, FlockNext
<1> QED BY TypeInit, FlockInit, <1>1, FlockExcludes, PTL DEF Spec

-----------------------------------------------------------------------------
(* One step of the leases is one step of the abstract lock, or none. *)
LEMMA LockStep == Advisory /\ TypeOK /\ FlockHeld /\ [Next]_vars => [Lock!Next]_Writers
<1> SUFFICES ASSUME Advisory, TypeOK, FlockHeld, [Next]_vars, Writers' # Writers
             PROVE  Lock!Next
  OBVIOUS
<1>a. ASSUME NEW p \in Procs, NEW from, NEW to, Goto(p, from, to), to # "writing"
      PROVE  Lock!Leave(p)
  <2>1. Writers' = Writers \ {p}
    BY <1>a DEF Goto, Writers, TypeOK
  <2> QED BY <2>1 DEF Lock!Leave, Writers
<1>b. ASSUME NEW p \in Procs, Goto(p, "owned", "writing"), flock = NoProc
      PROVE  Lock!Enter(p)
  <2>1. Writers = {}
    BY <1>b, NullAssumption DEF FlockHeld, Writers
  <2>2. Writers' = {p}
    BY <1>b, <2>1 DEF Goto, Writers, TypeOK
  <2> QED BY <2>1, <2>2 DEF Lock!Enter
<1>1. pc' # pc
  BY DEF Writers
<1>2. ASSUME NEW p \in Procs, Acquire(p) PROVE Lock!Enter(p) \/ Lock!Leave(p)
  <2>1. CASE LockAdvisory(p)
    BY <2>1, <1>a, <1>b DEF LockAdvisory
  <2>2. CASE RestoreClaim(p)
    BY <2>2, <1>a DEF RestoreClaim, GiveUp, Abandon, Forget
  <2>3. CASE Candidate(p) \/ CreateClaim(p) \/ WriteTemporary(p)
             \/ CheckDestination(p) \/ PublishOwner(p)
    BY <2>3, <1>a DEF Candidate, CreateClaim, WriteTemporary, CheckDestination,
                      PublishOwner, GiveUp, Abandon, Forget
  <2>4. CASE StatClaim(p) \/ ReadOwner(p) \/ ProbeOwner(p) \/ RenameStale(p)
             \/ RevalidateStale(p) \/ RemoveStale(p) \/ CheckCanonical(p)
    BY <2>4, <1>a DEF StatClaim, ReadOwner, ProbeOwner, RenameStale, RevalidateStale,
                      RemoveStale, CheckCanonical, GiveUp, Abandon, Forget
  <2> QED BY <1>2, <2>1, <2>2, <2>3, <2>4 DEF Acquire
<1>3. ASSUME NEW p \in Procs, Drop(p) PROVE Lock!Leave(p)
  BY <1>3, <1>a DEF Drop, Release, PrepareRelease, RenameRelease, UnlockAdvisory,
                    FinishRelease, GiveUp, Abandon, Forget
<1>4. ASSUME NEW p \in Procs, Crash(p) \/ Restart(p) PROVE Lock!Leave(p)
  BY <1>4, <1>a DEF Crash, Restart, Abandon, Forget
<1>5. ~GraceExpires /\ ~UNCHANGED vars
  BY <1>1 DEF GraceExpires, vars
<1> QED BY <1>2, <1>3, <1>4, <1>5 DEF Next, Lock!Next

(* The leases implement the lock SessionLock describes. *)
THEOREM LeaseRefinesLock == ASSUME Advisory PROVE Spec => ImplementsLock
<1>1. Init => Lock!Init
  BY DEF Init, Lock!Init, Writers
<1>2. TypeOK /\ FlockHeld /\ [Next]_vars => (TypeOK /\ FlockHeld)'
  BY TypeNext, FlockNext
<1>3. TypeOK /\ FlockHeld /\ [Next]_vars => [Lock!Next]_Writers
  BY LockStep
<1> QED BY TypeInit, FlockInit, <1>1, <1>2, <1>3, PTL DEF Spec, ImplementsLock, Lock!Spec

-----------------------------------------------------------------------------
(* A takeover about to delete a claim keeps naming a dead owner: a listener *)
(* that opens meanwhile opens under a token that is in no directory.        *)
LEMMA SparesNext == TypeOK /\ TakeoverSparesLive /\ [Next]_vars => TakeoverSparesLive'
<1> SUFFICES ASSUME TypeOK, TakeoverSparesLive, [Next]_vars,
                    NEW q \in Procs, pc'[q] = "remove"
             PROVE  moved'[q].owner \notin listening'
  BY DEF TakeoverSparesLive
<1>1. CASE UNCHANGED <<moved, listening, pc>>
  BY <1>1 DEF TakeoverSparesLive
<1>a. ASSUME NEW p \in Procs, NEW from, NEW to, Goto(p, from, to), to # "remove"
      PROVE  q # p /\ pc[q] = "remove"
  BY <1>a DEF Goto, TypeOK
<1>b. ASSUME NEW p \in Procs, NEW from, NEW to, Abandon(p, from, to),
             from \notin {"idle", "down"}, to # "remove"
      PROVE  moved'[q].owner \notin listening'
  <2>1. q # p /\ pc[q] = "remove" /\ token[p] \in Tokens
    BY <1>a, <1>b, OwnToken DEF Abandon, Forget, Goto
  <2>2. moved'[q].owner = moved[q].owner
    BY <1>b, <2>1, LitteredType DEF Abandon, TypeOK, Maybe
  <2> QED BY <1>b, <2>1, <2>2 DEF Abandon, Forget, TakeoverSparesLive
<1>c. ASSUME NEW p \in Procs, NEW from, NEW to, Goto(p, from, to), to # "remove",
             moved' = moved \/ moved' = [moved EXCEPT ![p] = claim]
                            \/ moved' = [moved EXCEPT ![p] = NoDir],
             listening' \subseteq listening
      PROVE  moved'[q].owner \notin listening'
  BY <1>a, <1>c DEF TakeoverSparesLive, TypeOK
<1>2. ASSUME NEW p \in Procs, Acquire(p) PROVE moved'[q].owner \notin listening'
  <2>1. CASE Candidate(p)
    <3>1. q # p /\ pc[q] = "remove" /\ moved' = moved
      BY <2>1, <1>a DEF Candidate, Unmoved
    <3>2. PICK t \in Tokens : ~InUse(t) /\ listening' = listening \cup {t}
      BY <2>1 DEF Candidate
    <3>3. moved[q].owner # t
      BY <3>2 DEF InUse, InDir
    <3> QED BY <3>1, <3>2, <3>3 DEF TakeoverSparesLive
  <2>2. CASE RevalidateStale(p)
    <3>1. CASE StillStale(p) /\ Goto(p, "revalidate", "remove")
      <4>1. CASE q = p
        BY <2>2, <3>1, <4>1 DEF RevalidateStale, StillStale, Unmoved
      <4>2. CASE q # p
        BY <2>2, <3>1, <4>2 DEF RevalidateStale, Goto, Unmoved, TakeoverSparesLive
      <4> QED BY <4>1, <4>2
    <3>2. CASE Goto(p, "revalidate", "canonical")
      BY <2>2, <3>2, <1>c DEF RevalidateStale, Unmoved
    <3> QED BY <2>2, <3>1, <3>2 DEF RevalidateStale
  <2>3. CASE RestoreClaim(p)
    BY <2>3, <1>b, <1>c DEF RestoreClaim, GiveUp, Forget
  <2>4. CASE CreateClaim(p) \/ WriteTemporary(p) \/ CheckDestination(p)
             \/ PublishOwner(p)
    BY <2>4, <1>b, <1>c DEF CreateClaim, WriteTemporary, CheckDestination,
                            PublishOwner, GiveUp, Unmoved
  <2>5. CASE StatClaim(p) \/ ReadOwner(p) \/ ProbeOwner(p) \/ RenameStale(p)
             \/ RemoveStale(p) \/ CheckCanonical(p)
    BY <2>5, <1>b, <1>c DEF StatClaim, ReadOwner, ProbeOwner, RenameStale,
                            RemoveStale, CheckCanonical, GiveUp, Unmoved
  <2>6. CASE LockAdvisory(p)
    BY <2>6, <1>c DEF LockAdvisory, Unmoved
  <2> QED BY <1>2, <2>1, <2>2, <2>3, <2>4, <2>5, <2>6 DEF Acquire
<1>3. ASSUME NEW p \in Procs, Drop(p) PROVE moved'[q].owner \notin listening'
  BY <1>3, <1>b, <1>c DEF Drop, Release, PrepareRelease, RenameRelease,
                          UnlockAdvisory, FinishRelease, GiveUp, Unmoved
<1>4. ASSUME NEW p \in Procs, Crash(p) PROVE moved'[q].owner \notin listening'
  BY <1>4, <1>b DEF Crash
<1>5. ASSUME NEW p \in Procs, Restart(p) PROVE moved'[q].owner \notin listening'
  BY <1>5, <1>c DEF Restart, Unmoved
<1>6. CASE GraceExpires \/ UNCHANGED vars
  BY <1>1, <1>6 DEF GraceExpires, vars
<1> QED BY <1>2, <1>3, <1>4, <1>5, <1>6 DEF Next

(* No takeover deletes the claim of a live owner, with or without the       *)
(* advisory lock and however slow an initializer is.                        *)
THEOREM TakeoverSafety == Spec => []TakeoverSparesLive
<1>1. Init => TakeoverSparesLive
  BY DEF Init, TakeoverSparesLive
<1> QED BY TypeInit, TypeNext, <1>1, SparesNext, PTL DEF Spec

=============================================================================
