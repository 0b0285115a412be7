------------------------ MODULE SessionOrder_proofs ------------------------
(***************************************************************************)
(* The order of a session's records: the numbers of its events, the names  *)
(* of its tool calls and the queued input of its runs, for every number of *)
(* events, runs, calls and items; and the directories the sessions are in, *)
(* for every number of daemons, sessions and operations.                   *)
(***************************************************************************)
EXTENDS EventSequence, CallIdentity, RunQueue, SessionLifecycle, FiniteSetTheorems, TLAPS

-----------------------------------------------------------------------------
(* Event numbers, with one daemon on the state root: two that take turns   *)
(* keep a counter each, and TLC shows how their numbers meet.              *)

Entries == [seq : Nat \ {0}, by : {"live", "stale", "recovery"}]

SequenceTypes ==
  /\ events \in Seq(Entries) /\ unended \in BOOLEAN
  /\ counter \in [Daemons -> Nat] /\ taken \in Nat /\ behind \subseteq Daemons
  /\ holder \in Daemons \cup {NoDaemon}
  /\ step \in {"none", "start", "get", "run", "emit"}
  /\ step # "none" <=> holder # NoDaemon

\* One of the numbers is the greatest.
HasGreatest ==
  events = <<>> \/ \E m \in DOMAIN events : \A n \in DOMAIN events : events[n].seq <= events[m].seq

\* A number is above those the counters gave, and above all.
AboveLive(x) == \A n \in DOMAIN events : events[n].by # "recovery" => events[n].seq < x
AboveAll(x) == \A n \in DOMAIN events : events[n].seq < x

\* A counter is ahead of the numbers it gave, and of the whole journal unless
\* it missed a terminal event.
Ahead ==
  \A d \in Daemons : counter[d] # 0 =>
    counter[d] > 1 /\ AboveLive(counter[d]) /\ (d \notin behind => AboveAll(counter[d]))

\* A run that the next recovery ends leaves it room for one number.
Room ==
  unended /\ step \in {"none", "start", "get"} =>
    \A d \in Daemons \ behind : counter[d] # 0 => AboveAll(counter[d] - 1)

\* The number taken, and the counter after it.
NumberTaken ==
  step = "emit" =>
    /\ taken > 0 /\ counter[holder] = taken + 1
    /\ AboveLive(taken) /\ (holder \notin behind => AboveAll(taken))

SequenceInv == SequenceTypes /\ HasGreatest /\ Ahead /\ Room /\ NumberTaken /\ OnlyMissedRepeat

LEMMA EventFacts ==
  ASSUME SequenceTypes
  PROVE  /\ Len(events) \in Nat /\ DOMAIN events = 1 .. Len(events) /\ (events = <<>> <=> Len(events) = 0)
         /\ \A n \in DOMAIN events : events[n] \in Entries /\ events[n].seq \in Nat \ {0}
<1>1. Len(events) \in Nat /\ DOMAIN events = 1 .. Len(events) /\ (events = <<>> <=> Len(events) = 0)
      /\ \A n \in DOMAIN events : events[n] \in Entries
  BY DEF SequenceTypes
<1>2. \A e \in Entries : e.seq \in Nat \ {0}
  BY DEF Entries
<1> QED BY <1>1, <1>2

(* The number recovery takes is above every number of the journal, and the   *)
(* least that is.                                                            *)
LEMMA NextIsAbove ==
  ASSUME SequenceTypes, HasGreatest
  PROVE  /\ PersistedNext \in Nat \ {0} /\ AboveAll(PersistedNext)
         /\ \A x \in Nat : x > 0 /\ AboveAll(x) => PersistedNext <= x
<1> DEFINE S == {0} \cup {events[n].seq : n \in DOMAIN events}
<1>1. \A x \in S : x \in Nat
  BY EventFacts
<1>2. PICK x \in S : \A y \in S : x >= y
  <2>1. CASE events = <<>>
    BY <2>1, EventFacts
  <2>2. CASE events # <<>>
    <3>1. PICK m \in DOMAIN events : \A n \in DOMAIN events : events[n].seq <= events[m].seq
      BY <2>2 DEF HasGreatest
    <3>2. events[m].seq \in S /\ \A y \in S : events[m].seq >= y
      BY <3>1, EventFacts
    <3> QED BY <3>2
  <2> QED BY <2>1, <2>2
<1>3. \A n \in DOMAIN events : events[n].seq \in S
  OBVIOUS
<1>4. \A y \in S : y = 0 \/ \E n \in DOMAIN events : y = events[n].seq
  OBVIOUS
<1> HIDE DEF S
<1>5. Max(S) \in S /\ \A y \in S : Max(S) >= y
  BY <1>1, <1>2 DEF Max
<1>6. PersistedNext = Max(S) + 1
  BY DEF PersistedNext, S
<1>7. PersistedNext \in Nat \ {0} /\ AboveAll(PersistedNext)
  BY <1>1, <1>3, <1>5, <1>6 DEF AboveAll
<1>8. ASSUME NEW z \in Nat, z > 0, AboveAll(z) PROVE PersistedNext <= z
  <2>1. Max(S) \in Nat /\ (Max(S) = 0 \/ \E n \in DOMAIN events : Max(S) = events[n].seq)
    BY <1>1, <1>4, <1>5
  <2>2. Max(S) < z
    BY <1>8, <2>1 DEF AboveAll
  <2> QED BY <1>6, <1>8, <2>1, <2>2
<1> QED BY <1>7, <1>8

(* What an append leaves of the numbers.                                     *)
LEMMA OneMore ==
  ASSUME SequenceTypes, NEW e \in Entries, events' = Append(events, e)
  PROVE  /\ events' \in Seq(Entries) /\ DOMAIN events' = DOMAIN events \cup {Len(events) + 1}
         /\ Len(events) \in Nat /\ \A n \in DOMAIN events : n < Len(events) + 1 /\ events'[n] = events[n]
         /\ events'[Len(events) + 1] = e
BY DEF SequenceTypes

LEMMA GreatestKept ==
  ASSUME SequenceTypes, HasGreatest, NEW e \in Entries, events' = Append(events, e)
  PROVE  HasGreatest'
<1> DEFINE k == Len(events) + 1
<1>1. /\ DOMAIN events' = DOMAIN events \cup {k} /\ events'[k] = e /\ e.seq \in Nat
      /\ \A n \in DOMAIN events : events'[n] = events[n] /\ events[n].seq \in Nat
  BY OneMore, EventFacts DEF Entries
<1> HIDE DEF k
<1>2. CASE \A n \in DOMAIN events : events[n].seq <= e.seq
  BY <1>1, <1>2 DEF HasGreatest
<1>3. CASE \E n \in DOMAIN events : ~(events[n].seq <= e.seq)
  <2>1. PICK m \in DOMAIN events : \A n \in DOMAIN events : events[n].seq <= events[m].seq
    BY <1>3, EventFacts DEF HasGreatest
  <2>2. e.seq <= events[m].seq
    BY <1>1, <1>3, <2>1
  <2> QED BY <1>1, <2>1, <2>2 DEF HasGreatest
<1> QED BY <1>2, <1>3

(* The journal keeps its order when an event is appended that is above all   *)
(* others, or, of a counter that is behind, above those a counter gave.      *)
LEMMA OrderWithOneMore ==
  ASSUME SequenceTypes, OnlyMissedRepeat, NEW e \in Entries, events' = Append(events, e),
         AboveAll(e.seq) \/ (e.by = "stale" /\ AboveLive(e.seq))
  PROVE  OnlyMissedRepeat'
<1> DEFINE k == Len(events) + 1
<1>1. /\ DOMAIN events' = DOMAIN events \cup {k} /\ events'[k] = e /\ k \in Nat
      /\ \A n \in DOMAIN events : n < k /\ n \in Nat /\ events'[n] = events[n]
  BY OneMore, EventFacts
<1> HIDE DEF k
<1>2. ASSUME NEW m \in DOMAIN events', NEW n \in DOMAIN events', m < n
      PROVE  \/ events'[m].seq < events'[n].seq
             \/ events'[m].by = "recovery" /\ events'[n].by = "stale"
  <2>1. m \in DOMAIN events
    BY <1>1, <1>2
  <2>2. CASE n \in DOMAIN events
    BY <1>1, <1>2, <2>1, <2>2 DEF OnlyMissedRepeat
  <2>3. CASE n = k
    BY <1>1, <2>1, <2>3 DEF AboveAll, AboveLive
  <2> QED BY <1>1, <2>2, <2>3
<1> QED BY <1>2 DEF OnlyMissedRepeat

LEMMA SequenceHoldsAtStart == SequenceInit => SequenceInv
<1> SUFFICES ASSUME SequenceInit PROVE SequenceInv
  OBVIOUS
<1>1. <<>> \in Seq(Entries) /\ DOMAIN events = {}
  BY DEF SequenceInit
<1>2. SequenceTypes /\ HasGreatest /\ OnlyMissedRepeat
  BY <1>1 DEF SequenceInit, SequenceTypes, HasGreatest, OnlyMissedRepeat
<1>3. Ahead /\ Room /\ NumberTaken
  BY DEF SequenceInit, Ahead, Room, NumberTaken
<1> QED BY <1>2, <1>3 DEF SequenceInv

\* Steps that leave the journal and the counters alone.
LEMMA JournalUntouched ==
  ASSUME SequenceInv, UNCHANGED <<events, counter, behind>>
  PROVE  HasGreatest' /\ Ahead' /\ OnlyMissedRepeat'
BY DEF SequenceInv, HasGreatest, Ahead, AboveLive, AboveAll, OnlyMissedRepeat

LEMMA SequenceKept ==
  ASSUME NEW self, Daemons = {self}, SequenceInv, [SequenceNext]_sequenceVars
  PROVE  SequenceInv'
<1> USE DaemonAssumption DEF SequenceInv
<1>1. ASSUME NEW d \in Daemons, Acquire(d) PROVE SequenceInv'
  <2>1. HasGreatest' /\ Ahead' /\ OnlyMissedRepeat'
    BY <1>1, JournalUntouched DEF Acquire
  <2>2. SequenceTypes' /\ NumberTaken'
    BY <1>1 DEF Acquire, SequenceTypes, NumberTaken
  <2>3. Room'
    BY <1>1 DEF Acquire, SequenceTypes, Room, AboveAll
  <2> QED BY <2>1, <2>2, <2>3
<1>2. ASSUME NEW d \in Daemons, DaemonDies(d) PROVE SequenceInv'
  <2>1. d = self /\ counter' = [counter EXCEPT ![self] = 0] /\ behind' = {}
        /\ UNCHANGED <<events, unended>>
    BY <1>2 DEF DaemonDies, SequenceTypes
  <2>2. counter' \in [Daemons -> Nat] /\ counter'[self] = 0
    BY <2>1 DEF SequenceTypes
  <2>3. HasGreatest' /\ OnlyMissedRepeat'
    BY <2>1 DEF HasGreatest, OnlyMissedRepeat
  <2>4. Ahead' /\ Room'
    BY <2>2 DEF Ahead, Room
  <2>5. SequenceTypes' /\ step' # "emit"
    BY <1>2, <2>1, <2>2 DEF DaemonDies, SequenceTypes
  <2> QED BY <2>3, <2>4, <2>5 DEF NumberTaken
<1>3. CASE NumberTerminal
  <2> DEFINE e == Numbered(PersistedNext, "recovery")
  <2>1. events' = Append(events, e) /\ unended' = FALSE /\ UNCHANGED <<counter, behind, holder, step, taken>>
        /\ unended /\ step \in {"start", "get"}
    BY <1>3 DEF NumberTerminal
  <2>2. e \in Entries /\ e.seq = PersistedNext /\ e.by = "recovery" /\ AboveAll(e.seq)
    BY NextIsAbove DEF Numbered, Entries
  <2> HIDE DEF e
  <2>3. HasGreatest' /\ OnlyMissedRepeat'
    <3>1. HasGreatest'
      BY <2>1, <2>2, GreatestKept
    <3>2. OnlyMissedRepeat'
      BY <2>1, <2>2, OrderWithOneMore
    <3> QED BY <3>1, <3>2
  <2>4. SequenceTypes'
    <3>1. events' \in Seq(Entries)
      BY <2>1, <2>2, OneMore
    <3>2. unended' \in BOOLEAN
      BY <2>1, Zenon
    <3> QED BY <2>1, <3>1, <3>2 DEF SequenceTypes
  <2>5. ASSUME NEW d \in Daemons, counter[d] # 0
        PROVE  AboveLive(counter[d])' /\ (d \notin behind => AboveAll(counter[d])')
    <3>1. AboveLive(counter[d])'
      BY <2>1, <2>2, <2>5, OneMore DEF Ahead, AboveLive
    <3>2. ASSUME d \notin behind PROVE AboveAll(counter[d])'
      <4>1. counter[d] - 1 \in Nat /\ counter[d] - 1 > 0 /\ AboveAll(counter[d] - 1) /\ AboveAll(counter[d])
        BY <2>1, <2>5, <3>2 DEF Room, Ahead, SequenceTypes
      <4>2. PersistedNext <= counter[d] - 1 /\ PersistedNext \in Nat /\ counter[d] \in Nat
        BY <4>1, NextIsAbove DEF SequenceTypes
      <4> QED BY <2>1, <2>2, <4>1, <4>2, OneMore DEF AboveAll
    <3> QED BY <3>1, <3>2
  <2>6. Ahead' /\ Room' /\ NumberTaken'
    BY <2>1, <2>5 DEF Ahead, Room, NumberTaken
  <2> QED BY <2>3, <2>4, <2>6
<1>4. CASE Proceed
  <2>1. UNCHANGED <<events, counter, behind, taken>>
    BY <1>4 DEF Proceed
  <2>2. SequenceTypes' /\ (step' \in {"none", "start", "get"} => ~unended') /\ step' # "emit"
    <3>1. \/ step = "start" /\ step' = "run" /\ UNCHANGED holder /\ unended' = TRUE
          \/ step = "get" /\ step' = "none" /\ holder' = NoDaemon /\ ~unended' /\ unended' = unended
      BY <1>4, Zenon DEF Proceed
    <3>2. /\ step' \in {"none", "run"} /\ (step' = "none" => ~unended')
          /\ holder' \in Daemons \cup {NoDaemon} /\ (step' # "none" <=> holder' # NoDaemon)
      BY <3>1 DEF SequenceTypes
    <3>3. unended' \in BOOLEAN
      BY <3>1, Zenon DEF SequenceTypes
    <3> QED BY <2>1, <3>2, <3>3 DEF SequenceTypes
  <2> QED BY <2>1, <2>2, JournalUntouched DEF Room, NumberTaken
<1>5. CASE TakeNumber
  <2>1. holder = self /\ UNCHANGED <<events, unended, behind, holder>>
    BY <1>5 DEF TakeNumber, SequenceTypes
  <2>2. PICK n \in Nat : /\ n > 0 /\ AboveLive(n) /\ (self \notin behind => AboveAll(n))
                         /\ taken' = n /\ step' = "emit"
                         /\ counter' = [counter EXCEPT ![self] = n + 1]
    <3> DEFINE n == IF counter[self] = 0 THEN PersistedNext ELSE counter[self]
    <3>1. taken' = n /\ step' = "emit" /\ counter' = [counter EXCEPT ![self] = n + 1]
      BY <1>5, <2>1 DEF TakeNumber
    <3>2. n \in Nat /\ n > 0 /\ AboveLive(n) /\ (self \notin behind => AboveAll(n))
      <4>1. CASE counter[self] = 0
        BY <4>1, NextIsAbove DEF AboveAll, AboveLive
      <4>2. CASE counter[self] # 0
        BY <4>2 DEF Ahead, SequenceTypes
      <4> QED BY <4>1, <4>2
    <3> HIDE DEF n
    <3> QED BY <3>1, <3>2
  <2>3. counter' \in [Daemons -> Nat] /\ counter'[self] = n + 1
    BY <2>2 DEF SequenceTypes
  <2>4. SequenceTypes' /\ HasGreatest' /\ OnlyMissedRepeat' /\ Room'
    BY <2>1, <2>2, <2>3 DEF SequenceTypes, HasGreatest, OnlyMissedRepeat, Room
  <2>5. Ahead' /\ NumberTaken'
    <3>1. \A k \in DOMAIN events : events[k].seq \in Nat
      BY EventFacts
    <3>2. AboveLive(n)' /\ AboveLive(n + 1)' /\ (self \notin behind' => AboveAll(n)' /\ AboveAll(n + 1)')
      BY <2>1, <2>2, <3>1 DEF AboveLive, AboveAll
    <3> QED BY <2>1, <2>2, <2>3, <3>2 DEF Ahead, NumberTaken
  <2> QED BY <2>4, <2>5
<1>6. CASE AppendEvent
  <2> DEFINE e == Numbered(taken, IF holder \in behind THEN "stale" ELSE "live")
  <2>1. /\ events' = Append(events, e) /\ UNCHANGED <<counter, behind>> /\ taken' = 0 /\ step = "emit"
        /\ \/ step' = "run" /\ UNCHANGED <<unended, holder>>
           \/ step' = "none" /\ unended' = FALSE /\ holder' = NoDaemon
    BY <1>6 DEF AppendEvent
  <2>2. holder = self /\ taken \in Nat /\ taken > 0 /\ counter[self] = taken + 1
    BY <2>1 DEF SequenceTypes, NumberTaken
  <2>3. /\ e \in Entries /\ e.seq = taken /\ (self \in behind => e.by = "stale")
        /\ (AboveAll(e.seq) \/ (e.by = "stale" /\ AboveLive(e.seq)))
    BY <2>1, <2>2 DEF Numbered, Entries, NumberTaken
  <2> HIDE DEF e
  <2>4. HasGreatest' /\ OnlyMissedRepeat'
    BY <2>1, <2>3, GreatestKept, OrderWithOneMore
  <2>5. SequenceTypes'
    <3>1. events' \in Seq(Entries)
      BY <2>1, <2>3, OneMore
    <3>2. unended' \in BOOLEAN
      BY <2>1, Zenon DEF SequenceTypes
    <3> QED BY <2>1, <2>2, <3>1, <3>2 DEF SequenceTypes
  <2>6. Ahead'
    <3>1. \A n \in DOMAIN events' : (n \in DOMAIN events /\ events'[n] = events[n]) \/ events'[n] = e
      BY <2>1, <2>3, OneMore
    <3>2. Daemons = {self} /\ counter'[self] = taken + 1 /\ taken + 1 > 1 /\ behind' = behind
      BY <2>1, <2>2
    <3>3. AboveLive(taken) /\ (self \notin behind => AboveAll(taken)) /\ e.seq = taken
          /\ \A n \in DOMAIN events : events[n].seq \in Nat
      BY <2>1, <2>2, <2>3, EventFacts DEF NumberTaken
    <3>4. \A n \in DOMAIN events' : events'[n].by # "recovery" => events'[n].seq < taken + 1
      BY <2>2, <3>1, <3>3 DEF AboveLive
    <3>5. self \notin behind => \A n \in DOMAIN events' : events'[n].seq < taken + 1
      BY <2>2, <3>1, <3>3 DEF AboveAll
    <3>6. AboveLive(counter[self])' /\ (self \notin behind' => AboveAll(counter[self])')
      BY <3>2, <3>4, <3>5 DEF AboveLive, AboveAll
    <3> QED BY <3>2, <3>6 DEF Ahead
  <2>7. Room' /\ NumberTaken'
    BY <2>1 DEF Room, NumberTaken
  <2> QED BY <2>4, <2>5, <2>6, <2>7
<1>7. CASE FailAppend
  <2>1. /\ UNCHANGED <<events, unended, counter, behind>> /\ taken' = 0 /\ step = "emit"
        /\ \/ step' = "run" /\ UNCHANGED holder
           \/ step' = "none" /\ holder' = NoDaemon
    BY <1>7 DEF FailAppend
  <2>2. holder = self /\ taken \in Nat /\ counter[self] = taken + 1
    BY <2>1 DEF SequenceTypes, NumberTaken
  <2>3. SequenceTypes' /\ NumberTaken'
    BY <2>1 DEF SequenceTypes, NumberTaken
  <2>4. Room'
    BY <2>1, <2>2 DEF Room, NumberTaken, AboveAll
  <2> QED BY <2>1, <2>3, <2>4, JournalUntouched
<1>8. CASE FailRecovery
  <2>1. /\ UNCHANGED <<events, unended, counter, behind, taken>> /\ step \in {"start", "get"}
        /\ unended /\ step' = "none" /\ holder' = NoDaemon
    BY <1>8 DEF FailRecovery
  <2>2. SequenceTypes' /\ NumberTaken' /\ Room'
    BY <2>1 DEF SequenceTypes, NumberTaken, Room, AboveAll
  <2> QED BY <2>1, <2>2, JournalUntouched
<1>9. CASE FailLoad
  <2>1. UNCHANGED <<events, unended, counter, taken>> /\ step = "run" /\ holder = self
    BY <1>9 DEF FailLoad, SequenceTypes
  <2>2. CASE UNCHANGED <<step, holder, behind>>
    <3>1. SequenceTypes' /\ NumberTaken' /\ Room'
      BY <2>1, <2>2 DEF SequenceTypes, NumberTaken, Room
    <3> QED BY <2>1, <2>2, <3>1, JournalUntouched
  <2>3. CASE /\ step' = "none" /\ holder' = NoDaemon
             /\ behind' = IF counter[holder] = 0 THEN behind ELSE behind \cup {holder}
    <3>1. SequenceTypes' /\ NumberTaken'
      BY <2>1, <2>3 DEF SequenceTypes, NumberTaken
    <3>2. \A d \in Daemons : counter'[d] = 0 \/ d \in behind'
      BY <2>1, <2>3
    <3>3. HasGreatest' /\ OnlyMissedRepeat'
      BY <2>1 DEF HasGreatest, OnlyMissedRepeat
    <3>4. Ahead' /\ Room'
      BY <2>1, <3>2 DEF Ahead, Room, AboveLive
    <3> QED BY <3>1, <3>3, <3>4
  <2> QED BY <1>9, <2>2, <2>3 DEF FailLoad
<1>10. CASE UNCHANGED sequenceVars
  <2>1. SequenceTypes' /\ NumberTaken' /\ Room'
    BY <1>10 DEF sequenceVars, SequenceTypes, NumberTaken, Room, AboveLive, AboveAll
  <2> QED BY <1>10, <2>1, JournalUntouched DEF sequenceVars
<1> QED BY <1>1, <1>2, <1>3, <1>4, <1>5, <1>6, <1>7, <1>8, <1>9, <1>10 DEF SequenceNext

(* One daemon repeats or goes below an event number only where a counter     *)
(* that a terminal event missed numbers an event after recovery has numbered *)
(* that one: whatever reads and appends fail, and however often it dies      *)
(* between taking a number and writing it (agent.rs, emit; session.rs,       *)
(* recover_interrupted).                                                     *)
THEOREM NumbersIncrease ==
  ASSUME NEW self, Daemons = {self}
  PROVE  SequenceSpec => []OnlyMissedRepeat
<1>1. SequenceInv /\ [SequenceNext]_sequenceVars => SequenceInv'
  BY SequenceKept
<1>2. SequenceInv => OnlyMissedRepeat
  BY DEF SequenceInv
<1> QED BY SequenceHoldsAtStart, <1>1, <1>2, PTL DEF SequenceSpec

-----------------------------------------------------------------------------
(* The names of tool calls.                                                *)

Intents == [run : Nat, turn : Nat, id : CallIds]

IdentityTypes ==
  /\ intents \in Seq(Intents) /\ runs \in Nat /\ turn \in Nat
  /\ batch \in Seq(CallIds) /\ seenIds \subseteq CallIds
  /\ pc \in {"idle", "recover", "turn", "call", "result", "message"}

Live == pc \in {"turn", "call", "result", "message"}

\* What the run has seen: the calls it wrote, and those it has still to write,
\* which no intent of the session names.
SeenByRun ==
  /\ \A n \in DOMAIN intents : intents[n].run <= runs
  /\ Live => \A n \in DOMAIN intents : intents[n].run = runs => intents[n].id \in seenIds
BatchIsNew ==
  /\ ~Live \/ pc = "turn" => batch = <<>>
  /\ \A k \in DOMAIN batch : batch[k] \in seenIds /\ batch[k] \notin IntentIds
  /\ \A k, l \in DOMAIN batch : k # l => batch[k] # batch[l]

IdentityInv == IdentityTypes /\ SeenByRun /\ BatchIsNew /\ IdsNeverReused

(* The sequence of a finite set has every element of it once.                *)
LEMMA ListsOnce ==
  ASSUME NEW S, IsFiniteSet(S)
  PROVE  /\ SetToSeq(S) \in Seq(S)
         /\ \A k, l \in DOMAIN SetToSeq(S) : k # l => SetToSeq(S)[k] # SetToSeq(S)[l]
<1> DEFINE D == 1 .. Cardinality(S)
<1>1. Cardinality(S) \in Nat /\ \E f \in [D -> S] : IsInjective(f)
  BY FS_CardinalityType DEF ExistsBijection, Bijection, Injection
<1>2. SetToSeq(S) \in [D -> S] /\ IsInjective(SetToSeq(S))
  BY <1>1 DEF SetToSeq
<1>3. SetToSeq(S) \in Seq(S)
  BY <1>1, <1>2
<1> QED BY <1>2, <1>3 DEF IsInjective

LEMMA IdentityHoldsAtStart == IdentityInit => IdentityInv
<1> SUFFICES ASSUME IdentityInit PROVE IdentityInv
  OBVIOUS
<1>1. intents = <<>> /\ batch = <<>>
  BY DEF IdentityInit
<1>4. <<>> \in Seq(Intents) /\ <<>> \in Seq(CallIds)
  OBVIOUS
<1>5. DOMAIN intents = {} /\ DOMAIN batch = {}
  BY <1>1
<1>2. IdentityTypes
  BY <1>1, <1>4 DEF IdentityInit, IdentityTypes
<1>3. SeenByRun /\ BatchIsNew /\ IdsNeverReused
  BY <1>1, <1>5 DEF IdentityInit, SeenByRun, BatchIsNew, IdsNeverReused, Live
<1> QED BY <1>2, <1>3 DEF IdentityInv

(* While the intents stay as they are and no call is at hand, what a run has *)
(* seen is all there is to show.                                             *)
LEMMA NoBatch ==
  ASSUME IdentityInv, UNCHANGED intents, batch' = <<>>, IdentityTypes', SeenByRun'
  PROVE  IdentityInv'
<1>1. DOMAIN batch' = {}
  OBVIOUS
<1> QED BY <1>1 DEF IdentityInv, BatchIsNew, IdsNeverReused

LEMMA IdentityKept ==
  ASSUME ~Reuses, IdentityInv, [IdentityNext]_identityVars
  PROVE  IdentityInv'
<1> USE DEF IdentityInv, Live
<1>1. CASE StartRun
  BY <1>1, NoBatch DEF StartRun, callJournal, IdentityTypes, SeenByRun, BatchIsNew
<1>2. CASE Recover
  BY <1>2, NoBatch DEF Recover, IdentityTypes, SeenByRun, BatchIsNew
<1>3. CASE AcceptRun
  <2>1. batch' = <<>> /\ UNCHANGED intents /\ runs' = runs + 1 /\ seenIds' = {} /\ pc' = "turn"
        /\ turn' = 0
    BY <1>3 DEF AcceptRun, BatchIsNew
  <2>2. \A n \in DOMAIN intents : intents[n].run \in Nat /\ intents[n].run <= runs
    <3>1. \A n \in DOMAIN intents : intents[n] \in Intents
      BY DEF IdentityTypes
    <3> QED BY <3>1 DEF SeenByRun, Intents
  <2>3. IdentityTypes'
    BY <2>1 DEF IdentityTypes
  <2>4. \A n \in DOMAIN intents : intents[n].run <= runs + 1 /\ intents[n].run # runs + 1
    BY <2>2 DEF IdentityTypes
  <2>5. SeenByRun'
    BY <2>1, <2>4 DEF SeenByRun
  <2> QED BY <2>1, <2>3, <2>5, NoBatch
<1>4. CASE AcceptBatch
  <2>1. PICK ids \in SUBSET (Offered \ seenIds) :
          batch' = SetToSeq(ids) /\ seenIds' = seenIds \cup ids
    BY <1>4 DEF AcceptBatch
  <2>2. UNCHANGED <<intents, runs>> /\ pc = "turn" /\ pc' = "call" /\ turn' = turn + 1
    BY <1>4 DEF AcceptBatch, callJournal
  <2>3. ids \subseteq CallIds /\ IsFiniteSet(ids)
    BY FS_Subset, IdentityBounds DEF Offered
  <2>4. \A n \in DOMAIN intents : intents[n].id \notin ids
    BY <2>2 DEF Offered, SeenByRun
  <2>5. /\ batch' \in Seq(ids)
        /\ \A k, l \in DOMAIN batch' : k # l => batch'[k] # batch'[l]
    BY <2>1, <2>3, ListsOnce
  <2>6. batch' \in Seq(CallIds) /\ \A k \in DOMAIN batch' : batch'[k] \in ids
    BY <2>3, <2>5
  <2>7. IdentityTypes'
    BY <2>1, <2>2, <2>3, <2>6 DEF IdentityTypes
  <2>8. SeenByRun' /\ IdsNeverReused'
    BY <2>1, <2>2 DEF SeenByRun, IdsNeverReused
  <2>9. BatchIsNew'
    BY <2>1, <2>2, <2>4, <2>5, <2>6 DEF BatchIsNew, IntentIds
  <2> QED BY <2>7, <2>8, <2>9
<1>5. CASE WriteIntent
  <2> DEFINE new == [run |-> runs, turn |-> turn, id |-> Head(batch)]
  <2>1. /\ pc = "call" /\ pc' = "result" /\ batch # <<>> /\ UNCHANGED <<runs, turn, seenIds>>
        /\ intents' = Append(intents, new) /\ batch' = Tail(batch)
    BY <1>5 DEF WriteIntent
  <2>11. batch \in Seq(CallIds)
    BY DEF IdentityTypes
  <2>2. /\ Len(batch) \in Nat \ {0} /\ DOMAIN batch = 1 .. Len(batch) /\ Head(batch) = batch[1]
        /\ batch' \in Seq(CallIds) /\ DOMAIN batch' = 1 .. Len(batch) - 1
        /\ \A k \in DOMAIN batch' : k + 1 \in DOMAIN batch /\ batch'[k] = batch[k + 1]
    BY <2>1, <2>11
  <2>3. Head(batch) \in CallIds /\ Head(batch) \in seenIds /\ Head(batch) \notin IntentIds
    BY <2>2 DEF IdentityTypes, BatchIsNew
  <2>4. new \in Intents /\ new.id = Head(batch) /\ new.run = runs
    BY <2>3 DEF IdentityTypes, Intents
  <2> HIDE DEF new
  <2>5. /\ intents' \in Seq(Intents) /\ DOMAIN intents' = DOMAIN intents \cup {Len(intents) + 1}
        /\ Len(intents) + 1 \notin DOMAIN intents /\ intents'[Len(intents) + 1] = new
        /\ \A n \in DOMAIN intents : intents'[n] = intents[n]
    <3>1. intents \in Seq(Intents)
      BY DEF IdentityTypes
    <3> QED BY <2>1, <2>4, <3>1
  <2>6. \A n \in DOMAIN intents' : (n \in DOMAIN intents /\ intents'[n] = intents[n])
                                    \/ (n = Len(intents) + 1 /\ intents'[n] = new)
    BY <2>5
  <2>7. IdentityTypes'
    BY <2>1, <2>2, <2>5 DEF IdentityTypes
  <2>8. SeenByRun'
    BY <2>1, <2>3, <2>4, <2>6 DEF SeenByRun, IdentityTypes
  <2>9. IdsNeverReused'
    BY <2>3, <2>4, <2>6 DEF IdsNeverReused, IntentIds
  <2>10. BatchIsNew'
    <3>1. \A k \in DOMAIN batch' : batch'[k] # new.id
      BY <2>2, <2>4 DEF BatchIsNew
    <3>2. \A k \in DOMAIN batch' : batch'[k] \in seenIds /\ batch'[k] \notin IntentIds
      BY <2>2 DEF BatchIsNew
    <3>3. \A i : i \in IntentIds' => i \in IntentIds \/ i = new.id
      BY <2>6 DEF IntentIds
    <3>4. \A k, l \in DOMAIN batch' : k # l => batch'[k] # batch'[l]
      BY <2>2 DEF BatchIsNew
    <3> QED BY <2>1, <3>1, <3>2, <3>3, <3>4 DEF BatchIsNew
  <2> QED BY <2>7, <2>8, <2>9, <2>10
<1>6. CASE WriteResult
  BY <1>6 DEF WriteResult, IdentityTypes, SeenByRun, BatchIsNew, IdsNeverReused, IntentIds
<1>7. CASE WriteMessage
  <2>1. /\ pc = "message" /\ pc' \in {"turn", "call"} /\ (pc' = "turn" => batch = <<>>)
        /\ UNCHANGED <<intents, runs, turn, seenIds, batch>>
    BY <1>7 DEF WriteMessage
  <2>2. IdentityTypes' /\ SeenByRun' /\ IdsNeverReused'
    BY <2>1 DEF IdentityTypes, SeenByRun, IdsNeverReused
  <2>3. BatchIsNew'
    BY <2>1 DEF BatchIsNew, IntentIds
  <2> QED BY <2>2, <2>3
<1>8. CASE EndRun
  BY <1>8, NoBatch DEF EndRun, callJournal, IdentityTypes, SeenByRun, BatchIsNew
<1>9. CASE DieMidRun
  <2>1. UNCHANGED <<intents, runs>> /\ batch' = <<>> /\ pc' = "idle" /\ turn' = 0 /\ seenIds' = {}
    BY <1>9 DEF DieMidRun, callJournal
  <2>2. IdentityTypes' /\ SeenByRun'
    BY <2>1 DEF IdentityTypes, SeenByRun
  <2> QED BY <2>1, <2>2, NoBatch
<1>10. CASE UNCHANGED identityVars
  BY <1>10 DEF identityVars, IdentityTypes, SeenByRun, BatchIsNew, IdsNeverReused, IntentIds
<1> QED BY <1>1, <1>2, <1>3, <1>4, <1>5, <1>6, <1>7, <1>8, <1>9, <1>10 DEF IdentityNext

(* With a provider that names each call of a session anew, the recovery of a *)
(* journal that this program wrote never refuses it, however its runs end;   *)
(* and no two intents of the session have one name (agent.rs, seen_tool_     *)
(* call_ids; session.rs, recover_interrupted).                               *)
THEOREM RecoveryAccepts ==
  ASSUME ~Reuses
  PROVE  IdentitySpec => []NeverRefused /\ []IdsNeverReused
<1>1. IdentityInv /\ [IdentityNext]_identityVars => IdentityInv'
  BY IdentityKept
<1>2. IdentityInv => NeverRefused /\ IdsNeverReused
  BY DEF IdentityInv, NeverRefused, Ambiguous, IdsNeverReused
<1> QED BY IdentityHoldsAtStart, <1>1, <1>2, PTL DEF IdentitySpec

-----------------------------------------------------------------------------
(* Steering and follow-up input.                                           *)

Batches == [kind : Kinds, items : Seq(Items)]
Tasks == [pc : {"turn", "boundary", "completion", "consume", "inject", "close", "ended"},
          turns : Nat, kind : Kinds \cup {"none"}, batch : Seq(Items), taken : Nat,
          outcome : {"none", "failed", "interrupted", "cancelled", "completed"}]
Rpcs == [pc : {"idle", "push", "respond", "gone", "cancel_noted", "cancel_fire"},
         item : Items \cup {NoItem}, kind : Kinds \cup {"none"}]

QueueTypes ==
  /\ appended \in [Kinds -> Seq(Items)] /\ queue \in [Kinds -> Seq(Items)]
  /\ consumed \in Seq(Batches) /\ injected \in Seq(Items)
  /\ task \in Tasks /\ rpc \in Rpcs

\* What a handler at work knows of its item, and that it has the lock.
HandlerHolds ==
  /\ rpc.pc \in {"push", "cancel_noted"} => lock = "rpc"
  /\ rpc.pc \in {"push", "respond"} => rpc.kind \in Kinds /\ rpc.item \in Items
  /\ rpc.pc = "push" =>
       \A k \in Kinds : rpc.item \in ToSet(appended[k]) <=> rpc.kind = k

\* The task has the lock from the selection to the last message; its batch is
\* the queue as it is, and no follow-up is selected over steering input.
TaskHolds ==
  \A k \in Kinds : task.pc \in {"consume", "inject"} /\ task.kind = k =>
    /\ lock = "task" /\ task.taken = Len(queue[k]) /\ task.batch # <<>>
    /\ k = "follow_up" => queue["steering"] = <<>>
    /\ task.pc = "consume" => task.batch = queue[k]
    /\ task.pc = "inject" => /\ ToSet(task.batch) \subseteq Taken
                             /\ ToSet(queue[k]) \subseteq ToSet(injected) \cup ToSet(task.batch)
TaskKinds == task.pc \in {"consume", "inject"} => task.kind \in Kinds

\* The items a response was, or is about to be, written for.
Promised == acked \cup {i \in Items : rpc.pc = "respond" /\ rpc.item = i}

\* Every promised item was made durable; while memory lives it is in the
\* context or still in its queue.
PromisesDurable == \A i \in Promised : i \in Items /\ \E k \in Kinds : i \in ToSet(appended[k])
PromisesHeld ==
  task.pc # "ended" =>
    \A k \in Kinds : \A i \in Promised :
      i \in ToSet(appended[k]) => i \in ToSet(injected) \cup ToSet(queue[k])

\* What reached the context was taken from the queue durably.
InjectedTaken == ToSet(injected) \subseteq Taken

\* Completion: the entrance is closed, and nothing is owed to anyone.
CompletionOwesNothing ==
  task.outcome = "completed" =>
    /\ task.pc \in {"close", "ended"} /\ ~accepting /\ rpc.pc # "push"
    /\ Promised \subseteq ToSet(injected)

QueueInv ==
  /\ QueueTypes /\ HandlerHolds /\ TaskHolds /\ TaskKinds
  /\ PromisesDurable /\ PromisesHeld /\ InjectedTaken /\ CompletionOwesNothing

(* The elements of a sequence, as it grows and as it is taken apart.         *)
LEMMA ToSetAppend ==
  ASSUME NEW X, NEW s \in Seq(X), NEW x \in X
  PROVE  Append(s, x) \in Seq(X) /\ ToSet(Append(s, x)) = ToSet(s) \cup {x}
<1>1. /\ Append(s, x) \in Seq(X) /\ DOMAIN Append(s, x) = DOMAIN s \cup {Len(s) + 1}
      /\ Append(s, x)[Len(s) + 1] = x /\ \A n \in DOMAIN s : Append(s, x)[n] = s[n]
  OBVIOUS
<1> QED BY <1>1 DEF ToSet

LEMMA ToSetParts ==
  ASSUME NEW X, NEW s \in Seq(X), s # <<>>
  PROVE  /\ Head(s) \in X /\ Tail(s) \in Seq(X) /\ Len(s) \in Nat \ {0}
         /\ ToSet(s) = {Head(s)} \cup ToSet(Tail(s))
         /\ Len(s) = 1 => ToSet(s) = {Head(s)}
         /\ Len(s) > 1 => Tail(s) # <<>>
<1>1. /\ Head(s) \in X /\ Tail(s) \in Seq(X) /\ Len(s) \in Nat \ {0} /\ Head(s) = s[1]
      /\ Len(Tail(s)) = Len(s) - 1 /\ DOMAIN s = 1 .. Len(s) /\ DOMAIN Tail(s) = 1 .. Len(s) - 1
      /\ \A n \in 1 .. Len(s) - 1 : Tail(s)[n] = s[n + 1]
  OBVIOUS
<1>2. \A n \in DOMAIN s : n = 1 \/ (n - 1 \in DOMAIN Tail(s) /\ Tail(s)[n - 1] = s[n])
  BY <1>1
<1>3. \A n \in DOMAIN Tail(s) : n + 1 \in DOMAIN s /\ Tail(s)[n] = s[n + 1]
  BY <1>1
<1>4. 1 \in DOMAIN s
  BY <1>1
<1>5. ToSet(s) = {Head(s)} \cup ToSet(Tail(s))
  <2>1. ASSUME NEW x \in ToSet(s) PROVE x \in {Head(s)} \cup ToSet(Tail(s))
    <3>1. PICK n \in DOMAIN s : s[n] = x
      BY DEF ToSet
    <3>2. n = 1 => x = Head(s)
      BY <1>1, <3>1
    <3>3. n # 1 => x \in ToSet(Tail(s))
      BY <1>2, <3>1 DEF ToSet
    <3> QED BY <3>2, <3>3
  <2>2. ASSUME NEW x \in ToSet(Tail(s)) PROVE x \in ToSet(s)
    <3>1. PICK n \in DOMAIN Tail(s) : Tail(s)[n] = x
      BY DEF ToSet
    <3> QED BY <1>3, <3>1 DEF ToSet
  <2>3. Head(s) \in ToSet(s)
    BY <1>1, <1>4 DEF ToSet
  <2> QED BY <2>1, <2>2, <2>3
<1>6. Len(s) = 1 => DOMAIN s = {1}
  BY <1>1
<1>7. Len(s) = 1 => ToSet(s) = {Head(s)}
  <2>1. Len(s) = 1 => DOMAIN s = {1} /\ \A n \in DOMAIN s : s[n] = Head(s)
    BY <1>1, <1>6
  <2> QED BY <1>4, <2>1 DEF ToSet
<1>8. Len(s) > 1 => Tail(s) # <<>>
  <2>1. Len(s) > 1 => Len(Tail(s)) # 0
    BY <1>1
  <2>2. Len(<<>>) = 0
    OBVIOUS
  <2> QED BY <2>1, <2>2
<1> QED BY <1>1, <1>5, <1>7, <1>8

LEMMA ToSetEmpty == ToSet(<<>>) = {}
BY DEF ToSet

LEMMA NewTaskTyped ==
  /\ NewTask \in Tasks
  /\ \A n \in Nat : [NewTask EXCEPT !.turns = n] \in Tasks
  /\ \A p \in {"close", "ended"}, o \in {"none", "failed", "interrupted", "cancelled", "completed"} :
       [NewTask EXCEPT !.pc = p, !.outcome = o] \in Tasks
<1>1. <<>> \in Seq(Items)
  OBVIOUS
<1> QED BY <1>1 DEF NewTask, Tasks

LEMMA QueueHoldsAtStart == QueueInit => QueueInv
<1> SUFFICES ASSUME QueueInit PROVE QueueInv
  OBVIOUS
<1>1. <<>> \in Seq(Items) /\ <<>> \in Seq(Batches)
  OBVIOUS
<1>2. NewTask \in Tasks /\ Handler("idle") \in Rpcs
  BY <1>1 DEF NewTask, Tasks, Handler, Rpcs
<1>3. QueueTypes
  BY <1>1, <1>2 DEF QueueInit, QueueTypes
<1>4. task.pc = "turn" /\ task.outcome = "none" /\ rpc.pc = "idle" /\ acked = {} /\ injected = <<>>
  BY DEF QueueInit, NewTask, Handler
<1>5. Promised = {}
  BY <1>4 DEF Promised
<1> QED
  BY <1>3, <1>4, <1>5, ToSetEmpty DEF QueueInv, HandlerHolds, TaskHolds, TaskKinds, PromisesDurable,
     PromisesHeld, InjectedTaken, CompletionOwesNothing

(* What the task's records keep when the handler alone acts.                 *)
LEMMA HandlerKeeps ==
  ASSUME QueueInv, QueueTypes', HandlerHolds', UNCHANGED <<consumed, injected, queue, task>>,
         lock = "task" => lock' = "task",
         appended' = appended, Promised' \subseteq Promised, ~accepting => ~accepting',
         rpc'.pc # "push"
  PROVE  QueueInv'
<1>1. UNCHANGED Taken
  BY DEF Taken
<1>2. TaskHolds' /\ TaskKinds' /\ InjectedTaken'
  BY <1>1 DEF QueueInv, TaskHolds, TaskKinds, InjectedTaken
<1>3. PromisesDurable' /\ PromisesHeld' /\ CompletionOwesNothing'
  BY DEF QueueInv, PromisesDurable, PromisesHeld, CompletionOwesNothing
<1> QED BY <1>2, <1>3 DEF QueueInv

(* Between two drains the task moves on; its queues, and what it owes, stay. *)
LEMMA TaskMovesOn ==
  ASSUME QueueInv, UNCHANGED <<queueJournal, queue, lock, rpc, acked>>,
         task' \in Tasks, task'.pc \notin {"consume", "inject"},
         task.pc # "ended", ~accepting => ~accepting',
         task'.outcome = "completed" => /\ task'.pc \in {"close", "ended"} /\ ~accepting'
                                        /\ \/ \A k \in Kinds : queue[k] = <<>> /\ lock = "free"
                                           \/ task.outcome = "completed"
  PROVE  QueueInv'
<1>1. UNCHANGED <<appended, consumed, injected>>
  BY DEF queueJournal
<1>2. UNCHANGED <<Taken, Promised>>
  BY <1>1 DEF Taken, Promised
<1>3. QueueTypes' /\ HandlerHolds'
  BY <1>1 DEF QueueInv, QueueTypes, HandlerHolds
<1>4. TaskHolds' /\ TaskKinds' /\ InjectedTaken'
  BY <1>1, <1>2 DEF QueueInv, TaskHolds, TaskKinds, InjectedTaken
<1>5. PromisesDurable' /\ PromisesHeld'
  BY <1>1, <1>2 DEF QueueInv, PromisesDurable, PromisesHeld
<1>6. CompletionOwesNothing'
  <2> SUFFICES ASSUME task'.outcome = "completed", task.outcome # "completed"
               PROVE  rpc.pc # "push" /\ Promised \subseteq ToSet(injected)
    BY <1>1, <1>2 DEF QueueInv, CompletionOwesNothing
  <2>1. \A k \in Kinds : ToSet(queue[k]) = {}
    BY ToSetEmpty
  <2>2. Promised \subseteq ToSet(injected)
    BY <2>1 DEF QueueInv, PromisesDurable, PromisesHeld
  <2>3. lock = "free"
    BY DEF Kinds
  <2> QED BY <2>2, <2>3 DEF QueueInv, HandlerHolds
<1> QED BY <1>3, <1>4, <1>5, <1>6 DEF QueueInv

LEMMA QueueKeptByHandler ==
  ASSUME QueueInv, \/ \E k \in Kinds : Enqueue(k)
                   \/ PushItem \/ Respond \/ DropHandler
                   \/ NoteCancel \/ StopAccepting \/ FireToken
  PROVE  QueueInv'
<1> USE DEF QueueInv
<1>0. /\ appended \in [Kinds -> Seq(Items)] /\ queue \in [Kinds -> Seq(Items)] /\ rpc \in Rpcs
      /\ task \in Tasks
  BY DEF QueueTypes
<1>1. ASSUME NEW k \in Kinds, Enqueue(k) PROVE QueueInv'
  <2>1. PICK i \in Items : /\ \A j \in Kinds : i \notin ToSet(appended[j])
                           /\ appended' = [appended EXCEPT ![k] = Append(@, i)]
                           /\ rpc' = [pc |-> "push", item |-> i, kind |-> k]
    BY <1>1 DEF Enqueue, Unused
  <2>2. /\ rpc.pc = "idle" /\ lock = "free" /\ lock' = "rpc" /\ accepting
        /\ UNCHANGED <<consumed, injected, queue, accepting, task, acked>>
    BY <1>1 DEF Enqueue
  <2>3. Append(appended[k], i) \in Seq(Items) /\ ToSet(appended'[k]) = ToSet(appended[k]) \cup {i}
    BY <1>0, <2>1, ToSetAppend
  <2>4. \A j \in Kinds : j # k => appended'[j] = appended[j]
    BY <1>0, <2>1
  <2>5. rpc' \in Rpcs /\ rpc'.pc = "push" /\ rpc'.item = i /\ rpc'.kind = k
    BY <2>1 DEF Rpcs
  <2>6. QueueTypes'
    BY <1>0, <2>1, <2>2, <2>3, <2>5 DEF QueueTypes
  <2>7. \A j \in Kinds : i \in ToSet(appended'[j]) <=> j = k
    BY <2>1, <2>3, <2>4
  <2>8. HandlerHolds'
    BY <2>2, <2>5, <2>7 DEF HandlerHolds
  <2>9. UNCHANGED Taken /\ task.pc \notin {"consume", "inject"}
    BY <2>2 DEF Taken, TaskHolds, TaskKinds
  <2>10. TaskHolds' /\ TaskKinds' /\ InjectedTaken'
    BY <2>2, <2>9 DEF TaskHolds, TaskKinds, InjectedTaken
  <2>11. Promised' = Promised /\ i \notin Promised
    BY <2>1, <2>2, <2>5 DEF Promised, PromisesDurable
  <2>12. PromisesDurable'
    BY <2>3, <2>4, <2>11 DEF PromisesDurable
  <2>13. PromisesHeld' /\ CompletionOwesNothing'
    BY <2>2, <2>3, <2>4, <2>11 DEF PromisesHeld, CompletionOwesNothing
  <2> QED BY <2>6, <2>8, <2>10, <2>12, <2>13
<1>2. CASE PushItem
  <2>1. PICK k \in Kinds, i \in Items : rpc.kind = k /\ rpc.item = i
    BY <1>2 DEF PushItem, HandlerHolds
  <2>2. /\ rpc.pc = "push" /\ lock = "rpc" /\ lock' = "free"
        /\ queue' = [queue EXCEPT ![k] = Append(@, i)] /\ rpc' = [rpc EXCEPT !.pc = "respond"]
        /\ UNCHANGED <<appended, consumed, injected, accepting, task, acked>>
    BY <1>2, <2>1 DEF PushItem, HandlerHolds, queueJournal
  <2>3. \A j \in Kinds : i \in ToSet(appended[j]) <=> j = k
    BY <2>1, <2>2 DEF HandlerHolds
  <2>4. Append(queue[k], i) \in Seq(Items) /\ ToSet(queue'[k]) = ToSet(queue[k]) \cup {i}
    BY <1>0, <2>2, ToSetAppend
  <2>5. \A j \in Kinds : j # k => queue'[j] = queue[j]
    BY <1>0, <2>2
  <2>6. rpc' \in Rpcs /\ rpc'.pc = "respond" /\ rpc'.item = i /\ rpc'.kind = k
    BY <1>0, <2>1, <2>2 DEF Rpcs
  <2>7. QueueTypes' /\ HandlerHolds'
    BY <1>0, <2>2, <2>4, <2>6 DEF QueueTypes, HandlerHolds
  <2>8. UNCHANGED Taken /\ task.pc \notin {"consume", "inject"} /\ task.outcome # "completed"
    BY <2>2 DEF Taken, TaskHolds, TaskKinds, CompletionOwesNothing
  <2>9. TaskHolds' /\ TaskKinds' /\ InjectedTaken' /\ CompletionOwesNothing'
    BY <2>2, <2>8 DEF TaskHolds, TaskKinds, InjectedTaken, CompletionOwesNothing
  <2>10. Promised' = acked \cup {i} /\ acked \subseteq Promised
    BY <2>2, <2>6 DEF Promised
  <2>11. PromisesDurable'
    BY <2>2, <2>3, <2>10 DEF PromisesDurable
  <2>12. PromisesHeld'
    BY <2>2, <2>3, <2>4, <2>5, <2>10 DEF PromisesHeld
  <2> QED BY <2>7, <2>9, <2>11, <2>12
<1>3. CASE Respond
  <2>1. /\ rpc.pc = "respond" /\ rpc' \in Rpcs /\ rpc'.pc \in {"idle", "gone"}
        /\ acked' = acked \/ acked' = acked \cup {rpc.item}
        /\ UNCHANGED <<queueJournal, queue, accepting, lock, task>>
    BY <1>3 DEF Respond, Handler, Rpcs
  <2>2. rpc.item \in Items
    BY <2>1 DEF HandlerHolds
  <2>3. Promised' \subseteq Promised
    BY <2>1, <2>2 DEF Promised
  <2>4. QueueTypes' /\ HandlerHolds'
    BY <2>1 DEF queueJournal, QueueTypes, HandlerHolds
  <2>5. rpc'.pc # "push" /\ UNCHANGED <<appended, consumed, injected>>
    BY <2>1 DEF queueJournal
  <2> QED BY <2>1, <2>3, <2>4, <2>5, HandlerKeeps
<1>4. CASE DropHandler \/ NoteCancel \/ StopAccepting \/ FireToken
  <2>1. /\ rpc' \in Rpcs /\ rpc'.pc \in {"idle", "gone", "cancel_noted", "cancel_fire"}
        /\ rpc'.pc = "cancel_noted" => lock' = "rpc"
        /\ lock = "task" => lock' = "task"
        /\ ~accepting => ~accepting'
        /\ UNCHANGED <<appended, consumed, injected, queue, task, acked>>
    BY <1>4 DEF DropHandler, NoteCancel, StopAccepting, FireToken, Handler, Rpcs, queueJournal,
       HandlerHolds
  <2>2. Promised' \subseteq Promised
    BY <2>1 DEF Promised
  <2>3. QueueTypes' /\ HandlerHolds'
    BY <2>1 DEF QueueTypes, HandlerHolds
  <2>4. rpc'.pc # "push"
    BY <2>1
  <2> QED BY <2>1, <2>2, <2>3, <2>4, HandlerKeeps
<1> QED BY <1>1, <1>2, <1>3, <1>4

LEMMA QueueKeptByTask ==
  ASSUME QueueInv, Turn \/ DrainQueue \/ DrainCompletionQueue \/ FaultDrain \/ CloseQueues
  PROVE  QueueInv'
<1> USE DEF QueueInv
<1>0. /\ appended \in [Kinds -> Seq(Items)] /\ queue \in [Kinds -> Seq(Items)] /\ rpc \in Rpcs
      /\ task \in Tasks
  BY DEF QueueTypes
<1>1. CASE Turn
  <2>1. task' \in Tasks
    <3>1. CASE \E next \in {"boundary", "completion"} :
                 task' = [task EXCEPT !.pc = next, !.turns = @ + 1]
      <4>1. task.turns + 1 \in Nat
        BY <1>0 DEF Tasks
      <4>2. PICK next \in {"boundary", "completion"} :
              task' = [task EXCEPT !.pc = next, !.turns = task.turns + 1]
        BY <3>1
      <4> QED BY <1>0, <4>1, <4>2 DEF Tasks
    <3>2. CASE \E e \in {"failed", "interrupted", "cancelled"} : EndTask(e)
      BY <3>2, NewTaskTyped DEF EndTask
    <3> QED BY <1>1, <3>1, <3>2 DEF Turn
  <2>2. task'.pc \in {"boundary", "completion", "close"} /\ task'.outcome # "completed"
        /\ task.pc = "turn" /\ UNCHANGED <<queueJournal, queue, accepting, lock, rpc, acked>>
    BY <1>0, <1>1 DEF Turn, EndTask, NewTask, Tasks, Untouched, queueJournal, CompletionOwesNothing
  <2> QED BY <2>1, <2>2, TaskMovesOn
<1>2. ASSUME NEW k \in Kinds, Select(k), lock = "free", k = "follow_up" => queue["steering"] = <<>>,
             task.pc \in {"boundary", "completion"},
             UNCHANGED <<appended, consumed, injected, queue, rpc, acked>>
      PROVE  QueueInv'
  <2>1. /\ task'.pc = "consume" /\ task'.kind = k /\ task'.batch = queue[k]
        /\ task'.taken = Len(queue[k]) /\ lock' = "task" /\ accepting' = accepting
        /\ task' \in Tasks /\ task'.outcome = task.outcome /\ queue[k] # <<>>
    <3>1. queue[k] \in Seq(Items) /\ Len(queue[k]) \in Nat
      BY <1>0
    <3> QED BY <1>0, <1>2, <3>1 DEF Select, Tasks
  <2>2. UNCHANGED <<Taken, Promised>>
    BY <1>2 DEF Taken, Promised
  <2>3. QueueTypes' /\ HandlerHolds'
    BY <1>2, <2>1 DEF QueueTypes, HandlerHolds
  <2>4. TaskHolds' /\ TaskKinds'
    BY <1>2, <2>1, <2>2 DEF TaskHolds, TaskKinds
  <2>5. PromisesDurable' /\ PromisesHeld' /\ InjectedTaken' /\ CompletionOwesNothing'
    BY <1>2, <2>1, <2>2 DEF PromisesDurable, PromisesHeld, InjectedTaken, CompletionOwesNothing
  <2> QED BY <2>3, <2>4, <2>5
<1>3. CASE DrainQueue
  <2>1. CASE Select("steering")
    BY <1>2, <1>3, <2>1 DEF DrainQueue, Untouched, Kinds
  <2>2. CASE ~Select("steering")
    <3>1. /\ task' = [task EXCEPT !.pc = "turn"] /\ task.pc = "boundary"
          /\ UNCHANGED <<queueJournal, queue, accepting, lock, rpc, acked>>
      BY <1>3, <2>2 DEF DrainQueue, Untouched, queueJournal
    <3>2. task' \in Tasks /\ task'.pc = "turn" /\ task'.outcome # "completed"
      BY <1>0, <3>1 DEF Tasks, CompletionOwesNothing
    <3> QED BY <3>1, <3>2, TaskMovesOn
  <2> QED BY <2>1, <2>2
<1>4. CASE DrainCompletionQueue
  <2>1. /\ task.pc = "completion" /\ lock = "free"
        /\ UNCHANGED <<appended, consumed, injected, queue, rpc, acked>>
    BY <1>4 DEF DrainCompletionQueue, Untouched
  <2>2. CASE Select("steering")
    BY <1>2, <2>1, <2>2 DEF Kinds
  <2>3. CASE queue["steering"] = <<>> /\ Select("follow_up")
    BY <1>2, <2>1, <2>3 DEF Kinds
  <2>4. CASE /\ \A k \in Kinds : queue[k] = <<>>
             /\ EndTask("completed") /\ accepting' = FALSE /\ UNCHANGED lock
    <3>1. task' \in Tasks /\ task'.pc = "close"
      BY <2>4, NewTaskTyped DEF EndTask, NewTask
    <3> QED BY <2>1, <2>4, <3>1, TaskMovesOn DEF queueJournal
  <2> QED BY <1>4, <2>2, <2>3, <2>4 DEF DrainCompletionQueue
<1>5. CASE FaultDrain
  <2>1. /\ task' = [NewTask EXCEPT !.pc = "close", !.outcome = "failed"] /\ lock' = "free"
        /\ task.pc \in {"consume", "inject"}
        /\ UNCHANGED <<appended, consumed, injected, queue, accepting, rpc, acked>>
    BY <1>5 DEF FaultDrain, EndTask, Untouched
  <2>2. task' \in Tasks /\ task'.pc = "close" /\ task'.outcome = "failed"
    BY <2>1, NewTaskTyped DEF NewTask
  <2>3. UNCHANGED <<Taken, Promised>>
    BY <2>1 DEF Taken, Promised
  <2>4. lock = "task"
    BY <2>1 DEF TaskHolds, TaskKinds
  <2>5. QueueTypes' /\ HandlerHolds'
    BY <2>1, <2>2, <2>4 DEF QueueTypes, HandlerHolds
  <2>6. TaskHolds' /\ TaskKinds'
    BY <2>2 DEF TaskHolds, TaskKinds
  <2>7. PromisesDurable' /\ PromisesHeld' /\ InjectedTaken' /\ CompletionOwesNothing'
    BY <2>1, <2>2, <2>3 DEF PromisesDurable, PromisesHeld, InjectedTaken, CompletionOwesNothing
  <2> QED BY <2>5, <2>6, <2>7
<1>6. CASE CloseQueues
  <2>1. /\ task' = [task EXCEPT !.pc = "ended"] /\ task.pc = "close" /\ accepting' = FALSE
        /\ UNCHANGED <<queueJournal, queue, lock, rpc, acked>>
    BY <1>6 DEF CloseQueues, Untouched, queueJournal
  <2>2. task' \in Tasks /\ task'.pc = "ended" /\ task'.outcome = task.outcome
    BY <1>0, <2>1 DEF Tasks
  <2> QED BY <2>1, <2>2, TaskMovesOn
<1> QED BY <1>1, <1>3, <1>4, <1>5, <1>6

LEMMA QueueKeptByDrain ==
  ASSUME QueueInv, PersistConsumption \/ PersistMessage
  PROVE  QueueInv'
<1> USE DEF QueueInv
<1>0. /\ appended \in [Kinds -> Seq(Items)] /\ queue \in [Kinds -> Seq(Items)] /\ rpc \in Rpcs
      /\ task \in Tasks /\ consumed \in Seq(Batches) /\ injected \in Seq(Items)
      /\ task.batch \in Seq(Items)
  BY DEF QueueTypes, Tasks
<1>1. PICK k \in Kinds : task.kind = k
  BY DEF TaskKinds, PersistConsumption, PersistMessage
<1>2. /\ lock = "task" /\ task.taken = Len(queue[k]) /\ task.batch # <<>>
      /\ k = "follow_up" => queue["steering"] = <<>>
      /\ task.outcome # "completed" /\ rpc.pc # "push"
      /\ UNCHANGED <<appended, accepting, rpc, acked>>
  BY <1>1 DEF TaskHolds, CompletionOwesNothing, HandlerHolds, PersistConsumption, PersistMessage,
     Untouched
<1>3. UNCHANGED Promised
  BY <1>2 DEF Promised
<1>4. CASE PersistConsumption
  <2> DEFINE new == [kind |-> k, items |-> task.batch]
  <2>1. /\ task.pc = "consume" /\ consumed' = Append(consumed, new)
        /\ task' = [task EXCEPT !.pc = "inject"] /\ UNCHANGED <<injected, queue, lock>>
    BY <1>1, <1>4 DEF PersistConsumption
  <2>2. task.batch = queue[k]
    BY <1>1, <2>1 DEF TaskHolds
  <2>3. new \in Batches /\ new.items = task.batch
    BY <1>0 DEF Batches
  <2> HIDE DEF new
  <2>4. /\ consumed' \in Seq(Batches) /\ Len(consumed) + 1 \in DOMAIN consumed'
        /\ consumed'[Len(consumed) + 1] = new
        /\ \A n \in DOMAIN consumed : n \in DOMAIN consumed' /\ consumed'[n] = consumed[n]
    BY <1>0, <2>1, <2>3
  <2>5. Taken \subseteq Taken' /\ ToSet(task.batch) \subseteq Taken'
    <3>1. \A n \in DOMAIN consumed' : ToSet(consumed'[n].items) \subseteq Taken'
      BY DEF Taken
    <3>2. ToSet(task.batch) \subseteq Taken'
      BY <2>3, <2>4, <3>1
    <3>3. ASSUME NEW i \in Taken PROVE i \in Taken'
      <4>1. PICK n \in DOMAIN consumed : i \in ToSet(consumed[n].items)
        BY DEF Taken
      <4> QED BY <2>4, <3>1, <4>1
    <3> QED BY <3>2, <3>3
  <2>6. /\ task' \in Tasks /\ task'.pc = "inject" /\ task'.kind = k /\ task'.batch = task.batch
        /\ task'.taken = task.taken /\ task'.outcome = task.outcome
    BY <1>0, <1>1, <2>1 DEF Tasks
  <2>7. QueueTypes' /\ HandlerHolds'
    BY <1>0, <1>2, <2>1, <2>4, <2>6 DEF QueueTypes, HandlerHolds
  <2>8. TaskHolds' /\ TaskKinds'
    BY <1>2, <2>1, <2>2, <2>5, <2>6 DEF TaskHolds, TaskKinds
  <2>9. InjectedTaken'
    BY <2>1, <2>5 DEF InjectedTaken
  <2>10. PromisesDurable' /\ PromisesHeld' /\ CompletionOwesNothing'
    BY <1>2, <1>3, <2>1, <2>6 DEF PromisesDurable, PromisesHeld, CompletionOwesNothing
  <2> QED BY <2>7, <2>8, <2>9, <2>10
<1>5. CASE PersistMessage
  <2>1. /\ task.pc = "inject" /\ consumed' = consumed /\ injected' = Append(injected, Head(task.batch))
        /\ ToSet(task.batch) \subseteq Taken
        /\ ToSet(queue[k]) \subseteq ToSet(injected) \cup ToSet(task.batch)
    BY <1>1, <1>5 DEF PersistMessage, TaskHolds
  <2>2. UNCHANGED Taken
    BY <2>1 DEF Taken
  <2>3. /\ Head(task.batch) \in Items /\ Tail(task.batch) \in Seq(Items)
        /\ Len(task.batch) \in Nat \ {0}
        /\ ToSet(task.batch) = {Head(task.batch)} \cup ToSet(Tail(task.batch))
        /\ Len(task.batch) = 1 => ToSet(task.batch) = {Head(task.batch)}
        /\ Len(task.batch) > 1 => Tail(task.batch) # <<>>
    BY <1>0, <1>2, ToSetParts
  <2>4. injected' \in Seq(Items) /\ ToSet(injected') = ToSet(injected) \cup {Head(task.batch)}
    BY <1>0, <2>1, <2>3, ToSetAppend
  <2>5. InjectedTaken'
    BY <2>1, <2>2, <2>3, <2>4 DEF InjectedTaken
  <2>6. CASE Len(task.batch) > 1
    <3>1. task' = [task EXCEPT !.batch = Tail(@)] /\ UNCHANGED <<queue, lock>>
      BY <1>5, <2>6 DEF PersistMessage
    <3>2. /\ task' \in Tasks /\ task'.pc = "inject" /\ task'.kind = k
          /\ task'.batch = Tail(task.batch) /\ task'.taken = task.taken
          /\ task'.outcome = task.outcome
      BY <1>0, <1>1, <2>1, <2>3, <3>1 DEF Tasks
    <3>3. QueueTypes' /\ HandlerHolds'
      BY <1>0, <1>2, <2>1, <2>4, <3>1, <3>2 DEF QueueTypes, HandlerHolds
    <3>4. TaskHolds' /\ TaskKinds'
      BY <1>2, <2>1, <2>2, <2>3, <2>4, <2>6, <3>1, <3>2 DEF TaskHolds, TaskKinds
    <3>5. PromisesDurable' /\ PromisesHeld' /\ CompletionOwesNothing'
      BY <1>2, <1>3, <2>4, <3>1, <3>2 DEF PromisesDurable, PromisesHeld, CompletionOwesNothing
    <3> QED BY <2>5, <3>3, <3>4, <3>5
  <2>7. CASE ~(Len(task.batch) > 1)
    <3>1. /\ task' = [NewTask EXCEPT !.turns = task.turns] /\ lock' = "free"
          /\ queue' = [queue EXCEPT ![k] = SubSeq(@, task.taken + 1, Len(@))]
      BY <1>1, <1>5, <2>7 DEF PersistMessage
    <3>2. task' \in Tasks /\ task'.pc = "turn" /\ task'.outcome = "none"
      <4>1. task.turns \in Nat
        BY <1>0 DEF Tasks
      <4> QED BY <3>1, <4>1, NewTaskTyped DEF NewTask
    <3>3. queue[k] \in Seq(Items)
      BY <1>0
    <3>4. SubSeq(queue[k], task.taken + 1, Len(queue[k])) \in Seq(Items)
      BY <1>2, <3>3
    <3>5. queue' \in [Kinds -> Seq(Items)] /\ \A j \in Kinds : j # k => queue'[j] = queue[j]
      BY <1>0, <3>1, <3>4
    <3>6. Len(task.batch) = 1
      <4>1. Len(task.batch) \in Nat \ {0}
        BY <2>3
      <4>2. \A n \in Nat \ {0} : ~(n > 1) => n = 1
        OBVIOUS
      <4> QED BY <2>7, <4>1, <4>2, Zenon
    <3>7. ToSet(queue[k]) \subseteq ToSet(injected')
      BY <2>1, <2>3, <2>4, <3>6
    <3>8. QueueTypes' /\ HandlerHolds'
      BY <1>0, <1>2, <2>1, <2>4, <3>2, <3>5 DEF QueueTypes, HandlerHolds
    <3>9. TaskHolds' /\ TaskKinds' /\ CompletionOwesNothing'
      BY <3>2 DEF TaskHolds, TaskKinds, CompletionOwesNothing
    <3>10. PromisesDurable'
      BY <1>2, <1>3 DEF PromisesDurable
    <3>11. PromisesHeld'
      BY <1>2, <1>3, <2>1, <2>4, <3>5, <3>7 DEF PromisesHeld
    <3> QED BY <2>5, <3>8, <3>9, <3>10, <3>11
  <2> QED BY <2>6, <2>7
<1> QED BY <1>4, <1>5

LEMMA QueueKept == QueueInv /\ [QueueNext]_queueVars => QueueInv'
<1> SUFFICES ASSUME QueueInv, [QueueNext]_queueVars PROVE QueueInv'
  OBVIOUS
<1>1. CASE LoseMemory
  <2>1. /\ task'.pc = "ended" /\ rpc' = Handler("gone") /\ accepting' = FALSE
        /\ queue' = [k \in Kinds |-> <<>>]
        /\ UNCHANGED <<appended, consumed, injected, acked>>
    BY <1>1 DEF LoseMemory, NewTask, queueJournal
  <2>2. /\ task' \in Tasks
        /\ task'.outcome = "completed" => task.outcome = "completed"
    <3>1. task.outcome \in {"none", "failed", "interrupted", "cancelled", "completed"}
      BY DEF QueueInv, QueueTypes, Tasks
    <3>2. PICK o \in {"none", "failed", "interrupted", "cancelled", "completed"} :
            /\ task' = [NewTask EXCEPT !.pc = "ended", !.outcome = o]
            /\ o = "completed" => task.outcome = "completed"
      BY <1>1, <3>1 DEF LoseMemory
    <3>3. task'.outcome = o
      BY <3>2 DEF NewTask
    <3> QED BY <3>2, <3>3, NewTaskTyped
  <2>3. rpc' \in Rpcs /\ rpc'.pc = "gone"
    BY <2>1 DEF Handler, Rpcs
  <2>4. Promised' \subseteq Promised
    BY <2>1, <2>3 DEF Promised
  <2>5. UNCHANGED Taken
    BY <2>1 DEF Taken
  <2>6. <<>> \in Seq(Items)
    OBVIOUS
  <2>7. QueueTypes'
    BY <2>1, <2>2, <2>3, <2>6 DEF QueueInv, QueueTypes
  <2>8. HandlerHolds' /\ TaskHolds' /\ TaskKinds' /\ PromisesHeld' /\ InjectedTaken'
    BY <2>1, <2>3, <2>5 DEF QueueInv, HandlerHolds, TaskHolds, TaskKinds, PromisesHeld, InjectedTaken
  <2>9. PromisesDurable' /\ CompletionOwesNothing'
    BY <2>1, <2>2, <2>3, <2>4 DEF QueueInv, PromisesDurable, CompletionOwesNothing
  <2> QED BY <2>7, <2>8, <2>9 DEF QueueInv
<1>2. CASE UNCHANGED queueVars
  <2>1. UNCHANGED <<Taken, Promised>>
    BY <1>2 DEF queueVars, Taken, Promised
  <2> QED BY <1>2, <2>1 DEF queueVars, QueueInv, QueueTypes, HandlerHolds, TaskHolds, TaskKinds,
             PromisesDurable, PromisesHeld, InjectedTaken, CompletionOwesNothing
<1> QED BY <1>1, <1>2, QueueKeptByHandler, QueueKeptByTask, QueueKeptByDrain, Zenon DEF QueueNext

(* A run that completes owes no one anything: all the input whose response   *)
(* was written is in the model's context (agent.rs, drain_completion_queue   *)
(* closes the entrance under the lock that Agent::enqueue holds).            *)
THEOREM CompletionTakesAll == QueueSpec => []CompletedTakesAll
<1>1. QueueInv => CompletedTakesAll
  BY DEF QueueInv, CompletionOwesNothing, Promised, CompletedTakesAll
<1> QED BY QueueHoldsAtStart, QueueKept, <1>1, PTL DEF QueueSpec

(* A follow-up is taken only when all acknowledged steering input has been:  *)
(* a push cannot come between the look at the steering queue and the record  *)
(* of the batch (agent.rs, drain_completion_queue).                          *)
THEOREM SteeringComesFirst == QueueSpec => SteeringFirst
<1> DEFINE Ordered == \A n \in DOMAIN consumed' \ DOMAIN consumed :
                        consumed'[n].kind = "follow_up" =>
                          acked \cap AllItems("steering") \subseteq Taken
<1>1. QueueInv /\ [QueueNext]_queueVars => [Ordered]_queueVars
  <2> SUFFICES ASSUME QueueInv, QueueNext, NEW n \in DOMAIN consumed' \ DOMAIN consumed,
                      consumed'[n].kind = "follow_up"
               PROVE  acked \cap AllItems("steering") \subseteq Taken
    BY DEF queueVars
  <2>1. PersistConsumption
    BY DEF QueueNext, Enqueue, PushItem, Respond, DropHandler, NoteCancel, StopAccepting, FireToken,
       Turn, DrainQueue, DrainCompletionQueue, PersistMessage, FaultDrain, CloseQueues, LoseMemory,
       queueJournal
  <2>2. consumed \in Seq(Batches)
    BY DEF QueueInv, QueueTypes
  <2>3. /\ task.pc = "consume"
        /\ consumed' = Append(consumed, [kind |-> task.kind, items |-> task.batch])
    BY <2>1 DEF PersistConsumption
  <2>4. task.kind = "follow_up"
    BY <2>2, <2>3
  <2>5. queue["steering"] = <<>>
    BY <2>3, <2>4 DEF QueueInv, TaskHolds, Kinds
  <2>6. \A i \in acked : i \in ToSet(appended["steering"]) => i \in ToSet(injected)
    BY <2>3, <2>5, ToSetEmpty DEF QueueInv, PromisesHeld, Promised, Kinds
  <2> QED BY <2>6 DEF QueueInv, InjectedTaken, AllItems
<1> QED BY QueueHoldsAtStart, QueueKept, <1>1, PTL DEF QueueSpec, SteeringFirst

(* The order of the context.                                               *)

\* An item is made durable once.
OnceDurable ==
  \A j, k \in Kinds : \A p \in DOMAIN appended[j], q \in DOMAIN appended[k] :
    appended[j][p] = appended[k][q] => j = k /\ p = q

\* How many items of a queue are in the context when it has let go of b.
Reached(b, k) ==
  b[k] + (IF task.pc = "inject" /\ task.kind = k THEN task.taken - Len(task.batch) ELSE 0)

\* Behind the b[k] items that have left it, a queue holds the next durable ones,
\* all of them unless the handler is gone or has one in hand.
QueueFollows(b, k) ==
  /\ b[k] + Len(queue[k]) <= Len(appended[k])
  /\ \A n \in 1 .. Len(queue[k]) : queue[k][n] = appended[k][b[k] + n]
  /\ rpc.pc # "gone" /\ ~(rpc.pc = "push" /\ rpc.kind = k) =>
       Len(appended[k]) = b[k] + Len(queue[k])
  /\ rpc.pc = "push" /\ rpc.kind = k =>
       /\ Len(appended[k]) = b[k] + Len(queue[k]) + 1
       /\ appended[k][Len(appended[k])] = rpc.item

\* What is left of a batch is the end of its queue.
BatchFollows(k) ==
  task.pc = "inject" /\ task.kind = k =>
    /\ Len(task.batch) <= Len(queue[k])
    /\ \A n \in 1 .. Len(task.batch) :
         task.batch[n] = queue[k][Len(queue[k]) - Len(task.batch) + n]

\* The context has just the durable items up to there.
ContextHas(b, k) ==
  \A p \in 1 .. Len(appended[k]) : appended[k][p] \in ToSet(injected) <=> p <= Reached(b, k)

Working == {"turn", "boundary", "completion", "consume", "inject"}
Follows(b) == \A k \in Kinds : QueueFollows(b, k) /\ BatchFollows(k) /\ ContextHas(b, k)

OrderInv ==
  /\ OnceDurable /\ NoRepetition /\ NoGap
  /\ task.pc \in Working => \E b \in [Kinds -> Nat] : Follows(b)

LEMMA OrderHoldsAtStart == QueueInit => OrderInv
<1> SUFFICES ASSUME QueueInit PROVE OrderInv
  OBVIOUS
<1> DEFINE b == [k \in Kinds |-> 0]
<1>1. /\ \A k \in Kinds : appended[k] = <<>> /\ queue[k] = <<>> /\ b[k] = 0
      /\ injected = <<>> /\ rpc.pc = "idle" /\ task.pc = "turn" /\ b \in [Kinds -> Nat]
  BY DEF QueueInit, Handler, NewTask
<1> HIDE DEF b
<1>2. OnceDurable /\ NoRepetition /\ NoGap
  BY <1>1 DEF OnceDurable, NoRepetition, NoGap
<1>3. Follows(b)
  BY <1>1 DEF Follows, QueueFollows, BatchFollows, ContextHas
<1> QED BY <1>1, <1>2, <1>3 DEF OrderInv

(* While nothing is made durable and nothing enters the context, a step that *)
(* leaves the queues alone leaves the order as it is.                        *)
LEMMA OrderUntouched ==
  ASSUME OrderInv, UNCHANGED <<appended, injected>>,
         task'.pc \in Working =>
           /\ task.pc \in Working /\ UNCHANGED queue
           /\ task'.pc = "inject" => UNCHANGED task
           /\ task.pc = "inject" => UNCHANGED task
           /\ \/ rpc'.pc = "gone"
              \/ rpc.pc \notin {"push", "gone"} /\ rpc'.pc \notin {"push", "gone"}
              \/ UNCHANGED rpc
  PROVE  OrderInv'
<1>1. (OnceDurable /\ NoRepetition /\ NoGap)'
  BY DEF OrderInv, OnceDurable, NoRepetition, NoGap
<1>2. ASSUME task'.pc \in Working PROVE \E b \in [Kinds -> Nat] : Follows(b)'
  <2>1. PICK b \in [Kinds -> Nat] : Follows(b)
    BY <1>2 DEF OrderInv
  <2>2. ASSUME NEW k \in Kinds PROVE (QueueFollows(b, k) /\ BatchFollows(k) /\ ContextHas(b, k))'
    <3>1. QueueFollows(b, k) /\ BatchFollows(k) /\ ContextHas(b, k)
      BY <2>1 DEF Follows
    <3>2. QueueFollows(b, k)'
      BY <1>2, <3>1 DEF QueueFollows
    <3>3. BatchFollows(k)'
      BY <1>2, <3>1 DEF BatchFollows
    <3>4. UNCHANGED Reached(b, k)
      BY <1>2 DEF Reached
    <3>5. ContextHas(b, k)'
      BY <3>1, <3>4 DEF ContextHas
    <3> QED BY <3>2, <3>3, <3>5
  <2> QED BY <2>2 DEF Follows
<1> QED BY <1>1, <1>2 DEF OrderInv

LEMMA OrderKeptByEnqueue ==
  ASSUME QueueInv, OrderInv, NEW k \in Kinds, Enqueue(k)
  PROVE  OrderInv'
<1>0. appended \in [Kinds -> Seq(Items)] /\ queue \in [Kinds -> Seq(Items)] /\ injected \in Seq(Items)
  BY DEF QueueInv, QueueTypes
<1>1. PICK i \in Items : /\ \A j \in Kinds : i \notin ToSet(appended[j])
                         /\ appended' = [appended EXCEPT ![k] = Append(@, i)]
                         /\ rpc' = [pc |-> "push", item |-> i, kind |-> k]
  BY DEF Enqueue, Unused
<1>2. rpc.pc = "idle" /\ UNCHANGED <<injected, queue, task>>
  BY DEF Enqueue
<1>3. /\ rpc'.pc = "push" /\ rpc'.kind = k /\ rpc'.item = i
  BY <1>1
<1>4. /\ \A j \in Kinds : j # k => appended'[j] = appended[j]
      /\ Len(appended'[k]) = Len(appended[k]) + 1 /\ appended'[k][Len(appended[k]) + 1] = i
      /\ \A p \in 1 .. Len(appended[k]) : appended'[k][p] = appended[k][p]
  BY <1>0, <1>1
<1>5. \A j \in Kinds : /\ Len(appended[j]) \in Nat /\ DOMAIN appended[j] = 1 .. Len(appended[j])
                       /\ Len(queue[j]) \in Nat
  BY <1>0
<1>6. DOMAIN appended'[k] = 1 .. Len(appended[k]) + 1
  BY <1>0, <1>1
<1>7. \A j \in Kinds : \A p \in DOMAIN appended[j] : appended[j][p] # i
  BY <1>1 DEF ToSet
<1>13. ASSUME NEW j \in Kinds, NEW p \in DOMAIN appended'[j]
       PROVE  \/ p \in DOMAIN appended[j] /\ appended'[j][p] = appended[j][p]
              \/ j = k /\ p = Len(appended[k]) + 1 /\ appended'[j][p] = i
  <2>1. CASE j # k
    BY <1>4, <1>13, <2>1
  <2>2. CASE j = k
    <3>1. p \in 1 .. Len(appended[k]) \/ p = Len(appended[k]) + 1
      BY <1>5, <1>6, <1>13, <2>2
    <3> QED BY <1>4, <1>5, <2>2, <3>1
  <2> QED BY <2>1, <2>2
<1>8. OnceDurable'
  <2> SUFFICES ASSUME NEW j \in Kinds, NEW l \in Kinds, NEW p \in DOMAIN appended'[j],
                      NEW q \in DOMAIN appended'[l], appended'[j][p] = appended'[l][q]
               PROVE  j = l /\ p = q
    BY DEF OnceDurable
  <2>1. \/ p \in DOMAIN appended[j] /\ appended'[j][p] = appended[j][p]
        \/ j = k /\ p = Len(appended[k]) + 1 /\ appended'[j][p] = i
    BY <1>13
  <2>2. \/ q \in DOMAIN appended[l] /\ appended'[l][q] = appended[l][q]
        \/ l = k /\ q = Len(appended[k]) + 1 /\ appended'[l][q] = i
    BY <1>13
  <2> QED BY <1>7, <2>1, <2>2 DEF OrderInv, OnceDurable
<1>9. NoRepetition'
  BY <1>2 DEF OrderInv, NoRepetition
<1>10. NoGap'
  <2>1. ASSUME NEW n \in DOMAIN injected, NEW j \in Kinds, NEW p \in DOMAIN appended[j],
               injected[n] = appended[j][p]
        PROVE  /\ p \in DOMAIN appended'[j] /\ appended'[j][p] = appended[j][p]
               /\ \A q \in 1 .. p - 1 : appended'[j][q] = appended[j][q]
    <3>1. \A q \in DOMAIN appended[j] : q \in DOMAIN appended'[j] /\ appended'[j][q] = appended[j][q]
      <4>1. CASE j # k
        BY <1>4, <4>1
      <4>2. CASE j = k
        BY <1>4, <1>5, <1>6, <4>2
      <4> QED BY <4>1, <4>2
    <3>2. \A q \in 1 .. p - 1 : q \in DOMAIN appended[j]
      BY <1>5
    <3> QED BY <3>1, <3>2
  <2> QED BY <1>2, <2>1 DEF OrderInv, NoGap
<1>12. task.pc # "inject"
  <2>1. lock # "task"
    BY DEF Enqueue
  <2> QED BY <2>1 DEF QueueInv, TaskHolds, TaskKinds
<1>11. ASSUME task.pc \in Working PROVE \E b \in [Kinds -> Nat] : Follows(b)'
  <2>1. PICK b \in [Kinds -> Nat] : Follows(b)
    BY <1>11 DEF OrderInv
  <2>2. ASSUME NEW j \in Kinds PROVE (QueueFollows(b, j) /\ BatchFollows(j) /\ ContextHas(b, j))'
    <3>1. QueueFollows(b, j) /\ BatchFollows(j) /\ ContextHas(b, j) /\ b[j] \in Nat
      BY <2>1 DEF Follows
    <3>2. CASE j # k
      <4>1. QueueFollows(b, j)'
        BY <1>2, <1>3, <1>4, <3>1, <3>2 DEF QueueFollows
      <4>2. BatchFollows(j)'
        BY <1>2, <3>1 DEF BatchFollows
      <4>3. UNCHANGED Reached(b, j)
        BY <1>2 DEF Reached
      <4>4. ContextHas(b, j)'
        BY <1>2, <1>4, <3>1, <3>2, <4>3 DEF ContextHas
      <4> QED BY <4>1, <4>2, <4>4
    <3>3. CASE j = k
      <4>1. QueueFollows(b, k)'
        <5>1. /\ Len(appended[k]) = b[k] + Len(queue[k])
              /\ \A n \in 1 .. Len(queue[k]) : queue[k][n] = appended[k][b[k] + n]
          BY <1>2, <3>1, <3>3 DEF QueueFollows
        <5>2. Len(appended'[k]) = b[k] + Len(queue[k]) + 1
          BY <1>4, <5>1
        <5>3. \A n \in 1 .. Len(queue[k]) : appended'[k][b[k] + n] = appended[k][b[k] + n]
          <6> SUFFICES ASSUME NEW n \in 1 .. Len(queue[k])
                       PROVE  appended'[k][b[k] + n] = appended[k][b[k] + n]
            OBVIOUS
          <6>1. b[k] \in Nat /\ Len(queue[k]) \in Nat
            BY <1>5, <3>1, <3>3
          <6>2. b[k] + n \in 1 .. Len(appended[k])
            BY <5>1, <6>1
          <6> QED BY <1>4, <6>2
        <5>4. /\ queue'[k] = queue[k] /\ rpc'.pc = "push" /\ rpc'.kind = k
              /\ appended'[k][Len(appended'[k])] = rpc'.item
              /\ b[k] \in Nat /\ Len(queue[k]) \in Nat
          BY <1>2, <1>3, <1>4, <1>5, <3>1, <3>3
        <5>5. /\ b[k] + Len(queue'[k]) <= Len(appended'[k])
              /\ Len(appended'[k]) = b[k] + Len(queue'[k]) + 1
          BY <5>2, <5>4
        <5>6. \A n \in 1 .. Len(queue'[k]) : queue'[k][n] = appended'[k][b[k] + n]
          BY <5>1, <5>3, <5>4
        <5> QED BY <5>4, <5>5, <5>6 DEF QueueFollows
      <4>2. BatchFollows(k)'
        BY <1>2, <3>1, <3>3 DEF BatchFollows
      <4>3. /\ UNCHANGED Reached(b, k) /\ Reached(b, k) <= Len(appended[k]) /\ Reached(b, k) \in Int
        BY <1>2, <1>5, <1>12, <3>1, <3>3 DEF Reached, QueueFollows
      <4>4. i \notin ToSet(injected)
        <5> SUFFICES ASSUME NEW n \in DOMAIN injected PROVE injected[n] # i
          BY DEF ToSet
        <5> QED BY <1>7 DEF OrderInv, NoGap
      <4>5. ContextHas(b, k)'
        BY <1>2, <1>4, <1>5, <3>1, <3>3, <4>3, <4>4 DEF ContextHas
      <4> QED BY <3>3, <4>1, <4>2, <4>5
    <3> QED BY <3>2, <3>3
  <2> QED BY <2>2 DEF Follows
<1> QED BY <1>2, <1>8, <1>9, <1>10, <1>11 DEF OrderInv
LEMMA OrderKeptByPush ==
  ASSUME QueueInv, OrderInv, PushItem
  PROVE  OrderInv'
<1>0. appended \in [Kinds -> Seq(Items)] /\ queue \in [Kinds -> Seq(Items)]
  BY DEF QueueInv, QueueTypes
<1>1. PICK k \in Kinds, i \in Items : rpc.kind = k /\ rpc.item = i
  BY DEF PushItem, QueueInv, HandlerHolds
<1>2. /\ rpc.pc = "push" /\ queue' = [queue EXCEPT ![k] = Append(@, i)]
      /\ rpc'.pc = "respond" /\ UNCHANGED <<appended, injected, task>>
  <2>1. rpc \in Rpcs
    BY DEF QueueInv, QueueTypes
  <2> QED BY <1>1, <2>1 DEF PushItem, queueJournal, Rpcs
<1>3. (OnceDurable /\ NoRepetition /\ NoGap)'
  BY <1>2 DEF OrderInv, OnceDurable, NoRepetition, NoGap
<1>4. /\ \A j \in Kinds : j # k => queue'[j] = queue[j]
      /\ Len(queue'[k]) = Len(queue[k]) + 1 /\ queue'[k][Len(queue[k]) + 1] = i
      /\ \A p \in 1 .. Len(queue[k]) : queue'[k][p] = queue[k][p]
  BY <1>0, <1>2
<1>5. \A j \in Kinds : Len(appended[j]) \in Nat /\ Len(queue[j]) \in Nat
  BY <1>0
<1>6. task.pc # "inject"
  <2>1. lock # "task"
    BY <1>2 DEF QueueInv, HandlerHolds
  <2> QED BY <2>1 DEF QueueInv, TaskHolds, TaskKinds
<1>7. ASSUME task.pc \in Working PROVE \E b \in [Kinds -> Nat] : Follows(b)'
  <2>1. PICK b \in [Kinds -> Nat] : Follows(b)
    BY <1>7 DEF OrderInv
  <2>2. ASSUME NEW j \in Kinds PROVE (QueueFollows(b, j) /\ BatchFollows(j) /\ ContextHas(b, j))'
    <3>1. QueueFollows(b, j) /\ ContextHas(b, j) /\ b[j] \in Nat
      BY <2>1 DEF Follows
    <3>2. BatchFollows(j)'
      BY <1>2, <1>6 DEF BatchFollows
    <3>3. UNCHANGED Reached(b, j)
      BY <1>2, <1>6 DEF Reached
    <3>4. ContextHas(b, j)'
      BY <1>2, <3>1, <3>3 DEF ContextHas
    <3>5. QueueFollows(b, j)'
      <4>1. CASE j # k
        BY <1>1, <1>2, <1>4, <3>1, <4>1 DEF QueueFollows
      <4>2. CASE j = k
        <5>1. /\ Len(appended[k]) = b[k] + Len(queue[k]) + 1
              /\ appended[k][Len(appended[k])] = i
              /\ \A n \in 1 .. Len(queue[k]) : queue[k][n] = appended[k][b[k] + n]
          BY <1>1, <1>2, <3>1, <4>2 DEF QueueFollows
        <5>2. Len(appended[k]) = b[k] + Len(queue'[k])
          BY <1>4, <1>5, <3>1, <4>2, <5>1
        <5>3. ASSUME NEW n \in 1 .. Len(queue'[k]) PROVE queue'[k][n] = appended[k][b[k] + n]
          <6>1. CASE n = Len(queue[k]) + 1
            <7>1. b[k] + n = Len(appended[k])
              BY <1>5, <3>1, <4>2, <5>1, <6>1
            <7> QED BY <1>4, <5>1, <6>1, <7>1
          <6>2. CASE n # Len(queue[k]) + 1
            <7>1. n \in 1 .. Len(queue[k])
              BY <1>4, <1>5, <6>2
            <7> QED BY <1>4, <5>1, <7>1
          <6> QED BY <6>1, <6>2
        <5>4. b[k] + Len(queue'[k]) <= Len(appended[k])
          BY <1>5, <4>2, <5>2
        <5> QED BY <1>2, <4>2, <5>2, <5>3, <5>4 DEF QueueFollows
      <4> QED BY <4>1, <4>2
    <3> QED BY <3>2, <3>4, <3>5
  <2> QED BY <2>2 DEF Follows
<1> QED BY <1>2, <1>3, <1>7 DEF OrderInv

LEMMA OrderKeptByConsumption ==
  ASSUME QueueInv, OrderInv, PersistConsumption
  PROVE  OrderInv'
<1>0. queue \in [Kinds -> Seq(Items)] /\ task \in Tasks
  BY DEF QueueInv, QueueTypes
<1>1. PICK k \in Kinds : task.kind = k
  BY DEF QueueInv, TaskKinds, PersistConsumption
<1>2. /\ task.pc = "consume" /\ task.taken = Len(queue[k]) /\ task.batch = queue[k]
      /\ task'.pc = "inject" /\ task'.kind = k /\ task'.batch = queue[k]
      /\ task'.taken = Len(queue[k])
      /\ UNCHANGED <<appended, injected, queue, rpc>>
  BY <1>0, <1>1 DEF QueueInv, TaskHolds, PersistConsumption, Untouched, Tasks
<1>3. (OnceDurable /\ NoRepetition /\ NoGap)'
  BY <1>2 DEF OrderInv, OnceDurable, NoRepetition, NoGap
<1>4. PICK b \in [Kinds -> Nat] : Follows(b)
  BY <1>2 DEF OrderInv, Working
<1>5. ASSUME NEW j \in Kinds PROVE (QueueFollows(b, j) /\ BatchFollows(j) /\ ContextHas(b, j))'
  <2>1. QueueFollows(b, j) /\ ContextHas(b, j) /\ b[j] \in Nat /\ Len(queue[j]) \in Nat
    BY <1>0, <1>4 DEF Follows
  <2>2. QueueFollows(b, j)'
    BY <1>2, <2>1 DEF QueueFollows
  <2>3. BatchFollows(j)'
    <3>1. ASSUME j = k, NEW n \in 1 .. Len(queue[k])
          PROVE  Len(queue[k]) - Len(queue[k]) + n = n
      BY <2>1, <3>1
    <3> QED BY <1>2, <2>1, <3>1 DEF BatchFollows
  <2>4. UNCHANGED Reached(b, j)
    BY <1>2, <2>1 DEF Reached
  <2>5. ContextHas(b, j)'
    BY <1>2, <2>1, <2>4 DEF ContextHas
  <2> QED BY <2>2, <2>3, <2>5
<1> QED BY <1>3, <1>4, <1>5 DEF OrderInv, Follows
\* What counting items comes to.
LEMMA NextCount == \A q, l, n \in Nat : q - l + (n + 1) = q - (l - 1) + n
OBVIOUS
LEMMA NextReach ==
  \A x, y, q, a \in Nat : y + 1 \in 1 .. q /\ x + q <= a =>
    x + (y + 1) = (x + y) + 1 /\ x + y \in Nat /\ (x + y) + 1 \in 1 .. a
OBVIOUS
LEMMA Counting ==
  \A x, q, l \in Nat : l # 0 /\ l <= q =>
    /\ q - l \in Nat /\ (q - l) + 1 \in 1 .. q /\ 1 \in 1 .. l
    /\ x + (q - (l - 1)) = (x + (q - l)) + 1
    /\ ~(l > 1) => (x + (q - l)) + 1 = x + q
OBVIOUS

\* The item at hand is the next durable one that the context has not.
LEMMA NextOfBatch ==
  ASSUME QueueInv, OrderInv, NEW k \in Kinds, task.pc = "inject", task.kind = k,
         NEW b \in [Kinds -> Nat], Follows(b)
  PROVE  /\ Reached(b, k) \in Nat /\ Reached(b, k) + 1 \in DOMAIN appended[k]
         /\ appended[k][Reached(b, k) + 1] = Head(task.batch)
         /\ Head(task.batch) \notin ToSet(injected)
<1>1. /\ appended[k] \in Seq(Items) /\ queue[k] \in Seq(Items) /\ task.batch \in Seq(Items)
      /\ task.batch # <<>> /\ task.taken = Len(queue[k])
  BY DEF QueueInv, QueueTypes, Tasks, TaskHolds
<1>0. Len(task.batch) \in Nat \ {0} /\ Len(queue[k]) \in Nat /\ Len(appended[k]) \in Nat
  BY <1>1, ToSetParts
<1>2. /\ Len(task.batch) <= Len(queue[k]) /\ b[k] \in Nat
      /\ \A n \in 1 .. Len(task.batch) :
           task.batch[n] = queue[k][Len(queue[k]) - Len(task.batch) + n]
      /\ b[k] + Len(queue[k]) <= Len(appended[k])
      /\ \A n \in 1 .. Len(queue[k]) : queue[k][n] = appended[k][b[k] + n]
      /\ \A p \in 1 .. Len(appended[k]) : appended[k][p] \in ToSet(injected) <=> p <= Reached(b, k)
  BY <1>1 DEF Follows, BatchFollows, QueueFollows, ContextHas
<1> DEFINE t == Len(queue[k]) - Len(task.batch)
<1>3. /\ t \in Nat /\ t + 1 \in 1 .. Len(queue[k]) /\ Reached(b, k) = b[k] + t
      /\ Head(task.batch) = task.batch[1] /\ 1 \in 1 .. Len(task.batch)
  <2>1. Reached(b, k) = b[k] + t
    BY <1>1 DEF Reached
  <2>2. Head(task.batch) = task.batch[1]
    BY <1>1
  <2> QED BY <1>0, <1>2, <2>1, <2>2, Counting
<1>4. task.batch[1] = queue[k][t + 1]
  BY <1>2, <1>3
<1> HIDE DEF t
<1>5. b[k] + (t + 1) = Reached(b, k) + 1 /\ Reached(b, k) \in Nat
      /\ Reached(b, k) + 1 \in 1 .. Len(appended[k])
  <2>1. /\ b[k] + (t + 1) = (b[k] + t) + 1 /\ b[k] + t \in Nat
        /\ (b[k] + t) + 1 \in 1 .. Len(appended[k])
    BY <1>0, <1>2, <1>3, NextReach, Zenon
  <2> QED BY <1>3, <2>1, Zenon
<1>6. appended[k][Reached(b, k) + 1] = Head(task.batch)
  BY <1>2, <1>3, <1>4, <1>5
<1>7. ~(Reached(b, k) + 1 <= Reached(b, k))
  BY <1>5
<1>8. Head(task.batch) \notin ToSet(injected)
  BY <1>2, <1>5, <1>6, <1>7
<1> QED BY <1>1, <1>5, <1>6, <1>8

LEMMA OrderKeptByMessage ==
  ASSUME QueueInv, OrderInv, PersistMessage
  PROVE  OrderInv'
<1>0. /\ queue \in [Kinds -> Seq(Items)] /\ appended \in [Kinds -> Seq(Items)] /\ task \in Tasks
      /\ injected \in Seq(Items)
  BY DEF QueueInv, QueueTypes
<1>1. PICK k \in Kinds : task.kind = k
  BY DEF QueueInv, TaskKinds, PersistMessage
<1> DEFINE x == Head(task.batch)
<1>2. /\ task.pc = "inject" /\ lock = "task" /\ task.batch # <<>> /\ task.taken = Len(queue[k])
      /\ injected' = Append(injected, x) /\ UNCHANGED <<appended, rpc>> /\ rpc.pc # "push"
      /\ task.batch \in Seq(Items)
  BY <1>0, <1>1 DEF QueueInv, TaskHolds, HandlerHolds, PersistMessage, Untouched, Tasks
<1>3. PICK b \in [Kinds -> Nat] : Follows(b)
  BY <1>2 DEF OrderInv, Working
<1> DEFINE r == Reached(b, k)
<1>4. r \in Nat /\ r + 1 \in DOMAIN appended[k] /\ appended[k][r + 1] = x /\ x \notin ToSet(injected)
  BY <1>1, <1>2, <1>3, NextOfBatch
<1>5. x \in Items
  BY <1>0, <1>4
<1> HIDE DEF x, r
<1>6. /\ DOMAIN injected = 1 .. Len(injected) /\ Len(injected) \in Nat
      /\ DOMAIN injected' = 1 .. Len(injected) + 1 /\ injected'[Len(injected) + 1] = x
      /\ \A n \in 1 .. Len(injected) : injected'[n] = injected[n]
      /\ ToSet(injected') = ToSet(injected) \cup {x}
  BY <1>0, <1>2, <1>5, ToSetAppend
<1>7. \A n \in DOMAIN injected : injected[n] # x
  BY <1>4 DEF ToSet
<1>8. OnceDurable'
  BY <1>2 DEF OrderInv, OnceDurable
<1>9. NoRepetition'
  <2> SUFFICES ASSUME NEW m \in DOMAIN injected', NEW n \in DOMAIN injected',
                      injected'[m] = injected'[n]
               PROVE  m = n
    BY DEF NoRepetition
  <2>1. m \in DOMAIN injected \/ m = Len(injected) + 1
    BY <1>6
  <2>2. n \in DOMAIN injected \/ n = Len(injected) + 1
    BY <1>6
  <2>3. NoRepetition
    BY DEF OrderInv
  <2> QED BY <1>6, <1>7, <2>1, <2>2, <2>3 DEF NoRepetition
<1>10. \A q \in 1 .. Len(appended[k]) : appended[k][q] \in ToSet(injected) <=> q <= r
  BY <1>3 DEF Follows, ContextHas, r
<1>11. NoGap'
  <2> SUFFICES ASSUME NEW n \in DOMAIN injected'
               PROVE  \E j \in Kinds : \E p \in DOMAIN appended[j] :
                        /\ injected'[n] = appended[j][p]
                        /\ \A q \in 1 .. p - 1 : \E m \in 1 .. n - 1 : injected'[m] = appended[j][q]
    BY <1>2 DEF NoGap
  <2>1. CASE n \in DOMAIN injected
    <3>1. PICK j \in Kinds : \E p \in DOMAIN appended[j] :
            /\ injected[n] = appended[j][p]
            /\ \A q \in 1 .. p - 1 : \E m \in 1 .. n - 1 : injected[m] = appended[j][q]
      BY <2>1 DEF OrderInv, NoGap
    <3>2. PICK p \in DOMAIN appended[j] :
            /\ injected[n] = appended[j][p]
            /\ \A q \in 1 .. p - 1 : \E m \in 1 .. n - 1 : injected[m] = appended[j][q]
      BY <3>1
    <3>3. \A m \in 1 .. n - 1 : injected'[m] = injected[m]
      BY <1>6, <2>1
    <3>4. injected'[n] = appended[j][p]
      BY <1>6, <2>1, <3>2
    <3> QED BY <3>2, <3>3, <3>4
  <2>2. CASE n = Len(injected) + 1
    <3>1. ASSUME NEW q \in 1 .. (r + 1) - 1
          PROVE  \E m \in 1 .. n - 1 : injected'[m] = appended[k][q]
      <4>1. q \in 1 .. Len(appended[k]) /\ q <= r
        BY <1>0, <1>4
      <4>2. PICK m \in DOMAIN injected : injected[m] = appended[k][q]
        BY <1>10, <4>1 DEF ToSet
      <4>3. m \in 1 .. n - 1
        BY <1>6, <2>2
      <4> QED BY <1>6, <4>2, <4>3
    <3> QED BY <1>4, <1>6, <2>2, <3>1
  <2> QED BY <1>6, <2>1, <2>2
<1>12. \A j \in Kinds : \A p \in 1 .. Len(appended[j]) :
         appended[j][p] = x <=> j = k /\ p = r + 1
  BY <1>0, <1>4 DEF OrderInv, OnceDurable
<1>13. \A j \in Kinds : \A p \in 1 .. Len(appended[j]) :
         appended[j][p] \in ToSet(injected') <=> p <= (IF j = k THEN r + 1 ELSE Reached(b, j))
  <2> SUFFICES ASSUME NEW j \in Kinds, NEW p \in 1 .. Len(appended[j])
               PROVE  appended[j][p] \in ToSet(injected')
                        <=> p <= (IF j = k THEN r + 1 ELSE Reached(b, j))
    OBVIOUS
  <2>1. appended[j][p] \in ToSet(injected) <=> p <= Reached(b, j)
    BY <1>3 DEF Follows, ContextHas
  <2>2. CASE j # k
    BY <1>6, <1>12, <2>1, <2>2
  <2>3. CASE j = k
    <3>1. appended[k][p] \in ToSet(injected') <=> p <= r \/ p = r + 1
      BY <1>6, <1>10, <1>12, <2>3
    <3>2. Len(appended[k]) \in Nat
      BY <1>0
    <3>3. p <= r \/ p = r + 1 <=> p <= r + 1
      BY <1>4, <2>3, <3>2
    <3> QED BY <2>3, <3>1, <3>3
  <2> QED BY <2>2, <2>3
<1>14. \A j \in Kinds : QueueFollows(b, j) /\ BatchFollows(j) /\ b[j] \in Nat
  BY <1>3 DEF Follows
<1>15. /\ Len(task.batch) \in Nat \ {0} /\ Len(task.batch) <= Len(queue[k]) /\ Len(queue[k]) \in Nat
       /\ r = b[k] + (Len(queue[k]) - Len(task.batch)) /\ b[k] \in Nat
  <2>1. Len(task.batch) \in Nat \ {0}
    BY <1>2, ToSetParts
  <2>2. queue[k] \in Seq(Items)
    BY <1>0
  <2>3. Len(task.batch) <= Len(queue[k]) /\ b[k] \in Nat
    BY <1>1, <1>2, <1>14 DEF BatchFollows
  <2>4. r = b[k] + (Len(queue[k]) - Len(task.batch))
    BY <1>1, <1>2 DEF Reached, r
  <2> QED BY <2>1, <2>2, <2>3, <2>4
<1>16. CASE Len(task.batch) > 1
  <2>1. /\ task'.pc = "inject" /\ task'.kind = k /\ task'.taken = task.taken
        /\ task'.batch = Tail(task.batch) /\ UNCHANGED queue
    BY <1>0, <1>1, <1>2, <1>16 DEF PersistMessage, Tasks
  <2>2. /\ Len(Tail(task.batch)) = Len(task.batch) - 1
        /\ \A n \in 1 .. Len(task.batch) - 1 : Tail(task.batch)[n] = task.batch[n + 1]
    BY <1>2
  <2>3. ASSUME NEW j \in Kinds PROVE (QueueFollows(b, j) /\ BatchFollows(j) /\ ContextHas(b, j))'
    <3>1. QueueFollows(b, j)'
      BY <1>2, <1>14, <2>1 DEF QueueFollows
    <3>2. BatchFollows(j)'
      <4>1. ASSUME j = k, NEW n \in 1 .. Len(task.batch) - 1
            PROVE  Tail(task.batch)[n] = queue[k][Len(queue[k]) - (Len(task.batch) - 1) + n]
        <5>1. /\ task.batch[n + 1] = queue[k][Len(queue[k]) - Len(task.batch) + (n + 1)]
              /\ Len(queue[k]) - Len(task.batch) + (n + 1) = Len(queue[k]) - (Len(task.batch) - 1) + n
          <6>1. n + 1 \in 1 .. Len(task.batch)
            BY <1>15
          <6>2. \A m \in 1 .. Len(task.batch) :
                  task.batch[m] = queue[k][Len(queue[k]) - Len(task.batch) + m]
            BY <1>1, <1>2, <1>14 DEF BatchFollows
          <6>3. Len(queue[k]) - Len(task.batch) + (n + 1) = Len(queue[k]) - (Len(task.batch) - 1) + n
            <7>1. n \in Nat /\ Len(task.batch) \in Nat
              BY <1>15
            <7> QED BY <1>15, <7>1, NextCount, Zenon
          <6> QED BY <6>1, <6>2, <6>3
        <5> QED BY <2>2, <5>1
      <4>2. j = k => Len(task.batch) - 1 <= Len(queue[k])
        BY <1>15
      <4> QED BY <2>1, <2>2, <4>1, <4>2 DEF BatchFollows
    <3>3. Reached(b, j)' = IF j = k THEN r + 1 ELSE Reached(b, j)
      <4>1. CASE j # k
        BY <1>1, <2>1, <4>1 DEF Reached
      <4>2. CASE j = k
        <5>1. Reached(b, k)' = b[k] + (Len(queue[k]) - (Len(task.batch) - 1))
          BY <1>2, <2>1, <2>2 DEF Reached
        <5>2. b[k] + (Len(queue[k]) - (Len(task.batch) - 1)) = r + 1
          <6>1. Len(task.batch) \in Nat /\ Len(task.batch) # 0
            BY <1>15
          <6> QED BY <1>15, <6>1, Counting, Zenon
        <5> QED BY <4>2, <5>1, <5>2
      <4> QED BY <4>1, <4>2
    <3>4. ContextHas(b, j)'
      BY <1>2, <1>13, <3>3 DEF ContextHas
    <3> QED BY <3>1, <3>2, <3>4
  <2> QED BY <1>8, <1>9, <1>11, <2>3 DEF OrderInv, Follows
<1>17. CASE ~(Len(task.batch) > 1)
  <2>1. /\ task' = [NewTask EXCEPT !.turns = task.turns]
        /\ queue' = [queue EXCEPT ![k] = SubSeq(@, task.taken + 1, Len(@))]
    BY <1>1, <1>17 DEF PersistMessage
  <2>2. task'.pc = "turn" /\ task'.pc # "inject"
    BY <2>1 DEF NewTask
  <2>3. /\ queue'[k] = SubSeq(queue[k], Len(queue[k]) + 1, Len(queue[k]))
        /\ \A j \in Kinds : j # k => queue'[j] = queue[j]
    BY <1>0, <1>2, <2>1
  <2>4. Len(queue'[k]) = 0
    BY <1>0, <1>15, <2>3
  <2>5. PICK c \in [Kinds -> Nat] : /\ c[k] = b[k] + Len(queue[k])
                                   /\ \A j \in Kinds : j # k => c[j] = b[j]
    <3> DEFINE c == [j \in Kinds |-> IF j = k THEN b[k] + Len(queue[k]) ELSE b[j]]
    <3>1. c \in [Kinds -> Nat]
      BY <1>14, <1>15
    <3> QED BY <3>1
  <2>6. r + 1 = c[k]
    <3>1. Len(task.batch) \in Nat /\ Len(task.batch) # 0
      BY <1>15
    <3> QED BY <1>15, <1>17, <2>5, <3>1, Counting, Zenon
  <2>7. ASSUME NEW j \in Kinds PROVE (QueueFollows(c, j) /\ BatchFollows(j) /\ ContextHas(c, j))'
    <3>1. QueueFollows(c, j)'
      <4>1. CASE j # k
        <5>1. QueueFollows(b, j) /\ queue'[j] = queue[j] /\ c[j] = b[j]
          BY <1>14, <2>3, <2>5, <4>1
        <5> QED BY <1>2, <5>1 DEF QueueFollows
      <4>2. CASE j = k
        <5>1. /\ b[k] + Len(queue[k]) <= Len(appended[k])
              /\ rpc.pc # "gone" => Len(appended[k]) = b[k] + Len(queue[k])
          BY <1>2, <1>14 DEF QueueFollows
        <5>2. c[k] + 0 = b[k] + Len(queue[k])
          BY <1>14, <1>15, <2>5
        <5> QED BY <1>2, <2>4, <4>2, <5>1, <5>2 DEF QueueFollows
      <4> QED BY <4>1, <4>2
    <3>2. BatchFollows(j)'
      BY <2>2 DEF BatchFollows
    <3>3. Reached(c, j)' = IF j = k THEN r + 1 ELSE Reached(b, j)
      BY <1>1, <1>14, <2>2, <2>5, <2>6 DEF Reached
    <3>4. ContextHas(c, j)'
      BY <1>2, <1>13, <3>3 DEF ContextHas
    <3> QED BY <3>1, <3>2, <3>4
  <2> QED BY <1>8, <1>9, <1>11, <2>5, <2>7 DEF OrderInv, Follows
<1> QED BY <1>16, <1>17

LEMMA OrderKept == QueueInv /\ OrderInv /\ [QueueNext]_queueVars => OrderInv'
<1> SUFFICES ASSUME QueueInv, OrderInv, [QueueNext]_queueVars PROVE OrderInv'
  OBVIOUS
<1>0. task \in Tasks /\ rpc \in Rpcs
  BY DEF QueueInv, QueueTypes
<1>1. CASE Respond \/ DropHandler \/ NoteCancel \/ StopAccepting \/ FireToken
  <2>1. /\ UNCHANGED <<appended, injected, queue, task>>
        /\ \/ rpc'.pc = "gone"
           \/ rpc.pc \notin {"push", "gone"} /\ rpc'.pc \notin {"push", "gone"}
    BY <1>1 DEF Respond, DropHandler, NoteCancel, StopAccepting, FireToken, Handler, queueJournal
  <2>2. task'.pc \in Working => task.pc \in Working
    BY <2>1
  <2> QED BY <2>1, <2>2, OrderUntouched
<1>2. CASE Turn \/ DrainQueue \/ DrainCompletionQueue
  <2>1. /\ UNCHANGED <<appended, injected, queue, rpc>>
        /\ task.pc \in {"turn", "boundary", "completion"} /\ task'.pc # "inject"
    BY <1>0, <1>2 DEF Turn, DrainQueue, DrainCompletionQueue, Untouched, Select, EndTask, NewTask, Tasks
  <2>2. task.pc \in Working /\ task.pc # "inject"
    BY <2>1 DEF Working
  <2> QED BY <2>1, <2>2, OrderUntouched
<1>3. CASE FaultDrain \/ CloseQueues \/ LoseMemory
  <2>1. UNCHANGED <<appended, injected>> /\ task'.pc \in {"close", "ended"}
    BY <1>0, <1>3 DEF FaultDrain, CloseQueues, LoseMemory, Untouched, EndTask, NewTask, queueJournal, Tasks
  <2>2. task'.pc \notin Working
    BY <2>1 DEF Working
  <2> QED BY <2>1, <2>2, OrderUntouched
<1>4. CASE UNCHANGED queueVars
  BY <1>4, OrderUntouched DEF queueVars
<1> QED BY <1>1, <1>2, <1>3, <1>4, OrderKeptByEnqueue, OrderKeptByPush, OrderKeptByConsumption,
           OrderKeptByMessage DEF QueueNext

(* Whatever requests, drains, cancellations, failed appends and crashes meet, *)
(* the context takes each queue's input in the order it was made durable,     *)
(* none left out before a later one, none twice, and none that was not        *)
(* consumed durably before; and a run that completes has taken up all that it *)
(* acknowledged (agent.rs, Agent::enqueue, drain_queue).                      *)
THEOREM QueuesStayOrdered == QueueSpec => []QueuesKeepOrder
<1>1. QueueInv /\ OrderInv => QueuesKeepOrder
  BY DEF QueueInv, OrderInv, InjectedTaken, CompletionOwesNothing, Promised, CompletedTakesAll, Fifo,
     QueuesKeepOrder
<1>2. QueueInv /\ OrderInv /\ [QueueNext]_queueVars => QueueInv' /\ OrderInv'
  BY QueueKept, OrderKept
<1>3. QueueInit => QueueInv /\ OrderInv
  BY QueueHoldsAtStart, OrderHoldsAtStart
<1> QED BY <1>1, <1>2, <1>3, PTL DEF QueueSpec

-----------------------------------------------------------------------------
(* The directories of the sessions. The coordination lease of an ID and    *)
(* the lifecycle lock divide the work: who writes, or deletes, has the     *)
(* first, who moves a directory or edits the archive document the second.  *)

Claims == Procs \cup {None, Dead}
Dirs == [inc : Nat, journal : BOOLEAN, claim : Claims, lock : Procs \cup {None}]
InCoordination == {"tombstone", "mkdir", "claim", "lock", "header", "writing"}
InLifecycle == {"look", "list", "resolve", "session", "presence", "read", "publish", "retire", "unlist", "purge"}
Places == InCoordination \cup InLifecycle \cup {"idle", "coordinate", "lifecycle", "stage", "rename"}
Ops == {"none", "create", "open", "delete", "archive", "restore", "list", "import"}
Jobs == [pc : Places, op : Ops, sid : Sessions \cup {None}, inc : Nat, doc : SUBSET Sessions]

LifecycleTypes ==
  /\ home \in [Sessions -> Dirs] /\ tomb \in [Sessions -> Dirs] /\ archive \subseteq Sessions
  /\ coord \in [Sessions -> Procs \cup {None}] /\ life \in Procs \cup {None}
  /\ proc \in [Procs -> Jobs] /\ dirs \in Nat

\* What process p has in hand at its place: the leases it holds, the directory
\* it opened, and that the document it read is the one that is published.
JobSound(t, p, h, c, l, a) ==
  /\ t.pc # "idle" => t.sid \in Sessions
  /\ t.pc \in InCoordination \/ (t.op = "delete" /\ t.pc \in InLifecycle \cup {"lifecycle"}) => c[t.sid] = p
  /\ t.pc \in InLifecycle => l = p
  /\ t.pc \in {"look", "retire", "unlist", "purge"} => t.op = "delete"
  /\ t.pc \in {"lock", "header", "writing", "presence", "read", "publish", "retire"} => Exists(h[t.sid])
  /\ t.pc \in {"header", "writing"} => h[t.sid].inc = t.inc /\ h[t.sid].lock = p
  /\ t.pc = "publish" => t.doc = a
  /\ t.pc = "purge" => t.sid \notin a
JobsSound == \A p \in Procs : JobSound(proc[p], p, home, coord, life, archive)

LifecycleInv == LifecycleTypes /\ JobsSound /\ ArchivedHasHome

\* What a step of p may do to what others have in hand: it moves a directory
\* with both leases only, makes one where there is none, locks what is free.
Spares(p) ==
  /\ \A s \in Sessions : \/ home'[s].inc = home[s].inc \/ ~Exists(home[s])
                         \/ coord[s] = p /\ life = p
  /\ \A s \in Sessions : \/ home'[s].lock = home[s].lock \/ home[s].lock \in {None, p}
                         \/ ~Exists(home[s]) \/ coord[s] = p
  /\ \A s \in Sessions : coord'[s] = coord[s] \/ coord[s] \in {None, p}
  /\ life' = life \/ life \in {None, p}
  /\ archive' = archive \/ life = p

LEMMA ProcessMoves ==
  ASSUME LifecycleInv, NEW p \in Procs, NEW t \in Jobs, proc' = [proc EXCEPT ![p] = t],
         home' \in [Sessions -> Dirs], tomb' \in [Sessions -> Dirs], archive' \subseteq Sessions,
         coord' \in [Sessions -> Procs \cup {None}], life' \in Procs \cup {None}, dirs' \in Nat,
         Spares(p), JobSound(t, p, home', coord', life', archive'), ArchivedHasHome'
  PROVE  LifecycleInv'
<1>1. LifecycleTypes'
  BY DEF LifecycleInv, LifecycleTypes
<1>2. ASSUME NEW q \in Procs PROVE JobSound(proc'[q], q, home', coord', life', archive')
  <2>1. CASE q = p
    BY <2>1 DEF LifecycleInv, LifecycleTypes
  <2>2. CASE q # p
    <3> DEFINE u == proc[q]
    <3>1. proc'[q] = u /\ JobSound(u, q, home, coord, life, archive) /\ q # None
      BY <2>2, LifecycleAssumption DEF LifecycleInv, LifecycleTypes, JobsSound
    <3> HIDE DEF u
    <3>2. u.pc \in InLifecycle => life' = q /\ archive' = archive
      BY <2>2, <3>1 DEF JobSound, Spares
    <3>3. ASSUME u.sid \in Sessions, coord[u.sid] = q
          PROVE  coord'[u.sid] = q
      BY <2>2, <3>1, <3>3 DEF Spares
    <3>4. ASSUME u.sid \in Sessions, Exists(home[u.sid]), coord[u.sid] = q \/ life = q
          PROVE  home'[u.sid].inc = home[u.sid].inc
      BY <2>2, <3>4 DEF Spares
    <3>5. ASSUME u.pc \in {"header", "writing"}
          PROVE  home'[u.sid].lock = q
      BY <2>2, <3>1, <3>5 DEF JobSound, Spares, InCoordination
    <3>6. u.pc \in {"lock", "header", "writing", "presence", "read", "publish", "retire"} => Exists(home'[u.sid])
      BY <3>1, <3>4 DEF JobSound, Exists, InCoordination, InLifecycle
    <3>7. JobSound(u, q, home', coord', life', archive')
      BY <3>1, <3>2, <3>3, <3>4, <3>5, <3>6 DEF JobSound, InCoordination, InLifecycle
    <3> QED BY <3>1, <3>7
  <2> QED BY <2>1, <2>2
<1> QED BY <1>1, <1>2 DEF LifecycleInv, JobsSound

LEMMA JobFacts ==
  ASSUME LifecycleInv, NEW p \in Procs
  PROVE  /\ proc[p] \in Jobs /\ JobSound(proc[p], p, home, coord, life, archive) /\ p # None
         /\ proc[p].pc # "idle" => Sid(p) \in Sessions /\ home[Sid(p)] \in Dirs /\ tomb[Sid(p)] \in Dirs
         /\ LifecycleTypes /\ ArchivedHasHome
  BY LifecycleAssumption DEF LifecycleInv, LifecycleTypes, JobsSound, JobSound, Sid

\* What is left of a directory when p lets go of it.
LEMMA FreedFacts ==
  ASSUME NEW d \in Dirs, NEW p \in Procs, NEW claim \in {None, Dead}
  PROVE  /\ Freed(d, p, claim) \in Dirs /\ Freed(d, p, claim).inc = d.inc
         /\ (Freed(d, p, claim).lock = d.lock \/ d.lock = p)
<1> DEFINE half == [d EXCEPT !.claim = IF @ = p THEN claim ELSE @]
<1>1. half \in Dirs /\ half.inc = d.inc /\ half.lock = d.lock
  BY DEF Dirs, Claims
<1>2. Freed(d, p, claim) = [half EXCEPT !.lock = IF @ = p THEN None ELSE @]
  BY DEF Freed
<1> HIDE DEF half
<1> QED BY <1>1, <1>2 DEF Dirs

\* The operation ends, with its answer, an error, or the process.
LEMMA LeaveKeeps ==
  ASSUME LifecycleInv, NEW p \in Procs, NEW claim \in {None, Dead}, Leave(p, claim),
         archive' \subseteq Sessions, archive' = archive \/ life = p,
         \A s \in archive' : Exists(home[s]) \/ Exists(tomb[s]), dirs' \in Nat
  PROVE  LifecycleInv'
<1>1. LifecycleTypes /\ p # None
  BY JobFacts
<1>2. \A d \in Dirs : /\ Freed(d, p, claim) \in Dirs /\ Freed(d, p, claim).inc = d.inc
                     /\ (Freed(d, p, claim).lock = d.lock \/ d.lock = p)
  BY FreedFacts
<1>3. \A s \in Sessions : /\ home'[s] = Freed(home[s], p, claim) /\ tomb'[s] = Freed(tomb[s], p, claim)
                          /\ home[s] \in Dirs /\ tomb[s] \in Dirs
  BY <1>1 DEF Leave, LifecycleTypes
<1>4. home' \in [Sessions -> Dirs] /\ tomb' \in [Sessions -> Dirs]
  BY <1>1, <1>2 DEF Leave, LifecycleTypes
<1>5. coord' \in [Sessions -> Procs \cup {None}] /\ life' \in Procs \cup {None}
  BY <1>1 DEF Leave, LifecycleTypes
<1>6. Idle \in Jobs /\ proc' = [proc EXCEPT ![p] = Idle]
  BY DEF Leave, Idle, Jobs, Places, Ops
<1>7. Spares(p)
  BY <1>2, <1>3 DEF Leave, Spares
<1>8. JobSound(Idle, p, home', coord', life', archive')
  BY DEF JobSound, Idle, InCoordination, InLifecycle
<1>9. ArchivedHasHome'
  BY <1>2, <1>3 DEF ArchivedHasHome, Exists
<1> QED BY <1>4, <1>5, <1>6, <1>7, <1>8, <1>9, ProcessMoves

LEMMA QuitKeeps ==
  ASSUME LifecycleInv, NEW p \in Procs, Quit(p), UNCHANGED dirs
  PROVE  LifecycleInv'
  BY JobFacts, LeaveKeeps DEF Quit, LifecycleTypes, ArchivedHasHome

\* The operation goes on, nothing else changes.
LEMMA GoKeeps ==
  ASSUME LifecycleInv, NEW p \in Procs, NEW place \in Places, Goto(p, place), Stays, UNCHANGED dirs,
         proc[p].pc # "idle",
         JobSound([proc[p] EXCEPT !.pc = place], p, home, coord, life, archive)
  PROVE  LifecycleInv'
<1> DEFINE t == [proc[p] EXCEPT !.pc = place]
<1>1. t \in Jobs
  BY JobFacts DEF Jobs
<1>2. proc' = [proc EXCEPT ![p] = t]
  BY DEF Goto
<1>3. Spares(p) /\ ArchivedHasHome'
  BY JobFacts DEF Spares, Stays, ArchivedHasHome
<1> HIDE DEF t
<1>4. JobSound(t, p, home', coord', life', archive')
  BY DEF Stays, t
<1> QED BY <1>1, <1>2, <1>3, <1>4, JobFacts, ProcessMoves DEF Stays, LifecycleTypes

\* Its place in hand, its other fields as they were.
LEMMA Moved ==
  ASSUME NEW t \in Jobs, NEW place \in Places
  PROVE  /\ [t EXCEPT !.pc = place] \in Jobs
         /\ [t EXCEPT !.pc = place].pc = place /\ [t EXCEPT !.pc = place].op = t.op
         /\ [t EXCEPT !.pc = place].sid = t.sid /\ [t EXCEPT !.pc = place].inc = t.inc
         /\ [t EXCEPT !.pc = place].doc = t.doc
BY DEF Jobs

\* The operation goes on, with a change of one directory.
LEMMA DirectoryKeeps ==
  ASSUME LifecycleInv, NEW p \in Procs, NEW t \in Jobs, proc' = [proc EXCEPT ![p] = t],
         NEW s \in Sessions, NEW d \in Dirs, home' = [home EXCEPT ![s] = d], Exists(d),
         UNCHANGED <<tomb, archive, life>>, dirs' \in Nat,
         coord' = coord \/ (coord[s] = p /\ coord' = [coord EXCEPT ![s] = None]),
         d.inc = home[s].inc \/ ~Exists(home[s]),
         d.lock = home[s].lock \/ home[s].lock \in {None, p} \/ ~Exists(home[s]),
         JobSound(t, p, home', coord', life', archive')
  PROVE  LifecycleInv'
<1>1. LifecycleTypes /\ ArchivedHasHome
  BY JobFacts
<1>2. home'[s] = d /\ \A r \in Sessions : r # s => home'[r] = home[r]
  BY <1>1 DEF LifecycleTypes
<1>3. home' \in [Sessions -> Dirs] /\ tomb' \in [Sessions -> Dirs] /\ archive' \subseteq Sessions
      /\ coord' \in [Sessions -> Procs \cup {None}] /\ life' \in Procs \cup {None}
  BY <1>1 DEF LifecycleTypes
<1>4. \A r \in Sessions : coord'[r] = coord[r] \/ coord[r] \in {None, p}
  BY <1>1 DEF LifecycleTypes
<1>5. Spares(p)
  BY <1>2, <1>4 DEF Spares
<1>6. ArchivedHasHome'
  BY <1>1, <1>2 DEF ArchivedHasHome, LifecycleTypes
<1> QED BY <1>3, <1>5, <1>6, ProcessMoves

-----------------------------------------------------------------------------
(* Opening.                                                                *)

LEMMA TakeCoordinationKeeps ==
  ASSUME LifecycleInv, NEW p \in Procs, TakeCoordination(p)
  PROVE  LifecycleInv'
<1>1. CASE coord[Sid(p)] # None
  BY <1>1, QuitKeeps DEF TakeCoordination, Bounds
<1>2. CASE coord[Sid(p)] = None
  <2> DEFINE place == IF Op(p) = "delete" THEN "lifecycle" ELSE "tombstone"
             t == [proc[p] EXCEPT !.pc = place]
  <2>0. LifecycleTypes /\ ArchivedHasHome /\ proc[p] \in Jobs /\ Sid(p) \in Sessions /\ place \in Places
    BY JobFacts DEF TakeCoordination, At_, Places, InCoordination
  <2>1. t \in Jobs /\ t.pc = place /\ t.op = Op(p) /\ t.sid = Sid(p)
    BY <2>0, Moved DEF Op, Sid
  <2>2. proc' = [proc EXCEPT ![p] = t] /\ coord' = [coord EXCEPT ![Sid(p)] = p]
        /\ UNCHANGED <<home, tomb, archive, life, dirs>>
    BY <1>2 DEF TakeCoordination, Goto, Bounds
  <2>3. Spares(p)
    BY <1>2, <2>0, <2>2 DEF Spares, LifecycleTypes
  <2>4. coord'[Sid(p)] = p /\ coord' \in [Sessions -> Procs \cup {None}]
    BY <2>0, <2>2 DEF LifecycleTypes
  <2>5. ArchivedHasHome'
    BY <2>0, <2>2 DEF ArchivedHasHome
  <2> HIDE DEF t
  <2>6. JobSound(t, p, home', coord', life', archive')
    BY <2>0, <2>1, <2>4 DEF JobSound, InLifecycle, InCoordination
  <2> QED BY <2>0, <2>1, <2>2, <2>3, <2>4, <2>5, <2>6, ProcessMoves DEF LifecycleTypes
<1> QED BY <1>1, <1>2

LEMMA CheckTombstoneKeeps ==
  ASSUME LifecycleInv, NEW p \in Procs, CheckTombstone(p)
  PROVE  LifecycleInv'
<1> DEFINE place == IF Op(p) = "create" THEN "mkdir" ELSE "claim"
           t == [proc[p] EXCEPT !.pc = place]
<1>1. CASE Exists(tomb[Sid(p)])
  BY <1>1, QuitKeeps DEF CheckTombstone, Bounds
<1>2. CASE Goto(p, place) /\ Stays
  <2>1. place \in Places /\ t.pc = place /\ t.op = Op(p) /\ t.sid = Sid(p)
    BY JobFacts, Moved DEF Places, InCoordination, Op, Sid
  <2>2. proc[p].pc = "tombstone" /\ JobSound(proc[p], p, home, coord, life, archive)
    BY JobFacts DEF CheckTombstone, At_
  <2>3. JobSound(t, p, home, coord, life, archive)
    <3> HIDE DEF t
    <3> QED BY <2>1, <2>2 DEF JobSound, InCoordination, InLifecycle, Op, Sid
  <2> QED BY <1>2, <2>1, <2>2, <2>3, GoKeeps DEF CheckTombstone, Bounds
<1> QED BY <1>1, <1>2 DEF CheckTombstone

LEMMA NewDirMakes ==
  ASSUME LifecycleInv, NEW s \in Sessions, NEW journal \in BOOLEAN, NewDir(s, journal)
  PROVE  \E d \in Dirs : home' = [home EXCEPT ![s] = d] /\ Exists(d) /\ dirs' \in Nat
<1> DEFINE half == [NoDir EXCEPT !.inc = dirs + 1]
           new == [half EXCEPT !.journal = journal]
<1>1. dirs \in Nat /\ NoDir \in Dirs
  BY DEF LifecycleInv, LifecycleTypes, NoDir, Dirs, Claims
<1>2. home' = [home EXCEPT ![s] = new] /\ dirs' = dirs + 1
  BY DEF NewDir
<1>3. half \in Dirs /\ half.inc = dirs + 1
  BY <1>1 DEF Dirs
<1> HIDE DEF half
<1>4. new \in Dirs /\ new.inc = dirs + 1
  BY <1>3 DEF Dirs
<1> HIDE DEF new
<1>5. home' = [home EXCEPT ![s] = new] /\ Exists(new) /\ dirs' \in Nat
  BY <1>1, <1>2, <1>4 DEF Exists
<1> QED BY <1>4, <1>5, Zenon

LEMMA MakeDirectoryKeeps ==
  ASSUME LifecycleInv, NEW p \in Procs, MakeDirectory(p)
  PROVE  LifecycleInv'
<1> DEFINE t == [proc[p] EXCEPT !.pc = "claim"]
<1>0. "claim" \in Places
  BY DEF Places, InCoordination
<1>1. proc[p] \in Jobs /\ Sid(p) \in Sessions /\ proc[p].pc = "mkdir" /\ LifecycleTypes
      /\ JobSound(proc[p], p, home, coord, life, archive)
  BY JobFacts DEF MakeDirectory, At_
<1>2. t \in Jobs /\ t.pc = "claim" /\ t.op = Op(p) /\ t.sid = Sid(p)
  BY <1>0, <1>1, Moved DEF Op, Sid
<1>3. CASE Goto(p, "claim") /\ Stays /\ UNCHANGED dirs
  <2>1. JobSound(t, p, home, coord, life, archive)
    <3> HIDE DEF t
    <3> QED BY <1>1, <1>2 DEF JobSound, InCoordination, InLifecycle, Op, Sid
  <2> QED BY <1>0, <1>1, <1>3, <2>1, GoKeeps
<1>4. CASE /\ ~Exists(home[Sid(p)]) /\ NewDir(Sid(p), FALSE) /\ Goto(p, "claim")
           /\ UNCHANGED <<tomb, archive, coord, life>>
  <2>1. PICK d \in Dirs : /\ home' = [home EXCEPT ![Sid(p)] = d] /\ Exists(d)
                          /\ dirs' \in Nat
    BY <1>1, <1>4, NewDirMakes
  <2>2. proc' = [proc EXCEPT ![p] = t]
    BY <1>4 DEF Goto
  <2>3. JobSound(t, p, home', coord', life', archive')
    <3> HIDE DEF t
    <3> QED BY <1>1, <1>2, <1>4 DEF JobSound, InCoordination, InLifecycle, Op, Sid
  <2> HIDE DEF t
  <2> QED BY <1>1, <1>2, <1>4, <2>1, <2>2, <2>3, DirectoryKeeps
<1>5. CASE Quit(p) /\ UNCHANGED dirs
  BY <1>5, QuitKeeps
<1> QED BY <1>3, <1>4, <1>5 DEF MakeDirectory

LEMMA TakeClaimKeeps ==
  ASSUME LifecycleInv, NEW p \in Procs, TakeClaim(p)
  PROVE  LifecycleInv'
<1> DEFINE t == [proc[p] EXCEPT !.pc = "lock"]
           d == [home[Sid(p)] EXCEPT !.claim = p]
<1>0. "lock" \in Places
  BY DEF Places, InCoordination
<1>1. /\ proc[p] \in Jobs /\ Sid(p) \in Sessions /\ proc[p].pc = "claim" /\ LifecycleTypes
      /\ JobSound(proc[p], p, home, coord, life, archive) /\ home[Sid(p)] \in Dirs
  BY JobFacts DEF TakeClaim, At_
<1>2. t \in Jobs /\ t.pc = "lock" /\ t.op = Op(p) /\ t.sid = Sid(p)
  BY <1>0, <1>1, Moved DEF Op, Sid
<1>3. CASE /\ Exists(home[Sid(p)]) /\ home' = [home EXCEPT ![Sid(p)].claim = p] /\ Goto(p, "lock")
           /\ UNCHANGED <<tomb, archive, coord, life>>
  <2>1. d \in Dirs /\ d.inc = home[Sid(p)].inc /\ d.lock = home[Sid(p)].lock
    BY <1>1 DEF Dirs, Claims
  <2>2. proc' = [proc EXCEPT ![p] = t] /\ home' = [home EXCEPT ![Sid(p)] = d]
    BY <1>3 DEF Goto
  <2> HIDE DEF d, t
  <2>3. home'[Sid(p)] = d /\ Exists(d)
    BY <1>1, <1>3, <2>1, <2>2 DEF LifecycleTypes, Exists
  <2>4. JobSound(t, p, home', coord', life', archive')
    BY <1>1, <1>2, <1>3, <2>3 DEF JobSound, InCoordination, InLifecycle, Op, Sid
  <2>5. dirs' \in Nat
    BY <1>1 DEF TakeClaim, Bounds, LifecycleTypes
  <2> QED BY <1>1, <1>2, <1>3, <2>1, <2>2, <2>3, <2>4, <2>5, DirectoryKeeps
<1>4. CASE Quit(p)
  BY <1>4, QuitKeeps DEF TakeClaim, Bounds
<1> QED BY <1>3, <1>4 DEF TakeClaim

LEMMA TakeLockKeeps ==
  ASSUME LifecycleInv, NEW p \in Procs, TakeLock(p)
  PROVE  LifecycleInv'
<1> DEFINE place == IF Op(p) = "create" THEN "header" ELSE "writing"
           u == [proc[p] EXCEPT !.pc = place]
           t == [u EXCEPT !.inc = home[Sid(p)].inc]
           d == [home[Sid(p)] EXCEPT !.lock = p]
<1>0. place \in Places
  BY DEF Places, InCoordination
<1>1. /\ proc[p] \in Jobs /\ Sid(p) \in Sessions /\ proc[p].pc = "lock" /\ LifecycleTypes
      /\ JobSound(proc[p], p, home, coord, life, archive) /\ home[Sid(p)] \in Dirs
  BY JobFacts DEF TakeLock, At_
<1>2. u \in Jobs /\ u.pc = place /\ u.op = Op(p) /\ u.sid = Sid(p)
  BY <1>0, <1>1, Moved DEF Op, Sid
<1>3. t \in Jobs /\ t.pc = place /\ t.op = Op(p) /\ t.sid = Sid(p) /\ t.inc = home[Sid(p)].inc
  <2> HIDE DEF u, place
  <2> QED BY <1>1, <1>2 DEF Jobs, Dirs
<1>4. CASE /\ home[Sid(p)].lock = None /\ home' = [home EXCEPT ![Sid(p)].lock = p]
           /\ proc' = [proc EXCEPT ![p].pc = place, ![p].inc = home[Sid(p)].inc]
           /\ UNCHANGED <<tomb, archive, coord, life>>
  <2>1. d \in Dirs /\ d.inc = home[Sid(p)].inc /\ d.lock = p
    BY <1>1 DEF Dirs
  <2>2. proc' = [proc EXCEPT ![p] = t] /\ home' = [home EXCEPT ![Sid(p)] = d]
    BY <1>1, <1>4 DEF LifecycleTypes
  <2> HIDE DEF d, t, u
  <2>3. Exists(home[Sid(p)]) /\ coord[Sid(p)] = p
    BY <1>1 DEF JobSound, InCoordination, Sid
  <2>4. home'[Sid(p)] = d /\ Exists(d)
    BY <1>1, <2>1, <2>2, <2>3 DEF LifecycleTypes, Exists
  <2>5. JobSound(t, p, home', coord', life', archive')
    BY <1>1, <1>3, <1>4, <2>1, <2>3, <2>4 DEF JobSound, InCoordination, InLifecycle
  <2>6. dirs' \in Nat
    BY <1>1 DEF TakeLock, Bounds, LifecycleTypes
  <2> QED BY <1>1, <1>3, <1>4, <2>1, <2>2, <2>4, <2>5, <2>6, DirectoryKeeps
<1>5. CASE Quit(p)
  BY <1>5, QuitKeeps DEF TakeLock, Bounds
<1> QED BY <1>4, <1>5 DEF TakeLock

LEMMA WriteHeaderKeeps ==
  ASSUME LifecycleInv, NEW p \in Procs, WriteHeader(p)
  PROVE  LifecycleInv'
<1> DEFINE freed == Freed(home[Sid(p)], p, None)
           d == [freed EXCEPT !.journal = TRUE]
           t == [pc |-> "coordinate", op |-> "open", sid |-> Sid(p), inc |-> 0, doc |-> proc[p].doc]
<1>1. /\ proc[p] \in Jobs /\ Sid(p) \in Sessions /\ proc[p].pc = "header" /\ LifecycleTypes
      /\ JobSound(proc[p], p, home, coord, life, archive) /\ home[Sid(p)] \in Dirs
  BY JobFacts DEF WriteHeader, At_
<1>2. t \in Jobs
  BY <1>1 DEF Jobs, Places, Sid, Ops
<1>3. proc' = [proc EXCEPT ![p] = t]
  <2>1. proc[p] = [pc |-> proc[p].pc, op |-> proc[p].op, sid |-> proc[p].sid, inc |-> proc[p].inc,
                   doc |-> proc[p].doc]
    BY <1>1 DEF Jobs
  <2> DEFINE u == [proc[p] EXCEPT !.pc = "coordinate"]
             v == [u EXCEPT !.op = "open"]
  <2>2. proc' = [proc EXCEPT ![p] = [v EXCEPT !.inc = 0]]
    BY <1>1 DEF WriteHeader, LifecycleTypes
  <2>3. u = [pc |-> "coordinate", op |-> proc[p].op, sid |-> Sid(p), inc |-> proc[p].inc, doc |-> proc[p].doc]
    BY <2>1 DEF Sid
  <2> HIDE DEF u
  <2>4. v = [pc |-> "coordinate", op |-> "open", sid |-> Sid(p), inc |-> proc[p].inc, doc |-> proc[p].doc]
    BY <2>3
  <2> HIDE DEF v
  <2>5. [v EXCEPT !.inc = 0] = t
    BY <2>4
  <2> QED BY <2>2, <2>5
<1>4. freed \in Dirs /\ freed.inc = home[Sid(p)].inc
      /\ (freed.lock = home[Sid(p)].lock \/ home[Sid(p)].lock = p)
  BY <1>1, FreedFacts
<1>5. d \in Dirs /\ d.inc = freed.inc /\ d.lock = freed.lock
  <2> HIDE DEF freed
  <2> QED BY <1>4 DEF Dirs
<1>6. home' = [home EXCEPT ![Sid(p)] = d] /\ coord' = [coord EXCEPT ![Sid(p)] = None]
      /\ UNCHANGED <<tomb, archive, life, dirs>>
  BY DEF WriteHeader, Bounds
<1>7. Exists(home[Sid(p)]) /\ coord[Sid(p)] = p
  BY <1>1 DEF JobSound, InCoordination, Sid
<1>8. JobSound(t, p, home', coord', life', archive')
  BY <1>1 DEF JobSound, InCoordination, InLifecycle
<1> HIDE DEF d, freed, t
<1> QED BY <1>1, <1>2, <1>3, <1>4, <1>5, <1>6, <1>7, <1>8, DirectoryKeeps DEF Exists, LifecycleTypes

-----------------------------------------------------------------------------
(* Archive, restore, list and delete.                                      *)

LEMMA TakeLifecycleKeeps ==
  ASSUME LifecycleInv, NEW p \in Procs, TakeLifecycle(p)
  PROVE  LifecycleInv'
<1> DEFINE place == CASE Op(p) = "delete" -> "look" [] Op(p) = "list" -> "list" [] OTHER -> "resolve"
           t == [proc[p] EXCEPT !.pc = place]
<1>0. place \in {"look", "list", "resolve"} /\ (place = "look" => Op(p) = "delete") /\ place \in Places
  BY DEF Places, InLifecycle
<1>1. /\ proc[p] \in Jobs /\ Sid(p) \in Sessions /\ proc[p].pc = "lifecycle" /\ LifecycleTypes
      /\ JobSound(proc[p], p, home, coord, life, archive) /\ ArchivedHasHome
  BY JobFacts DEF TakeLifecycle, At_
<1>2. t \in Jobs /\ t.pc = place /\ t.op = Op(p) /\ t.sid = Sid(p)
  BY <1>0, <1>1, Moved DEF Op, Sid
<1>3. CASE life = None /\ life' = p /\ Goto(p, place) /\ UNCHANGED <<home, tomb, archive, coord>>
  <2>1. proc' = [proc EXCEPT ![p] = t]
    BY <1>3 DEF Goto
  <2> HIDE DEF t, place
  <2>2. JobSound(t, p, home', coord', life', archive')
    BY <1>0, <1>1, <1>2, <1>3 DEF JobSound, InCoordination, InLifecycle, Op, Sid
  <2>3. Spares(p) /\ ArchivedHasHome'
    BY <1>1, <1>3 DEF Spares, ArchivedHasHome
  <2>4. dirs' \in Nat
    BY <1>1 DEF TakeLifecycle, Bounds, LifecycleTypes
  <2> QED BY <1>1, <1>2, <1>3, <2>1, <2>2, <2>3, <2>4, ProcessMoves DEF LifecycleTypes
<1>4. CASE Quit(p)
  BY <1>4, QuitKeeps DEF TakeLifecycle, Bounds
<1> QED BY <1>3, <1>4 DEF TakeLifecycle

LEMMA LookForSessionKeeps ==
  ASSUME LifecycleInv, NEW p \in Procs, LookForSession(p)
  PROVE  LifecycleInv'
<1>1. /\ proc[p] \in Jobs /\ proc[p].pc = "look"
      /\ JobSound(proc[p], p, home, coord, life, archive)
  BY JobFacts DEF LookForSession, At_
<1>2. ASSUME NEW place \in {"resolve", "unlist"}, Goto(p, place), Stays
      PROVE  LifecycleInv'
  <2> DEFINE t == [proc[p] EXCEPT !.pc = place]
  <2>1. place \in Places
    BY DEF Places, InLifecycle
  <2>2. t.pc = place /\ t.op = Op(p) /\ t.sid = Sid(p)
    BY <1>1, <2>1, Moved DEF Op, Sid
  <2>3. JobSound(t, p, home, coord, life, archive)
    <3> HIDE DEF t
    <3> QED BY <1>1, <2>2 DEF JobSound, InCoordination, InLifecycle, Op, Sid
  <2> QED BY <1>1, <1>2, <2>1, <2>3, GoKeeps DEF LookForSession, Bounds
<1> QED BY <1>2, QuitKeeps DEF LookForSession, Bounds

LEMMA ResolveKeeps ==
  ASSUME LifecycleInv, NEW p \in Procs, Resolve(p)
  PROVE  LifecycleInv'
<1> DEFINE t == [proc[p] EXCEPT !.pc = "session"]
<1>0. "session" \in Places
  BY DEF Places, InLifecycle
<1>1. /\ proc[p] \in Jobs /\ proc[p].pc = "resolve"
      /\ JobSound(proc[p], p, home, coord, life, archive)
  BY JobFacts DEF Resolve, At_
<1>2. t.pc = "session" /\ t.op = Op(p) /\ t.sid = Sid(p)
  BY <1>0, <1>1, Moved DEF Op, Sid
<1>3. JobSound(t, p, home, coord, life, archive)
  <2> HIDE DEF t
  <2> QED BY <1>1, <1>2 DEF JobSound, InCoordination, InLifecycle, Op, Sid
<1> QED BY <1>0, <1>1, <1>3, GoKeeps, QuitKeeps DEF Resolve, Bounds

LEMMA LockSessionKeeps ==
  ASSUME LifecycleInv, NEW p \in Procs, LockSession(p)
  PROVE  LifecycleInv'
<1> DEFINE t == [proc[p] EXCEPT !.pc = "presence"]
           d == [home[Sid(p)] EXCEPT !.lock = p]
<1>0. "presence" \in Places
  BY DEF Places, InLifecycle
<1>1. /\ proc[p] \in Jobs /\ Sid(p) \in Sessions /\ proc[p].pc = "session" /\ LifecycleTypes
      /\ JobSound(proc[p], p, home, coord, life, archive) /\ home[Sid(p)] \in Dirs
  BY JobFacts DEF LockSession, At_
<1>2. t \in Jobs /\ t.pc = "presence" /\ t.op = Op(p) /\ t.sid = Sid(p)
  BY <1>0, <1>1, Moved DEF Op, Sid
<1>3. CASE /\ Exists(home[Sid(p)]) /\ home[Sid(p)].lock = None
           /\ home' = [home EXCEPT ![Sid(p)].lock = p] /\ Goto(p, "presence")
           /\ UNCHANGED <<tomb, archive, coord, life>>
  <2>1. d \in Dirs /\ d.inc = home[Sid(p)].inc
    BY <1>1 DEF Dirs
  <2>2. proc' = [proc EXCEPT ![p] = t] /\ home' = [home EXCEPT ![Sid(p)] = d]
    BY <1>3 DEF Goto
  <2> HIDE DEF d, t
  <2>3. home'[Sid(p)] = d /\ Exists(d)
    BY <1>1, <1>3, <2>1, <2>2 DEF LifecycleTypes, Exists
  <2>4. JobSound(t, p, home', coord', life', archive')
    BY <1>1, <1>2, <1>3, <2>3 DEF JobSound, InCoordination, InLifecycle, Op, Sid
  <2>5. dirs' \in Nat
    BY <1>1 DEF LockSession, Bounds, LifecycleTypes
  <2> QED BY <1>1, <1>2, <1>3, <2>1, <2>2, <2>3, <2>4, <2>5, DirectoryKeeps
<1>4. CASE Quit(p)
  BY <1>4, QuitKeeps DEF LockSession, Bounds
<1> QED BY <1>3, <1>4 DEF LockSession

LEMMA RejectWriterPresenceKeeps ==
  ASSUME LifecycleInv, NEW p \in Procs, RejectWriterPresence(p)
  PROVE  LifecycleInv'
<1> DEFINE place == IF Op(p) = "delete" THEN "retire" ELSE "read"
           t == [proc[p] EXCEPT !.pc = place]
<1>0. place \in Places
  BY DEF Places, InLifecycle
<1>1. /\ proc[p] \in Jobs /\ proc[p].pc = "presence"
      /\ JobSound(proc[p], p, home, coord, life, archive)
  BY JobFacts DEF RejectWriterPresence, At_
<1>2. t.pc = place /\ t.op = Op(p) /\ t.sid = Sid(p)
  BY <1>0, <1>1, Moved DEF Op, Sid
<1>3. JobSound(t, p, home, coord, life, archive)
  <2> HIDE DEF t
  <2> QED BY <1>1, <1>2 DEF JobSound, InCoordination, InLifecycle, Op, Sid
<1> HIDE DEF place
<1> QED BY <1>0, <1>1, <1>3, GoKeeps, QuitKeeps DEF RejectWriterPresence, Bounds, place

LEMMA ReadArchiveKeeps ==
  ASSUME LifecycleInv, NEW p \in Procs, ReadArchive(p)
  PROVE  LifecycleInv'
<1> DEFINE t == [pc |-> "publish", op |-> Op(p), sid |-> Sid(p), inc |-> proc[p].inc, doc |-> archive]
<1>1. /\ proc[p] \in Jobs /\ proc[p].pc = "read" /\ LifecycleTypes /\ ArchivedHasHome
      /\ JobSound(proc[p], p, home, coord, life, archive)
  BY JobFacts DEF ReadArchive, At_
<1>2. t \in Jobs
  BY <1>1 DEF Jobs, Places, InLifecycle, Op, Sid, LifecycleTypes
<1>3. proc' = [proc EXCEPT ![p] = t]
  <2>1. proc[p] = [pc |-> proc[p].pc, op |-> proc[p].op, sid |-> proc[p].sid, inc |-> proc[p].inc,
                   doc |-> proc[p].doc]
    BY <1>1 DEF Jobs
  <2> DEFINE u == [proc[p] EXCEPT !.pc = "publish"]
  <2>2. proc' = [proc EXCEPT ![p] = [u EXCEPT !.doc = archive]]
    BY <1>1 DEF ReadArchive, LifecycleTypes
  <2>3. u = [pc |-> "publish", op |-> proc[p].op, sid |-> proc[p].sid, inc |-> proc[p].inc,
             doc |-> proc[p].doc]
    BY <2>1
  <2> HIDE DEF u
  <2>4. [u EXCEPT !.doc = archive] = t
    BY <2>3 DEF Sid, Op
  <2> QED BY <2>2, <2>4
<1>4. UNCHANGED <<home, tomb, archive, coord, life, dirs>>
  BY DEF ReadArchive, Stays, Bounds
<1>5. JobSound(t, p, home', coord', life', archive')
  BY <1>1, <1>4 DEF JobSound, InCoordination, InLifecycle, Op, Sid
<1>6. Spares(p) /\ ArchivedHasHome'
  BY <1>1, <1>4 DEF Spares, ArchivedHasHome
<1> HIDE DEF t
<1> QED BY <1>1, <1>2, <1>3, <1>4, <1>5, <1>6, ProcessMoves DEF LifecycleTypes

LEMMA PublishArchiveKeeps ==
  ASSUME LifecycleInv, NEW p \in Procs, PublishArchive(p)
  PROVE  LifecycleInv'
<1>1. /\ proc[p] \in Jobs /\ Sid(p) \in Sessions /\ proc[p].pc = "publish" /\ LifecycleTypes
      /\ ArchivedHasHome /\ JobSound(proc[p], p, home, coord, life, archive)
  BY JobFacts DEF PublishArchive, At_
<1>2. life = p /\ proc[p].doc = archive /\ Exists(home[Sid(p)])
  BY <1>1 DEF JobSound, InLifecycle, Sid
<1>3. archive' \subseteq archive \cup {Sid(p)} /\ Leave(p, None) /\ UNCHANGED dirs
  BY <1>2 DEF PublishArchive, Bounds
<1>4. archive' \subseteq Sessions /\ \A s \in archive' : Exists(home[s]) \/ Exists(tomb[s])
  BY <1>1, <1>2, <1>3 DEF ArchivedHasHome, LifecycleTypes
<1> QED BY <1>1, <1>2, <1>3, <1>4, LeaveKeeps DEF LifecycleTypes

LEMMA MoveToTombstoneKeeps ==
  ASSUME LifecycleInv, NEW p \in Procs, MoveToTombstone(p)
  PROVE  LifecycleInv'
<1> DEFINE t == [proc[p] EXCEPT !.pc = "unlist"]
           d == Freed(home[Sid(p)], p, None)
<1>0. "unlist" \in Places
  BY DEF Places, InLifecycle
<1>1. /\ proc[p] \in Jobs /\ Sid(p) \in Sessions /\ proc[p].pc = "retire" /\ LifecycleTypes
      /\ JobSound(proc[p], p, home, coord, life, archive) /\ home[Sid(p)] \in Dirs
      /\ ArchivedHasHome
  BY JobFacts DEF MoveToTombstone, At_
<1>2. t \in Jobs /\ t.pc = "unlist" /\ t.op = Op(p) /\ t.sid = Sid(p)
  BY <1>0, <1>1, Moved DEF Op, Sid
<1>3. CASE /\ tomb' = [tomb EXCEPT ![Sid(p)] = d] /\ home' = [home EXCEPT ![Sid(p)] = NoDir]
           /\ Goto(p, "unlist") /\ UNCHANGED <<archive, coord, life>>
  <2>1. proc' = [proc EXCEPT ![p] = t]
    BY <1>3 DEF Goto
  <2>2. coord[Sid(p)] = p /\ life = p /\ Exists(home[Sid(p)])
    BY <1>1 DEF JobSound, InLifecycle, Sid
  <2>3. d \in Dirs /\ Exists(d)
    BY <1>1, <2>2, FreedFacts DEF Exists
  <2>4. NoDir \in Dirs
    BY DEF NoDir, Dirs, Claims
  <2> HIDE DEF d, t
  <2>5. home' \in [Sessions -> Dirs] /\ tomb' \in [Sessions -> Dirs]
    BY <1>1, <1>3, <2>3, <2>4 DEF LifecycleTypes
  <2>6. /\ \A s \in Sessions : s # Sid(p) => home'[s] = home[s] /\ tomb'[s] = tomb[s]
        /\ tomb'[Sid(p)] = d
    BY <1>1, <1>3 DEF LifecycleTypes
  <2>7. Spares(p)
    BY <1>3, <2>2, <2>6 DEF Spares
  <2>8. ArchivedHasHome'
    BY <1>1, <1>3, <2>3, <2>6 DEF ArchivedHasHome, LifecycleTypes
  <2>9. JobSound(t, p, home', coord', life', archive')
    BY <1>1, <1>2, <1>3 DEF JobSound, InCoordination, InLifecycle, Op, Sid
  <2>10. dirs' \in Nat
    BY <1>1 DEF MoveToTombstone, Bounds, LifecycleTypes
  <2> QED BY <1>1, <1>2, <1>3, <2>1, <2>5, <2>7, <2>8, <2>9, <2>10, ProcessMoves DEF LifecycleTypes
<1>4. CASE Quit(p)
  BY <1>4, QuitKeeps DEF MoveToTombstone, Bounds
<1> QED BY <1>3, <1>4 DEF MoveToTombstone

LEMMA UnlistKeeps ==
  ASSUME LifecycleInv, NEW p \in Procs, Unlist(p)
  PROVE  LifecycleInv'
<1> DEFINE t == [proc[p] EXCEPT !.pc = "purge"]
<1>0. "purge" \in Places
  BY DEF Places, InLifecycle
<1>1. /\ proc[p] \in Jobs /\ Sid(p) \in Sessions /\ proc[p].pc = "unlist" /\ LifecycleTypes
      /\ JobSound(proc[p], p, home, coord, life, archive) /\ ArchivedHasHome
  BY JobFacts DEF Unlist, At_
<1>2. t \in Jobs /\ t.pc = "purge" /\ t.op = Op(p) /\ t.sid = Sid(p)
  BY <1>0, <1>1, Moved DEF Op, Sid
<1>3. proc' = [proc EXCEPT ![p] = t] /\ archive' = archive \ {Sid(p)}
      /\ UNCHANGED <<home, tomb, coord, life, dirs>>
  BY DEF Unlist, Goto, Bounds
<1> HIDE DEF t
<1>4. JobSound(t, p, home', coord', life', archive')
  BY <1>1, <1>2, <1>3 DEF JobSound, InCoordination, InLifecycle, Op, Sid
<1>5. Spares(p) /\ ArchivedHasHome'
  BY <1>1, <1>3 DEF Spares, ArchivedHasHome, JobSound, InLifecycle
<1> QED BY <1>1, <1>2, <1>3, <1>4, <1>5, ProcessMoves DEF LifecycleTypes

LEMMA RemoveTombstoneKeeps ==
  ASSUME LifecycleInv, NEW p \in Procs, RemoveTombstone(p)
  PROVE  LifecycleInv'
<1>1. /\ proc[p] \in Jobs /\ Sid(p) \in Sessions /\ proc[p].pc = "purge" /\ LifecycleTypes
      /\ JobSound(proc[p], p, home, coord, life, archive) /\ ArchivedHasHome
  BY JobFacts DEF RemoveTombstone, At_
<1>2. coord[Sid(p)] = p /\ life = p /\ Sid(p) \notin archive
  BY <1>1 DEF JobSound, InLifecycle, Sid
<1>3. /\ tomb' = [tomb EXCEPT ![Sid(p)] = NoDir] /\ coord' = [coord EXCEPT ![Sid(p)] = None]
      /\ life' = None /\ proc' = [proc EXCEPT ![p] = Idle] /\ UNCHANGED <<home, archive, dirs>>
  BY DEF RemoveTombstone, Bounds
<1>4. tomb' \in [Sessions -> Dirs] /\ coord' \in [Sessions -> Procs \cup {None}]
  BY <1>1, <1>3 DEF LifecycleTypes, NoDir, Dirs, Claims
<1>5. Idle \in Jobs /\ JobSound(Idle, p, home', coord', life', archive')
  BY DEF JobSound, Idle, Jobs, Places, Ops, InCoordination, InLifecycle
<1>6. Spares(p)
  BY <1>1, <1>2, <1>3 DEF Spares, LifecycleTypes
<1>7. ArchivedHasHome'
  BY <1>1, <1>2, <1>3 DEF ArchivedHasHome, LifecycleTypes
<1> QED BY <1>1, <1>3, <1>4, <1>5, <1>6, <1>7, ProcessMoves DEF LifecycleTypes

-----------------------------------------------------------------------------
(* Import, and what begins or breaks off an operation.                     *)

LEMMA StageImportKeeps ==
  ASSUME LifecycleInv, NEW p \in Procs, StageImport(p)
  PROVE  LifecycleInv'
<1> DEFINE t == [proc[p] EXCEPT !.pc = "rename"]
<1>0. "rename" \in Places
  BY DEF Places
<1>1. /\ proc[p] \in Jobs /\ proc[p].pc = "stage"
      /\ JobSound(proc[p], p, home, coord, life, archive)
  BY JobFacts DEF StageImport, At_
<1>2. t.pc = "rename" /\ t.op = Op(p) /\ t.sid = Sid(p)
  BY <1>0, <1>1, Moved DEF Op, Sid
<1>3. JobSound(t, p, home, coord, life, archive)
  <2> HIDE DEF t
  <2> QED BY <1>1, <1>2 DEF JobSound, InCoordination, InLifecycle, Op, Sid
<1> QED BY <1>0, <1>1, <1>3, GoKeeps, QuitKeeps DEF StageImport, Bounds

LEMMA PublishImportKeeps ==
  ASSUME LifecycleInv, NEW p \in Procs, PublishImport(p)
  PROVE  LifecycleInv'
<1>1. /\ proc[p] \in Jobs /\ Sid(p) \in Sessions /\ LifecycleTypes
  BY JobFacts DEF PublishImport, At_
<1>2. CASE Exists(home[Sid(p)]) \/ Full
  BY <1>2, QuitKeeps DEF PublishImport
<1>3. CASE ~(Exists(home[Sid(p)]) \/ Full)
  <2>1. NewDir(Sid(p), TRUE) /\ proc' = [proc EXCEPT ![p] = Idle] /\ UNCHANGED <<tomb, archive, coord, life>>
    BY <1>3 DEF PublishImport
  <2>2. PICK d \in Dirs : /\ home' = [home EXCEPT ![Sid(p)] = d] /\ Exists(d)
                          /\ dirs' \in Nat
    BY <1>1, <2>1, NewDirMakes
  <2>3. Idle \in Jobs /\ JobSound(Idle, p, home', coord', life', archive')
    BY DEF JobSound, Idle, Jobs, Places, Ops, InCoordination, InLifecycle
  <2> QED BY <1>1, <1>3, <2>1, <2>2, <2>3, DirectoryKeeps
<1> QED BY <1>2, <1>3

LEMMA BeginKeeps ==
  ASSUME LifecycleInv, NEW p \in Procs, NEW op \in DOMAIN First, NEW s \in Sessions, Begin(p, op, s)
  PROVE  LifecycleInv'
<1> DEFINE t == [pc |-> First[op], op |-> op, sid |-> s, inc |-> 0, doc |-> {}]
<1>1. First[op] \in {"coordinate", "lifecycle", "stage"} /\ op \in Ops
      /\ (op = "delete" => First[op] = "coordinate")
  BY DEF First, Ops
<1>2. LifecycleTypes /\ ArchivedHasHome
  BY JobFacts
<1>3. t \in Jobs
  BY <1>1 DEF Jobs, Places
<1>4. proc' = [proc EXCEPT ![p] = t] /\ UNCHANGED <<home, tomb, archive, coord, life, dirs>>
  <2> DEFINE u == [Idle EXCEPT !.pc = First[op]]
             v == [u EXCEPT !.op = op]
  <2>1. proc' = [proc EXCEPT ![p] = [v EXCEPT !.sid = s]] /\ UNCHANGED <<home, tomb, archive, coord, life, dirs>>
    BY DEF Begin
  <2>2. u = [pc |-> First[op], op |-> "none", sid |-> None, inc |-> 0, doc |-> {}]
    BY DEF Idle
  <2> HIDE DEF u
  <2>3. v = [pc |-> First[op], op |-> op, sid |-> None, inc |-> 0, doc |-> {}]
    BY <2>2
  <2> HIDE DEF v
  <2>4. [v EXCEPT !.sid = s] = t
    BY <2>3
  <2> QED BY <2>1, <2>4
<1>5. JobSound(t, p, home', coord', life', archive')
  BY <1>1 DEF JobSound, InCoordination, InLifecycle
<1>6. Spares(p) /\ ArchivedHasHome'
  BY <1>2, <1>4 DEF Spares, ArchivedHasHome
<1> HIDE DEF t
<1> QED BY <1>2, <1>3, <1>4, <1>5, <1>6, ProcessMoves DEF LifecycleTypes

LEMMA CrashKeeps ==
  ASSUME LifecycleInv, NEW p \in Procs, Crash(p)
  PROVE  LifecycleInv'
<1>1. LifecycleTypes /\ ArchivedHasHome
  BY JobFacts
<1> QED BY <1>1, LeaveKeeps DEF Crash, LifecycleTypes, ArchivedHasHome

LEMMA LifecycleHoldsAtStart == LifecycleInit => LifecycleInv
<1> SUFFICES ASSUME LifecycleInit PROVE LifecycleInv
  OBVIOUS
<1>1. NoDir \in Dirs /\ Idle \in Jobs
  BY DEF NoDir, Dirs, Claims, Idle, Jobs, Places, Ops
<1>2. LifecycleTypes
  BY <1>1 DEF LifecycleInit, LifecycleTypes
<1>3. JobsSound
  BY DEF LifecycleInit, JobsSound, JobSound, Idle, InCoordination, InLifecycle
<1> QED BY <1>2, <1>3 DEF LifecycleInv, LifecycleInit, ArchivedHasHome

LEMMA LifecycleKept == LifecycleInv /\ [LifecycleNext]_lifecycleVars => LifecycleInv'
<1> SUFFICES ASSUME LifecycleInv, [LifecycleNext]_lifecycleVars PROVE LifecycleInv'
  OBVIOUS
<1>1. CASE UNCHANGED lifecycleVars
  BY <1>1 DEF lifecycleVars, LifecycleInv, LifecycleTypes, JobsSound, JobSound, ArchivedHasHome
<1>2. CASE LifecycleNext
  <2>1. PICK p \in Procs : Step(p) \/ Crash(p) \/ \E s \in Sessions : Request(p, s) \/ RetryDelete(p, s)
    BY <1>2 DEF LifecycleNext
  <2>2. CASE Step(p)
    <3>1. ASSUME ListSessions(p) \/ CloseWriter(p) PROVE LifecycleInv'
      BY <3>1, QuitKeeps DEF ListSessions, CloseWriter, Bounds
    <3> QED BY <2>2, <3>1, TakeCoordinationKeeps, CheckTombstoneKeeps, MakeDirectoryKeeps, TakeClaimKeeps,
          TakeLockKeeps, WriteHeaderKeeps, TakeLifecycleKeeps, LookForSessionKeeps, ResolveKeeps,
          LockSessionKeeps, RejectWriterPresenceKeeps, ReadArchiveKeeps, PublishArchiveKeeps,
          MoveToTombstoneKeeps, UnlistKeeps, RemoveTombstoneKeeps, StageImportKeeps, PublishImportKeeps
          DEF Step
  <2>3. CASE \E s \in Sessions : Request(p, s) \/ RetryDelete(p, s)
    <3>1. "delete" \in DOMAIN First
      BY DEF First
    <3> QED BY <2>3, <3>1, BeginKeeps DEF Request, RetryDelete
  <2> QED BY <2>1, <2>2, <2>3, CrashKeeps
<1> QED BY <1>1, <1>2

(* Whatever creations, archivings, deletions, imports and crashes of any      *)
(* number of daemons meet: who writes a session, or its header, has the      *)
(* directory it opened, under its lock, and an ID of the archive document    *)
(* is that of a session which is there or about to be deleted.               *)
THEOREM DirectoriesStaySound ==
  LifecycleInit /\ [][LifecycleNext]_lifecycleVars => []DirectoriesSound
<1>1. LifecycleInv => DirectoriesSound
  BY LifecycleAssumption DEF LifecycleInv, JobsSound, JobSound, DirectoriesSound, WriterKeepsItsDirectory, Sid
<1> QED BY <1>1, LifecycleHoldsAtStart, LifecycleKept, PTL

=============================================================================
