-------------------------- MODULE Provider_proofs --------------------------
(***************************************************************************)
(* Proofs about what a provider's stream becomes.                          *)
(*                                                                         *)
(* ProviderTurn: a committed message is what the server sent. TurnInv      *)
(* links what the turn has gathered to what the server has said, in one of *)
(* three ways. Where frames address a call by an index or item ID, the     *)
(* parser knows the newest call of each (Indexed); where a stream keeps    *)
(* its calls until its end, it has them as they were said (KeptCalls);     *)
(* where calls come whole, it counts them. Gathered is what all families   *)
(* share. The lemmas on Reads follow the events of one frame.              *)
(*                                                                         *)
(* SseDecoder: however a response was broken into pieces, the adapters get *)
(* the events of its stream. DecoderInv says where an open decoder stands: *)
(* what it has buffered is what the reader of the stream has read since    *)
(* the end of an event. Along compares, byte by byte, a scan of a block    *)
(* with that reader.                                                       *)
(***************************************************************************)
EXTENDS ProviderTurn, SseDecoder, SequenceTheorems, FiniteSetTheorems,
        WellFoundedInduction, TLAPS

\* A set of naturals has a least element.
LEMMA Least ==
  ASSUME NEW T, T \subseteq Nat, T # {}
  PROVE  \E n \in T : \A m \in T : n <= m
<1> DEFINE R == OpToRel(<, Nat)
<1>1. PICK n \in T : \A m \in T : ~(<<m, n>> \in R)
  BY WFMin, NatLessThanWellFounded
<1>2. ASSUME NEW m \in T PROVE n <= m
  <2>1. <<m, n>> \notin R
    BY <1>1
  <2>2. m < n => <<m, n>> \in R
    BY DEF OpToRel
  <2> HIDE DEF R
  <2> QED
    BY <2>1, <2>2
<1> QED
  BY <1>2

\* Induction up to a bound, stated of the set of the numbers that have the property.
LEMMA Induction ==
  ASSUME NEW N \in Nat, NEW S, 0 \in S, \A n \in 1 .. N : n - 1 \in S => n \in S
  PROVE  \A n \in 0 .. N : n \in S
<1> DEFINE T == {n \in 0 .. N : n \notin S}
<1>1. ASSUME T # {} PROVE FALSE
  <2>1. T \subseteq Nat
    OBVIOUS
  <2>2. PICK n \in T : \A m \in T : n <= m
    <3> HIDE DEF T
    <3> QED
      BY <1>1, <2>1, Least
  <2>3. n \in 1 .. N /\ n - 1 \in 0 .. N /\ n - 1 \notin T
    BY <2>2
  <2> QED
    BY <2>2, <2>3
<1> QED
  BY <1>1

-----------------------------------------------------------------------------
(* The types, and what links a turn and its parser to the server's message. *)

WireIds == Ids \cup {<<"call", i>> : i \in Nat}
CallRecs == [id : WireIds, args : Seq(Frags)]
SaidCalls == [slot : Slots \cup {None}, id : Ids \cup {None}, args : Seq(Frags), done : BOOLEAN]
Turns == [pc : {"request", "document", "reading", "committed", "failed"}, attempt : Nat,
          started : BOOLEAN, pending : SUBSET CallRecs, completed : Seq(CallRecs),
          reason : Reasons \cup {None}, image : BOOLEAN, text : BOOLEAN]
Blocks == [id : Ids \cup {None}, args : Seq(Frags), ended : BOOLEAN]
Parsers == [calls : [Slots -> Blocks], started : BOOLEAN, reason : Reasons \cup {None},
            ended : BOOLEAN, count : Nat]
Sents == [calls : Seq(SaidCalls), ended : BOOLEAN, frames : Nat]

TurnTypes == turn \in Turns /\ parser \in Parsers /\ sent \in Sents

\* The ID that the run knows a call of the server by.
Wire(calls, i) == IF calls[i].id = None THEN <<"call", i>> ELSE calls[i].id
Made(calls) == {[id |-> Wire(calls, i), args |-> calls[i].args] : i \in DOMAIN calls}

\* A turn has gathered just these calls, under IDs that no other call has, and
\* completed only such as the server has ended.
Gathered(t, calls) ==
  /\ t.pending \cup ToSet(t.completed) = Made(calls)
  /\ \A i, j \in DOMAIN calls : Wire(calls, i) = Wire(calls, j) => i = j
  /\ \A i \in DOMAIN calls : Wire(calls, i) \notin seen
  /\ \A j, k \in DOMAIN t.completed : t.completed[j].id = t.completed[k].id => j = k
  /\ \A j \in DOMAIN t.completed : \A c \in t.pending : t.completed[j].id # c.id
  /\ \A j \in DOMAIN t.completed : \E i \in DOMAIN calls :
       Wire(calls, i) = t.completed[j].id /\ calls[i].done

\* An index of the wire names the newest call that has it.
Newest(calls, s, i) ==
  i \in DOMAIN calls /\ calls[i].slot = s /\ \A j \in DOMAIN calls : calls[j].slot = s => j <= i
Indexed(p, calls) ==
  /\ \A i \in DOMAIN calls : calls[i].id \in Ids /\ calls[i].slot \in Slots
  /\ \A s \in Slots :
       /\ Known(p, s) =>
            \E i \in DOMAIN calls : Newest(calls, s, i) /\ p.calls[s].id = calls[i].id
       /\ ~Known(p, s) => \A i \in DOMAIN calls : calls[i].slot # s

\* A parser that keeps the calls until the end has them as they were sent.
KeptAs(p, calls, i) ==
  LET s == calls[i].slot
  IN  /\ s \in Slots /\ Known(p, s)
      /\ p.calls[s].id = calls[i].id /\ p.calls[s].args = calls[i].args
      /\ p.calls[s].ended => calls[i].done
      /\ \A j \in DOMAIN calls : calls[j].slot = s => j = i
KeptCalls(p, calls) ==
  /\ \A i \in DOMAIN calls : KeptAs(p, calls, i)
  /\ \A s \in Slots : Known(p, s) => \E i \in DOMAIN calls : calls[i].slot = s

ByIndex == {"chat", "messages", "responses", "codex"}
Linked(t, p, calls) ==
  IF family = "converse" /\ ~p.ended
  THEN t.pending = {} /\ t.completed = <<>> /\ KeptCalls(p, calls)
  ELSE /\ Gathered(t, calls)
       /\ family \in ByIndex => Indexed(p, calls)
       /\ family = "google" => p.count = Len(calls)

TurnInv ==
  turn.pc # "failed" =>
    /\ family \in Families
    /\ TurnTypes
    /\ answers = IF turn.pc = "request" THEN 0 ELSE 1
    /\ turn.reason # None => sent.ended
    /\ Linked(turn, parser, sent.calls)
    /\ turn.pc = "committed" => CommittedAsSent

-----------------------------------------------------------------------------
(* One turn at a provider.                                                 *)

\* The turn after each event.
Steps(t, evs) ==
    CHOOSE f : f = [i \in 0..Len(evs) |->
        IF i = 0 THEN t ELSE Reads(f[i - 1], evs[i])]

LEMMA StepsExist ==
  ASSUME NEW t, NEW evs, Len(evs) \in Nat
  PROVE  Steps(t, evs) = [i \in 0..Len(evs) |->
             IF i = 0 THEN t ELSE Reads(Steps(t, evs)[i - 1], evs[i])]
<1> DEFINE Up(f, i) == IF i = 0 THEN t ELSE Reads(f[i - 1], evs[i])
           S == {n \in 0..Len(evs) : \E f : f = [i \in 0..n |-> Up(f, i)]}
<1>1. 0 \in S
  <2> DEFINE z == [i \in 0..0 |-> t]
  <2>1. \A i \in 0..0 : z[i] = Up(z, i)
    OBVIOUS
  <2>2. z = [i \in 0..0 |-> Up(z, i)]
    BY <2>1
  <2>3. 0 \in 0..Len(evs)
    OBVIOUS
  <2> HIDE DEF z, Up
  <2> QED
    BY <2>2, <2>3
<1>2. ASSUME NEW n \in 1 .. Len(evs), n - 1 \in S PROVE n \in S
  <2>1. PICK g : g = [i \in 0..(n - 1) |-> Up(g, i)]
    BY <1>2
  <2> DEFINE h == [i \in 0..n |-> IF i < n THEN g[i] ELSE Up(g, n)]
  <2>2. \A i \in 0..(n - 1) : h[i] = g[i]
    OBVIOUS
  <2>3. \A i \in 0..(n - 1) : g[i] = Up(g, i)
    BY <2>1
  <2>4. h[n] = Up(g, n)
    OBVIOUS
  <2>5. DOMAIN h = 0..n /\ h = [i \in 0..n |-> h[i]]
    OBVIOUS
  <2> HIDE DEF h
  <2>6. \A i \in 0..n : h[i] = Up(h, i)
    <3> TAKE i \in 0..n
    <3>1. i = 0 \/ h[i - 1] = g[i - 1]
      BY <2>2
    <3>2. Up(g, i) = Up(h, i)
      BY <3>1
    <3>3. i = n \/ i \in 0..(n - 1)
      OBVIOUS
    <3> HIDE DEF Up
    <3> QED
      BY <2>2, <2>3, <2>4, <3>2, <3>3
  <2>7. h = [i \in 0..n |-> Up(h, i)]
    <3> HIDE DEF Up
    <3> QED
      BY <2>5, <2>6
  <2>8. n \in 0..Len(evs)
    OBVIOUS
  <2> QED
    BY <2>7, <2>8
<1>3. Len(evs) \in S
  <2>1. Len(evs) \in 0..Len(evs)
    OBVIOUS
  <2>2. \A n \in 1 .. Len(evs) : n - 1 \in S => n \in S
    BY ONLY <1>2
  <2> HIDE DEF S
  <2> QED
    BY <1>1, <2>1, <2>2, Induction
<1>4. \E f : f = [i \in 0..Len(evs) |-> Up(f, i)]
  BY <1>3
<1> QED
  BY <1>4 DEF Steps

LEMMA StepsAre ==
  ASSUME NEW t, NEW evs, Len(evs) \in Nat
  PROVE  /\ Steps(t, evs)[0] = t
         /\ \A n \in 1 .. Len(evs) :
              Steps(t, evs)[n] = Reads(Steps(t, evs)[n - 1], evs[n])
         /\ ConsumeAll(t, evs) = Steps(t, evs)[Len(evs)]
<1> DEFINE f == Steps(t, evs)
<1>1. f = [i \in 0..Len(evs) |-> IF i = 0 THEN t ELSE Reads(f[i - 1], evs[i])]
  BY StepsExist
<1>2. ConsumeAll(t, evs) = f[Len(evs)]
  BY DEF ConsumeAll, Steps
<1> HIDE DEF f
<1>3. f[0] = t
  BY <1>1
<1>4. ASSUME NEW n \in 1 .. Len(evs) PROVE f[n] = Reads(f[n - 1], evs[n])
  <2>1. n \in 0..Len(evs) /\ n # 0
    OBVIOUS
  <2> QED
    BY <1>1, <2>1
<1> QED
  BY <1>2, <1>3, <1>4 DEF f

\* The last event is read after the others.
LEMMA ReadsLast ==
  ASSUME NEW t, NEW T, NEW evs \in Seq(T), NEW e \in T
  PROVE  ConsumeAll(t, Append(evs, e)) = Reads(ConsumeAll(t, evs), e)
<1> DEFINE n == Len(evs)
           all == Append(evs, e)
           f == Steps(t, evs)
           g == Steps(t, all)
           S == {i \in 0..n : f[i] = g[i]}
<1>0. n \in Nat /\ Len(all) = n + 1 /\ all[n + 1] = e /\ \A i \in 1..n : all[i] = evs[i]
  OBVIOUS
<1>1. f = [i \in 0..n |-> IF i = 0 THEN t ELSE Reads(f[i - 1], evs[i])]
  BY StepsExist
<1>2. g = [i \in 0..(n + 1) |-> IF i = 0 THEN t ELSE Reads(g[i - 1], all[i])]
  <2> HIDE DEF all
  <2>1. Len(all) \in Nat
    BY <1>0
  <2>2. Steps(t, all) = [i \in 0..Len(all) |->
            IF i = 0 THEN t ELSE Reads(Steps(t, all)[i - 1], all[i])]
    BY <2>1, StepsExist
  <2> QED
    BY <1>0, <2>2
<1>3. ConsumeAll(t, evs) = f[n] /\ ConsumeAll(t, all) = g[n + 1]
  BY <1>0 DEF ConsumeAll, Steps
<1> HIDE DEF f, g, all, n
<1>4. 0 \in S
  BY <1>0, <1>1, <1>2
<1>5. ASSUME NEW i \in 1 .. n, i - 1 \in S PROVE i \in S
  <2>1. i \in 0..n /\ i \in 0..(n + 1) /\ i # 0
    BY <1>0
  <2>2. f[i] = Reads(f[i - 1], evs[i]) /\ g[i] = Reads(g[i - 1], all[i])
    BY <2>1, <1>1, <1>2
  <2> QED
    BY <1>0, <1>5, <2>1, <2>2
<1>6. n \in S
  <2>1. n \in 0..n
    BY <1>0
  <2> HIDE DEF S
  <2> QED
    BY <1>0, <1>4, <1>5, <2>1, Induction
<1>7. g[n + 1] = Reads(g[n], e)
  <2>1. n + 1 \in 0..(n + 1) /\ n + 1 # 0 /\ (n + 1) - 1 = n
    BY <1>0
  <2> QED
    BY <1>0, <1>2, <2>1
<1> QED
  BY <1>3, <1>6, <1>7 DEF all

LEMMA ReadsNothing ==
  ASSUME NEW t
  PROVE  ConsumeAll(t, <<>>) = t
<1>1. Len(<<>>) = 0 /\ 0 \in Nat
  OBVIOUS
<1>2. Steps(t, <<>>)[0] = t
  BY <1>1, StepsExist
<1> QED
  BY <1>1, <1>2 DEF ConsumeAll, Steps

\* A stream of one event.
LEMMA ReadsOne ==
  ASSUME NEW t, NEW e
  PROVE  ConsumeAll(t, <<e>>) = Reads(t, e)
<1>1. <<>> \in Seq({e}) /\ Append(<<>>, e) = <<e>> /\ e \in {e}
  OBVIOUS
<1>2. ConsumeAll(t, Append(<<>>, e)) = Reads(ConsumeAll(t, <<>>), e)
  BY <1>1, ReadsLast
<1> QED
  BY <1>1, <1>2, ReadsNothing

-----------------------------------------------------------------------------
(* What a turn becomes that has read an event and not failed.              *)

Keeps(u, t) == u \in Turns /\ u.pc = "reading" /\ u.reason = t.reason

LEMMA ReadsPlain ==
  ASSUME NEW t \in Turns, t.pc = "reading", NEW k \in {"open", "text", "image"},
         Reads(t, Plain(k)).pc # "failed"
  PROVE  /\ Keeps(Reads(t, Plain(k)), t)
         /\ Reads(t, Plain(k)).pending = t.pending
         /\ Reads(t, Plain(k)).completed = t.completed
<1>1. CASE k = "open"
  BY <1>1 DEF Reads, Consume, Plain, Keeps, Turns
<1>2. CASE k = "text"
  BY <1>2 DEF Reads, Consume, Plain, Keeps, Turns
<1>3. CASE k = "image"
  BY <1>3 DEF Reads, Consume, Plain, Keeps, Turns
<1> QED
  BY <1>1, <1>2, <1>3

LEMMA ReadsFinish ==
  ASSUME NEW t \in Turns, t.pc = "reading", NEW r \in Reasons \cup {None},
         Reads(t, Finish(r)).pc # "failed"
  PROVE  /\ Reads(t, Finish(r)) \in Turns
         /\ Reads(t, Finish(r)).pc = "reading"
         /\ Reads(t, Finish(r)).pending = t.pending
         /\ Reads(t, Finish(r)).completed = t.completed
  BY DEF Reads, Consume, Finish, Turns

LEMMA ReadsCall ==
  ASSUME NEW t \in Turns, t.pc = "reading", NEW id \in WireIds,
         Reads(t, Start(id)).pc # "failed"
  PROVE  /\ Keeps(Reads(t, Start(id)), t)
         /\ id \notin Taken(t)
         /\ Reads(t, Start(id)).pending = t.pending \cup {[id |-> id, args |-> <<>>]}
         /\ Reads(t, Start(id)).completed = t.completed
<1>1. Reads(t, Start(id)) = IF id \notin Taken(t)
        THEN [t EXCEPT !.pending = @ \cup {[id |-> id, args |-> <<>>]}]
        ELSE [t EXCEPT !.pc = "failed"]
  BY DEF Reads, Consume, Start
<1>2. [id |-> id, args |-> <<>>] \in CallRecs
  BY DEF CallRecs
<1> QED
  BY <1>1, <1>2 DEF Keeps, Turns

\* The pending calls, the one with the ID with more arguments.
Extended(calls, id, frags) ==
    {IF c.id = id THEN [c EXCEPT !.args = @ \o frags] ELSE c : c \in calls}

LEMMA ReadsArgs ==
  ASSUME NEW t \in Turns, t.pc = "reading", NEW id, NEW frags \in Seq(Frags),
         Reads(t, Args(id, frags)).pc # "failed"
  PROVE  /\ Keeps(Reads(t, Args(id, frags)), t)
         /\ Mine(t, id) # {}
         /\ Reads(t, Args(id, frags)).pending = Extended(t.pending, id, frags)
         /\ Reads(t, Args(id, frags)).completed = t.completed
<1> DEFINE new == {IF c.id = id THEN [c EXCEPT !.args = @ \o frags] ELSE c : c \in t.pending}
<1>1. Reads(t, Args(id, frags)) = IF Mine(t, id) # {}
        THEN [t EXCEPT !.pending = new]
        ELSE [t EXCEPT !.pc = "failed"]
  BY DEF Reads, Consume, Args
<1>2. ASSUME NEW c \in CallRecs PROVE [c EXCEPT !.args = @ \o frags] \in CallRecs
  <2>1. c.args \o frags \in Seq(Frags)
    BY DEF CallRecs
  <2> QED
    BY <2>1 DEF CallRecs
<1>3. new \subseteq CallRecs
  BY <1>2 DEF Turns
<1> HIDE DEF new
<1>4. Keeps(Reads(t, Args(id, frags)), t) /\ Mine(t, id) # {}
      /\ Reads(t, Args(id, frags)).pending = new
      /\ Reads(t, Args(id, frags)).completed = t.completed
  BY <1>1, <1>3 DEF Keeps, Turns
<1> QED
  BY <1>4 DEF new, Extended

LEMMA ReadsStop ==
  ASSUME NEW t \in Turns, t.pc = "reading", NEW id, Reads(t, End(id)).pc # "failed"
  PROVE  /\ Keeps(Reads(t, End(id)), t)
         /\ Mine(t, id) # {}
         /\ Reads(t, End(id)).pending = t.pending \ Mine(t, id)
         /\ Reads(t, End(id)).completed = Append(t.completed, CHOOSE c \in Mine(t, id) : TRUE)
<1> DEFINE p == t.pending \ Mine(t, id)
           q == Append(t.completed, CHOOSE c \in Mine(t, id) : TRUE)
<1>1. Reads(t, End(id)) = IF \E c \in Mine(t, id) : IsObject(c.args)
        THEN [t EXCEPT !.pending = p, !.completed = q]
        ELSE [t EXCEPT !.pc = "failed"]
  BY DEF Reads, Consume, End
<1>2. \E c \in Mine(t, id) : IsObject(c.args)
  BY <1>1 DEF Turns
<1>3. p \subseteq CallRecs
  BY DEF Turns
<1>4. q \in Seq(CallRecs)
  <2>1. (CHOOSE c \in Mine(t, id) : TRUE) \in Mine(t, id)
    BY <1>2
  <2>2. (CHOOSE c \in Mine(t, id) : TRUE) \in CallRecs
    BY <2>1 DEF Mine, Turns
  <2> QED
    BY <2>2 DEF Turns
<1> HIDE DEF p, q
<1>5. Keeps(Reads(t, End(id)), t) /\ Reads(t, End(id)).pending = p
      /\ Reads(t, End(id)).completed = q
  <2> DEFINE u == [t EXCEPT !.pending = p, !.completed = q]
  <2>1. Reads(t, End(id)) = u
    BY <1>1, <1>2
  <2>2. u \in Turns
    BY ONLY <1>3, <1>4, t \in Turns DEF Turns
  <2>3. u.pc = t.pc /\ u.reason = t.reason /\ u.pending = p /\ u.completed = q
    BY ONLY t \in Turns DEF Turns
  <2> HIDE DEF u
  <2> QED
    BY <2>1, <2>2, <2>3 DEF Keeps
<1> QED
  BY <1>2, <1>5 DEF p, q

LEMMA ReadsWhole ==
  ASSUME NEW t \in Turns, t.pc = "reading", NEW id \in WireIds, NEW args \in Seq(Frags),
         Reads(t, Whole(id, args)).pc # "failed"
  PROVE  /\ Keeps(Reads(t, Whole(id, args)), t)
         /\ id \notin Taken(t)
         /\ Reads(t, Whole(id, args)).pending = t.pending
         /\ Reads(t, Whole(id, args)).completed =
              Append(t.completed, [id |-> id, args |-> args])
<1> DEFINE q == Append(t.completed, [id |-> id, args |-> args])
<1>1. Reads(t, Whole(id, args)) = IF id \notin Taken(t) /\ IsObject(args)
        THEN [t EXCEPT !.completed = q]
        ELSE [t EXCEPT !.pc = "failed"]
  BY DEF Reads, Consume, Whole
<1>2. q \in Seq(CallRecs)
  <2>1. [id |-> id, args |-> args] \in CallRecs
    BY DEF CallRecs
  <2> QED
    BY <2>1 DEF Turns
<1> HIDE DEF q
<1>3. Keeps(Reads(t, Whole(id, args)), t) /\ id \notin Taken(t)
      /\ Reads(t, Whole(id, args)).pending = t.pending
      /\ Reads(t, Whole(id, args)).completed = q
  BY <1>1, <1>2 DEF Keeps, Turns
<1> QED
  BY <1>3 DEF q

\* A turn that has failed reads no further.
LEMMA FailedStays ==
  ASSUME NEW t, NEW e, Reads(t, e).pc # "failed", t.pc = "reading" \/ t.pc = "failed"
  PROVE  t.pc = "reading"
  BY DEF Reads

-----------------------------------------------------------------------------
(* What a turn has gathered, when the server sends and the turn reads more. *)

LEMMA AppendIs ==
  ASSUME NEW T, NEW s \in Seq(T), NEW x \in T
  PROVE  /\ Append(s, x) \in Seq(T) /\ Len(Append(s, x)) = Len(s) + 1
         /\ DOMAIN s = 1 .. Len(s) /\ Len(s) \in Nat
         /\ DOMAIN Append(s, x) = DOMAIN s \cup {Len(s) + 1}
         /\ \A i \in DOMAIN s : Append(s, x)[i] = s[i]
         /\ Append(s, x)[Len(s) + 1] = x
         /\ Len(s) + 1 \notin DOMAIN s
  OBVIOUS

LEMMA AppendedSet ==
  ASSUME NEW T, NEW s \in Seq(T), NEW x \in T
  PROVE  ToSet(Append(s, x)) = ToSet(s) \cup {x}
  BY AppendIs DEF ToSet

\* A call more.
LEMMA MadeMore ==
  ASSUME NEW calls \in Seq(SaidCalls), NEW x \in SaidCalls
  PROVE  LET all == Append(calls, x)
             n == Len(calls) + 1
         IN  /\ \A i \in DOMAIN calls : Wire(all, i) = Wire(calls, i)
             /\ Made(all) = Made(calls) \cup {[id |-> Wire(all, n), args |-> x.args]}
<1> DEFINE all == Append(calls, x)
           n == Len(calls) + 1
<1>1. /\ DOMAIN all = DOMAIN calls \cup {n} /\ all[n] = x
      /\ \A i \in DOMAIN calls : all[i] = calls[i]
  BY AppendIs
<1> HIDE DEF all, n
<1>2. \A i \in DOMAIN calls : Wire(all, i) = Wire(calls, i)
  BY <1>1 DEF Wire
<1>3. Made(all) = Made(calls) \cup {[id |-> Wire(all, n), args |-> x.args]}
  BY <1>1, <1>2 DEF Made
<1> QED
  BY <1>2, <1>3 DEF all, n

\* The IDs of the calls that a turn has gathered.
LEMMA GatheredIds ==
  ASSUME NEW t, NEW calls, Gathered(t, calls)
  PROVE  /\ \A i \in DOMAIN calls : Wire(calls, i) \in Taken(t)
         /\ \A id \in Taken(t) : id \in seen \/ \E i \in DOMAIN calls : Wire(calls, i) = id
<1>1. ASSUME NEW i \in DOMAIN calls PROVE Wire(calls, i) \in Taken(t)
  <2> DEFINE c == [id |-> Wire(calls, i), args |-> calls[i].args]
  <2>1. c \in t.pending \cup ToSet(t.completed) /\ c.id = Wire(calls, i)
    BY DEF Gathered, Made
  <2> HIDE DEF c
  <2> QED
    BY <2>1 DEF Taken
<1>2. ASSUME NEW id \in Taken(t), id \notin seen
      PROVE  \E i \in DOMAIN calls : Wire(calls, i) = id
  <2>1. PICK c \in t.pending \cup ToSet(t.completed) : c.id = id
    BY <1>2 DEF Taken
  <2>2. c \in Made(calls)
    BY <2>1 DEF Gathered
  <2>3. PICK i \in DOMAIN calls : c = [id |-> Wire(calls, i), args |-> calls[i].args]
    BY <2>2 DEF Made
  <2> QED
    BY <2>1, <2>3
<1> QED
  BY <1>1, <1>2

\* A call that begins, and one that comes whole.
LEMMA GathersCall ==
  ASSUME NEW t, NEW u, t.completed \in Seq(CallRecs), NEW calls \in Seq(SaidCalls),
         Gathered(t, calls),
         NEW x \in SaidCalls, NEW id, id = Wire(Append(calls, x), Len(calls) + 1),
         id \notin Taken(t),
         u.pending = t.pending \cup {[id |-> id, args |-> x.args]}, u.completed = t.completed
  PROVE  Gathered(u, Append(calls, x))
<1> DEFINE all == Append(calls, x)
           n == Len(calls) + 1
           c == [id |-> id, args |-> x.args]
<1>1. /\ DOMAIN all = DOMAIN calls \cup {n} /\ all[n] = x
      /\ \A i \in DOMAIN calls : all[i] = calls[i]
  BY AppendIs
<1>2. /\ \A i \in DOMAIN calls : Wire(all, i) = Wire(calls, i)
      /\ Made(all) = Made(calls) \cup {c}
  BY MadeMore
<1>3. id = Wire(all, n) /\ u.pending = t.pending \cup {c} /\ c.id = id
  OBVIOUS
<1>4. id \notin seen /\ \A i \in DOMAIN calls : Wire(calls, i) # id
  BY GatheredIds DEF Taken
<1> HIDE DEF all, n, c
<1>5. u.pending \cup ToSet(u.completed) = Made(all)
  BY <1>2, <1>3 DEF Gathered
<1>6. \A i, j \in DOMAIN all : Wire(all, i) = Wire(all, j) => i = j
  BY <1>1, <1>2, <1>3, <1>4 DEF Gathered
<1>7. \A i \in DOMAIN all : Wire(all, i) \notin seen
  BY <1>1, <1>2, <1>3, <1>4 DEF Gathered
<1>8. \A j \in DOMAIN u.completed : \A d \in u.pending : u.completed[j].id # d.id
  <2>1. \A j \in DOMAIN t.completed : t.completed[j].id \in Taken(t)
    BY DEF Taken, ToSet
  <2> QED
    BY <1>3, <2>1 DEF Gathered
<1>9. \A j \in DOMAIN u.completed : \E i \in DOMAIN all :
        Wire(all, i) = u.completed[j].id /\ all[i].done
  BY <1>1, <1>2 DEF Gathered
<1>10. \A j, k \in DOMAIN u.completed : u.completed[j].id = u.completed[k].id => j = k
  BY DEF Gathered
<1>11. Gathered(u, all)
  BY <1>5, <1>6, <1>7, <1>8, <1>9, <1>10 DEF Gathered
<1> QED
  BY <1>11 DEF all

LEMMA GathersWhole ==
  ASSUME NEW t, NEW u, t.completed \in Seq(CallRecs), NEW calls \in Seq(SaidCalls),
         Gathered(t, calls),
         NEW x \in SaidCalls, x.done, NEW id \in WireIds,
         id = Wire(Append(calls, x), Len(calls) + 1),
         id \notin Taken(t),
         u.pending = t.pending, u.completed = Append(t.completed, [id |-> id, args |-> x.args])
  PROVE  Gathered(u, Append(calls, x))
<1> DEFINE all == Append(calls, x)
           n == Len(calls) + 1
           c == [id |-> id, args |-> x.args]
           m == Len(t.completed) + 1
<1>1. /\ DOMAIN all = DOMAIN calls \cup {n} /\ all[n] = x
      /\ \A i \in DOMAIN calls : all[i] = calls[i]
  BY AppendIs
<1>2. /\ \A i \in DOMAIN calls : Wire(all, i) = Wire(calls, i)
      /\ Made(all) = Made(calls) \cup {c}
  BY MadeMore
<1>3. id = Wire(all, n) /\ u.completed = Append(t.completed, c) /\ c.id = id
  OBVIOUS
<1>4. id \notin seen /\ \A i \in DOMAIN calls : Wire(calls, i) # id
  BY GatheredIds DEF Taken
<1>5. c \in CallRecs
  BY DEF CallRecs, SaidCalls
<1> HIDE DEF all, n, c
<1>6. /\ DOMAIN u.completed = DOMAIN t.completed \cup {m} /\ u.completed[m] = c
      /\ \A i \in DOMAIN t.completed : u.completed[i] = t.completed[i]
      /\ ToSet(u.completed) = ToSet(t.completed) \cup {c}
  BY <1>3, <1>5, AppendIs, AppendedSet
<1> HIDE DEF m
<1>7. /\ \A j \in DOMAIN t.completed : t.completed[j].id \in Taken(t) /\ t.completed[j].id # id
      /\ \A d \in t.pending : d.id \in Taken(t) /\ d.id # id
  BY DEF Taken, ToSet
<1>8. u.pending \cup ToSet(u.completed) = Made(all)
  BY <1>2, <1>6 DEF Gathered
<1>9. \A i, j \in DOMAIN all : Wire(all, i) = Wire(all, j) => i = j
  BY <1>1, <1>2, <1>3, <1>4 DEF Gathered
<1>10. \A i \in DOMAIN all : Wire(all, i) \notin seen
  BY <1>1, <1>2, <1>3, <1>4 DEF Gathered
<1>11. \A j \in DOMAIN u.completed : \A d \in u.pending : u.completed[j].id # d.id
  BY <1>3, <1>6, <1>7 DEF Gathered
<1>12. \A j \in DOMAIN u.completed : \E i \in DOMAIN all :
        Wire(all, i) = u.completed[j].id /\ all[i].done
  <2> TAKE j \in DOMAIN u.completed
  <2>1. CASE j = m
    <3>1. n \in DOMAIN all /\ Wire(all, n) = u.completed[j].id /\ all[n].done
      BY <1>1, <1>3, <1>6, <2>1
    <3> QED
      BY <3>1
  <2>2. CASE j \in DOMAIN t.completed
    <3>1. PICK i \in DOMAIN calls : Wire(calls, i) = t.completed[j].id /\ calls[i].done
      BY <2>2 DEF Gathered
    <3> QED
      BY <1>1, <1>2, <1>6, <2>2, <3>1
  <2> QED
    BY <1>6, <2>1, <2>2
<1>13. \A j, k \in DOMAIN u.completed : u.completed[j].id = u.completed[k].id => j = k
  BY <1>3, <1>6, <1>7 DEF Gathered
<1>14. Gathered(u, all)
  BY <1>8, <1>9, <1>10, <1>11, <1>12, <1>13 DEF Gathered
<1> QED
  BY <1>14 DEF all

\* The server says more of the calls in I: a piece of the arguments, or the end.
Added(calls, I, frag) ==
    [i \in DOMAIN calls |->
        IF i \in I THEN [calls[i] EXCEPT !.args = Append(@, frag)] ELSE calls[i]]
Finished(calls, I) ==
    [i \in DOMAIN calls |-> IF i \in I THEN [calls[i] EXCEPT !.done = TRUE] ELSE calls[i]]

LEMMA AddedIs ==
  ASSUME NEW calls \in Seq(SaidCalls), NEW I, NEW frag \in Frags
  PROVE  /\ Added(calls, I, frag) \in Seq(SaidCalls)
         /\ DOMAIN Added(calls, I, frag) = DOMAIN calls
         /\ Len(Added(calls, I, frag)) = Len(calls)
         /\ \A i \in DOMAIN calls :
              /\ Added(calls, I, frag)[i].slot = calls[i].slot
              /\ Added(calls, I, frag)[i].id = calls[i].id
              /\ Added(calls, I, frag)[i].done = calls[i].done
              /\ Added(calls, I, frag)[i].args =
                   IF i \in I THEN Append(calls[i].args, frag) ELSE calls[i].args
              /\ Wire(Added(calls, I, frag), i) = Wire(calls, i)
<1>1. DOMAIN Added(calls, I, frag) = 1 .. Len(calls) /\ DOMAIN calls = 1 .. Len(calls)
      /\ Len(calls) \in Nat
  BY DEF Added
<1>2. ASSUME NEW i \in DOMAIN calls
      PROVE  /\ Added(calls, I, frag)[i].slot = calls[i].slot
             /\ Added(calls, I, frag)[i].id = calls[i].id
             /\ Added(calls, I, frag)[i].done = calls[i].done
             /\ Added(calls, I, frag)[i].args =
                  IF i \in I THEN Append(calls[i].args, frag) ELSE calls[i].args
             /\ Added(calls, I, frag)[i] \in SaidCalls
  <2>1. calls[i] \in SaidCalls
    BY <1>2
  <2>2. Append(calls[i].args, frag) \in Seq(Frags)
    BY <2>1 DEF SaidCalls
  <2>3. Added(calls, I, frag)[i] =
          IF i \in I THEN [calls[i] EXCEPT !.args = Append(calls[i].args, frag)] ELSE calls[i]
    BY <1>2 DEF Added
  <2> QED
    BY <2>1, <2>2, <2>3 DEF SaidCalls
<1>3. Added(calls, I, frag) \in [1 .. Len(calls) -> SaidCalls]
  BY <1>1, <1>2 DEF Added
<1>4. Added(calls, I, frag) \in Seq(SaidCalls) /\ Len(Added(calls, I, frag)) = Len(calls)
  BY <1>1, <1>3
<1> QED
  BY <1>1, <1>2, <1>4 DEF Wire

LEMMA FinishedIs ==
  ASSUME NEW calls \in Seq(SaidCalls), NEW I
  PROVE  /\ Finished(calls, I) \in Seq(SaidCalls)
         /\ DOMAIN Finished(calls, I) = DOMAIN calls
         /\ Len(Finished(calls, I)) = Len(calls)
         /\ \A i \in DOMAIN calls :
              /\ Finished(calls, I)[i].slot = calls[i].slot
              /\ Finished(calls, I)[i].id = calls[i].id
              /\ Finished(calls, I)[i].args = calls[i].args
              /\ Finished(calls, I)[i].done = (i \in I \/ calls[i].done)
              /\ Wire(Finished(calls, I), i) = Wire(calls, i)
<1>1. DOMAIN Finished(calls, I) = 1 .. Len(calls) /\ DOMAIN calls = 1 .. Len(calls)
      /\ Len(calls) \in Nat
  BY DEF Finished
<1>2. ASSUME NEW i \in DOMAIN calls
      PROVE  /\ Finished(calls, I)[i].slot = calls[i].slot
             /\ Finished(calls, I)[i].id = calls[i].id
             /\ Finished(calls, I)[i].args = calls[i].args
             /\ Finished(calls, I)[i].done = (i \in I \/ calls[i].done)
             /\ Finished(calls, I)[i] \in SaidCalls
  <2>1. calls[i] \in SaidCalls
    BY <1>2
  <2>2. Finished(calls, I)[i] = IF i \in I THEN [calls[i] EXCEPT !.done = TRUE] ELSE calls[i]
    BY <1>2 DEF Finished
  <2> QED
    BY <2>1, <2>2 DEF SaidCalls
<1>3. Finished(calls, I) \in [1 .. Len(calls) -> SaidCalls]
  BY <1>1, <1>2 DEF Finished
<1>4. Finished(calls, I) \in Seq(SaidCalls) /\ Len(Finished(calls, I)) = Len(calls)
  BY <1>1, <1>3
<1> QED
  BY <1>1, <1>2, <1>4 DEF Wire

LEMMA Longer ==
  ASSUME NEW A, NEW B, NEW r \in [id : A, args : B], NEW x \in B
  PROVE  [r EXCEPT !.args = x] = [id |-> r.id, args |-> x]
  OBVIOUS

\* A piece of arguments reaches the call that has the ID.
LEMMA GathersArgs ==
  ASSUME NEW t, NEW u, t.pending \subseteq CallRecs,
         NEW calls \in Seq(SaidCalls), Gathered(t, calls),
         NEW id, NEW frag \in Frags, Mine(t, id) # {},
         u.pending = Extended(t.pending, id, <<frag>>),
         u.completed = t.completed
  PROVE  Gathered(u, Added(calls, {i \in DOMAIN calls : Wire(calls, i) = id}, frag))
<1> DEFINE I == {i \in DOMAIN calls : Wire(calls, i) = id}
           all == Added(calls, I, frag)
           up(c) == IF c.id = id THEN [c EXCEPT !.args = @ \o <<frag>>] ELSE c
           rec(i) == [id |-> Wire(calls, i), args |-> calls[i].args]
<1>1. /\ DOMAIN all = DOMAIN calls
      /\ \A i \in DOMAIN calls :
           /\ all[i].done = calls[i].done /\ Wire(all, i) = Wire(calls, i)
           /\ all[i].args = IF i \in I THEN Append(calls[i].args, frag) ELSE calls[i].args
  BY AddedIs
<1>2. PICK d \in t.pending : d.id = id
  BY DEF Mine
<1>3. \A j \in DOMAIN t.completed : t.completed[j].id # id
  BY <1>2 DEF Gathered
<1>4. \A c \in ToSet(t.completed) : up(c) = c
  BY <1>3 DEF ToSet
<1>5. ASSUME NEW i \in DOMAIN calls
      PROVE  up(rec(i)) = [id |-> Wire(all, i), args |-> all[i].args]
  <2>1. rec(i).id = Wire(calls, i) /\ rec(i).args = calls[i].args
    OBVIOUS
  <2>2. calls[i].args \in Seq(Frags)
    <3>1. calls[i] \in SaidCalls
      BY <1>5
    <3> QED
      BY <3>1 DEF SaidCalls
  <2>3. calls[i].args \o <<frag>> = Append(calls[i].args, frag)
    BY <2>2
  <2>4. up(rec(i)) = IF Wire(calls, i) = id
          THEN [id |-> Wire(calls, i), args |-> calls[i].args \o <<frag>>] ELSE rec(i)
    <3>1. [rec(i) EXCEPT !.args = @ \o <<frag>>] =
            [id |-> Wire(calls, i), args |-> calls[i].args \o <<frag>>]
      <4> DEFINE x == calls[i].args \o <<frag>>
      <4>1. x \in Seq(Frags) /\ rec(i) \in [id : {Wire(calls, i)}, args : Seq(Frags)]
        BY <2>2
      <4>2. [rec(i) EXCEPT !.args = x] = [id |-> rec(i).id, args |-> x]
        <5> HIDE DEF x, rec
        <5> QED
          BY <4>1, Longer
      <4> QED
        BY <2>1, <4>2
    <3> HIDE DEF rec
    <3> QED
      BY <2>1, <3>1
  <2>5. i \in I <=> Wire(calls, i) = id
    BY <1>5
  <2> HIDE DEF up, all
  <2> QED
    BY <1>1, <1>5, <2>3, <2>4, <2>5
<1> HIDE DEF all
<1>6. Made(all) = {up(rec(i)) : i \in DOMAIN calls}
  <2> HIDE DEF up, rec
  <2> QED
    BY <1>1, <1>5 DEF Made
<1>7. Made(calls) = {rec(i) : i \in DOMAIN calls}
  BY DEF Made
<1>8. u.pending = {up(c) : c \in t.pending}
  BY DEF Extended
<1>9. u.pending \cup ToSet(u.completed) = Made(all)
  <2>1. t.pending \cup ToSet(t.completed) = Made(calls)
    BY DEF Gathered
  <2> HIDE DEF up, rec
  <2>2. Made(all) = {up(c) : c \in Made(calls)}
    BY <1>6, <1>7
  <2>3. {up(c) : c \in ToSet(t.completed)} = ToSet(t.completed)
    BY <1>4
  <2>4. u.pending \cup ToSet(u.completed) = {up(c) : c \in t.pending \cup ToSet(t.completed)}
    BY <1>8, <2>3
  <2> QED
    BY <2>1, <2>2, <2>4
<1>10. \A c \in u.pending : \E e \in t.pending : c.id = e.id
  <2> SUFFICES ASSUME NEW e \in t.pending PROVE up(e).id = e.id
    BY <1>8
  <2>1. e \in CallRecs
    OBVIOUS
  <2> QED
    BY <2>1 DEF CallRecs
<1>11. Gathered(u, all)
  <2> HIDE DEF I, up, rec
  <2>1. ASSUME NEW j \in DOMAIN u.completed, NEW c \in u.pending PROVE u.completed[j].id # c.id
    <3>1. PICK e \in t.pending : c.id = e.id
      BY <1>10
    <3>2. t.completed[j].id # e.id
      BY DEF Gathered
    <3> QED
      BY <3>1, <3>2
  <2>2. \A j \in DOMAIN u.completed : \E i \in DOMAIN all :
          Wire(all, i) = u.completed[j].id /\ all[i].done
    BY <1>1 DEF Gathered
  <2>3. \A i, j \in DOMAIN all : Wire(all, i) = Wire(all, j) => i = j
    BY <1>1 DEF Gathered
  <2>4. \A i \in DOMAIN all : Wire(all, i) \notin seen
    BY <1>1 DEF Gathered
  <2>5. \A j, k \in DOMAIN u.completed : u.completed[j].id = u.completed[k].id => j = k
    BY DEF Gathered
  <2> QED
    BY <1>9, <2>1, <2>2, <2>3, <2>4, <2>5 DEF Gathered
<1> QED
  BY <1>11 DEF all

LEMMA GathersEnded ==
  ASSUME NEW t, NEW calls \in Seq(SaidCalls), Gathered(t, calls), NEW I
  PROVE  Gathered(t, Finished(calls, I))
<1>1. /\ DOMAIN Finished(calls, I) = DOMAIN calls
      /\ \A i \in DOMAIN calls :
           /\ Finished(calls, I)[i].args = calls[i].args
           /\ calls[i].done => Finished(calls, I)[i].done
           /\ Wire(Finished(calls, I), i) = Wire(calls, i)
  <2> SUFFICES ASSUME NEW i \in DOMAIN calls, calls[i].done PROVE Finished(calls, I)[i].done
    BY FinishedIs
  <2>1. Finished(calls, I)[i].done = (i \in I \/ calls[i].done)
    BY FinishedIs
  <2> QED
    BY <2>1
<1>2. Made(Finished(calls, I)) = Made(calls)
  BY <1>1 DEF Made
<1> QED
  BY <1>1, <1>2 DEF Gathered

\* A call that ends is moved to the completed ones.
LEMMA GathersEnd ==
  ASSUME NEW t, NEW u, t.pending \subseteq CallRecs, t.completed \in Seq(CallRecs),
         NEW calls \in Seq(SaidCalls), Gathered(t, calls),
         NEW id, Mine(t, id) # {}, \A i \in DOMAIN calls : Wire(calls, i) = id => calls[i].done,
         u.pending = t.pending \ Mine(t, id),
         u.completed = Append(t.completed, CHOOSE c \in Mine(t, id) : TRUE)
  PROVE  Gathered(u, calls)
<1> DEFINE c == CHOOSE x \in Mine(t, id) : TRUE
           m == Len(t.completed) + 1
<1>1. c \in t.pending /\ c.id = id /\ c \in CallRecs
  <2>1. c \in Mine(t, id)
    OBVIOUS
  <2> QED
    BY <2>1 DEF Mine
<1>2. u.completed = Append(t.completed, c)
  OBVIOUS
<1> HIDE DEF c
<1>3. /\ DOMAIN u.completed = DOMAIN t.completed \cup {m} /\ u.completed[m] = c
      /\ \A i \in DOMAIN t.completed : u.completed[i] = t.completed[i]
      /\ ToSet(u.completed) = ToSet(t.completed) \cup {c}
  <2>1. /\ DOMAIN Append(t.completed, c) = DOMAIN t.completed \cup {m}
        /\ Append(t.completed, c)[m] = c
        /\ \A i \in DOMAIN t.completed : Append(t.completed, c)[i] = t.completed[i]
        /\ ToSet(Append(t.completed, c)) = ToSet(t.completed) \cup {c}
    BY ONLY t.completed \in Seq(CallRecs), <1>1, AppendIs, AppendedSet
  <2> HIDE DEF m
  <2> QED
    BY <1>2, <2>1
<1> HIDE DEF m
<1>4. t.pending \cup ToSet(t.completed) = Made(calls)
  BY DEF Gathered
<1>5. PICK i \in DOMAIN calls : c = [id |-> Wire(calls, i), args |-> calls[i].args]
  BY <1>1, <1>4 DEF Made
<1>6. Wire(calls, i) = id /\ calls[i].done
  BY <1>1, <1>5
<1>7. Mine(t, id) = {c}
  <2> SUFFICES ASSUME NEW d \in t.pending, d.id = id PROVE d = c
    BY <1>1 DEF Mine
  <2>1. PICK k \in DOMAIN calls : d = [id |-> Wire(calls, k), args |-> calls[k].args]
    BY <1>4 DEF Made
  <2>2. Wire(calls, k) = id
    BY <2>1
  <2>3. k = i
    BY <1>6, <2>2 DEF Gathered
  <2> QED
    BY <1>5, <2>1, <2>3
<1>8. u.pending \cup ToSet(u.completed) = Made(calls)
  BY <1>1, <1>3, <1>4, <1>7
<1>9. ASSUME NEW j \in DOMAIN u.completed, NEW d \in u.pending PROVE u.completed[j].id # d.id
  <2>1. d \in t.pending /\ d.id # id
    BY DEF Mine
  <2>2. CASE j = m
    BY <1>1, <1>3, <2>1, <2>2
  <2>3. CASE j \in DOMAIN t.completed
    BY <1>3, <2>1, <2>3 DEF Gathered
  <2> QED
    BY <1>3, <2>2, <2>3
<1>10. ASSUME NEW j \in DOMAIN u.completed
       PROVE  \E k \in DOMAIN calls : Wire(calls, k) = u.completed[j].id /\ calls[k].done
  <2>1. CASE j = m
    BY <1>1, <1>3, <1>6, <2>1
  <2>2. CASE j \in DOMAIN t.completed
    BY <1>3, <2>2 DEF Gathered
  <2> QED
    BY <1>3, <2>1, <2>2
<1>11. ASSUME NEW j \in DOMAIN u.completed, NEW k \in DOMAIN u.completed,
              u.completed[j].id = u.completed[k].id
       PROVE  j = k
  <2>1. ASSUME NEW l \in DOMAIN t.completed PROVE u.completed[l].id # u.completed[m].id
    <3>1. t.completed[l].id # c.id
      BY <1>1 DEF Gathered
    <3> QED
      BY <1>3, <3>1
  <2>2. \A l, n \in DOMAIN t.completed : u.completed[l].id = u.completed[n].id => l = n
    BY <1>3 DEF Gathered
  <2> QED
    BY <1>3, <1>11, <2>1, <2>2
<1> QED
  BY <1>8, <1>9, <1>10, <1>11 DEF Gathered

-----------------------------------------------------------------------------
(* What a parser remembers, against what the server has sent.              *)

LEMMA CallIs ==
  ASSUME NEW id \in Ids
  PROVE  Call(id) \in Blocks /\ Call(id).id = id /\ Call(id).args = <<>>
         /\ Call(id).ended = FALSE /\ id # None
  BY TurnAssumption DEF Call, Blocks

LEMMA TookIs ==
  ASSUME NEW p \in Parsers, NEW s \in Slots, NEW id \in Ids
  PROVE  /\ Took(p, s, id) \in Parsers
         /\ Took(p, s, id).started = p.started /\ Took(p, s, id).reason = p.reason
         /\ Took(p, s, id).ended = p.ended /\ Took(p, s, id).count = p.count
         /\ Took(p, s, id).calls = [p.calls EXCEPT ![s] = Call(id)]
<1>1. [p.calls EXCEPT ![s] = Call(id)] \in [Slots -> Blocks]
  BY CallIs DEF Parsers
<1>2. Took(p, s, id) = [p EXCEPT !.calls = [p.calls EXCEPT ![s] = Call(id)]]
  BY DEF Took
<1> QED
  BY <1>1, <1>2 DEF Parsers

LEMMA TookCalls ==
  ASSUME NEW p \in Parsers, NEW s \in Slots, NEW id \in Ids
  PROVE  \A r \in Slots : Took(p, s, id).calls[r] = IF r = s THEN Call(id) ELSE p.calls[r]
<1>1. Took(p, s, id).calls = [p.calls EXCEPT ![s] = Call(id)]
  BY TookIs
<1>2. p.calls \in [Slots -> Blocks]
  BY DEF Parsers
<1> QED
  BY <1>1, <1>2

LEMMA StoppedCalls ==
  ASSUME NEW p \in Parsers, NEW s \in Slots, NEW r \in Slots
  PROVE  /\ Stopped(p, s).calls[r].id = p.calls[r].id
         /\ Stopped(p, s).calls[r].args = p.calls[r].args
         /\ Stopped(p, s).calls[r].ended = IF r = s THEN TRUE ELSE p.calls[r].ended
<1> DEFINE b == [p.calls[s] EXCEPT !.ended = TRUE]
           new == [p.calls EXCEPT ![s] = b]
<1>1. p.calls \in [Slots -> Blocks] /\ p.calls[s] \in Blocks
  BY DEF Parsers
<1>2. b \in Blocks /\ b.id = p.calls[s].id /\ b.args = p.calls[s].args /\ b.ended = TRUE
  BY <1>1 DEF Blocks
<1>3. Stopped(p, s).calls = new
  BY DEF Stopped, Parsers
<1> HIDE DEF b
<1>4. new[r] = IF r = s THEN b ELSE p.calls[r]
  BY <1>1
<1> HIDE DEF new
<1> QED
  BY <1>2, <1>3, <1>4

LEMMA StoppedIs ==
  ASSUME NEW p \in Parsers, NEW s \in Slots
  PROVE  /\ Stopped(p, s) \in Parsers
         /\ Stopped(p, s).started = p.started /\ Stopped(p, s).reason = p.reason
         /\ Stopped(p, s).ended = p.ended /\ Stopped(p, s).count = p.count
<1> DEFINE b == [p.calls[s] EXCEPT !.ended = TRUE]
           new == [p.calls EXCEPT ![s] = b]
<1>1. p.calls \in [Slots -> Blocks] /\ p.calls[s] \in Blocks
  BY DEF Parsers
<1>2. b \in Blocks
  BY <1>1 DEF Blocks
<1>3. Stopped(p, s) = [p EXCEPT !.calls = new]
  BY DEF Stopped
<1> HIDE DEF b
<1>4. new \in [Slots -> Blocks]
  BY <1>1, <1>2
<1> HIDE DEF new
<1> QED
  BY <1>3, <1>4 DEF Parsers

LEMMA IndexedMore ==
  ASSUME NEW p \in Parsers, NEW calls \in Seq(SaidCalls), Indexed(p, calls),
         NEW s \in Slots, NEW id \in Ids
  PROVE  /\ Said(s, id, <<>>, FALSE) \in SaidCalls
         /\ Indexed(Took(p, s, id), Append(calls, Said(s, id, <<>>, FALSE)))
<1> DEFINE q == Took(p, s, id)
           x == Said(s, id, <<>>, FALSE)
           all == Append(calls, x)
           n == Len(calls) + 1
<1>1. x \in SaidCalls /\ x.slot = s /\ x.id = id
  BY DEF Said, SaidCalls
<1>2. \A r \in Slots : q.calls[r].id = IF r = s THEN id ELSE p.calls[r].id
  <2>1. \A r \in Slots : q.calls[r] = IF r = s THEN Call(id) ELSE p.calls[r]
    BY TookCalls
  <2>2. Call(id).id = id
    BY CallIs
  <2> HIDE DEF q
  <2> QED
    BY <2>1, <2>2
<1>3. id # None
  BY CallIs
<1> HIDE DEF q, x
<1>4. /\ DOMAIN all = DOMAIN calls \cup {n} /\ all[n] = x /\ n \notin DOMAIN calls
      /\ \A i \in DOMAIN calls : all[i] = calls[i] /\ i <= n /\ i \in Nat
      /\ n \in Nat
  BY <1>1, AppendIs
<1> HIDE DEF all, n
<1>5. \A r \in Slots : Known(q, r) <=> (r = s \/ Known(p, r))
  BY <1>2, <1>3 DEF Known
<1>6. \A i \in DOMAIN all : all[i].id \in Ids /\ all[i].slot \in Slots
  BY <1>1, <1>4 DEF Indexed
<1>7. ASSUME NEW r \in Slots, Known(q, r)
      PROVE  \E i \in DOMAIN all : Newest(all, r, i) /\ q.calls[r].id = all[i].id
  <2>1. CASE r = s
    <3>1. Newest(all, r, n) /\ q.calls[r].id = all[n].id
      BY <1>1, <1>2, <1>4, <2>1 DEF Newest
    <3> QED
      BY <1>4, <3>1
  <2>2. CASE r # s
    <3>1. PICK i \in DOMAIN calls : Newest(calls, r, i) /\ p.calls[r].id = calls[i].id
      BY <1>5, <1>7, <2>2 DEF Indexed
    <3>2. Newest(all, r, i)
      BY <1>1, <1>4, <2>2, <3>1 DEF Newest
    <3> QED
      BY <1>2, <1>4, <2>2, <3>1, <3>2
  <2> QED
    BY <2>1, <2>2
<1>8. ASSUME NEW r \in Slots, ~Known(q, r) PROVE \A i \in DOMAIN all : all[i].slot # r
  BY <1>1, <1>4, <1>5, <1>8 DEF Indexed
<1>9. Indexed(q, all)
  BY <1>6, <1>7, <1>8 DEF Indexed
<1> QED
  BY <1>1, <1>9 DEF q, x, all

LEMMA IndexedSame ==
  ASSUME NEW p, NEW q, NEW calls, NEW all, Indexed(p, calls),
         \A s \in Slots : q.calls[s].id = p.calls[s].id,
         DOMAIN all = DOMAIN calls,
         \A i \in DOMAIN calls : all[i].id = calls[i].id /\ all[i].slot = calls[i].slot
  PROVE  Indexed(q, all)
<1>1. \A s \in Slots : Known(q, s) <=> Known(p, s)
  BY DEF Known
<1>2. \A s, i : Newest(all, s, i) <=> Newest(calls, s, i)
  BY DEF Newest
<1>3. \A i \in DOMAIN all : all[i].id \in Ids /\ all[i].slot \in Slots
  BY DEF Indexed
<1>4. ASSUME NEW s \in Slots, Known(q, s)
      PROVE  \E i \in DOMAIN all : Newest(all, s, i) /\ q.calls[s].id = all[i].id
  <2>1. PICK i \in DOMAIN calls : Newest(calls, s, i) /\ p.calls[s].id = calls[i].id
    BY <1>1, <1>4 DEF Indexed
  <2> QED
    BY <1>2, <2>1
<1>5. ASSUME NEW s \in Slots, ~Known(q, s) PROVE \A i \in DOMAIN all : all[i].slot # s
  BY <1>1, <1>5 DEF Indexed
<1> QED
  BY <1>3, <1>4, <1>5 DEF Indexed

\* An address of the wire means one call to the server and to the parser.
Target(p, a) == IF Known(p, a) THEN p.calls[a].id ELSE a

LEMMA AddressedIs ==
  ASSUME NEW t, NEW p, NEW calls \in Seq(SaidCalls), Indexed(p, calls), Gathered(t, calls),
         NEW a \in Slots \cup Ids
  PROVE  Addressed(calls, a) = {i \in DOMAIN calls : Wire(calls, i) = Target(p, a)}
<1> DEFINE bySlot == {i \in DOMAIN calls : calls[i].slot = a}
           byId == {i \in DOMAIN calls : calls[i].id = a}
<1>1. \A i \in DOMAIN calls : calls[i].id \in Ids /\ calls[i].slot \in Slots /\ i \in Nat
                              /\ Wire(calls, i) = calls[i].id
  BY TurnAssumption DEF Indexed, Wire
<1>2. \A i, j \in DOMAIN calls : calls[i].id = calls[j].id => i = j
  BY <1>1 DEF Gathered
<1>3. CASE Known(p, a)
  <2>1. PICK i \in DOMAIN calls : Newest(calls, a, i) /\ p.calls[a].id = calls[i].id
    BY <1>3 DEF Indexed, Known
  <2>2. Addressed(calls, a) = {j \in bySlot : \A k \in bySlot : k <= j}
    BY <2>1 DEF Addressed, Newest
  <2>3. {j \in bySlot : \A k \in bySlot : k <= j} = {i}
    BY <1>1, <2>1 DEF Newest
  <2>4. {j \in DOMAIN calls : Wire(calls, j) = Target(p, a)} = {i}
    BY <1>1, <1>2, <1>3, <2>1 DEF Target
  <2> QED
    BY <2>2, <2>3, <2>4
<1>4. CASE ~Known(p, a)
  <2>1. bySlot = {}
    BY <1>1, <1>4, TurnAssumption DEF Indexed
  <2>2. Addressed(calls, a) = {j \in byId : \A k \in byId : k <= j}
    BY <2>1 DEF Addressed
  <2>3. {j \in byId : \A k \in byId : k <= j} = byId
    BY <1>1, <1>2
  <2>4. {j \in DOMAIN calls : Wire(calls, j) = Target(p, a)} = byId
    BY <1>1, <1>4 DEF Target
  <2> QED
    BY <2>2, <2>3, <2>4
<1> QED
  BY <1>3, <1>4

\* A parser that keeps the calls: what the server says of one it has as well.
LEMMA KeptSame ==
  ASSUME NEW p, NEW q, NEW calls, KeptCalls(p, calls), q.calls = p.calls
  PROVE  KeptCalls(q, calls)
  BY DEF KeptCalls, KeptAs, Known

LEMMA KeptMore ==
  ASSUME NEW p \in Parsers, NEW calls \in Seq(SaidCalls), KeptCalls(p, calls),
         NEW s \in Slots, NEW id \in Ids, ~Known(p, s)
  PROVE  KeptCalls(Took(p, s, id), Append(calls, Said(s, id, <<>>, FALSE)))
<1> DEFINE q == Took(p, s, id)
           x == Said(s, id, <<>>, FALSE)
           all == Append(calls, x)
           n == Len(calls) + 1
<1>1. x \in SaidCalls /\ x.slot = s /\ x.id = id /\ x.args = <<>>
  BY DEF Said, SaidCalls
<1>2. /\ \A r \in Slots : q.calls[r] = IF r = s THEN Call(id) ELSE p.calls[r]
      /\ Call(id).id = id /\ Call(id).args = <<>> /\ Call(id).ended = FALSE /\ id # None
  <2>1. \A r \in Slots : q.calls[r] = IF r = s THEN Call(id) ELSE p.calls[r]
    BY TookCalls
  <2> HIDE DEF q
  <2> QED
    BY <2>1, CallIs
<1> HIDE DEF q, x
<1>3. /\ DOMAIN all = DOMAIN calls \cup {n} /\ all[n] = x /\ n \notin DOMAIN calls
      /\ \A i \in DOMAIN calls : all[i] = calls[i]
  BY <1>1, AppendIs
<1> HIDE DEF all, n
<1>4. \A i \in DOMAIN calls : calls[i].slot # s
  BY DEF KeptCalls, KeptAs
<1>5. ASSUME NEW i \in DOMAIN all PROVE KeptAs(q, all, i)
  <2>1. CASE i = n
    BY <1>1, <1>2, <1>3, <1>4, <2>1 DEF KeptAs, Known
  <2>2. CASE i \in DOMAIN calls
    <3>1. KeptAs(p, calls, i)
      BY <2>2 DEF KeptCalls
    <3>2. q.calls[calls[i].slot] = p.calls[calls[i].slot]
      BY <1>2, <1>4, <2>2, <3>1 DEF KeptAs
    <3> QED
      BY <1>1, <1>3, <1>4, <2>2, <3>1, <3>2 DEF KeptAs, Known
  <2> QED
    BY <1>3, <2>1, <2>2
<1>6. ASSUME NEW r \in Slots, Known(q, r) PROVE \E i \in DOMAIN all : all[i].slot = r
  <2>1. CASE r = s
    BY <1>1, <1>3, <2>1
  <2>2. CASE r # s
    BY <1>2, <1>3, <1>6, <2>2 DEF KeptCalls, Known
  <2> QED
    BY <2>1, <2>2
<1>7. KeptCalls(q, all)
  BY <1>5, <1>6 DEF KeptCalls
<1> QED
  BY <1>7 DEF q, all, x

\* An index means the one call that the parser keeps under it.
LEMMA AddressedKept ==
  ASSUME NEW p, NEW calls, KeptCalls(p, calls), NEW s, Known(p, s),
         \A i \in DOMAIN calls : i \in Nat
  PROVE  Addressed(calls, s) = {i \in DOMAIN calls : calls[i].slot = s}
<1>1. PICK i \in DOMAIN calls : calls[i].slot = s
  BY DEF KeptCalls, Known
<1>2. {k \in DOMAIN calls : calls[k].slot = s} = {i}
  BY <1>1 DEF KeptCalls, KeptAs
<1>3. Addressed(calls, s) = {k \in {i} : \A j \in {i} : j <= k}
  BY <1>2 DEF Addressed
<1> QED
  BY <1>2, <1>3

\* The parser changes the one block that the server's call has.
LEMMA KeptArgs ==
  ASSUME NEW p \in Parsers, NEW calls \in Seq(SaidCalls), KeptCalls(p, calls),
         NEW s \in Slots, Known(p, s), NEW frag \in Frags
  PROVE  LET q == [p EXCEPT !.calls[s].args = Append(@, frag)]
         IN  /\ q \in Parsers /\ q.ended = p.ended /\ q.reason = p.reason
             /\ KeptCalls(q, Added(calls, Addressed(calls, s), frag))
<1> DEFINE q == [p EXCEPT !.calls[s].args = Append(@, frag)]
           b == [p.calls[s] EXCEPT !.args = Append(@, frag)]
           new == [p.calls EXCEPT ![s] = b]
           I == Addressed(calls, s)
           all == Added(calls, I, frag)
<1>1. p.calls \in [Slots -> Blocks] /\ p.calls[s] \in Blocks
  BY DEF Parsers
<1>2. b \in Blocks /\ b.id = p.calls[s].id /\ b.args = Append(p.calls[s].args, frag)
      /\ b.ended = p.calls[s].ended
  <2>1. Append(p.calls[s].args, frag) \in Seq(Frags)
    BY <1>1 DEF Blocks
  <2> QED
    BY <1>1, <2>1 DEF Blocks
<1>3. q = [p EXCEPT !.calls = new]
  OBVIOUS
<1> HIDE DEF b
<1>4. /\ new \in [Slots -> Blocks] /\ new[s] = b
      /\ \A r \in Slots : r # s => new[r] = p.calls[r]
  BY <1>1, <1>2
<1> HIDE DEF new
<1>5. q \in Parsers /\ q.ended = p.ended /\ q.reason = p.reason /\ q.calls = new
  BY <1>3, <1>4 DEF Parsers
<1> HIDE DEF q
<1>6. \A i \in DOMAIN calls : i \in I <=> calls[i].slot = s
  BY AddressedKept
<1> HIDE DEF I
<1>7. /\ DOMAIN all = DOMAIN calls
      /\ \A i \in DOMAIN calls :
           /\ all[i].slot = calls[i].slot /\ all[i].id = calls[i].id
           /\ all[i].done = calls[i].done
           /\ all[i].args = IF i \in I THEN Append(calls[i].args, frag) ELSE calls[i].args
  BY AddedIs
<1> HIDE DEF all
<1>8. ASSUME NEW i \in DOMAIN all PROVE KeptAs(q, all, i)
  <2>1. KeptAs(p, calls, i) /\ i \in DOMAIN calls
    BY <1>7 DEF KeptCalls
  <2>2. CASE calls[i].slot = s
    <3>1. all[i].slot = s /\ all[i].id = calls[i].id /\ all[i].done = calls[i].done
          /\ all[i].args = Append(calls[i].args, frag)
      BY <1>6, <1>7, <2>1, <2>2
    <3>2. q.calls[s].id = p.calls[s].id /\ q.calls[s].args = Append(p.calls[s].args, frag)
          /\ q.calls[s].ended = p.calls[s].ended
      BY <1>2, <1>4, <1>5
    <3>3. \A j \in DOMAIN all : all[j].slot = calls[j].slot
      BY <1>7
    <3>4. /\ p.calls[s].id = calls[i].id /\ p.calls[s].args = calls[i].args
          /\ p.calls[s].id # None /\ (p.calls[s].ended => calls[i].done)
      BY <2>1, <2>2 DEF KeptAs, Known
    <3>5. \A j \in DOMAIN all : all[j].slot = s => j = i
      BY <1>7, <2>1, <2>2, <3>3 DEF KeptAs
    <3>6. Known(q, s)
      BY <3>2, <3>4 DEF Known
    <3> HIDE DEF Known
    <3> QED
      BY <3>1, <3>2, <3>4, <3>5, <3>6 DEF KeptAs
  <2>3. CASE calls[i].slot # s
    BY <1>4, <1>5, <1>6, <1>7, <2>1, <2>3 DEF KeptAs, Known
  <2> QED
    BY <2>2, <2>3
<1>9. ASSUME NEW r \in Slots, Known(q, r) PROVE \E i \in DOMAIN all : all[i].slot = r
  <2>1. Known(p, r)
    BY <1>2, <1>4, <1>5, <1>9 DEF Known
  <2>2. PICK i \in DOMAIN calls : calls[i].slot = r
    BY <2>1 DEF KeptCalls
  <2> QED
    BY <1>7, <2>2
<1>10. KeptCalls(q, all)
  BY <1>8, <1>9 DEF KeptCalls
<1> QED
  BY <1>5, <1>10 DEF q, I, all

LEMMA KeptStop ==
  ASSUME NEW p \in Parsers, NEW calls \in Seq(SaidCalls), KeptCalls(p, calls),
         NEW s \in Slots, Known(p, s)
  PROVE  KeptCalls(Stopped(p, s), Finished(calls, Addressed(calls, s)))
<1> DEFINE q == Stopped(p, s)
           I == Addressed(calls, s)
           all == Finished(calls, I)
<1>1. \A r \in Slots : /\ q.calls[r].id = p.calls[r].id /\ q.calls[r].args = p.calls[r].args
                       /\ q.calls[r].ended = IF r = s THEN TRUE ELSE p.calls[r].ended
  BY StoppedCalls
<1>2. \A i \in DOMAIN calls : i \in I <=> calls[i].slot = s
  BY AddressedKept
<1> HIDE DEF I, q
<1>3. /\ DOMAIN all = DOMAIN calls
      /\ \A i \in DOMAIN calls :
           /\ all[i].slot = calls[i].slot /\ all[i].id = calls[i].id
           /\ all[i].args = calls[i].args
           /\ all[i].done = (i \in I \/ calls[i].done)
  BY FinishedIs
<1> HIDE DEF all
<1>4. ASSUME NEW i \in DOMAIN all PROVE KeptAs(q, all, i)
  <2>1. KeptAs(p, calls, i) /\ i \in DOMAIN calls
    BY <1>3 DEF KeptCalls
  <2>2. all[i].done = (calls[i].slot = s \/ calls[i].done)
    BY <1>2, <1>3, <2>1
  <2>3. q.calls[calls[i].slot].ended => all[i].done
    BY <1>1, <2>1, <2>2 DEF KeptAs
  <2>4. all[i].slot = calls[i].slot /\ all[i].id = calls[i].id /\ all[i].args = calls[i].args
    BY <1>3, <2>1
  <2>5. \A j \in DOMAIN all : all[j].slot = calls[j].slot
    BY <1>3
  <2>6. q.calls[calls[i].slot].id = p.calls[calls[i].slot].id
        /\ q.calls[calls[i].slot].args = p.calls[calls[i].slot].args
    BY <1>1, <2>1 DEF KeptAs
  <2> QED
    BY <1>3, <2>1, <2>3, <2>4, <2>5, <2>6 DEF KeptAs, Known
<1>5. ASSUME NEW r \in Slots, Known(q, r) PROVE \E i \in DOMAIN all : all[i].slot = r
  <2>1. Known(p, r)
    BY <1>1, <1>5 DEF Known
  <2>2. PICK i \in DOMAIN calls : calls[i].slot = r
    BY <2>1 DEF KeptCalls
  <2> QED
    BY <1>3, <2>2
<1>6. KeptCalls(q, all)
  BY <1>4, <1>5 DEF KeptCalls
<1> QED
  BY <1>6 DEF q, I, all

LEMMA KeptEnded ==
  ASSUME NEW p, NEW calls \in Seq(SaidCalls), KeptCalls(p, calls), NEW I
  PROVE  KeptCalls(p, Finished(calls, I))
<1> DEFINE all == Finished(calls, I)
<1>1. /\ DOMAIN all = DOMAIN calls
      /\ \A i \in DOMAIN calls :
           /\ all[i].slot = calls[i].slot /\ all[i].id = calls[i].id
           /\ all[i].args = calls[i].args
  BY FinishedIs
<1>2. ASSUME NEW i \in DOMAIN calls, calls[i].done PROVE all[i].done
  <2>1. all[i].done = (i \in I \/ calls[i].done)
    BY FinishedIs
  <2> QED
    BY <1>2, <2>1
<1> HIDE DEF all
<1>3. ASSUME NEW i \in DOMAIN all PROVE KeptAs(p, all, i)
  <2>1. KeptAs(p, calls, i) /\ i \in DOMAIN calls
    BY <1>1 DEF KeptCalls
  <2> QED
    BY <1>1, <1>2, <2>1 DEF KeptAs
<1>4. KeptCalls(p, all)
  BY <1>1, <1>3 DEF KeptCalls
<1> QED
  BY <1>4 DEF all

-----------------------------------------------------------------------------
(* Streams of several events.                                              *)

LEMMA FailedReads ==
  ASSUME NEW s, NEW e, s.pc = "failed"
  PROVE  Reads(s, e).pc = "failed"
  BY DEF Reads

\* An image route's document.
LEMMA ReadsDocument ==
  ASSUME NEW t \in Turns, t.pc = "reading", NEW k \in {"open", "text", "image"},
         NEW u, u = ConsumeAll(t, <<Plain("open"), Plain(k), Finish("stop")>>),
         u.pc # "failed"
  PROVE  u \in Turns /\ u.pc = "reading" /\ u.pending = t.pending /\ u.completed = t.completed
<1> DEFINE evs == <<Plain("open"), Plain(k), Finish("stop")>>
           f == Steps(t, evs)
<1>1. Len(evs) = 3 /\ evs[1] = Plain("open") /\ evs[2] = Plain(k)
      /\ evs[3] = Finish("stop") /\ 3 \in Nat
  OBVIOUS
<1> HIDE DEF evs
<1>2. f[0] = t /\ f[1] = Reads(f[0], evs[1]) /\ f[2] = Reads(f[1], evs[2])
      /\ f[3] = Reads(f[2], evs[3]) /\ u = f[3]
  <2>1. Len(evs) \in Nat /\ 1 \in 1 .. Len(evs) /\ 2 \in 1 .. Len(evs)
        /\ 3 \in 1 .. Len(evs) /\ 1 - 1 = 0 /\ 2 - 1 = 1 /\ 3 - 1 = 2
    BY <1>1
  <2>2. /\ f[0] = t /\ ConsumeAll(t, evs) = f[Len(evs)]
        /\ \A n \in 1 .. Len(evs) : f[n] = Reads(f[n - 1], evs[n])
    BY <2>1, StepsAre
  <2>3. u = ConsumeAll(t, evs)
    BY DEF evs
  <2> HIDE DEF f
  <2> QED
    BY <1>1, <2>1, <2>2, <2>3
<1> HIDE DEF f
<1>3. f[2].pc # "failed" /\ f[1].pc # "failed"
  BY <1>2, FailedReads
<1>4. f[1] \in Turns /\ f[1].pc = "reading" /\ f[1].pending = t.pending
      /\ f[1].completed = t.completed
  BY <1>1, <1>2, <1>3, ReadsPlain DEF Keeps
<1>5. f[2] \in Turns /\ f[2].pc = "reading" /\ f[2].pending = t.pending
      /\ f[2].completed = t.completed
  BY <1>1, <1>2, <1>3, <1>4, ReadsPlain DEF Keeps
<1>6. "stop" \in Reasons \cup {None}
  BY DEF Reasons
<1> QED
  BY <1>1, <1>2, <1>5, <1>6, ReadsFinish

\* The ends of calls that the server has ended.
LEMMA ReadsEnds ==
  ASSUME NEW t \in Turns, t.pc = "reading", NEW calls \in Seq(SaidCalls), Gathered(t, calls),
         \A i \in DOMAIN calls : calls[i].done,
         NEW evs, Len(evs) \in Nat, \A n \in 1 .. Len(evs) : \E id : evs[n] = End(id),
         NEW u, u = ConsumeAll(t, evs), u.pc # "failed"
  PROVE  Keeps(u, t) /\ Gathered(u, calls)
<1> DEFINE f == Steps(t, evs)
           Good(s) == s.pc = "failed" \/ (Keeps(s, t) /\ Gathered(s, calls))
           S == {n \in 0 .. Len(evs) : Good(f[n])}
<1>1. /\ f[0] = t /\ u = f[Len(evs)]
      /\ \A n \in 1 .. Len(evs) : f[n] = Reads(f[n - 1], evs[n])
  BY StepsAre
<1> HIDE DEF f
<1>2. 0 \in S
  BY <1>1 DEF Keeps
<1>3. ASSUME NEW n \in 1 .. Len(evs), n - 1 \in S PROVE n \in S
  <2> DEFINE s == f[n - 1]
             r == f[n]
  <2>1. Good(s) /\ r = Reads(s, evs[n])
    BY <1>1, <1>3
  <2>2. PICK id : evs[n] = End(id)
    OBVIOUS
  <2> HIDE DEF s, r
  <2>3. CASE s.pc = "failed" \/ r.pc = "failed"
    <3>1. r.pc = "failed"
      BY <2>1, <2>3, FailedReads
    <3> QED
      BY <3>1 DEF r
  <2>4. CASE s.pc # "failed" /\ r.pc # "failed"
    <3>1. s \in Turns /\ s.pc = "reading" /\ s.reason = t.reason /\ Gathered(s, calls)
      BY <2>1, <2>4 DEF Keeps
    <3>2. /\ Keeps(r, s) /\ Mine(s, id) # {} /\ r.pending = s.pending \ Mine(s, id)
          /\ r.completed = Append(s.completed, CHOOSE c \in Mine(s, id) : TRUE)
      BY <2>1, <2>2, <2>4, <3>1, ReadsStop
    <3>3. Gathered(r, calls)
      <4>1. s.pending \subseteq CallRecs /\ s.completed \in Seq(CallRecs)
        BY <3>1 DEF Turns
      <4> QED
        BY <3>1, <3>2, <4>1, GathersEnd
    <3>4. Keeps(r, t)
      BY <3>1, <3>2 DEF Keeps
    <3> QED
      BY <3>3, <3>4 DEF r
  <2> QED
    BY <2>3, <2>4
<1>4. Len(evs) \in S
  <2>1. Len(evs) \in 0 .. Len(evs)
    OBVIOUS
  <2>2. \A n \in 1 .. Len(evs) : n - 1 \in S => n \in S
    BY ONLY <1>3
  <2> HIDE DEF S
  <2> QED
    BY <1>2, <2>1, <2>2, Induction
<1> QED
  BY <1>1, <1>4

\* Whole calls, to a turn that has none.
LEMMA ReadsWholes ==
  ASSUME NEW t \in Turns, t.pc = "reading", t.pending = {}, t.completed = <<>>,
         NEW evs, Len(evs) \in Nat,
         \A n \in 1 .. Len(evs) :
           \E id \in WireIds, args \in Seq(Frags) : evs[n] = Whole(id, args),
         NEW u, u = ConsumeAll(t, evs), u.pc # "failed"
  PROVE  /\ Keeps(u, t) /\ u.pending = {} /\ DOMAIN u.completed = 1 .. Len(evs)
         /\ \A n \in 1 .. Len(evs) :
              /\ u.completed[n] = [id |-> evs[n].id, args |-> evs[n].frags]
              /\ evs[n].id \notin seen
              /\ \A k \in 1 .. Len(evs) : evs[k].id = evs[n].id => k = n
<1> DEFINE f == Steps(t, evs)
           Rec(n) == [id |-> evs[n].id, args |-> evs[n].frags]
           Done(n, s) ==
             /\ Keeps(s, t) /\ s.pending = {} /\ Len(s.completed) = n
             /\ \A j \in 1 .. n :
                  /\ s.completed[j] = Rec(j) /\ evs[j].id \notin seen
                  /\ \A k \in 1 .. n : evs[k].id = evs[j].id => k = j
           S == {n \in 0 .. Len(evs) : f[n].pc = "failed" \/ Done(n, f[n])}
<1>1. /\ f[0] = t /\ u = f[Len(evs)]
      /\ \A n \in 1 .. Len(evs) : f[n] = Reads(f[n - 1], evs[n])
  BY StepsAre
<1> HIDE DEF f
<1>2. 0 \in S
  BY <1>1 DEF Keeps
<1>3. ASSUME NEW n \in 1 .. Len(evs), n - 1 \in S PROVE n \in S
  <2> DEFINE s == f[n - 1]
             r == f[n]
  <2>1. (s.pc = "failed" \/ Done(n - 1, s)) /\ r = Reads(s, evs[n])
    BY <1>1, <1>3
  <2>2. PICK id \in WireIds, args \in Seq(Frags) : evs[n] = Whole(id, args)
    OBVIOUS
  <2>3. Rec(n) = [id |-> id, args |-> args] /\ evs[n].id = id
    BY <2>2 DEF Whole
  <2> HIDE DEF s, r, Rec
  <2>4. CASE s.pc = "failed" \/ r.pc = "failed"
    <3>1. r.pc = "failed"
      BY <2>1, <2>4, FailedReads
    <3> QED
      BY <3>1 DEF r
  <2>5. CASE s.pc # "failed" /\ r.pc # "failed"
    <3>1. Done(n - 1, s) /\ s \in Turns /\ s.pc = "reading" /\ s.reason = t.reason
      BY <2>1, <2>5 DEF Keeps
    <3>2. /\ Keeps(r, s) /\ id \notin Taken(s) /\ r.pending = s.pending
          /\ r.completed = Append(s.completed, Rec(n))
      <4>1. r = Reads(s, Whole(id, args))
        BY <2>1, <2>2
      <4> HIDE DEF Done
      <4> QED
        BY <2>3, <2>5, <3>1, <4>1, ReadsWhole
    <3>3. s.completed \in Seq(CallRecs) /\ Rec(n) \in CallRecs
      BY <2>3, <3>1 DEF Turns, CallRecs
    <3>4. /\ Len(r.completed) = n /\ r.completed[n] = Rec(n)
          /\ \A j \in 1 .. n - 1 : r.completed[j] = Rec(j)
      BY <3>1, <3>2, <3>3
    <3>5. id \notin seen /\ \A j \in 1 .. n - 1 : evs[j].id # id
      <4>0. DOMAIN s.completed = 1 .. n - 1 /\ \A j \in 1 .. n - 1 : s.completed[j] = Rec(j)
        BY <3>1, <3>3
      <4>1. \A j \in 1 .. n - 1 : s.completed[j].id \in Taken(s)
        <5> HIDE DEF Done
        <5> QED
          BY <4>0 DEF Taken, ToSet
      <4>2. \A j \in 1 .. n - 1 : s.completed[j].id = evs[j].id
        <5> HIDE DEF Done
        <5>1. \A j : Rec(j).id = evs[j].id
          BY DEF Rec
        <5> QED
          BY <4>0, <5>1
      <4> QED
        BY <3>2, <4>1, <4>2 DEF Taken
    <3>6. ASSUME NEW j \in 1 .. n
          PROVE  /\ r.completed[j] = Rec(j) /\ evs[j].id \notin seen
                 /\ \A k \in 1 .. n : evs[k].id = evs[j].id => k = j
      <4>1. \A i \in 1 .. n - 1 : evs[i].id \notin seen
              /\ \A k \in 1 .. n - 1 : evs[k].id = evs[i].id => k = i
        BY <3>1
      <4>2. r.completed[j] = Rec(j)
        BY ONLY <3>4, j \in 1 .. n, n \in Nat
      <4>3. evs[n].id = id /\ n \in Nat
        BY <2>3
      <4>4. evs[j].id \notin seen
        BY ONLY <3>5, <4>1, <4>3, j \in 1 .. n
      <4>5. \A k \in 1 .. n : evs[k].id = evs[j].id => k = j
        BY ONLY <3>5, <4>1, <4>3, j \in 1 .. n
      <4> HIDE DEF r, Rec
      <4> QED
        BY <4>2, <4>4, <4>5
    <3>7. Keeps(r, t) /\ r.pending = {}
      BY <3>1, <3>2 DEF Keeps
    <3>8. Done(n, r)
      BY <3>4, <3>6, <3>7
    <3> HIDE DEF Done
    <3> QED
      BY <3>8 DEF r
  <2> QED
    BY <2>4, <2>5
<1>4. Len(evs) \in S
  <2>1. Len(evs) \in 0 .. Len(evs)
    OBVIOUS
  <2>2. \A n \in 1 .. Len(evs) : n - 1 \in S => n \in S
    BY ONLY <1>3
  <2> HIDE DEF S
  <2> QED
    BY <1>2, <2>1, <2>2, Induction
<1>5. Done(Len(evs), u)
  BY <1>1, <1>4
<1>6. DOMAIN u.completed = 1 .. Len(evs)
  BY <1>5 DEF Keeps, Turns
<1> QED
  BY <1>5, <1>6

\* The calls a parser knows, each once.
LEMMA OpenIs ==
  ASSUME NEW p, NEW calls \in Seq(SaidCalls),
         \A s \in Slots : Known(p, s) => \E i \in DOMAIN calls : calls[i].slot = s
  PROVE  /\ Len(Open(p)) \in Nat /\ DOMAIN Open(p) = 1 .. Len(Open(p))
         /\ \A n \in DOMAIN Open(p) : Open(p)[n] \in Slots /\ Known(p, Open(p)[n])
         /\ \A m, n \in DOMAIN Open(p) : Open(p)[m] = Open(p)[n] => m = n
         /\ \A s \in Slots : Known(p, s) => \E n \in DOMAIN Open(p) : Open(p)[n] = s
<1> DEFINE K == {s \in Slots : Known(p, s)}
           T == {calls[i].slot : i \in 1 .. Len(calls)}
           g == [i \in 1 .. Len(calls) |-> calls[i].slot]
<1>1. IsFiniteSet(K)
  <2>1. g \in Surjection(1 .. Len(calls), T)
    BY DEF Surjection
  <2>2. IsFiniteSet(1 .. Len(calls))
    BY FS_Interval
  <2>3. IsFiniteSet(T)
    <3> HIDE DEF g, T
    <3> QED
      BY <2>1, <2>2, FS_Surjection
  <2>4. K \in SUBSET T
    OBVIOUS
  <2> HIDE DEF K, T
  <2> QED
    BY <2>3, <2>4, FS_Subset
<1> DEFINE c == Cardinality(K)
           f == Open(p)
<1> HIDE DEF K
<1>2. c \in Nat /\ ExistsBijection(1 .. c, K)
  BY <1>1, FS_CardinalityType
<1>3. PICK h \in [1 .. c -> K] : \A a, b \in 1 .. c : h[a] = h[b] => a = b
  BY <1>2 DEF ExistsBijection, Bijection, Injection, IsInjective
<1>4. f = CHOOSE x \in [1 .. c -> K] : IsInjective(x)
  BY DEF Open, SetToSeq, K
<1>5. IsInjective(h)
  BY <1>3 DEF IsInjective
<1>6. f \in [1 .. c -> K] /\ IsInjective(f)
  <2> HIDE DEF f, c
  <2> QED
    BY <1>3, <1>4, <1>5
<1> HIDE DEF f, c
<1>7. \A a, b \in 1 .. c : f[a] = f[b] => a = b
  BY <1>6 DEF IsInjective
<1>8. f \in Surjection(1 .. c, K)
  <2>1. f \in Injection(1 .. c, K)
    BY <1>6, <1>7 DEF Injection, IsInjective
  <2>2. Cardinality(1 .. c) = Cardinality(K)
    BY <1>2, FS_Interval DEF c
  <2> QED
    BY <1>1, <2>1, <2>2, FS_Injection
<1>9. \A s \in K : \E n \in 1 .. c : f[n] = s
  BY <1>8 DEF Surjection
<1>10. Len(f) = c /\ DOMAIN f = 1 .. c
  BY <1>2, <1>6
<1> QED
  BY <1>2, <1>6, <1>7, <1>9, <1>10 DEF f, K

-----------------------------------------------------------------------------
(* What the server says with a frame.                                      *)

LEMMA FrameIs ==
  ASSUME NEW f \in Frames
  PROVE  /\ f.kind \in {"open", "text", "error", "misnamed", "usage", "image", "call", "args",
                        "stop", "whole", "finish"}
         /\ f.kind = "call" => f.slot \in Slots /\ f.id \in Ids
         /\ f.kind = "args" => f.slot \in Slots \cup Ids /\ f.frag \in Frags
         /\ f.kind = "stop" => f.slot \in Slots \cup Ids
         /\ f.kind = "whole" => f.id \in Ids \cup {None} /\ f.frag \in Frags
         /\ f.kind = "finish" => f.reason \in Reasons
  BY DEF Frames

EndsStream(f) ==
    CASE family = "converse" -> f.kind = "usage"
      [] family = "images" -> f.kind \in {"text", "image"}
      [] family = "messages" -> f.kind \in {"finish", "usage"}
      [] OTHER -> f.kind = "finish"

\* The server's calls after a frame, and whether the server has ended.
SaidBy(s, f, all) ==
  /\ Says(s, f) = [calls |-> all, ended |-> s.ended \/ EndsStream(f), frames |-> s.frames + 1]

LEMMA SaysCall ==
  ASSUME NEW s, NEW f, f.kind = "call"
  PROVE  SaidBy(s, f, Append(s.calls, Said(f.slot, f.id, <<>>, FALSE)))
  BY DEF SaidBy, Says, EndsStream

LEMMA SaysWhole ==
  ASSUME NEW s, NEW f, f.kind = "whole"
  PROVE  SaidBy(s, f, Append(s.calls, Said(None, f.id, <<f.frag>>, TRUE)))
  BY DEF SaidBy, Says, EndsStream

LEMMA SaysArgs ==
  ASSUME NEW s, NEW f, f.kind = "args"
  PROVE  SaidBy(s, f, Added(s.calls, Addressed(s.calls, f.slot), f.frag))
  BY DEF SaidBy, Says, EndsStream, Added

LEMMA SaysStop ==
  ASSUME NEW s, NEW f, f.kind = "stop"
  PROVE  SaidBy(s, f, Finished(s.calls, Addressed(s.calls, f.slot)))
  BY DEF SaidBy, Says, EndsStream, Finished

LEMMA SaysAllEnded ==
  ASSUME NEW s, NEW f, f.kind = "finish", family = "chat", f.reason = "tool_calls"
  PROVE  SaidBy(s, f, Finished(s.calls, DOMAIN s.calls))
<1>1. Finished(s.calls, DOMAIN s.calls) =
        [i \in DOMAIN s.calls |-> [s.calls[i] EXCEPT !.done = TRUE]]
  BY DEF Finished
<1>2. Says(s, f).calls = [i \in DOMAIN s.calls |-> [s.calls[i] EXCEPT !.done = TRUE]]
  BY DEF Says
<1> QED
  BY <1>1 DEF SaidBy, Says, EndsStream

LEMMA SaysNothing ==
  ASSUME NEW s, NEW f, f.kind \notin {"call", "whole", "args", "stop"},
         ~(f.kind = "finish" /\ family = "chat" /\ f.reason = "tool_calls")
  PROVE  SaidBy(s, f, s.calls)
  BY DEF SaidBy, Says, EndsStream

\* Where a turn, its parser and the server are after a frame.
Moved(u, q, z) ==
  /\ u \in Turns /\ u.pc = "reading" /\ q \in Parsers /\ z \in Sents
  /\ u.reason # None => z.ended
  /\ Linked(u, q, z.calls)

\* After a frame that does not end the turn, and after one that does.
LEMMA Moves ==
  ASSUME NEW s \in Sents, NEW f, NEW all \in Seq(SaidCalls), SaidBy(s, f, all),
         NEW t, t.reason # None => s.ended,
         NEW u, Keeps(u, t) \/ (EndsStream(f) /\ u \in Turns /\ u.pc = "reading"),
         NEW q \in Parsers, Linked(u, q, all)
  PROVE  Moved(u, q, Says(s, f))
<1> DEFINE e == s.ended \/ EndsStream(f)
           z == Says(s, f)
<1>1. e \in BOOLEAN
  BY DEF EndsStream, Sents
<1>2. z = [calls |-> all, ended |-> e, frames |-> s.frames + 1]
  BY DEF SaidBy
<1>3. e = (s.ended \/ EndsStream(f))
  OBVIOUS
<1> HIDE DEF e, z
<1>4. z \in Sents /\ z.calls = all /\ z.ended = e
  BY <1>1, <1>2 DEF Sents
<1>5. u \in Turns /\ u.pc = "reading"
  BY DEF Keeps
<1>6. u.reason # None => z.ended
  BY <1>3, <1>4 DEF Keeps
<1> QED
  BY <1>4, <1>5, <1>6 DEF Moved, z

-----------------------------------------------------------------------------
(* The families that address a call by its index or item ID.               *)

LEMMA CallBegins ==
  ASSUME NEW t \in Turns, t.pc = "reading", NEW p \in Parsers, NEW calls \in Seq(SaidCalls),
         Gathered(t, calls), Indexed(p, calls), NEW s \in Slots, NEW id \in Ids,
         NEW u, u = Reads(t, Start(id)), u.pc # "failed"
  PROVE  LET all == Append(calls, Said(s, id, <<>>, FALSE))
         IN  /\ Keeps(u, t) /\ Took(p, s, id) \in Parsers
             /\ all \in Seq(SaidCalls) /\ Gathered(u, all) /\ Indexed(Took(p, s, id), all)
<1> DEFINE x == Said(s, id, <<>>, FALSE)
           all == Append(calls, x)
<1>1. x \in SaidCalls /\ Indexed(Took(p, s, id), all)
  BY IndexedMore
<1>2. Took(p, s, id) \in Parsers
  BY TookIs
<1>3. id \in WireIds /\ id # None
  BY TurnAssumption DEF WireIds
<1>4. /\ Keeps(u, t) /\ id \notin Taken(t)
      /\ u.pending = t.pending \cup {[id |-> id, args |-> <<>>]} /\ u.completed = t.completed
  BY <1>3, ReadsCall
<1>5. x.id = id /\ x.args = <<>>
  BY DEF Said
<1> HIDE DEF x
<1>6. all \in Seq(SaidCalls) /\ all[Len(calls) + 1] = x
  BY <1>1, AppendIs
<1>7. id = Wire(Append(calls, x), Len(calls) + 1)
  BY <1>3, <1>5, <1>6 DEF Wire
<1>8. t.completed \in Seq(CallRecs)
  BY DEF Turns
<1>9. Gathered(u, all)
  BY <1>1, <1>4, <1>5, <1>7, <1>8, GathersCall
<1> QED
  BY <1>1, <1>2, <1>4, <1>6, <1>9 DEF x

LEMMA CallContinues ==
  ASSUME NEW t \in Turns, t.pc = "reading", NEW p \in Parsers, NEW calls \in Seq(SaidCalls),
         Gathered(t, calls), Indexed(p, calls), NEW a \in Slots \cup Ids, NEW frag \in Frags,
         NEW u, u = Reads(t, Args(Target(p, a), <<frag>>)), u.pc # "failed"
  PROVE  LET all == Added(calls, Addressed(calls, a), frag)
         IN  Keeps(u, t) /\ all \in Seq(SaidCalls) /\ Gathered(u, all) /\ Indexed(p, all)
<1> DEFINE id == Target(p, a)
           all == Added(calls, Addressed(calls, a), frag)
<1>1. Addressed(calls, a) = {i \in DOMAIN calls : Wire(calls, i) = id}
  BY AddressedIs
<1> HIDE DEF id
<1>2. <<frag>> \in Seq(Frags)
  OBVIOUS
<1>3. /\ Keeps(u, t) /\ Mine(t, id) # {} /\ u.completed = t.completed
      /\ u.pending = Extended(t.pending, id, <<frag>>)
  <2>1. u = Reads(t, Args(id, <<frag>>))
    BY DEF id
  <2>2. Reads(t, Args(id, <<frag>>)).pc # "failed"
    BY <2>1
  <2> DEFINE frags == <<frag>>
             v == Reads(t, Args(id, frags))
  <2>3. Keeps(v, t) /\ Mine(t, id) # {} /\ v.completed = t.completed
        /\ v.pending = Extended(t.pending, id, frags)
    <3> HIDE DEF frags
    <3> QED
      BY <1>2, <2>2, ReadsArgs DEF frags
  <2> QED
    BY <2>1, <2>3
<1>4. Gathered(u, all)
  <2>1. t.pending \subseteq CallRecs
    BY DEF Turns
  <2> QED
    BY <1>1, <1>3, <2>1, GathersArgs
<1>5. /\ all \in Seq(SaidCalls) /\ DOMAIN all = DOMAIN calls
      /\ \A i \in DOMAIN calls : all[i].id = calls[i].id /\ all[i].slot = calls[i].slot
  BY AddedIs
<1>6. Indexed(p, all)
  <2> HIDE DEF all
  <2> QED
    BY <1>5, IndexedSame
<1> QED
  BY <1>3, <1>4, <1>5, <1>6

LEMMA CallStops ==
  ASSUME NEW calls \in Seq(SaidCalls), NEW p, NEW q, Indexed(p, calls), NEW I,
         \A r \in Slots : q.calls[r].id = p.calls[r].id,
         NEW t, Gathered(t, calls)
  PROVE  LET all == Finished(calls, I)
         IN  all \in Seq(SaidCalls) /\ Gathered(t, all) /\ Indexed(q, all)
<1> DEFINE all == Finished(calls, I)
<1>1. /\ all \in Seq(SaidCalls) /\ DOMAIN all = DOMAIN calls
      /\ \A i \in DOMAIN calls : all[i].id = calls[i].id /\ all[i].slot = calls[i].slot
  BY FinishedIs
<1>2. Gathered(t, all)
  BY GathersEnded
<1>3. Indexed(q, all)
  <2> HIDE DEF all
  <2> QED
    BY <1>1, IndexedSame
<1> QED
  BY <1>1, <1>2, <1>3

LEMMA CallEnds ==
  ASSUME NEW t \in Turns, t.pc = "reading", NEW calls \in Seq(SaidCalls),
         NEW p, NEW q, \A r \in Slots : q.calls[r].id = p.calls[r].id,
         Gathered(t, calls), Indexed(p, calls), NEW a \in Slots \cup Ids,
         NEW u, u = Reads(t, End(Target(p, a))), u.pc # "failed"
  PROVE  LET all == Finished(calls, Addressed(calls, a))
         IN  Keeps(u, t) /\ all \in Seq(SaidCalls) /\ Gathered(u, all) /\ Indexed(q, all)
<1> DEFINE id == Target(p, a)
           I == Addressed(calls, a)
           all == Finished(calls, I)
<1>1. I = {i \in DOMAIN calls : Wire(calls, i) = id}
  BY AddressedIs
<1> HIDE DEF id, I
<1>2. /\ Keeps(u, t) /\ Mine(t, id) # {} /\ u.pending = t.pending \ Mine(t, id)
      /\ u.completed = Append(t.completed, CHOOSE c \in Mine(t, id) : TRUE)
  <2>1. u = Reads(t, End(id))
    BY DEF id
  <2> QED
    BY <2>1, ReadsStop
<1>3. all \in Seq(SaidCalls) /\ Gathered(t, all) /\ Indexed(q, all)
  BY CallStops
<1>4. \A i \in DOMAIN all : Wire(all, i) = id => all[i].done
  <2> SUFFICES ASSUME NEW i \in DOMAIN all, Wire(all, i) = id PROVE all[i].done
    OBVIOUS
  <2>1. DOMAIN all = DOMAIN calls /\ Wire(all, i) = Wire(calls, i)
    BY FinishedIs
  <2>2. all[i].done = (i \in I \/ calls[i].done)
    BY <2>1, FinishedIs
  <2> QED
    BY <1>1, <2>1, <2>2
<1>5. Gathered(u, all)
  <2>1. t.pending \subseteq CallRecs /\ t.completed \in Seq(CallRecs)
    BY DEF Turns
  <2> HIDE DEF all
  <2> QED
    BY <1>2, <1>3, <1>4, <2>1, GathersEnd
<1> QED
  BY <1>2, <1>3, <1>5 DEF I

LEMMA LinkedSame ==
  ASSUME NEW t, NEW u, NEW p, NEW q, NEW calls, Linked(t, p, calls),
         u.pending = t.pending, u.completed = t.completed,
         q.calls = p.calls, q.count = p.count, family = "converse" => q.ended = p.ended
  PROVE  Linked(u, q, calls)
<1>1. Gathered(t, calls) => Gathered(u, calls)
  BY DEF Gathered
<1>2. Indexed(p, calls) => Indexed(q, calls)
  BY DEF Indexed, Known
<1>3. KeptCalls(p, calls) => KeptCalls(q, calls)
  BY KeptSame
<1> QED
  BY <1>1, <1>2, <1>3 DEF Linked

LEMMA LinkedByIndex ==
  ASSUME family \in ByIndex, NEW t, NEW p, NEW calls
  PROVE  Linked(t, p, calls) <=> Gathered(t, calls) /\ Indexed(p, calls)
  BY DEF Linked, ByIndex

LEMMA GiveIs ==
  ASSUME NEW p, NEW out
  PROVE  Give(p, out).ok = TRUE /\ Give(p, out).parser = p /\ Give(p, out).out = out
         /\ Fail.ok = FALSE
  BY DEF Give, Fail

LEMMA GivesOne ==
  ASSUME NEW t, NEW p, NEW e, NEW read, read = Give(p, <<e>>)
  PROVE  read.parser = p /\ ConsumeAll(t, read.out) = Reads(t, e)
<1>1. read.parser = p /\ read.out = <<e>>
  BY DEF Give
<1> QED
  BY <1>1, ReadsOne

LEMMA GivesNothing ==
  ASSUME NEW t, NEW p, NEW read, read = Give(p, <<>>)
  PROVE  read.parser = p /\ ConsumeAll(t, read.out) = t
<1>1. read.parser = p /\ read.out = <<>>
  BY DEF Give
<1> QED
  BY <1>1, ReadsNothing

\* A frame that says nothing of a call: nothing is read, one plain event, or
\* one finish.
LEMMA SilentMoves ==
  ASSUME NEW t \in Turns, t.pc = "reading", NEW p, NEW q \in Parsers, NEW s \in Sents,
         Linked(t, p, s.calls), t.reason # None => s.ended,
         NEW f, SaidBy(s, f, s.calls),
         q.calls = p.calls, q.count = p.count, family = "converse" => q.ended = p.ended,
         NEW u, u.pc # "failed",
         \/ u = t
         \/ \E k \in {"open", "text", "image"} : u = Reads(t, Plain(k))
         \/ EndsStream(f) /\ \E r \in Reasons \cup {None} : u = Reads(t, Finish(r))
  PROVE  Moved(u, q, Says(s, f))
<1>1. /\ u.pending = t.pending /\ u.completed = t.completed
      /\ Keeps(u, t) \/ (EndsStream(f) /\ u \in Turns /\ u.pc = "reading")
  <2>1. CASE u = t
    BY <2>1 DEF Keeps
  <2>2. ASSUME NEW k \in {"open", "text", "image"}, u = Reads(t, Plain(k))
        PROVE  u.pending = t.pending /\ u.completed = t.completed /\ Keeps(u, t)
    BY <2>2, ReadsPlain
  <2>3. ASSUME NEW r \in Reasons \cup {None}, u = Reads(t, Finish(r))
        PROVE  u.pending = t.pending /\ u.completed = t.completed /\ u \in Turns /\ u.pc = "reading"
    BY <2>3, ReadsFinish
  <2> QED
    BY <2>1, <2>2, <2>3
<1>2. Linked(u, q, s.calls)
  BY <1>1, LinkedSame
<1>3. s.calls \in Seq(SaidCalls)
  BY DEF Sents
<1> QED
  BY <1>1, <1>2, <1>3, Moves

LEMMA ChatMoves ==
  ASSUME family = "chat", NEW t \in Turns, t.pc = "reading", NEW p \in Parsers, NEW s \in Sents,
         Linked(t, p, s.calls), t.reason # None => s.ended,
         NEW f \in Frames, Chat(p, f).ok,
         NEW u, u = ConsumeAll(t, Chat(p, f).out), u.pc # "failed"
  PROVE  Moved(u, Chat(p, f).parser, Says(s, f))
<1> DEFINE calls == s.calls
<1>0. family \in ByIndex /\ calls \in Seq(SaidCalls)
  BY DEF ByIndex, Sents
<1>1. Gathered(t, calls) /\ Indexed(p, calls)
  BY <1>0, LinkedByIndex
<1>2. f.kind \in {"open", "text", "call", "args", "finish", "usage"}
      /\ (f.kind = "args" => Known(p, f.slot))
  BY FrameIs, GiveIs DEF Chat
<1>3. CASE f.kind \in {"open", "text"}
  <2>1. Chat(p, f) = Give(p, <<Plain(f.kind)>>)
    BY <1>3 DEF Chat
  <2>2. u = Reads(t, Plain(f.kind)) /\ Chat(p, f).parser = p
    BY <2>1, GivesOne
  <2>3. SaidBy(s, f, calls)
    BY <1>3, SaysNothing
  <2> QED
    BY <1>3, <2>2, <2>3, SilentMoves
<1>4. CASE f.kind = "call"
  <2> DEFINE all == Append(calls, Said(f.slot, f.id, <<>>, FALSE))
  <2>1. Chat(p, f) = Give(Took(p, f.slot, f.id), <<Start(f.id)>>)
    BY <1>4 DEF Chat
  <2>2. u = Reads(t, Start(f.id)) /\ Chat(p, f).parser = Took(p, f.slot, f.id)
    BY <2>1, GivesOne
  <2>3. /\ Keeps(u, t) /\ Took(p, f.slot, f.id) \in Parsers
        /\ all \in Seq(SaidCalls) /\ Gathered(u, all) /\ Indexed(Took(p, f.slot, f.id), all)
    BY <1>0, <1>1, <1>4, <2>2, FrameIs, CallBegins
  <2>4. SaidBy(s, f, all)
    BY <1>4, SaysCall
  <2>5. Linked(u, Took(p, f.slot, f.id), all)
    BY <1>0, <2>3, LinkedByIndex
  <2> HIDE DEF all
  <2> QED
    BY <2>2, <2>3, <2>4, <2>5, Moves
<1>5. CASE f.kind = "args"
  <2> DEFINE all == Added(calls, Addressed(calls, f.slot), f.frag)
  <2>1. Chat(p, f) = Give(p, <<Args(p.calls[f.slot].id, <<f.frag>>)>>)
    BY <1>2, <1>5 DEF Chat
  <2>2. u = Reads(t, Args(Target(p, f.slot), <<f.frag>>)) /\ Chat(p, f).parser = p
    <3>1. p.calls[f.slot].id = Target(p, f.slot)
      BY <1>2, <1>5 DEF Target
    <3> QED
      BY <2>1, <3>1, GivesOne
  <2>3. Keeps(u, t) /\ all \in Seq(SaidCalls) /\ Gathered(u, all) /\ Indexed(p, all)
    BY <1>0, <1>1, <1>5, <2>2, FrameIs, CallContinues
  <2>4. SaidBy(s, f, all)
    BY <1>5, SaysArgs
  <2>5. Linked(u, p, all)
    BY <1>0, <2>3, LinkedByIndex
  <2> HIDE DEF all
  <2> QED
    BY <2>2, <2>3, <2>4, <2>5, Moves
<1>6. CASE f.kind = "finish"
  <2> DEFINE n == Len(Open(p))
             ends == [i \in DOMAIN Open(p) |-> End(p.calls[Open(p)[i]].id)]
             e == Finish(f.reason)
             some == IF f.reason = "tool_calls" THEN ends ELSE <<>>
             T == {End(p.calls[r].id) : r \in Slots} \cup {e}
  <2>1. Chat(p, f) = Give(p, some \o <<e>>)
    BY <1>6 DEF Chat
  <2>2. /\ n \in Nat /\ DOMAIN Open(p) = 1 .. n
        /\ \A i \in DOMAIN Open(p) : Open(p)[i] \in Slots
    <3>1. \A r \in Slots : Known(p, r) => \E i \in DOMAIN calls : calls[i].slot = r
      BY <1>1 DEF Indexed, Newest
    <3> QED
      BY <1>0, <3>1, OpenIs
  <2>3. some \in Seq(T) /\ e \in T
    <3>1. ends \in [1 .. n -> T]
      BY <2>2
    <3>2. ends \in Seq(T)
      <4> HIDE DEF ends, T, n
      <4> QED
        BY <2>2, <3>1
    <3> HIDE DEF ends
    <3> QED
      BY <3>2
  <2>4. some \o <<e>> = Append(some, e)
    <3> HIDE DEF some, e, T
    <3> QED
      BY <2>3
  <2> DEFINE v == ConsumeAll(t, some)
  <2>5. u = Reads(v, e) /\ Chat(p, f).parser = p
    <3>1. u = ConsumeAll(t, Append(some, e)) /\ Chat(p, f).parser = p
      <4> DEFINE out == some \o <<e>>
                 read == Chat(p, f)
      <4>1. read = Give(p, out) /\ u = ConsumeAll(t, read.out) /\ out = Append(some, e)
        BY <2>1, <2>4
      <4> HIDE DEF out, read, some, e, T
      <4>2. read.parser = p /\ read.out = out
        BY <4>1 DEF Give
      <4> QED
        BY <4>1, <4>2 DEF read
    <3> HIDE DEF some, e, T
    <3> QED
      BY <2>3, <3>1, ReadsLast
  <2>6. v.pc # "failed"
    BY <2>5, FailedReads
  <2>7. f.reason \in Reasons \cup {None} /\ EndsStream(f)
    BY <1>6, FrameIs DEF EndsStream
  <2>8. CASE f.reason = "tool_calls"
    <3> DEFINE all == Finished(calls, DOMAIN calls)
    <3>1. all \in Seq(SaidCalls) /\ Gathered(t, all) /\ Indexed(p, all)
      BY <1>0, <1>1, CallStops
    <3>2. \A i \in DOMAIN all : all[i].done
      <4> SUFFICES ASSUME NEW i \in DOMAIN all PROVE all[i].done
        OBVIOUS
      <4>1. DOMAIN all = DOMAIN calls
        BY <1>0, FinishedIs
      <4>2. all[i].done = (i \in DOMAIN calls \/ calls[i].done)
        BY <1>0, <4>1, FinishedIs
      <4> QED
        BY <4>1, <4>2
    <3>3. v = ConsumeAll(t, ends)
      BY <2>8
    <3>4. Len(ends) = n /\ \A i \in 1 .. Len(ends) : \E id : ends[i] = End(id)
      BY <2>2
    <3>5. Keeps(v, t) /\ Gathered(v, all)
      <4> HIDE DEF all, ends, v, n
      <4> QED
        BY <2>2, <2>6, <3>1, <3>2, <3>3, <3>4, ReadsEnds
    <3>6. u \in Turns /\ u.pc = "reading" /\ u.pending = v.pending /\ u.completed = v.completed
      <4> HIDE DEF v
      <4> QED
        BY <2>5, <2>7, <3>5, ReadsFinish DEF Keeps
    <3>7. Linked(v, p, all)
      BY <1>0, <3>1, <3>5, LinkedByIndex
    <3>8. Linked(u, p, all)
      <4> HIDE DEF v, all
      <4> QED
        BY <3>6, <3>7, LinkedSame
    <3>9. SaidBy(s, f, all)
      BY <1>6, <2>8, SaysAllEnded
    <3> HIDE DEF all
    <3> QED
      BY <2>5, <2>7, <3>1, <3>6, <3>8, <3>9, Moves
  <2>9. CASE f.reason # "tool_calls"
    <3>1. v = t
      BY <2>9, ReadsNothing
    <3>2. SaidBy(s, f, calls)
      BY <1>6, <2>9, SaysNothing
    <3> HIDE DEF v
    <3> QED
      BY <2>5, <2>7, <3>1, <3>2, SilentMoves
  <2> QED
    BY <2>8, <2>9
<1>7. CASE f.kind = "usage"
  <2>1. Chat(p, f) = Give(p, <<>>)
    BY <1>7 DEF Chat
  <2>2. u = t /\ Chat(p, f).parser = p
    BY <2>1, GivesNothing
  <2>3. SaidBy(s, f, calls)
    BY <1>7, SaysNothing
  <2> QED
    BY <2>2, <2>3, SilentMoves
<1> QED
  BY <1>2, <1>3, <1>4, <1>5, <1>6, <1>7

LEMMA MessagesMoves ==
  ASSUME family = "messages", NEW t \in Turns, t.pc = "reading", NEW p \in Parsers,
         NEW s \in Sents, Linked(t, p, s.calls), t.reason # None => s.ended,
         NEW f \in Frames, Messages(p, f).ok,
         NEW u, u = ConsumeAll(t, Messages(p, f).out), u.pc # "failed"
  PROVE  Moved(u, Messages(p, f).parser, Says(s, f))
<1> DEFINE calls == s.calls
<1>0. family \in ByIndex /\ calls \in Seq(SaidCalls)
  BY DEF ByIndex, Sents
<1>1. Gathered(t, calls) /\ Indexed(p, calls)
  BY <1>0, LinkedByIndex
<1>2. f.kind \in {"open", "text", "call", "args", "stop", "finish", "usage"}
      /\ (f.kind = "args" => Known(p, f.slot))
  BY FrameIs, GiveIs DEF Messages
<1>3. CASE f.kind \in {"open", "text"}
  <2>1. Messages(p, f) = Give(p, <<Plain(f.kind)>>)
    BY <1>3 DEF Messages
  <2>2. u = Reads(t, Plain(f.kind)) /\ Messages(p, f).parser = p
    BY <2>1, GivesOne
  <2>3. SaidBy(s, f, calls)
    BY <1>3, SaysNothing
  <2> QED
    BY <1>3, <2>2, <2>3, SilentMoves
<1>4. CASE f.kind = "call"
  <2> DEFINE all == Append(calls, Said(f.slot, f.id, <<>>, FALSE))
  <2>1. Messages(p, f) = Give(Took(p, f.slot, f.id), <<Start(f.id)>>)
    BY <1>4 DEF Messages
  <2>2. u = Reads(t, Start(f.id)) /\ Messages(p, f).parser = Took(p, f.slot, f.id)
    BY <2>1, GivesOne
  <2>3. /\ Keeps(u, t) /\ Took(p, f.slot, f.id) \in Parsers
        /\ all \in Seq(SaidCalls) /\ Gathered(u, all) /\ Indexed(Took(p, f.slot, f.id), all)
    BY <1>0, <1>1, <1>4, <2>2, FrameIs, CallBegins
  <2>4. SaidBy(s, f, all)
    BY <1>4, SaysCall
  <2>5. Linked(u, Took(p, f.slot, f.id), all)
    BY <1>0, <2>3, LinkedByIndex
  <2> HIDE DEF all
  <2> QED
    BY <2>2, <2>3, <2>4, <2>5, Moves
<1>5. CASE f.kind = "args"
  <2> DEFINE all == Added(calls, Addressed(calls, f.slot), f.frag)
  <2>1. Messages(p, f) = Give(p, <<Args(p.calls[f.slot].id, <<f.frag>>)>>)
    BY <1>2, <1>5 DEF Messages
  <2>2. u = Reads(t, Args(Target(p, f.slot), <<f.frag>>)) /\ Messages(p, f).parser = p
    <3>1. p.calls[f.slot].id = Target(p, f.slot)
      BY <1>2, <1>5 DEF Target
    <3> QED
      BY <2>1, <3>1, GivesOne
  <2>3. Keeps(u, t) /\ all \in Seq(SaidCalls) /\ Gathered(u, all) /\ Indexed(p, all)
    BY <1>0, <1>1, <1>5, <2>2, FrameIs, CallContinues
  <2>4. SaidBy(s, f, all)
    BY <1>5, SaysArgs
  <2>5. Linked(u, p, all)
    BY <1>0, <2>3, LinkedByIndex
  <2> HIDE DEF all
  <2> QED
    BY <2>2, <2>3, <2>4, <2>5, Moves
<1>6. CASE f.kind = "stop"
  <2> DEFINE all == Finished(calls, Addressed(calls, f.slot))
  <2>1. SaidBy(s, f, all)
    BY <1>6, SaysStop
  <2>2. CASE Known(p, f.slot)
    <3>1. /\ Messages(p, f) = Give(p, <<End(p.calls[f.slot].id)>>)
          /\ p.calls[f.slot].id = Target(p, f.slot)
      BY <1>6, <2>2 DEF Messages, Target
    <3>2. u = Reads(t, End(Target(p, f.slot))) /\ Messages(p, f).parser = p
      BY <3>1, GivesOne
    <3>3. Keeps(u, t) /\ all \in Seq(SaidCalls) /\ Gathered(u, all) /\ Indexed(p, all)
      BY <1>0, <1>1, <1>6, <3>2, FrameIs, CallEnds
    <3>4. Linked(u, p, all)
      BY <1>0, <3>3, LinkedByIndex
    <3> HIDE DEF all
    <3> QED
      BY <2>1, <3>2, <3>3, <3>4, Moves
  <2>3. CASE ~Known(p, f.slot)
    <3>1. Messages(p, f) = Give(p, <<>>)
      BY <1>6, <2>3 DEF Messages
    <3>2. u = t /\ Messages(p, f).parser = p
      BY <3>1, GivesNothing
    <3>3. all \in Seq(SaidCalls) /\ Gathered(t, all) /\ Indexed(p, all)
      BY <1>0, <1>1, CallStops
    <3>4. Linked(u, p, all) /\ Keeps(u, t)
      BY <1>0, <3>2, <3>3, LinkedByIndex DEF Keeps
    <3> HIDE DEF all
    <3> QED
      BY <2>1, <3>2, <3>3, <3>4, Moves
  <2> QED
    BY <2>2, <2>3
<1>7. CASE f.kind \in {"finish", "usage"}
  <2> DEFINE q == [p EXCEPT !.ended = TRUE]
  <2>1. q \in Parsers /\ q.calls = p.calls /\ q.count = p.count
    BY DEF Parsers
  <2> HIDE DEF q
  <2>2. SaidBy(s, f, calls) /\ EndsStream(f)
    BY <1>7, SaysNothing DEF EndsStream
  <2>3. CASE f.kind = "usage" /\ p.ended
    <3>1. Messages(p, f) = Give(q, <<>>)
      BY <2>3 DEF Messages, q
    <3>2. u = t /\ Messages(p, f).parser = q
      BY <3>1, GivesNothing
    <3> QED
      BY <2>1, <2>2, <3>2, SilentMoves
  <2>4. CASE f.kind = "usage" /\ ~p.ended
    <3>1. Messages(p, f) = Give(q, <<Finish("stop")>>)
      BY <2>4 DEF Messages, q
    <3>2. u = Reads(t, Finish("stop")) /\ Messages(p, f).parser = q
      BY <3>1, GivesOne
    <3>3. "stop" \in Reasons \cup {None}
      BY DEF Reasons
    <3> QED
      BY <2>1, <2>2, <3>2, <3>3, SilentMoves
  <2>5. CASE f.kind = "finish"
    <3>1. Messages(p, f) = Give(q, <<Finish(f.reason)>>)
      BY <2>5 DEF Messages, q
    <3>2. u = Reads(t, Finish(f.reason)) /\ Messages(p, f).parser = q
      BY <3>1, GivesOne
    <3>3. f.reason \in Reasons \cup {None}
      BY <2>5, FrameIs
    <3> QED
      BY <2>1, <2>2, <3>2, <3>3, SilentMoves
  <2> QED
    BY <1>7, <2>3, <2>4, <2>5
<1> QED
  BY <1>2, <1>3, <1>4, <1>5, <1>6, <1>7

LEMMA ResponsesMoves ==
  ASSUME family \in {"responses", "codex"}, NEW t \in Turns, t.pc = "reading", NEW p \in Parsers,
         NEW s \in Sents, Linked(t, p, s.calls), t.reason # None => s.ended,
         NEW f \in Frames, Responses(p, f).ok,
         NEW u, u = ConsumeAll(t, Responses(p, f).out), u.pc # "failed"
  PROVE  Moved(u, Responses(p, f).parser, Says(s, f))
<1> DEFINE calls == s.calls
<1>0. family \in ByIndex /\ calls \in Seq(SaidCalls) /\ family # "converse" /\ family # "chat"
  BY DEF ByIndex, Sents
<1>1. Gathered(t, calls) /\ Indexed(p, calls)
  BY <1>0, LinkedByIndex
<1>2. f.kind \in {"open", "text", "call", "args", "stop", "finish", "usage"}
  BY FrameIs, GiveIs DEF Responses
<1>3. CASE f.kind \in {"open", "text"}
  <2>1. Responses(p, f) = Give(p, <<Plain(f.kind)>>)
    BY <1>3 DEF Responses
  <2>2. u = Reads(t, Plain(f.kind)) /\ Responses(p, f).parser = p
    BY <2>1, GivesOne
  <2>3. SaidBy(s, f, calls)
    BY <1>3, SaysNothing
  <2> QED
    BY <1>3, <2>2, <2>3, SilentMoves
<1>4. CASE f.kind = "call"
  <2> DEFINE all == Append(calls, Said(f.slot, f.id, <<>>, FALSE))
  <2>1. Responses(p, f) = Give(Took(p, f.slot, f.id), <<Start(f.id)>>)
    BY <1>4 DEF Responses
  <2>2. u = Reads(t, Start(f.id)) /\ Responses(p, f).parser = Took(p, f.slot, f.id)
    BY <2>1, GivesOne
  <2>3. /\ Keeps(u, t) /\ Took(p, f.slot, f.id) \in Parsers
        /\ all \in Seq(SaidCalls) /\ Gathered(u, all) /\ Indexed(Took(p, f.slot, f.id), all)
    BY <1>0, <1>1, <1>4, <2>2, FrameIs, CallBegins
  <2>4. SaidBy(s, f, all)
    BY <1>4, SaysCall
  <2>5. Linked(u, Took(p, f.slot, f.id), all)
    BY <1>0, <2>3, LinkedByIndex
  <2> HIDE DEF all
  <2> QED
    BY <2>2, <2>3, <2>4, <2>5, Moves
<1>5. CASE f.kind = "args"
  <2> DEFINE all == Added(calls, Addressed(calls, f.slot), f.frag)
             id == Target(p, f.slot)
  <2>1. Responses(p, f) = Give(p, <<Args(id, <<f.frag>>)>>)
    BY <1>5 DEF Responses, Target
  <2>2. u = Reads(t, Args(id, <<f.frag>>)) /\ Responses(p, f).parser = p
    <3> HIDE DEF id
    <3> QED
      BY <2>1, GivesOne
  <2>3. Keeps(u, t) /\ all \in Seq(SaidCalls) /\ Gathered(u, all) /\ Indexed(p, all)
    BY <1>0, <1>1, <1>5, <2>2, FrameIs, CallContinues
  <2>4. SaidBy(s, f, all)
    BY <1>5, SaysArgs
  <2>5. Linked(u, p, all)
    BY <1>0, <2>3, LinkedByIndex
  <2> HIDE DEF all
  <2> QED
    BY <2>2, <2>3, <2>4, <2>5, Moves
<1>6. CASE f.kind = "stop"
  <2> DEFINE all == Finished(calls, Addressed(calls, f.slot))
             q == Stopped(p, f.slot)
  <2>1. SaidBy(s, f, all) /\ f.slot \in Slots \cup Ids
    BY <1>6, SaysStop, FrameIs
  <2>2. CASE ~Known(p, f.slot)
    <3>1. Responses(p, f) = Give(p, <<End(f.slot)>>) /\ f.slot = Target(p, f.slot)
      BY <1>6, <2>2 DEF Responses, Target
    <3>2. u = Reads(t, End(Target(p, f.slot))) /\ Responses(p, f).parser = p
      BY <3>1, GivesOne
    <3>3. Keeps(u, t) /\ all \in Seq(SaidCalls) /\ Gathered(u, all) /\ Indexed(p, all)
      BY <1>0, <1>1, <2>1, <3>2, CallEnds
    <3>4. Linked(u, p, all)
      BY <1>0, <3>3, LinkedByIndex
    <3> HIDE DEF all
    <3> QED
      BY <2>1, <3>2, <3>3, <3>4, Moves
  <2>3. ASSUME Known(p, f.slot)
        PROVE  q \in Parsers /\ \A r \in Slots : q.calls[r].id = p.calls[r].id
    <3>1. f.slot \in Slots
      BY <2>3 DEF Known
    <3> QED
      BY <3>1, StoppedIs, StoppedCalls
  <2>4. CASE Known(p, f.slot) /\ ~p.calls[f.slot].ended
    <3>1. /\ Responses(p, f) = Give(q, <<End(p.calls[f.slot].id)>>)
          /\ p.calls[f.slot].id = Target(p, f.slot)
      BY <1>6, <2>4 DEF Responses, Target
    <3>2. u = Reads(t, End(Target(p, f.slot))) /\ Responses(p, f).parser = q
      BY <3>1, GivesOne
    <3> HIDE DEF q
    <3>3. Keeps(u, t) /\ all \in Seq(SaidCalls) /\ Gathered(u, all) /\ Indexed(q, all)
      BY <1>0, <1>1, <2>1, <2>3, <2>4, <3>2, CallEnds
    <3>4. Linked(u, q, all)
      BY <1>0, <3>3, LinkedByIndex
    <3> HIDE DEF all
    <3> QED
      BY <2>1, <2>3, <2>4, <3>2, <3>3, <3>4, Moves
  <2>5. CASE Known(p, f.slot) /\ p.calls[f.slot].ended
    <3>1. Responses(p, f) = Give(q, <<>>)
      BY <1>6, <2>5 DEF Responses
    <3>2. u = t /\ Responses(p, f).parser = q
      BY <3>1, GivesNothing
    <3> HIDE DEF q
    <3>3. all \in Seq(SaidCalls) /\ Gathered(t, all) /\ Indexed(q, all)
      BY <1>0, <1>1, <2>3, <2>5, CallStops
    <3>4. Linked(u, q, all) /\ Keeps(u, t)
      BY <1>0, <3>2, <3>3, LinkedByIndex DEF Keeps
    <3> HIDE DEF all
    <3> QED
      BY <2>1, <2>3, <2>5, <3>2, <3>3, <3>4, Moves
  <2> QED
    BY <2>2, <2>4, <2>5
<1>7. CASE f.kind = "finish"
  <2> DEFINE r == IF f.reason = "length" THEN "length"
                  ELSE IF HasCalls(p) THEN "tool_calls" ELSE "stop"
  <2>1. Responses(p, f) = Give(p, <<Finish(r)>>)
    BY <1>7 DEF Responses
  <2>2. r \in Reasons \cup {None}
    BY DEF Reasons
  <2> HIDE DEF r
  <2>3. u = Reads(t, Finish(r)) /\ Responses(p, f).parser = p
    BY <2>1, GivesOne
  <2>4. SaidBy(s, f, calls) /\ EndsStream(f)
    BY <1>0, <1>7, SaysNothing DEF EndsStream
  <2> QED
    BY <2>2, <2>3, <2>4, SilentMoves
<1>8. CASE f.kind = "usage"
  <2>1. Responses(p, f) = Give(p, <<>>)
    BY <1>8 DEF Responses
  <2>2. u = t /\ Responses(p, f).parser = p
    BY <2>1, GivesNothing
  <2>3. SaidBy(s, f, calls)
    BY <1>8, SaysNothing
  <2> QED
    BY <2>2, <2>3, SilentMoves
<1> QED
  BY <1>2, <1>3, <1>4, <1>5, <1>6, <1>7, <1>8

-----------------------------------------------------------------------------
(* The families whose calls come whole, and the one that keeps them.       *)

\* A call comes whole, under its own ID or its number.
LEMMA WholeComes ==
  ASSUME NEW t \in Turns, t.pc = "reading", NEW calls \in Seq(SaidCalls), Gathered(t, calls),
         NEW x \in Ids \cup {None}, NEW frag \in Frags,
         NEW id, id = IF x = None THEN <<"call", Len(calls) + 1>> ELSE x,
         NEW u, u = Reads(t, Whole(id, <<frag>>)), u.pc # "failed"
  PROVE  LET all == Append(calls, Said(None, x, <<frag>>, TRUE))
         IN  /\ Keeps(u, t) /\ all \in Seq(SaidCalls) /\ Len(all) = Len(calls) + 1
             /\ Gathered(u, all)
<1> DEFINE args == <<frag>>
           y == Said(None, x, args, TRUE)
           all == Append(calls, y)
<1>1. args \in Seq(Frags)
  OBVIOUS
<1> HIDE DEF args
<1>2. y \in SaidCalls /\ y.id = x /\ y.args = args /\ y.done
  BY <1>1 DEF Said, SaidCalls
<1>3. id \in WireIds
  BY DEF WireIds
<1>4. u = Reads(t, Whole(id, args))
  BY DEF args
<1> HIDE DEF y
<1>5. /\ Keeps(u, t) /\ id \notin Taken(t) /\ u.pending = t.pending
      /\ u.completed = Append(t.completed, [id |-> id, args |-> args])
  <2>1. Reads(t, Whole(id, args)).pc # "failed"
    BY <1>4
  <2> DEFINE v == Reads(t, Whole(id, args))
  <2>2. /\ Keeps(v, t) /\ id \notin Taken(t) /\ v.pending = t.pending
        /\ v.completed = Append(t.completed, [id |-> id, args |-> args])
    BY ONLY <1>1, <1>3, <2>1, ReadsWhole, t \in Turns, t.pc = "reading"
  <2> QED
    BY <1>4, <2>2
<1>6. all \in Seq(SaidCalls) /\ Len(all) = Len(calls) + 1 /\ all[Len(calls) + 1] = y
  BY <1>2, AppendIs
<1>7. id = Wire(Append(calls, y), Len(calls) + 1)
  BY <1>2, <1>6 DEF Wire
<1>8. t.completed \in Seq(CallRecs)
  BY DEF Turns
<1>9. Gathered(u, all)
  <2>1. u.completed = Append(t.completed, [id |-> id, args |-> y.args])
    BY <1>2, <1>5
  <2> QED
    BY ONLY <1>2, <1>3, <1>5, <1>7, <1>8, <2>1, GathersWhole, calls \in Seq(SaidCalls),
            Gathered(t, calls) DEF all
<1> QED
  BY <1>5, <1>6, <1>9 DEF y, args

LEMMA GoogleMoves ==
  ASSUME family = "google", NEW t \in Turns, t.pc = "reading", NEW p \in Parsers,
         NEW s \in Sents, Linked(t, p, s.calls), t.reason # None => s.ended,
         NEW f \in Frames, Google(p, f).ok,
         NEW u, u = ConsumeAll(t, Google(p, f).out), u.pc # "failed"
  PROVE  Moved(u, Google(p, f).parser, Says(s, f))
<1> DEFINE calls == s.calls
<1>0. calls \in Seq(SaidCalls) /\ family \notin ByIndex
  BY DEF Sents, ByIndex
<1>1. Gathered(t, calls) /\ p.count = Len(calls)
  BY DEF Linked
<1>2. f.kind \in {"open", "text", "whole", "finish", "usage"}
  BY FrameIs, GiveIs DEF Google
<1>3. CASE f.kind = "open"
  <2> DEFINE q == [p EXCEPT !.started = TRUE]
  <2>1. q \in Parsers /\ q.calls = p.calls /\ q.count = p.count /\ q.ended = p.ended
    BY DEF Parsers
  <2> HIDE DEF q
  <2>2. SaidBy(s, f, calls)
    BY <1>3, SaysNothing
  <2>3. CASE p.started
    <3>1. Google(p, f) = Give(q, <<>>)
      BY <1>3, <2>3 DEF Google, q
    <3>2. u = t /\ Google(p, f).parser = q
      BY <3>1, GivesNothing
    <3> QED
      BY <2>1, <2>2, <3>2, SilentMoves
  <2>4. CASE ~p.started
    <3>1. Google(p, f) = Give(q, <<Plain("open")>>)
      BY <1>3, <2>4 DEF Google, q
    <3>2. u = Reads(t, Plain("open")) /\ Google(p, f).parser = q
      BY <3>1, GivesOne
    <3> QED
      BY <2>1, <2>2, <3>2, SilentMoves
  <2> QED
    BY <2>3, <2>4
<1>4. CASE f.kind = "text"
  <2>1. Google(p, f) = Give(p, <<Plain("text")>>)
    BY <1>4 DEF Google
  <2>2. u = Reads(t, Plain("text")) /\ Google(p, f).parser = p
    BY <2>1, GivesOne
  <2>3. SaidBy(s, f, calls)
    BY <1>4, SaysNothing
  <2> QED
    BY <2>2, <2>3, SilentMoves
<1>5. CASE f.kind = "whole"
  <2> DEFINE q == [p EXCEPT !.count = @ + 1]
             id == IF f.id = None THEN <<"call", Len(calls) + 1>> ELSE f.id
             all == Append(calls, Said(None, f.id, <<f.frag>>, TRUE))
  <2>1. q \in Parsers /\ q.count = Len(calls) + 1
    BY <1>1 DEF Parsers
  <2>2. Google(p, f) =
          Give(q, <<Whole(IF f.id = None THEN FallbackCallId(q) ELSE f.id, <<f.frag>>)>>)
    BY <1>5 DEF Google
  <2> HIDE DEF q
  <2>3. (IF f.id = None THEN FallbackCallId(q) ELSE f.id) = id
    BY <2>1 DEF FallbackCallId
  <2> HIDE DEF id
  <2>4. u = Reads(t, Whole(id, <<f.frag>>)) /\ Google(p, f).parser = q
    BY <2>2, <2>3, GivesOne
  <2>5. f.id \in Ids \cup {None} /\ f.frag \in Frags
    BY <1>5, FrameIs
  <2>6. Keeps(u, t) /\ all \in Seq(SaidCalls) /\ Len(all) = Len(calls) + 1 /\ Gathered(u, all)
    <3>1. id = IF f.id = None THEN <<"call", Len(calls) + 1>> ELSE f.id
      BY DEF id
    <3>2. Reads(t, Whole(id, <<f.frag>>)).pc # "failed"
      BY <2>4
    <3> DEFINE x == f.id
               frag == f.frag
               v == Reads(t, Whole(id, <<frag>>))
    <3>3. x \in Ids \cup {None} /\ frag \in Frags /\ v.pc # "failed" /\ u = v
          /\ id = IF x = None THEN <<"call", Len(calls) + 1>> ELSE x
      BY <2>4, <2>5, <3>1, <3>2
    <3> DEFINE more == Append(calls, Said(None, x, <<frag>>, TRUE))
    <3>4. Keeps(v, t) /\ more \in Seq(SaidCalls) /\ Len(more) = Len(calls) + 1
          /\ Gathered(v, more)
      <4> HIDE DEF x, frag, calls
      <4> QED
        BY <1>0, <1>1, <3>3, WholeComes
    <3> QED
      BY <3>3, <3>4
  <2>7. Linked(u, q, all)
    BY <1>0, <2>1, <2>6 DEF Linked
  <2>8. SaidBy(s, f, all)
    BY <1>5, SaysWhole
  <2> HIDE DEF all
  <2> QED
    BY <2>1, <2>4, <2>6, <2>7, <2>8, Moves
<1>6. CASE f.kind = "finish"
  <2> DEFINE r == IF p.count > 0 THEN "tool_calls" ELSE f.reason
  <2>1. Google(p, f) = Give(p, <<Finish(r)>>)
    BY <1>6 DEF Google
  <2>2. r \in Reasons \cup {None}
    BY <1>6, FrameIs DEF Reasons
  <2> HIDE DEF r
  <2>3. u = Reads(t, Finish(r)) /\ Google(p, f).parser = p
    BY <2>1, GivesOne
  <2>4. SaidBy(s, f, calls) /\ EndsStream(f)
    BY <1>6, SaysNothing DEF EndsStream
  <2> QED
    BY <2>2, <2>3, <2>4, SilentMoves
<1>7. CASE f.kind = "usage"
  <2>1. Google(p, f) = Give(p, <<>>)
    BY <1>7 DEF Google
  <2>2. u = t /\ Google(p, f).parser = p
    BY <2>1, GivesNothing
  <2>3. SaidBy(s, f, calls)
    BY <1>7, SaysNothing
  <2> QED
    BY <2>2, <2>3, SilentMoves
<1> QED
  BY <1>2, <1>3, <1>4, <1>5, <1>6, <1>7

LEMMA ImagesMoves ==
  ASSUME family = "images", NEW t \in Turns, t.pc = "reading", NEW p \in Parsers,
         NEW s \in Sents, Linked(t, p, s.calls), t.reason # None => s.ended,
         NEW f \in Frames, Images(p, f).ok,
         NEW u, u = ConsumeAll(t, Images(p, f).out), u.pc # "failed"
  PROVE  Moved(u, Images(p, f).parser, Says(s, f))
<1> DEFINE calls == s.calls
<1>1. f.kind \in {"text", "image"} /\ calls \in Seq(SaidCalls)
  BY FrameIs, GiveIs DEF Images, Sents
<1> DEFINE out == <<Plain("open"), Plain(f.kind), Finish("stop")>>
<1>2. Images(p, f) = Give(p, out)
  BY <1>1 DEF Images
<1>3. u = ConsumeAll(t, out) /\ Images(p, f).parser = p
  <2> HIDE DEF out
  <2> QED
    BY <1>2 DEF Give
<1>4. u \in Turns /\ u.pc = "reading" /\ u.pending = t.pending /\ u.completed = t.completed
  BY <1>1, <1>3, ReadsDocument
<1> HIDE DEF out
<1>5. Linked(u, p, calls)
  BY <1>4, LinkedSame
<1>6. SaidBy(s, f, calls) /\ EndsStream(f)
  BY <1>1, SaysNothing DEF EndsStream
<1> QED
  BY <1>1, <1>3, <1>4, <1>5, <1>6, Moves

\* A script opens the message with its first step.
LEMMA FauxMoves ==
  ASSUME family = "faux", NEW t \in Turns, t.pc = "reading", NEW p \in Parsers,
         NEW s \in Sents, Linked(t, p, s.calls), t.reason # None => s.ended,
         NEW f \in Frames, Faux(p, f).ok,
         NEW u, u = ConsumeAll(t, Faux(p, f).out), u.pc # "failed"
  PROVE  Moved(u, Faux(p, f).parser, Says(s, f))
<1> DEFINE calls == s.calls
           o == Plain("open")
           opened == IF p.started THEN <<>> ELSE <<o>>
           started == [p EXCEPT !.started = TRUE]
           v == ConsumeAll(t, opened)
<1>0. calls \in Seq(SaidCalls) /\ family \notin ByIndex
  BY DEF Sents, ByIndex
<1>1. Gathered(t, calls)
  BY DEF Linked
<1>2. f.kind \in {"text", "whole", "finish"} /\ (f.kind = "whole" => f.id # None)
  BY FrameIs, GiveIs DEF Faux
<1>4. ASSUME NEW e, NEW q, Faux(p, f) = Give(q, Append(opened, e))
      PROVE  u = Reads(v, e) /\ v.pc # "failed" /\ Faux(p, f).parser = q
  <2> DEFINE out == Append(opened, e)
             read == Faux(p, f)
  <2>1. read = Give(q, out) /\ u = ConsumeAll(t, read.out)
    BY <1>4
  <2> HIDE DEF out, read
  <2>2. read.parser = q /\ u = ConsumeAll(t, out)
    BY <2>1 DEF Give
  <2>3. opened \in Seq({o, e}) /\ e \in {o, e}
    <3> HIDE DEF o
    <3>1. <<o>> \in Seq({o, e}) /\ <<>> \in Seq({o, e})
      OBVIOUS
    <3>2. opened = <<>> \/ opened = <<o>>
      OBVIOUS
    <3> QED
      BY <3>1, <3>2
  <2>4. ConsumeAll(t, out) = Reads(v, e)
    <3> HIDE DEF opened
    <3> QED
      BY <2>3, ReadsLast DEF out
  <2>5. v.pc # "failed"
    <3> HIDE DEF v
    <3> QED
      BY <2>2, <2>4, FailedReads
  <2> QED
    BY <2>2, <2>4, <2>5 DEF read
<1>5. ASSUME v.pc # "failed"
      PROVE  /\ Keeps(v, t) /\ v.pending = t.pending /\ v.completed = t.completed
  <2>1. CASE p.started
    <3>1. v = t
      BY <2>1, ReadsNothing
    <3> QED
      BY <3>1 DEF Keeps
  <2>2. CASE ~p.started
    <3>1. v = Reads(t, Plain("open"))
      BY <2>2, ReadsOne
    <3> QED
      BY <1>5, <3>1, ReadsPlain
  <2> QED
    BY <2>1, <2>2
<1> HIDE DEF opened, v
<1>6. ASSUME v.pc # "failed"
      PROVE  /\ v \in Turns /\ v.pc = "reading" /\ Linked(v, p, calls) /\ Gathered(v, calls)
             /\ v.reason # None => s.ended
  <2>1. v \in Turns /\ v.pc = "reading" /\ v.reason = t.reason
        /\ v.pending = t.pending /\ v.completed = t.completed
    BY <1>5, <1>6 DEF Keeps
  <2>2. Linked(v, p, calls)
    BY <2>1, LinkedSame
  <2>3. Gathered(v, calls)
    BY <1>1, <2>1 DEF Gathered
  <2> QED
    BY <2>1, <2>2, <2>3
<1>7. CASE f.kind = "text"
  <2> DEFINE q == started
  <2>1. q \in Parsers /\ q.calls = p.calls /\ q.count = p.count
    BY DEF Parsers
  <2>2. Faux(p, f) = Give(q, Append(opened, Plain("text")))
    BY <1>7 DEF Faux, opened
  <2> HIDE DEF q
  <2>3. u = Reads(v, Plain("text")) /\ v.pc # "failed" /\ Faux(p, f).parser = q
    BY <1>4, <2>2
  <2>4. SaidBy(s, f, calls)
    BY <1>7, SaysNothing
  <2> QED
    BY <1>6, <2>1, <2>3, <2>4, SilentMoves
<1>8. CASE f.kind = "whole"
  <2> DEFINE q == [started EXCEPT !.count = @ + 1]
             all == Append(calls, Said(None, f.id, <<f.frag>>, TRUE))
  <2>1. q \in Parsers
    <3>1. started \in Parsers
      BY DEF Parsers
    <3> HIDE DEF started
    <3> QED
      BY <3>1 DEF Parsers
  <2>2. Faux(p, f) = Give(q, Append(opened, Whole(f.id, <<f.frag>>)))
    BY <1>2, <1>8 DEF Faux, opened
  <2> HIDE DEF q
  <2>3. u = Reads(v, Whole(f.id, <<f.frag>>)) /\ v.pc # "failed" /\ Faux(p, f).parser = q
    BY <1>4, <2>2
  <2>4. f.id \in Ids \cup {None} /\ f.frag \in Frags /\ f.id # None
    BY <1>2, <1>8, FrameIs
  <2>5. Keeps(u, v) /\ all \in Seq(SaidCalls) /\ Gathered(u, all)
    BY <1>0, <1>6, <2>3, <2>4, WholeComes
  <2>6. Linked(u, q, all)
    BY <1>0, <2>5 DEF Linked
  <2>7. SaidBy(s, f, all)
    BY <1>8, SaysWhole
  <2> HIDE DEF all
  <2> QED
    BY <1>6, <2>1, <2>3, <2>5, <2>6, <2>7, Moves
<1>9. CASE f.kind = "finish"
  <2> DEFINE q == [started EXCEPT !.ended = TRUE]
             r == IF p.count > 0 THEN "tool_calls" ELSE "stop"
  <2>1. q \in Parsers /\ q.calls = p.calls /\ q.count = p.count
    BY DEF Parsers
  <2>2. Faux(p, f) = Give(q, Append(opened, Finish(r)))
    BY <1>9 DEF Faux, opened
  <2>3. r \in Reasons \cup {None}
    BY DEF Reasons
  <2> HIDE DEF q, r
  <2>4. u = Reads(v, Finish(r)) /\ v.pc # "failed" /\ Faux(p, f).parser = q
    BY <1>4, <2>2
  <2>5. SaidBy(s, f, calls) /\ EndsStream(f)
    BY <1>9, SaysNothing DEF EndsStream
  <2> QED
    BY <1>6, <2>1, <2>3, <2>4, <2>5, SilentMoves
<1> QED
  BY <1>2, <1>7, <1>8, <1>9

\* At the end of a stream that kept its calls, the turn reads them all.
LEMMA KeptAreGathered ==
  ASSUME NEW p \in Parsers, NEW calls \in Seq(SaidCalls), KeptCalls(p, calls),
         \A s \in Slots : Known(p, s) => p.calls[s].ended,
         NEW t \in Turns, t.pc = "reading", t.pending = {}, t.completed = <<>>,
         NEW wholes, wholes = [i \in DOMAIN Open(p) |->
                                 Whole(p.calls[Open(p)[i]].id, p.calls[Open(p)[i]].args)],
         NEW u, u = ConsumeAll(t, wholes), u.pc # "failed"
  PROVE  Keeps(u, t) /\ Gathered(u, calls)
<1> DEFINE n == Len(Open(p))
<1>1. /\ n \in Nat /\ DOMAIN Open(p) = 1 .. n
      /\ \A i \in 1 .. n : Open(p)[i] \in Slots /\ Known(p, Open(p)[i])
      /\ \A i, j \in 1 .. n : Open(p)[i] = Open(p)[j] => i = j
      /\ \A s \in Slots : Known(p, s) => \E i \in 1 .. n : Open(p)[i] = s
  <2>1. \A s \in Slots : Known(p, s) => \E i \in DOMAIN calls : calls[i].slot = s
    BY DEF KeptCalls
  <2>2. /\ Len(Open(p)) \in Nat /\ DOMAIN Open(p) = 1 .. Len(Open(p))
        /\ \A i \in DOMAIN Open(p) : Open(p)[i] \in Slots /\ Known(p, Open(p)[i])
        /\ \A i, j \in DOMAIN Open(p) : Open(p)[i] = Open(p)[j] => i = j
        /\ \A s \in Slots : Known(p, s) => \E i \in DOMAIN Open(p) : Open(p)[i] = s
    BY <2>1, OpenIs
  <2> QED
    BY <2>2
<1> DEFINE o == Open(p)
<1> HIDE DEF n, o
<1>2. Len(wholes) = n
      /\ \A i \in 1 .. n : wholes[i] = Whole(p.calls[o[i]].id, p.calls[o[i]].args)
  BY <1>1 DEF o
<1>3. \A i \in 1 .. n : /\ p.calls[o[i]].id \in WireIds /\ p.calls[o[i]].args \in Seq(Frags)
                        /\ wholes[i].id = p.calls[o[i]].id /\ wholes[i].frags = p.calls[o[i]].args
  <2> TAKE i \in 1 .. n
  <2>1. p.calls[o[i]] \in Blocks /\ p.calls[o[i]].id # None
    BY <1>1 DEF o, Parsers, Known
  <2>2. wholes[i] = Whole(p.calls[o[i]].id, p.calls[o[i]].args)
    BY <1>2
  <2>3. wholes[i].id = p.calls[o[i]].id /\ wholes[i].frags = p.calls[o[i]].args
    BY ONLY <2>2 DEF Whole
  <2>4. p.calls[o[i]].id \in WireIds /\ p.calls[o[i]].args \in Seq(Frags)
    BY ONLY <2>1 DEF Blocks, WireIds
  <2> QED
    BY <2>3, <2>4
<1> DEFINE N == Len(wholes)
           made(i) == [id |-> wholes[i].id, args |-> wholes[i].frags]
<1>4. /\ Keeps(u, t) /\ u.pending = {} /\ DOMAIN u.completed = 1 .. n
      /\ \A i \in 1 .. n : u.completed[i] = made(i) /\ wholes[i].id \notin seen
      /\ \A i, k \in 1 .. n : wholes[k].id = wholes[i].id => k = i
  <2>1. \A i \in 1 .. N : \E id \in WireIds, args \in Seq(Frags) : wholes[i] = Whole(id, args)
    BY <1>2, <1>3
  <2>2. N \in Nat
    BY <1>1, <1>2
  <2>3. /\ Keeps(u, t) /\ u.pending = {} /\ DOMAIN u.completed = 1 .. N
        /\ \A i \in 1 .. N :
             /\ u.completed[i] = made(i)
             /\ wholes[i].id \notin seen
             /\ \A k \in 1 .. N : wholes[k].id = wholes[i].id => k = i
    BY ONLY <2>1, <2>2, ReadsWholes, t \in Turns, t.pc = "reading", t.pending = {},
            t.completed = <<>>, u = ConsumeAll(t, wholes), u.pc # "failed"
  <2>4. N = n
    BY <1>2
  <2> HIDE DEF made, N
  <2> QED
    BY <2>3, <2>4
<1>18. \A i, k \in 1 .. n : wholes[k].id = wholes[i].id => k = i
  BY <1>4
<1>17. \A i \in 1 .. n : wholes[i].id \notin seen
  BY <1>4
<1> DEFINE rec(i) == [id |-> Wire(calls, i), args |-> calls[i].args]
<1>5. ASSUME NEW i \in DOMAIN calls
      PROVE  \E k \in 1 .. n : o[k] = calls[i].slot /\ u.completed[k] = rec(i)
                               /\ wholes[k].id = Wire(calls, i)
  <2>1. KeptAs(p, calls, i)
    BY DEF KeptCalls
  <2>2. PICK k \in 1 .. n : o[k] = calls[i].slot
    BY <1>1, <2>1 DEF KeptAs, o
  <2>3. p.calls[o[k]].id = calls[i].id /\ p.calls[o[k]].args = calls[i].args /\ calls[i].id # None
    BY <2>1, <2>2 DEF KeptAs, Known
  <2>4. Wire(calls, i) = calls[i].id
    BY <2>3 DEF Wire
  <2>5. wholes[k].id = Wire(calls, i) /\ wholes[k].frags = calls[i].args
    BY <1>3, <2>3, <2>4
  <2>6. made(k) = rec(i)
    BY <2>5
  <2>7. u.completed[k] = made(k)
    BY <1>4
  <2> HIDE DEF made, rec
  <2> QED
    BY <2>2, <2>5, <2>6, <2>7
<1>6. ASSUME NEW k \in 1 .. n
      PROVE  \E i \in DOMAIN calls : u.completed[k] = rec(i) /\ calls[i].done
  <2>1. o[k] \in Slots /\ Known(p, o[k])
    BY <1>1 DEF o
  <2>2. PICK i \in DOMAIN calls : calls[i].slot = o[k]
    BY <2>1 DEF KeptCalls
  <2>3. PICK m \in 1 .. n : o[m] = calls[i].slot /\ u.completed[m] = rec(i)
    BY <1>5
  <2>4. m = k
    BY <1>1, <2>2, <2>3 DEF o
  <2>5. calls[i].done
    BY <2>1, <2>2 DEF KeptCalls, KeptAs
  <2> HIDE DEF rec
  <2> QED
    BY <2>2, <2>3, <2>4, <2>5
<1>7. \A i : rec(i).id = Wire(calls, i) /\ made(i).id = wholes[i].id
  OBVIOUS
<1>8. Made(calls) = {rec(i) : i \in DOMAIN calls}
  BY DEF Made
<1> HIDE DEF rec, made
<1>9. u.pending \cup ToSet(u.completed) = Made(calls)
  <2>1. ToSet(u.completed) = {u.completed[k] : k \in 1 .. n}
    BY <1>4 DEF ToSet
  <2>2. ToSet(u.completed) \subseteq Made(calls)
    BY ONLY <1>6, <1>8, <2>1
  <2>3. Made(calls) \subseteq ToSet(u.completed)
    BY ONLY <1>5, <1>8, <2>1
  <2>4. u.pending = {}
    BY <1>4
  <2> QED
    BY <2>2, <2>3, <2>4
<1>10. ASSUME NEW i \in DOMAIN calls, NEW j \in DOMAIN calls, Wire(calls, i) = Wire(calls, j)
       PROVE  i = j
  <2>1. PICK k \in 1 .. n : o[k] = calls[i].slot /\ wholes[k].id = Wire(calls, i)
    BY <1>5
  <2>2. PICK m \in 1 .. n : o[m] = calls[j].slot /\ wholes[m].id = Wire(calls, j)
    BY <1>5
  <2>3. m = k
    <3>1. wholes[m].id = wholes[k].id
      BY <1>10, <2>1, <2>2
    <3> QED
      BY ONLY <1>18, <3>1, k \in 1 .. n, m \in 1 .. n
  <2>4. calls[i].slot = calls[j].slot
    BY <2>1, <2>2, <2>3
  <2> QED
    BY <2>4 DEF KeptCalls, KeptAs
<1>11. \A i \in DOMAIN calls : Wire(calls, i) \notin seen
  BY ONLY <1>5, <1>17
<1>12. \A j \in DOMAIN u.completed : j \in 1 .. n /\ u.completed[j].id = wholes[j].id
  BY <1>4, <1>7
<1>13. \A j, k \in DOMAIN u.completed : u.completed[j].id = u.completed[k].id => j = k
  BY ONLY <1>18, <1>12
<1>14. ASSUME NEW j \in DOMAIN u.completed
       PROVE  \E i \in DOMAIN calls : Wire(calls, i) = u.completed[j].id /\ calls[i].done
  <2>1. PICK i \in DOMAIN calls : u.completed[j] = rec(i) /\ calls[i].done
    BY <1>6, <1>12
  <2> QED
    BY <1>7, <2>1
<1>15. \A j \in DOMAIN u.completed : \A c \in u.pending : u.completed[j].id # c.id
  BY <1>4
<1>16. Keeps(u, t)
  BY <1>4
<1> QED
  BY <1>9, <1>10, <1>11, <1>13, <1>14, <1>15, <1>16 DEF Gathered

LEMMA ConverseMoves ==
  ASSUME family = "converse", NEW t \in Turns, t.pc = "reading", NEW p \in Parsers,
         NEW s \in Sents, Linked(t, p, s.calls), t.reason # None => s.ended,
         NEW f \in Frames, Converse(p, f).ok,
         NEW u, u = ConsumeAll(t, Converse(p, f).out), u.pc # "failed"
  PROVE  Moved(u, Converse(p, f).parser, Says(s, f))
<1> DEFINE calls == s.calls
<1>0. calls \in Seq(SaidCalls) /\ family \notin ByIndex /\ family # "chat"
  BY DEF Sents, ByIndex
<1>1. ~p.ended /\ p.ended \in BOOLEAN
  BY GiveIs DEF Converse, Parsers
<1>2. t.pending = {} /\ t.completed = <<>> /\ KeptCalls(p, calls)
  BY <1>1 DEF Linked
<1>3. /\ f.kind \in {"open", "text", "call", "args", "stop", "finish", "usage"}
      /\ f.kind = "open" => ~p.started
      /\ f.kind \in {"text", "call", "args", "stop", "finish"} => InContent(p)
      /\ f.kind = "call" => ~Known(p, f.slot)
      /\ f.kind = "args" => Known(p, f.slot) /\ ~p.calls[f.slot].ended
      /\ f.kind = "stop" => (Known(p, f.slot) => ~p.calls[f.slot].ended)
  BY <1>1, FrameIs, GiveIs DEF Converse
<1>4. CASE f.kind = "open"
  <2> DEFINE q == [p EXCEPT !.started = TRUE]
  <2>1. q \in Parsers /\ q.calls = p.calls /\ q.count = p.count /\ q.ended = p.ended
    BY DEF Parsers
  <2>2. Converse(p, f) = Give(q, <<Plain("open")>>)
    BY <1>1, <1>3, <1>4 DEF Converse
  <2> HIDE DEF q
  <2>3. u = Reads(t, Plain("open")) /\ Converse(p, f).parser = q
    BY <2>2, GivesOne
  <2>4. SaidBy(s, f, calls)
    BY <1>4, SaysNothing
  <2> QED
    BY <2>1, <2>3, <2>4, SilentMoves
<1>5. CASE f.kind = "text"
  <2>1. Converse(p, f) = Give(p, <<Plain("text")>>)
    BY <1>1, <1>3, <1>5 DEF Converse
  <2>2. u = Reads(t, Plain("text")) /\ Converse(p, f).parser = p
    BY <2>1, GivesOne
  <2>3. SaidBy(s, f, calls)
    BY <1>5, SaysNothing
  <2> QED
    BY <2>2, <2>3, SilentMoves
<1>6. CASE f.kind = "call"
  <2> DEFINE q == Took(p, f.slot, f.id)
             all == Append(calls, Said(f.slot, f.id, <<>>, FALSE))
  <2>1. f.slot \in Slots /\ f.id \in Ids
    BY <1>6, FrameIs
  <2>2. Converse(p, f) = Give(q, <<>>)
    BY <1>1, <1>3, <1>6 DEF Converse
  <2>3. q \in Parsers /\ q.ended = p.ended
    BY <2>1, TookIs
  <2>4. KeptCalls(q, all)
    BY <1>0, <1>2, <1>3, <1>6, <2>1, KeptMore
  <2>5. all \in Seq(SaidCalls)
    <3>1. Said(f.slot, f.id, <<>>, FALSE) \in SaidCalls
      BY <2>1 DEF Said, SaidCalls
    <3> QED
      BY <1>0, <3>1, AppendIs
  <2> HIDE DEF q
  <2>6. u = t /\ Converse(p, f).parser = q
    BY <2>2, GivesNothing
  <2>7. Linked(u, q, all) /\ Keeps(u, t)
    BY <1>1, <1>2, <2>3, <2>4, <2>6 DEF Linked, Keeps
  <2>8. SaidBy(s, f, all)
    BY <1>6, SaysCall
  <2> HIDE DEF all
  <2> QED
    BY <2>3, <2>5, <2>6, <2>7, <2>8, Moves
<1>7. CASE f.kind = "args"
  <2> DEFINE q == [p EXCEPT !.calls[f.slot].args = Append(@, f.frag)]
             all == Added(calls, Addressed(calls, f.slot), f.frag)
  <2>1. f.slot \in Slots /\ f.frag \in Frags /\ Known(p, f.slot)
    BY <1>3, <1>7, FrameIs DEF Known
  <2>2. Converse(p, f) = Give(q, <<>>)
    BY <1>1, <1>3, <1>7 DEF Converse
  <2>3. q \in Parsers /\ q.ended = p.ended /\ KeptCalls(q, all)
    BY ONLY p \in Parsers, <1>0, <1>2, <2>1, KeptArgs
  <2>4. all \in Seq(SaidCalls)
    BY <1>0, <2>1, AddedIs
  <2> HIDE DEF q
  <2>5. u = t /\ Converse(p, f).parser = q
    BY <2>2, GivesNothing
  <2>6. Linked(u, q, all) /\ Keeps(u, t)
    BY <1>1, <1>2, <2>3, <2>5 DEF Linked, Keeps
  <2>7. SaidBy(s, f, all)
    BY <1>7, SaysArgs
  <2> HIDE DEF all
  <2> QED
    BY <2>3, <2>4, <2>5, <2>6, <2>7, Moves
<1>8. CASE f.kind = "stop"
  <2> DEFINE q == IF Known(p, f.slot) THEN Stopped(p, f.slot) ELSE p
             all == Finished(calls, Addressed(calls, f.slot))
  <2>1. Converse(p, f) = Give(q, <<>>)
    BY <1>1, <1>3, <1>8 DEF Converse
  <2>2. q \in Parsers /\ q.ended = p.ended /\ KeptCalls(q, all)
    <3>1. CASE Known(p, f.slot)
      <4>1. f.slot \in Slots /\ q = Stopped(p, f.slot)
        BY <3>1 DEF Known
      <4> QED
        BY <1>0, <1>2, <3>1, <4>1, StoppedIs, KeptStop
    <3>2. CASE ~Known(p, f.slot)
      BY <1>0, <1>2, <3>2, KeptEnded
    <3> QED
      BY <3>1, <3>2
  <2>3. all \in Seq(SaidCalls)
    BY <1>0, FinishedIs
  <2> HIDE DEF q
  <2>4. u = t /\ Converse(p, f).parser = q
    BY <2>1, GivesNothing
  <2>5. Linked(u, q, all) /\ Keeps(u, t)
    BY <1>1, <1>2, <2>2, <2>4 DEF Linked, Keeps
  <2>6. SaidBy(s, f, all)
    BY <1>8, SaysStop
  <2> HIDE DEF all
  <2> QED
    BY <2>2, <2>3, <2>4, <2>5, <2>6, Moves
<1>9. CASE f.kind = "finish"
  <2> DEFINE q == [p EXCEPT !.reason = f.reason]
  <2>1. q \in Parsers /\ q.calls = p.calls /\ q.count = p.count /\ q.ended = p.ended
    BY <1>9, FrameIs DEF Parsers
  <2>2. Converse(p, f) = Give(q, <<>>)
    BY <1>1, <1>3, <1>9 DEF Converse
  <2> HIDE DEF q
  <2>3. u = t /\ Converse(p, f).parser = q
    BY <2>2, GivesNothing
  <2>4. SaidBy(s, f, calls)
    BY <1>0, <1>9, SaysNothing
  <2> QED
    BY <2>1, <2>3, <2>4, SilentMoves
<1>10. CASE f.kind = "usage"
  <2> DEFINE q == [p EXCEPT !.ended = TRUE]
             r == IF HasCalls(p) THEN "tool_calls" ELSE p.reason
             e == Finish(r)
             n == Len(Open(p))
             wholes == [i \in DOMAIN Open(p) |->
                          Whole(p.calls[Open(p)[i]].id, p.calls[Open(p)[i]].args)]
             v == ConsumeAll(t, wholes)
  <2>1. Converse(p, f) = Metadata(p)
    BY <1>1, <1>10 DEF Converse
  <2>2. \A x \in Slots : Known(p, x) => p.calls[x].ended
    BY <2>1, GiveIs DEF Metadata
  <2>3. Metadata(p) = Give(q, wholes \o <<e>>)
    BY <2>1, GiveIs DEF Metadata
  <2>4. n \in Nat /\ DOMAIN Open(p) = 1 .. n
    <3>1. \A x \in Slots : Known(p, x) => \E i \in DOMAIN calls : calls[i].slot = x
      BY <1>2 DEF KeptCalls
    <3> QED
      BY <1>0, <3>1, OpenIs
  <2> DEFINE T == {wholes[i] : i \in 1 .. n} \cup {e}
  <2>5. wholes \in Seq(T) /\ e \in T
    <3>1. wholes \in [1 .. n -> T]
      BY <2>4
    <3> HIDE DEF wholes, T, n
    <3>2. wholes \in Seq(T)
      BY <2>4, <3>1
    <3> QED
      BY <3>2 DEF T
  <2>6. r \in Reasons \cup {None}
    BY DEF Reasons, Parsers
  <2>7. q \in Parsers /\ q.ended
    BY DEF Parsers
  <2> HIDE DEF q, r
  <2>8. Converse(p, f).parser = q /\ u = Reads(v, e)
    <3> DEFINE out == wholes \o <<e>>
               read == Converse(p, f)
    <3>1. read = Give(q, out) /\ u = ConsumeAll(t, read.out)
      BY <2>1, <2>3
    <3> HIDE DEF out, read
    <3>2. read.parser = q /\ u = ConsumeAll(t, out)
      BY <3>1 DEF Give
    <3> HIDE DEF wholes, e, T
    <3>3. out = Append(wholes, e)
      BY <2>5 DEF out
    <3> QED
      BY <2>5, <3>2, <3>3, ReadsLast DEF read
  <2>9. v.pc # "failed"
    BY <2>8, FailedReads
  <2>10. Keeps(v, t) /\ Gathered(v, calls)
    <3> HIDE DEF v
    <3>1. v = ConsumeAll(t, wholes)
      BY DEF v
    <3> HIDE DEF wholes
    <3>2. wholes = [i \in DOMAIN Open(p) |->
                      Whole(p.calls[Open(p)[i]].id, p.calls[Open(p)[i]].args)]
      BY DEF wholes
    <3> QED
      BY <1>0, <1>2, <2>2, <2>9, <3>1, <3>2, KeptAreGathered
  <2> HIDE DEF v
  <2>11. u \in Turns /\ u.pc = "reading" /\ u.pending = v.pending /\ u.completed = v.completed
    BY <2>6, <2>8, <2>10, ReadsFinish DEF Keeps
  <2>12. Linked(u, q, calls)
    <3>1. Gathered(u, calls)
      BY <2>10, <2>11 DEF Gathered
    <3> QED
      BY <1>0, <2>7, <3>1 DEF Linked
  <2>13. SaidBy(s, f, calls) /\ EndsStream(f)
    BY <1>10, SaysNothing DEF EndsStream
  <2> QED
    BY <1>0, <2>7, <2>8, <2>11, <2>12, <2>13, Moves
<1> QED
  BY <1>3, <1>4, <1>5, <1>6, <1>7, <1>8, <1>9, <1>10

-----------------------------------------------------------------------------
(* Every step of a turn.                                                   *)

\* A batch with nothing pending is what the server said, call by call.
LEMMA BatchIsWhole ==
  ASSUME NEW t \in Turns, NEW calls \in Seq(SaidCalls), Gathered(t, calls), t.pending = {}
  PROVE  /\ \A i \in DOMAIN calls : calls[i].done
         /\ Len(t.completed) = Len(calls)
         /\ ToSet(t.completed) = Made(calls)
         /\ \A c \in ToSet(t.completed) : c.id \notin seen
<1> DEFINE made == t.completed
           rec(i) == [id |-> Wire(calls, i), args |-> calls[i].args]
<1>1. ToSet(made) = {rec(i) : i \in DOMAIN calls} /\ ToSet(made) = Made(calls)
  BY DEF Gathered, Made
<1>2. ToSet(made) = {made[j] : j \in DOMAIN made} /\ made \in Seq(CallRecs)
  BY DEF ToSet, Turns
<1>3. /\ DOMAIN made = 1 .. Len(made) /\ Len(made) \in Nat
      /\ DOMAIN calls = 1 .. Len(calls) /\ Len(calls) \in Nat
  BY <1>2
<1>4. \A i : rec(i).id = Wire(calls, i)
  OBVIOUS
<1> HIDE DEF rec, made
<1>5. \A i \in DOMAIN calls : \E j \in DOMAIN made : made[j].id = Wire(calls, i)
  BY <1>1, <1>2, <1>4
<1>6. \A j \in DOMAIN made : \E i \in DOMAIN calls :
        Wire(calls, i) = made[j].id /\ calls[i].done
  BY DEF Gathered, made
<1>7. \A i, j \in DOMAIN calls : Wire(calls, i) = Wire(calls, j) => i = j
  BY DEF Gathered
<1>8. \A j, k \in DOMAIN made : made[j].id = made[k].id => j = k
  BY DEF Gathered, made
<1>9. ASSUME NEW i \in DOMAIN calls PROVE calls[i].done
  <2>1. PICK j \in DOMAIN made : made[j].id = Wire(calls, i)
    BY <1>5
  <2>2. PICK k \in DOMAIN calls : Wire(calls, k) = made[j].id /\ calls[k].done
    BY <1>6
  <2> QED
    BY <1>7, <2>1, <2>2
<1>10. Len(made) = Len(calls)
  <2> DEFINE S == 1 .. Len(calls)
             T == 1 .. Len(made)
             f == [i \in S |-> CHOOSE j \in T : made[j].id = Wire(calls, i)]
  <2>1. \A i \in S : f[i] \in T /\ made[f[i]].id = Wire(calls, i)
    BY <1>3, <1>5
  <2>2. f \in [S -> T]
    BY <2>1
  <2> HIDE DEF f
  <2>3. \A i, k \in S : f[i] = f[k] => i = k
    BY <1>3, <1>7, <2>1
  <2>4. \A j \in T : \E i \in S : f[i] = j
    <3> TAKE j \in T
    <3>1. PICK i \in S : Wire(calls, i) = made[j].id
      BY <1>3, <1>6
    <3>2. made[f[i]].id = made[j].id /\ f[i] \in T
      BY <2>1, <3>1
    <3> QED
      BY <1>3, <1>8, <3>2
  <2>5. ExistsBijection(S, T)
    BY <2>2, <2>3, <2>4 DEF ExistsBijection, Bijection, Injection, Surjection, IsInjective
  <2>6. IsFiniteSet(S) /\ Cardinality(S) = Len(calls) /\ Cardinality(T) = Len(made)
    <3>1. 1 \in Int /\ Len(calls) \in Int /\ Len(made) \in Int
      BY <1>3
    <3>2. /\ IsFiniteSet(S) /\ Cardinality(S) = IF 1 > Len(calls) THEN 0 ELSE Len(calls) - 1 + 1
          /\ Cardinality(T) = IF 1 > Len(made) THEN 0 ELSE Len(made) - 1 + 1
      BY <3>1, FS_Interval
    <3> QED
      BY <1>3, <3>2
  <2> HIDE DEF S, T
  <2> QED
    BY <2>5, <2>6, FS_Bijection
<1>11. \A c \in ToSet(made) : c.id \notin seen
  <2>1. \A i \in DOMAIN calls : Wire(calls, i) \notin seen
    BY DEF Gathered
  <2> QED
    BY <1>1, <1>4, <2>1
<1> QED
  BY <1>1, <1>9, <1>10, <1>11 DEF made

LEMMA TurnHoldsAtStart == TurnInit => TurnInv
<1> SUFFICES ASSUME TurnInit PROVE TurnInv
  OBVIOUS
<1>1. Fresh \in Parsers /\ Fresh.count = 0 /\ Fresh.ended = FALSE
      /\ \A s \in Slots : ~Known(Fresh, s)
  <2>1. Call(None) \in Blocks /\ Call(None).id = None
    BY DEF Call, Blocks
  <2> QED
    BY <2>1 DEF Fresh, Parsers, Known
<1>2. parser = Fresh /\ answers = 0 /\ family \in Families /\ sent.calls = <<>>
      /\ sent \in Sents
  BY DEF TurnInit, Sents
<1>3. turn \in Turns /\ turn.pc = "request" /\ turn.pending = {} /\ turn.completed = <<>>
      /\ turn.reason = None
  <2>1. turn \in Turns
    BY TurnAssumption DEF TurnInit, Turns
  <2> QED
    BY <2>1 DEF TurnInit
<1>4. Made(<<>>) = {} /\ ToSet(<<>>) = {} /\ DOMAIN <<>> = {} /\ Len(<<>>) = 0
  BY DEF Made, ToSet
<1>5. Gathered(turn, sent.calls)
  BY <1>2, <1>3, <1>4 DEF Gathered
<1>6. Indexed(parser, sent.calls) /\ KeptCalls(parser, sent.calls)
  BY <1>1, <1>2, <1>4 DEF Indexed, KeptCalls
<1>7. Linked(turn, parser, sent.calls)
  BY <1>1, <1>2, <1>3, <1>4, <1>5, <1>6 DEF Linked
<1> QED
  BY <1>1, <1>2, <1>3, <1>7 DEF TurnInv, TurnTypes

\* The turn goes on from where a frame left it.
LEMMA MovedHolds ==
  ASSUME family \in Families, UNCHANGED <<family, seen, answers>>, answers = 1,
         Moved(turn', parser', sent')
  PROVE  TurnInv'
<1>1. TurnTypes' /\ turn'.pc = "reading" /\ (turn'.reason # None => sent'.ended)
  BY DEF Moved, TurnTypes
<1>2. Linked(turn, parser, sent.calls)'
  <2>1. Linked(turn', parser', sent'.calls)
    BY DEF Moved
  <2> QED
    BY <2>1 DEF Linked, Gathered
<1> QED
  BY <1>1, <1>2 DEF TurnInv

LEMMA SendKeeps ==
  ASSUME TurnInv, NEW f \in Frames, Send(f)
  PROVE  TurnInv'
<1> DEFINE t == [turn EXCEPT !.pc = "reading"]
           read == ParseEvent(parser, f)
<1> SUFFICES ASSUME turn'.pc # "failed" PROVE TurnInv'
  BY DEF TurnInv, Send
<1>1. turn.pc \in {"document", "reading"} /\ family \in Families /\ answers = 1
      /\ TurnTypes /\ (turn.reason # None => sent.ended) /\ Linked(turn, parser, sent.calls)
  BY DEF Send, TurnInv
<1>2. turn \in Turns /\ parser \in Parsers /\ sent \in Sents
  BY <1>1 DEF TurnTypes
<1>3. t \in Turns /\ t.pc = "reading" /\ t.pending = turn.pending
      /\ t.completed = turn.completed /\ t.reason = turn.reason
  BY <1>2 DEF Turns
<1>4. read.ok
  BY <1>2 DEF Send, Turns
<1>5. parser' = read.parser /\ turn' = ConsumeAll(t, read.out) /\ sent' = Says(sent, f)
      /\ UNCHANGED <<family, seen, answers>>
  BY <1>4 DEF Send
<1> HIDE DEF t
<1>6. Linked(t, parser, sent.calls) /\ (t.reason # None => sent.ended)
  BY <1>1, <1>3, LinkedSame
<1>7. family \in {"chat", "messages", "responses", "codex", "google", "converse", "images",
                  "faux"}
  BY <1>1, TurnAssumption
<1> DEFINE u == turn'
<1>8. u.pc # "failed"
  OBVIOUS
<1>9. Moved(u, read.parser, Says(sent, f))
  <2> HIDE DEF u
  <2>0. u = ConsumeAll(t, read.out)
    BY <1>5 DEF u
  <2>1. CASE family = "chat"
    <3>1. read = Chat(parser, f)
      BY <2>1 DEF ParseEvent
    <3> HIDE DEF read
    <3> QED
      BY <1>2, <1>3, <1>4, <1>6, <1>8, <2>0, <2>1, <3>1, ChatMoves
  <2>2. CASE family = "messages"
    <3>1. read = Messages(parser, f)
      BY <2>2 DEF ParseEvent
    <3> HIDE DEF read
    <3> QED
      BY <1>2, <1>3, <1>4, <1>6, <1>8, <2>0, <2>2, <3>1, MessagesMoves
  <2>3. CASE family \in {"responses", "codex"}
    <3>1. read = Responses(parser, f)
      <4>1. read = Responses(parser, f) \/ read = Fail
        BY <2>3 DEF ParseEvent, Codex
      <4> QED
        BY <1>4, <4>1 DEF Fail
    <3> HIDE DEF read
    <3> QED
      BY <1>2, <1>3, <1>4, <1>6, <1>8, <2>0, <2>3, <3>1, ResponsesMoves
  <2>4. CASE family = "google"
    <3>1. read = Google(parser, f)
      BY <2>4 DEF ParseEvent
    <3> HIDE DEF read
    <3> QED
      BY <1>2, <1>3, <1>4, <1>6, <1>8, <2>0, <2>4, <3>1, GoogleMoves
  <2>5. CASE family = "converse"
    <3>1. read = Converse(parser, f)
      BY <2>5 DEF ParseEvent
    <3> HIDE DEF read
    <3> QED
      BY <1>2, <1>3, <1>4, <1>6, <1>8, <2>0, <2>5, <3>1, ConverseMoves
  <2>6. CASE family = "images"
    <3>1. read = Images(parser, f)
      BY <2>6 DEF ParseEvent
    <3> HIDE DEF read
    <3> QED
      BY <1>2, <1>3, <1>4, <1>6, <1>8, <2>0, <2>6, <3>1, ImagesMoves
  <2>7. CASE family = "faux"
    <3>1. read = Faux(parser, f)
      BY <2>7 DEF ParseEvent
    <3> HIDE DEF read
    <3> QED
      BY <1>2, <1>3, <1>4, <1>6, <1>8, <2>0, <2>7, <3>1, FauxMoves
  <2> QED
    BY <1>7, <2>1, <2>2, <2>3, <2>4, <2>5, <2>6, <2>7
<1> QED
  BY <1>1, <1>5, <1>9, MovedHolds

\* A turn that is not yet read or is being read goes on as it was.
LEMMA TurnGoesOn ==
  ASSUME TurnInv, turn.pc # "failed", UNCHANGED <<family, seen, parser, sent>>,
         NEW n \in Nat, NEW pc \in {"request", "document", "reading"},
         turn' = [turn EXCEPT !.pc = pc, !.attempt = n],
         answers' = IF pc = "request" THEN 0 ELSE 1
  PROVE  TurnInv'
<1>1. turn \in Turns
  BY DEF TurnInv, TurnTypes
<1>2. turn' \in Turns /\ turn'.pc = pc /\ turn'.pending = turn.pending
      /\ turn'.completed = turn.completed /\ turn'.reason = turn.reason
  BY <1>1 DEF Turns
<1>3. Linked(turn', parser, sent.calls)
  BY <1>2, LinkedSame DEF TurnInv
<1>4. Linked(turn, parser, sent.calls)'
  BY <1>3 DEF Linked, Gathered
<1> QED
  BY <1>2, <1>4 DEF TurnInv, TurnTypes

LEMMA CloseKeeps ==
  ASSUME TurnInv, Close
  PROVE  TurnInv'
<1> SUFFICES ASSUME turn'.pc # "failed" PROVE TurnInv'
  BY DEF TurnInv, Close
<1>1. /\ turn.pc = "reading" /\ UNCHANGED <<family, seen, parser, sent, answers>>
      /\ turn' = [turn EXCEPT !.pc = "committed"]
      /\ (family = "converse" => parser.ended) /\ Ready(turn)
  <2>1. turn \in Turns
    BY DEF Close, TurnInv, TurnTypes
  <2> QED
    BY <2>1 DEF Close, Turns
<1>2. /\ family \in Families /\ TurnTypes /\ answers = 1
      /\ (turn.reason # None => sent.ended) /\ Linked(turn, parser, sent.calls)
  BY <1>1 DEF TurnInv
<1>3. turn \in Turns /\ parser \in Parsers /\ sent \in Sents
  BY <1>2 DEF TurnTypes
<1>4. turn' \in Turns /\ turn'.pc = "committed" /\ turn'.pending = turn.pending
      /\ turn'.completed = turn.completed /\ turn'.reason = turn.reason
  BY <1>1, <1>3 DEF Turns
<1>5. Linked(turn', parser, sent.calls)
  BY <1>2, <1>4, LinkedSame
<1>6. Linked(turn, parser, sent.calls)'
  BY <1>1, <1>5 DEF Linked, Gathered
<1>7. turn.pending = {} /\ turn.reason # None
  BY <1>1 DEF Ready
<1>8. sent.calls \in Seq(SaidCalls) /\ Gathered(turn, sent.calls)
  BY <1>1, <1>2, <1>3 DEF Linked, Sents
<1>9. /\ \A i \in DOMAIN sent.calls : sent.calls[i].done
      /\ Len(turn.completed) = Len(sent.calls)
      /\ ToSet(turn.completed) = Made(sent.calls)
      /\ \A c \in ToSet(turn.completed) : c.id \notin seen
  BY <1>3, <1>7, <1>8, BatchIsWhole
<1>10. Made(sent.calls) =
         {[id |-> IF sent.calls[i].id = None THEN <<"call", i>> ELSE sent.calls[i].id,
           args |-> sent.calls[i].args] : i \in DOMAIN sent.calls}
  BY DEF Made, Wire
<1>11. sent.ended /\ answers = 1
  BY <1>2, <1>7
<1>12. CommittedAsSent'
  BY <1>1, <1>4, <1>9, <1>10, <1>11 DEF CommittedAsSent
<1> QED
  BY <1>1, <1>2, <1>3, <1>4, <1>6, <1>12 DEF TurnInv, TurnTypes

LEMMA TurnHoldsOn == TurnInv /\ [TurnNext]_turnVars => TurnInv'
<1> SUFFICES ASSUME TurnInv, [TurnNext]_turnVars, turn'.pc # "failed" PROVE TurnInv'
  BY DEF TurnInv, TurnNext, turnVars, FailRequest, Answer, BreakBody, Send, Cancel, Close
<1>1. ASSUME NEW e \in RequestFailures, FailRequest(e) PROVE TurnInv'
  <2>1. turn.pc = "request" /\ Retried(e) /\ UNCHANGED <<family, seen, parser, sent, answers>>
    BY <1>1 DEF FailRequest
  <2>2. turn \in Turns /\ answers = 0
    BY <2>1 DEF TurnInv, TurnTypes
  <2>3. turn' = [turn EXCEPT !.pc = "request", !.attempt = @ + 1]
    BY <2>1, <2>2 DEF Retried, Turns
  <2>4. turn' = [turn EXCEPT !.pc = "request", !.attempt = turn.attempt + 1]
        /\ turn.attempt + 1 \in Nat
    BY <2>2, <2>3 DEF Turns
  <2> QED
    BY <2>1, <2>2, <2>4, TurnGoesOn
<1>2. CASE Answer
  <2>1. turn.pc = "request" /\ UNCHANGED <<family, seen, parser, sent>> /\ answers' = answers + 1
    BY <1>2 DEF Answer
  <2>2. turn \in Turns /\ answers = 0
    BY <2>1 DEF TurnInv, TurnTypes
  <2> DEFINE pc == IF family = "images" THEN "document" ELSE "reading"
  <2>3. turn' = [turn EXCEPT !.pc = pc, !.attempt = turn.attempt] /\ turn.attempt \in Nat
    BY <1>2, <2>2 DEF Answer, Turns
  <2>4. pc \in {"document", "reading"}
    OBVIOUS
  <2> HIDE DEF pc
  <2>5. answers' = IF pc = "request" THEN 0 ELSE 1
    BY <2>1, <2>2, <2>4
  <2> QED
    BY <2>1, <2>3, <2>4, <2>5, TurnGoesOn
<1>3. ASSUME NEW e \in BodyFailures, BreakBody(e) PROVE TurnInv'
  <2>1. ~ShouldRetry(e)
    BY DEF BodyFailures, Failure, ShouldRetry
  <2>2. turn.pc # "failed"
    BY <1>3 DEF BreakBody
  <2>3. turn \in Turns
    BY <2>2 DEF TurnInv, TurnTypes
  <2>4. turn' = [turn EXCEPT !.pc = "failed"]
    BY <1>3, <2>1 DEF BreakBody, Retried
  <2> QED
    BY <2>3, <2>4 DEF Turns
<1>4. ASSUME NEW f \in Frames, Send(f) PROVE TurnInv'
  BY <1>4, SendKeeps
<1>5. CASE Cancel
  <2>1. turn.pc # "failed" /\ turn' = [turn EXCEPT !.pc = "failed"]
    BY <1>5 DEF Cancel
  <2>2. turn \in Turns
    BY <2>1 DEF TurnInv, TurnTypes
  <2> QED
    BY <2>1, <2>2 DEF Turns
<1>6. CASE Close
  BY <1>6, CloseKeeps
<1>7. CASE UNCHANGED turnVars
  <2>1. UNCHANGED <<family, seen, parser, turn, sent, answers>>
    BY <1>7 DEF turnVars
  <2>2. TurnInv => TurnInv'
    BY <2>1 DEF TurnInv, TurnTypes, Linked, Gathered, CommittedAsSent
  <2> QED
    BY <2>2
<1> QED
  BY <1>1, <1>2, <1>3, <1>4, <1>5, <1>6, <1>7 DEF TurnNext

(* An assistant message is committed only with the calls the server sent:  *)
(* complete, with the arguments sent for them, under IDs no other call of  *)
(* the run has, and after one answer (consume_provider_stream of agent.rs, *)
(* over the parser of every API family).                                   *)
THEOREM MessagesAreAsSent == TurnSpec => []CommittedAsSent
<1>1. TurnInv => CommittedAsSent
  BY DEF TurnInv, CommittedAsSent
<1> QED
  BY <1>1, TurnHoldsAtStart, TurnHoldsOn, PTL DEF TurnSpec

-----------------------------------------------------------------------------
(* The decoder: the functions that its model is built from.                *)

\* The reader after each byte, the scan of a block after each byte, and what push has
\* drained after each event.
Readers(r, bytes) ==
    CHOOSE f : f = [i \in 0..Len(bytes) |-> IF i = 0 THEN r ELSE ReadOn(f[i - 1], bytes[i])]

LEMMA ReadersExist ==
  ASSUME NEW r, NEW bytes, Len(bytes) \in Nat
  PROVE  Readers(r, bytes) = [i \in 0..Len(bytes) |->
             IF i = 0 THEN r ELSE ReadOn(Readers(r, bytes)[i - 1], bytes[i])]
<1> DEFINE Up(f, i) == IF i = 0 THEN r ELSE ReadOn(f[i - 1], bytes[i])
           S == {n \in 0..Len(bytes) : \E f : f = [i \in 0..n |-> Up(f, i)]}
<1>1. 0 \in S
  <2> DEFINE z == [i \in 0..0 |-> r]
  <2>1. \A i \in 0..0 : z[i] = Up(z, i)
    OBVIOUS
  <2>2. z = [i \in 0..0 |-> Up(z, i)]
    BY <2>1
  <2>3. 0 \in 0..Len(bytes)
    OBVIOUS
  <2> HIDE DEF z, Up
  <2> QED
    BY <2>2, <2>3
<1>2. ASSUME NEW n \in 1 .. Len(bytes), n - 1 \in S PROVE n \in S
  <2>1. PICK g : g = [i \in 0..(n - 1) |-> Up(g, i)]
    BY <1>2
  <2> DEFINE h == [i \in 0..n |-> IF i < n THEN g[i] ELSE Up(g, n)]
  <2>2. \A i \in 0..(n - 1) : h[i] = g[i]
    OBVIOUS
  <2>3. \A i \in 0..(n - 1) : g[i] = Up(g, i)
    BY <2>1
  <2>4. h[n] = Up(g, n)
    OBVIOUS
  <2>5. DOMAIN h = 0..n /\ h = [i \in 0..n |-> h[i]]
    OBVIOUS
  <2> HIDE DEF h
  <2>6. \A i \in 0..n : h[i] = Up(h, i)
    <3> TAKE i \in 0..n
    <3>1. i = 0 \/ h[i - 1] = g[i - 1]
      BY <2>2
    <3>2. Up(g, i) = Up(h, i)
      BY <3>1
    <3>3. i = n \/ i \in 0..(n - 1)
      OBVIOUS
    <3> HIDE DEF Up
    <3> QED
      BY <2>2, <2>3, <2>4, <3>2, <3>3
  <2>7. h = [i \in 0..n |-> Up(h, i)]
    <3> HIDE DEF Up
    <3> QED
      BY <2>5, <2>6
  <2>8. n \in 0..Len(bytes)
    OBVIOUS
  <2> QED
    BY <2>7, <2>8
<1>3. Len(bytes) \in S
  <2>1. Len(bytes) \in 0..Len(bytes)
    OBVIOUS
  <2>2. \A n \in 1 .. Len(bytes) : n - 1 \in S => n \in S
    BY ONLY <1>2
  <2> HIDE DEF S
  <2> QED
    BY <1>1, <2>1, <2>2, Induction
<1>4. \E f : f = [i \in 0..Len(bytes) |-> Up(f, i)]
  BY <1>3
<1> QED
  BY <1>4 DEF Readers

LEMMA ReadersAre ==
  ASSUME NEW r, NEW bytes, Len(bytes) \in Nat
  PROVE  /\ Readers(r, bytes)[0] = r
         /\ \A n \in 1 .. Len(bytes) :
              Readers(r, bytes)[n] = ReadOn(Readers(r, bytes)[n - 1], bytes[n])
<1> DEFINE f == Readers(r, bytes)
<1>1. f = [i \in 0..Len(bytes) |-> IF i = 0 THEN r ELSE ReadOn(f[i - 1], bytes[i])]
  BY ReadersExist
<1> HIDE DEF f
<1>3. f[0] = r
  BY <1>1
<1>4. ASSUME NEW n \in 1 .. Len(bytes) PROVE f[n] = ReadOn(f[n - 1], bytes[n])
  <2>1. n \in 0..Len(bytes) /\ n # 0
    OBVIOUS
  <2> QED
    BY <1>1, <2>1
<1> QED
  BY <1>3, <1>4 DEF f

ScanStart(lastId) == [start |-> 0, event |-> [data |-> <<>>, id |-> lastId]]
Scans(bytes, lastId) ==
    CHOOSE f : f = [i \in 0..Len(bytes) |->
        IF i = 0 THEN ScanStart(lastId) ELSE PassByte(bytes, f[i - 1], i)]

LEMMA ScansExist ==
  ASSUME NEW bytes, NEW lastId, Len(bytes) \in Nat
  PROVE  Scans(bytes, lastId) = [i \in 0..Len(bytes) |->
             IF i = 0 THEN ScanStart(lastId) ELSE PassByte(bytes, Scans(bytes, lastId)[i - 1], i)]
<1> DEFINE Up(f, i) == IF i = 0 THEN ScanStart(lastId) ELSE PassByte(bytes, f[i - 1], i)
           S == {n \in 0..Len(bytes) : \E f : f = [i \in 0..n |-> Up(f, i)]}
<1>1. 0 \in S
  <2> DEFINE z == [i \in 0..0 |-> ScanStart(lastId)]
  <2>1. \A i \in 0..0 : z[i] = Up(z, i)
    OBVIOUS
  <2>2. z = [i \in 0..0 |-> Up(z, i)]
    BY <2>1
  <2>3. 0 \in 0..Len(bytes)
    OBVIOUS
  <2> HIDE DEF z, Up
  <2> QED
    BY <2>2, <2>3
<1>2. ASSUME NEW n \in 1 .. Len(bytes), n - 1 \in S PROVE n \in S
  <2>1. PICK g : g = [i \in 0..(n - 1) |-> Up(g, i)]
    BY <1>2
  <2> DEFINE h == [i \in 0..n |-> IF i < n THEN g[i] ELSE Up(g, n)]
  <2>2. \A i \in 0..(n - 1) : h[i] = g[i]
    OBVIOUS
  <2>3. \A i \in 0..(n - 1) : g[i] = Up(g, i)
    BY <2>1
  <2>4. h[n] = Up(g, n)
    OBVIOUS
  <2>5. DOMAIN h = 0..n /\ h = [i \in 0..n |-> h[i]]
    OBVIOUS
  <2> HIDE DEF h
  <2>6. \A i \in 0..n : h[i] = Up(h, i)
    <3> TAKE i \in 0..n
    <3>1. i = 0 \/ h[i - 1] = g[i - 1]
      BY <2>2
    <3>2. Up(g, i) = Up(h, i)
      BY <3>1
    <3>3. i = n \/ i \in 0..(n - 1)
      OBVIOUS
    <3> HIDE DEF Up
    <3> QED
      BY <2>2, <2>3, <2>4, <3>2, <3>3
  <2>7. h = [i \in 0..n |-> Up(h, i)]
    <3> HIDE DEF Up
    <3> QED
      BY <2>5, <2>6
  <2>8. n \in 0..Len(bytes)
    OBVIOUS
  <2> QED
    BY <2>7, <2>8
<1>3. Len(bytes) \in S
  <2>1. Len(bytes) \in 0..Len(bytes)
    OBVIOUS
  <2>2. \A n \in 1 .. Len(bytes) : n - 1 \in S => n \in S
    BY ONLY <1>2
  <2> HIDE DEF S
  <2> QED
    BY <1>1, <2>1, <2>2, Induction
<1>4. \E f : f = [i \in 0..Len(bytes) |-> Up(f, i)]
  BY <1>3
<1> QED
  BY <1>4 DEF Scans

LEMMA ScansAre ==
  ASSUME NEW bytes, NEW lastId, Len(bytes) \in Nat
  PROVE  /\ Scans(bytes, lastId)[0] = ScanStart(lastId)
         /\ \A n \in 1 .. Len(bytes) :
              Scans(bytes, lastId)[n] = PassByte(bytes, Scans(bytes, lastId)[n - 1], n)
         /\ SseEvent(bytes, lastId) = Scans(bytes, lastId)[Len(bytes)].event
<1> DEFINE f == Scans(bytes, lastId)
<1>1. f = [i \in 0..Len(bytes) |->
          IF i = 0 THEN ScanStart(lastId) ELSE PassByte(bytes, f[i - 1], i)]
  BY ScansExist
<1>2. SseEvent(bytes, lastId) = f[Len(bytes)].event
  BY DEF SseEvent, ScanStart, Scans
<1> HIDE DEF f
<1>3. f[0] = ScanStart(lastId)
  BY <1>1
<1>4. ASSUME NEW n \in 1 .. Len(bytes) PROVE f[n] = PassByte(bytes, f[n - 1], n)
  <2>1. n \in 0..Len(bytes) /\ n # 0
    OBVIOUS
  <2> QED
    BY <1>1, <2>1
<1> QED
  BY <1>2, <1>3, <1>4 DEF f

DrainStart(buffer, lastId) == [buffer |-> buffer, lastId |-> lastId, out |-> <<>>, ok |-> TRUE]
Drains(buffer, lastId) ==
    CHOOSE f : f = [i \in 0..Len(buffer) |->
        IF i = 0 THEN DrainStart(buffer, lastId) ELSE DrainOne(f[i - 1])]

LEMMA DrainsExist ==
  ASSUME NEW buffer, NEW lastId, Len(buffer) \in Nat
  PROVE  Drains(buffer, lastId) = [i \in 0..Len(buffer) |->
             IF i = 0 THEN DrainStart(buffer, lastId) ELSE DrainOne(Drains(buffer, lastId)[i - 1])]
<1> DEFINE Up(f, i) == IF i = 0 THEN DrainStart(buffer, lastId) ELSE DrainOne(f[i - 1])
           S == {n \in 0..Len(buffer) : \E f : f = [i \in 0..n |-> Up(f, i)]}
<1>1. 0 \in S
  <2> DEFINE z == [i \in 0..0 |-> DrainStart(buffer, lastId)]
  <2>1. \A i \in 0..0 : z[i] = Up(z, i)
    OBVIOUS
  <2>2. z = [i \in 0..0 |-> Up(z, i)]
    BY <2>1
  <2>3. 0 \in 0..Len(buffer)
    OBVIOUS
  <2> HIDE DEF z, Up
  <2> QED
    BY <2>2, <2>3
<1>2. ASSUME NEW n \in 1 .. Len(buffer), n - 1 \in S PROVE n \in S
  <2>1. PICK g : g = [i \in 0..(n - 1) |-> Up(g, i)]
    BY <1>2
  <2> DEFINE h == [i \in 0..n |-> IF i < n THEN g[i] ELSE Up(g, n)]
  <2>2. \A i \in 0..(n - 1) : h[i] = g[i]
    OBVIOUS
  <2>3. \A i \in 0..(n - 1) : g[i] = Up(g, i)
    BY <2>1
  <2>4. h[n] = Up(g, n)
    OBVIOUS
  <2>5. DOMAIN h = 0..n /\ h = [i \in 0..n |-> h[i]]
    OBVIOUS
  <2> HIDE DEF h
  <2>6. \A i \in 0..n : h[i] = Up(h, i)
    <3> TAKE i \in 0..n
    <3>1. i = 0 \/ h[i - 1] = g[i - 1]
      BY <2>2
    <3>2. Up(g, i) = Up(h, i)
      BY <3>1
    <3>3. i = n \/ i \in 0..(n - 1)
      OBVIOUS
    <3> HIDE DEF Up
    <3> QED
      BY <2>2, <2>3, <2>4, <3>2, <3>3
  <2>7. h = [i \in 0..n |-> Up(h, i)]
    <3> HIDE DEF Up
    <3> QED
      BY <2>5, <2>6
  <2>8. n \in 0..Len(buffer)
    OBVIOUS
  <2> QED
    BY <2>7, <2>8
<1>3. Len(buffer) \in S
  <2>1. Len(buffer) \in 0..Len(buffer)
    OBVIOUS
  <2>2. \A n \in 1 .. Len(buffer) : n - 1 \in S => n \in S
    BY ONLY <1>2
  <2> HIDE DEF S
  <2> QED
    BY <1>1, <2>1, <2>2, Induction
<1>4. \E f : f = [i \in 0..Len(buffer) |-> Up(f, i)]
  BY <1>3
<1> QED
  BY <1>4 DEF Drains

LEMMA DrainsAre ==
  ASSUME NEW buffer, NEW lastId, Len(buffer) \in Nat
  PROVE  /\ Drains(buffer, lastId)[0] = DrainStart(buffer, lastId)
         /\ \A n \in 1 .. Len(buffer) :
              Drains(buffer, lastId)[n] = DrainOne(Drains(buffer, lastId)[n - 1])
         /\ Drain(buffer, lastId) = Drains(buffer, lastId)[Len(buffer)]
<1> DEFINE f == Drains(buffer, lastId)
<1>1. f = [i \in 0..Len(buffer) |->
          IF i = 0 THEN DrainStart(buffer, lastId) ELSE DrainOne(f[i - 1])]
  BY DrainsExist
<1>2. Drain(buffer, lastId) = f[Len(buffer)]
  BY DEF Drain, DrainStart, Drains
<1> HIDE DEF f
<1>3. f[0] = DrainStart(buffer, lastId)
  BY <1>1
<1>4. ASSUME NEW n \in 1 .. Len(buffer) PROVE f[n] = DrainOne(f[n - 1])
  <2>1. n \in 0..Len(buffer) /\ n # 0
    OBVIOUS
  <2> QED
    BY <1>1, <2>1
<1> QED
  BY <1>2, <1>3, <1>4 DEF f

-----------------------------------------------------------------------------
(* The reader, byte by byte.                                               *)

Bytes == {CR, LF, Data, Id} \cup Other
Texts == Seq(Bytes)
SseEvents == [data : Seq(Texts), id : Texts]
ReaderStates == [line : Texts, cr : BOOLEAN, size : Nat, data : Seq(Texts), id : Texts,
                 lastId : Texts, out : Seq(SseEvents), over : BOOLEAN]
EventOf(r) == [data |-> r.data, id |-> r.id]
\* What no byte but an event's last changes.
SameEvents(q, r) == q.lastId = r.lastId /\ q.out = r.out
\* After the empty line that ends an event.
Boundary(r) == r.line = <<>> /\ r.size = 0 /\ r.data = <<>> /\ r.id = r.lastId /\ ~r.over

LEMMA TakeLineType ==
  ASSUME NEW event \in SseEvents, NEW line \in Texts
  PROVE  TakeLine(event, line) \in SseEvents
<1>1. event.data \in Seq(Texts) /\ event.id \in Texts
  BY DEF SseEvents
<1>2. Append(event.data, line) \in Seq(Texts)
  BY <1>1
<1> QED
  BY <1>1, <1>2 DEF TakeLine, SseEvents

LEMMA GivenType ==
  ASSUME NEW event \in SseEvents, NEW out \in Seq(SseEvents)
  PROVE  /\ Given(event) \in Seq(SseEvents)
         /\ out \o Given(event) \in Seq(SseEvents)
         /\ event.data = <<>> => out \o Given(event) = out
         /\ event.data # <<>> => out \o Given(event) = Append(out, event)
<1>1. <<>> \in Seq(SseEvents) /\ <<event>> \in Seq(SseEvents)
  OBVIOUS
<1>2. out \o <<>> = out /\ out \o <<event>> = Append(out, event)
  BY <1>1
<1> QED
  BY <1>1, <1>2 DEF Given

\* Field by field, what each byte makes of the reader.
LEMMA RecordCr ==
  ASSUME NEW r \in ReaderStates, NEW c \in BOOLEAN
  PROVE  [r EXCEPT !.cr = c] =
         [line |-> r.line, cr |-> c, size |-> r.size, data |-> r.data, id |-> r.id,
          lastId |-> r.lastId, out |-> r.out, over |-> r.over]
BY DEF ReaderStates

LEMMA RecordDatum ==
  ASSUME NEW r \in ReaderStates, NEW d \in Seq(Texts)
  PROVE  [r EXCEPT !.data = d] =
         [line |-> r.line, cr |-> r.cr, size |-> r.size, data |-> d, id |-> r.id,
          lastId |-> r.lastId, out |-> r.out, over |-> r.over]
<1> DEFINE T == Seq(Texts)
           U == Seq(SseEvents)
<1>1. r \in [line : Texts, cr : BOOLEAN, size : Nat, data : T, id : Texts,
                 lastId : Texts, out : U, over : BOOLEAN]
  BY DEF ReaderStates
<1>2. d \in T
  OBVIOUS
<1> HIDE DEF T, U
<1> QED
  BY <1>1, <1>2

LEMMA RecordSized ==
  ASSUME NEW r \in ReaderStates, NEW n \in Nat, NEW c \in BOOLEAN
  PROVE  [r EXCEPT !.size = n, !.cr = c] =
         [line |-> r.line, cr |-> c, size |-> n, data |-> r.data, id |-> r.id,
          lastId |-> r.lastId, out |-> r.out, over |-> r.over]
<1> DEFINE s == [r EXCEPT !.size = n]
<1>1. [r EXCEPT !.size = n, !.cr = c] = [s EXCEPT !.cr = c]
  OBVIOUS
<1>2. s = [line |-> r.line, cr |-> r.cr, size |-> n, data |-> r.data, id |-> r.id,
           lastId |-> r.lastId, out |-> r.out, over |-> r.over]
  BY DEF ReaderStates
<1>3. s \in ReaderStates
  BY <1>2 DEF ReaderStates
<1> HIDE DEF s
<1>4. [s EXCEPT !.cr = c] =
      [line |-> s.line, cr |-> c, size |-> s.size, data |-> s.data, id |-> s.id,
       lastId |-> s.lastId, out |-> s.out, over |-> s.over]
  BY <1>3, RecordCr
<1> QED
  BY <1>1, <1>2, <1>4

LEMMA RecordLine ==
  ASSUME NEW r \in ReaderStates, NEW l \in Texts
  PROVE  /\ [r EXCEPT !.line = l] =
            [line |-> l, cr |-> r.cr, size |-> r.size, data |-> r.data, id |-> r.id,
             lastId |-> r.lastId, out |-> r.out, over |-> r.over]
         /\ [r EXCEPT !.line = l] \in ReaderStates
<1>1. [r EXCEPT !.line = l] =
      [line |-> l, cr |-> r.cr, size |-> r.size, data |-> r.data, id |-> r.id,
       lastId |-> r.lastId, out |-> r.out, over |-> r.over]
  BY DEF ReaderStates
<1> QED
  BY <1>1 DEF ReaderStates

LEMMA RecordSize ==
  ASSUME NEW r \in ReaderStates, NEW n \in Nat
  PROVE  [r EXCEPT !.size = n] =
         [line |-> r.line, cr |-> r.cr, size |-> n, data |-> r.data, id |-> r.id,
          lastId |-> r.lastId, out |-> r.out, over |-> r.over]
BY DEF ReaderStates

LEMMA RecordData ==
  ASSUME NEW r \in ReaderStates, NEW d \in Seq(Texts)
  PROVE  /\ [r EXCEPT !.data = d, !.line = <<>>] =
            [line |-> <<>>, cr |-> r.cr, size |-> r.size, data |-> d, id |-> r.id,
             lastId |-> r.lastId, out |-> r.out, over |-> r.over]
<1> DEFINE s == [r EXCEPT !.data = d]
<1>0. <<>> \in Texts
  BY DEF Texts
<1>1. [r EXCEPT !.data = d, !.line = <<>>] = [s EXCEPT !.line = <<>>]
  OBVIOUS
<1>2. s = [line |-> r.line, cr |-> r.cr, size |-> r.size, data |-> d, id |-> r.id,
           lastId |-> r.lastId, out |-> r.out, over |-> r.over]
  BY RecordDatum
<1>3. s \in ReaderStates
  BY <1>2 DEF ReaderStates
<1> HIDE DEF s
<1>4. [s EXCEPT !.line = <<>>] =
      [line |-> <<>>, cr |-> s.cr, size |-> s.size, data |-> s.data, id |-> s.id,
       lastId |-> s.lastId, out |-> s.out, over |-> s.over]
  BY <1>0, <1>3, RecordLine
<1> QED
  BY <1>1, <1>2, <1>4

LEMMA RecordId ==
  ASSUME NEW r \in ReaderStates, NEW i \in Texts
  PROVE  /\ [r EXCEPT !.id = i, !.line = <<>>] =
            [line |-> <<>>, cr |-> r.cr, size |-> r.size, data |-> r.data, id |-> i,
             lastId |-> r.lastId, out |-> r.out, over |-> r.over]
<1> DEFINE s == [r EXCEPT !.id = i]
<1>0. <<>> \in Texts
  BY DEF Texts
<1>1. [r EXCEPT !.id = i, !.line = <<>>] = [s EXCEPT !.line = <<>>]
  OBVIOUS
<1>2. s = [line |-> r.line, cr |-> r.cr, size |-> r.size, data |-> r.data, id |-> i,
           lastId |-> r.lastId, out |-> r.out, over |-> r.over]
  BY DEF ReaderStates
<1>3. s \in ReaderStates
  BY <1>2 DEF ReaderStates
<1> HIDE DEF s
<1>4. [s EXCEPT !.line = <<>>] =
      [line |-> <<>>, cr |-> s.cr, size |-> s.size, data |-> s.data, id |-> s.id,
       lastId |-> s.lastId, out |-> s.out, over |-> s.over]
  BY <1>0, <1>3, RecordLine
<1> QED
  BY <1>1, <1>2, <1>4

LEMMA RecordOver ==
  ASSUME NEW q \in ReaderStates, NEW o \in BOOLEAN
  PROVE  /\ [q EXCEPT !.over = o] =
            [line |-> q.line, cr |-> q.cr, size |-> q.size, data |-> q.data, id |-> q.id,
             lastId |-> q.lastId, out |-> q.out, over |-> o]
         /\ [q EXCEPT !.over = o] \in ReaderStates
<1>1. [q EXCEPT !.over = o] =
      [line |-> q.line, cr |-> q.cr, size |-> q.size, data |-> q.data, id |-> q.id,
       lastId |-> q.lastId, out |-> q.out, over |-> o]
  BY DEF ReaderStates
<1> QED
  BY <1>1 DEF ReaderStates

\* ReadOn only adds whether the limit was passed.
LEMMA ReadsOn ==
  ASSUME NEW r, NEW b, ~r.over, Read(r, b) \in ReaderStates
  PROVE  LET q == ReadOn(r, b)
             p == Read(r, b)
         IN  /\ q \in ReaderStates
             /\ q.line = p.line /\ q.cr = p.cr /\ q.size = p.size /\ q.data = p.data
             /\ q.id = p.id /\ q.lastId = p.lastId /\ q.out = p.out
             /\ (q.over <=> p.size > EventLimit)
<1> DEFINE p == Read(r, b)
           o == p.size > EventLimit
<1>1. o \in BOOLEAN
  OBVIOUS
<1>2. ReadOn(r, b) = [p EXCEPT !.over = o]
  BY DEF ReadOn
<1>3. [p EXCEPT !.over = o] =
      [line |-> p.line, cr |-> p.cr, size |-> p.size, data |-> p.data, id |-> p.id,
       lastId |-> p.lastId, out |-> p.out, over |-> o] /\ [p EXCEPT !.over = o] \in ReaderStates
  <2> HIDE DEF p, o
  <2> QED
    BY <1>1, RecordOver DEF p
<1> QED
  BY <1>2, <1>3

\* The reader with one more byte counted.
SizedReader(r, b) == [r EXCEPT !.size = @ + 1, !.cr = b = CR]
LEMMA SizedReaderIs ==
  ASSUME NEW r \in ReaderStates, NEW b
  PROVE  LET s == SizedReader(r, b)
         IN  /\ s \in ReaderStates
             /\ s.line = r.line /\ s.cr = (b = CR) /\ s.size = r.size + 1 /\ s.data = r.data
             /\ s.id = r.id /\ s.lastId = r.lastId /\ s.out = r.out /\ s.over = r.over
<1> DEFINE c == b = CR
           n == r.size + 1
<1>1. c \in BOOLEAN /\ n \in Nat
  BY DEF ReaderStates
<1>2. SizedReader(r, b) = [r EXCEPT !.size = n, !.cr = c]
  BY DEF SizedReader, ReaderStates
<1>3. [r EXCEPT !.size = n, !.cr = c] =
      [line |-> r.line, cr |-> c, size |-> n, data |-> r.data, id |-> r.id,
       lastId |-> r.lastId, out |-> r.out, over |-> r.over]
  <2> HIDE DEF c, n
  <2> QED
    BY <1>1, RecordSized
<1> HIDE DEF c, n
<1>4. SizedReader(r, b) \in ReaderStates
  BY <1>1, <1>2, <1>3 DEF ReaderStates
<1>5. SizedReader(r, b).cr = c /\ SizedReader(r, b).size = n
  BY <1>2, <1>3
<1> QED
  BY <1>2, <1>3, <1>4, <1>5 DEF c, n

LEMMA ReadIs ==
  ASSUME NEW r, NEW b
  PROVE  LET s == SizedReader(r, b)
         IN  /\ b = LF /\ r.cr => Read(r, b) = [s EXCEPT !.size = IF r.size = 0 THEN 0 ELSE @]
             /\ b \in Breaks /\ ~(b = LF /\ r.cr) => Read(r, b) = Ended(s)
             /\ b \notin Breaks => Read(r, b) = [s EXCEPT !.line = Append(@, b)]
BY DEF Read, SizedReader, Breaks

LEMMA RecordOut ==
  ASSUME NEW r \in ReaderStates, NEW o \in Seq(SseEvents)
  PROVE  [r EXCEPT !.out = o] =
         [line |-> r.line, cr |-> r.cr, size |-> r.size, data |-> r.data, id |-> r.id,
          lastId |-> r.lastId, out |-> o, over |-> r.over]
<1> DEFINE T == Seq(Texts)
           U == Seq(SseEvents)
<1>1. r \in [line : Texts, cr : BOOLEAN, size : Nat, data : T, id : Texts,
                 lastId : Texts, out : U, over : BOOLEAN]
  BY DEF ReaderStates
<1>2. o \in U
  OBVIOUS
<1> HIDE DEF T, U
<1> QED
  BY <1>1, <1>2

LEMMA RecordLastId ==
  ASSUME NEW r \in ReaderStates, NEW l \in Texts
  PROVE  [r EXCEPT !.lastId = l] =
         [line |-> r.line, cr |-> r.cr, size |-> r.size, data |-> r.data, id |-> r.id,
          lastId |-> l, out |-> r.out, over |-> r.over]
BY DEF ReaderStates

LEMMA DispatchIs ==
  ASSUME NEW r \in ReaderStates
  PROVE  LET q == Dispatch(r)
         IN  /\ q \in ReaderStates
             /\ q.line = r.line /\ q.cr = r.cr /\ q.size = 0 /\ q.data = <<>> /\ q.id = r.id
             /\ q.lastId = r.id /\ q.out = r.out \o Given(EventOf(r)) /\ q.over = r.over
<1> DEFINE o == IF r.data = <<>> THEN r.out ELSE Append(r.out, EventOf(r))
           r1 == [r EXCEPT !.out = o]
           r2 == [r1 EXCEPT !.lastId = r.id]
           r3 == [r2 EXCEPT !.data = <<>>]
           r4 == [r3 EXCEPT !.size = 0]
<1>1. /\ EventOf(r) \in SseEvents /\ r.out \in Seq(SseEvents) /\ EventOf(r).data = r.data
      /\ r.id \in Texts /\ <<>> \in Seq(Texts) /\ 0 \in Nat
  BY DEF EventOf, SseEvents, ReaderStates
<1>2. o = r.out \o Given(EventOf(r)) /\ o \in Seq(SseEvents)
  BY <1>1, GivenType
<1>3. Dispatch(r) = r4
  BY DEF Dispatch, EventOf
<1> HIDE DEF o
<1>4. r1 = [line |-> r.line, cr |-> r.cr, size |-> r.size, data |-> r.data, id |-> r.id,
            lastId |-> r.lastId, out |-> o, over |-> r.over]
  BY <1>2, RecordOut
<1>5. r1 \in ReaderStates
  BY <1>2, <1>4 DEF ReaderStates
<1> HIDE DEF r1
<1>6. r2 = [line |-> r1.line, cr |-> r1.cr, size |-> r1.size, data |-> r1.data, id |-> r1.id,
            lastId |-> r.id, out |-> r1.out, over |-> r1.over]
  BY <1>1, <1>5, RecordLastId
<1>7. r2 \in ReaderStates
  BY <1>1, <1>5, <1>6 DEF ReaderStates
<1> HIDE DEF r2
<1>8. r3 = [line |-> r2.line, cr |-> r2.cr, size |-> r2.size, data |-> <<>>, id |-> r2.id,
            lastId |-> r2.lastId, out |-> r2.out, over |-> r2.over]
  BY <1>1, <1>7, RecordDatum
<1>9. r3 \in ReaderStates
  BY <1>1, <1>7, <1>8 DEF ReaderStates
<1> HIDE DEF r3
<1>10. r4 = [line |-> r3.line, cr |-> r3.cr, size |-> 0, data |-> r3.data, id |-> r3.id,
            lastId |-> r3.lastId, out |-> r3.out, over |-> r3.over]
  BY <1>9, RecordSize
<1>11. r4 \in ReaderStates
  BY <1>9, <1>10 DEF ReaderStates
<1> HIDE DEF r4
<1> QED
  BY <1>2, <1>3, <1>4, <1>6, <1>8, <1>10, <1>11

\* The second byte of a CRLF.
LEMMA ReadsPair ==
  ASSUME NEW r \in ReaderStates, ~r.over, r.cr
  PROVE  LET q == ReadOn(r, LF)
         IN  /\ q \in ReaderStates
             /\ q.line = r.line /\ q.cr = FALSE
             /\ q.size = (IF r.size = 0 THEN 0 ELSE r.size + 1)
             /\ EventOf(q) = EventOf(r) /\ SameEvents(q, r)
             /\ (q.over <=> q.size > EventLimit)
<1> DEFINE s == SizedReader(r, LF)
           z == IF r.size = 0 THEN 0 ELSE r.size + 1
           p == Read(r, LF)
<1>1. /\ s \in ReaderStates
      /\ s.line = r.line /\ s.cr = (LF = CR) /\ s.size = r.size + 1 /\ s.data = r.data
      /\ s.id = r.id /\ s.lastId = r.lastId /\ s.out = r.out /\ s.over = r.over
  <2> HIDE DEF s
  <2> QED
    BY SizedReaderIs DEF s
<1>2. z \in Nat /\ LF # CR
  BY DecoderAssumption DEF ReaderStates
<1>3. p = [s EXCEPT !.size = z]
  BY <1>1, ReadIs
<1> HIDE DEF s, z, p
<1>4. p = [line |-> s.line, cr |-> s.cr, size |-> z, data |-> s.data, id |-> s.id,
           lastId |-> s.lastId, out |-> s.out, over |-> s.over]
  BY <1>1, <1>2, <1>3, RecordSize
<1>5. p \in ReaderStates
  BY <1>1, <1>2, <1>4 DEF ReaderStates
<1>6. LET q == ReadOn(r, LF)
      IN  /\ q \in ReaderStates
             /\ q.line = p.line /\ q.cr = p.cr /\ q.size = p.size /\ q.data = p.data
             /\ q.id = p.id /\ q.lastId = p.lastId /\ q.out = p.out
             /\ (q.over <=> p.size > EventLimit)
  BY <1>5, ReadsOn DEF p
<1> QED
  BY <1>1, <1>2, <1>4, <1>6 DEF EventOf, SameEvents, z

LEMMA ReadsByte ==
  ASSUME NEW r \in ReaderStates, NEW b \in Bytes, ~r.over, b \notin Breaks
  PROVE  LET q == ReadOn(r, b)
         IN  /\ q \in ReaderStates
             /\ q.line = Append(r.line, b) /\ q.cr = FALSE /\ q.size = r.size + 1
             /\ EventOf(q) = EventOf(r) /\ SameEvents(q, r)
             /\ (q.over <=> q.size > EventLimit)
<1> DEFINE s == SizedReader(r, b)
           l == Append(r.line, b)
           p == Read(r, b)
<1>1. /\ s \in ReaderStates
      /\ s.line = r.line /\ s.cr = (b = CR) /\ s.size = r.size + 1 /\ s.data = r.data
      /\ s.id = r.id /\ s.lastId = r.lastId /\ s.out = r.out /\ s.over = r.over
  <2> HIDE DEF s
  <2> QED
    BY SizedReaderIs DEF s
<1>2. l \in Texts /\ b # CR
  BY DEF ReaderStates, Texts, Breaks
<1>3. p = [s EXCEPT !.line = l]
  BY <1>1, ReadIs
<1> HIDE DEF s, l, p
<1>4. /\ p = [line |-> l, cr |-> s.cr, size |-> s.size, data |-> s.data, id |-> s.id,
              lastId |-> s.lastId, out |-> s.out, over |-> s.over]
      /\ p \in ReaderStates
  BY <1>1, <1>2, <1>3, RecordLine
<1>5. LET q == ReadOn(r, b)
      IN  /\ q \in ReaderStates
             /\ q.line = p.line /\ q.cr = p.cr /\ q.size = p.size /\ q.data = p.data
             /\ q.id = p.id /\ q.lastId = p.lastId /\ q.out = p.out
             /\ (q.over <=> p.size > EventLimit)
  BY <1>4, ReadsOn DEF p
<1> QED
  BY <1>1, <1>2, <1>4, <1>5 DEF EventOf, SameEvents, l

\* The end of a line that has bytes.
LEMMA EndedIs ==
  ASSUME NEW s \in ReaderStates, s.line # <<>>
  PROVE  LET q == Ended(s)
         IN  /\ q \in ReaderStates
             /\ q.line = <<>> /\ q.cr = s.cr /\ q.size = s.size
             /\ EventOf(q) = TakeLine(EventOf(s), s.line)
             /\ SameEvents(q, s) /\ q.over = s.over
<1>1. /\ s.line \in Texts /\ s.data \in Seq(Texts) /\ s.id \in Texts /\ <<>> \in Texts
      /\ Head(s.line) = s.line[1]
  BY DEF ReaderStates, Texts
<1>2. Data # Id
  BY DecoderAssumption
<1>3. CASE Named(s.line, Data)
  <2> DEFINE d == Append(s.data, s.line)
  <2>1. d \in Seq(Texts)
    BY <1>1
  <2>2. Ended(s) = [s EXCEPT !.data = d, !.line = <<>>]
    <3>1. Head(s.line) = Data
      BY <1>1, <1>3 DEF Named
    <3>2. Ended(s) = [s EXCEPT !.data = Append(@, s.line), !.line = <<>>]
      BY <1>2, <3>1 DEF Ended
    <3> QED
      BY <3>2
  <2>3. TakeLine(EventOf(s), s.line) = [data |-> d, id |-> s.id]
    BY <1>2, <1>3 DEF TakeLine, EventOf, Named
  <2> HIDE DEF d
  <2>4. Ended(s) = [line |-> <<>>, cr |-> s.cr, size |-> s.size, data |-> d, id |-> s.id,
                    lastId |-> s.lastId, out |-> s.out, over |-> s.over]
    BY <2>1, <2>2, RecordData
  <2>5. Ended(s) \in ReaderStates
    BY <1>1, <2>1, <2>4 DEF ReaderStates
  <2> QED
    BY <2>3, <2>4, <2>5 DEF EventOf, SameEvents
<1>4. CASE Named(s.line, Id)
  <2>2. Ended(s) = [s EXCEPT !.id = s.line, !.line = <<>>]
    BY <1>1, <1>2, <1>4 DEF Ended, Named
  <2>3. TakeLine(EventOf(s), s.line) = [data |-> s.data, id |-> s.line]
    BY <1>2, <1>4 DEF TakeLine, EventOf, Named
  <2>4. Ended(s) = [line |-> <<>>, cr |-> s.cr, size |-> s.size, data |-> s.data, id |-> s.line,
                    lastId |-> s.lastId, out |-> s.out, over |-> s.over]
    BY <1>1, <2>2, RecordId
  <2>5. Ended(s) \in ReaderStates
    BY <1>1, <2>4 DEF ReaderStates
  <2> QED
    BY <2>3, <2>4, <2>5 DEF EventOf, SameEvents
<1>5. CASE ~Named(s.line, Data) /\ ~Named(s.line, Id)
  <2>2. Ended(s) = [s EXCEPT !.line = <<>>]
    BY <1>1, <1>5 DEF Ended, Named
  <2>3. TakeLine(EventOf(s), s.line) = [data |-> s.data, id |-> s.id]
    BY <1>5 DEF TakeLine, EventOf
  <2>4. /\ Ended(s) = [line |-> <<>>, cr |-> s.cr, size |-> s.size, data |-> s.data, id |-> s.id,
                       lastId |-> s.lastId, out |-> s.out, over |-> s.over]
        /\ Ended(s) \in ReaderStates
    BY <1>1, <2>2, RecordLine
  <2> QED
    BY <2>3, <2>4 DEF EventOf, SameEvents
<1> QED
  BY <1>3, <1>4, <1>5

LEMMA ReadsLine ==
  ASSUME NEW r \in ReaderStates, NEW b \in Breaks, ~r.over, ~(b = LF /\ r.cr), r.line # <<>>
  PROVE  LET q == ReadOn(r, b)
         IN  /\ q \in ReaderStates
             /\ q.line = <<>> /\ q.cr = (b = CR) /\ q.size = r.size + 1
             /\ EventOf(q) = TakeLine(EventOf(r), r.line) /\ SameEvents(q, r)
             /\ (q.over <=> q.size > EventLimit)
<1> DEFINE s == SizedReader(r, b)
           p == Read(r, b)
<1>1. /\ s \in ReaderStates
      /\ s.line = r.line /\ s.cr = (b = CR) /\ s.size = r.size + 1 /\ s.data = r.data
      /\ s.id = r.id /\ s.lastId = r.lastId /\ s.out = r.out /\ s.over = r.over
  <2> HIDE DEF s
  <2> QED
    BY SizedReaderIs DEF s
<1>2. EventOf(s) = EventOf(r)
  BY <1>1 DEF EventOf
<1>3. p = Ended(s)
  BY ReadIs
<1> HIDE DEF s, p
<1>4. /\ p \in ReaderStates
      /\ p.line = <<>> /\ p.cr = s.cr /\ p.size = s.size
      /\ EventOf(p) = TakeLine(EventOf(s), s.line)
      /\ SameEvents(p, s) /\ p.over = s.over
  BY <1>1, <1>3, EndedIs
<1>5. LET q == ReadOn(r, b)
      IN  /\ q \in ReaderStates
             /\ q.line = p.line /\ q.cr = p.cr /\ q.size = p.size /\ q.data = p.data
             /\ q.id = p.id /\ q.lastId = p.lastId /\ q.out = p.out
             /\ (q.over <=> p.size > EventLimit)
  BY <1>4, ReadsOn DEF p
<1>6. EventOf(ReadOn(r, b)) = EventOf(p)
  BY <1>5 DEF EventOf
<1> QED
  BY <1>1, <1>2, <1>4, <1>5, <1>6 DEF SameEvents

\* The empty line that ends an event.
LEMMA ReadsEnd ==
  ASSUME NEW r \in ReaderStates, NEW b \in Breaks, ~r.over, ~(b = LF /\ r.cr), r.line = <<>>
  PROVE  LET q == ReadOn(r, b)
         IN  /\ q \in ReaderStates /\ Boundary(q)
             /\ q.cr = (b = CR) /\ q.lastId = r.id
             /\ q.out = r.out \o Given(EventOf(r))
<1> DEFINE s == SizedReader(r, b)
           p == Read(r, b)
<1>1. /\ s \in ReaderStates
      /\ s.line = r.line /\ s.cr = (b = CR) /\ s.size = r.size + 1 /\ s.data = r.data
      /\ s.id = r.id /\ s.lastId = r.lastId /\ s.out = r.out /\ s.over = r.over
  <2> HIDE DEF s
  <2> QED
    BY SizedReaderIs DEF s
<1>2. EventOf(s) = EventOf(r)
  BY <1>1 DEF EventOf
<1>3. p = Dispatch(s)
  <2>1. p = Ended(s)
    BY ReadIs
  <2>2. s.line = <<>>
    BY <1>1
  <2> HIDE DEF s, p
  <2> QED
    BY <2>1, <2>2 DEF Ended
<1> HIDE DEF s, p
<1>4. /\ p \in ReaderStates
      /\ p.line = s.line /\ p.cr = s.cr /\ p.size = 0 /\ p.data = <<>> /\ p.id = s.id
      /\ p.lastId = s.id /\ p.out = s.out \o Given(EventOf(s)) /\ p.over = s.over
  BY <1>1, <1>3, DispatchIs
<1>5. LET q == ReadOn(r, b)
      IN  /\ q \in ReaderStates
             /\ q.line = p.line /\ q.cr = p.cr /\ q.size = p.size /\ q.data = p.data
             /\ q.id = p.id /\ q.lastId = p.lastId /\ q.out = p.out
             /\ (q.over <=> p.size > EventLimit)
  BY <1>4, ReadsOn DEF p
<1>6. ~(0 > EventLimit)
  BY DecoderAssumption
<1> QED
  BY <1>1, <1>2, <1>4, <1>5, <1>6 DEF Boundary

-----------------------------------------------------------------------------
(* What the scan of a block and the reader know after the same bytes.      *)

ScanStates == [start : Nat, event : SseEvents]
AtLineEnd(c, p, q, i) ==
    p.start = i /\ q.line = <<>> /\ EventOf(q) = p.event /\ (i > 0 => q.cr = (c[i] = CR))
InCrlf(c, p, q, i) ==
    /\ p.start < i - 1 /\ q.line = <<>> /\ q.cr
    /\ EventOf(q) = TakeLine(p.event, SubSeq(c, p.start + 1, i - 1))
InLine(c, p, q, i) ==
    p.start < i /\ q.line = SubSeq(c, p.start + 1, i) /\ ~q.cr /\ EventOf(q) = p.event
Along(c, p, q, r, i) ==
    /\ p \in ScanStates /\ p.start <= i /\ q \in ReaderStates
    /\ SameEvents(q, r) /\ (q.over <=> i > EventLimit)
    /\ (i <= EventLimit =>
           /\ q.size = i
           /\ (i = 0 \/ Ends(c, i) => AtLineEnd(c, p, q, i))
           /\ (i > 0 /\ c[i] = CR /\ ~Ends(c, i) => InCrlf(c, p, q, i))
           /\ (i > 0 /\ c[i] \notin Breaks => InLine(c, p, q, i)))

LEMMA PieceType ==
  ASSUME NEW S, NEW c \in Seq(S), NEW a \in Nat, a >= 1, NEW e \in Int, e <= Len(c)
  PROVE  /\ SubSeq(c, a, e) \in Seq(S)
         /\ Len(SubSeq(c, a, e)) = (IF a <= e THEN e - a + 1 ELSE 0)
         /\ \A i \in 1 .. (e - a + 1) : SubSeq(c, a, e)[i] = c[a + i - 1]
<1>1. \A i \in a .. e : c[i] \in S
  OBVIOUS
<1> QED
  BY <1>1, SubSeqProperties

LEMMA PieceAppend ==
  ASSUME NEW S, NEW c \in Seq(S), NEW h \in Nat, h < Len(c), NEW a \in 1 .. (h + 1)
  PROVE  Append(SubSeq(c, a, h), c[h + 1]) = SubSeq(c, a, h + 1)
<1>1. SubSeq(c, a, h) \in Seq(S)
  BY PieceType
<1>2. h + 1 \in a .. Len(c) /\ a \in 1 .. Len(c) /\ c[h + 1] \in S /\ (h + 1) - 1 = h
  OBVIOUS
<1>3. SubSeq(c, a, h + 1) = SubSeq(c, a, (h + 1) - 1) \o <<c[h + 1]>>
  BY <1>2, SubSeqRecursiveSecond
<1>4. Append(SubSeq(c, a, h), c[h + 1]) = SubSeq(c, a, h) \o <<c[h + 1]>>
  BY <1>1, <1>2, AppendIsConcat
<1> QED
  BY <1>2, <1>3, <1>4

LEMMA AlongIs ==
  ASSUME NEW c, NEW n \in ScanStates, NEW t \in ReaderStates, NEW r, NEW i \in Nat,
         i > 0, n.start <= i, SameEvents(t, r), t.over <=> t.size > EventLimit, t.size = i,
         Ends(c, i) => AtLineEnd(c, n, t, i),
         c[i] = CR /\ ~Ends(c, i) => InCrlf(c, n, t, i),
         c[i] \notin Breaks => InLine(c, n, t, i)
  PROVE  Along(c, n, t, r, i)
BY DEF Along

LEMMA LineType ==
  ASSUME NEW c \in Seq(Bytes), NEW s \in Nat, NEW i \in 1 .. Len(c)
  PROVE  Line(c, s, i) \in Texts
<1> DEFINE e == IF c[i] = LF /\ i - 1 > s /\ c[i - 1] = CR THEN i - 2 ELSE i - 1
<1>1. e \in Int /\ e <= Len(c) /\ s + 1 >= 1
  OBVIOUS
<1>2. SubSeq(c, s + 1, e) \in Seq(Bytes)
  <2> HIDE DEF e
  <2> QED
    BY <1>1, PieceType
<1> QED
  BY <1>2 DEF Line, Texts

\* A line that is not empty is open, or the byte before would start an empty line.
LEMMA NoBreakFirst ==
  ASSUME NEW c \in Seq(Bytes), EmptyLines(c) = {}, NEW i \in 1 .. Len(c),
         i = 1 \/ Ends(c, i - 1)
  PROVE  c[i] \notin Breaks
<1>1. i - 1 \in LineStarts(c)
  <2>1. CASE i = 1
    BY <2>1 DEF LineStarts
  <2>2. CASE i # 1
    <3>1. i - 1 \in DOMAIN c /\ Ends(c, i - 1) /\ i - 1 < Len(c)
      BY <2>2
    <3> QED
      BY <3>1 DEF LineStarts
  <2> QED
    BY <2>1, <2>2
<1>2. i - 1 < Len(c) /\ (i - 1) + 1 = i
  OBVIOUS
<1>3. i - 1 \notin EmptyLines(c)
  OBVIOUS
<1> QED
  BY <1>1, <1>2, <1>3 DEF EmptyLines

LEMMA PassByteIs ==
  ASSUME NEW c \in Seq(Bytes), NEW p \in ScanStates, NEW i \in 1 .. Len(c), p.start <= i - 1
  PROVE  LET n == PassByte(c, p, i)
         IN  /\ n \in ScanStates /\ n.start <= i
             /\ (Ends(c, i) => n.start = i /\ n.event = TakeLine(p.event, Line(c, p.start, i)))
             /\ (~Ends(c, i) => n = p)
<1>1. p.start \in Nat /\ p.event \in SseEvents
  BY DEF ScanStates
<1>2. TakeLine(p.event, Line(c, p.start, i)) \in SseEvents
  BY <1>1, LineType, TakeLineType
<1> QED
  BY <1>1, <1>2 DEF PassByte, ScanStates

LEMMA AlongOn ==
  ASSUME NEW c \in Seq(Bytes), EmptyLines(c) = {}, NEW i \in 1 .. Len(c),
         NEW p, NEW q, NEW r, Along(c, p, q, r, i - 1)
  PROVE  Along(c, PassByte(c, p, i), ReadOn(q, c[i]), r, i)
<1> DEFINE n == PassByte(c, p, i)
           t == ReadOn(q, c[i])
           b == c[i]
           h == i - 1
<1> SUFFICES Along(c, n, t, r, i)
  OBVIOUS
<1>0. EventLimit \in Nat /\ CR # LF
  BY DecoderAssumption
<1>1. /\ p \in ScanStates /\ p.start <= h /\ q \in ReaderStates /\ p.start \in Nat
      /\ SameEvents(q, r) /\ (q.over <=> h > EventLimit) /\ b \in Bytes /\ p.event \in SseEvents
  BY DEF Along, ScanStates
<1>2. /\ n \in ScanStates /\ n.start <= i
      /\ (Ends(c, i) => n.start = i /\ n.event = TakeLine(p.event, Line(c, p.start, i)))
      /\ (~Ends(c, i) => n = p)
  <2> HIDE DEF n
  <2> QED
    BY <1>1, PassByteIs DEF n
<1>3. CASE q.over
  <2>1. t = q /\ h > EventLimit
    BY <1>1, <1>3 DEF ReadOn
  <2> QED
    BY <1>0, <1>1, <1>2, <1>3, <2>1 DEF Along
<1>4. CASE ~q.over
  <2>1. h <= EventLimit /\ q.size = h /\ h \in Nat /\ i \in Nat /\ i > 0 /\ i = h + 1 /\ h < Len(c)
    <3>1. h \in Nat /\ h <= EventLimit
      BY <1>0, <1>1, <1>4
    <3>2. q.size = h
      BY <3>1 DEF Along
    <3> QED
      BY <3>1, <3>2
  <2>2. CASE b \notin Breaks
    <3>1. /\ t \in ReaderStates
          /\ t.line = Append(q.line, b) /\ t.cr = FALSE /\ t.size = q.size + 1
          /\ EventOf(t) = EventOf(q) /\ SameEvents(t, q)
          /\ (t.over <=> t.size > EventLimit)
      BY <1>1, <1>4, <2>2, ReadsByte
    <3>2. ~Ends(c, i)
      BY <2>2 DEF Ends, Breaks
    <3>3. p.start < i /\ q.line = SubSeq(c, p.start + 1, h) /\ EventOf(q) = p.event
      <4>1. CASE h = 0 \/ Ends(c, h)
        <5>1. AtLineEnd(c, p, q, h)
          BY <2>1, <4>1 DEF Along
        <5>2. SubSeq(c, h + 1, h) = <<>>
          BY <2>1
        <5> QED
          BY <2>1, <5>1, <5>2 DEF AtLineEnd
      <4>2. CASE h > 0 /\ ~Ends(c, h)
        <5>1. ~(c[h] = CR)
          BY <2>1, <2>2, <4>2 DEF Ends, Breaks
        <5>2. InLine(c, p, q, h)
          BY <2>1, <4>2, <5>1 DEF Along, Ends, Breaks
        <5> QED
          BY <1>1, <5>2 DEF InLine
      <4> QED
        BY <2>1, <4>1, <4>2
    <3>4. t.line = SubSeq(c, p.start + 1, i)
      <4>1. Append(SubSeq(c, p.start + 1, h), c[h + 1]) = SubSeq(c, p.start + 1, h + 1)
        <5>1. p.start + 1 \in 1 .. (h + 1)
          BY <1>1, <2>1
        <5> HIDE DEF h
        <5> QED
          BY <2>1, <5>1, PieceAppend
      <4> QED
        BY <2>1, <3>1, <3>3, <4>1
    <3>5. InLine(c, n, t, i)
      BY <1>2, <3>1, <3>2, <3>3, <3>4 DEF InLine
    <3>7. t.over <=> t.size > EventLimit
      BY <3>1
    <3>6. SameEvents(t, r) /\ t.size = i /\ i # 0 /\ b # CR
      BY <1>1, <2>1, <2>2, <3>1 DEF SameEvents, Breaks
    <3> HIDE DEF n, t
    <3> QED
      BY <1>2, <2>1, <2>2, <3>1, <3>2, <3>5, <3>6, <3>7, AlongIs
  <2>3. CASE b \in Breaks /\ h > 0 /\ c[h] = CR /\ ~Ends(c, h)
    <3>1. b = LF /\ InCrlf(c, p, q, h)
      BY <1>0, <2>1, <2>3 DEF Along, Ends
    <3>2. /\ t \in ReaderStates
          /\ t.line = q.line /\ t.cr = FALSE
          /\ t.size = (IF q.size = 0 THEN 0 ELSE q.size + 1)
          /\ EventOf(t) = EventOf(q) /\ SameEvents(t, q)
          /\ (t.over <=> t.size > EventLimit)
      BY <1>1, <1>4, <3>1, ReadsPair DEF InCrlf
    <3>3. Ends(c, i) /\ i - 1 > p.start /\ i - 2 = h - 1
      BY <1>1, <2>1, <3>1 DEF Ends, InCrlf
    <3>4. Line(c, p.start, i) = SubSeq(c, p.start + 1, h - 1)
      BY <2>3, <3>1, <3>3 DEF Line
    <3>5. EventOf(t) = n.event /\ n.start = i
      BY <1>2, <3>1, <3>2, <3>3, <3>4 DEF InCrlf
    <3>6. AtLineEnd(c, n, t, i)
      BY <1>0, <3>1, <3>2, <3>5 DEF AtLineEnd, InCrlf
    <3>7. SameEvents(t, r) /\ t.size = i /\ i # 0 /\ b # CR
      BY <1>0, <1>1, <2>1, <2>3, <3>1, <3>2 DEF SameEvents
    <3>8. b \in Breaks /\ (t.over <=> t.size > EventLimit)
      BY <2>3, <3>2
    <3> HIDE DEF n, t
    <3> QED
      BY <1>2, <2>1, <3>2, <3>3, <3>6, <3>7, <3>8, AlongIs
  <2>4. CASE b \in Breaks /\ ~(h > 0 /\ c[h] = CR /\ ~Ends(c, h))
    <3>1. h > 0 /\ ~Ends(c, h)
      BY <2>1, <2>4, NoBreakFirst
    <3>2. c[h] \notin Breaks
      BY <2>4, <3>1 DEF Ends, Breaks
    <3>3. InLine(c, p, q, h)
      BY <2>1, <3>1, <3>2 DEF Along
    <3> DEFINE l == SubSeq(c, p.start + 1, h)
    <3>4. q.line = l /\ ~q.cr /\ EventOf(q) = p.event /\ p.start < h
      BY <3>3 DEF InLine
    <3>5. l # <<>>
      <4>1. l \in Seq(Bytes) /\ Len(l) = h - p.start
        BY <1>1, <2>1, <3>4, PieceType
      <4>2. Len(l) # 0
        BY <1>1, <2>1, <3>4, <4>1
      <4> HIDE DEF l
      <4> QED
        BY <4>1, <4>2
    <3>6. /\ t \in ReaderStates
          /\ t.line = <<>> /\ t.cr = (b = CR) /\ t.size = q.size + 1
          /\ EventOf(t) = TakeLine(EventOf(q), q.line) /\ SameEvents(t, q)
          /\ (t.over <=> t.size > EventLimit)
      BY <1>1, <1>4, <2>4, <3>4, <3>5, ReadsLine
    <3>7. SameEvents(t, r) /\ t.size = i /\ i # 0 /\ (t.over <=> t.size > EventLimit)
      BY <1>1, <2>1, <3>6 DEF SameEvents
    <3>8. CASE Ends(c, i)
      <4>1. Line(c, p.start, i) = l
        BY <3>2 DEF Line, Breaks
      <4>2. AtLineEnd(c, n, t, i)
        BY <1>2, <3>4, <3>6, <3>8, <4>1 DEF AtLineEnd
      <4> HIDE DEF n, t
      <4> QED
        BY <1>2, <2>1, <2>4, <3>6, <3>7, <3>8, <4>2, AlongIs
    <3>9. CASE ~Ends(c, i)
      <4>1. b = CR
        BY <2>4, <3>9 DEF Ends, Breaks
      <4>2. InCrlf(c, n, t, i)
        BY <1>2, <3>4, <3>6, <3>9, <4>1 DEF InCrlf
      <4> HIDE DEF n, t
      <4> QED
        BY <1>2, <2>1, <2>4, <3>6, <3>7, <3>9, <4>2, AlongIs
    <3> QED
      BY <3>8, <3>9
  <2> QED
    BY <2>2, <2>3, <2>4
<1> QED
  BY <1>3, <1>4

-----------------------------------------------------------------------------
(* The reader along a stream, and the decoder along what it has buffered.  *)

Trace(R, all) ==
    R[0] \in ReaderStates /\ \A n \in 1..Len(all) : R[n] = ReadOn(R[n - 1], all[n])
\* Where c lies in the stream.
At(c, all, m) == m + Len(c) <= Len(all) /\ \A j \in 1..Len(c) : c[j] = all[m + j]

LEMMA ReadOnType ==
  ASSUME NEW r \in ReaderStates, NEW b \in Bytes
  PROVE  ReadOn(r, b) \in ReaderStates
<1>1. CASE r.over
  BY <1>1 DEF ReadOn
<1>2. CASE ~r.over /\ b \notin Breaks
  BY <1>2, ReadsByte
<1>3. CASE ~r.over /\ b = LF /\ r.cr
  BY <1>3, ReadsPair
<1>4. CASE ~r.over /\ b \in Breaks /\ ~(b = LF /\ r.cr) /\ r.line # <<>>
  BY <1>4, ReadsLine
<1>5. CASE ~r.over /\ b \in Breaks /\ ~(b = LF /\ r.cr) /\ r.line = <<>>
  BY <1>5, ReadsEnd
<1> QED
  BY <1>1, <1>2, <1>3, <1>4, <1>5

LEMMA TraceTypes ==
  ASSUME NEW all \in Seq(Bytes), NEW R, Trace(R, all)
  PROVE  \A n \in 0..Len(all) : R[n] \in ReaderStates
<1> DEFINE S == {n \in 0..Len(all) : R[n] \in ReaderStates}
<1>1. 0 \in S /\ Len(all) \in Nat
  BY DEF Trace
<1>2. ASSUME NEW n \in 1 .. Len(all), n - 1 \in S PROVE n \in S
  <2>1. R[n - 1] \in ReaderStates /\ all[n] \in Bytes
    BY <1>2
  <2>2. R[n] = ReadOn(R[n - 1], all[n])
    BY DEF Trace
  <2>3. R[n] \in ReaderStates
    BY <2>1, <2>2, ReadOnType
  <2> QED
    BY <2>3
<1>3. \A n \in 1 .. Len(all) : n - 1 \in S => n \in S
  BY ONLY <1>2
<1>4. \A n \in 0 .. Len(all) : n \in S
  <2> HIDE DEF S
  <2> QED
    BY <1>1, <1>3, Induction
<1> QED
  BY <1>4

\* A reader that gave up has given up.
LEMMA TraceOver ==
  ASSUME NEW all \in Seq(Bytes), NEW R, Trace(R, all), NEW m \in 0..Len(all), R[m].over
  PROVE  R[Len(all)] = R[m]
<1> DEFINE N == Len(all) - m
           S == {n \in 0..N : R[m + n] = R[m]}
<1>1. 0 \in S /\ N \in Nat /\ N \in 0..N
  OBVIOUS
<1>2. ASSUME NEW n \in 1 .. N, n - 1 \in S PROVE n \in S
  <2>1. R[m + (n - 1)] = R[m] /\ m + n \in 1..Len(all) /\ (m + n) - 1 = m + (n - 1)
    BY <1>2
  <2>2. R[m + n] = ReadOn(R[m], all[m + n])
    BY <2>1 DEF Trace
  <2>3. R[m + n] = R[m]
    BY <2>2 DEF ReadOn
  <2> QED
    BY <2>3
<1>3. \A n \in 1 .. N : n - 1 \in S => n \in S
  BY ONLY <1>2
<1>4. N \in S
  <2> HIDE DEF S, N
  <2> QED
    BY <1>1, <1>3, Induction
<1> QED
  BY <1>4

LEMMA AlongAll ==
  ASSUME NEW all \in Seq(Bytes), NEW R, Trace(R, all), NEW m \in Nat, NEW c \in Seq(Bytes),
         At(c, all, m), EmptyLines(c) = {}, Boundary(R[m])
  PROVE  \A i \in 0..Len(c) : Along(c, Scans(c, R[m].lastId)[i], R[m + i], R[m], i)
<1> DEFINE r == R[m]
           P == Scans(c, r.lastId)
           S == {i \in 0..Len(c) : Along(c, P[i], R[m + i], r, i)}
<1>1. /\ P[0] = ScanStart(r.lastId)
      /\ \A n \in 1 .. Len(c) : P[n] = PassByte(c, P[n - 1], n)
  <2> HIDE DEF r
  <2> QED
    BY ScansAre
<1>2. r \in ReaderStates
  BY TraceTypes DEF At
<1>3. 0 \in S
  <2>1. /\ r.line = <<>> /\ r.size = 0 /\ ~r.over /\ r.lastId \in Texts
        /\ EventOf(r) = [data |-> <<>>, id |-> r.lastId] /\ SameEvents(r, r)
    BY <1>2 DEF Boundary, ReaderStates, EventOf, SameEvents
  <2>2. /\ P[0].start = 0 /\ P[0].event = [data |-> <<>>, id |-> r.lastId]
        /\ P[0] \in ScanStates
    BY <1>1, <2>1 DEF ScanStart, ScanStates, SseEvents
  <2>3. 0 <= EventLimit /\ ~(0 > EventLimit)
    BY DecoderAssumption
  <2> HIDE DEF P, r
  <2>4. AtLineEnd(c, P[0], r, 0)
    BY <2>1, <2>2 DEF AtLineEnd
  <2>5. Along(c, P[0], r, r, 0)
    BY <1>2, <2>1, <2>2, <2>3, <2>4 DEF Along
  <2> QED
    BY <2>5 DEF r
<1>4. ASSUME NEW n \in 1 .. Len(c), n - 1 \in S PROVE n \in S
  <2>1. m + (n - 1) = (m + n) - 1 /\ m + n \in 1..Len(all) /\ c[n] = all[m + n] /\ n \in 0..Len(c)
    BY DEF At
  <2>2. R[m + n] = ReadOn(R[m + (n - 1)], c[n])
    BY <2>1 DEF Trace
  <2>3. P[n] = PassByte(c, P[n - 1], n)
    BY <1>1
  <2>4. Along(c, P[n - 1], R[m + (n - 1)], r, n - 1)
    BY <1>4
  <2> HIDE DEF P, r
  <2>5. Along(c, P[n], R[m + n], r, n)
    BY <2>2, <2>3, <2>4, AlongOn
  <2> QED
    BY <2>1, <2>5
<1>5. \A n \in 1 .. Len(c) : n - 1 \in S => n \in S
  BY ONLY <1>4
<1>7. Len(c) \in Nat
  OBVIOUS
<1>6. \A n \in 0..Len(c) : n \in S
  <2> HIDE DEF S
  <2> QED
    BY <1>3, <1>5, <1>7, Induction
<1> QED
  BY <1>6

\* The part of the stream before the first empty line.
LEMMA FirstEmptyLine ==
  ASSUME NEW b \in Seq(Bytes), EmptyLines(b) # {}
  PROVE  LET s == FindEventEnd(b)
             c == SubSeq(b, 1, s)
         IN  /\ s \in 0..(Len(b) - 1) /\ b[s + 1] \in Breaks
             /\ s > 0 => Ends(b, s) /\ (b[s] = CR => b[s + 1] # LF)
             /\ c \in Seq(Bytes) /\ Len(c) = s /\ \A j \in 1..s : c[j] = b[j]
             /\ EmptyLines(c) = {}
             /\ s > 0 => Ends(c, s)
<1> DEFINE s == FindEventEnd(b)
           c == SubSeq(b, 1, s)
<1>1. EmptyLines(b) \subseteq Nat
  BY DEF EmptyLines, LineStarts
<1>2. s \in EmptyLines(b) /\ \A t \in EmptyLines(b) : s <= t
  BY <1>1, Least DEF FindEventEnd
<1> HIDE DEF s
<1>3. /\ s \in 0..(Len(b) - 1) /\ b[s + 1] \in Breaks
      /\ s > 0 => Ends(b, s) /\ (b[s] = CR => s < Len(b))
  BY <1>2 DEF EmptyLines, LineStarts
<1>4. s > 0 => (b[s] = CR => b[s + 1] # LF)
  BY <1>3, DecoderAssumption DEF Ends
<1>5. c \in Seq(Bytes) /\ Len(c) = s /\ \A j \in 1..s : c[j] = b[j]
  <2>1. c \in Seq(Bytes) /\ Len(c) = (IF 1 <= s THEN s - 1 + 1 ELSE 0)
        /\ \A i \in 1..(s - 1 + 1) : c[i] = b[1 + i - 1]
    BY <1>3, PieceType
  <2> HIDE DEF c
  <2> QED
    BY <1>3, <2>1
<1> HIDE DEF c
<1>6. ASSUME NEW t \in EmptyLines(c) PROVE FALSE
  <2>1. t \in LineStarts(c) /\ t < s /\ c[t + 1] \in Breaks
    BY <1>5 DEF EmptyLines
  <2>2. t \in Nat /\ t < Len(b)
    <3>1. t = 0 \/ t \in 1..s
      BY <1>5, <2>1 DEF LineStarts
    <3>2. Len(b) \in Nat
      OBVIOUS
    <3> QED
      BY <1>3, <2>1, <3>1, <3>2
  <2>3. c[t + 1] = b[t + 1]
    BY <1>5, <2>1, <2>2
  <2>4. t \in LineStarts(b)
    <3>1. CASE t = 0
      BY <3>1 DEF LineStarts
    <3>2. CASE t # 0
      <4>1. t \in 1..s /\ Ends(c, t) /\ t \in DOMAIN b /\ t < Len(c)
        BY <1>3, <1>5, <2>1, <2>2, <3>2 DEF LineStarts
      <4>2. c[t] = b[t]
        BY <1>5, <4>1
      <4>3. Ends(b, t)
        BY <2>3, <4>1, <4>2 DEF Ends
      <4> QED
        BY <2>2, <4>1, <4>3 DEF LineStarts
    <3> QED
      BY <3>1, <3>2
  <2>5. t \in EmptyLines(b)
    BY <2>1, <2>2, <2>3, <2>4 DEF EmptyLines
  <2> QED
    BY <1>2, <1>3, <2>1, <2>2, <2>5
<1>7. s > 0 => Ends(c, s)
  <2>1. s > 0 => c[s] = b[s]
    BY <1>3, <1>5
  <2> QED
    BY <1>3, <1>5, <2>1 DEF Ends
<1> QED
  BY <1>3, <1>4, <1>5, <1>6, <1>7 DEF s, c

\* A CRLF is consumed whole, if it is there.
LEMMA ConsumedIs ==
  ASSUME NEW b \in Seq(Bytes), NEW s \in 0..(Len(b) - 1)
  PROVE  LET paired == s + 2 <= Len(b) /\ b[s + 1] = CR /\ b[s + 2] = LF
         IN  Consumed(b, s) = IF paired THEN s + 2 ELSE s + 1
<1> DEFINE t == SubSeq(b, s + 1, Len(b))
           u == <<CR, LF>>
<1>1. /\ t \in Seq(Bytes) /\ Len(t) = Len(b) - s
      /\ \A i \in 1..(Len(b) - s) : t[i] = b[s + i]
  <2>1. /\ t \in Seq(Bytes) /\ Len(t) = (IF s + 1 <= Len(b) THEN Len(b) - (s + 1) + 1 ELSE 0)
        /\ \A i \in 1..(Len(b) - (s + 1) + 1) : t[i] = b[s + 1 + i - 1]
    BY PieceType
  <2> HIDE DEF t
  <2> QED
    BY <2>1
<1>2. u \in Seq(Bytes) /\ Len(u) = 2 /\ u[1] = CR /\ u[2] = LF /\ SubSeq(u, 1, Len(u)) = u
  <2>1. u \in Seq(Bytes) /\ Len(u) = 2 /\ u[1] = CR /\ u[2] = LF
    BY DEF Bytes
  <2> HIDE DEF u
  <2> QED
    BY <2>1, SubSeqFull
<1> HIDE DEF t, u
<1>3. ASSUME 2 <= Len(t)
      PROVE  (SubSeq(u, 1, Len(u)) = SubSeq(t, 1, Len(u))) <=> (t[1] = CR /\ t[2] = LF)
  <2> DEFINE v == SubSeq(t, 1, 2)
  <2>1. v \in Seq(Bytes) /\ Len(v) = 2 /\ v[1] = t[1] /\ v[2] = t[2]
    BY <1>1, <1>3, PieceType
  <2> HIDE DEF v
  <2>2. (u = v) <=> (v[1] = CR /\ v[2] = LF)
    BY <1>2, <2>1
  <2> QED
    BY <1>2, <2>1, <2>2 DEF v
<1>4. IsPrefix(u, t) <=> (2 <= Len(t) /\ t[1] = CR /\ t[2] = LF)
  BY <1>1, <1>2, <1>3 DEF IsPrefix
<1>5. t[1] = b[s + 1] /\ (2 <= Len(t) => t[2] = b[s + 2])
  BY <1>1
<1> QED
  BY <1>1, <1>4, <1>5 DEF Consumed, t, u

\* What the reader has made of the first block of b, which lies at m.
ReadPast(R, m, b) ==
    LET s == FindEventEnd(b)
        event == SseEvent(SubSeq(b, 1, s), R[m].lastId)
        e == Consumed(b, s)
    IN  /\ s \in 0..(Len(b) - 1)
        /\ s > EventLimit => R[m + s].over /\ R[m + s].out = R[m].out
        /\ s <= EventLimit =>
             /\ event \in SseEvents /\ e \in 1..Len(b)
             /\ Boundary(R[m + e]) /\ R[m + e].lastId = event.id
             /\ R[m + e].out = R[m].out \o Given(event)

\* The byte after a block's last line: the event is given, and the reader is where the
\* next block begins, whether or not the LF of a CRLF has come.
LEMMA BlockRead ==
  ASSUME NEW all \in Seq(Bytes), NEW R, Trace(R, all), NEW m \in Nat, NEW b \in Seq(Bytes),
         At(b, all, m), Boundary(R[m]), EmptyLines(b) # {}
  PROVE  ReadPast(R, m, b)
<1> DEFINE s == FindEventEnd(b)
           c == SubSeq(b, 1, s)
           event == SseEvent(c, R[m].lastId)
           e == Consumed(b, s)
           p == Scans(c, R[m].lastId)[s]
           Goal == /\ s > EventLimit => R[m + s].over /\ R[m + s].out = R[m].out
                   /\ s <= EventLimit =>
                        /\ event \in SseEvents /\ e \in 1..Len(b)
                        /\ Boundary(R[m + e]) /\ R[m + e].lastId = event.id
                        /\ R[m + e].out = R[m].out \o Given(event)
<1>1. /\ s \in 0..(Len(b) - 1) /\ b[s + 1] \in Breaks
      /\ s > 0 => Ends(b, s) /\ (b[s] = CR => b[s + 1] # LF)
      /\ c \in Seq(Bytes) /\ Len(c) = s /\ \A j \in 1..s : c[j] = b[j]
      /\ EmptyLines(c) = {}
      /\ s > 0 => Ends(c, s)
  BY FirstEmptyLine
<1> SUFFICES Goal
  BY <1>1 DEF ReadPast
<1> HIDE DEF s
<1>2. /\ EventLimit \in Nat /\ CR # LF /\ Len(b) \in Nat /\ m + s \in 0..Len(all)
      /\ m + s + 1 \in 1..Len(all) /\ Len(all) \in Nat
  BY <1>1, DecoderAssumption DEF At
<1> HIDE DEF c
<1>3. At(c, all, m)
  BY <1>1, <1>2 DEF At
<1>4. event = p.event
  <2>1. event = Scans(c, R[m].lastId)[Len(c)].event
    BY <1>1, ScansAre
  <2> QED
    BY <1>1, <2>1
<1>5. Along(c, p, R[m + s], R[m], s)
  <2>1. \A i \in 0..Len(c) : Along(c, Scans(c, R[m].lastId)[i], R[m + i], R[m], i)
    BY <1>1, <1>3, AlongAll
  <2> QED
    BY <1>1, <2>1
<1> HIDE DEF p, event, e
<1>6. R[m + s] \in ReaderStates /\ R[m] \in ReaderStates
  <2>1. m \in 0..Len(all)
    BY <1>1, <1>2
  <2> QED
    BY <1>2, <2>1, TraceTypes
<1>7. CASE s > EventLimit
  BY <1>1, <1>2, <1>5, <1>7 DEF Along, SameEvents
<1>8. CASE s <= EventLimit
  <2> DEFINE q == R[m + s]
             t == R[m + s + 1]
             d == b[s + 1]
  <2>1. /\ ~q.over /\ q.line = <<>> /\ EventOf(q) = event /\ (s > 0 => q.cr = (c[s] = CR))
        /\ event \in SseEvents /\ q.out = R[m].out /\ q.size = s /\ q.lastId = R[m].lastId
    <3>1. ~(s > EventLimit) /\ (s = 0 \/ Ends(c, s))
      BY <1>1, <1>2, <1>8
    <3>2. AtLineEnd(c, p, q, s) /\ ~q.over /\ q.size = s
      BY <1>5, <1>8, <3>1 DEF Along
    <3>3. p \in ScanStates /\ SameEvents(q, R[m])
      BY <1>5 DEF Along
    <3> QED
      BY <1>4, <3>2, <3>3 DEF AtLineEnd, SameEvents, ScanStates
  <2>2. d = all[m + s + 1] /\ t = ReadOn(q, d) /\ d \in Breaks
    <3>1. s + 1 \in 1..Len(b) /\ m + (s + 1) = m + s + 1 /\ (m + s + 1) - 1 = m + s
      BY <1>1, <1>2
    <3>2. b[s + 1] = all[m + (s + 1)]
      BY <3>1 DEF At
    <3>3. t = ReadOn(R[(m + s + 1) - 1], all[m + s + 1])
      BY <1>2 DEF Trace
    <3> QED
      BY <1>1, <3>1, <3>2, <3>3
  <2>3. e = IF s + 2 <= Len(b) /\ b[s + 1] = CR /\ b[s + 2] = LF THEN s + 2 ELSE s + 1
    BY <1>1, ConsumedIs DEF e
  <2>4. e \in 1..Len(b) /\ s + 1 \in 1..Len(b)
    BY <1>1, <1>2, <2>3
  <2>5. event = EventOf(q) /\ q \in ReaderStates /\ EventOf(q).id = q.id
    BY <1>6, <2>1 DEF EventOf
  <2>6. CASE d = LF /\ q.cr
    <3>1. s = 0
      <4>1. s > 0 => c[s] = b[s]
        BY <1>1
      <4>2. s > 0 => b[s] = CR
        BY <2>1, <2>6, <4>1
      <4> QED
        BY <1>1, <2>6, <4>2
    <3>2. e = s + 1
      BY <1>2, <2>3, <2>6
    <3>3. q = R[m]
      BY <1>2, <3>1
    <3>4. /\ t.line = q.line /\ t.size = (IF q.size = 0 THEN 0 ELSE q.size + 1)
          /\ EventOf(t) = EventOf(q) /\ SameEvents(t, q)
          /\ (t.over <=> t.size > EventLimit)
      <4>1. t = ReadOn(q, LF) /\ q.cr /\ ~q.over
        BY <2>1, <2>2, <2>6
      <4> HIDE DEF q, t
      <4> QED
        BY <2>5, <4>1, ReadsPair
    <3>5. t.data = q.data /\ t.id = q.id /\ event.data = q.data /\ event.id = q.id
      BY <2>5, <3>4 DEF EventOf
    <3>6. q.data = <<>> /\ q.id = q.lastId /\ q.size = 0
      BY <3>3 DEF Boundary
    <3>7. Boundary(t) /\ t.lastId = event.id /\ t.out = q.out
      <4>1. ~(0 > EventLimit)
        BY <1>2
      <4> HIDE DEF q, t
      <4> QED
        BY <2>1, <3>4, <3>5, <3>6, <4>1 DEF Boundary, SameEvents
    <3>8. q.out \o Given(event) = q.out
      <4>1. event.data = <<>> /\ q.out \in Seq(SseEvents)
        BY <2>5, <3>5, <3>6 DEF ReaderStates
      <4> QED
        BY <2>1, <4>1, GivenType
    <3>9. m + e = m + s + 1
      BY <1>1, <3>2
    <3> HIDE DEF q, t
    <3>10. R[m + e] = t
      BY <3>9 DEF t
    <3> QED
      BY <1>1, <1>2, <1>8, <2>1, <2>4, <3>7, <3>8, <3>10
  <2>7. CASE ~(d = LF /\ q.cr)
    <3>1. /\ t \in ReaderStates /\ Boundary(t)
          /\ t.cr = (d = CR) /\ t.lastId = q.id
          /\ t.out = q.out \o Given(EventOf(q))
      <4> HIDE DEF q, t, d
      <4> QED
        BY <2>1, <2>2, <2>5, <2>7, ReadsEnd
    <3>2. t.lastId = event.id /\ t.out = R[m].out \o Given(event)
      BY <2>1, <2>5, <3>1
    <3>3. CASE e = s + 1
      <4>1. m + e = m + s + 1
        BY <1>1, <3>3
      <4> HIDE DEF q, t
      <4>2. R[m + e] = t
        BY <4>1 DEF t
      <4> QED
        BY <1>1, <1>2, <1>8, <2>1, <2>4, <3>1, <3>2, <4>2
    <3>4. CASE e = s + 2 /\ e # s + 1
      <4> DEFINE u == R[m + s + 2]
      <4>1. s + 2 <= Len(b) /\ b[s + 1] = CR /\ b[s + 2] = LF
        BY <1>1, <2>3, <3>4
      <4>2. u = ReadOn(t, LF)
        <5>1. s + 2 \in 1..Len(b) /\ m + (s + 2) = m + s + 2 /\ (m + s + 2) - 1 = m + s + 1
              /\ m + s + 2 \in 1..Len(all)
          BY <1>1, <1>2, <4>1 DEF At
        <5>2. b[s + 2] = all[m + s + 2]
          BY <5>1 DEF At
        <5>3. R[m + s + 2] = ReadOn(R[(m + s + 2) - 1], all[m + s + 2])
          <6> DEFINE n == m + s + 2
          <6>1. n \in 1..Len(all)
            BY <5>1
          <6> HIDE DEF n
          <6>2. R[n] = ReadOn(R[n - 1], all[n])
            BY <6>1 DEF Trace
          <6> QED
            BY <6>2 DEF n
        <5> QED
          BY <4>1, <5>1, <5>2, <5>3
      <4>3. t.cr /\ ~t.over /\ t.size = 0 /\ t.line = <<>>
        BY <3>1, <4>1 DEF Boundary
      <4> HIDE DEF q, t, u
      <4>4. /\ u \in ReaderStates /\ u.line = t.line
            /\ u.size = (IF t.size = 0 THEN 0 ELSE t.size + 1)
            /\ EventOf(u) = EventOf(t) /\ SameEvents(u, t)
            /\ (u.over <=> u.size > EventLimit)
        BY <3>1, <4>2, <4>3, ReadsPair
      <4>5. u.data = t.data /\ u.id = t.id
        BY <4>4 DEF EventOf
      <4>6. Boundary(u) /\ u.lastId = t.lastId /\ u.out = t.out
        <5>1. ~(0 > EventLimit)
          BY <1>2
        <5> QED
          BY <3>1, <4>3, <4>4, <4>5, <5>1 DEF Boundary, SameEvents
      <4>7. m + e = m + s + 2
        BY <1>1, <3>4
      <4>8. R[m + e] = u
        BY <4>7 DEF u
      <4> QED
        BY <1>1, <1>2, <1>8, <2>1, <2>4, <3>1, <3>2, <4>6, <4>8
    <3> QED
      BY <2>3, <3>3, <3>4
  <2> QED
    BY <2>6, <2>7
<1> QED
  BY <1>1, <1>2, <1>7, <1>8

-----------------------------------------------------------------------------
(* What push drains.                                                       *)

Rest(all, m) == SubSeq(all, m + 1, Len(all))

LEMMA RestIs ==
  ASSUME NEW all \in Seq(Bytes), NEW m \in 0..Len(all)
  PROVE  /\ Rest(all, m) \in Seq(Bytes) /\ Len(Rest(all, m)) = Len(all) - m
         /\ \A j \in 1..(Len(all) - m) : Rest(all, m)[j] = all[m + j]
         /\ At(Rest(all, m), all, m)
<1> DEFINE b == Rest(all, m)
<1>1. /\ b \in Seq(Bytes) /\ Len(b) = (IF m + 1 <= Len(all) THEN Len(all) - (m + 1) + 1 ELSE 0)
      /\ \A j \in 1..(Len(all) - (m + 1) + 1) : b[j] = all[(m + 1) + j - 1]
  BY PieceType DEF Rest
<1> HIDE DEF b
<1>2. Len(b) = Len(all) - m
  BY <1>1
<1>3. \A j \in 1..(Len(all) - m) : b[j] = all[m + j]
  BY <1>1
<1>4. At(b, all, m)
  BY <1>2, <1>3 DEF At
<1> QED
  BY <1>1, <1>2, <1>3, <1>4 DEF b

LEMMA RestOfRest ==
  ASSUME NEW all \in Seq(Bytes), NEW m \in 0..Len(all), NEW e \in 0..(Len(all) - m)
  PROVE  SubSeq(Rest(all, m), e + 1, Len(Rest(all, m))) = Rest(all, m + e)
<1> DEFINE b == Rest(all, m)
           t == SubSeq(b, e + 1, Len(b))
           u == Rest(all, m + e)
<1>1. /\ b \in Seq(Bytes) /\ Len(b) = Len(all) - m
      /\ \A j \in 1..(Len(all) - m) : b[j] = all[m + j]
  BY RestIs
<1>2. /\ u \in Seq(Bytes) /\ Len(u) = Len(all) - (m + e)
      /\ \A j \in 1..(Len(all) - (m + e)) : u[j] = all[m + e + j]
  <2>1. m + e \in 0..Len(all)
    OBVIOUS
  <2> QED
    BY <2>1, RestIs
<1> HIDE DEF b, u
<1>3. /\ t \in Seq(Bytes) /\ Len(t) = (IF e + 1 <= Len(b) THEN Len(b) - (e + 1) + 1 ELSE 0)
      /\ \A j \in 1..(Len(b) - (e + 1) + 1) : t[j] = b[(e + 1) + j - 1]
  BY <1>1, PieceType
<1> HIDE DEF t
<1>4. Len(t) = Len(u)
  <2> DEFINE N == Len(all)
             B == Len(b)
  <2>1. N \in Nat /\ m \in Nat /\ e \in Nat /\ e <= N - m
    OBVIOUS
  <2>2. B = N - m
    BY <1>1
  <2>3. Len(u) = N - (m + e)
    BY <1>2
  <2>4. Len(t) = (IF e + 1 <= B THEN B - (e + 1) + 1 ELSE 0)
    BY <1>3
  <2> HIDE DEF N, B
  <2>5. (IF e + 1 <= B THEN B - (e + 1) + 1 ELSE 0) = N - (m + e)
    BY ONLY <2>1, <2>2
  <2> QED
    BY ONLY <2>3, <2>4, <2>5
<1>5. ASSUME NEW j \in 1..Len(t) PROVE t[j] = u[j]
  <2>1. t[j] = b[e + j]
    BY <1>1, <1>2, <1>3, <1>4
  <2>2. e + j \in 1..(Len(all) - m)
    BY <1>1, <1>2, <1>3, <1>4
  <2>3. b[e + j] = all[m + (e + j)]
    BY <1>1, <2>2
  <2>4. j \in 1..(Len(all) - (m + e))
    BY <1>2, <1>4
  <2>5. u[j] = all[m + e + j] /\ m + e + j = m + (e + j)
    BY <1>2, <2>4
  <2> QED
    BY <2>1, <2>3, <2>5
<1>6. t = u
  BY <1>2, <1>3, <1>4, <1>5, SeqEqual
<1> QED
  BY <1>6 DEF t, b, u

LEMMA Prefixed ==
  ASSUME NEW S, NEW s \in Seq(S), NEW t \in Seq(S)
  PROVE  IsPrefix(s, s \o t)
<1>1. /\ s \o t \in Seq(S) /\ Len(s \o t) = Len(s) + Len(t)
      /\ \A i \in 1..Len(s) : (s \o t)[i] = s[i]
  BY ConcatProperties
<1> DEFINE u == s \o t
           v == SubSeq(u, 1, Len(s))
<1> HIDE DEF u
<1>2. /\ v \in Seq(S) /\ Len(v) = (IF 1 <= Len(s) THEN Len(s) - 1 + 1 ELSE 0)
      /\ \A i \in 1..(Len(s) - 1 + 1) : v[i] = u[1 + i - 1]
  BY <1>1, PieceType DEF u
<1> HIDE DEF v
<1>3. Len(v) = Len(s) /\ \A i \in 1..Len(v) : v[i] = s[i]
  BY <1>1, <1>2 DEF u
<1>4. v = s
  BY <1>2, <1>3, SeqEqual
<1>5. SubSeq(s, 1, Len(s)) = s
  BY SubSeqFull
<1> QED
  BY <1>1, <1>4, <1>5 DEF IsPrefix, u, v

DrainStates == [buffer : Seq(Bytes), lastId : Texts, out : Seq(SseEvents), ok : BOOLEAN]
\* What is buffered is what the reader has read since the end of an event.
Holding(R, all, m, buffer, lastId) ==
    buffer = Rest(all, m) /\ Boundary(R[m]) /\ R[m].lastId = lastId
Drained(d, R, all, given, low) ==
    /\ d \in DrainStates
    /\ d.ok => \E m \in 0..Len(all) :
                   /\ Holding(R, all, m, d.buffer, d.lastId) /\ R[m].out = given \o d.out
                   /\ m >= low \/ EmptyLines(d.buffer) = {}
    /\ ~d.ok => R[Len(all)].over /\ IsPrefix(given, R[Len(all)].out)

LEMMA DrainsOne ==
  ASSUME NEW all \in Seq(Bytes), NEW R, Trace(R, all), NEW given \in Seq(SseEvents),
         NEW low \in Nat, NEW d, Drained(d, R, all, given, low)
  PROVE  Drained(DrainOne(d), R, all, given, low + 1)
<1> DEFINE n == DrainOne(d)
<1> SUFFICES Drained(n, R, all, given, low + 1)
  OBVIOUS
<1>1. d \in DrainStates
  BY DEF Drained
<1>2. CASE ~d.ok
  <2>1. n = d
    BY <1>2 DEF DrainOne
  <2> QED
    BY <1>2, <2>1 DEF Drained
<1>3. CASE d.ok
  <2>1. PICK m \in 0..Len(all) :
            /\ Holding(R, all, m, d.buffer, d.lastId) /\ R[m].out = given \o d.out
            /\ m >= low \/ EmptyLines(d.buffer) = {}
    BY <1>3 DEF Drained
  <2>2. CASE EmptyLines(d.buffer) = {}
    <3>1. n = d
      BY <2>2 DEF DrainOne
    <3> QED
      BY <1>1, <1>3, <2>1, <2>2, <3>1 DEF Drained
  <2>3. CASE EmptyLines(d.buffer) # {}
    <3> DEFINE b == d.buffer
               s == FindEventEnd(b)
               event == SseEvent(SubSeq(b, 1, s), R[m].lastId)
               e == Consumed(b, s)
    <3>1. /\ b = Rest(all, m) /\ Boundary(R[m]) /\ R[m].lastId = d.lastId /\ m >= low
          /\ d.out \in Seq(SseEvents) /\ m \in Nat /\ Len(all) \in Nat
      BY <1>1, <2>1, <2>3 DEF Holding, DrainStates
    <3>2. b \in Seq(Bytes) /\ Len(b) = Len(all) - m /\ At(b, all, m)
      BY <3>1, RestIs
    <3>3. /\ s \in 0..(Len(b) - 1)
          /\ s > EventLimit => R[m + s].over /\ R[m + s].out = R[m].out
          /\ s <= EventLimit =>
               /\ event \in SseEvents /\ e \in 1..Len(b)
               /\ Boundary(R[m + e]) /\ R[m + e].lastId = event.id
               /\ R[m + e].out = R[m].out \o Given(event)
      <4>1. EmptyLines(b) # {}
        BY <2>3
      <4> HIDE DEF b
      <4>2. ReadPast(R, m, b)
        BY <3>1, <3>2, <4>1, BlockRead
      <4> QED
        BY <4>2 DEF ReadPast
    <3>4. n = IF s > EventLimit THEN [d EXCEPT !.ok = FALSE]
              ELSE [buffer |-> SubSeq(b, e + 1, Len(b)), lastId |-> event.id,
                    out |-> d.out \o Given(event), ok |-> TRUE]
      BY <1>3, <2>3, <3>1 DEF DrainOne
    <3> HIDE DEF b, s, event, e
    <3>5. CASE s > EventLimit
      <4>1. n = [d EXCEPT !.ok = FALSE]
        BY <3>4, <3>5
      <4>2. n \in DrainStates /\ ~n.ok
        BY <1>1, <4>1 DEF DrainStates
      <4>3. m + s \in 0..Len(all)
        BY <3>1, <3>2, <3>3
      <4>4. R[Len(all)] = R[m + s]
        BY <3>3, <3>5, <4>3, TraceOver
      <4>5. IsPrefix(given, R[Len(all)].out)
        BY <2>1, <3>1, <3>3, <3>5, <4>4, Prefixed
      <4> HIDE DEF n
      <4> QED
        BY <3>3, <3>5, <4>2, <4>4, <4>5 DEF Drained
    <3>6. CASE ~(s > EventLimit)
      <4>1. s <= EventLimit
        BY <3>3, <3>6, DecoderAssumption
      <4>2. /\ event \in SseEvents /\ e \in 1..Len(b)
            /\ Boundary(R[m + e]) /\ R[m + e].lastId = event.id
            /\ R[m + e].out = R[m].out \o Given(event)
        BY <3>3, <4>1
      <4>3. n = [buffer |-> SubSeq(b, e + 1, Len(b)), lastId |-> event.id,
                 out |-> d.out \o Given(event), ok |-> TRUE]
        BY <3>4, <3>6
      <4> HIDE DEF n
      <4>4. m + e \in 0..Len(all) /\ e \in 0..(Len(all) - m) /\ m + e >= low + 1
        BY <3>1, <3>2, <4>2
      <4>5. SubSeq(b, e + 1, Len(b)) = Rest(all, m + e)
        BY <3>1, <4>4, RestOfRest
      <4>6. Rest(all, m + e) \in Seq(Bytes)
        BY <4>4, RestIs
      <4>7. Given(event) \in Seq(SseEvents) /\ d.out \o Given(event) \in Seq(SseEvents)
        BY <3>1, <4>2, GivenType
      <4>8. n \in DrainStates
        <5>1. event.id \in Texts
          BY <4>2 DEF SseEvents
        <5> QED
          BY <4>3, <4>5, <4>6, <4>7, <5>1 DEF DrainStates
      <4>9. R[m + e].out = given \o n.out
        <5>1. R[m + e].out = (given \o d.out) \o Given(event)
          BY <2>1, <4>2
        <5>2. (given \o d.out) \o Given(event) = given \o (d.out \o Given(event))
          <6> DEFINE x == d.out
                     y == Given(event)
          <6>1. x \in Seq(SseEvents) /\ y \in Seq(SseEvents)
            BY <3>1, <4>7
          <6> HIDE DEF x, y
          <6>2. (given \o x) \o y = given \o (x \o y)
            BY <6>1, ConcatAssociative
          <6> QED
            BY <6>2 DEF x, y
        <5> QED
          BY <4>3, <5>1, <5>2
      <4>10. Holding(R, all, m + e, n.buffer, n.lastId) /\ n.ok
        BY <4>2, <4>3, <4>5 DEF Holding
      <4> QED
        BY <4>4, <4>8, <4>9, <4>10 DEF Drained
    <3> QED
      BY <3>5, <3>6
  <2> QED
    BY <2>2, <2>3
<1> QED
  BY <1>2, <1>3

\* All that is complete is drained, or the stream has an event over the limit.
LEMMA DrainsAll ==
  ASSUME NEW all \in Seq(Bytes), NEW R, Trace(R, all), NEW given \in Seq(SseEvents),
         NEW m \in 0..Len(all), NEW buffer, NEW lastId \in Texts,
         Holding(R, all, m, buffer, lastId), R[m].out = given
  PROVE  LET d == Drain(buffer, lastId)
         IN  Drained(d, R, all, given, Len(all)) /\ (d.ok => EmptyLines(d.buffer) = {})
<1> DEFINE D == Drains(buffer, lastId)
           N == Len(all) - m
           S == {k \in 0..N : Drained(D[k], R, all, given, m + k)}
<1>1. buffer \in Seq(Bytes) /\ Len(buffer) = N /\ N \in Nat /\ m \in Nat
  BY RestIs DEF Holding
<1>2. /\ D[0] = DrainStart(buffer, lastId)
      /\ \A k \in 1..N : D[k] = DrainOne(D[k - 1])
      /\ Drain(buffer, lastId) = D[N]
  BY <1>1, DrainsAre
<1> HIDE DEF D
<1>3. 0 \in S
  <2>1. /\ D[0] \in DrainStates /\ D[0].buffer = buffer /\ D[0].lastId = lastId
        /\ D[0].out = <<>> /\ D[0].ok
    BY <1>1, <1>2 DEF DrainStart, DrainStates
  <2>2. given \o <<>> = given
    OBVIOUS
  <2>3. m >= m + 0 /\ 0 \in 0..N
    BY <1>1
  <2>4. Drained(D[0], R, all, given, m + 0)
    BY <2>1, <2>2, <2>3 DEF Drained
  <2> QED
    BY <2>3, <2>4
<1>4. ASSUME NEW k \in 1..N, k - 1 \in S PROVE k \in S
  <2>1. Drained(D[k - 1], R, all, given, m + (k - 1)) /\ m + (k - 1) \in Nat
        /\ (m + (k - 1)) + 1 = m + k
    BY <1>1, <1>4
  <2>2. Drained(DrainOne(D[k - 1]), R, all, given, (m + (k - 1)) + 1)
    BY <2>1, DrainsOne
  <2>3. D[k] = DrainOne(D[k - 1])
    BY <1>2
  <2>4. k \in 0..N
    OBVIOUS
  <2> QED
    BY <2>1, <2>2, <2>3, <2>4
<1>5. N \in S
  <2>1. \A k \in 1..N : k - 1 \in S => k \in S
    BY ONLY <1>4
  <2>2. N \in 0..N
    BY <1>1
  <2> HIDE DEF S, N
  <2> QED
    BY <1>1, <1>3, <2>1, <2>2, Induction
<1>6. Drained(D[N], R, all, given, Len(all))
  <2>1. m + N = Len(all)
    BY <1>1
  <2> QED
    BY <1>5, <2>1
<1>7. D[N].ok => EmptyLines(D[N].buffer) = {}
  <2> SUFFICES ASSUME D[N].ok, EmptyLines(D[N].buffer) # {} PROVE FALSE
    OBVIOUS
  <2>1. PICK k \in 0..Len(all) : D[N].buffer = Rest(all, k) /\ k >= Len(all)
    BY <1>6 DEF Drained, Holding
  <2>2. Len(D[N].buffer) = 0
    BY <2>1, RestIs
  <2> QED
    BY <2>2 DEF EmptyLines, LineStarts
<1> QED
  BY <1>2, <1>6, <1>7

\* What is left when there is no empty line in it.
LEMMA RestRead ==
  ASSUME NEW all \in Seq(Bytes), NEW R, Trace(R, all), NEW m \in 0..Len(all),
         NEW b, NEW lastId, Holding(R, all, m, b, lastId), EmptyLines(b) = {}
  PROVE  Along(b, Scans(b, lastId)[Len(b)], R[Len(all)], R[m], Len(b))
<1>1. b \in Seq(Bytes) /\ Len(b) = Len(all) - m /\ At(b, all, m) /\ Boundary(R[m])
      /\ R[m].lastId = lastId
  BY RestIs DEF Holding
<1>2. \A i \in 0..Len(b) : Along(b, Scans(b, R[m].lastId)[i], R[m + i], R[m], i)
  BY <1>1, AlongAll
<1>3. Len(b) \in 0..Len(b) /\ m + Len(b) = Len(all)
  BY <1>1
<1>4. Along(b, Scans(b, R[m].lastId)[Len(b)], R[m + Len(b)], R[m], Len(b))
  BY <1>2, <1>3
<1> QED
  BY <1>1, <1>3, <1>4

LEMMA RestOver ==
  ASSUME NEW all \in Seq(Bytes), NEW R, Trace(R, all), NEW m \in 0..Len(all),
         NEW b, NEW lastId, Holding(R, all, m, b, lastId), EmptyLines(b) = {}
  PROVE  /\ R[Len(all)].over <=> Len(b) > EventLimit
         /\ R[Len(all)].out = R[m].out
BY RestRead DEF Along, SameEvents

\* The cut-off line takes its event with it; a whole one ends it.
LEMMA RestEnds ==
  ASSUME NEW all \in Seq(Bytes), NEW R, Trace(R, all), NEW m \in 0..Len(all),
         NEW b, NEW lastId, Holding(R, all, m, b, lastId), EmptyLines(b) = {},
         Len(b) <= EventLimit
  PROVE  LET r == R[Len(all)]
             whole == b # <<>> /\ Last(b) \in Breaks
         IN  (IF r.line = <<>> THEN Dispatch(r).out ELSE r.out)
             = (IF whole THEN R[m].out \o Given(SseEvent(b, lastId)) ELSE R[m].out)
<1> DEFINE r == R[Len(all)]
           p == Scans(b, lastId)[Len(b)]
           whole == b # <<>> /\ Last(b) \in Breaks
<1>1. b \in Seq(Bytes) /\ Len(b) = Len(all) - m /\ Boundary(R[m])
  BY RestIs DEF Holding
<1>2. Along(b, p, r, R[m], Len(b))
  BY RestRead
<1>3. SseEvent(b, lastId) = p.event
  <2>1. Len(b) \in Nat
    BY <1>1
  <2> HIDE DEF r
  <2> QED
    BY <2>1, ScansAre
<1> HIDE DEF p
<1>4. p \in ScanStates /\ r \in ReaderStates /\ r.out = R[m].out
  BY <1>2 DEF Along, SameEvents
<1>5. Dispatch(r).out = r.out \o Given(EventOf(r))
  BY <1>4, DispatchIs
<1>6. CASE whole
  <2>1. Ends(b, Len(b))
    <3>1. Last(b) = b[Len(b)] /\ ~(Len(b) < Len(b))
      BY <1>1 DEF Last
    <3> QED
      BY <1>6, <3>1 DEF Ends, Breaks
  <2>2. AtLineEnd(b, p, r, Len(b))
    BY <1>2, <2>1 DEF Along
  <2> QED
    BY <1>3, <1>4, <1>5, <1>6, <2>2 DEF AtLineEnd
<1>7. CASE ~whole /\ b # <<>>
  <2>1. Len(b) > 0 /\ b[Len(b)] \notin Breaks
    BY <1>1, <1>7 DEF Last
  <2>2. InLine(b, p, r, Len(b))
    BY <1>2, <2>1 DEF Along
  <2>3. r.line # <<>>
    <3> DEFINE l == SubSeq(b, p.start + 1, Len(b))
    <3>1. p.start \in Nat /\ p.start < Len(b) /\ r.line = l
      BY <1>4, <2>2 DEF InLine, ScanStates
    <3>2. l \in Seq(Bytes) /\ Len(l) = (IF p.start + 1 <= Len(b) THEN Len(b) - (p.start + 1) + 1 ELSE 0)
      BY <1>1, <3>1, PieceType
    <3>3. Len(l) # 0
      <4> HIDE DEF l
      <4> QED
        BY <1>1, <3>1, <3>2
    <3> HIDE DEF l
    <3> QED
      BY <3>1, <3>2, <3>3
  <2> QED
    BY <1>4, <1>7, <2>3
<1>8. CASE b = <<>>
  <2>1. m = Len(all)
    BY <1>1, <1>8
  <2>2. r = R[m] /\ r.data = <<>>
    BY <1>1, <2>1 DEF Boundary
  <2>3. EventOf(r) \in SseEvents /\ EventOf(r).data = <<>> /\ r.out \in Seq(SseEvents)
    BY <1>4, <2>2 DEF EventOf, SseEvents, ReaderStates
  <2>4. r.out \o Given(EventOf(r)) = r.out
    BY <2>3, GivenType
  <2> HIDE DEF r
  <2> QED
    BY <1>4, <1>5, <1>8, <2>4 DEF r
<1> QED
  BY <1>6, <1>7, <1>8

-----------------------------------------------------------------------------
(* The decoder.                                                            *)

ReadAll(all) == Readers(Reader, all)

LEMMA FedRead ==
  ASSUME NEW all \in Seq(Bytes)
  PROVE  /\ Trace(ReadAll(all), all)
         /\ ReadAll(all)[0] = Reader /\ Reading(all) = ReadAll(all)[Len(all)]
<1>1. Reader \in ReaderStates
  BY DEF Reader, ReaderStates, Texts
<1>2. /\ ReadAll(all)[0] = Reader
      /\ \A n \in 1 .. Len(all) : ReadAll(all)[n] = ReadOn(ReadAll(all)[n - 1], all[n])
  BY ReadersAre DEF ReadAll
<1>3. Reading(all) = ReadAll(all)[Len(all)]
  BY DEF Reading, ReadAll, Readers
<1> QED
  BY <1>1, <1>2, <1>3 DEF Trace

\* More bytes do not change what the earlier ones made of the reader.
LEMMA FedMore ==
  ASSUME NEW fd \in Seq(Bytes), NEW x \in Seq(Bytes)
  PROVE  \A n \in 0..Len(fd) : ReadAll(fd \o x)[n] = ReadAll(fd)[n]
<1> DEFINE all == fd \o x
           S == {n \in 0..Len(fd) : ReadAll(all)[n] = ReadAll(fd)[n]}
<1>1. /\ all \in Seq(Bytes) /\ Len(all) = Len(fd) + Len(x)
      /\ \A i \in 1..Len(fd) : all[i] = fd[i]
  BY ConcatProperties
<1> HIDE DEF all
<1>2. 0 \in S /\ Len(fd) \in Nat
  BY <1>1, FedRead
<1>3. ASSUME NEW n \in 1..Len(fd), n - 1 \in S PROVE n \in S
  <2>1. n \in 1..Len(all) /\ all[n] = fd[n] /\ Len(x) \in Nat
    BY <1>1
  <2>2. ReadAll(all)[n] = ReadOn(ReadAll(all)[n - 1], all[n])
    BY <1>1, <2>1, FedRead DEF Trace
  <2>3. ReadAll(fd)[n] = ReadOn(ReadAll(fd)[n - 1], fd[n])
    BY FedRead DEF Trace
  <2>4. ReadAll(all)[n - 1] = ReadAll(fd)[n - 1]
    BY <1>3
  <2> QED
    BY <2>1, <2>2, <2>3, <2>4
<1>4. \A n \in 1..Len(fd) : n - 1 \in S => n \in S
  BY ONLY <1>3
<1>5. \A n \in 0..Len(fd) : n \in S
  <2> HIDE DEF S
  <2> QED
    BY <1>2, <1>4, Induction
<1> QED
  BY <1>5 DEF all

LEMMA RestMore ==
  ASSUME NEW fd \in Seq(Bytes), NEW x \in Seq(Bytes), NEW m \in 0..Len(fd)
  PROVE  Rest(fd, m) \o x = Rest(fd \o x, m)
<1> DEFINE all == fd \o x
           b == Rest(fd, m)
           u == Rest(all, m)
           v == b \o x
<1>1. /\ all \in Seq(Bytes) /\ Len(all) = Len(fd) + Len(x) /\ Len(x) \in Nat /\ Len(fd) \in Nat
      /\ \A i \in 1..(Len(fd) + Len(x)) : all[i] = IF i <= Len(fd) THEN fd[i] ELSE x[i - Len(fd)]
  BY ConcatProperties
<1>2. /\ b \in Seq(Bytes) /\ Len(b) = Len(fd) - m
      /\ \A j \in 1..(Len(fd) - m) : b[j] = fd[m + j]
  BY RestIs
<1> HIDE DEF all, b
<1>3. /\ u \in Seq(Bytes) /\ Len(u) = Len(all) - m
      /\ \A j \in 1..(Len(all) - m) : u[j] = all[m + j]
  <2>1. m \in 0..Len(all)
    BY <1>1
  <2> QED
    BY <1>1, <2>1, RestIs
<1>4. /\ v \in Seq(Bytes) /\ Len(v) = Len(b) + Len(x)
      /\ \A i \in 1..(Len(b) + Len(x)) : v[i] = IF i <= Len(b) THEN b[i] ELSE x[i - Len(b)]
  BY <1>2, ConcatProperties
<1> HIDE DEF u, v
<1>5. Len(u) = Len(v) /\ m \in Nat /\ m <= Len(fd)
  BY <1>1, <1>2, <1>3, <1>4
<1>6. ASSUME NEW j \in 1..Len(v) PROVE v[j] = u[j]
  <2>1. j \in 1..(Len(b) + Len(x)) /\ j \in 1..(Len(all) - m) /\ m + j \in 1..(Len(fd) + Len(x))
    BY <1>1, <1>2, <1>3, <1>4, <1>5
  <2>2. u[j] = all[m + j] /\ all[m + j] = IF m + j <= Len(fd) THEN fd[m + j] ELSE x[(m + j) - Len(fd)]
    BY <1>1, <1>3, <2>1
  <2>3. v[j] = IF j <= Len(b) THEN b[j] ELSE x[j - Len(b)]
    BY <1>4, <2>1
  <2>4. CASE j <= Len(b)
    <3>1. j \in 1..(Len(fd) - m) /\ m + j <= Len(fd)
      BY <1>1, <1>2, <1>5, <2>4
    <3> QED
      BY <1>2, <2>2, <2>3, <2>4, <3>1
  <2>5. CASE ~(j <= Len(b))
    <3>1. ~(m + j <= Len(fd)) /\ (m + j) - Len(fd) = j - Len(b)
      BY <1>1, <1>2, <1>5, <2>1, <2>5
    <3> QED
      BY <2>2, <2>3, <2>5, <3>1
  <2> QED
    BY <2>4, <2>5
<1>7. v = u
  BY <1>3, <1>4, <1>5, <1>6, SeqEqual
<1> QED
  BY <1>7 DEF u, v, all, b

DecoderTypes ==
    /\ decoder \in [buffer : Seq(Bytes), lastId : Texts, pc : {"open", "done", "failed"}]
    /\ wire \in Seq(Bytes) /\ fed \in Seq(Bytes) /\ events \in Seq(SseEvents)
\* An open decoder has given all events of the bytes up to the m-th, and holds the rest:
\* no complete event, and no more than an event may have.
Waits(m) ==
    /\ Holding(ReadAll(fed), fed, m, decoder.buffer, decoder.lastId)
    /\ EmptyLines(decoder.buffer) = {} /\ Len(decoder.buffer) <= EventLimit
    /\ ReadAll(fed)[m].out = events
DecoderInv ==
    /\ DecoderTypes
    /\ decoder.pc = "open" => \E m \in 0..Len(fed) : Waits(m)
    /\ decoder.pc # "open" => PiecesDontMatter

LEMMA InvMeans == DecoderInv => PiecesDontMatter
<1> SUFFICES ASSUME DecoderInv, decoder.pc = "open" PROVE PiecesDontMatter
  BY DEF DecoderInv
<1>1. fed \in Seq(Bytes)
  BY DEF DecoderInv, DecoderTypes
<1>2. PICK m \in 0..Len(fed) : Waits(m)
  BY DEF DecoderInv
<1> DEFINE r == ReadAll(fed)[Len(fed)]
<1>3. (r.over <=> Len(decoder.buffer) > EventLimit) /\ r.out = ReadAll(fed)[m].out
  BY <1>1, <1>2, FedRead, RestOver DEF Waits
<1>4. ~r.over /\ events = r.out
  <2>1. Len(decoder.buffer) \in Nat /\ EventLimit \in Nat
    BY DecoderAssumption DEF DecoderInv, DecoderTypes
  <2> QED
    BY <1>2, <1>3, <2>1 DEF Waits
<1>5. Reading(fed) = r
  BY <1>1, FedRead
<1> QED
  BY <1>4, <1>5 DEF PiecesDontMatter

LEMMA DecoderHoldsAtStart == DecoderInit => DecoderInv
<1> SUFFICES ASSUME DecoderInit PROVE DecoderInv
  OBVIOUS
<1>1. DecoderTypes /\ fed = <<>> /\ fed \in Seq(Bytes) /\ Len(fed) = 0
  BY DEF DecoderInit, DecoderTypes, Texts
<1>2. ReadAll(fed)[0] = Reader
  BY <1>1, FedRead
<1>3. Rest(fed, 0) = <<>>
  <2>1. Rest(fed, 0) = SubSeq(fed, 1, 0)
    BY <1>1 DEF Rest
  <2> QED
    BY <2>1, SubSeqEmpty
<1>4. EmptyLines(<<>>) = {}
  BY DEF EmptyLines, LineStarts
<1>5. Boundary(Reader) /\ Reader.lastId = <<>> /\ Reader.out = <<>>
  BY DEF Boundary, Reader
<1>6. Waits(0)
  <2>1. Len(decoder.buffer) <= EventLimit
    BY DecoderAssumption DEF DecoderInit
  <2> QED
    BY <1>2, <1>3, <1>4, <1>5, <2>1 DEF Waits, Holding, DecoderInit
<1>7. 0 \in 0..Len(fed)
  BY <1>1
<1> QED
  BY <1>1, <1>6, <1>7 DEF DecoderInv, DecoderInit

LEMMA ArriveKeeps ==
  ASSUME DecoderInv, NEW b \in Bytes, Arrive(b)
  PROVE  DecoderInv'
<1>1. wire' \in Seq(Bytes)
  BY DEF Arrive, DecoderInv, DecoderTypes
<1>2. UNCHANGED <<decoder, fed, events>> /\ decoder.pc = "open"
  BY DEF Arrive
<1>3. PICK m \in 0..Len(fed) : Waits(m)
  BY <1>2 DEF DecoderInv
<1>4. Waits(m)' /\ m \in 0..Len(fed')
  BY <1>2, <1>3 DEF Waits
<1> QED
  BY <1>1, <1>2, <1>4 DEF DecoderInv, DecoderTypes

LEMMA PushKeeps ==
  ASSUME DecoderInv, NEW n \in 1..Len(wire), Push(n)
  PROVE  DecoderInv'
<1> DEFINE x == SubSeq(wire, 1, n)
           all == fed \o x
           R == ReadAll(all)
           d == Drain(decoder.buffer \o x, decoder.lastId)
           ok == d.ok /\ Len(d.buffer) <= EventLimit
<1>1. /\ fed \in Seq(Bytes) /\ wire \in Seq(Bytes) /\ events \in Seq(SseEvents)
      /\ decoder.lastId \in Texts
  BY DEF DecoderInv, DecoderTypes
<1>2. /\ decoder.pc = "open" /\ fed' = all /\ wire' = SubSeq(wire, n + 1, Len(wire))
      /\ decoder' = [buffer |-> d.buffer, lastId |-> d.lastId,
                     pc |-> IF ok THEN "open" ELSE "failed"]
      /\ events' = IF ok THEN events \o d.out ELSE events
  BY DEF Push
<1>3. x \in Seq(Bytes) /\ wire' \in Seq(Bytes)
  <2>1. n \in Int /\ n <= Len(wire) /\ Len(wire) \in Nat /\ n + 1 \in Nat /\ n + 1 >= 1
    BY <1>1
  <2>2. x \in Seq(Bytes)
    BY <1>1, <2>1, PieceType
  <2>3. SubSeq(wire, n + 1, Len(wire)) \in Seq(Bytes)
    BY <1>1, <2>1, PieceType
  <2> QED
    BY <1>2, <2>2, <2>3
<1> HIDE DEF x
<1>4. all \in Seq(Bytes) /\ Len(all) >= Len(fed) /\ Len(all) \in Nat /\ Len(fed) \in Nat
  BY <1>1, <1>3, ConcatProperties
<1>5. PICK m \in 0..Len(fed) : Waits(m)
  BY <1>2 DEF DecoderInv
<1>6. R[m] = ReadAll(fed)[m] /\ m \in 0..Len(all)
  BY <1>1, <1>3, <1>4, FedMore
<1>7. decoder.buffer \o x = Rest(all, m)
  <2>1. decoder.buffer = Rest(fed, m)
    BY <1>5 DEF Waits, Holding
  <2>2. Rest(fed, m) \o x = Rest(fed \o x, m)
    BY <1>1, <1>3, RestMore
  <2> QED
    BY <2>1, <2>2
<1> DEFINE buffer == decoder.buffer \o x
<1> HIDE DEF all, R, buffer
<1>8. Trace(R, all)
  BY <1>4, FedRead DEF R
<1>9. Holding(R, all, m, buffer, decoder.lastId) /\ R[m].out = events
  BY <1>5, <1>6, <1>7 DEF Waits, Holding, buffer
<1>10. d = Drain(buffer, decoder.lastId)
  BY DEF buffer
<1> HIDE DEF d
<1>11. Drained(d, R, all, events, Len(all)) /\ (d.ok => EmptyLines(d.buffer) = {})
  BY <1>1, <1>4, <1>6, <1>8, <1>9, <1>10, DrainsAll
<1>12. d \in DrainStates
  BY <1>11 DEF Drained
<1>13. DecoderTypes'
  <2>1. events' \in Seq(SseEvents)
    BY <1>1, <1>2, <1>12 DEF DrainStates
  <2>2. decoder' \in [buffer : Seq(Bytes), lastId : Texts, pc : {"open", "done", "failed"}]
    BY <1>2, <1>12 DEF DrainStates
  <2> QED
    BY <1>2, <1>3, <1>4, <2>1, <2>2 DEF DecoderTypes
<1>14. CASE ok
  <2>1. PICK k \in 0..Len(all) :
            Holding(R, all, k, d.buffer, d.lastId) /\ R[k].out = events \o d.out
    BY <1>11, <1>14 DEF Drained
  <2>2. /\ decoder'.buffer = d.buffer /\ decoder'.lastId = d.lastId /\ decoder'.pc = "open"
        /\ events' = events \o d.out /\ EmptyLines(d.buffer) = {} /\ Len(d.buffer) <= EventLimit
    BY <1>2, <1>11, <1>14
  <2>3. ReadAll(fed') = R /\ fed' = all
    BY <1>2 DEF R
  <2>4. Waits(k)'
    BY <2>1, <2>2, <2>3 DEF Waits
  <2>5. k \in 0..Len(fed')
    BY <2>3
  <2> QED
    BY <1>13, <2>2, <2>4, <2>5 DEF DecoderInv
<1>15. CASE ~ok
  <2>1. decoder'.pc = "failed" /\ events' = events
    BY <1>2, <1>15
  <2>2. R[Len(all)].over /\ IsPrefix(events, R[Len(all)].out)
    <3>1. CASE ~d.ok
      BY <1>11, <3>1 DEF Drained
    <3>2. CASE d.ok
      <4>1. PICK k \in 0..Len(all) :
                Holding(R, all, k, d.buffer, d.lastId) /\ R[k].out = events \o d.out
        BY <1>11, <3>2 DEF Drained
      <4>2. Len(d.buffer) > EventLimit
        <5>1. Len(d.buffer) \in Nat /\ EventLimit \in Nat
          BY <1>12, DecoderAssumption DEF DrainStates
        <5> QED
          BY <1>15, <3>2, <5>1
      <4>3. R[Len(all)].over /\ R[Len(all)].out = R[k].out
        BY <1>4, <1>8, <1>11, <3>2, <4>1, <4>2, RestOver
      <4>4. d.out \in Seq(SseEvents)
        BY <1>12 DEF DrainStates
      <4>5. IsPrefix(events, events \o d.out)
        BY <1>1, <4>4, Prefixed
      <4> QED
        BY <4>1, <4>3, <4>5
    <3> QED
      BY <3>1, <3>2
  <2>3. Reading(fed') = R[Len(all)]
    BY <1>2, <1>4, FedRead DEF R
  <2>4. PiecesDontMatter'
    BY <2>1, <2>2, <2>3 DEF PiecesDontMatter
  <2> QED
    BY <1>13, <2>1, <2>4 DEF DecoderInv
<1> QED
  BY <1>14, <1>15

LEMMA FinishKeeps ==
  ASSUME DecoderInv, FinishStream
  PROVE  DecoderInv'
<1> DEFINE rest == decoder.buffer
           event == SseEvent(rest, decoder.lastId)
           whole == rest # <<>> /\ Last(rest) \in Breaks
           r == ReadAll(fed)[Len(fed)]
<1>1. /\ fed \in Seq(Bytes) /\ wire \in Seq(Bytes) /\ events \in Seq(SseEvents)
      /\ decoder.lastId \in Texts /\ rest \in Seq(Bytes)
  BY DEF DecoderInv, DecoderTypes
<1>2. decoder.pc = "open" /\ fed' = fed /\ wire' = wire
  BY DEF FinishStream
<1>3. PICK m \in 0..Len(fed) : Waits(m)
  BY <1>2 DEF DecoderInv
<1>4. Len(rest) <= EventLimit /\ EmptyLines(rest) = {}
      /\ Holding(ReadAll(fed), fed, m, rest, decoder.lastId)
  BY <1>3 DEF Waits
<1>5. /\ decoder' = [buffer |-> <<>>, lastId |-> IF whole THEN event.id ELSE decoder.lastId,
                     pc |-> "done"]
      /\ events' = IF whole THEN events \o Given(event) ELSE events
  BY <1>4 DEF FinishStream
<1>6. Trace(ReadAll(fed), fed) /\ Reading(fed) = r
  BY <1>1, FedRead
<1>7. event \in SseEvents
  <2>1. Along(rest, Scans(rest, decoder.lastId)[Len(rest)], r, ReadAll(fed)[m], Len(rest))
    BY <1>1, <1>4, <1>6, RestRead
  <2>2. event = Scans(rest, decoder.lastId)[Len(rest)].event
    <3>1. Len(rest) \in Nat
      BY <1>1
    <3> QED
      BY <3>1, ScansAre
  <2> QED
    BY <2>1, <2>2 DEF Along, ScanStates
<1>8. (IF r.line = <<>> THEN Dispatch(r).out ELSE r.out) =
      (IF whole THEN ReadAll(fed)[m].out \o Given(event) ELSE ReadAll(fed)[m].out)
  BY <1>1, <1>4, <1>6, RestEnds
<1>9. ~r.over
  <2>1. Len(rest) \in Nat /\ EventLimit \in Nat
    BY <1>1, DecoderAssumption
  <2>2. r.over <=> Len(rest) > EventLimit
    BY <1>1, <1>4, <1>6, RestOver
  <2> QED
    BY <1>4, <2>1, <2>2
<1> HIDE DEF rest, event, whole, r
<1>10. events' = IF r.line = <<>> THEN Dispatch(r).out ELSE r.out
  <2>1. ReadAll(fed)[m].out = events
    BY <1>3 DEF Waits
  <2> QED
    BY <1>5, <1>8, <2>1
<1>11. PiecesDontMatter'
  <2>1. decoder'.pc = "done" /\ Reading(fed') = r
    BY <1>2, <1>5, <1>6
  <2> QED
    BY <1>9, <1>10, <2>1 DEF PiecesDontMatter
<1>12. DecoderTypes'
  <2>1. events' \in Seq(SseEvents)
    <3>1. events \o Given(event) \in Seq(SseEvents)
      BY <1>1, <1>7, GivenType
    <3> QED
      BY <1>1, <1>5, <3>1
  <2>2. event.id \in Texts /\ <<>> \in Seq(Bytes)
    BY <1>7 DEF SseEvents
  <2>3. decoder' \in [buffer : Seq(Bytes), lastId : Texts, pc : {"open", "done", "failed"}]
    BY <1>1, <1>5, <2>2
  <2> QED
    BY <1>1, <1>2, <2>1, <2>3 DEF DecoderTypes
<1>13. decoder'.pc = "done"
  BY <1>5
<1> QED
  BY <1>11, <1>12, <1>13 DEF DecoderInv

LEMMA DecoderHoldsOn == DecoderInv /\ [DecoderNext]_decoderVars => DecoderInv'
<1> SUFFICES ASSUME DecoderInv, [DecoderNext]_decoderVars PROVE DecoderInv'
  OBVIOUS
<1>1. ASSUME NEW b \in {CR, LF, Data, Id} \cup Other, Arrive(b) PROVE DecoderInv'
  BY <1>1, ArriveKeeps DEF Bytes
<1>2. ASSUME NEW n \in 1..Len(wire), Push(n) PROVE DecoderInv'
  BY <1>2, PushKeeps
<1>3. CASE FinishStream
  BY <1>3, FinishKeeps
<1>4. CASE UNCHANGED decoderVars
  BY <1>4 DEF decoderVars, DecoderInv, DecoderTypes, Waits, PiecesDontMatter
<1> QED
  BY <1>1, <1>2, <1>3, <1>4 DEF DecoderNext

\* However the response is broken into pieces, inside a CRLF, a line or an event, the
\* adapters get the events of the stream and the decoder gives up exactly on a stream with
\* an event over the limit (provider/sse.rs, push and finish).
THEOREM PiecesAreWhole == DecoderSpec => []PiecesDontMatter
<1>1. DecoderInv => PiecesDontMatter
  BY InvMeans
<1> QED
  BY DecoderHoldsAtStart, DecoderHoldsOn, <1>1, PTL DEF DecoderSpec
=============================================================================
