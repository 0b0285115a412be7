---------------------------- MODULE Terminal_proofs ----------------------------
(***************************************************************************)
(* Proofs about Terminal: what the client receives of a terminal is in     *)
(* order, and its exit comes after its output.                             *)
(***************************************************************************)
EXTENDS Terminal, TLAPS, WellFoundedInduction

-----------------------------------------------------------------------------
(* The types of the variables.                                             *)

Events == [kind : {"output", "truncated", "exited", "closed"}, of : Terminals,
           seq : Nat \ {0}, bytes : Nat, late : BOOLEAN]

TerminalRecord ==
    [where : {"none", "open", "gone"}, active : BOOLEAN,
     life : {"running", "exited", "closed"}, closing : BOOLEAN,
     attachment : Nat, seq : Nat, latest : Nat, retained : Seq(Events), undecoded : Nat,
     made : Nat, pty : Nat, child : {"none", "alive", "dead"}, asked : BOOLEAN,
     queue : Nat, reader : {"none", "run", "done", "aborted"},
     waiter : {"none", "wait", "drain", "exit", "done"}, status : BOOLEAN,
     cleaner : {"none", "start", "wait", "retire", "announce", "remove", "done"},
     barrier : BOOLEAN, failed : BOOLEAN, exitDone : BOOLEAN, written : Nat]

LoopRecord ==
    [pc : {"idle", "await", "respond", "gate", "replay"}, of : Terminals \cup {"none"},
     frames : Seq(Events), cursor : Nat, then : {"none", "activate", "terminate", "replay"}]

TermTyped == term \in [Terminals -> TerminalRecord]
LoopTyped ==
    /\ loop \in LoopRecord
    /\ loop.pc # "idle" => loop.of \in Terminals
    /\ loop.pc \in {"gate", "replay"} => loop.then = "replay"
    /\ loop.pc = "respond" => loop.then # "none"
WireRecord == [cursor : Nat, events : Seq(Events), got : SUBSET Nat]
WireTyped == wire \in [Terminals -> WireRecord]
ChannelTyped == channel \in Seq(Events) /\ inHand \in Events \cup {Nothing}

TerminalTypes == TermTyped /\ LoopTyped /\ WireTyped /\ ChannelTyped

-----------------------------------------------------------------------------
(* What the exit rests on.                                                 *)

\* A reader that ended without a failure has taken all the output of a dead child.
ReadAll(d) == d.pty = 0 /\ d.undecoded = 0 /\ d.child = "dead" /\ d.reader = "done"
ExitSound(d) ==
    /\ d.reader = "done" /\ ~d.failed => ReadAll(d)
    /\ d.waiter \in {"exit", "done"} /\ ~d.failed => ReadAll(d)
    /\ d.exitDone => ReadAll(d)
    /\ ~d.active => d.reader = "none" /\ d.waiter = "none" /\ ~d.exitDone

Activating ==
    loop.pc = "respond" /\ loop.then = "activate" => ~term[loop.of].active

-----------------------------------------------------------------------------
(* What the order rests on. What is on its way to the client of a terminal *)
(* is in four places: seen, in hand, in the channel, and, in a replay      *)
(* whose response is out, still with the loop.                             *)

Replays(t) == loop.of = t /\ loop.pc \in {"respond", "gate", "replay"} /\ loop.then = "replay"
Pending(t) == IF loop.of = t /\ loop.pc \in {"gate", "replay"} THEN loop.frames ELSE <<>>

\* An event of the terminal that no later attach has overtaken.
Mine(e, t) == e.of = t /\ ~e.late

\* e is somewhere on its way.
OnItsWay(t, e) ==
    \/ \E i \in DOMAIN wire[t].events : wire[t].events[i] = e
    \/ inHand = e
    \/ \E i \in DOMAIN channel : channel[i] = e
    \/ \E i \in DOMAIN Pending(t) : Pending(t)[i] = e

\* Everything that is on its way is numbered up to n.
UpTo(t, n) ==
    /\ \A i \in DOMAIN wire[t].events : wire[t].events[i].seq <= n
    /\ Mine(inHand, t) => inHand.seq <= n
    /\ \A i \in DOMAIN channel : Mine(channel[i], t) => channel[i].seq <= n
    /\ \A i \in DOMAIN Pending(t) : Pending(t)[i].seq <= n

Ascends(events) == \A i, j \in DOMAIN events : i < j => events[i].seq < events[j].seq

\* Within each place and from each to those behind it, numbers increase.
InOrder(t) ==
    /\ Ascends(wire[t].events)
    /\ \A i, j \in DOMAIN channel :
          i < j /\ Mine(channel[i], t) /\ Mine(channel[j], t) => channel[i].seq < channel[j].seq
    /\ Ascends(Pending(t))
    /\ \A i \in DOMAIN wire[t].events :
          /\ Mine(inHand, t) => wire[t].events[i].seq < inHand.seq
          /\ \A j \in DOMAIN channel :
                Mine(channel[j], t) => wire[t].events[i].seq < channel[j].seq
          /\ \A j \in DOMAIN Pending(t) : wire[t].events[i].seq < Pending(t)[j].seq
    /\ Mine(inHand, t) =>
          /\ \A j \in DOMAIN channel : Mine(channel[j], t) => inHand.seq < channel[j].seq
          /\ \A j \in DOMAIN Pending(t) : inHand.seq < Pending(t)[j].seq
    /\ \A i \in DOMAIN channel : Mine(channel[i], t) =>
          \A j \in DOMAIN Pending(t) : channel[i].seq < Pending(t)[j].seq

\* The retained output, and the part of it that the loop replays.
RetainedSound(t) ==
    /\ Ascends(term[t].retained)
    /\ \A i \in DOMAIN term[t].retained :
          /\ term[t].retained[i].seq <= term[t].seq
          /\ Mine(term[t].retained[i], t)
          /\ term[t].retained[i].kind = "output"
    /\ Replays(t) =>
          /\ term[t].barrier
          /\ Ascends(loop.frames)
          /\ \A i \in DOMAIN loop.frames :
                Mine(loop.frames[i], t) /\ loop.frames[i].seq <= term[t].seq
    /\ Replays(t) /\ loop.pc = "respond" =>
          \A e \in ToSet(term[t].retained) :
              e.seq > loop.cursor => \E j \in DOMAIN loop.frames : loop.frames[j] = e

\* A terminal that sends nothing any more.
Silent(t) == term[t].failed \/ term[t].where = "gone" \/ pump = "ended"

\* Retained output after the cursor of the client is on its way, or came after all of it.
Complete(t) ==
    \A i \in DOMAIN term[t].retained :
        LET e == term[t].retained[i]
        IN  e.seq > wire[t].cursor =>
              OnItsWay(t, e) \/ (Silent(t) /\ UpTo(t, e.seq - 1))

Unopened(t) == term[t].where = "none" => term[t] = Fresh

\* A terminal that is gone sends nothing.
GoneIsQuiet(d) ==
    /\ d.where = "gone" => d.cleaner = "done"
    /\ d.cleaner \in {"announce", "remove", "done"} =>
          d.reader # "run" /\ d.waiter \in {"none", "done"} /\ d.life = "closed"
    /\ d.life = "closed" => d.cleaner \in {"announce", "remove", "done"}
    /\ d.cleaner = "retire" => ~d.active
    /\ ~d.active => d.reader = "none" /\ d.waiter = "none"
    /\ d.cleaner # "none" => d.where # "none" /\ d.closing

ActivatesOpen ==
    loop.pc = "respond" /\ loop.then = "activate" =>
        term[loop.of].where = "open" /\ term[loop.of].cleaner = "none"

LoopServes ==
    /\ conn # "serving" => loop.pc = "idle"
    /\ loop.pc # "idle" => term[loop.of].where # "none"

OrderOf(t) ==
    /\ UpTo(t, term[t].seq) /\ InOrder(t) /\ RetainedSound(t) /\ Complete(t)

-----------------------------------------------------------------------------
(* Induction over the naturals, and the operators on sequences.            *)

\* A set of naturals has a least element.
LEMMA Least ==
  ASSUME NEW T, T \subseteq Nat, T # {}
  PROVE  \E n \in T : \A m \in T : n <= m
<1> DEFINE R == OpToRel(<, Nat)
<1>1. PICK n \in T : \A m \in T : ~(<<m, n>> \in R)
  BY WFMin, NatLessThanWellFounded
<1>2. ASSUME NEW m \in T PROVE n <= m
  <2>1. <<m, n>> \notin R
    BY <1>1
  <2>2. m < n => <<m, n>> \in R
    BY DEF OpToRel
  <2> HIDE DEF R
  <2> QED
    BY <2>1, <2>2
<1> QED
  BY <1>2

\* Induction up to a bound, stated of the set of the numbers that have the property.
LEMMA Induction ==
  ASSUME NEW N \in Nat, NEW S, 0 \in S, \A n \in 1 .. N : n - 1 \in S => n \in S
  PROVE  \A n \in 0 .. N : n \in S
<1> DEFINE T == {n \in 0 .. N : n \notin S}
<1>1. ASSUME T # {} PROVE FALSE
  <2>1. T \subseteq Nat
    OBVIOUS
  <2>2. PICK n \in T : \A m \in T : n <= m
    <3> HIDE DEF T
    <3> QED
      BY <1>1, <2>1, Least
  <2>3. n \in 1 .. N /\ n - 1 \in 0 .. N /\ n - 1 \notin T
    BY <2>2
  <2> QED
    BY <2>2, <2>3
<1> QED
  BY <1>1

\* What After takes of the first n events.
Part(events, cursor) ==
    CHOOSE f : f = [i \in 0..Len(events) |->
        IF i = 0 THEN <<>>
        ELSE IF events[i].seq > cursor THEN Append(f[i - 1], events[i]) ELSE f[i - 1]]

LEMMA PartExists ==
  ASSUME NEW events, Len(events) \in Nat, NEW cursor
  PROVE  Part(events, cursor) = [i \in 0..Len(events) |->
             IF i = 0 THEN <<>>
             ELSE IF events[i].seq > cursor
                  THEN Append(Part(events, cursor)[i - 1], events[i])
                  ELSE Part(events, cursor)[i - 1]]
<1> DEFINE Up(f, i) == IF i = 0 THEN <<>>
                       ELSE IF events[i].seq > cursor THEN Append(f[i - 1], events[i]) ELSE f[i - 1]
           S == {n \in 0..Len(events) : \E f : f = [i \in 0..n |-> Up(f, i)]}
<1>1. 0 \in S
  <2> DEFINE z == [i \in 0..0 |-> <<>>]
  <2>1. \A i \in 0..0 : z[i] = Up(z, i)
    OBVIOUS
  <2>2. z = [i \in 0..0 |-> Up(z, i)]
    BY <2>1
  <2>3. 0 \in 0..Len(events)
    OBVIOUS
  <2> HIDE DEF z, Up
  <2> QED
    BY <2>2, <2>3
<1>2. ASSUME NEW n \in 1 .. Len(events), n - 1 \in S PROVE n \in S
  <2>1. PICK g : g = [i \in 0..(n - 1) |-> Up(g, i)]
    BY <1>2
  <2> DEFINE h == [i \in 0..n |-> IF i < n THEN g[i] ELSE Up(g, n)]
  <2>2. \A i \in 0..(n - 1) : h[i] = g[i]
    OBVIOUS
  <2>3. \A i \in 0..(n - 1) : g[i] = Up(g, i)
    BY <2>1
  <2>4. h[n] = Up(g, n)
    OBVIOUS
  <2>5. DOMAIN h = 0..n /\ h = [i \in 0..n |-> h[i]]
    OBVIOUS
  <2> HIDE DEF h
  <2>6. \A i \in 0..n : h[i] = Up(h, i)
    <3> TAKE i \in 0..n
    <3>1. i = 0 \/ h[i - 1] = g[i - 1]
      BY <2>2
    <3>2. Up(g, i) = Up(h, i)
      BY <3>1
    <3>3. i = n \/ i \in 0..(n - 1)
      OBVIOUS
    <3> HIDE DEF Up
    <3> QED
      BY <2>2, <2>3, <2>4, <3>2, <3>3
  <2>7. h = [i \in 0..n |-> Up(h, i)]
    <3> HIDE DEF Up
    <3> QED
      BY <2>5, <2>6
  <2>8. n \in 0..Len(events)
    OBVIOUS
  <2> QED
    BY <2>7, <2>8
<1>3. Len(events) \in S
  <2>1. Len(events) \in 0..Len(events)
    OBVIOUS
  <2>2. \A n \in 1 .. Len(events) : n - 1 \in S => n \in S
    BY ONLY <1>2
  <2> HIDE DEF S
  <2> QED
    BY <1>1, <2>1, <2>2, Induction
<1>4. \E f : f = [i \in 0..Len(events) |-> Up(f, i)]
  BY <1>3
<1> QED
  BY <1>4 DEF Part

LEMMA AfterSound ==
  ASSUME NEW events \in Seq(Events), NEW cursor \in Nat
  PROVE  /\ After(events, cursor) \in Seq(Events)
         /\ \A j \in DOMAIN After(events, cursor) :
                \E i \in DOMAIN events : After(events, cursor)[j] = events[i]
         /\ \A i \in DOMAIN events :
                events[i].seq > cursor =>
                    \E j \in DOMAIN After(events, cursor) : After(events, cursor)[j] = events[i]
         /\ Ascends(events) => Ascends(After(events, cursor))
<1> DEFINE f == Part(events, cursor)
           Good(n, p) ==
               /\ p \in Seq(Events)
               /\ \A j \in DOMAIN p : \E i \in 1..n : p[j] = events[i]
               /\ \A i \in 1..n : events[i].seq > cursor => \E j \in DOMAIN p : p[j] = events[i]
               /\ Ascends(events) => Ascends(p)
           S == {n \in 0..Len(events) : Good(n, f[n])}
<1>1. f = [i \in 0..Len(events) |->
             IF i = 0 THEN <<>>
             ELSE IF events[i].seq > cursor THEN Append(f[i - 1], events[i]) ELSE f[i - 1]]
  BY PartExists
<1>2. After(events, cursor) = f[Len(events)]
  BY DEF After, Part
<1> HIDE DEF f
<1>3. 0 \in S
  <2>1. f[0] = <<>> /\ 0 \in 0..Len(events)
    BY <1>1
  <2>2. Good(0, <<>>)
    BY DEF Ascends
  <2> HIDE DEF Good
  <2> QED
    BY <2>1, <2>2
<1>4. ASSUME NEW n \in 1 .. Len(events), n - 1 \in S PROVE n \in S
  <2>1. Good(n - 1, f[n - 1]) /\ n \in 0..Len(events)
    BY <1>4
  <2>2. f[n] = IF events[n].seq > cursor THEN Append(f[n - 1], events[n]) ELSE f[n - 1]
    <3>1. n \in 0..Len(events) /\ n # 0
      OBVIOUS
    <3> QED
      BY <1>1, <3>1
  <2> DEFINE p == f[n - 1]
  <2>3. Good(n - 1, p)
    BY <2>1
  <2>4. events[n] \in Events
    OBVIOUS
  <2> HIDE DEF p
  <2>5. CASE events[n].seq > cursor
    <3>1. f[n] = Append(p, events[n])
      BY <2>2, <2>5 DEF p
    <3>2. Append(p, events[n]) \in Seq(Events)
      BY <2>3, <2>4
    <3>3. \A j \in DOMAIN Append(p, events[n]) : \E i \in 1..n : Append(p, events[n])[j] = events[i]
      BY <2>3
    <3>4. ASSUME NEW i \in 1..n, events[i].seq > cursor
          PROVE  \E j \in DOMAIN Append(p, events[n]) : Append(p, events[n])[j] = events[i]
      <4>0. Len(p) + 1 \in DOMAIN Append(p, events[n]) /\ DOMAIN p \subseteq DOMAIN Append(p, events[n])
        BY <2>3
      <4>1. CASE i = n
        <5>1. Append(p, events[n])[Len(p) + 1] = events[n]
          BY <2>3, <2>4
        <5> QED
          BY <4>0, <4>1, <5>1
      <4>2. CASE i # n
        <5>1. PICK j \in DOMAIN p : p[j] = events[i]
          BY <4>2, <3>4, <2>3
        <5>2. Append(p, events[n])[j] = p[j]
          BY <2>3, <2>4
        <5> QED
          BY <5>1, <5>2, <4>0
      <4> QED
        BY <4>1, <4>2
    <3>5. ASSUME Ascends(events) PROVE Ascends(Append(p, events[n]))
      <4>1. ASSUME NEW j \in DOMAIN p PROVE p[j].seq < events[n].seq
        <5>1. PICK i \in 1..(n - 1) : p[j] = events[i]
          BY <2>3
        <5>2. i \in DOMAIN events /\ n \in DOMAIN events /\ i < n
          OBVIOUS
        <5> QED
          BY <5>1, <5>2, <3>5 DEF Ascends
      <4> QED
        BY <4>1, <2>3, <3>5 DEF Ascends
    <3>6. Good(n, Append(p, events[n]))
      BY <3>2, <3>3, <3>4, <3>5
    <3> HIDE DEF Good
    <3> QED
      BY <3>1, <3>6, <2>1
  <2>6. CASE ~(events[n].seq > cursor)
    <3>1. f[n] = p
      BY <2>2, <2>6 DEF p
    <3>2. Good(n, p)
      BY <2>3, <2>6
    <3> HIDE DEF Good
    <3> QED
      BY <3>1, <3>2, <2>1
  <2> QED
    BY <2>5, <2>6
<1>5. Len(events) \in S
  <2>1. Len(events) \in 0..Len(events) /\ Len(events) \in Nat
    OBVIOUS
  <2>2. \A n \in 1 .. Len(events) : n - 1 \in S => n \in S
    BY ONLY <1>4
  <2> HIDE DEF S
  <2> QED
    BY <1>3, <2>1, <2>2, Induction
<1>6. Good(Len(events), f[Len(events)])
  BY <1>5
<1> QED
  BY <1>2, <1>6

\* What is kept is a suffix: at least the empty one fits.
LEMMA NoBytes == Bytes(<<>>) = 0
<1> DEFINE op(e, n) == n + e.bytes
           f(i) == <<>>[i]
           pick(s) == CHOOSE x \in s : TRUE
           Step(g, s) == IF s = {} THEN 0 ELSE op(f(pick(s)), g[s \ {pick(s)}])
           iter == CHOOSE g : g = [s \in SUBSET {} |-> Step(g, s)]
<1>1. DOMAIN <<>> = {}
  OBVIOUS
<1>2. Bytes(<<>>) = MapThenFoldSet(op, 0, f, pick, DOMAIN <<>>)
  BY DEF Bytes, FoldSeq, FoldFunction, FoldFunctionOnSet
<1>3. MapThenFoldSet(op, 0, f, pick, {}) = iter[{}]
  BY DEF MapThenFoldSet
<1>4. iter = [s \in SUBSET {} |-> Step(iter, s)]
  <2> DEFINE z == [s \in SUBSET {} |-> 0]
  <2>1. \A s \in SUBSET {} : s = {}
    OBVIOUS
  <2>2. z = [s \in SUBSET {} |-> Step(z, s)]
    BY <2>1
  <2> HIDE DEF z, Step
  <2> QED
    BY <2>2
<1>5. iter[{}] = 0
  <2> HIDE DEF iter
  <2> QED
    BY <1>4
<1> QED
  BY <1>1, <1>2, <1>3, <1>5

LEMMA KeptSound ==
  ASSUME NEW retained \in Seq(Events)
  PROVE  \E k \in 1..(Len(retained) + 1) : Kept(retained) = SubSeq(retained, k, Len(retained))
<1> DEFINE n == Len(retained)
           fits == {i \in 1..(n + 1) : Bytes(SubSeq(retained, i, n)) <= Retention}
<1>1. n + 1 \in fits
  <2>1. SubSeq(retained, n + 1, n) = <<>>
    OBVIOUS
  <2>2. n + 1 \in 1..(n + 1) /\ 0 <= Retention
    BY TerminalAssumption
  <2> HIDE DEF n
  <2> QED
    BY <2>1, <2>2, NoBytes
<1>2. fits \subseteq Nat
  OBVIOUS
<1>3. \E i \in fits : \A j \in fits : i <= j
  <2> HIDE DEF fits
  <2> QED
    BY <1>1, <1>2, Least
<1>4. Kept(retained) = SubSeq(retained, CHOOSE i \in fits : \A j \in fits : i <= j, n)
  BY DEF Kept
<1>5. (CHOOSE i \in fits : \A j \in fits : i <= j) \in 1..(n + 1)
  <2>1. fits \subseteq 1..(n + 1)
    OBVIOUS
  <2> HIDE DEF fits
  <2> QED
    BY <1>3, <2>1
<1> QED
  BY <1>4, <1>5

\* What of the events is delivered: the first k.
LEMMA SentSound ==
  ASSUME NEW events \in Seq(Events), ChannelTyped
  PROVE  \E k \in 0..Len(events) :
            /\ Sent(events) = SubSeq(events, 1, k)
            /\ pump = "ended" => k = 0
            /\ Delivered(events) <=> k = Len(events)
<1>1. CASE pump = "ended" \/ conn = "ended"
  BY <1>1 DEF Sent, Delivered
<1>2. CASE ~(pump = "ended" \/ conn = "ended")
  <2> DEFINE a == Len(events)
             b == Capacity - Len(channel)
             m == Min({a, b})
  <2>1. a \in Nat /\ b \in Int
    BY TerminalAssumption DEF ChannelTyped
  <2>2. m \in {a, b} /\ m <= a
    <3>1. \E x \in {a, b} : \A y \in {a, b} : x <= y
      BY <2>1
    <3> HIDE DEF a, b
    <3> QED
      BY <3>1, <2>1 DEF Min
  <2>3. Sent(events) = SubSeq(events, 1, m)
    BY <1>2 DEF Sent
  <2>4. CASE m >= 0
    <3>1. m \in 0..a
      BY <2>1, <2>2, <2>4
    <3> HIDE DEF m
    <3>2. Len(SubSeq(events, 1, m)) = m
      BY <3>1
    <3> QED
      BY <1>2, <2>3, <3>1, <3>2 DEF Delivered
  <2>5. CASE m < 0
    <3> HIDE DEF m
    <3>1. SubSeq(events, 1, m) = <<>> /\ SubSeq(events, 1, 0) = <<>>
      BY <2>1, <2>2, <2>5
    <3>2. events = <<>> <=> Len(events) = 0
      OBVIOUS
    <3>3. Sent(events) = SubSeq(events, 1, 0) /\ (Delivered(events) <=> 0 = Len(events))
      BY <2>3, <3>1, <3>2 DEF Delivered
    <3> QED
      BY <1>2, <3>3
  <2> QED
    BY <2>1, <2>2, <2>4, <2>5
<1> QED
  BY <1>1, <1>2

-----------------------------------------------------------------------------
(* The variables keep their types.                                         *)

LEMMA FreshTyped == Fresh \in TerminalRecord
  BY DEF Fresh, TerminalRecord

LEMMA WaitingTyped == Waiting \in LoopRecord
  BY DEF Waiting, LoopRecord

LEMMA EventTyped ==
  ASSUME NEW t \in Terminals, NEW kind \in {"output", "truncated", "exited", "closed"},
         NEW seq \in Nat \ {0}, NEW bytes \in Nat
  PROVE  Event(t, kind, seq, bytes) \in Events
  BY DEF Event, Events

LEMMA CleanedTyped ==
  ASSUME NEW d \in TerminalRecord
  PROVE  Cleaned(d) \in TerminalRecord
<1> DEFINE closing == [d EXCEPT !.closing = TRUE]
<1>1. closing \in TerminalRecord
  BY DEF TerminalRecord
<1>2. \A c \in {d.cleaner, "start"} : [closing EXCEPT !.cleaner = c] \in TerminalRecord
  BY <1>1 DEF TerminalRecord
<1>3. Cleaned(d) \in {d, [closing EXCEPT !.cleaner = d.cleaner], [closing EXCEPT !.cleaner = "start"]}
  BY <1>1 DEF Cleaned, TerminalRecord
<1> QED
  BY <1>2, <1>3

LEMMA OnlyTyped ==
  ASSUME TermTyped, NEW t \in Terminals, NEW d \in TerminalRecord, Only(t, d)
  PROVE  TermTyped'
  BY DEF TermTyped, Only

\* What record_output leaves: a typed terminal and typed events.
LEMMA RecordedTyped ==
  ASSUME TermTyped, NEW t \in Terminals, NEW n \in 0..term[t].pty, NEW tail \in {0, 1},
         n - tail >= 0 \/ tail = 0
  PROVE  /\ Recorded(t, n, tail).state \in TerminalRecord
         /\ Recorded(t, n, tail).events \in Seq(Events)
<1> DEFINE d        == term[t]
           count    == d.undecoded + n - tail
           output   == Event(t, "output", d.seq + 1, count)
           retained == Append(d.retained, output)
           kept     == Kept(retained)
           next     == [d EXCEPT !.undecoded = tail, !.pty = @ - n]
           step     == IF kept # retained THEN 2 ELSE 1
           cutting  == Event(t, "truncated", d.seq + 2, 0)
<1>1. d \in TerminalRecord
  BY DEF TermTyped
<1>2. d.undecoded \in Nat /\ d.pty \in Nat /\ d.seq \in Nat /\ d.retained \in Seq(Events)
  BY <1>1 DEF TerminalRecord
<1>3. count \in Nat /\ d.pty - n \in Nat
  BY <1>2
<1>4. output \in Events /\ cutting \in Events
  <2> DEFINE a == d.seq + 1
             b == d.seq + 2
  <2>1. a \in Nat \ {0} /\ b \in Nat \ {0}
    BY <1>2
  <2> HIDE DEF a, b, count
  <2>2. Event(t, "output", a, count) \in Events
    BY <1>3, <2>1, EventTyped
  <2>3. Event(t, "truncated", b, 0) \in Events
    BY <2>1, EventTyped
  <2> QED
    BY <2>2, <2>3 DEF a, b, count
<1>5. next \in TerminalRecord
  <2> DEFINE left == d.pty - n
             taken == [d EXCEPT !.pty = left]
  <2>1. left \in Nat /\ tail \in Nat
    BY <1>3
  <2>2. next = [taken EXCEPT !.undecoded = tail]
    BY <1>1 DEF TerminalRecord
  <2>3. taken \in TerminalRecord
    <3> HIDE DEF left, d
    <3> QED
      BY <1>1, <2>1 DEF TerminalRecord
  <2> HIDE DEF next, taken
  <2> QED
    BY <2>1, <2>2, <2>3 DEF TerminalRecord
<1>6. kept \in Seq(Events)
  <2>1. retained \in Seq(Events)
    BY <1>2, <1>4
  <2>2. PICK k \in 1..(Len(retained) + 1) : kept = SubSeq(retained, k, Len(retained))
    BY <2>1, KeptSound
  <2> HIDE DEF retained, kept
  <2> QED
    BY <2>1, <2>2
<1>7. [next EXCEPT !.seq = @ + step, !.latest = d.seq + 1, !.retained = kept] \in TerminalRecord
  <2> DEFINE a == next.seq + step
             b == d.seq + 1
             moved == [next EXCEPT !.seq = a]
             told == [moved EXCEPT !.latest = b]
  <2>1. a \in Nat /\ b \in Nat
    <3>1. step \in Nat
      OBVIOUS
    <3>2. next.seq \in Nat
      <4> HIDE DEF next
      <4> QED
        BY <1>5 DEF TerminalRecord
    <3> HIDE DEF next, step, d
    <3> QED
      BY <1>2, <3>1, <3>2
  <2> HIDE DEF next, kept, a, b
  <2>2. moved \in TerminalRecord
    BY <1>5, <2>1 DEF TerminalRecord
  <2> HIDE DEF moved
  <2>3. told \in TerminalRecord
    BY <2>1, <2>2 DEF TerminalRecord
  <2> HIDE DEF told
  <2>4. [told EXCEPT !.retained = kept] \in TerminalRecord
    BY <1>6, <2>3 DEF TerminalRecord
  <2> QED
    BY <2>4 DEF moved, told, a, b
<1>8. <<output, cutting>> \in Seq(Events) /\ <<output>> \in Seq(Events) /\ <<>> \in Seq(Events)
  <2> HIDE DEF output, cutting
  <2> QED
    BY <1>4
<1>9. Recorded(t, n, tail) =
        IF count = 0 THEN [state |-> next, events |-> <<>>]
        ELSE [state |-> [next EXCEPT !.seq = @ + step, !.latest = d.seq + 1, !.retained = kept],
              events |-> IF kept # retained THEN <<output, cutting>> ELSE <<output>>]
  BY DEF Recorded
<1> HIDE DEF next, kept, retained, output, cutting, step, count
<1> QED
  BY <1>5, <1>7, <1>8, <1>9

LEMMA EmitTyped ==
  ASSUME ChannelTyped, NEW events \in Seq(Events), Emit(events), inHand' = inHand
  PROVE  ChannelTyped'
<1>1. PICK k \in 0..Len(events) : Sent(events) = SubSeq(events, 1, k)
  BY SentSound
<1>2. Sent(events) \in Seq(Events)
  BY <1>1
<1> QED
  BY <1>2 DEF Emit, ChannelTyped

-----------------------------------------------------------------------------
(* The tasks that send nothing. Steady says what they leave as it is.      *)

Sound(d) == ExitSound(d) /\ GoneIsQuiet(d) /\ d.latest <= d.seq

Steady(c, d) ==
    /\ d.seq = c.seq /\ d.retained = c.retained /\ d.barrier = c.barrier /\ d.written = c.written
    /\ c.failed => d.failed
    /\ c.where # "none" /\ (d.where = c.where \/ d.where = "gone")
    /\ d.attachment = c.attachment \/ (d.attachment = 0 /\ d.closing)
    /\ c.closing => d.closing
    /\ c.where = "open" /\ c.cleaner = "none" /\ ~c.active =>
          d.where = "open" /\ d.cleaner = "none" /\ ~d.active

Quietly(t) == \E d \in TerminalRecord :
    Only(t, d) /\ Steady(term[t], d) /\ Sound(d)

LEMMA ChildWritesQuietly ==
  ASSUME TermTyped, NEW t \in Terminals, Unopened(t), Sound(term[t]), ChildWrites(t)
  PROVE  Quietly(t)
<1> DEFINE c == term[t]
           d == [c EXCEPT !.made = @ + 1, !.pty = @ + 1]
<1>1. c \in TerminalRecord /\ Sound(c) /\ (c.where = "none" => c = Fresh)
  BY DEF TermTyped, Unopened
<1>2. Only(t, d)
  BY DEF ChildWrites
<1>3. d \in TerminalRecord
  <2> DEFINE m == c.made + 1
             p == c.pty + 1
  <2>1. m \in Nat /\ p \in Nat
    BY <1>1 DEF TerminalRecord
  <2>2. d = [c EXCEPT !.made = m, !.pty = p]
    BY <1>1 DEF TerminalRecord
  <2> HIDE DEF m, p, d
  <2>3. [c EXCEPT !.made = m, !.pty = p] \in TerminalRecord
    BY <1>1, <2>1 DEF TerminalRecord
  <2> QED
    BY <2>2, <2>3
<1>4. Steady(c, d) /\ Sound(d)
  BY <1>1 DEF ChildWrites, TerminalRecord, Fresh, Steady, Sound, ExitSound, ReadAll, GoneIsQuiet
<1> HIDE DEF d
<1> QED
  BY <1>2, <1>3, <1>4 DEF Quietly

LEMMA ChildExitsQuietly ==
  ASSUME TermTyped, NEW t \in Terminals, Unopened(t), Sound(term[t]), ChildExits(t)
  PROVE  Quietly(t)
<1> DEFINE c == term[t]
           d == [c EXCEPT !.child = "dead"]
<1>1. c \in TerminalRecord /\ Sound(c) /\ (c.where = "none" => c = Fresh)
  BY DEF TermTyped, Unopened
<1>2. Only(t, d)
  BY DEF ChildExits
<1>3. d \in TerminalRecord
  BY <1>1 DEF ChildExits, TerminalRecord
<1>4. Steady(c, d) /\ Sound(d)
  BY <1>1 DEF ChildExits, TerminalRecord, Fresh, Steady, Sound, ExitSound, ReadAll, GoneIsQuiet
<1> HIDE DEF d
<1> QED
  BY <1>2, <1>3, <1>4 DEF Quietly

LEMMA ReadFailsQuietly ==
  ASSUME TermTyped, NEW t \in Terminals, Unopened(t), Sound(term[t]), ReadFails(t)
  PROVE  Quietly(t)
<1> DEFINE c == term[t]
           d == Cleaned([c EXCEPT !.reader = "done", !.failed = TRUE])
<1>1. c \in TerminalRecord /\ Sound(c) /\ (c.where = "none" => c = Fresh)
  BY DEF TermTyped, Unopened
<1>2. Only(t, d)
  BY DEF ReadFails
<1>3. d \in TerminalRecord
  <2>1. [c EXCEPT !.reader = "done", !.failed = TRUE] \in TerminalRecord
    BY <1>1 DEF TerminalRecord
  <2> QED
    BY <2>1, CleanedTyped
<1>4. Steady(c, d) /\ Sound(d)
  BY <1>1 DEF ReadFails, Cleaned, TerminalRecord, Fresh, Steady, Sound, ExitSound, ReadAll, GoneIsQuiet
<1> HIDE DEF d
<1> QED
  BY <1>2, <1>3, <1>4 DEF Quietly

LEMMA WriteInputQuietly ==
  ASSUME TermTyped, NEW t \in Terminals, Unopened(t), Sound(term[t]), WriteInput(t)
  PROVE  Quietly(t)
<1> DEFINE c == term[t]
           d == [c EXCEPT !.queue = @ - 1]
<1>1. c \in TerminalRecord /\ Sound(c) /\ (c.where = "none" => c = Fresh)
  BY DEF TermTyped, Unopened
<1>2. Only(t, d)
  BY DEF WriteInput
<1>3. d \in TerminalRecord
  <2> DEFINE q == c.queue - 1
  <2>1. q \in Nat
    BY <1>1 DEF WriteInput, TerminalRecord
  <2>2. d = [c EXCEPT !.queue = q]
    BY <1>1 DEF TerminalRecord
  <2> HIDE DEF q, d
  <2>3. [c EXCEPT !.queue = q] \in TerminalRecord
    BY <1>1, <2>1 DEF TerminalRecord
  <2> QED
    BY <2>2, <2>3
<1>4. Steady(c, d) /\ Sound(d)
  BY <1>1 DEF WriteInput, TerminalRecord, Fresh, Steady, Sound, ExitSound, ReadAll, GoneIsQuiet
<1> HIDE DEF d
<1> QED
  BY <1>2, <1>3, <1>4 DEF Quietly

LEMMA DrainQuietly ==
  ASSUME TermTyped, NEW t \in Terminals, Unopened(t), Sound(term[t]), Drain(t)
  PROVE  Quietly(t)
<1> DEFINE c == term[t]
           d == [c EXCEPT !.waiter = "exit", !.failed = @ \/ c.reader # "done"]
<1>1. c \in TerminalRecord /\ Sound(c) /\ (c.where = "none" => c = Fresh)
  BY DEF TermTyped, Unopened
<1>2. Only(t, d)
  BY DEF Drain
<1>3. d \in TerminalRecord
  BY <1>1 DEF Drain, TerminalRecord
<1>4. Steady(c, d) /\ Sound(d)
  BY <1>1 DEF Drain, TerminalRecord, Fresh, Steady, Sound, ExitSound, ReadAll, GoneIsQuiet
<1> HIDE DEF d
<1> QED
  BY <1>2, <1>3, <1>4 DEF Quietly

LEMMA ExpireQuietly ==
  ASSUME TermTyped, NEW t \in Terminals, Unopened(t), Sound(term[t]), Expire(t)
  PROVE  Quietly(t)
<1> DEFINE c == term[t]
           d == Cleaned(c)
<1>1. c \in TerminalRecord /\ Sound(c) /\ (c.where = "none" => c = Fresh)
  BY DEF TermTyped, Unopened
<1>2. Only(t, d)
  BY DEF Expire
<1>3. d \in TerminalRecord
  BY <1>1, CleanedTyped DEF Expire, TerminalRecord
<1>4. Steady(c, d) /\ Sound(d)
  BY <1>1 DEF Expire, Cleaned, TerminalRecord, Fresh, Steady, Sound, ExitSound, ReadAll, GoneIsQuiet
<1> HIDE DEF d
<1> QED
  BY <1>2, <1>3, <1>4 DEF Quietly

LEMMA RemoveTerminalQuietly ==
  ASSUME TermTyped, NEW t \in Terminals, Unopened(t), Sound(term[t]), RemoveTerminal(t)
  PROVE  Quietly(t)
<1> DEFINE c == term[t]
           d == [c EXCEPT !.cleaner = "done", !.where = "gone"]
<1>1. c \in TerminalRecord /\ Sound(c) /\ (c.where = "none" => c = Fresh)
  BY DEF TermTyped, Unopened
<1>2. Only(t, d)
  BY DEF RemoveTerminal
<1>3. d \in TerminalRecord
  BY <1>1 DEF RemoveTerminal, TerminalRecord
<1>4. Steady(c, d) /\ Sound(d)
  BY <1>1 DEF RemoveTerminal, TerminalRecord, Fresh, Steady, Sound, ExitSound, ReadAll, GoneIsQuiet
<1> HIDE DEF d
<1> QED
  BY <1>2, <1>3, <1>4 DEF Quietly

LEMMA ReapQuietly ==
  ASSUME TermTyped, NEW t \in Terminals, Unopened(t), Sound(term[t]), Reap(t)
  PROVE  Quietly(t)
<1> DEFINE c == term[t]
           d == [c EXCEPT !.waiter = "drain", !.child = "dead", !.status = TRUE,
                          !.life = IF @ = "closed" THEN @ ELSE "exited"]
           e == [c EXCEPT !.waiter = "drain"]
<1>1. c \in TerminalRecord /\ Sound(c) /\ (c.where = "none" => c = Fresh)
  BY DEF TermTyped, Unopened
<1>2. Only(t, d) \/ Only(t, e)
  BY DEF Reap
<1>3. d \in TerminalRecord /\ e \in TerminalRecord
  <2>1. \A life \in {"running", "exited", "closed"} :
          [c EXCEPT !.waiter = "drain", !.child = "dead", !.status = TRUE, !.life = life]
              \in TerminalRecord
    BY <1>1 DEF TerminalRecord
  <2>2. d = [c EXCEPT !.waiter = "drain", !.child = "dead", !.status = TRUE,
                      !.life = IF c.life = "closed" THEN c.life ELSE "exited"]
    BY <1>1 DEF TerminalRecord
  <2>3. (IF c.life = "closed" THEN c.life ELSE "exited") \in {"running", "exited", "closed"}
    OBVIOUS
  <2>4. e \in TerminalRecord
    BY <1>1 DEF TerminalRecord
  <2> QED
    BY <2>1, <2>2, <2>3, <2>4
<1>4. Steady(c, d) /\ Sound(d)
  BY <1>1 DEF Reap, TerminalRecord, Fresh, Steady, Sound, ExitSound, ReadAll, GoneIsQuiet
<1>5. Steady(c, e) /\ Sound(e)
  BY <1>1 DEF Reap, TerminalRecord, Fresh, Steady, Sound, ExitSound, ReadAll, GoneIsQuiet
<1> HIDE DEF d, e
<1> QED
  BY <1>2, <1>3, <1>4, <1>5 DEF Quietly

LEMMA StartCleaningQuietly ==
  ASSUME TermTyped, NEW t \in Terminals, Unopened(t), Sound(term[t]), StartCleaning(t)
  PROVE  Quietly(t)
<1> DEFINE c == term[t]
           d == [c EXCEPT !.cleaner = "wait", !.asked = c.life = "running"]
           e == [c EXCEPT !.cleaner = "retire", !.child = "dead"]
<1>1. c \in TerminalRecord /\ Sound(c) /\ (c.where = "none" => c = Fresh)
  BY DEF TermTyped, Unopened
<1>2. \/ c.active /\ Only(t, d)
      \/ ~c.active /\ Only(t, e)
  BY DEF StartCleaning
<1>3. d \in TerminalRecord /\ e \in TerminalRecord
  <2>1. e \in TerminalRecord
    BY <1>1 DEF TerminalRecord
  <2>2. \A asked \in BOOLEAN : [c EXCEPT !.cleaner = "wait", !.asked = asked] \in TerminalRecord
    <3> HIDE DEF c
    <3> QED
      BY <1>1 DEF TerminalRecord
  <2> QED
    BY <2>1, <2>2
<1>4. Steady(c, d) /\ Sound(d)
  BY <1>1 DEF StartCleaning, TerminalRecord, Fresh, Steady, Sound, ExitSound, ReadAll, GoneIsQuiet
<1>5. ~c.active => Steady(c, e) /\ Sound(e)
  BY <1>1 DEF StartCleaning, TerminalRecord, Fresh, Steady, Sound, ExitSound, ReadAll, GoneIsQuiet
<1> HIDE DEF c, d, e
<1> QED
  BY <1>2, <1>3, <1>4, <1>5 DEF Quietly, c

LEMMA RetireQuietly ==
  ASSUME TermTyped, NEW t \in Terminals, Unopened(t), Sound(term[t]), Retire(t)
  PROVE  Quietly(t)
<1> DEFINE c == term[t]
           reader == IF c.reader = "run" THEN "aborted" ELSE c.reader
           d == [c EXCEPT !.cleaner = "announce", !.life = "closed", !.attachment = 0,
                          !.queue = 0, !.reader = reader]
<1>1. c \in TerminalRecord /\ Sound(c) /\ (c.where = "none" => c = Fresh)
  BY DEF TermTyped, Unopened
<1>2. Only(t, d)
  BY <1>1 DEF Retire, TerminalRecord
<1>3. d \in TerminalRecord
  <2>1. reader \in {"none", "run", "done", "aborted"}
    BY <1>1 DEF TerminalRecord
  <2> HIDE DEF reader
  <2> QED
    BY <1>1, <2>1 DEF TerminalRecord
<1>4. Steady(c, d) /\ Sound(d)
  BY <1>1 DEF Retire, TerminalRecord, Fresh, Steady, Sound, ExitSound, ReadAll, GoneIsQuiet
<1> HIDE DEF d
<1> QED
  BY <1>2, <1>3, <1>4 DEF Quietly

LEMMA WriteQuietly ==
  ASSUME TermTyped, NEW t \in Terminals, Unopened(t), Sound(term[t]), Write(t) \/ Signal(t)
  PROVE  Quietly(t)
<1> DEFINE c == term[t]
           q == c.queue + 1
           d == [c EXCEPT !.queue = q]
           e == [c EXCEPT !.child = "dead"]
<1>1. c \in TerminalRecord /\ Sound(c) /\ c.where = "open"
  BY DEF TermTyped, Write, Signal, Running, Known
<1>2. Only(t, d) \/ Only(t, e)
  BY <1>1 DEF Write, Signal, TerminalRecord
<1>3. d \in TerminalRecord /\ e \in TerminalRecord
  <2>1. q \in Nat
    BY <1>1 DEF TerminalRecord
  <2> HIDE DEF q
  <2> QED
    BY <1>1, <2>1 DEF TerminalRecord
<1>4. Steady(c, d) /\ Sound(d)
  BY <1>1 DEF TerminalRecord, Steady, Sound, ExitSound, ReadAll, GoneIsQuiet
<1>5. Steady(c, e) /\ Sound(e)
  BY <1>1 DEF TerminalRecord, Steady, Sound, ExitSound, ReadAll, GoneIsQuiet
<1> HIDE DEF d, e
<1> QED
  BY <1>2, <1>3, <1>4, <1>5 DEF Quietly

-----------------------------------------------------------------------------
(* The tasks that send events.                                             *)

\* What is retained afterwards: as before, or a suffix with the first event added.
Keeps(r, s, E) ==
    \/ s = r
    \/ /\ E # <<>> /\ E[1].kind = "output"
       /\ \E k \in 1..(Len(r) + 2) : s = SubSeq(Append(r, E[1]), k, Len(r) + 1)

\* The events are new, and numbered up to the terminal's own number.
Numbered(t, c, d, E) ==
    /\ c.seq <= d.seq /\ Ascends(E)
    /\ \A i \in DOMAIN E : Mine(E[i], t) /\ c.seq < E[i].seq /\ E[i].seq <= d.seq

\* What else a sending task leaves as it is.
Aside(c, d) ==
    /\ d.barrier = c.barrier /\ d.written = c.written /\ d.attachment = c.attachment
    /\ d.where = c.where /\ c.where = "open" /\ (c.closing => d.closing)
    /\ c.active \/ c.cleaner # "none"

Sends(t) == \E d \in TerminalRecord, E \in Seq(Events) :
    /\ Only(t, d) /\ Emit(E) /\ MayEmit(t) /\ ~term[t].failed
    /\ Numbered(t, term[t], d, E) /\ Keeps(term[t].retained, d.retained, E)
    /\ Delivered(E) \/ d.failed
    /\ Aside(term[t], d) /\ Sound(d)

\* The fields that record_output does not touch.
Untouched(c, d) ==
    /\ d.where = c.where /\ d.active = c.active /\ d.life = c.life /\ d.closing = c.closing
    /\ d.attachment = c.attachment /\ d.child = c.child /\ d.reader = c.reader
    /\ d.waiter = c.waiter /\ d.cleaner = c.cleaner /\ d.barrier = c.barrier
    /\ d.failed = c.failed /\ d.exitDone = c.exitDone /\ d.written = c.written

LEMMA RecordedSound ==
  ASSUME TermTyped, NEW t \in Terminals, NEW n \in 0..term[t].pty, NEW tail \in {0, 1},
         n - tail >= 0 \/ tail = 0
  PROVE  LET c == term[t]
             r == Recorded(t, n, tail)
         IN  /\ Untouched(c, r.state)
             /\ r.state.undecoded = tail /\ r.state.pty = c.pty - n
             /\ (c.latest <= c.seq => r.state.latest <= r.state.seq)
             /\ Numbered(t, c, r.state, r.events)
             /\ Keeps(c.retained, r.state.retained, r.events)
<1> DEFINE c        == term[t]
           count    == c.undecoded + n - tail
           output   == Event(t, "output", c.seq + 1, count)
           retained == Append(c.retained, output)
           kept     == Kept(retained)
           next     == [c EXCEPT !.undecoded = tail, !.pty = @ - n]
           step     == IF kept # retained THEN 2 ELSE 1
           cutting  == Event(t, "truncated", c.seq + 2, 0)
           full     == [next EXCEPT !.seq = @ + step, !.latest = c.seq + 1, !.retained = kept]
           events   == IF kept # retained THEN <<output, cutting>> ELSE <<output>>
<1>1. c \in TerminalRecord
  BY DEF TermTyped
<1>2. c.undecoded \in Nat /\ c.pty \in Nat /\ c.seq \in Nat /\ c.retained \in Seq(Events)
  BY <1>1 DEF TerminalRecord
<1>3. Recorded(t, n, tail) =
        IF count = 0 THEN [state |-> next, events |-> <<>>]
        ELSE [state |-> full, events |-> events]
  BY DEF Recorded
<1>4. /\ Untouched(c, next) /\ next.undecoded = tail /\ next.pty = c.pty - n
      /\ next.seq = c.seq /\ next.retained = c.retained /\ next.latest = c.latest
  BY <1>1 DEF Untouched, TerminalRecord
<1>5. /\ Untouched(c, full) /\ full.undecoded = tail /\ full.pty = c.pty - n
      /\ full.seq = c.seq + step /\ full.retained = kept
      /\ full.latest = c.seq + 1
  <2> HIDE DEF kept, retained, step
  <2> QED
    BY <1>1 DEF Untouched, TerminalRecord
<1>6. CASE count = 0
  <2>1. Recorded(t, n, tail).state = next /\ Recorded(t, n, tail).events = <<>>
    BY <1>3, <1>6
  <2>2. Numbered(t, c, next, <<>>)
    BY <1>2, <1>4 DEF Numbered, Ascends
  <2> HIDE DEF next, c
  <2> QED
    BY <1>4, <2>1, <2>2 DEF Keeps, c
<1>7. CASE count # 0
  <2>1. Recorded(t, n, tail).state = full /\ Recorded(t, n, tail).events = events
    BY <1>3, <1>7
  <2>2. output.seq = c.seq + 1 /\ Mine(output, t) /\ output.kind = "output"
    BY DEF Event, Mine
  <2>3. cutting.seq = c.seq + 2 /\ Mine(cutting, t)
    BY DEF Event, Mine
  <2>4. Numbered(t, c, full, events)
    <3> HIDE DEF full, output, cutting, kept, retained, c
    <3> QED
      BY <1>2, <1>5, <2>2, <2>3 DEF Numbered, Ascends
  <2>5. Keeps(c.retained, kept, events)
    <3>1. count \in Nat /\ c.seq + 1 \in Nat \ {0}
      BY <1>2
    <3>2. output \in Events
      <4> HIDE DEF count, c
      <4> QED
        BY <3>1, EventTyped
    <3>3. retained \in Seq(Events) /\ Len(retained) = Len(c.retained) + 1
      <4> HIDE DEF output, c
      <4> QED
        BY <1>2, <3>2
    <3>4. PICK k \in 1..(Len(retained) + 1) : kept = SubSeq(retained, k, Len(retained))
      BY <3>3, KeptSound
    <3>5. events # <<>> /\ events[1] = output
      <4> HIDE DEF output, cutting, kept, retained
      <4> QED
        OBVIOUS
    <3>6. k \in 1..(Len(c.retained) + 2)
          /\ kept = SubSeq(Append(c.retained, events[1]), k, Len(c.retained) + 1)
      <4>1. retained = Append(c.retained, events[1])
        BY <3>5
      <4>2. Len(c.retained) \in Nat
        BY <1>2
      <4> HIDE DEF events, kept, retained, c
      <4> QED
        BY <3>3, <3>4, <4>1, <4>2
    <3> HIDE DEF events, kept, retained, c, output
    <3> QED
      BY <2>2, <3>5, <3>6 DEF Keeps
  <2>6. full.latest <= full.seq
    <3> HIDE DEF full, c, kept, retained
    <3> QED
      BY <1>2, <1>5
  <2> HIDE DEF full, events, c
  <2> QED
    BY <1>5, <2>1, <2>4, <2>5, <2>6 DEF c
<1> HIDE DEF count
<1> QED
  BY <1>6, <1>7

LEMMA ReadOutputSends ==
  ASSUME TermTyped, NEW t \in Terminals, Unopened(t), Sound(term[t]), ReadOutput(t)
  PROVE  Sends(t)
<1> DEFINE c == term[t]
<1>1. c \in TerminalRecord /\ Sound(c) /\ (c.where = "none" => c = Fresh)
  BY DEF TermTyped, Unopened
<1>2. c.reader = "run" /\ ~c.failed /\ MayEmit(t)
  BY DEF ReadOutput
<1>3. PICK n \in 1..c.pty, tail \in {0, 1} :
          LET r == Recorded(t, n, tail)
          IN  /\ Only(t, [r.state EXCEPT !.failed = ~Delivered(r.events)])
              /\ Emit(r.events)
  BY DEF ReadOutput
<1> DEFINE r == Recorded(t, n, tail)
           lost == ~Delivered(r.events)
           d == [r.state EXCEPT !.failed = lost]
<1>4. n \in 0..c.pty /\ (n - tail >= 0 \/ tail = 0)
  <2>1. n \in 1..c.pty /\ tail \in {0, 1} /\ c.pty \in Nat
    BY <1>1 DEF TerminalRecord
  <2> QED
    BY <2>1
<1>5. r.state \in TerminalRecord /\ r.events \in Seq(Events)
  BY <1>4, RecordedTyped
<1>6. /\ Untouched(c, r.state) /\ Numbered(t, c, r.state, r.events)
      /\ Keeps(c.retained, r.state.retained, r.events)
      /\ (c.latest <= c.seq => r.state.latest <= r.state.seq)
  BY <1>4, RecordedSound
<1>7. Only(t, d) /\ Emit(r.events)
  BY <1>3
<1> HIDE DEF c, r
<1>8. lost \in BOOLEAN
  OBVIOUS
<1> HIDE DEF lost
<1>9. /\ d \in TerminalRecord /\ d.failed = lost /\ d.seq = r.state.seq
      /\ d.retained = r.state.retained /\ d.latest = r.state.latest
      /\ d.where = c.where /\ d.active = c.active /\ d.life = c.life /\ d.closing = c.closing
      /\ d.attachment = c.attachment /\ d.child = c.child /\ d.reader = c.reader
      /\ d.waiter = c.waiter /\ d.cleaner = c.cleaner /\ d.barrier = c.barrier
      /\ d.exitDone = c.exitDone /\ d.written = c.written
  BY <1>5, <1>6, <1>8 DEF TerminalRecord, Untouched
<1> HIDE DEF d
<1>10. Aside(c, d) /\ Sound(d)
  <2>1. d.latest <= d.seq
    BY <1>1, <1>6, <1>9 DEF Sound
  <2> QED
    BY <1>1, <1>2, <1>9, <2>1
       DEF c, TerminalRecord, Fresh, Aside, Sound, ExitSound, ReadAll, GoneIsQuiet
<1>11. Numbered(t, c, d, r.events) /\ Keeps(c.retained, d.retained, r.events)
  BY <1>6, <1>9 DEF Numbered
<1>12. Delivered(r.events) \/ d.failed
  BY <1>9 DEF lost
<1> QED
  BY <1>2, <1>5, <1>7, <1>9, <1>10, <1>11, <1>12 DEF Sends, c

LEMMA ReadEndSends ==
  ASSUME TermTyped, NEW t \in Terminals, Unopened(t), Sound(term[t]), ReadEnd(t)
  PROVE  Sends(t)
<1> DEFINE c == term[t]
           r == Recorded(t, 0, 0)
           lost == ~Delivered(r.events)
           e == [r.state EXCEPT !.reader = "done", !.failed = lost]
           d == IF e.failed THEN Cleaned(e) ELSE e
<1>1. c \in TerminalRecord /\ Sound(c) /\ (c.where = "none" => c = Fresh)
  BY DEF TermTyped, Unopened
<1>2. /\ c.reader = "run" /\ ~c.failed /\ MayEmit(t) /\ c.child = "dead" /\ c.pty = 0
      /\ Only(t, d) /\ Emit(r.events)
  BY DEF ReadEnd
<1>3. 0 \in 0..c.pty
  BY <1>2
<1>4. r.state \in TerminalRecord /\ r.events \in Seq(Events)
  BY <1>3, RecordedTyped
<1>5. /\ Untouched(c, r.state) /\ r.state.undecoded = 0 /\ r.state.pty = 0
      /\ Numbered(t, c, r.state, r.events)
      /\ Keeps(c.retained, r.state.retained, r.events)
      /\ (c.latest <= c.seq => r.state.latest <= r.state.seq)
  <2>1. LET rr == Recorded(t, 0, 0)
        IN  /\ Untouched(term[t], rr.state)
            /\ rr.state.undecoded = 0 /\ rr.state.pty = term[t].pty - 0
            /\ Numbered(t, term[t], rr.state, rr.events)
            /\ Keeps(term[t].retained, rr.state.retained, rr.events)
            /\ (term[t].latest <= term[t].seq => rr.state.latest <= rr.state.seq)
    BY <1>3, RecordedSound
  <2> QED
    BY <1>2, <2>1
<1>6. lost \in BOOLEAN
  OBVIOUS
<1> HIDE DEF c, r, lost
<1>7. /\ e \in TerminalRecord /\ e.failed = lost /\ e.seq = r.state.seq
      /\ e.retained = r.state.retained /\ e.undecoded = 0 /\ e.pty = 0
      /\ e.latest = r.state.latest
      /\ e.where = c.where /\ e.active = c.active /\ e.life = c.life /\ e.closing = c.closing
      /\ e.attachment = c.attachment /\ e.child = c.child /\ e.reader = "done"
      /\ e.waiter = c.waiter /\ e.cleaner = c.cleaner /\ e.barrier = c.barrier
      /\ e.exitDone = c.exitDone /\ e.written = c.written
  BY <1>4, <1>5, <1>6 DEF TerminalRecord, Untouched
<1> HIDE DEF e
<1>8. /\ d \in TerminalRecord /\ d.failed = lost /\ d.seq = e.seq /\ d.retained = e.retained
      /\ Aside(c, d) /\ Sound(d)
  <2>0. e.latest <= e.seq
    BY <1>1, <1>5, <1>7 DEF Sound
  <2>1. CASE lost
    <3>1. d = Cleaned(e)
      BY <1>7, <2>1
    <3>2. d \in TerminalRecord
      BY <1>7, <3>1, CleanedTyped
    <3> HIDE DEF d
    <3>3. c.where = "open" /\ c.life # "closed" /\ c.active
      BY <1>1, <1>2 DEF c, Fresh, TerminalRecord, Sound, GoneIsQuiet
    <3>4. /\ d.failed = lost /\ d.seq = e.seq /\ d.retained = e.retained /\ d.undecoded = 0
          /\ d.latest = e.latest
          /\ d.pty = 0 /\ d.where = c.where /\ d.active = c.active /\ d.life = c.life
          /\ d.closing /\ d.attachment = c.attachment /\ d.child = c.child /\ d.reader = "done"
          /\ d.waiter = c.waiter /\ d.cleaner # "none" /\ (c.cleaner # "none" => d.cleaner = c.cleaner)
          /\ (c.cleaner = "none" => d.cleaner = "start")
          /\ d.barrier = c.barrier /\ d.exitDone = c.exitDone /\ d.written = c.written
      BY <1>7, <3>1, <3>3 DEF Cleaned, TerminalRecord
    <3>5. Aside(c, d)
      BY <3>3, <3>4 DEF Aside
    <3>6. ExitSound(d)
      BY <1>1, <1>2, <2>1, <3>3, <3>4 DEF Sound, ExitSound, ReadAll
    <3>7. GoneIsQuiet(d)
      BY <1>1, <1>2, <3>3, <3>4 DEF Sound, GoneIsQuiet
    <3> QED
      BY <2>0, <3>2, <3>4, <3>5, <3>6, <3>7 DEF Sound
  <2>2. CASE ~lost
    <3>1. d = e
      BY <1>7, <2>2
    <3> HIDE DEF d
    <3>2. c.where = "open" /\ c.life # "closed" /\ c.active
      BY <1>1, <1>2 DEF c, Fresh, TerminalRecord, Sound, GoneIsQuiet
    <3>3. Aside(c, d)
      BY <1>7, <3>1, <3>2 DEF Aside
    <3>4. ExitSound(d)
      BY <1>1, <1>2, <1>7, <2>2, <3>1, <3>2 DEF Sound, ExitSound, ReadAll
    <3>5. GoneIsQuiet(d)
      BY <1>1, <1>2, <1>7, <3>1, <3>2 DEF Sound, GoneIsQuiet
    <3> QED
      BY <1>7, <2>0, <2>2, <3>1, <3>3, <3>4, <3>5 DEF Sound
  <2> QED
    BY <2>1, <2>2
<1> HIDE DEF d
<1>9. Numbered(t, c, d, r.events) /\ Keeps(c.retained, d.retained, r.events)
  BY <1>5, <1>7, <1>8 DEF Numbered
<1>10. Delivered(r.events) \/ d.failed
  BY <1>8 DEF lost
<1> QED
  BY <1>2, <1>4, <1>8, <1>9, <1>10 DEF Sends, c

\* One event with the next number.
LEMMA OneEvent ==
  ASSUME NEW t \in Terminals, NEW kind \in {"output", "truncated", "exited", "closed"},
         NEW c \in TerminalRecord, NEW d, d.seq = c.seq + 1
  PROVE  LET E == <<Event(t, kind, c.seq + 1, 0)>>
         IN  E \in Seq(Events) /\ Numbered(t, c, d, E)
<1> DEFINE x == Event(t, kind, c.seq + 1, 0)
<1>1. c.seq \in Nat
  BY DEF TerminalRecord
<1>2. x \in Events
  <2>1. c.seq + 1 \in Nat \ {0}
    BY <1>1
  <2> QED
    BY <2>1, EventTyped
<1>3. Mine(x, t) /\ x.seq = c.seq + 1
  BY DEF Event, Mine
<1> HIDE DEF x
<1> QED
  BY <1>1, <1>2, <1>3 DEF Numbered, Ascends, x

LEMMA AnnounceExitTells ==
  ASSUME TermTyped, NEW t \in Terminals, Unopened(t), Sound(term[t]), AnnounceExit(t)
  PROVE  \/ Sends(t)
         \/ Quietly(t) /\ channel' = channel
<1> DEFINE c == term[t]
           E == <<Event(t, "exited", c.seq + 1, 0)>>
           ok == Delivered(E)
           n == c.seq + 1
           lost == ~ok
           d == [c EXCEPT !.waiter = "done", !.seq = n, !.exitDone = ok, !.failed = lost]
           e == [c EXCEPT !.waiter = "done"]
<1>1. c \in TerminalRecord /\ Sound(c) /\ (c.where = "none" => c = Fresh)
  BY DEF TermTyped, Unopened
<1>2. c.waiter = "exit"
  BY DEF AnnounceExit
<1>3. CASE c.status /\ ~c.failed
  <2>1. MayEmit(t) /\ Only(t, d) /\ Emit(E)
    BY <1>1, <1>3 DEF AnnounceExit, TerminalRecord
  <2>2. ok \in BOOLEAN /\ lost \in BOOLEAN /\ n \in Nat
    BY <1>1 DEF TerminalRecord, Delivered
  <2>3. d \in TerminalRecord /\ d.failed = lost /\ d.seq = n /\ d.retained = c.retained
    <3> HIDE DEF ok, lost, n, c
    <3> DEFINE half == [c EXCEPT !.waiter = "done", !.seq = n]
    <3>1. half \in TerminalRecord /\ half.seq = n /\ half.retained = c.retained
      BY <1>1, <2>2 DEF TerminalRecord
    <3>2. d = [half EXCEPT !.exitDone = ok, !.failed = lost]
      BY <1>1 DEF TerminalRecord
    <3> HIDE DEF half, d
    <3> QED
      BY <2>2, <3>1, <3>2 DEF TerminalRecord
  <2>4. Aside(c, d) /\ Sound(d)
    <3>1. /\ d.waiter = "done" /\ d.exitDone = ok /\ d.failed = lost /\ d.where = c.where
          /\ d.active = c.active /\ d.life = c.life /\ d.closing = c.closing
          /\ d.attachment = c.attachment /\ d.child = c.child /\ d.reader = c.reader
          /\ d.cleaner = c.cleaner /\ d.barrier = c.barrier /\ d.written = c.written
          /\ d.pty = c.pty /\ d.undecoded = c.undecoded /\ d.latest = c.latest
      <4> HIDE DEF ok, n, lost, c
      <4> QED
        BY <1>1 DEF TerminalRecord
    <3>2. d.latest <= d.seq
      <4>1. c.latest \in Nat /\ c.seq \in Nat /\ c.latest <= c.seq
        BY <1>1 DEF TerminalRecord, Sound
      <4> HIDE DEF ok, lost, d, c
      <4> QED
        BY <2>3, <3>1, <4>1
    <3> HIDE DEF ok, n, lost, d
    <3> QED
      BY <1>1, <1>2, <1>3, <2>2, <3>1, <3>2 DEF TerminalRecord, Fresh, Aside, Sound, ExitSound, ReadAll,
         GoneIsQuiet
  <2> HIDE DEF d
  <2>5. E \in Seq(Events) /\ Numbered(t, c, d, E)
    BY <1>1, <2>3, OneEvent
  <2>6. Delivered(E) \/ d.failed
    BY <2>3
  <2>7. Keeps(c.retained, d.retained, E)
    BY <2>3 DEF Keeps
  <2> HIDE DEF E, ok, lost, n
  <2> QED
    BY <1>3, <2>1, <2>3, <2>4, <2>5, <2>6, <2>7 DEF Sends
<1>4. CASE ~(c.status /\ ~c.failed)
  <2>1. Only(t, e) /\ channel' = channel
    BY <1>4 DEF AnnounceExit
  <2>2. e \in TerminalRecord
    BY <1>1 DEF TerminalRecord
  <2>3. Steady(c, e) /\ Sound(e)
    BY <1>1, <1>2 DEF TerminalRecord, Fresh, Steady, Sound, ExitSound, ReadAll, GoneIsQuiet
  <2> HIDE DEF e
  <2> QED
    BY <2>1, <2>2, <2>3 DEF Quietly
<1> QED
  BY <1>3, <1>4

LEMMA AnnounceClosedTells ==
  ASSUME TermTyped, NEW t \in Terminals, Unopened(t), Sound(term[t]), AnnounceClosed(t)
  PROVE  \/ Sends(t)
         \/ Quietly(t) /\ channel' = channel
<1> DEFINE c == term[t]
           E == <<Event(t, "closed", c.seq + 1, 0)>>
           n == c.seq + 1
           lost == ~Delivered(E)
           d == [c EXCEPT !.cleaner = "remove", !.seq = n, !.failed = lost]
           e == [c EXCEPT !.cleaner = "remove"]
<1>1. c \in TerminalRecord /\ Sound(c) /\ (c.where = "none" => c = Fresh)
  BY DEF TermTyped, Unopened
<1>2. c.cleaner = "announce"
  BY DEF AnnounceClosed
<1>3. CASE c.exitDone /\ ~c.failed
  <2>1. MayEmit(t) /\ Only(t, d) /\ Emit(E)
    BY <1>1, <1>3 DEF AnnounceClosed, TerminalRecord
  <2>2. lost \in BOOLEAN /\ n \in Nat
    BY <1>1 DEF TerminalRecord
  <2>3. d \in TerminalRecord /\ d.failed = lost /\ d.seq = n /\ d.retained = c.retained
    <3> HIDE DEF lost, n
    <3> QED
      BY <1>1, <2>2 DEF TerminalRecord
  <2>4. Aside(c, d) /\ Sound(d)
    <3>1. d.latest <= d.seq
      <4>1. c.latest \in Nat /\ c.seq \in Nat /\ c.latest <= c.seq
        BY <1>1 DEF TerminalRecord, Sound
      <4>2. d.latest = c.latest
        <5> HIDE DEF n, lost, c
        <5> QED
          BY <1>1 DEF TerminalRecord
      <4> HIDE DEF lost, d, c
      <4> QED
        BY <2>3, <4>1, <4>2
    <3>2. Aside(c, d) /\ ExitSound(d) /\ GoneIsQuiet(d)
      <4> HIDE DEF n, lost
      <4> QED
        BY <1>1, <1>2, <1>3, <2>2 DEF TerminalRecord, Fresh, Aside, Sound, ExitSound, ReadAll,
           GoneIsQuiet
    <3> HIDE DEF d
    <3> QED
      BY <3>1, <3>2 DEF Sound
  <2> HIDE DEF d
  <2>5. E \in Seq(Events) /\ Numbered(t, c, d, E)
    BY <1>1, <2>3, OneEvent
  <2>6. Delivered(E) \/ d.failed
    BY <2>3
  <2>7. Keeps(c.retained, d.retained, E)
    BY <2>3 DEF Keeps
  <2> HIDE DEF E, lost, n
  <2> QED
    BY <1>3, <2>1, <2>3, <2>4, <2>5, <2>6, <2>7 DEF Sends
<1>4. CASE ~(c.exitDone /\ ~c.failed)
  <2>1. Only(t, e) /\ channel' = channel
    BY <1>4 DEF AnnounceClosed
  <2>2. e \in TerminalRecord
    BY <1>1 DEF TerminalRecord
  <2>3. Steady(c, e) /\ Sound(e)
    BY <1>1, <1>2 DEF TerminalRecord, Fresh, Steady, Sound, ExitSound, ReadAll, GoneIsQuiet
  <2> HIDE DEF e
  <2> QED
    BY <2>1, <2>2, <2>3 DEF Quietly
<1> QED
  BY <1>3, <1>4

-----------------------------------------------------------------------------
(* The terminals by themselves: types, what an exit rests on, and what a   *)
(* terminal that is gone does not do.                                      *)

Base ==
    /\ TerminalTypes /\ LoopServes /\ ActivatesOpen /\ Activating
    /\ \A t \in Terminals : Unopened(t) /\ Sound(term[t])

QuietStep(t) == Quietly(t) /\ Others /\ channel' = channel
SendStep(t) == Sends(t) /\ Others

\* Every step is a quiet one, a sending one, or one of the loop, the pump and the connection.
LEMMA StepKinds ==
  ASSUME Base, TerminalNext
  PROVE  \/ \E t \in Terminals : QuietStep(t) \/ SendStep(t) \/ Shutdown(t)
                                 \/ Open(t) \/ Attach(t) \/ Close(t)
         \/ Loop \/ Pump \/ Disconnect \/ EndShutdown
<1> SUFFICES ASSUME NEW t \in Terminals, Tasks(t) \/ Environment(t) \/ Requests(t)
             PROVE  QuietStep(t) \/ SendStep(t) \/ Shutdown(t) \/ Open(t) \/ Attach(t) \/ Close(t)
  BY DEF TerminalNext
<1>1. TermTyped /\ Unopened(t) /\ Sound(term[t])
  BY DEF Base, TerminalTypes
<1>2. CASE ReadOutput(t)
  BY <1>1, <1>2, ReadOutputSends DEF SendStep, ReadOutput
<1>3. CASE ReadEnd(t)
  BY <1>1, <1>3, ReadEndSends DEF SendStep, ReadEnd
<1>4. CASE WriteInput(t)
  BY <1>1, <1>4, WriteInputQuietly DEF QuietStep, WriteInput
<1>5. CASE Reap(t)
  BY <1>1, <1>5, ReapQuietly DEF QuietStep, Reap
<1>6. CASE Drain(t)
  BY <1>1, <1>6, DrainQuietly DEF QuietStep, Drain
<1>7. CASE AnnounceExit(t)
  BY <1>1, <1>7, AnnounceExitTells DEF QuietStep, SendStep, AnnounceExit
<1>8. CASE StartCleaning(t)
  BY <1>1, <1>8, StartCleaningQuietly DEF QuietStep, StartCleaning
<1>9. CASE Retire(t)
  BY <1>1, <1>9, RetireQuietly DEF QuietStep, Retire
<1>10. CASE AnnounceClosed(t)
  BY <1>1, <1>10, AnnounceClosedTells DEF QuietStep, SendStep, AnnounceClosed
<1>11. CASE RemoveTerminal(t)
  BY <1>1, <1>11, RemoveTerminalQuietly DEF QuietStep, RemoveTerminal
<1>12. CASE ChildWrites(t)
  BY <1>1, <1>12, ChildWritesQuietly DEF QuietStep, ChildWrites
<1>13. CASE ChildExits(t)
  BY <1>1, <1>13, ChildExitsQuietly DEF QuietStep, ChildExits
<1>14. CASE ReadFails(t)
  BY <1>1, <1>14, ReadFailsQuietly DEF QuietStep, ReadFails
<1>15. CASE Expire(t)
  BY <1>1, <1>15, ExpireQuietly DEF QuietStep, Expire
<1>16. CASE Write(t) \/ Signal(t)
  BY <1>1, <1>16, WriteQuietly DEF QuietStep, Write, Signal, Rest, Others
<1> QED
  BY <1>2, <1>3, <1>4, <1>5, <1>6, <1>7, <1>8, <1>9, <1>10, <1>11, <1>12, <1>13, <1>14, <1>15, <1>16
     DEF Tasks, Waiter, Cleaner, Environment, Requests

LEMMA BaseInit ==
  ASSUME TerminalInit
  PROVE  Base
<1>1. TerminalTypes
  BY FreshTyped, WaitingTyped
     DEF TerminalInit, TerminalTypes, TermTyped, LoopTyped, WireTyped, WireRecord, ChannelTyped,
         Waiting
<1>2. LoopServes /\ ActivatesOpen /\ Activating
  BY DEF TerminalInit, LoopServes, ActivatesOpen, Activating, Waiting
<1>3. \A t \in Terminals : Unopened(t) /\ Sound(term[t])
  BY DEF TerminalInit, Unopened, Sound, ExitSound, GoneIsQuiet, Fresh
<1> QED
  BY <1>1, <1>2, <1>3 DEF Base

\* A step that replaces the state of one terminal by a sound one.
LEMMA BaseReplaced ==
  ASSUME Base, NEW t \in Terminals, NEW d \in TerminalRecord, Only(t, d), Sound(d),
         d.where # "none"
  PROVE  /\ TermTyped'
         /\ \A u \in Terminals : (Unopened(u) /\ Sound(term[u]))'
         /\ term'[t] = d /\ \A u \in Terminals \ {t} : term'[u] = term[u]
         /\ \A u \in Terminals : term[u].where # "none" => term'[u].where # "none"
<1>1. TermTyped
  BY DEF Base, TerminalTypes
<1>2. TermTyped'
  BY <1>1, OnlyTyped
<1>3. term'[t] = d /\ \A u \in Terminals \ {t} : term'[u] = term[u]
  BY <1>1 DEF TermTyped, Only
<1>4. ASSUME NEW u \in Terminals PROVE (Unopened(u) /\ Sound(term[u]))'
  <2>1. CASE u = t
    BY <1>3, <2>1 DEF Unopened
  <2>2. CASE u # t
    BY <1>3, <2>2 DEF Base, Unopened
  <2> QED
    BY <2>1, <2>2
<1> QED
  BY <1>2, <1>3, <1>4

LEMMA BaseQuiet ==
  ASSUME Base, NEW t \in Terminals, QuietStep(t)
  PROVE  Base'
<1>1. PICK d \in TerminalRecord : Only(t, d) /\ Steady(term[t], d) /\ Sound(d)
  BY DEF QuietStep, Quietly
<1>2. d.where # "none"
  BY <1>1 DEF Steady
<1>3. /\ TermTyped' /\ \A u \in Terminals : (Unopened(u) /\ Sound(term[u]))'
      /\ term'[t] = d /\ \A u \in Terminals \ {t} : term'[u] = term[u]
      /\ \A u \in Terminals : term[u].where # "none" => term'[u].where # "none"
  BY <1>1, <1>2, BaseReplaced
<1>4. UNCHANGED <<loop, wire, channel, inHand, conn>>
  BY DEF QuietStep, Others
<1>5. (LoopTyped /\ WireTyped /\ ChannelTyped /\ LoopServes)'
  BY <1>3, <1>4 DEF Base, TerminalTypes, LoopTyped, WireTyped, ChannelTyped, LoopServes
<1>6. (ActivatesOpen /\ Activating)'
  <2> SUFFICES ASSUME loop.pc = "respond", loop.then = "activate"
               PROVE  /\ term'[loop.of].where = "open" /\ term'[loop.of].cleaner = "none"
                      /\ ~term'[loop.of].active
    BY <1>4 DEF ActivatesOpen, Activating
  <2>1. loop.of \in Terminals
    BY DEF Base, TerminalTypes, LoopTyped
  <2>2. term[loop.of].where = "open" /\ term[loop.of].cleaner = "none" /\ ~term[loop.of].active
    BY DEF Base, ActivatesOpen, Activating
  <2>3. CASE loop.of = t
    BY <1>1, <1>3, <2>2, <2>3 DEF Steady
  <2>4. CASE loop.of # t
    BY <1>3, <2>1, <2>2, <2>4
  <2> QED
    BY <2>3, <2>4
<1> QED
  BY <1>3, <1>5, <1>6 DEF Base, TerminalTypes

LEMMA BaseSend ==
  ASSUME Base, NEW t \in Terminals, SendStep(t)
  PROVE  Base'
<1>1. PICK d \in TerminalRecord, E \in Seq(Events) :
          Only(t, d) /\ Emit(E) /\ Aside(term[t], d) /\ Sound(d)
  BY DEF SendStep, Sends
<1>2. d.where # "none"
  BY <1>1 DEF Aside
<1>3. /\ TermTyped' /\ \A u \in Terminals : (Unopened(u) /\ Sound(term[u]))'
      /\ term'[t] = d /\ \A u \in Terminals \ {t} : term'[u] = term[u]
      /\ \A u \in Terminals : term[u].where # "none" => term'[u].where # "none"
  BY <1>1, <1>2, BaseReplaced
<1>4. UNCHANGED <<loop, wire, inHand, conn>>
  BY DEF SendStep, Others
<1>5. (LoopTyped /\ WireTyped /\ LoopServes)'
  BY <1>3, <1>4 DEF Base, TerminalTypes, LoopTyped, WireTyped, LoopServes
<1>6. ChannelTyped'
  BY <1>1, <1>4, EmitTyped DEF Base, TerminalTypes
<1>7. (ActivatesOpen /\ Activating)'
  <2> SUFFICES ASSUME loop.pc = "respond", loop.then = "activate"
               PROVE  /\ term'[loop.of].where = "open" /\ term'[loop.of].cleaner = "none"
                      /\ ~term'[loop.of].active
    BY <1>4 DEF ActivatesOpen, Activating
  <2>1. loop.of \in Terminals
    BY DEF Base, TerminalTypes, LoopTyped
  <2>2. term[loop.of].where = "open" /\ term[loop.of].cleaner = "none" /\ ~term[loop.of].active
    BY DEF Base, ActivatesOpen, Activating
  <2>3. loop.of # t
    BY <1>1, <2>2 DEF Aside
  <2> QED
    BY <1>3, <2>1, <2>2, <2>3
<1> QED
  BY <1>3, <1>5, <1>6, <1>7 DEF Base, TerminalTypes

\* A step that leaves the terminals as they are.
LEMMA BaseUnmoved ==
  ASSUME Base, UNCHANGED term
  PROVE  /\ TermTyped' /\ \A u \in Terminals : (Unopened(u) /\ Sound(term[u]))'
         /\ loop' = Waiting => (LoopTyped /\ LoopServes /\ ActivatesOpen /\ Activating)'
<1>1. TermTyped' /\ \A u \in Terminals : (Unopened(u) /\ Sound(term[u]))'
  BY DEF Base, TerminalTypes, TermTyped, Unopened
<1>2. ASSUME loop' = Waiting PROVE (LoopTyped /\ LoopServes /\ ActivatesOpen /\ Activating)'
  BY <1>2, WaitingTyped DEF LoopTyped, LoopServes, ActivatesOpen, Activating, Waiting
<1> QED
  BY <1>1, <1>2

\* The loop is idle again.
LEMMA IdleLoop ==
  ASSUME loop' = Waiting
  PROVE  (LoopTyped /\ LoopServes /\ ActivatesOpen /\ Activating)'
  BY WaitingTyped DEF LoopTyped, LoopServes, ActivatesOpen, Activating, Waiting

LEMMA BaseOpen ==
  ASSUME Base, NEW t \in Terminals, Open(t)
  PROVE  Base'
<1> DEFINE d == [Fresh EXCEPT !.where = "open", !.attachment = 1, !.child = "alive"]
<1>1. d \in TerminalRecord
  BY FreshTyped DEF TerminalRecord
<1>2. /\ Sound(d) /\ d.where = "open" /\ d.cleaner = "none" /\ ~d.active
  BY DEF Fresh, Sound, ExitSound, ReadAll, GoneIsQuiet
<1>3. Only(t, d) /\ conn = "serving" /\ UNCHANGED <<channel, inHand, conn, wire>>
  BY DEF Open, Rest, Serving
<1>4. loop' = [Waiting EXCEPT !.pc = "respond", !.of = t, !.then = "activate"]
  BY DEF Open
<1> HIDE DEF d
<1>5. /\ TermTyped' /\ \A u \in Terminals : (Unopened(u) /\ Sound(term[u]))'
      /\ term'[t] = d
  BY <1>1, <1>2, <1>3, BaseReplaced
<1>6. (LoopTyped /\ LoopServes /\ ActivatesOpen /\ Activating)'
  <2>1. /\ loop' \in LoopRecord /\ loop'.pc = "respond" /\ loop'.of = t
        /\ loop'.then = "activate"
    BY <1>4, WaitingTyped DEF LoopRecord
  <2> QED
    BY <1>2, <1>3, <1>5, <2>1 DEF LoopTyped, LoopServes, ActivatesOpen, Activating
<1>7. (WireTyped /\ ChannelTyped)'
  BY <1>3 DEF Base, TerminalTypes, WireTyped, ChannelTyped
<1> QED
  BY <1>5, <1>6, <1>7 DEF Base, TerminalTypes

LEMMA BaseAttach ==
  ASSUME Base, NEW t \in Terminals, Attach(t)
  PROVE  Base'
<1>1. PICK cursor \in 0..term[t].latest :
          loop' = [Waiting EXCEPT !.pc = "await", !.of = t, !.cursor = cursor]
  BY DEF Attach
<1>2. UNCHANGED <<term, channel, inHand, conn, wire>> /\ conn = "serving" /\ term[t].where = "open"
  BY DEF Attach, Serving, Known
<1>3. cursor \in Nat
  BY DEF Base, TerminalTypes, TermTyped, TerminalRecord
<1>4. (LoopTyped /\ LoopServes /\ ActivatesOpen /\ Activating)'
  <2>1. loop' \in LoopRecord /\ loop'.pc = "await" /\ loop'.of = t
    BY <1>1, <1>3, WaitingTyped DEF LoopRecord
  <2> QED
    BY <1>2, <2>1 DEF LoopTyped, LoopServes, ActivatesOpen, Activating
<1>5. (WireTyped /\ ChannelTyped)'
  BY <1>2 DEF Base, TerminalTypes, WireTyped, ChannelTyped
<1> QED
  BY <1>2, <1>4, <1>5, BaseUnmoved DEF Base, TerminalTypes

LEMMA BaseRotate ==
  ASSUME Base, AttachReady
  PROVE  Base'
<1> DEFINE t == loop.of
           c == term[t]
           n == c.attachment + 1
           d == [c EXCEPT !.attachment = n, !.barrier = TRUE]
           frames == After(c.retained, loop.cursor)
<1>1. loop.pc = "await" /\ t \in Terminals /\ c.where # "none"
  BY DEF Base, AttachReady, TerminalTypes, LoopTyped, LoopServes
<1>2. c \in TerminalRecord /\ Sound(c) /\ loop \in LoopRecord
  BY <1>1 DEF Base, TerminalTypes, TermTyped, LoopTyped
<1>3. Only(t, d) /\ UNCHANGED <<channel, inHand, conn, wire>>
  BY <1>2 DEF AttachReady, Rotate, TerminalRecord
<1>4. loop' = [loop EXCEPT !.pc = "respond", !.then = "replay", !.frames = frames]
  BY DEF AttachReady, Rotate
<1>5. frames \in Seq(Events)
  BY <1>2, AfterSound DEF TerminalRecord, LoopRecord
<1>6. n \in Nat
  BY <1>2 DEF TerminalRecord
<1> HIDE DEF n, frames
<1>7. d \in TerminalRecord
  BY <1>2, <1>6 DEF TerminalRecord
<1>8. Sound(d) /\ d.where # "none"
  BY <1>1, <1>2 DEF TerminalRecord, Sound, ExitSound, ReadAll, GoneIsQuiet
<1> HIDE DEF d
<1>9. /\ TermTyped' /\ \A u \in Terminals : (Unopened(u) /\ Sound(term[u]))'
      /\ term'[t] = d
  BY <1>1, <1>3, <1>7, <1>8, BaseReplaced
<1>10. (LoopTyped /\ LoopServes /\ ActivatesOpen /\ Activating)'
  <2>1. conn = "serving"
    BY <1>1 DEF Base, LoopServes
  <2>2. loop'.of = t /\ loop'.pc = "respond" /\ loop'.then = "replay" /\ loop' \in LoopRecord
    BY <1>2, <1>4, <1>5 DEF LoopRecord
  <2> QED
    BY <1>1, <1>3, <1>8, <1>9, <2>1, <2>2 DEF LoopTyped, LoopServes, ActivatesOpen, Activating
<1>11. (WireTyped /\ ChannelTyped)'
  BY <1>3 DEF Base, TerminalTypes, WireTyped, ChannelTyped
<1> QED
  BY <1>9, <1>10, <1>11 DEF Base, TerminalTypes

LEMMA BaseClose ==
  ASSUME Base, NEW t \in Terminals, Close(t)
  PROVE  Base'
<1> DEFINE c == term[t]
           d == [c EXCEPT !.closing = TRUE]
<1>1. c \in TerminalRecord /\ Sound(c) /\ c.where = "open" /\ conn = "serving"
  BY DEF Base, TerminalTypes, TermTyped, Close, Known, Serving
<1>2. Only(t, d) /\ UNCHANGED <<channel, inHand, conn, wire>>
  BY DEF Close, Rest
<1>3. loop' = [Waiting EXCEPT !.pc = "respond", !.of = t, !.then = "terminate"]
  BY DEF Close
<1>4. d \in TerminalRecord /\ Sound(d) /\ d.where = "open"
  <2>1. d \in TerminalRecord
    BY <1>1 DEF TerminalRecord
  <2>2. ExitSound(d)
    BY <1>1 DEF TerminalRecord, Sound, ExitSound, ReadAll
  <2>3. GoneIsQuiet(d) /\ d.where = "open" /\ d.latest <= d.seq
    BY <1>1 DEF TerminalRecord, Sound, GoneIsQuiet
  <2> QED
    BY <2>1, <2>2, <2>3 DEF Sound
<1> HIDE DEF d
<1>5. /\ TermTyped' /\ \A u \in Terminals : (Unopened(u) /\ Sound(term[u]))'
      /\ term'[t] = d
  BY <1>2, <1>4, BaseReplaced
<1>6. (LoopTyped /\ LoopServes /\ ActivatesOpen /\ Activating)'
  <2>1. /\ loop' \in LoopRecord /\ loop'.pc = "respond" /\ loop'.of = t
        /\ loop'.then = "terminate"
    BY <1>3, WaitingTyped DEF LoopRecord
  <2> QED
    BY <1>1, <1>2, <1>4, <1>5, <2>1 DEF LoopTyped, LoopServes, ActivatesOpen, Activating
<1>7. (WireTyped /\ ChannelTyped)'
  BY <1>2 DEF Base, TerminalTypes, WireTyped, ChannelTyped
<1> QED
  BY <1>5, <1>6, <1>7 DEF Base, TerminalTypes

\* A terminal that is asked for its cleaner is as sound as before.
LEMMA CleanedSound ==
  ASSUME NEW c \in TerminalRecord, Sound(c), c.where # "none"
  PROVE  /\ Cleaned(c) \in TerminalRecord /\ Sound(Cleaned(c))
         /\ Cleaned(c).where = c.where
         /\ Cleaned(c).seq = c.seq /\ Cleaned(c).retained = c.retained
         /\ Cleaned(c).barrier = c.barrier /\ Cleaned(c).written = c.written
         /\ Cleaned(c).failed = c.failed /\ Cleaned(c).attachment = c.attachment
         /\ (c.closing => Cleaned(c).closing)
<1>1. Cleaned(c) \in TerminalRecord
  BY CleanedTyped
<1>2. CASE c.life = "closed"
  BY <1>1, <1>2 DEF Cleaned
<1>3. CASE c.life # "closed"
  <2> DEFINE d == Cleaned(c)
  <2>1. /\ d.pty = c.pty /\ d.undecoded = c.undecoded /\ d.child = c.child /\ d.reader = c.reader
        /\ d.failed = c.failed /\ d.waiter = c.waiter /\ d.exitDone = c.exitDone
        /\ d.active = c.active /\ d.where = c.where /\ d.life = c.life /\ d.closing
        /\ d.cleaner = IF c.cleaner = "none" THEN "start" ELSE c.cleaner
        /\ d.seq = c.seq /\ d.retained = c.retained /\ d.barrier = c.barrier
        /\ d.written = c.written /\ d.attachment = c.attachment /\ d.latest = c.latest
    BY <1>3 DEF Cleaned, TerminalRecord
  <2> HIDE DEF d
  <2>2. Sound(d)
    BY <2>1 DEF Sound, ExitSound, ReadAll, GoneIsQuiet
  <2> QED
    BY <1>1, <2>1, <2>2 DEF d
<1> QED
  BY <1>2, <1>3

\* The client sees the response of an attach: nothing moves, some events become late.
LEMMA SeesReplyTyped ==
  ASSUME WireTyped, ChannelTyped, NEW t \in Terminals, loop.cursor \in Nat, SeesReply(t)
  PROVE  /\ WireTyped' /\ ChannelTyped'
         /\ wire'[t] = [wire[t] EXCEPT !.cursor = loop.cursor, !.events = <<>>]
         /\ \A u \in Terminals \ {t} : wire'[u] = wire[u]
         /\ DOMAIN channel' = DOMAIN channel
         /\ \A i \in DOMAIN channel : channel'[i] = Overtaken(t, channel[i])
         /\ inHand' = Overtaken(t, inHand)
<1> DEFINE w == [wire[t] EXCEPT !.cursor = loop.cursor, !.events = <<>>]
<1>1. wire \in [Terminals -> WireRecord] /\ channel \in Seq(Events)
      /\ inHand \in Events \cup {Nothing}
  BY DEF WireTyped, ChannelTyped
<1>2. w \in WireRecord
  <2>1. wire[t] \in WireRecord /\ <<>> \in Seq(Events)
    BY <1>1
  <2> DEFINE x == [wire[t] EXCEPT !.cursor = loop.cursor]
  <2>2. x \in WireRecord
    BY <2>1 DEF WireRecord
  <2>3. [x EXCEPT !.events = <<>>] \in WireRecord
    <3> HIDE DEF x
    <3> QED
      BY <2>1, <2>2 DEF WireRecord
  <2> QED
    BY <2>3
<1>3. wire' = [wire EXCEPT ![t] = w]
  BY <1>1 DEF SeesReply
<1> HIDE DEF w
<1>4. wire'[t] = w /\ wire' \in [Terminals -> WireRecord]
      /\ \A u \in Terminals \ {t} : wire'[u] = wire[u]
  BY <1>1, <1>2, <1>3
<1>5. \A e \in Events : Overtaken(t, e) \in Events
  BY DEF Overtaken, Events
<1>6. channel' = [i \in DOMAIN channel |-> Overtaken(t, channel[i])]
      /\ inHand' = Overtaken(t, inHand)
  BY DEF SeesReply
<1>7. channel' \in Seq(Events)
  <2>1. DOMAIN channel = 1..Len(channel) /\ Len(channel) \in Nat
        /\ \A i \in DOMAIN channel : channel[i] \in Events
    BY <1>1
  <2> QED
    BY <1>5, <1>6, <2>1
<1>8. inHand' \in Events \cup {Nothing}
  <2>1. Nothing.of # t
    BY TerminalAssumption DEF Nothing
  <2> QED
    BY <1>1, <1>5, <1>6, <2>1 DEF Overtaken
<1> QED
  BY <1>4, <1>6, <1>7, <1>8 DEF WireTyped, ChannelTyped, w

LEMMA BaseRespond ==
  ASSUME Base, Respond
  PROVE  Base'
<1> DEFINE t == loop.of
           c == term[t]
<1>1. /\ loop.pc = "respond" /\ t \in Terminals /\ c.where # "none" /\ c \in TerminalRecord
      /\ Sound(c) /\ loop \in LoopRecord /\ conn = "serving"
  BY DEF Base, Respond, TerminalTypes, TermTyped, LoopTyped, LoopServes
<1>2. UNCHANGED conn
  BY DEF Respond
<1>3. (WireTyped /\ ChannelTyped)'
  <2>1. CASE loop.then = "replay"
    <3>1. loop.cursor \in Nat
      BY <1>1 DEF LoopRecord
    <3> QED
      BY <1>1, <2>1, <3>1, SeesReplyTyped DEF Base, TerminalTypes, Respond
  <2>2. CASE loop.then # "replay"
    BY <2>2 DEF Respond, Base, TerminalTypes, WireTyped, ChannelTyped
  <2> QED
    BY <2>1, <2>2
<1>4. CASE loop.then = "activate"
  <2> DEFINE d == [c EXCEPT !.active = TRUE, !.reader = "run", !.waiter = "wait"]
  <2>1. Only(t, d) /\ loop' = Waiting
    BY <1>1, <1>4 DEF Respond, Activate
  <2>2. c.where = "open" /\ c.cleaner = "none" /\ ~c.active
    BY <1>1, <1>4 DEF Base, ActivatesOpen, Activating
  <2>3. d \in TerminalRecord /\ Sound(d) /\ d.where = "open"
    BY <1>1, <2>2 DEF TerminalRecord, Sound, ExitSound, ReadAll, GoneIsQuiet
  <2> HIDE DEF d
  <2>4. TermTyped' /\ \A u \in Terminals : (Unopened(u) /\ Sound(term[u]))'
    BY <1>1, <2>1, <2>3, BaseReplaced
  <2> QED
    BY <1>3, <2>1, <2>4, IdleLoop DEF Base, TerminalTypes
<1>5. CASE loop.then = "terminate"
  <2>1. Only(t, Cleaned(c)) /\ loop' = Waiting
    BY <1>1, <1>5 DEF Respond
  <2>2. Cleaned(c) \in TerminalRecord /\ Sound(Cleaned(c)) /\ Cleaned(c).where # "none"
    BY <1>1, CleanedSound
  <2>3. TermTyped' /\ \A u \in Terminals : (Unopened(u) /\ Sound(term[u]))'
    BY <1>1, <2>1, <2>2, BaseReplaced
  <2> QED
    BY <1>3, <2>1, <2>3, IdleLoop DEF Base, TerminalTypes
<1>6. CASE loop.then = "replay"
  <2>1. UNCHANGED term /\ loop' = [loop EXCEPT !.pc = "gate"]
    BY <1>1, <1>6 DEF Respond
  <2>2. (LoopTyped /\ LoopServes /\ ActivatesOpen /\ Activating)'
    BY <1>1, <1>2, <1>6, <2>1
       DEF LoopRecord, LoopTyped, LoopServes, ActivatesOpen, Activating
  <2> QED
    BY <1>3, <2>1, <2>2, BaseUnmoved DEF Base, TerminalTypes
<1> QED
  BY <1>1, <1>4, <1>5, <1>6 DEF Base, TerminalTypes, LoopTyped, LoopRecord

\* A terminal whose barrier is lifted, and one whose delivery fails, is as sound as before.
LEMMA UnbarredSound ==
  ASSUME NEW c \in TerminalRecord, Sound(c), NEW failed \in BOOLEAN, c.failed => failed
  PROVE  LET d == [c EXCEPT !.failed = failed, !.barrier = FALSE]
         IN  /\ d \in TerminalRecord /\ Sound(d) /\ d.where = c.where /\ d.seq = c.seq
             /\ d.retained = c.retained /\ d.written = c.written /\ d.failed = failed
             /\ d.attachment = c.attachment /\ d.closing = c.closing /\ ~d.barrier
<1> DEFINE d == [c EXCEPT !.failed = failed, !.barrier = FALSE]
<1>1. d \in TerminalRecord
  BY DEF TerminalRecord
<1>2. /\ d.pty = c.pty /\ d.undecoded = c.undecoded /\ d.child = c.child /\ d.reader = c.reader
      /\ d.failed = failed /\ d.waiter = c.waiter /\ d.exitDone = c.exitDone
      /\ d.active = c.active /\ d.where = c.where /\ d.life = c.life /\ d.closing = c.closing
      /\ d.cleaner = c.cleaner /\ d.seq = c.seq /\ d.retained = c.retained /\ ~d.barrier
      /\ d.written = c.written /\ d.attachment = c.attachment /\ d.latest = c.latest
  BY DEF TerminalRecord
<1> HIDE DEF d
<1>3. Sound(d)
  BY <1>2 DEF Sound, ExitSound, ReadAll, GoneIsQuiet
<1> QED
  BY <1>1, <1>2, <1>3 DEF d

LEMMA LiftedSound ==
  ASSUME NEW c \in TerminalRecord, Sound(c)
  PROVE  LET d == [c EXCEPT !.barrier = FALSE]
         IN  /\ d \in TerminalRecord /\ Sound(d) /\ d.where = c.where /\ d.seq = c.seq
             /\ d.retained = c.retained /\ d.written = c.written /\ d.failed = c.failed
             /\ d.attachment = c.attachment /\ d.closing = c.closing /\ ~d.barrier
<1> DEFINE e == [c EXCEPT !.failed = c.failed, !.barrier = FALSE]
<1>1. c.failed \in BOOLEAN
  BY DEF TerminalRecord
<1>2. /\ e \in TerminalRecord /\ Sound(e) /\ e.where = c.where /\ e.seq = c.seq
      /\ e.retained = c.retained /\ e.written = c.written /\ e.failed = c.failed
      /\ e.attachment = c.attachment /\ e.closing = c.closing /\ ~e.barrier
  BY <1>1, UnbarredSound
<1>3. [c EXCEPT !.barrier = FALSE] = e
  BY DEF TerminalRecord
<1> HIDE DEF e
<1> QED
  BY <1>2, <1>3

\* The steps of the loop that end its work, the replay included.
LEMMA BaseLoopEnds ==
  ASSUME Base, AttachFails \/ EndReplay \/ ReplayFails
  PROVE  Base'
<1> DEFINE t == loop.of
           c == term[t]
           d == [c EXCEPT !.barrier = FALSE]
           e == [c EXCEPT !.failed = TRUE, !.barrier = FALSE]
<1>1. /\ t \in Terminals /\ c.where # "none" /\ c \in TerminalRecord /\ Sound(c)
  BY DEF Base, AttachFails, EndReplay, ReplayFails, TerminalTypes, TermTyped, LoopTyped, LoopServes
<1>2. loop' = Waiting /\ UNCHANGED <<channel, inHand, wire>>
  BY DEF AttachFails, EndReplay, ReplayFails
<1>3. (WireTyped /\ ChannelTyped)'
  BY <1>2 DEF Base, TerminalTypes, WireTyped, ChannelTyped
<1>4. d \in TerminalRecord /\ Sound(d) /\ d.where # "none"
  BY <1>1, LiftedSound
<1>5. e \in TerminalRecord /\ Sound(e) /\ e.where # "none"
  BY <1>1, UnbarredSound
<1>6. UNCHANGED term \/ Only(t, d) \/ Only(t, Cleaned(e))
  BY DEF AttachFails, EndReplay, ReplayFails
<1> HIDE DEF d, e
<1>7. TermTyped' /\ \A u \in Terminals : (Unopened(u) /\ Sound(term[u]))'
  <2>1. CASE UNCHANGED term
    BY <2>1, BaseUnmoved
  <2>2. CASE Only(t, d)
    BY <1>1, <1>4, <2>2, BaseReplaced
  <2>3. CASE Only(t, Cleaned(e))
    BY <1>1, <1>5, <2>3, CleanedSound, BaseReplaced
  <2> QED
    BY <1>6, <2>1, <2>2, <2>3
<1> QED
  BY <1>2, <1>3, <1>7, IdleLoop DEF Base, TerminalTypes

LEMMA BaseStartReplay ==
  ASSUME Base, StartReplay
  PROVE  Base'
<1>1. loop' = Waiting \/ loop' = [loop EXCEPT !.pc = "replay"]
  BY DEF StartReplay
<1>2. loop.pc = "gate" /\ UNCHANGED <<term, channel, inHand, wire, conn>>
  BY DEF StartReplay
<1>3. (WireTyped /\ ChannelTyped)'
  BY <1>2 DEF Base, TerminalTypes, WireTyped, ChannelTyped
<1>4. CASE loop' = Waiting
  BY <1>2, <1>3, <1>4, BaseUnmoved DEF Base, TerminalTypes
<1>5. CASE loop' = [loop EXCEPT !.pc = "replay"]
  <2>1. (LoopTyped /\ LoopServes /\ ActivatesOpen /\ Activating)'
    BY <1>2, <1>5 DEF Base, TerminalTypes, LoopRecord, LoopTyped, LoopServes, ActivatesOpen, Activating
  <2> QED
    BY <1>2, <1>3, <2>1, BaseUnmoved DEF Base, TerminalTypes
<1> QED
  BY <1>1, <1>4, <1>5

LEMMA BaseReplay ==
  ASSUME Base, Replay
  PROVE  Base'
<1> DEFINE x == Head(loop.frames)
           rest == Tail(loop.frames)
<1>1. /\ loop.pc = "replay" /\ loop.frames # <<>> /\ UNCHANGED <<term, inHand, wire, conn>>
      /\ channel' = Append(channel, x) /\ loop' = [loop EXCEPT !.frames = Tail(@)]
  BY DEF Replay
<1>2. loop \in LoopRecord /\ loop.frames \in Seq(Events)
  BY DEF Base, TerminalTypes, LoopTyped, LoopRecord
<1>3. x \in Events /\ rest \in Seq(Events)
  BY <1>1, <1>2
<1>4. loop' = [loop EXCEPT !.frames = rest]
  BY <1>1, <1>2 DEF LoopRecord
<1> HIDE DEF x, rest
<1>5. (LoopTyped /\ LoopServes /\ ActivatesOpen /\ Activating)'
  BY <1>1, <1>2, <1>3, <1>4
     DEF Base, TerminalTypes, LoopRecord, LoopTyped, LoopServes, ActivatesOpen, Activating
<1>6. (WireTyped /\ ChannelTyped)'
  BY <1>1, <1>3 DEF Base, TerminalTypes, WireTyped, ChannelTyped
<1> QED
  BY <1>1, <1>5, <1>6, BaseUnmoved DEF Base, TerminalTypes

LEMMA BaseReceive ==
  ASSUME Base, Receive
  PROVE  Base'
<1>1. UNCHANGED <<term, loop, wire, conn>> /\ channel # <<>>
      /\ inHand' = Head(channel) /\ channel' = Tail(channel)
  BY DEF Receive
<1>2. (LoopTyped /\ LoopServes /\ ActivatesOpen /\ Activating /\ WireTyped)'
  BY <1>1 DEF Base, TerminalTypes, LoopTyped, LoopServes, ActivatesOpen, Activating, WireTyped
<1>3. ChannelTyped'
  BY <1>1 DEF Base, TerminalTypes, ChannelTyped
<1> QED
  BY <1>1, <1>2, <1>3, BaseUnmoved DEF Base, TerminalTypes

\* The event in hand is one of a terminal.
LEMMA HeldEvent ==
  ASSUME ChannelTyped, inHand # Nothing
  PROVE  inHand \in Events /\ inHand.of \in Terminals
  BY DEF ChannelTyped, Events

\* What is flushed counts as received, and follows the response if it was sent after it.
LEMMA FlushedWire ==
  ASSUME WireTyped, ChannelTyped, Flush
  PROVE  LET t == inHand.of
         IN  /\ WireTyped' /\ wire'[t].cursor = wire[t].cursor
             /\ wire'[t].got = wire[t].got \cup {inHand.seq}
             /\ wire'[t].events = IF inHand.late THEN wire[t].events
                                  ELSE Append(wire[t].events, inHand)
             /\ \A u \in Terminals \ {t} : wire'[u] = wire[u]
<1> SUFFICES ASSUME NEW t, t = inHand.of
             PROVE  /\ WireTyped' /\ wire'[t].cursor = wire[t].cursor
                    /\ wire'[t].got = wire[t].got \cup {inHand.seq}
                    /\ wire'[t].events = IF inHand.late THEN wire[t].events
                                         ELSE Append(wire[t].events, inHand)
                    /\ \A u \in Terminals \ {t} : wire'[u] = wire[u]
  OBVIOUS
<1>1. inHand \in Events /\ t \in Terminals /\ wire \in [Terminals -> WireRecord]
  BY HeldEvent DEF Flush, WireTyped
<1> DEFINE g == wire[t].got \cup {inHand.seq}
           v == IF inHand.late THEN wire[t].events ELSE Append(wire[t].events, inHand)
           w == [wire[t] EXCEPT !.got = g, !.events = v]
<1>2. wire[t] \in WireRecord /\ inHand.seq \in Nat
  BY <1>1 DEF Events
<1>3. g \in SUBSET Nat /\ v \in Seq(Events)
  BY <1>1, <1>2 DEF WireRecord
<1>4. wire' = [wire EXCEPT ![t] = w]
  BY <1>1 DEF Flush
<1> HIDE DEF g, v
<1>5. w \in WireRecord /\ w.cursor = wire[t].cursor /\ w.got = g /\ w.events = v
  BY <1>2, <1>3 DEF WireRecord
<1> HIDE DEF w
<1>6. /\ wire' \in [Terminals -> WireRecord] /\ wire'[t] = w
      /\ \A u \in Terminals \ {t} : wire'[u] = wire[u]
  BY <1>1, <1>4, <1>5
<1> QED
  BY <1>5, <1>6 DEF WireTyped, g, v

LEMMA BaseFlush ==
  ASSUME Base, Flush
  PROVE  Base'
<1> DEFINE t == inHand.of
           c == term[t]
           d == [c EXCEPT !.written = inHand.seq]
<1>1. inHand \in Events /\ t \in Terminals
  BY HeldEvent DEF Base, Flush, TerminalTypes
<1>2. /\ (Only(t, d) /\ c.where = "open") \/ Only(t, c)
      /\ inHand' = Nothing /\ UNCHANGED <<loop, channel, conn>>
  BY DEF Flush
<1>3. c \in TerminalRecord /\ Sound(c) /\ TermTyped
  BY <1>1 DEF Base, TerminalTypes, TermTyped
<1>4. (LoopTyped /\ LoopServes /\ ActivatesOpen /\ Activating)' /\ TermTyped'
      /\ \A u \in Terminals : (Unopened(u) /\ Sound(term[u]))'
  <2>1. CASE Only(t, d) /\ c.where = "open"
    <3>1. inHand.seq \in Nat
      BY <1>1 DEF Events
    <3>2. d \in TerminalRecord /\ d.where = "open" /\ d.cleaner = c.cleaner /\ d.active = c.active
      BY <1>3, <2>1, <3>1 DEF TerminalRecord
    <3>3. Sound(d)
      BY <1>3 DEF TerminalRecord, Sound, ExitSound, ReadAll, GoneIsQuiet
    <3> HIDE DEF d
    <3>4. /\ TermTyped' /\ \A u \in Terminals : (Unopened(u) /\ Sound(term[u]))'
          /\ term'[t] = d /\ \A u \in Terminals \ {t} : term'[u] = term[u]
          /\ \A u \in Terminals : term[u].where # "none" => term'[u].where # "none"
      BY <1>1, <2>1, <3>2, <3>3, BaseReplaced
    <3> QED
      BY <1>2, <2>1, <3>2, <3>4
         DEF Base, TerminalTypes, LoopTyped, LoopServes, ActivatesOpen, Activating
  <2>2. CASE Only(t, c)
    <3>1. term' = term
      BY <1>1, <1>3, <2>2 DEF Only, TermTyped
    <3>2. (LoopTyped /\ LoopServes /\ ActivatesOpen /\ Activating)'
      BY <1>2, <3>1 DEF Base, TerminalTypes, LoopTyped, LoopServes, ActivatesOpen, Activating
    <3> QED
      BY <3>1, <3>2, BaseUnmoved
  <2> QED
    BY <1>2, <2>1, <2>2
<1>5. ChannelTyped'
  BY <1>2 DEF Base, TerminalTypes, ChannelTyped
<1>6. WireTyped'
  BY FlushedWire DEF Base, TerminalTypes
<1> QED
  BY <1>4, <1>5, <1>6 DEF Base, TerminalTypes

LEMMA BaseConnection ==
  ASSUME Base, FailConnection \/ Disconnect \/ EndShutdown
  PROVE  Base'
<1>1. UNCHANGED <<term, inHand, wire>> /\ channel' \in {channel, <<>>}
  BY DEF FailConnection, Disconnect, EndShutdown
<1>2. loop' = Waiting \/ (UNCHANGED loop /\ conn # "serving")
  BY DEF FailConnection, Disconnect, EndShutdown
<1>3. (WireTyped /\ ChannelTyped)'
  <2>1. channel \in Seq(Events) /\ <<>> \in Seq(Events)
    BY DEF Base, TerminalTypes, ChannelTyped
  <2>2. channel' \in Seq(Events)
    BY <1>1, <2>1
  <2> QED
    BY <1>1, <2>2 DEF Base, TerminalTypes, WireTyped, ChannelTyped
<1>4. (LoopTyped /\ LoopServes /\ ActivatesOpen /\ Activating)'
  <2>1. CASE loop' = Waiting
    BY <1>1, <2>1, BaseUnmoved
  <2>2. CASE UNCHANGED loop /\ conn # "serving"
    BY <1>1, <2>2 DEF Base, TerminalTypes, LoopTyped, LoopServes, ActivatesOpen, Activating
  <2> QED
    BY <1>2, <2>1, <2>2
<1> QED
  BY <1>1, <1>3, <1>4, BaseUnmoved DEF Base, TerminalTypes

\* Shutdown lifts the barriers and asks one terminal to close.
LEMMA ShutdownEach ==
  ASSUME Base, NEW t \in Terminals, Shutdown(t), NEW u \in Terminals
  PROVE  /\ term'[u] \in TerminalRecord /\ Sound(term'[u])
         /\ (term[u].where = "none" => term'[u] = Fresh)
         /\ term'[u].where = term[u].where /\ term'[u].seq = term[u].seq
         /\ term'[u].retained = term[u].retained /\ term'[u].written = term[u].written
         /\ term'[u].failed = term[u].failed /\ term'[u].attachment = term[u].attachment
         /\ (term[u].closing => term'[u].closing)
<1> DEFINE c == term[u]
           d == [c EXCEPT !.barrier = FALSE]
<1>1. c \in TerminalRecord /\ Sound(c) /\ (c.where = "none" => c = Fresh)
  BY DEF Base, TerminalTypes, TermTyped, Unopened
<1>2. term'[u] = IF u = t THEN Cleaned(d) ELSE d
  BY DEF Shutdown
<1>3. /\ d \in TerminalRecord /\ d.where = c.where /\ d.seq = c.seq /\ d.retained = c.retained
      /\ d.written = c.written /\ d.failed = c.failed /\ d.attachment = c.attachment
      /\ d.closing = c.closing /\ Sound(d)
  BY <1>1, LiftedSound
<1>5. c.where = "none" => d = Fresh
  <2>1. c.barrier = FALSE => d = c
    BY <1>1 DEF TerminalRecord
  <2>2. Fresh.barrier = FALSE
    BY DEF Fresh
  <2> QED
    BY <1>1, <2>1, <2>2
<1>6. u = t => c.where = "open"
  BY DEF Shutdown
<1> HIDE DEF d
<1>7. CASE u = t
  BY <1>2, <1>3, <1>6, <1>7, CleanedSound
<1>8. CASE u # t
  BY <1>2, <1>3, <1>5, <1>8
<1> QED
  BY <1>7, <1>8

LEMMA BaseShutdown ==
  ASSUME Base, NEW t \in Terminals, Shutdown(t)
  PROVE  Base'
<1>1. UNCHANGED <<loop, channel, inHand, wire, conn>> /\ conn = "closing"
  BY DEF Shutdown
<1>2. \A u \in Terminals : term'[u] \in TerminalRecord /\ Sound(term'[u])
                            /\ (term[u].where = "none" => term'[u] = Fresh)
                            /\ term'[u].where = term[u].where
  BY ShutdownEach
<1>3. TermTyped'
  <2>1. term' = [u \in Terminals |-> term'[u]]
    BY DEF Shutdown
  <2> QED
    BY <1>2, <2>1 DEF TermTyped
<1>4. \A u \in Terminals : (Unopened(u) /\ Sound(term[u]))'
  BY <1>2 DEF Unopened
<1>5. (LoopTyped /\ LoopServes /\ ActivatesOpen /\ Activating /\ WireTyped /\ ChannelTyped)'
  BY <1>1 DEF Base, TerminalTypes, LoopTyped, LoopServes, ActivatesOpen, Activating, WireTyped,
              ChannelTyped
<1> QED
  BY <1>3, <1>4, <1>5 DEF Base, TerminalTypes

LEMMA BaseStep ==
  ASSUME Base, [TerminalNext]_terminalVars
  PROVE  Base'
<1>1. CASE TerminalNext
  BY <1>1, StepKinds, BaseQuiet, BaseSend, BaseOpen, BaseAttach, BaseRotate, BaseClose, BaseRespond,
     BaseLoopEnds, BaseStartReplay, BaseReplay, BaseReceive, BaseFlush, BaseConnection, BaseShutdown
     DEF Loop, Pump
<1>2. CASE UNCHANGED terminalVars
  <2>1. (TerminalTypes /\ LoopServes /\ ActivatesOpen /\ Activating)'
    BY <1>2 DEF terminalVars, Base, TerminalTypes, TermTyped, LoopTyped, WireTyped, ChannelTyped,
                LoopServes, ActivatesOpen, Activating
  <2> QED
    BY <1>2, <2>1 DEF terminalVars, Base, Unopened
<1> QED
  BY <1>1, <1>2

-----------------------------------------------------------------------------
(* The order of what is on its way.                                        *)

\* Retained output, and the part of it with the loop, that a step leaves as they are.
LEMMA RetainedFrame ==
  ASSUME NEW u \in Terminals, RetainedSound(u),
         term'[u].seq = term[u].seq, term'[u].retained = term[u].retained,
         Replays(u)' => /\ Replays(u) /\ term'[u].barrier = term[u].barrier
                        /\ loop'.frames = loop.frames /\ loop'.cursor = loop.cursor
                        /\ (loop'.pc = "respond" => loop.pc = "respond")
  PROVE  RetainedSound(u)'
  BY DEF RetainedSound, Ascends

\* A sequence that another one is appended to.
LEMMA Appended ==
  ASSUME NEW a \in Seq(Events), NEW b \in Seq(Events)
  PROVE  /\ \A i \in DOMAIN a : i \in DOMAIN (a \o b) /\ (a \o b)[i] = a[i]
         /\ \A j \in DOMAIN b : (Len(a) + j) \in DOMAIN (a \o b) /\ (a \o b)[Len(a) + j] = b[j]
         /\ \A i \in DOMAIN (a \o b) :
               \/ i \in DOMAIN a
               \/ i - Len(a) \in DOMAIN b /\ i > Len(a) /\ (a \o b)[i] = b[i - Len(a)]
  OBVIOUS

\* The events of another terminal change nothing for this one.
LEMMA OrderOthers ==
  ASSUME ChannelTyped, NEW u \in Terminals, OrderOf(u), NEW s \in Seq(Events),
         \A i \in DOMAIN s : ~Mine(s[i], u),
         channel' = channel \o s,
         term'[u].seq = term[u].seq, term'[u].retained = term[u].retained,
         Silent(u) => Silent(u)', wire'[u] = wire[u], UNCHANGED inHand,
         Pending(u)' = Pending(u), RetainedSound(u)'
  PROVE  OrderOf(u)'
<1>1. Pending(u)' = Pending(u)
  OBVIOUS
<1>2. channel \in Seq(Events)
  BY DEF ChannelTyped
<1>3. \A i \in DOMAIN channel : i \in DOMAIN channel' /\ channel'[i] = channel[i]
  BY <1>2, Appended
<1>4. \A i \in DOMAIN channel' : Mine(channel'[i], u) => i \in DOMAIN channel
  <2> SUFFICES ASSUME NEW i \in DOMAIN channel', i \notin DOMAIN channel
               PROVE  ~Mine(channel'[i], u)
    OBVIOUS
  <2>1. i - Len(channel) \in DOMAIN s /\ channel'[i] = s[i - Len(channel)]
    BY <1>2, Appended
  <2> QED
    BY <2>1
<1>5. UpTo(u, term[u].seq)'
  BY <1>1, <1>3, <1>4 DEF OrderOf, UpTo
<1>6. InOrder(u)'
  BY <1>1, <1>3, <1>4 DEF OrderOf, InOrder, Ascends
<1>7. Complete(u)'
  BY <1>1, <1>3, <1>4 DEF OrderOf, Complete, OnItsWay, UpTo
<1> QED
  BY <1>5, <1>6, <1>7 DEF OrderOf

\* A step that touches nothing that is on its way.
LEMMA OrderSame ==
  ASSUME ChannelTyped, NEW u \in Terminals, OrderOf(u),
         term'[u].seq = term[u].seq, term'[u].retained = term[u].retained,
         Silent(u) => Silent(u)', wire'[u] = wire[u], UNCHANGED <<inHand, channel>>,
         Pending(u)' = Pending(u), RetainedSound(u)'
  PROVE  OrderOf(u)'
<1>1. channel' = channel \o <<>> /\ <<>> \in Seq(Events)
  BY DEF ChannelTyped
<1>2. \A i \in DOMAIN <<>> : ~Mine(<<>>[i], u)
  OBVIOUS
<1> QED
  BY <1>1, <1>2, OrderOthers

\* A step that touches of what is on its way only what does not count for this terminal.
LEMMA OrderAside ==
  ASSUME NEW u \in Terminals, OrderOf(u),
         term'[u].seq = term[u].seq, term'[u].retained = term[u].retained,
         Silent(u) => Silent(u)', wire'[u].cursor = wire[u].cursor,
         wire'[u].events = wire[u].events,
         DOMAIN channel' = DOMAIN channel,
         \A i \in DOMAIN channel :
            channel'[i] = channel[i] \/ (~Mine(channel[i], u) /\ ~Mine(channel'[i], u)),
         inHand' = inHand \/ (~Mine(inHand, u) /\ ~Mine(inHand', u)),
         Pending(u)' = Pending(u), RetainedSound(u)'
  PROVE  OrderOf(u)'
<1>1. /\ UpTo(u, term[u].seq) /\ InOrder(u) /\ Complete(u)
      /\ \A i \in DOMAIN term[u].retained : Mine(term[u].retained[i], u)
  BY DEF OrderOf, RetainedSound
<1>2. ASSUME NEW n, UpTo(u, n) PROVE UpTo(u, n)'
  BY <1>2 DEF UpTo
<1>3. InOrder(u)'
  BY <1>1 DEF InOrder, Ascends
<1>4. Complete(u)'
  <2> SUFFICES ASSUME NEW i \in DOMAIN term[u].retained,
                      term[u].retained[i].seq > wire[u].cursor
               PROVE  OnItsWay(u, term[u].retained[i])'
                      \/ (Silent(u) /\ UpTo(u, term[u].retained[i].seq - 1))'
    BY DEF Complete
  <2> DEFINE e == term[u].retained[i]
  <2>1. OnItsWay(u, e) \/ (Silent(u) /\ UpTo(u, e.seq - 1))
    BY <1>1 DEF Complete
  <2>2. Mine(e, u) /\ e' = e
    BY <1>1
  <2>3. CASE OnItsWay(u, e)
    BY <2>2, <2>3 DEF OnItsWay
  <2>4. CASE Silent(u) /\ UpTo(u, e.seq - 1)
    BY <1>2, <2>2, <2>4
  <2> QED
    BY <2>1, <2>3, <2>4
<1> QED
  BY <1>1, <1>2, <1>3, <1>4 DEF OrderOf

\* Nor what the loop does.
LEMMA OrderFrame ==
  ASSUME ChannelTyped, NEW u \in Terminals, OrderOf(u),
         term'[u].seq = term[u].seq, term'[u].retained = term[u].retained,
         term'[u].barrier = term[u].barrier, Silent(u) => Silent(u)',
         wire'[u] = wire[u], UNCHANGED <<inHand, channel, loop>>
  PROVE  OrderOf(u)'
<1>1. Pending(u)' = Pending(u) /\ (Replays(u)' <=> Replays(u))
  BY DEF Pending, Replays
<1>2. RetainedSound(u)'
  BY <1>1, RetainedFrame DEF OrderOf
<1> QED
  BY <1>1, <1>2, OrderSame

Order == \A t \in Terminals : OrderOf(t)

LEMMA OrderQuiet ==
  ASSUME Base, Order, NEW t \in Terminals, QuietStep(t)
  PROVE  Order'
<1>1. PICK d \in TerminalRecord : Only(t, d) /\ Steady(term[t], d) /\ Sound(d)
  BY DEF QuietStep, Quietly
<1>2. term'[t] = d /\ \A u \in Terminals \ {t} : term'[u] = term[u]
  BY <1>1 DEF Only, Base, TerminalTypes, TermTyped
<1>3. UNCHANGED <<loop, inHand, channel, wire, pump>>
  BY DEF QuietStep, Others
<1>4. ASSUME NEW u \in Terminals PROVE OrderOf(u)'
  <2>1. /\ term'[u].seq = term[u].seq /\ term'[u].retained = term[u].retained
        /\ term'[u].barrier = term[u].barrier
        /\ (term[u].failed => term'[u].failed)
        /\ (term[u].where = "gone" => term'[u].where = "gone")
    BY <1>1, <1>2 DEF Steady
  <2>2. Silent(u) => Silent(u)'
    BY <1>3, <2>1 DEF Silent
  <2> QED
    BY <1>3, <2>1, <2>2, OrderFrame DEF Order, Base, TerminalTypes
<1> QED
  BY <1>4 DEF Order

\* A live event finds no replay in progress.
LEMMA NoReplayNow ==
  ASSUME Base, NEW t \in Terminals, RetainedSound(t), ~term[t].barrier
  PROVE  ~Replays(t) /\ Pending(t) = <<>>
  BY DEF Base, TerminalTypes, LoopTyped, RetainedSound, Replays, Pending

\* What is retained after a send: what was, or the first event.
LEMMA KeepsElements ==
  ASSUME NEW r \in Seq(Events), NEW s, NEW E \in Seq(Events), Keeps(r, s, E)
  PROVE  /\ \A i \in DOMAIN s :
               \/ \E j \in DOMAIN r : s[i] = r[j]
               \/ 1 \in DOMAIN E /\ s[i] = E[1] /\ E[1].kind = "output"
         /\ Ascends(r) /\ (1 \in DOMAIN E => \A j \in DOMAIN r : r[j].seq < E[1].seq) => Ascends(s)
<1>1. CASE s = r
  BY <1>1
<1>2. CASE s # r
  <2>1. E # <<>> /\ E[1].kind = "output"
        /\ \E k \in 1..(Len(r) + 2) : s = SubSeq(Append(r, E[1]), k, Len(r) + 1)
    BY <1>2 DEF Keeps
  <2>2. PICK k \in 1..(Len(r) + 2) : s = SubSeq(Append(r, E[1]), k, Len(r) + 1)
    BY <2>1
  <2>3. 1 \in DOMAIN E /\ E[1] \in Events
    BY <2>1
  <2> DEFINE a == Append(r, E[1])
             n == Len(r)
  <2>4. a \in Seq(Events) /\ Len(a) = n + 1 /\ n \in Nat /\ a[n + 1] = E[1]
        /\ \A j \in 1..n : a[j] = r[j]
    BY <2>3
  <2> HIDE DEF a
  <2>5. DOMAIN s = 1..(n + 2 - k) /\ \A i \in 1..(n + 2 - k) : s[i] = a[i + k - 1]
    BY <2>2, <2>4 DEF a
  <2>6. \A i \in DOMAIN s : i + k - 1 \in 1..(n + 1)
    BY <2>5
  <2>7. ASSUME NEW i \in DOMAIN s
        PROVE  s[i] = IF i + k - 1 = n + 1 THEN E[1] ELSE r[i + k - 1]
    <3>1. s[i] = a[i + k - 1] /\ i + k - 1 \in 1..(n + 1)
      BY <2>5, <2>6
    <3>2. CASE i + k - 1 = n + 1
      BY <2>4, <3>1, <3>2
    <3>3. CASE i + k - 1 # n + 1
      <4>1. i + k - 1 \in 1..n
        BY <2>4, <3>1, <3>3
      <4> QED
        BY <2>4, <3>1, <3>3, <4>1
    <3> QED
      BY <3>2, <3>3
  <2>8. ASSUME NEW i \in DOMAIN s
        PROVE  (\E j \in DOMAIN r : s[i] = r[j]) \/ s[i] = E[1]
    <3>1. i + k - 1 = n + 1 \/ i + k - 1 \in DOMAIN r
      BY <2>6
    <3> QED
      BY <2>7, <3>1
  <2>9. ASSUME Ascends(r), \A j \in DOMAIN r : r[j].seq < E[1].seq
        PROVE  Ascends(s)
    <3> SUFFICES ASSUME NEW i \in DOMAIN s, NEW j \in DOMAIN s, i < j
                 PROVE  s[i].seq < s[j].seq
      BY DEF Ascends
    <3>1. i + k - 1 \in DOMAIN r /\ i + k - 1 < j + k - 1
      BY <2>5, <2>6
    <3>2. s[i] = r[i + k - 1]
      BY <2>7, <3>1
    <3>3. CASE j + k - 1 = n + 1
      BY <2>7, <2>9, <3>1, <3>2, <3>3
    <3>4. CASE j + k - 1 # n + 1
      <4>1. j + k - 1 \in DOMAIN r /\ s[j] = r[j + k - 1]
        BY <2>6, <2>7, <3>4
      <4> QED
        BY <2>9, <3>1, <3>2, <4>1 DEF Ascends
    <3> QED
      BY <3>3, <3>4
  <2> QED
    BY <2>1, <2>3, <2>8, <2>9
<1> QED
  BY <1>1, <1>2

\* The events of a terminal extend its own order.
LEMMA OrderOwn ==
  ASSUME Base, NEW t \in Terminals, OrderOf(t), ~term[t].barrier,
         NEW d \in TerminalRecord, NEW E \in Seq(Events), NEW k \in 0..Len(E),
         Numbered(t, term[t], d, E), Keeps(term[t].retained, d.retained, E),
         k = Len(E) \/ d.failed, pump = "ended" => k = 0, term[t].where = "open",
         ~term[t].failed, ~d.barrier, d.where = "open",
         term'[t] = d, channel' = channel \o SubSeq(E, 1, k),
         wire'[t] = wire[t], UNCHANGED <<inHand, loop, pump>>
  PROVE  OrderOf(t)'
<1> DEFINE c == term[t]
           s == SubSeq(E, 1, k)
<1>1. /\ s \in Seq(Events) /\ DOMAIN s = 1..k /\ \A i \in 1..k : i \in DOMAIN E /\ s[i] = E[i]
  OBVIOUS
<1>2. /\ channel \in Seq(Events) /\ c \in TerminalRecord /\ c.retained \in Seq(Events)
      /\ c.seq \in Nat /\ d.seq \in Nat /\ d.retained \in Seq(Events)
  BY DEF Base, TerminalTypes, ChannelTyped, TermTyped, TerminalRecord
<1>3. channel' = channel \o s
  OBVIOUS
<1>4. /\ c.seq <= d.seq /\ Ascends(E)
      /\ \A i \in DOMAIN E : Mine(E[i], t) /\ E[i].seq \in Nat /\ c.seq < E[i].seq /\ E[i].seq <= d.seq
  <2>1. \A i \in DOMAIN E : E[i] \in Events
    OBVIOUS
  <2>2. \A i \in DOMAIN E : E[i].seq \in Nat
    BY <2>1 DEF Events
  <2> QED
    BY <2>2 DEF Numbered
<1> HIDE DEF s
<1>5. /\ \A i \in DOMAIN s : Mine(s[i], t) /\ s[i].seq \in Nat /\ c.seq < s[i].seq /\ s[i].seq <= d.seq
      /\ \A i, j \in DOMAIN s : i < j => s[i].seq < s[j].seq
  BY <1>1, <1>4 DEF Ascends
<1>0. \A i \in DOMAIN c.retained : c.retained[i].seq \in Nat
  <2>1. \A i \in DOMAIN c.retained : c.retained[i] \in Events
    BY <1>2
  <2> QED
    BY <2>1 DEF Events
<1>6. /\ \A i \in DOMAIN channel : i \in DOMAIN channel' /\ channel'[i] = channel[i]
      /\ \A j \in DOMAIN s : (Len(channel) + j) \in DOMAIN channel' /\ channel'[Len(channel) + j] = s[j]
      /\ \A i \in DOMAIN channel' :
            \/ i \in DOMAIN channel
            \/ i - Len(channel) \in DOMAIN s /\ i > Len(channel) /\ channel'[i] = s[i - Len(channel)]
  <2> DEFINE b == channel \o s
  <2>1. /\ \A i \in DOMAIN channel : i \in DOMAIN b /\ b[i] = channel[i]
        /\ \A j \in DOMAIN s : (Len(channel) + j) \in DOMAIN b /\ b[Len(channel) + j] = s[j]
        /\ \A i \in DOMAIN b :
              \/ i \in DOMAIN channel
              \/ i - Len(channel) \in DOMAIN s /\ i > Len(channel) /\ b[i] = s[i - Len(channel)]
    BY ONLY <1>1, <1>2, Appended
  <2> HIDE DEF b
  <2> QED
    BY <1>3, <2>1 DEF b
<1>7. /\ ~Replays(t) /\ Pending(t) = <<>> /\ ~Replays(t)' /\ Pending(t)' = <<>>
  <2>1. ~Replays(t) /\ Pending(t) = <<>>
    BY NoReplayNow DEF OrderOf
  <2> QED
    BY <2>1 DEF Replays, Pending
<1>8. /\ \A i \in DOMAIN wire[t].events : wire[t].events[i].seq <= c.seq
                                          /\ wire[t].events[i].seq \in Nat
      /\ Mine(inHand, t) => inHand.seq <= c.seq /\ inHand.seq \in Nat
      /\ \A i \in DOMAIN channel : channel[i].seq \in Nat
                                   /\ (Mine(channel[i], t) => channel[i].seq <= c.seq)
  <2>1. wire[t].events \in Seq(Events) /\ channel \in Seq(Events)
    BY DEF Base, TerminalTypes, WireTyped, WireRecord, ChannelTyped
  <2>2. inHand.seq \in Nat
    BY DEF Base, TerminalTypes, ChannelTyped, Events, Nothing
  <2>3. UpTo(t, c.seq)
    BY DEF OrderOf
  <2>4. /\ \A i \in DOMAIN wire[t].events : wire[t].events[i] \in Events
        /\ \A i \in DOMAIN channel : channel[i] \in Events
    BY <2>1
  <2>5. \A x \in Events : x.seq \in Nat
    BY DEF Events
  <2> QED
    BY <2>2, <2>3, <2>4, <2>5 DEF UpTo
<1>a. UNCHANGED <<inHand, loop, pump>> /\ wire'[t] = wire[t] /\ term'[t] = d
  OBVIOUS
<1>b. Keeps(c.retained, d.retained, E)
  OBVIOUS
<1> HIDE DEF c
<1>9. UpTo(t, d.seq)'
  <2>1. ASSUME NEW i \in DOMAIN channel', Mine(channel'[i], t) PROVE channel'[i].seq <= d.seq
    <3>1. CASE i \in DOMAIN channel
      <4>1. channel'[i].seq \in Nat /\ channel'[i].seq <= c.seq
        BY <1>6, <1>8, <2>1, <3>1
      <4> QED
        BY ONLY <1>2, <1>4, <4>1
    <3>2. CASE i \notin DOMAIN channel
      BY <1>5, <1>6, <3>2
    <3> QED
      BY <3>1, <3>2
  <2>2. \A i \in DOMAIN wire[t].events : wire[t].events[i].seq <= d.seq
    BY <1>2, <1>4, <1>8
  <2>3. Mine(inHand, t) => inHand.seq <= d.seq
    BY <1>2, <1>4, <1>8
  <2> QED
    BY <1>7, <1>a, <2>1, <2>2, <2>3 DEF UpTo
<1>10. InOrder(t)'
  <2>1. InOrder(t)
    BY DEF OrderOf
  <2>2. ASSUME NEW i \in DOMAIN channel', NEW j \in DOMAIN channel', i < j,
               Mine(channel'[i], t), Mine(channel'[j], t)
        PROVE  channel'[i].seq < channel'[j].seq
    <3>1. i \in Nat /\ j \in Nat /\ Len(channel) \in Nat /\ DOMAIN channel = 1..Len(channel)
      BY <1>1, <1>2, <1>3
    <3>2. CASE j \in DOMAIN channel
      <4>1. i \in DOMAIN channel
        BY <1>6, <2>2, <3>1, <3>2
      <4> QED
        BY <1>6, <2>1, <2>2, <3>2, <4>1 DEF InOrder
    <3>3. CASE j \notin DOMAIN channel
      <4>1. j - Len(channel) \in DOMAIN s /\ channel'[j] = s[j - Len(channel)]
        BY <1>6, <3>3
      <4>2. CASE i \in DOMAIN channel
        <5>1. channel'[i] = channel[i]
          BY <1>6, <4>2
        <5>2. channel[i].seq <= c.seq /\ channel[i].seq \in Nat
          BY <1>8, <2>2, <4>2, <5>1
        <5>3. c.seq < channel'[j].seq /\ channel'[j].seq \in Nat
          BY <1>5, <4>1
        <5> QED
          BY ONLY <1>2, <5>1, <5>2, <5>3
      <4>3. CASE i \notin DOMAIN channel
        <5>1. i - Len(channel) \in DOMAIN s /\ channel'[i] = s[i - Len(channel)]
          BY <1>6, <4>3
        <5>2. i - Len(channel) < j - Len(channel)
          BY <2>2, <3>1
        <5> QED
          BY <1>5, <4>1, <5>1, <5>2
      <4> QED
        BY <4>2, <4>3
    <3> QED
      BY <3>2, <3>3
  <2>3. ASSUME NEW j \in DOMAIN channel', Mine(channel'[j], t)
        PROVE  /\ \A i \in DOMAIN wire[t].events : wire[t].events[i].seq < channel'[j].seq
               /\ Mine(inHand, t) => inHand.seq < channel'[j].seq
    <3>1. CASE j \in DOMAIN channel
      BY <1>6, <2>1, <2>3, <3>1 DEF InOrder
    <3>2. CASE j \notin DOMAIN channel
      <4>1. c.seq < channel'[j].seq /\ channel'[j].seq \in Nat
        BY <1>5, <1>6, <3>2
      <4> QED
        BY ONLY <1>2, <1>8, <4>1
    <3> QED
      BY <3>1, <3>2
  <2>4. Ascends(wire[t].events)
    BY <2>1 DEF InOrder
  <2> QED
    <3>1. Ascends(Pending(t)') /\ DOMAIN (Pending(t)') = {}
      BY <1>7 DEF Ascends
    <3>2. wire'[t] = wire[t] /\ inHand' = inHand
      BY <1>a
    <3>3. \A i \in DOMAIN wire'[t].events :
            /\ Mine(inHand', t) => wire'[t].events[i].seq < inHand'.seq
            /\ \A j \in DOMAIN channel' :
                  Mine(channel'[j], t) => wire'[t].events[i].seq < channel'[j].seq
      <4>1. Mine(inHand, t) => \A i \in DOMAIN wire[t].events : wire[t].events[i].seq < inHand.seq
        BY <2>1 DEF InOrder
      <4> QED
        BY <2>3, <3>2, <4>1
    <3>4. Ascends(wire'[t].events)
      BY <2>4, <3>2
    <3>5. Mine(inHand', t) => \A j \in DOMAIN channel' :
                               Mine(channel'[j], t) => inHand'.seq < channel'[j].seq
      BY <2>3, <3>2
    <3> HIDE DEF Ascends
    <3> QED
      BY <2>2, <3>1, <3>3, <3>4, <3>5 DEF InOrder
<1>11. RetainedSound(t)'
  <2>1. RetainedSound(t)
    BY DEF OrderOf
  <2>2. \A i \in DOMAIN d.retained :
          \/ \E j \in DOMAIN c.retained : d.retained[i] = c.retained[j]
          \/ 1 \in DOMAIN E /\ d.retained[i] = E[1] /\ E[1].kind = "output"
    BY <1>2, <1>b, KeepsElements
  <2>3. Ascends(d.retained)
    <3>1. 1 \in DOMAIN E => \A j \in DOMAIN c.retained : c.retained[j].seq < E[1].seq
      <4> SUFFICES ASSUME 1 \in DOMAIN E, NEW j \in DOMAIN c.retained
                   PROVE  c.retained[j].seq < E[1].seq
        OBVIOUS
      <4>1. c.retained[j].seq <= c.seq /\ c.retained[j].seq \in Nat
        BY <1>0, <2>1 DEF RetainedSound, c
      <4>2. c.seq < E[1].seq /\ E[1].seq \in Nat
        BY <1>4
      <4> QED
        BY ONLY <1>2, <4>1, <4>2
    <3>2. Ascends(c.retained)
      BY <2>1 DEF RetainedSound, c
    <3> QED
      BY <1>2, <1>b, <3>1, <3>2, KeepsElements
  <2>4. ASSUME NEW i \in DOMAIN d.retained
        PROVE  d.retained[i].seq <= d.seq /\ Mine(d.retained[i], t) /\ d.retained[i].kind = "output"
    <3>1. CASE \E j \in DOMAIN c.retained : d.retained[i] = c.retained[j]
      <4>1. PICK j \in DOMAIN c.retained : d.retained[i] = c.retained[j]
        BY <3>1
      <4>2. c.retained[j].seq <= c.seq /\ c.retained[j].seq \in Nat /\ Mine(c.retained[j], t)
            /\ c.retained[j].kind = "output"
        BY <1>0, <2>1 DEF RetainedSound, c
      <4> QED
        BY ONLY <1>2, <1>4, <4>1, <4>2
    <3>2. CASE 1 \in DOMAIN E /\ d.retained[i] = E[1] /\ E[1].kind = "output"
      BY <1>4, <3>2
    <3> QED
      BY <2>2, <3>1, <3>2
  <2> QED
    BY <1>7, <1>a, <2>3, <2>4 DEF RetainedSound
<1>12. Complete(t)'
  <2> SUFFICES ASSUME NEW i \in DOMAIN d.retained, d.retained[i].seq > wire[t].cursor
               PROVE  \/ OnItsWay(t, d.retained[i])'
                      \/ Silent(t)' /\ UpTo(t, d.retained[i].seq - 1)'
    BY <1>a DEF Complete
  <2> DEFINE e == d.retained[i]
  <2>1. k = 0 => \A j \in DOMAIN channel' : j \in DOMAIN channel /\ channel'[j] = channel[j]
    BY <1>1, <1>2, <1>3
  <2>2. CASE \E j \in DOMAIN c.retained : e = c.retained[j]
    <3>1. OnItsWay(t, e) \/ (Silent(t) /\ UpTo(t, e.seq - 1))
      BY <2>2 DEF OrderOf, Complete, c
    <3>2. CASE OnItsWay(t, e)
      BY <1>6, <1>7, <1>a, <3>2 DEF OnItsWay
    <3>3. CASE Silent(t) /\ UpTo(t, e.seq - 1)
      <4>1. pump = "ended" /\ k = 0
        BY <3>3 DEF Silent
      <4>2. UpTo(t, e.seq - 1)'
        BY <1>7, <1>a, <2>1, <3>3, <4>1 DEF UpTo
      <4> QED
        BY <1>a, <4>1, <4>2 DEF Silent
    <3> QED
      BY <3>1, <3>2, <3>3
  <2>3. CASE 1 \in DOMAIN E /\ e = E[1]
    <3>1. CASE k >= 1
      <4>1. 1 \in DOMAIN s /\ s[1] = e
        BY <1>1, <2>3, <3>1
      <4>2. Len(channel) + 1 \in DOMAIN channel' /\ channel'[Len(channel) + 1] = e
        BY <1>6, <4>1
      <4> QED
        BY <4>2 DEF OnItsWay
    <3>2. CASE k = 0
      <4>1. Len(E) # 0
        BY <2>3
      <4>2. Silent(t)'
        BY <1>a, <3>2, <4>1 DEF Silent
      <4>3. e.seq \in Nat /\ c.seq < e.seq
        BY <1>4, <2>3
      <4>4. /\ \A j \in DOMAIN wire[t].events : wire[t].events[j].seq <= e.seq - 1
            /\ Mine(inHand, t) => inHand.seq <= e.seq - 1
            /\ \A j \in DOMAIN channel : Mine(channel[j], t) => channel[j].seq <= e.seq - 1
        <5>1. \A n \in Nat : n <= c.seq => n <= e.seq - 1
          BY <1>2, <4>3
        <5> HIDE DEF e
        <5> QED
          BY ONLY <1>8, <5>1
      <4>5. UpTo(t, e.seq - 1)'
        BY <1>7, <1>a, <2>1, <3>2, <4>4 DEF UpTo
      <4> QED
        BY <4>2, <4>5
    <3> QED
      BY <3>1, <3>2
  <2>4. \/ \E j \in DOMAIN c.retained : e = c.retained[j]
        \/ 1 \in DOMAIN E /\ e = E[1]
    BY <1>2, <1>b, KeepsElements
  <2> QED
    BY <2>2, <2>3, <2>4
<1> QED
  BY <1>a, <1>9, <1>10, <1>11, <1>12 DEF OrderOf

LEMMA OrderSend ==
  ASSUME Base, Order, NEW t \in Terminals, SendStep(t)
  PROVE  Order'
<1>1. PICK d \in TerminalRecord, E \in Seq(Events) :
         /\ Only(t, d) /\ Emit(E) /\ MayEmit(t) /\ ~term[t].failed
         /\ Numbered(t, term[t], d, E) /\ Keeps(term[t].retained, d.retained, E)
         /\ Delivered(E) \/ d.failed
         /\ Aside(term[t], d) /\ Sound(d)
  BY DEF SendStep, Sends
<1>2. term'[t] = d /\ \A u \in Terminals \ {t} : term'[u] = term[u]
  BY <1>1 DEF Only, Base, TerminalTypes, TermTyped
<1>3. UNCHANGED <<loop, inHand, wire, pump>>
  BY DEF SendStep, Others
<1>4. ChannelTyped
  BY DEF Base, TerminalTypes
<1>5. PICK k \in 0..Len(E) :
         /\ Sent(E) = SubSeq(E, 1, k)
         /\ pump = "ended" => k = 0
         /\ Delivered(E) <=> k = Len(E)
  BY <1>4, SentSound
<1>6. channel' = channel \o SubSeq(E, 1, k)
  BY <1>1, <1>5 DEF Emit
<1>7. OrderOf(t)'
  <2>1. ~term[t].barrier /\ ~d.barrier /\ term[t].where = "open" /\ d.where = "open"
    BY <1>1 DEF MayEmit, Aside
  <2> QED
    BY <1>1, <1>2, <1>3, <1>5, <1>6, <2>1, OrderOwn DEF Order
<1>8. ASSUME NEW u \in Terminals, u # t PROVE OrderOf(u)'
  <2> DEFINE s == SubSeq(E, 1, k)
  <2>1. s \in Seq(Events) /\ \A i \in DOMAIN s : i \in DOMAIN E /\ s[i] = E[i]
    OBVIOUS
  <2>2. \A i \in DOMAIN s : ~Mine(s[i], u)
    BY <1>1, <1>8, <2>1 DEF Numbered, Mine
  <2>3. channel' = channel \o s
    BY <1>6
  <2> HIDE DEF s
  <2>4. term'[u] = term[u] /\ OrderOf(u)
    BY <1>2, <1>8 DEF Order
  <2>5. Pending(u)' = Pending(u) /\ (Replays(u)' <=> Replays(u)) /\ (Silent(u) => Silent(u)')
    BY <1>3, <2>4 DEF Pending, Replays, Silent
  <2>6. RetainedSound(u)'
    BY <1>3, <2>4, <2>5, RetainedFrame DEF OrderOf
  <2> QED
    BY <1>3, <1>4, <2>1, <2>2, <2>3, <2>4, <2>5, <2>6, OrderOthers
<1> QED
  BY <1>7, <1>8 DEF Order

\* Nothing of a replay is with the loop that starts or ends something else.
LEMMA NoReplay ==
  ASSUME NEW u \in Terminals, loop.of # u \/ loop.pc \notin {"respond", "gate", "replay"}
                                          \/ loop.then # "replay",
         LoopTyped
  PROVE  ~Replays(u) /\ Pending(u) = <<>>
  BY DEF Replays, Pending, LoopTyped

LEMMA OrderOpen ==
  ASSUME Base, Order, NEW t \in Terminals, Open(t)
  PROVE  Order'
<1> DEFINE d == [Fresh EXCEPT !.where = "open", !.attachment = 1, !.child = "alive"]
<1>1. /\ Only(t, d) /\ UNCHANGED <<channel, inHand, pump, wire>> /\ loop.pc = "idle"
      /\ term[t] = Fresh
  BY DEF Open, Rest, Serving, Base, Unopened
<1>2. term'[t] = d /\ \A u \in Terminals \ {t} : term'[u] = term[u]
  BY <1>1 DEF Only, Base, TerminalTypes, TermTyped
<1>3. loop'.pc = "respond" /\ loop'.then = "activate"
  BY DEF Open, Waiting
<1>4. ChannelTyped
  BY DEF Base, TerminalTypes
<1>5. ASSUME NEW u \in Terminals PROVE OrderOf(u)'
  <2>0. d.seq = Fresh.seq /\ d.retained = Fresh.retained /\ ~Fresh.failed /\ Fresh.where # "gone"
    BY DEF Fresh
  <2> HIDE DEF d
  <2>1. term'[u].seq = term[u].seq /\ term'[u].retained = term[u].retained
        /\ (Silent(u) => Silent(u)')
    BY <1>1, <1>2, <2>0 DEF Silent
  <2>2. Pending(u) = <<>> /\ Pending(u)' = <<>> /\ ~Replays(u)'
    BY <1>1, <1>3 DEF Pending, Replays
  <2>3. RetainedSound(u)'
    BY <2>1, <2>2, RetainedFrame DEF Order, OrderOf
  <2> QED
    BY <1>1, <1>4, <2>1, <2>2, <2>3, OrderSame DEF Order
<1> QED
  BY <1>5 DEF Order

\* An attach or a close begins, or one that came to nothing ends.
LEMMA OrderBegins ==
  ASSUME Base, Order, (\E t \in Terminals : Attach(t) \/ Close(t)) \/ AttachFails \/ Disconnect
  PROVE  Order'
<1>1. /\ UNCHANGED <<channel, inHand, pump, wire>>
      /\ loop.pc \in {"idle", "await", "respond"}
      /\ loop'.pc \in {"idle", "await"} \/ (loop'.pc = "respond" /\ loop'.then = "terminate")
  <2>1. CASE \E t \in Terminals : Attach(t)
    BY <2>1 DEF Attach, Serving, Waiting
  <2>2. CASE \E t \in Terminals : Close(t)
    BY <2>2 DEF Close, Serving, Rest, Waiting
  <2>3. CASE AttachFails \/ Disconnect
    BY <2>3 DEF AttachFails, Disconnect, Waiting
  <2> QED
    BY <2>1, <2>2, <2>3
<1>2. ChannelTyped
  BY DEF Base, TerminalTypes
<1>3. ASSUME NEW u \in Terminals PROVE OrderOf(u)'
  <2>1. term'[u].seq = term[u].seq /\ term'[u].retained = term[u].retained
        /\ (Silent(u) => Silent(u)')
    <3>1. CASE UNCHANGED term
      BY <1>1, <3>1 DEF Silent
    <3>2. CASE \E t \in Terminals : Close(t)
      <4>1. PICK t \in Terminals : Only(t, [term[t] EXCEPT !.closing = TRUE])
        BY <3>2 DEF Close
      <4>2. \A v \in Terminals : /\ term'[v].seq = term[v].seq /\ term'[v].retained = term[v].retained
                                 /\ term'[v].failed = term[v].failed /\ term'[v].where = term[v].where
        <5>1. \A v \in Terminals : term[v] \in TerminalRecord
                /\ term'[v] \in {term[v], [term[v] EXCEPT !.closing = TRUE]}
          BY <4>1 DEF Only, Base, TerminalTypes, TermTyped
        <5>2. ASSUME NEW c \in TerminalRecord
              PROVE  LET d == [c EXCEPT !.closing = TRUE]
                     IN  d.seq = c.seq /\ d.retained = c.retained /\ d.failed = c.failed
                         /\ d.where = c.where
          BY DEF TerminalRecord
        <5> QED
          BY <5>1, <5>2
      <4> QED
        BY <1>1, <4>2 DEF Silent
    <3> QED
      BY <3>1, <3>2 DEF Attach, AttachFails, Disconnect
  <2>2. Pending(u) = <<>> /\ Pending(u)' = <<>> /\ ~Replays(u)'
    BY <1>1 DEF Pending, Replays
  <2>3. RetainedSound(u)'
    BY <2>1, <2>2, RetainedFrame DEF Order, OrderOf
  <2> QED
    BY <1>1, <1>2, <2>1, <2>2, <2>3, OrderSame DEF Order
<1> QED
  BY <1>3 DEF Order

\* The retained output after the cursor is what the replay will send.
LEMMA OrderRotate ==
  ASSUME Base, Order, AttachReady
  PROVE  Order'
<1> SUFFICES ASSUME NEW t, t = loop.of PROVE Order'
  OBVIOUS
<1> DEFINE n == term[t].attachment + 1
           d == [term[t] EXCEPT !.attachment = n, !.barrier = TRUE]
           frames == After(term[t].retained, loop.cursor)
<1>1. /\ loop.pc = "await" /\ t \in Terminals
      /\ term[t] \in TerminalRecord /\ loop \in LoopRecord /\ ChannelTyped
  BY DEF Base, AttachReady, TerminalTypes, LoopTyped, TermTyped
<1>2. Only(t, d) /\ UNCHANGED <<channel, inHand, pump, wire>>
  BY <1>1 DEF AttachReady, Rotate, TerminalRecord
<1>3. /\ loop'.pc = "respond" /\ loop'.then = "replay" /\ loop'.of = t
      /\ loop'.frames = frames /\ loop'.cursor = loop.cursor
  BY <1>1 DEF AttachReady, Rotate, LoopRecord
<1>4. term'[t] = d /\ \A u \in Terminals \ {t} : term'[u] = term[u]
  BY <1>1, <1>2 DEF Only, Base, TerminalTypes, TermTyped
<1>5. /\ d.seq = term[t].seq /\ d.retained = term[t].retained /\ d.failed = term[t].failed
      /\ d.where = term[t].where /\ d.barrier
  BY <1>1 DEF TerminalRecord
<1>6. term[t].retained \in Seq(Events) /\ loop.cursor \in Nat
  BY <1>1 DEF TerminalRecord, LoopRecord
<1>7. /\ \A j \in DOMAIN frames : \E i \in DOMAIN term[t].retained : frames[j] = term[t].retained[i]
      /\ \A i \in DOMAIN term[t].retained :
            term[t].retained[i].seq > loop.cursor =>
               \E j \in DOMAIN frames : frames[j] = term[t].retained[i]
      /\ Ascends(term[t].retained) => Ascends(frames)
  BY <1>6, AfterSound
<1> HIDE DEF n, frames, d
<1>8. RetainedSound(t)'
  <2>1. RetainedSound(t)
    BY <1>1 DEF Order, OrderOf
  <2>2. \A j \in DOMAIN frames : Mine(frames[j], t) /\ frames[j].seq <= term[t].seq
    BY <1>7, <2>1 DEF RetainedSound
  <2>3. Ascends(term[t].retained) /\ Ascends(frames)
    BY <1>7, <2>1 DEF RetainedSound
  <2>4. \A e \in ToSet(term[t].retained) :
           e.seq > loop.cursor => \E j \in DOMAIN frames : frames[j] = e
    BY <1>7 DEF ToSet
  <2>5. loop'.of = t /\ term'[t].retained = term[t].retained /\ term'[t].seq = term[t].seq
        /\ term'[t].barrier
    BY <1>3, <1>4, <1>5
  <2> QED
    BY <1>3, <2>1, <2>2, <2>3, <2>4, <2>5 DEF RetainedSound
<1>9. ASSUME NEW u \in Terminals PROVE OrderOf(u)'
  <2>1. term'[u].seq = term[u].seq /\ term'[u].retained = term[u].retained
        /\ (Silent(u) => Silent(u)')
    BY <1>2, <1>4, <1>5 DEF Silent
  <2>2. Pending(u) = <<>> /\ Pending(u)' = <<>> /\ (u # t => ~Replays(u)')
    BY <1>1, <1>3 DEF Pending, Replays
  <2>3. RetainedSound(u)'
    BY <1>8, <2>1, <2>2, RetainedFrame DEF Order, OrderOf
  <2> QED
    BY <1>1, <1>2, <2>1, <2>2, <2>3, OrderSame DEF Order
<1> QED
  BY <1>9 DEF Order

\* All that is on its way is numbered.
LEMMA NumbersTyped ==
  ASSUME Base, NEW u \in Terminals
  PROVE  /\ \A i \in DOMAIN wire[u].events : wire[u].events[i].seq \in Nat
         /\ inHand.seq \in Nat
         /\ \A i \in DOMAIN channel : channel[i].seq \in Nat
         /\ \A i \in DOMAIN Pending(u) : Pending(u)[i].seq \in Nat
         /\ \A i \in DOMAIN term[u].retained : term[u].retained[i].seq \in Nat
         /\ term[u].seq \in Nat
<1>1. /\ wire[u].events \in Seq(Events) /\ channel \in Seq(Events)
      /\ loop.frames \in Seq(Events) /\ term[u].retained \in Seq(Events) /\ term[u].seq \in Nat
  BY DEF Base, TerminalTypes, WireTyped, WireRecord, ChannelTyped, LoopTyped, LoopRecord,
         TermTyped, TerminalRecord
<1>2. Pending(u) \in Seq(Events)
  BY <1>1 DEF Pending
<1>3. inHand.seq \in Nat
  BY DEF Base, TerminalTypes, ChannelTyped, Events, Nothing
<1>4. \A x \in Events : x.seq \in Nat
  BY DEF Events
<1>5. ASSUME NEW s \in Seq(Events) PROVE \A i \in DOMAIN s : s[i].seq \in Nat
  BY <1>4
<1> QED
  BY <1>1, <1>2, <1>3, <1>5

\* The client has seen the response: what was on its way is late.
LEMMA OrderReplied ==
  ASSUME Base, Order, Respond, loop.then = "replay"
  PROVE  Order'
<1> SUFFICES ASSUME NEW t, t = loop.of PROVE Order'
  OBVIOUS
<1>1. /\ loop.pc = "respond" /\ t \in Terminals /\ loop \in LoopRecord /\ ChannelTyped
      /\ WireTyped
  BY DEF Base, Respond, TerminalTypes, LoopTyped
<1>2. /\ UNCHANGED <<term, pump>> /\ loop' = [loop EXCEPT !.pc = "gate"] /\ SeesReply(t)
  BY <1>1 DEF Respond
<1>3. /\ loop'.pc = "gate" /\ loop'.then = "replay" /\ loop'.of = t /\ loop'.frames = loop.frames
      /\ loop'.cursor = loop.cursor /\ loop.cursor \in Nat
  BY <1>1, <1>2 DEF LoopRecord
<1>4. /\ wire'[t] = [wire[t] EXCEPT !.cursor = loop.cursor, !.events = <<>>]
      /\ \A u \in Terminals \ {t} : wire'[u] = wire[u]
      /\ DOMAIN channel' = DOMAIN channel
      /\ \A i \in DOMAIN channel : channel'[i] = Overtaken(t, channel[i])
      /\ inHand' = Overtaken(t, inHand)
  BY <1>1, <1>2, <1>3, SeesReplyTyped
<1>a. wire'[t].events = <<>> /\ wire'[t].cursor = loop.cursor
  <2>1. wire[t] \in WireRecord
    BY <1>1 DEF WireTyped
  <2> QED
    BY <1>4, <2>1 DEF WireRecord
<1>b. \A e \in Events \cup {Nothing} :
        /\ ~Mine(Overtaken(t, e), t)
        /\ \A u \in Terminals \ {t} :
              \/ Overtaken(t, e) = e
              \/ (~Mine(e, u) /\ ~Mine(Overtaken(t, e), u))
  <2> SUFFICES ASSUME NEW e \in Events \cup {Nothing}
               PROVE  /\ ~Mine(Overtaken(t, e), t)
                      /\ \A u \in Terminals \ {t} :
                            \/ Overtaken(t, e) = e
                            \/ (~Mine(e, u) /\ ~Mine(Overtaken(t, e), u))
    OBVIOUS
  <2>1. CASE e.of = t
    <3>1. e \in Events
      BY <1>1, <2>1, TerminalAssumption DEF Nothing
    <3>2. Overtaken(t, e).of = t /\ Overtaken(t, e).late
      BY <2>1, <3>1 DEF Overtaken, Events
    <3> QED
      BY <2>1, <3>2 DEF Mine
  <2>2. CASE e.of # t
    BY <2>2 DEF Overtaken, Mine
  <2> QED
    BY <2>1, <2>2
<1>c. inHand \in Events \cup {Nothing} /\ \A i \in DOMAIN channel : channel[i] \in Events
  BY <1>1 DEF ChannelTyped
<1>d. /\ \A u \in Terminals \ {t} : inHand' = inHand \/ (~Mine(inHand, u) /\ ~Mine(inHand', u))
      /\ \A i \in DOMAIN channel : \A u \in Terminals \ {t} :
            channel'[i] = channel[i] \/ (~Mine(channel[i], u) /\ ~Mine(channel'[i], u))
  <2>1. ASSUME NEW u \in Terminals, u # t, NEW e \in Events \cup {Nothing}
        PROVE  Overtaken(t, e) = e \/ (~Mine(e, u) /\ ~Mine(Overtaken(t, e), u))
    BY <1>b, <2>1
  <2>2. ASSUME NEW u \in Terminals, u # t
        PROVE  inHand' = inHand \/ (~Mine(inHand, u) /\ ~Mine(inHand', u))
    BY ONLY <1>4, <1>c, <2>1, <2>2
  <2>3. ASSUME NEW i \in DOMAIN channel, NEW u \in Terminals, u # t
        PROVE  channel'[i] = channel[i] \/ (~Mine(channel[i], u) /\ ~Mine(channel'[i], u))
    <3>1. channel[i] \in Events \cup {Nothing} /\ channel'[i] = Overtaken(t, channel[i])
      BY <1>4, <1>c
    <3> QED
      BY ONLY <2>1, <2>3, <3>1
  <2> QED
    BY <2>2, <2>3
<1>5. ~Mine(inHand', t) /\ \A i \in DOMAIN channel' : ~Mine(channel'[i], t)
  BY <1>4, <1>b, <1>c
<1>6. Replays(t) /\ RetainedSound(t) /\ Pending(t)' = loop.frames
  BY <1>1, <1>3 DEF Replays, Order, OrderOf, Pending
<1>7. OrderOf(t)'
  <2>1. UpTo(t, term[t].seq)'
    BY <1>2, <1>a, <1>5, <1>6 DEF UpTo, RetainedSound
  <2>2. InOrder(t)'
    BY <1>a, <1>5, <1>6 DEF InOrder, RetainedSound, Ascends
  <2>3. RetainedSound(t)'
    BY <1>2, <1>3, <1>6, RetainedFrame, <1>1
  <2>4. Complete(t)'
    <3> SUFFICES ASSUME NEW i \in DOMAIN term[t].retained, term[t].retained[i].seq > loop.cursor
                 PROVE  OnItsWay(t, term[t].retained[i])'
      BY <1>2, <1>a DEF Complete
    <3>1. term[t].retained[i] \in ToSet(term[t].retained)
      BY DEF ToSet
    <3>2. \E j \in DOMAIN loop.frames : loop.frames[j] = term[t].retained[i]
      BY <1>1, <1>6, <3>1 DEF RetainedSound
    <3> QED
      BY <1>2, <1>6, <3>2 DEF OnItsWay
  <2> QED
    BY <1>2, <2>1, <2>2, <2>3, <2>4 DEF OrderOf
<1>8. ASSUME NEW u \in Terminals, u # t PROVE OrderOf(u)'
  <2>1. Pending(u) = <<>> /\ Pending(u)' = <<>> /\ ~Replays(u)' /\ (Silent(u) => Silent(u)')
    BY <1>1, <1>2, <1>3, <1>8 DEF Pending, Replays, Silent
  <2>2. RetainedSound(u)'
    BY <1>2, <2>1, RetainedFrame DEF Order, OrderOf
  <2>3. \A i \in DOMAIN channel :
           channel'[i] = channel[i] \/ (~Mine(channel[i], u) /\ ~Mine(channel'[i], u))
    BY <1>8, <1>d
  <2>4. inHand' = inHand \/ (~Mine(inHand, u) /\ ~Mine(inHand', u))
    BY <1>8, <1>d
  <2>5. wire'[u] = wire[u] /\ term'[u] = term[u] /\ OrderOf(u)
    BY <1>2, <1>4, <1>8 DEF Order
  <2> QED
    BY <1>4, <2>1, <2>2, <2>3, <2>4, <2>5, OrderAside
<1> QED
  BY <1>7, <1>8 DEF Order

\* What a step that keeps seq, retained, where and failed of the terminals does not disturb.
Retentive ==
    \A u \in Terminals :
        /\ term'[u].seq = term[u].seq /\ term'[u].retained = term[u].retained
        /\ (Silent(u) => Silent(u)')

LEMMA OrderActs ==
  ASSUME Base, Order, Respond, loop.then \in {"activate", "terminate"}
  PROVE  Order'
<1> SUFFICES ASSUME NEW t, t = loop.of PROVE Order'
  OBVIOUS
<1> DEFINE c == term[t]
           d == [c EXCEPT !.active = TRUE, !.reader = "run", !.waiter = "wait"]
<1>1. /\ loop.pc = "respond" /\ t \in Terminals /\ c \in TerminalRecord /\ ChannelTyped
      /\ wire \in [Terminals -> WireRecord]
  BY DEF Base, Respond, TerminalTypes, LoopTyped, TermTyped, WireTyped
<1>2. /\ UNCHANGED <<channel, inHand, pump>> /\ loop' = Waiting
      /\ Only(t, d) \/ Only(t, Cleaned(c))
  BY DEF Respond, Activate
<1>3. wire' = wire
  BY <1>1 DEF Respond
<1>4. /\ d.seq = c.seq /\ d.retained = c.retained /\ d.failed = c.failed /\ d.where = c.where
      /\ Cleaned(c).seq = c.seq /\ Cleaned(c).retained = c.retained
      /\ Cleaned(c).failed = c.failed /\ Cleaned(c).where = c.where
  BY <1>1 DEF TerminalRecord, Cleaned
<1> HIDE DEF d
<1>5. \A u \in Terminals \ {t} : term'[u] = term[u]
  BY <1>2 DEF Only, Base, TerminalTypes, TermTyped
<1>6. term'[t] \in {d, Cleaned(c)}
  BY <1>1, <1>2 DEF Only, Base, TerminalTypes, TermTyped
<1>7. ASSUME NEW u \in Terminals PROVE OrderOf(u)'
  <2>1. term'[u].seq = term[u].seq /\ term'[u].retained = term[u].retained
        /\ (Silent(u) => Silent(u)')
    BY <1>2, <1>4, <1>5, <1>6 DEF Silent
  <2>2. Pending(u) = <<>> /\ Pending(u)' = <<>> /\ ~Replays(u)'
    BY <1>1, <1>2 DEF Pending, Replays, Waiting
  <2>3. RetainedSound(u)'
    BY <2>1, <2>2, RetainedFrame DEF Order, OrderOf
  <2> QED
    BY <1>1, <1>2, <1>3, <2>1, <2>2, <2>3, OrderSame DEF Order
<1> QED
  BY <1>7 DEF Order

\* What was with the loop, or in the channel, is lost; the terminal sends nothing any more.
LEMMA OrderLoses ==
  ASSUME Base, NEW u \in Terminals, OrderOf(u),
         term'[u].seq = term[u].seq, term'[u].retained = term[u].retained, Silent(u)',
         wire'[u] = wire[u], UNCHANGED inHand, channel' \in {channel, <<>>},
         Pending(u)' = <<>>, ~Replays(u)'
  PROVE  OrderOf(u)'
<1>1. \A i \in DOMAIN channel' : i \in DOMAIN channel /\ channel'[i] = channel[i]
  OBVIOUS
<1>2. UpTo(u, term[u].seq)'
  BY <1>1 DEF OrderOf, UpTo
<1>3. InOrder(u)'
  <2>1. InOrder(u)
    BY DEF OrderOf
  <2>2. \A i, j \in DOMAIN channel' :
          i < j /\ Mine(channel'[i], u) /\ Mine(channel'[j], u) => channel'[i].seq < channel'[j].seq
    BY <1>1, <2>1 DEF InOrder
  <2> QED
    BY <1>1, <2>1, <2>2 DEF InOrder, Ascends
<1>4. RetainedSound(u)'
  BY RetainedFrame DEF OrderOf
<1>5. Complete(u)'
  <2> SUFFICES ASSUME NEW i \in DOMAIN term[u].retained,
                      term[u].retained[i].seq > wire[u].cursor
               PROVE  \/ OnItsWay(u, term[u].retained[i])'
                      \/ UpTo(u, term[u].retained[i].seq - 1)'
    BY DEF Complete
  <2> DEFINE e == term[u].retained[i]
  <2>1. e.seq \in Nat /\ Mine(e, u) /\ InOrder(u)
    BY NumbersTyped DEF OrderOf, RetainedSound
  <2>2. CASE \/ \E j \in DOMAIN wire[u].events : wire[u].events[j] = e
             \/ inHand = e
             \/ channel' = channel /\ \E j \in DOMAIN channel : channel[j] = e
    BY <2>2 DEF OnItsWay
  <2>3. CASE channel' = <<>> /\ \E j \in DOMAIN channel : channel[j] = e
    <3>1. PICK j \in DOMAIN channel : channel[j] = e
      BY <2>3
    <3>2. \A k \in DOMAIN wire[u].events : wire[u].events[k].seq < e.seq
      BY <2>1, <3>1 DEF InOrder
    <3>3. Mine(inHand, u) => inHand.seq < e.seq
      BY <2>1, <3>1 DEF InOrder
    <3>4. (\A k \in DOMAIN wire[u].events : wire[u].events[k].seq <= e.seq - 1)
          /\ (Mine(inHand, u) => inHand.seq <= e.seq - 1)
      BY <2>1, <3>2, <3>3, NumbersTyped
    <3> QED
      BY <2>3, <3>4 DEF UpTo
  <2>4. CASE \E j \in DOMAIN Pending(u) : Pending(u)[j] = e
    <3>1. PICK j \in DOMAIN Pending(u) : Pending(u)[j] = e
      BY <2>4
    <3>2. \A k \in DOMAIN wire[u].events : wire[u].events[k].seq < e.seq
      BY <2>1, <3>1 DEF InOrder
    <3>3. Mine(inHand, u) => inHand.seq < e.seq
      BY <2>1, <3>1 DEF InOrder
    <3>4. \A k \in DOMAIN channel : Mine(channel[k], u) => channel[k].seq < e.seq
      BY <2>1, <3>1 DEF InOrder
    <3>5. /\ \A k \in DOMAIN wire[u].events : wire[u].events[k].seq <= e.seq - 1
          /\ Mine(inHand, u) => inHand.seq <= e.seq - 1
          /\ \A k \in DOMAIN channel : Mine(channel[k], u) => channel[k].seq <= e.seq - 1
      BY <2>1, <3>2, <3>3, <3>4, NumbersTyped
    <3> HIDE DEF e
    <3> QED
      BY <1>1, <3>5 DEF UpTo, e
  <2>5. CASE UpTo(u, e.seq - 1)
    BY <1>1, <2>5 DEF UpTo
  <2>6. OnItsWay(u, e) \/ UpTo(u, e.seq - 1)
    BY DEF OrderOf, Complete
  <2> QED
    BY <2>2, <2>3, <2>4, <2>5, <2>6 DEF OnItsWay
<1> QED
  BY <1>2, <1>3, <1>4, <1>5 DEF OrderOf

LEMMA OrderStartReplay ==
  ASSUME Base, Order, StartReplay
  PROVE  Order'
<1>1. /\ UNCHANGED <<term, channel, inHand, pump, wire>> /\ loop.pc = "gate"
      /\ loop \in LoopRecord /\ ChannelTyped
  BY DEF StartReplay, Base, TerminalTypes, LoopTyped
<1>2. CASE term[loop.of].where = "gone"
  <2>1. loop' = Waiting
    BY <1>2 DEF StartReplay
  <2>2. ASSUME NEW u \in Terminals PROVE OrderOf(u)'
    <3>1. Pending(u)' = <<>> /\ ~Replays(u)'
      BY <2>1 DEF Pending, Replays, Waiting
    <3>2. CASE u = loop.of
      <4>1. Silent(u)'
        BY <1>1, <1>2, <3>2 DEF Silent
      <4> QED
        BY <1>1, <3>1, <4>1, OrderLoses DEF Order
    <3>3. CASE u # loop.of
      <4>1. Pending(u) = <<>> /\ (Silent(u) => Silent(u)')
        BY <1>1, <3>3 DEF Pending, Silent
      <4>2. RetainedSound(u)'
        BY <1>1, <3>1, RetainedFrame DEF Order, OrderOf
      <4> QED
        BY <1>1, <3>1, <4>1, <4>2, OrderSame DEF Order
    <3> QED
      BY <3>2, <3>3
  <2> QED
    BY <2>2 DEF Order
<1>3. CASE term[loop.of].where # "gone"
  <2>1. /\ loop'.pc = "replay" /\ loop'.of = loop.of /\ loop'.frames = loop.frames
        /\ loop'.then = loop.then /\ loop'.cursor = loop.cursor
    BY <1>1, <1>3 DEF StartReplay, LoopRecord
  <2>2. ASSUME NEW u \in Terminals PROVE OrderOf(u)'
    <3>1. Pending(u)' = Pending(u) /\ (Replays(u)' <=> Replays(u)) /\ (Silent(u) => Silent(u)')
      BY <1>1, <2>1 DEF Pending, Replays, Silent
    <3>2. RetainedSound(u)'
      BY <1>1, <2>1, <3>1, RetainedFrame DEF Order, OrderOf
    <3> QED
      BY <1>1, <3>1, <3>2, OrderSame DEF Order
  <2> QED
    BY <2>2 DEF Order
<1> QED
  BY <1>2, <1>3

LEMMA NothingIsNoTerminals == \A u \in Terminals : ~Mine(Nothing, u)
  BY TerminalAssumption DEF Nothing, Mine

LEMMA Tailed ==
  ASSUME NEW s \in Seq(Events), s # <<>>
  PROVE  /\ 1 \in DOMAIN s /\ Head(s) = s[1] /\ Head(s) \in Events /\ Tail(s) \in Seq(Events)
         /\ \A i \in DOMAIN Tail(s) : i + 1 \in DOMAIN s /\ 1 < i + 1 /\ Tail(s)[i] = s[i + 1]
         /\ \A i, j \in DOMAIN Tail(s) : i < j => i + 1 < j + 1
         /\ \A i \in DOMAIN s : i = 1 \/ (i - 1 \in DOMAIN Tail(s) /\ Tail(s)[i - 1] = s[i])
  OBVIOUS

LEMMA AppendedOne ==
  ASSUME NEW s \in Seq(Events), NEW x \in Events
  PROVE  /\ \A i \in DOMAIN s : i \in DOMAIN Append(s, x) /\ Append(s, x)[i] = s[i]
         /\ Len(s) + 1 \in DOMAIN Append(s, x) /\ Append(s, x)[Len(s) + 1] = x
         /\ \A i \in DOMAIN Append(s, x) : i \in DOMAIN s \/ (i = Len(s) + 1 /\ Append(s, x)[i] = x)
         /\ \A i, j \in DOMAIN Append(s, x) : i < j => i \in DOMAIN s
  OBVIOUS

\* The head of the replay goes to the end of the channel.
LEMMA OrderReplay ==
  ASSUME Base, Order, Replay
  PROVE  Order'
<1> SUFFICES ASSUME NEW t, t = loop.of PROVE Order'
  OBVIOUS
<1> DEFINE F == loop.frames
           h == Head(F)
           rest == Tail(F)
<1>1. /\ loop.pc = "replay" /\ F # <<>> /\ UNCHANGED <<term, inHand, pump, wire>>
      /\ channel' = Append(channel, h) /\ loop' = [loop EXCEPT !.frames = Tail(@)]
  BY DEF Replay
<1>2. /\ t \in Terminals /\ loop \in LoopRecord /\ F \in Seq(Events) /\ channel \in Seq(Events)
      /\ ChannelTyped /\ loop.then = "replay"
  BY <1>1 DEF Base, TerminalTypes, LoopTyped, LoopRecord, ChannelTyped
<1>3. /\ loop'.pc = "replay" /\ loop'.of = t /\ loop'.frames = rest /\ loop'.then = "replay"
  BY <1>1, <1>2 DEF LoopRecord
<1>4. /\ 1 \in DOMAIN F /\ h = F[1] /\ h \in Events /\ rest \in Seq(Events)
      /\ \A i \in DOMAIN rest : i + 1 \in DOMAIN F /\ 1 < i + 1 /\ rest[i] = F[i + 1]
      /\ \A i, j \in DOMAIN rest : i < j => i + 1 < j + 1
      /\ \A i \in DOMAIN F : i = 1 \/ (i - 1 \in DOMAIN rest /\ rest[i - 1] = F[i])
  BY <1>1, <1>2, Tailed
<1>5. /\ \A i \in DOMAIN channel : i \in DOMAIN channel' /\ channel'[i] = channel[i]
      /\ Len(channel) + 1 \in DOMAIN channel' /\ channel'[Len(channel) + 1] = h
      /\ \A i \in DOMAIN channel' : i \in DOMAIN channel \/ channel'[i] = h
      /\ \A i, j \in DOMAIN channel' : i < j => i \in DOMAIN channel
  <2> HIDE DEF h
  <2> QED
    BY <1>1, <1>2, <1>4, AppendedOne
<1> HIDE DEF h, rest
<1>6. /\ Pending(t) = F /\ Pending(t)' = rest /\ Replays(t) /\ OrderOf(t)
      /\ UpTo(t, term[t].seq) /\ InOrder(t) /\ RetainedSound(t) /\ Complete(t)
  BY <1>1, <1>2, <1>3 DEF Pending, Replays, Order, OrderOf
<1>7. Mine(h, t) /\ Ascends(F) /\ \A i \in DOMAIN F : Mine(F[i], t) /\ F[i].seq <= term[t].seq
  BY <1>4, <1>6 DEF RetainedSound
<1>8. OrderOf(t)'
  <2>1. UpTo(t, term[t].seq)'
    <3>1. \A i \in DOMAIN channel' : Mine(channel'[i], t) => channel'[i].seq <= term[t].seq
      BY <1>4, <1>5, <1>6, <1>7 DEF UpTo
    <3>2. \A i \in DOMAIN rest : rest[i].seq <= term[t].seq
      BY <1>4, <1>7
    <3> QED
      BY <1>1, <1>6, <3>1, <3>2 DEF UpTo
  <2>2. InOrder(t)'
    <3>1. \A i, j \in DOMAIN channel' :
            i < j /\ Mine(channel'[i], t) /\ Mine(channel'[j], t) => channel'[i].seq < channel'[j].seq
      BY <1>4, <1>5, <1>6 DEF InOrder
    <3>2. Ascends(rest)
      BY <1>4, <1>7 DEF Ascends
    <3>3. \A i \in DOMAIN wire[t].events :
            /\ Mine(inHand, t) => wire[t].events[i].seq < inHand.seq
            /\ \A j \in DOMAIN channel' :
                  Mine(channel'[j], t) => wire[t].events[i].seq < channel'[j].seq
            /\ \A j \in DOMAIN rest : wire[t].events[i].seq < rest[j].seq
      <4>1. \A i \in DOMAIN wire[t].events :
               /\ Mine(inHand, t) => wire[t].events[i].seq < inHand.seq
               /\ \A j \in DOMAIN channel :
                     Mine(channel[j], t) => wire[t].events[i].seq < channel[j].seq
               /\ \A j \in DOMAIN F : wire[t].events[i].seq < F[j].seq
        BY <1>6 DEF InOrder
      <4>2. \A i \in DOMAIN wire[t].events : wire[t].events[i].seq < h.seq
        BY <1>4, <4>1
      <4> QED
        BY <1>4, <1>5, <4>1, <4>2
    <3>4. Mine(inHand, t) =>
            /\ \A j \in DOMAIN channel' : Mine(channel'[j], t) => inHand.seq < channel'[j].seq
            /\ \A j \in DOMAIN rest : inHand.seq < rest[j].seq
      <4>1. Mine(inHand, t) =>
               /\ \A j \in DOMAIN channel : Mine(channel[j], t) => inHand.seq < channel[j].seq
               /\ \A j \in DOMAIN F : inHand.seq < F[j].seq
        BY <1>6 DEF InOrder
      <4>2. Mine(inHand, t) => inHand.seq < h.seq
        BY <1>4, <4>1
      <4> QED
        BY <1>4, <1>5, <4>1, <4>2
    <3>5. \A i \in DOMAIN channel' : Mine(channel'[i], t) =>
            \A j \in DOMAIN rest : channel'[i].seq < rest[j].seq
      <4> SUFFICES ASSUME NEW i \in DOMAIN channel', Mine(channel'[i], t), NEW j \in DOMAIN rest
                   PROVE  channel'[i].seq < rest[j].seq
        OBVIOUS
      <4>1. j + 1 \in DOMAIN F /\ rest[j] = F[j + 1] /\ 1 < j + 1
        BY <1>4
      <4>2. CASE i \in DOMAIN channel
        BY <1>5, <1>6, <4>1, <4>2 DEF InOrder
      <4>3. CASE channel'[i] = h
        BY <1>4, <1>7, <4>1, <4>3 DEF Ascends
      <4> QED
        BY <1>5, <4>2, <4>3
    <3>6. Ascends(wire[t].events)
      BY <1>6 DEF InOrder
    <3> HIDE DEF Ascends
    <3> QED
      BY <1>1, <1>6, <3>1, <3>2, <3>3, <3>4, <3>5, <3>6 DEF InOrder
  <2>3. RetainedSound(t)'
    <3>1. Ascends(rest) /\ \A i \in DOMAIN rest : Mine(rest[i], t) /\ rest[i].seq <= term[t].seq
      BY <1>4, <1>7 DEF Ascends
    <3>2. loop'.pc # "respond"
      BY <1>3
    <3> QED
      BY <1>1, <1>3, <1>6, <3>1, <3>2 DEF RetainedSound
  <2>4. Complete(t)'
    <3> SUFFICES ASSUME NEW i \in DOMAIN term[t].retained,
                        term[t].retained[i].seq > wire[t].cursor
                 PROVE  OnItsWay(t, term[t].retained[i])'
                        \/ (Silent(t) /\ UpTo(t, term[t].retained[i].seq - 1))'
      BY <1>1 DEF Complete
    <3> DEFINE e == term[t].retained[i]
    <3>1. OnItsWay(t, e) \/ (Silent(t) /\ UpTo(t, e.seq - 1))
      BY <1>6 DEF Complete
    <3>2. CASE OnItsWay(t, e)
      <4>1. \/ \E j \in DOMAIN wire[t].events : wire[t].events[j] = e
            \/ inHand = e
            \/ \E j \in DOMAIN channel : channel[j] = e
            \/ \E j \in DOMAIN F : F[j] = e
        BY <1>6, <3>2 DEF OnItsWay
      <4>2. (\E j \in DOMAIN F : F[j] = e) => e = h \/ \E j \in DOMAIN rest : rest[j] = e
        BY <1>4
      <4>3. (\E j \in DOMAIN channel : channel[j] = e) \/ e = h
            => \E j \in DOMAIN channel' : channel'[j] = e
        BY <1>5
      <4> HIDE DEF e
      <4>4. OnItsWay(t, e)' <=> \/ \E j \in DOMAIN wire[t].events : wire[t].events[j] = e'
                                \/ inHand = e'
                                \/ \E j \in DOMAIN channel' : channel'[j] = e'
                                \/ \E j \in DOMAIN rest : rest[j] = e'
        BY <1>1, <1>6 DEF OnItsWay
      <4>5. e' = e
        BY <1>1 DEF e
      <4> QED
        BY <4>1, <4>2, <4>3, <4>4, <4>5 DEF e
    <3>3. CASE Silent(t) /\ UpTo(t, e.seq - 1)
      <4>1. Silent(t)'
        BY <1>1, <3>3 DEF Silent
      <4>2. \A j \in DOMAIN channel' : Mine(channel'[j], t) => channel'[j].seq <= e.seq - 1
        BY <1>4, <1>5, <1>6, <3>3 DEF UpTo
      <4>3. \A j \in DOMAIN rest : rest[j].seq <= e.seq - 1
        BY <1>4, <1>6, <3>3 DEF UpTo
      <4>4. UpTo(t, e.seq - 1)'
        BY <1>1, <1>6, <3>3, <4>2, <4>3 DEF UpTo
      <4> QED
        BY <4>1, <4>4
    <3> QED
      BY <3>1, <3>2, <3>3
  <2> QED
    BY <1>1, <2>1, <2>2, <2>3, <2>4 DEF OrderOf
<1>9. ASSUME NEW u \in Terminals, u # t PROVE OrderOf(u)'
  <2> DEFINE s == <<h>>
  <2>1. s \in Seq(Events) /\ (\A i \in DOMAIN s : ~Mine(s[i], u)) /\ channel' = channel \o s
    BY <1>1, <1>2, <1>4, <1>7, <1>9 DEF Mine
  <2>2. Pending(u) = <<>> /\ Pending(u)' = <<>> /\ ~Replays(u)' /\ (Silent(u) => Silent(u)')
    BY <1>1, <1>3, <1>9 DEF Pending, Replays, Silent
  <2>3. RetainedSound(u)'
    BY <1>1, <2>2, RetainedFrame DEF Order, OrderOf
  <2> HIDE DEF s
  <2> QED
    BY <1>1, <1>2, <2>1, <2>2, <2>3, OrderOthers DEF Order
<1> QED
  BY <1>8, <1>9 DEF Order

\* The replay is over, or given up.
LEMMA OrderReplayEnds ==
  ASSUME Base, Order, EndReplay \/ ReplayFails
  PROVE  Order'
<1> SUFFICES ASSUME NEW t, t = loop.of PROVE Order'
  OBVIOUS
<1> DEFINE c == term[t]
           d == [c EXCEPT !.barrier = FALSE]
           e == [c EXCEPT !.failed = TRUE, !.barrier = FALSE]
<1>1. /\ t \in Terminals /\ c.where # "none" /\ c \in TerminalRecord /\ Sound(c)
      /\ ChannelTyped /\ loop.pc = "replay"
  BY DEF Base, EndReplay, ReplayFails, TerminalTypes, TermTyped, LoopTyped, LoopServes
<1>2. loop' = Waiting /\ UNCHANGED <<channel, inHand, wire, pump>>
  BY DEF EndReplay, ReplayFails
<1>3. \/ loop.frames = <<>> /\ Only(t, d)
      \/ Only(t, Cleaned(e))
  BY DEF EndReplay, ReplayFails
<1>4. d.seq = c.seq /\ d.retained = c.retained /\ d.failed = c.failed /\ d.where = c.where
  BY <1>1, LiftedSound
<1>5. e \in TerminalRecord /\ Sound(e) /\ e.where # "none" /\ e.seq = c.seq
      /\ e.retained = c.retained /\ e.failed
  BY <1>1, UnbarredSound
<1> HIDE DEF d, e
<1>6. Cleaned(e).seq = c.seq /\ Cleaned(e).retained = c.retained /\ Cleaned(e).failed
  BY <1>5, CleanedSound
<1>7. /\ \A u \in Terminals \ {t} : term'[u] = term[u]
      /\ \/ loop.frames = <<>> /\ term'[t] = d
         \/ term'[t] = Cleaned(e)
  BY <1>1, <1>3 DEF Only, Base, TerminalTypes, TermTyped
<1>8. ASSUME NEW u \in Terminals PROVE OrderOf(u)'
  <2>1. Pending(u)' = <<>> /\ ~Replays(u)'
    BY <1>2 DEF Pending, Replays, Waiting
  <2>2. term'[u].seq = term[u].seq /\ term'[u].retained = term[u].retained
    BY <1>4, <1>6, <1>7
  <2>3. CASE u = t /\ term'[t] = Cleaned(e)
    <3>1. Silent(u)'
      BY <1>6, <2>3 DEF Silent
    <3> QED
      BY <1>2, <2>1, <2>2, <3>1, OrderLoses DEF Order
  <2>4. CASE u # t \/ (loop.frames = <<>> /\ term'[t] = d)
    <3>1. Pending(u) = <<>>
      BY <2>4 DEF Pending
    <3>2. Silent(u) => Silent(u)'
      BY <1>2, <1>4, <1>7, <2>4 DEF Silent
    <3>3. RetainedSound(u)'
      BY <2>1, <2>2, RetainedFrame DEF Order, OrderOf
    <3> QED
      BY <1>1, <1>2, <2>1, <2>2, <3>1, <3>2, <3>3, OrderSame DEF Order
  <2> QED
    BY <1>7, <2>3, <2>4
<1> QED
  BY <1>8 DEF Order

\* The head of the channel is taken in hand.
LEMMA OrderReceive ==
  ASSUME Base, Order, Receive
  PROVE  Order'
<1> DEFINE h == Head(channel)
           rest == Tail(channel)
<1>1. /\ inHand = Nothing /\ channel # <<>> /\ UNCHANGED <<term, loop, pump, wire>>
      /\ inHand' = h /\ channel' = rest
  BY DEF Receive
<1>2. channel \in Seq(Events)
  BY DEF Base, TerminalTypes, ChannelTyped
<1>3. /\ 1 \in DOMAIN channel /\ h = channel[1] /\ h \in Events
      /\ \A i \in DOMAIN rest : i + 1 \in DOMAIN channel /\ 1 < i + 1 /\ rest[i] = channel[i + 1]
      /\ \A i, j \in DOMAIN rest : i < j => i + 1 < j + 1
      /\ \A i \in DOMAIN channel : i = 1 \/ (i - 1 \in DOMAIN rest /\ rest[i - 1] = channel[i])
  BY <1>1, <1>2, Tailed
<1> HIDE DEF h, rest
<1>4. ASSUME NEW u \in Terminals PROVE OrderOf(u)'
  <2>1. /\ Pending(u)' = Pending(u) /\ (Replays(u)' <=> Replays(u)) /\ (Silent(u) => Silent(u)')
        /\ ~Mine(inHand, u) /\ UpTo(u, term[u].seq) /\ InOrder(u) /\ Complete(u)
    BY <1>1, NothingIsNoTerminals DEF Pending, Replays, Silent, Order, OrderOf
  <2>2. UpTo(u, term[u].seq)'
    BY <1>1, <1>3, <2>1 DEF UpTo
  <2>3. InOrder(u)'
    <3>1. \A i, j \in DOMAIN rest :
            i < j /\ Mine(rest[i], u) /\ Mine(rest[j], u) => rest[i].seq < rest[j].seq
      BY <1>3, <2>1 DEF InOrder
    <3>2. Mine(h, u) => /\ \A j \in DOMAIN rest : Mine(rest[j], u) => h.seq < rest[j].seq
                      /\ \A j \in DOMAIN Pending(u) : h.seq < Pending(u)[j].seq
      BY <1>3, <2>1 DEF InOrder
    <3>3. \A i \in DOMAIN wire[u].events :
            /\ Mine(h, u) => wire[u].events[i].seq < h.seq
            /\ \A j \in DOMAIN rest : Mine(rest[j], u) => wire[u].events[i].seq < rest[j].seq
            /\ \A j \in DOMAIN Pending(u) : wire[u].events[i].seq < Pending(u)[j].seq
      BY <1>3, <2>1 DEF InOrder
    <3>4. \A i \in DOMAIN rest : Mine(rest[i], u) =>
            \A j \in DOMAIN Pending(u) : rest[i].seq < Pending(u)[j].seq
      BY <1>3, <2>1 DEF InOrder
    <3>5. Ascends(wire[u].events) /\ Ascends(Pending(u))
      BY <2>1 DEF InOrder
    <3> HIDE DEF Ascends
    <3> QED
      BY <1>1, <2>1, <3>1, <3>2, <3>3, <3>4, <3>5 DEF InOrder
  <2>4. RetainedSound(u)'
    BY <1>1, <2>1, RetainedFrame DEF Order, OrderOf
  <2>5. Complete(u)'
    <3> SUFFICES ASSUME NEW i \in DOMAIN term[u].retained,
                        term[u].retained[i].seq > wire[u].cursor
                 PROVE  OnItsWay(u, term[u].retained[i])'
                        \/ (Silent(u) /\ UpTo(u, term[u].retained[i].seq - 1))'
      BY <1>1 DEF Complete
    <3> DEFINE e == term[u].retained[i]
    <3>1. OnItsWay(u, e) \/ (Silent(u) /\ UpTo(u, e.seq - 1))
      BY <2>1 DEF Complete
    <3>2. Mine(e, u) /\ e' = e
      BY <1>1 DEF Order, OrderOf, RetainedSound
    <3>3. CASE OnItsWay(u, e)
      <4>1. inHand # e
        BY <2>1, <3>2
      <4>2. (\E j \in DOMAIN channel : channel[j] = e)
            => h = e \/ \E j \in DOMAIN rest : rest[j] = e
        BY <1>3
      <4> QED
        BY <1>1, <2>1, <3>3, <4>1, <4>2 DEF OnItsWay
    <3>4. CASE Silent(u) /\ UpTo(u, e.seq - 1)
      <4>1. UpTo(u, e.seq - 1)'
        BY <1>1, <1>3, <2>1, <3>4 DEF UpTo
      <4> QED
        BY <2>1, <3>4, <4>1
    <3> QED
      BY <3>1, <3>3, <3>4
  <2> QED
    BY <1>1, <2>2, <2>3, <2>4, <2>5 DEF OrderOf
<1> QED
  BY <1>4 DEF Order

\* What is in hand is seen.
LEMMA OrderFlush ==
  ASSUME Base, Order, Flush
  PROVE  Order'
<1> SUFFICES ASSUME NEW t, t = inHand.of PROVE Order'
  OBVIOUS
<1> DEFINE c == term[t]
           d == [c EXCEPT !.written = inHand.seq]
           w == wire[t].events
           seen == Append(w, inHand)
<1>1. inHand \in Events /\ t \in Terminals /\ ChannelTyped
  BY HeldEvent DEF Base, Flush, TerminalTypes
<1>2. /\ Only(t, d) \/ Only(t, c)
      /\ inHand' = Nothing /\ UNCHANGED <<loop, channel, pump>>
  BY DEF Flush
<1>3. /\ c \in TerminalRecord /\ TermTyped
      /\ WireTyped /\ wire \in [Terminals -> WireRecord]
  BY <1>1 DEF Base, TerminalTypes, TermTyped, WireTyped
<1>4. \A u \in Terminals : /\ term'[u].seq = term[u].seq /\ term'[u].retained = term[u].retained
                           /\ term'[u].failed = term[u].failed /\ term'[u].where = term[u].where
                           /\ term'[u].barrier = term[u].barrier
  <2>1. d.seq = c.seq /\ d.retained = c.retained /\ d.failed = c.failed /\ d.where = c.where
        /\ d.barrier = c.barrier
    BY <1>3 DEF TerminalRecord
  <2> HIDE DEF d
  <2> QED
    BY <1>1, <1>2, <1>3, <2>1 DEF Only, TermTyped
<1>0. /\ wire'[t].cursor = wire[t].cursor
      /\ wire'[t].events = IF inHand.late THEN w ELSE seen
      /\ \A u \in Terminals \ {t} : wire'[u] = wire[u]
  BY <1>1, <1>3, FlushedWire
<1>6. w \in Seq(Events)
  BY <1>1, <1>3 DEF WireRecord
<1>7. /\ \A i \in DOMAIN w : i \in DOMAIN seen /\ seen[i] = w[i]
      /\ Len(w) + 1 \in DOMAIN seen /\ seen[Len(w) + 1] = inHand
      /\ \A i \in DOMAIN seen : i \in DOMAIN w \/ (i = Len(w) + 1 /\ seen[i] = inHand)
      /\ \A i, j \in DOMAIN seen : i < j => i \in DOMAIN w
  BY <1>1, <1>6, AppendedOne
<1> HIDE DEF seen, w
<1>8. \A u \in Terminals : ~Mine(inHand', u)
  BY <1>2, NothingIsNoTerminals
<1>9. ASSUME ~inHand.late PROVE OrderOf(t)'
  <2>0. wire'[t].events = seen /\ wire'[t].cursor = wire[t].cursor /\ Mine(inHand, t)
    BY <1>0, <1>9 DEF Mine
  <2>1. /\ Pending(t)' = Pending(t) /\ (Replays(t)' <=> Replays(t)) /\ (Silent(t) => Silent(t)')
        /\ UpTo(t, term[t].seq) /\ InOrder(t) /\ Complete(t)
    BY <1>1, <1>2, <1>4 DEF Pending, Replays, Silent, Order, OrderOf
  <2>2. UpTo(t, term[t].seq)'
    <3>1. \A i \in DOMAIN seen : seen[i].seq <= term[t].seq
      BY <1>7, <2>0, <2>1 DEF UpTo, w
    <3> QED
      BY <1>1, <1>2, <1>4, <2>0, <1>8, <2>1, <3>1 DEF UpTo
  <2>3. InOrder(t)'
    <3>1. Ascends(seen)
      <4>1. \A i, j \in DOMAIN w : i < j => w[i].seq < w[j].seq
        BY <2>1 DEF InOrder, Ascends, w
      <4>2. \A i \in DOMAIN w : w[i].seq < inHand.seq
        BY <2>0, <2>1 DEF InOrder, w
      <4> SUFFICES ASSUME NEW i \in DOMAIN seen, NEW j \in DOMAIN seen, i < j
                   PROVE  seen[i].seq < seen[j].seq
        BY DEF Ascends
      <4>3. i \in DOMAIN w /\ seen[i] = w[i]
        BY <1>7
      <4>4. CASE j \in DOMAIN w
        BY <1>7, <4>1, <4>3, <4>4
      <4>5. CASE j \notin DOMAIN w
        BY <1>7, <4>2, <4>3, <4>5
      <4> QED
        BY <4>4, <4>5
    <3>2. \A i \in DOMAIN seen :
            /\ \A j \in DOMAIN channel : Mine(channel[j], t) => seen[i].seq < channel[j].seq
            /\ \A j \in DOMAIN Pending(t) : seen[i].seq < Pending(t)[j].seq
      BY <1>7, <2>0, <2>1 DEF InOrder, w
    <3>3. /\ \A i, j \in DOMAIN channel :
               i < j /\ Mine(channel[i], t) /\ Mine(channel[j], t) => channel[i].seq < channel[j].seq
          /\ Ascends(Pending(t))
          /\ \A i \in DOMAIN channel : Mine(channel[i], t) =>
                \A j \in DOMAIN Pending(t) : channel[i].seq < Pending(t)[j].seq
      BY <2>1 DEF InOrder
    <3> HIDE DEF Ascends
    <3> QED
      BY <1>1, <1>2, <2>0, <1>8, <2>1, <3>1, <3>2, <3>3 DEF InOrder
  <2>4. RetainedSound(t)'
    BY <1>1, <1>2, <1>4, <2>1, RetainedFrame DEF Order, OrderOf
  <2>5. Complete(t)'
    <3> SUFFICES ASSUME NEW i \in DOMAIN term[t].retained,
                        term[t].retained[i].seq > wire[t].cursor
                 PROVE  OnItsWay(t, term[t].retained[i])'
                        \/ (Silent(t) /\ UpTo(t, term[t].retained[i].seq - 1))'
      BY <1>1, <1>4, <2>0 DEF Complete
    <3> DEFINE e == term[t].retained[i]
    <3>1. OnItsWay(t, e) \/ (Silent(t) /\ UpTo(t, e.seq - 1))
      BY <2>1 DEF Complete
    <3>2. e' = e
      BY <1>1, <1>4
    <3>3. CASE OnItsWay(t, e)
      <4>1. (\E j \in DOMAIN w : w[j] = e) \/ inHand = e => \E j \in DOMAIN seen : seen[j] = e
        BY <1>7
      <4> QED
        BY <1>2, <2>0, <2>1, <3>2, <3>3, <4>1 DEF OnItsWay, w
    <3>4. CASE Silent(t) /\ UpTo(t, e.seq - 1)
      <4>1. \A j \in DOMAIN seen : seen[j].seq <= e.seq - 1
        BY <1>7, <2>0, <3>4 DEF UpTo, w
      <4>2. UpTo(t, e.seq - 1)'
        BY <1>1, <1>2, <2>0, <1>8, <2>1, <3>2, <3>4, <4>1 DEF UpTo
      <4> QED
        BY <2>1, <3>2, <3>4, <4>2
    <3> QED
      BY <3>1, <3>3, <3>4
  <2> QED
    BY <1>1, <1>4, <2>2, <2>3, <2>4, <2>5 DEF OrderOf
<1>10. ASSUME NEW u \in Terminals, u # t \/ inHand.late PROVE OrderOf(u)'
  <2>1. ~Mine(inHand, u) /\ ~Mine(inHand', u)
    BY <1>8, <1>10 DEF Mine
  <2>2. wire'[u].cursor = wire[u].cursor /\ wire'[u].events = wire[u].events
    <3>1. CASE u = t
      BY <1>0, <1>10, <3>1 DEF w
    <3>2. CASE u # t
      BY <1>0, <3>2
    <3> QED
      BY <3>1, <3>2
  <2>3. Pending(u)' = Pending(u) /\ (Replays(u)' <=> Replays(u)) /\ (Silent(u) => Silent(u)')
    BY <1>2, <1>4 DEF Pending, Replays, Silent
  <2>4. RetainedSound(u)'
    BY <1>2, <1>4, <2>3, RetainedFrame DEF Order, OrderOf
  <2> QED
    <3>1. /\ channel' = channel /\ term'[u].seq = term[u].seq
          /\ term'[u].retained = term[u].retained /\ OrderOf(u)
      BY <1>2, <1>4 DEF Order
    <3>2. /\ DOMAIN channel' = DOMAIN channel
          /\ \A i \in DOMAIN channel :
                channel'[i] = channel[i] \/ (~Mine(channel[i], u) /\ ~Mine(channel'[i], u))
      BY <3>1
    <3>3. inHand' = inHand \/ (~Mine(inHand, u) /\ ~Mine(inHand', u))
      BY <2>1
    <3> QED
      BY <2>2, <2>3, <2>4, <3>1, <3>2, <3>3, OrderAside
<1> QED
  BY <1>1, <1>9, <1>10 DEF Order

\* The task that writes ends: what it has not taken is lost, and no terminal sends any more.
LEMMA OrderFailConnection ==
  ASSUME Base, Order, FailConnection
  PROVE  Order'
<1>1. /\ UNCHANGED <<term, inHand, wire>> /\ channel' = <<>> /\ pump' = "ended" /\ loop' = Waiting
  BY DEF FailConnection
<1>2. ASSUME NEW u \in Terminals PROVE OrderOf(u)'
  <2>1. Pending(u)' = <<>> /\ ~Replays(u)' /\ Silent(u)'
    BY <1>1 DEF Pending, Replays, Waiting, Silent
  <2> QED
    BY <1>1, <2>1, OrderLoses DEF Order
<1> QED
  BY <1>2 DEF Order

LEMMA OrderShutdown ==
  ASSUME Base, Order, NEW t \in Terminals, Shutdown(t)
  PROVE  Order'
<1>1. UNCHANGED <<loop, channel, inHand, wire, pump>> /\ conn = "closing" /\ ChannelTyped
  BY DEF Shutdown, Base, TerminalTypes
<1>2. loop.pc = "idle"
  BY <1>1 DEF Base, LoopServes
<1>3. ASSUME NEW u \in Terminals PROVE OrderOf(u)'
  <2>1. /\ term'[u].where = term[u].where /\ term'[u].seq = term[u].seq
        /\ term'[u].retained = term[u].retained /\ term'[u].failed = term[u].failed
    BY ShutdownEach
  <2>2. Pending(u) = <<>> /\ Pending(u)' = <<>> /\ ~Replays(u)' /\ (Silent(u) => Silent(u)')
    BY <1>1, <1>2, <2>1 DEF Pending, Replays, Silent
  <2>3. RetainedSound(u)'
    BY <2>1, <2>2, RetainedFrame DEF Order, OrderOf
  <2> QED
    BY <1>1, <2>1, <2>2, <2>3, OrderSame DEF Order
<1> QED
  BY <1>3 DEF Order

LEMMA OrderStep ==
  ASSUME Base, Order, [TerminalNext]_terminalVars
  PROVE  Order'
<1>1. CASE TerminalNext
  <2>1. ASSUME Respond PROVE Order'
    <3>1. loop.then \in {"activate", "terminate", "replay"}
      BY <2>1 DEF Respond, Base, TerminalTypes, LoopTyped, LoopRecord
    <3> QED
      BY <2>1, <3>1, OrderReplied, OrderActs
  <2>2. ASSUME EndShutdown PROVE Order'
    <3>1. UNCHANGED <<term, loop, channel, inHand, pump, wire>>
      BY <2>2 DEF EndShutdown
    <3>2. \A u \in Terminals : Silent(u) => Silent(u)'
      BY <3>1 DEF Silent
    <3> QED
      BY <3>1, <3>2, OrderFrame DEF Order, Base, TerminalTypes
  <2> QED
    BY <1>1, <2>1, <2>2, StepKinds, OrderQuiet, OrderSend, OrderShutdown, OrderOpen, OrderBegins,
       OrderRotate, OrderStartReplay, OrderReplay, OrderReplayEnds, OrderReceive, OrderFlush,
       OrderFailConnection DEF Loop, Pump
<1>2. CASE UNCHANGED terminalVars
  <2>1. UNCHANGED <<term, loop, channel, inHand, pump, wire>>
    BY <1>2 DEF terminalVars
  <2>2. \A u \in Terminals : Silent(u) => Silent(u)'
    BY <2>1 DEF Silent
  <2> QED
    BY <2>1, <2>2, OrderFrame DEF Order, Base, TerminalTypes
<1> QED
  BY <1>1, <1>2

LEMMA OrderStarts ==
  ASSUME TerminalInit
  PROVE  Order
<1> SUFFICES ASSUME NEW u \in Terminals PROVE OrderOf(u)
  BY DEF Order
<1>1. /\ term[u] = Fresh /\ loop = Waiting /\ channel = <<>> /\ inHand = Nothing
      /\ wire[u].events = <<>>
  BY DEF TerminalInit
<1>2. /\ Fresh.seq = 0 /\ Fresh.retained = <<>> /\ Nothing.seq = 0 /\ ~Mine(Nothing, u)
      /\ Pending(u) = <<>> /\ ~Replays(u)
  BY <1>1, NothingIsNoTerminals DEF Fresh, Nothing, Pending, Replays, Waiting
<1>3. UpTo(u, term[u].seq)
  BY <1>1, <1>2 DEF UpTo
<1>4. InOrder(u)
  BY <1>1, <1>2 DEF InOrder, Ascends
<1>5. RetainedSound(u) /\ Complete(u)
  BY <1>1, <1>2 DEF RetainedSound, Complete, Ascends
<1> QED
  BY <1>3, <1>4, <1>5 DEF OrderOf

-----------------------------------------------------------------------------
(* The water level an attach waits for, the highest number written. What   *)
(* it has counted the client has received, even when it is on its way      *)
(* again in a replay, so that only such events can be late.                *)

Reached(t, e) ==
    /\ e.seq <= term[t].written => e.seq \in wire[t].got
    /\ e.late => e.seq <= term[t].written

\* Until the response of an attach is out, the level covers all that is on its way.
Covered(t) ==
    /\ inHand.of = t => inHand.seq <= term[t].written
    /\ \A i \in DOMAIN channel : channel[i].of = t => channel[i].seq <= term[t].written

Level(t) ==
    /\ term[t].written <= term[t].seq /\ wire[t].cursor <= term[t].written
    /\ \A i \in DOMAIN wire[t].events : wire[t].events[i].seq \in wire[t].got
    /\ \A i \in DOMAIN term[t].retained : Reached(t, term[t].retained[i])
    /\ inHand.of = t => Reached(t, inHand)
    /\ \A i \in DOMAIN channel : channel[i].of = t => Reached(t, channel[i])
    /\ loop.pc = "await" /\ loop.of = t => loop.cursor <= term[t].seq
    /\ Replays(t) =>
          /\ loop.cursor <= term[t].written
          /\ \A i \in DOMAIN loop.frames : loop.frames[i].seq \in wire[t].got
          /\ loop.pc = "respond" => Covered(t)

Levels == \A t \in Terminals : Level(t)

LEMMA LevelStarts ==
  ASSUME TerminalInit
  PROVE  Levels
<1> SUFFICES ASSUME NEW t \in Terminals PROVE Level(t)
  BY DEF Levels
<1>1. /\ term[t] = Fresh /\ loop = Waiting /\ channel = <<>> /\ inHand = Nothing
      /\ wire[t].cursor = 0 /\ wire[t].events = <<>>
  BY DEF TerminalInit
<1>2. /\ Fresh.written = 0 /\ Fresh.seq = 0 /\ Fresh.retained = <<>> /\ Waiting.pc = "idle"
      /\ Nothing.of # t
  BY TerminalAssumption DEF Fresh, Waiting, Nothing
<1> QED
  BY <1>1, <1>2 DEF Level, Replays

\* A new event is above the level.
LEMMA NewReached ==
  ASSUME Base, NEW u \in Terminals, Level(u), NEW e, e.seq \in Nat, e.seq > term[u].seq, ~e.late
  PROVE  Reached(u, e) /\ ~(e.seq <= term[u].written)
<1>1. term[u].written \in Nat /\ term[u].seq \in Nat /\ term[u].written <= term[u].seq
  BY DEF Base, TerminalTypes, TermTyped, TerminalRecord, Level
<1> QED
  BY <1>1 DEF Reached

\* A step that neither writes nor answers anything of this terminal.
LEMMA LevelKept ==
  ASSUME Base, Order, NEW u \in Terminals, Level(u),
         term'[u].written = term[u].written, term'[u].seq \in Nat, term'[u].seq >= term[u].seq,
         wire'[u] = wire[u],
         \A i \in DOMAIN term'[u].retained : Reached(u, term'[u].retained[i]),
         \A i \in DOMAIN channel' : channel'[i].of = u =>
             \/ \E j \in DOMAIN channel : channel'[i] = channel[j]
             \/ Reached(u, channel'[i]) /\ ~(Replays(u) /\ loop'.pc = "respond"),
         \/ inHand' = inHand \/ inHand'.of # u
         \/ \E j \in DOMAIN channel : inHand' = channel[j],
         Replays(u)' =>
             /\ Replays(u) /\ loop'.cursor = loop.cursor
             /\ \A i \in DOMAIN loop'.frames :
                   \E j \in DOMAIN loop.frames : loop'.frames[i] = loop.frames[j]
             /\ loop'.pc = "respond" => loop.pc = "respond",
         loop'.of = u /\ loop'.pc = "await" =>
             loop.of = u /\ loop.pc = "await" /\ loop'.cursor = loop.cursor
  PROVE  Level(u)'
<1>1. /\ term[u].written \in Nat /\ term[u].seq \in Nat /\ loop.cursor \in Nat
      /\ term[u].written <= term[u].seq
  BY DEF Base, TerminalTypes, TermTyped, TerminalRecord, LoopTyped, LoopRecord, Level
<1>2. term'[u].written <= term'[u].seq
  BY <1>1
<1>3. ASSUME NEW e, Reached(u, e) PROVE Reached(u, e)'
  BY <1>3 DEF Reached
<1>4. \A i \in DOMAIN term'[u].retained : Reached(u, term[u].retained[i])'
  BY <1>3
<1>5. \A i \in DOMAIN channel' : channel'[i].of = u => Reached(u, channel[i])'
  BY <1>3 DEF Level
<1>6. inHand'.of = u => Reached(u, inHand)'
  BY <1>3 DEF Level
<1>7. loop'.pc = "await" /\ loop'.of = u => loop'.cursor <= term'[u].seq
  BY <1>1 DEF Level
<1>8. Replays(u)' =>
        /\ loop'.cursor <= term'[u].written
        /\ \A i \in DOMAIN loop'.frames : loop'.frames[i].seq \in wire'[u].got
        /\ loop'.pc = "respond" => Covered(u)'
  BY DEF Level, Covered
<1> QED
  BY <1>2, <1>4, <1>5, <1>6, <1>7, <1>8 DEF Level

LEMMA LevelQuiet ==
  ASSUME Base, Order, Levels, NEW t \in Terminals, QuietStep(t)
  PROVE  Levels'
<1>1. PICK d \in TerminalRecord : Only(t, d) /\ Steady(term[t], d) /\ Sound(d)
  BY DEF QuietStep, Quietly
<1>2. term'[t] = d /\ \A u \in Terminals \ {t} : term'[u] = term[u]
  BY <1>1 DEF Only, Base, TerminalTypes, TermTyped
<1>3. UNCHANGED <<loop, inHand, channel, wire>>
  BY DEF QuietStep, Others
<1>4. ASSUME NEW u \in Terminals PROVE Level(u)'
  <2>1. /\ term'[u].seq = term[u].seq /\ term'[u].written = term[u].written
        /\ term'[u].retained = term[u].retained /\ term[u].seq \in Nat /\ Level(u)
    BY <1>1, <1>2, NumbersTyped DEF Steady, Levels
  <2>2. \A i \in DOMAIN term[u].retained : Reached(u, term[u].retained[i])
    BY <2>1 DEF Level
  <2>3. Replays(u)' <=> Replays(u)
    BY <1>3 DEF Replays
  <2> QED
    BY <1>3, <2>1, <2>2, <2>3, LevelKept
<1> QED
  BY <1>4 DEF Levels

LEMMA LevelSend ==
  ASSUME Base, Order, Levels, NEW t \in Terminals, SendStep(t)
  PROVE  Levels'
<1>1. PICK d \in TerminalRecord, E \in Seq(Events) :
         /\ Only(t, d) /\ Emit(E) /\ MayEmit(t) /\ Keeps(term[t].retained, d.retained, E)
         /\ Numbered(t, term[t], d, E) /\ Aside(term[t], d)
  BY DEF SendStep, Sends
<1>2. term'[t] = d /\ \A u \in Terminals \ {t} : term'[u] = term[u]
  BY <1>1 DEF Only, Base, TerminalTypes, TermTyped
<1>3. UNCHANGED <<loop, inHand, wire>> /\ channel \in Seq(Events)
  BY DEF SendStep, Others, Base, TerminalTypes, ChannelTyped
<1>4. PICK k \in 0..Len(E) : Sent(E) = SubSeq(E, 1, k)
  BY SentSound DEF Base, TerminalTypes
<1> DEFINE s == SubSeq(E, 1, k)
<1>5. /\ s \in Seq(Events) /\ channel' = channel \o s
      /\ \A i \in DOMAIN s : i \in DOMAIN E /\ s[i] = E[i]
  BY <1>1, <1>4 DEF Emit
<1> HIDE DEF s
<1>6. \A i \in DOMAIN E : E[i].of = t /\ Reached(t, E[i])
  <2>1. \A i \in DOMAIN E : E[i] \in Events
    OBVIOUS
  <2>2. \A i \in DOMAIN E : E[i].seq \in Nat
    BY <2>1 DEF Events
  <2>3. term[t].seq \in Nat /\ Level(t)
    BY NumbersTyped DEF Levels
  <2>4. \A i \in DOMAIN E : E[i].of = t /\ ~E[i].late /\ E[i].seq > term[t].seq
    BY <1>1, <2>2, <2>3 DEF Numbered, Mine
  <2> QED
    BY <2>2, <2>3, <2>4, NewReached
<1>7. \A i \in DOMAIN channel' : \/ \E j \in DOMAIN channel : channel'[i] = channel[j]
                                 \/ \E j \in DOMAIN E : channel'[i] = E[j]
  <2>1. \A i \in DOMAIN channel' : \/ \E j \in DOMAIN channel : channel'[i] = channel[j]
                                   \/ \E j \in DOMAIN s : channel'[i] = s[j]
    BY <1>3, <1>5, Appended
  <2> QED
    BY <1>5, <2>1
<1>8. \A i \in DOMAIN d.retained : Reached(t, d.retained[i])
  <2>1. term[t].retained \in Seq(Events) /\ Level(t)
    BY DEF Base, TerminalTypes, TermTyped, TerminalRecord, Levels
  <2>2. \A i \in DOMAIN d.retained :
          \/ \E j \in DOMAIN term[t].retained : d.retained[i] = term[t].retained[j]
          \/ 1 \in DOMAIN E /\ d.retained[i] = E[1]
    BY <1>1, <2>1, KeepsElements
  <2> QED
    BY <1>6, <2>1, <2>2 DEF Level
<1>9. ASSUME NEW u \in Terminals PROVE Level(u)'
  <2>0. term[u].seq \in Nat /\ Level(u)
    BY NumbersTyped DEF Levels
  <2>1. /\ term'[u].written = term[u].written /\ term'[u].seq \in Nat
        /\ term'[u].seq >= term[u].seq
    <3>1. d.seq \in Nat
      BY DEF TerminalRecord
    <3> QED
      BY <1>1, <1>2, <2>0, <3>1 DEF Numbered, Aside
  <2>2. \A i \in DOMAIN term'[u].retained : Reached(u, term'[u].retained[i])
    BY <1>2, <1>8, <2>0 DEF Level
  <2>3. Replays(u)' <=> Replays(u)
    BY <1>3 DEF Replays
  <2>4. u = t => ~Replays(u)
    BY <1>1 DEF MayEmit, Order, OrderOf, RetainedSound
  <2>5. \A i \in DOMAIN channel' : channel'[i].of = u =>
             \/ \E j \in DOMAIN channel : channel'[i] = channel[j]
             \/ Reached(u, channel'[i]) /\ ~(Replays(u) /\ loop'.pc = "respond")
    BY <1>6, <1>7, <2>4
  <2> QED
    BY <1>3, <2>0, <2>1, <2>2, <2>3, <2>5, LevelKept
<1> QED
  BY <1>9 DEF Levels

\* What a step of the loop, the connection or a request leaves of a terminal.
Counts(u) ==
    /\ term'[u].seq = term[u].seq /\ term'[u].written = term[u].written
    /\ term'[u].retained = term[u].retained

\* A request, and the steps of the loop and the connection that send and answer nothing.
LEMMA LevelLoop ==
  ASSUME Base, Order, Levels, UNCHANGED <<channel, inHand, wire>>,
         \A u \in Terminals : Counts(u),
         \/ loop' = loop
         \/ loop'.pc = "idle"
         \/ loop'.pc = "respond" /\ loop'.then # "replay"
         \/ loop'.pc = "await" /\ loop'.of \in Terminals /\ loop'.cursor <= term[loop'.of].seq
         \/ /\ loop'.pc = "replay" /\ loop.pc = "gate" /\ loop'.of = loop.of
            /\ loop'.then = loop.then /\ loop'.frames = loop.frames /\ loop'.cursor = loop.cursor
  PROVE  Levels'
<1>1. ASSUME NEW u \in Terminals PROVE Level(u)'
  <2>1. Counts(u) /\ term[u].seq \in Nat /\ Level(u)
    BY NumbersTyped DEF Levels
  <2>2. \A i \in DOMAIN term'[u].retained : Reached(u, term'[u].retained[i])
    BY <2>1 DEF Level, Counts
  <2>3. CASE loop'.pc = "await" /\ loop'.of = u /\ loop' # loop
    <3>1. loop'.cursor <= term'[u].seq /\ ~Replays(u)'
      BY <2>1, <2>3 DEF Counts, Replays
    <3> QED
      BY <2>1, <2>2, <3>1 DEF Level, Counts, Reached
  <2>4. CASE ~(loop'.pc = "await" /\ loop'.of = u /\ loop' # loop)
    <3>1. Replays(u)' =>
             /\ Replays(u) /\ loop'.cursor = loop.cursor /\ loop'.frames = loop.frames
             /\ loop'.pc = "respond" => loop.pc = "respond"
      BY DEF Replays
    <3>2. loop'.of = u /\ loop'.pc = "await" =>
             loop.of = u /\ loop.pc = "await" /\ loop'.cursor = loop.cursor
      BY <2>4
    <3> QED
      BY <2>1, <2>2, <3>1, <3>2, LevelKept DEF Counts
  <2> QED
    BY <2>3, <2>4
<1> QED
  BY <1>1 DEF Levels

\* What such a step does to a terminal.
LEMMA CountsKept ==
  ASSUME NEW c \in TerminalRecord
  PROVE  \A d \in {[c EXCEPT !.closing = TRUE], Cleaned(c), [c EXCEPT !.barrier = FALSE],
                   [c EXCEPT !.active = TRUE, !.reader = "run", !.waiter = "wait"],
                   Cleaned([c EXCEPT !.failed = TRUE, !.barrier = FALSE])} :
            d.seq = c.seq /\ d.written = c.written /\ d.retained = c.retained
<1> DEFINE Same(d) == d.seq = c.seq /\ d.written = c.written /\ d.retained = c.retained
           e == [c EXCEPT !.failed = TRUE, !.barrier = FALSE]
<1>1. Same([c EXCEPT !.closing = TRUE]) /\ Same([c EXCEPT !.barrier = FALSE])
  BY DEF TerminalRecord
<1>2. Same([c EXCEPT !.active = TRUE, !.reader = "run", !.waiter = "wait"])
  BY DEF TerminalRecord
<1>3. Same(Cleaned(c))
  BY DEF Cleaned, TerminalRecord
<1>4. e \in TerminalRecord /\ Same(e)
  BY DEF TerminalRecord
<1> HIDE DEF e
<1>5. Same(Cleaned(e))
  BY <1>4 DEF Cleaned, TerminalRecord
<1> QED
  BY <1>1, <1>2, <1>3, <1>5 DEF e

LEMMA LevelRequests ==
  ASSUME Base, Order, Levels, NEW t \in Terminals, Open(t) \/ Attach(t) \/ Close(t)
  PROVE  Levels'
<1>1. TermTyped /\ term[t] \in TerminalRecord
  BY DEF Base, TerminalTypes, TermTyped
<1>2. CASE Open(t)
  <2> DEFINE d == [Fresh EXCEPT !.where = "open", !.attachment = 1, !.child = "alive"]
  <2>1. term[t] = Fresh /\ Only(t, d) /\ UNCHANGED <<channel, inHand, wire>>
        /\ loop'.pc = "respond" /\ loop'.then # "replay"
    BY <1>2 DEF Open, Rest, Base, Unopened, Waiting
  <2>2. d.seq = Fresh.seq /\ d.written = Fresh.written /\ d.retained = Fresh.retained
    BY DEF Fresh
  <2> HIDE DEF d
  <2>3. \A u \in Terminals : Counts(u)
    BY <1>1, <2>1, <2>2 DEF Counts, Only, TermTyped
  <2> QED
    BY <2>1, <2>3, LevelLoop
<1>3. CASE Attach(t)
  <2>1. UNCHANGED <<term, channel, inHand, wire>>
        /\ \E cursor \in 0..term[t].latest :
              loop' = [Waiting EXCEPT !.pc = "await", !.of = t, !.cursor = cursor]
    BY <1>3 DEF Attach
  <2>2. PICK cursor \in 0..term[t].latest :
           loop' = [Waiting EXCEPT !.pc = "await", !.of = t, !.cursor = cursor]
    BY <2>1
  <2>3. loop'.pc = "await" /\ loop'.of = t /\ loop'.cursor = cursor
    BY <2>2 DEF Waiting
  <2>4. cursor <= term[t].seq
    <3>1. term[t].latest \in Nat /\ term[t].seq \in Nat /\ term[t].latest <= term[t].seq
      BY <1>1 DEF TerminalRecord, Base, Sound
    <3> QED
      BY <3>1
  <2>5. \A u \in Terminals : Counts(u)
    BY <2>1 DEF Counts
  <2> QED
    BY <2>1, <2>3, <2>4, <2>5, LevelLoop
<1>4. CASE Close(t)
  <2>1. Only(t, [term[t] EXCEPT !.closing = TRUE]) /\ UNCHANGED <<channel, inHand, wire>>
        /\ loop'.pc = "respond" /\ loop'.then # "replay"
    BY <1>4 DEF Close, Rest, Waiting
  <2>2. \A u \in Terminals : Counts(u)
    BY <1>1, <2>1, CountsKept DEF Counts, Only, TermTyped
  <2> QED
    BY <2>1, <2>2, LevelLoop
<1> QED
  BY <1>2, <1>3, <1>4

LEMMA OnlyCounts ==
  ASSUME TermTyped, NEW t \in Terminals, NEW d, Only(t, d),
         d.seq = term[t].seq, d.written = term[t].written, d.retained = term[t].retained
  PROVE  \A u \in Terminals : Counts(u)
<1>1. term'[t] = d /\ \A u \in Terminals \ {t} : term'[u] = term[u]
  BY DEF Only, TermTyped
<1> QED
  BY <1>1 DEF Counts

LEMMA LevelWaits ==
  ASSUME Base, Order, Levels,
         \/ AttachFails \/ (Respond /\ loop.then # "replay") \/ StartReplay \/ EndReplay
         \/ ReplayFails \/ Disconnect \/ EndShutdown
  PROVE  Levels'
<1>1. UNCHANGED <<channel, inHand, wire>>
  BY DEF AttachFails, Respond, StartReplay, EndReplay, ReplayFails, Disconnect, EndShutdown
<1>2. TermTyped /\ loop \in LoopRecord /\ LoopTyped
  BY DEF Base, TerminalTypes, LoopTyped
<1>3. \A u \in Terminals : Counts(u)
  <2>1. CASE AttachFails \/ StartReplay \/ Disconnect \/ EndShutdown
    BY <2>1 DEF AttachFails, StartReplay, Disconnect, EndShutdown, Counts
  <2>2. CASE Respond /\ loop.then # "replay"
    <3>1. loop.of \in Terminals /\ loop.then \in {"activate", "terminate"}
      BY <1>2, <2>2 DEF Respond, LoopTyped, LoopRecord
    <3> SUFFICES ASSUME NEW t \in Terminals, t = loop.of PROVE \A u \in Terminals : Counts(u)
      BY <3>1
    <3>2. \/ Only(t, [term[t] EXCEPT !.active = TRUE, !.reader = "run", !.waiter = "wait"])
          \/ Only(t, Cleaned(term[t]))
      BY <2>2, <3>1 DEF Respond, Activate
    <3>3. term[t] \in TerminalRecord
      BY <1>2, <3>1 DEF TermTyped
    <3>4. CASE Only(t, [term[t] EXCEPT !.active = TRUE, !.reader = "run", !.waiter = "wait"])
      <4> DEFINE d == [term[t] EXCEPT !.active = TRUE, !.reader = "run", !.waiter = "wait"]
      <4>1. d.seq = term[t].seq /\ d.written = term[t].written /\ d.retained = term[t].retained
        BY <3>3 DEF TerminalRecord
      <4>2. Only(t, d)
        BY <3>4
      <4> HIDE DEF d
      <4> QED
        BY <1>2, <4>1, <4>2, OnlyCounts
    <3>5. CASE Only(t, Cleaned(term[t]))
      <4> DEFINE d == Cleaned(term[t])
      <4>1. d.seq = term[t].seq /\ d.written = term[t].written /\ d.retained = term[t].retained
        BY <3>3, CountsKept
      <4>2. Only(t, d)
        BY <3>5
      <4> HIDE DEF d
      <4> QED
        BY <1>2, <4>1, <4>2, OnlyCounts
    <3> QED
      BY <3>2, <3>4, <3>5
  <2>3. CASE EndReplay \/ ReplayFails
    <3>1. loop.of \in Terminals
      BY <1>2, <2>3 DEF EndReplay, ReplayFails, LoopTyped
    <3> SUFFICES ASSUME NEW t \in Terminals, t = loop.of PROVE \A u \in Terminals : Counts(u)
      BY <3>1
    <3>2. \/ Only(t, [term[t] EXCEPT !.barrier = FALSE])
          \/ Only(t, Cleaned([term[t] EXCEPT !.failed = TRUE, !.barrier = FALSE]))
      BY <2>3 DEF EndReplay, ReplayFails
    <3>3. term[t] \in TerminalRecord
      BY <1>2, <3>1 DEF TermTyped
    <3>4. CASE Only(t, [term[t] EXCEPT !.barrier = FALSE])
      <4> DEFINE d == [term[t] EXCEPT !.barrier = FALSE]
      <4>1. d.seq = term[t].seq /\ d.written = term[t].written /\ d.retained = term[t].retained
        BY <3>3 DEF TerminalRecord
      <4>2. Only(t, d)
        BY <3>4
      <4> HIDE DEF d
      <4> QED
        BY <1>2, <4>1, <4>2, OnlyCounts
    <3>5. CASE Only(t, Cleaned([term[t] EXCEPT !.failed = TRUE, !.barrier = FALSE]))
      <4> DEFINE d == Cleaned([term[t] EXCEPT !.failed = TRUE, !.barrier = FALSE])
      <4>1. d.seq = term[t].seq /\ d.written = term[t].written /\ d.retained = term[t].retained
        BY <3>3, CountsKept
      <4>2. Only(t, d)
        BY <3>5
      <4> HIDE DEF d
      <4> QED
        BY <1>2, <4>1, <4>2, OnlyCounts
    <3> QED
      BY <3>2, <3>4, <3>5
  <2> QED
    BY <2>1, <2>2, <2>3
<1>4. \/ loop' = loop
      \/ loop'.pc = "idle"
      \/ /\ loop'.pc = "replay" /\ loop.pc = "gate" /\ loop'.of = loop.of
         /\ loop'.then = loop.then /\ loop'.frames = loop.frames /\ loop'.cursor = loop.cursor
  <2>1. CASE AttachFails \/ EndReplay \/ ReplayFails \/ Disconnect \/ EndShutdown
    BY <2>1 DEF AttachFails, EndReplay, ReplayFails, Disconnect, EndShutdown, Waiting
  <2>2. CASE Respond /\ loop.then # "replay"
    <3>1. loop.then \in {"activate", "terminate"}
      BY <1>2, <2>2 DEF Respond, LoopTyped, LoopRecord
    <3>2. CASE loop.then = "activate"
      BY <2>2, <3>2 DEF Respond, Waiting
    <3>3. CASE loop.then = "terminate"
      BY <2>2, <3>3 DEF Respond, Waiting
    <3> QED
      BY <3>1, <3>2, <3>3
  <2>3. CASE StartReplay
    BY <1>2, <2>3 DEF StartReplay, LoopRecord, Waiting
  <2> QED
    BY <2>1, <2>2, <2>3
<1> QED
  BY <1>1, <1>3, <1>4, LevelLoop

LEMMA LevelShutdown ==
  ASSUME Base, Order, Levels, NEW t \in Terminals, Shutdown(t)
  PROVE  Levels'
<1>1. UNCHANGED <<loop, channel, inHand, wire>>
  BY DEF Shutdown
<1>2. \A u \in Terminals : Counts(u)
  BY ShutdownEach DEF Counts
<1> QED
  BY <1>1, <1>2, LevelLoop

\* The level has reached the last number: it covers what is on its way and is retained.
LEMMA LevelRotate ==
  ASSUME Base, Order, Levels, AttachReady
  PROVE  Levels'
<1> SUFFICES ASSUME NEW t, t = loop.of PROVE Levels'
  OBVIOUS
<1> DEFINE n == term[t].attachment + 1
           d == [term[t] EXCEPT !.attachment = n, !.barrier = TRUE]
           frames == After(term[t].retained, loop.cursor)
<1>1. /\ loop.pc = "await" /\ t \in Terminals /\ term[t].written >= term[t].seq
      /\ term[t] \in TerminalRecord /\ loop \in LoopRecord /\ Level(t)
  BY DEF Base, AttachReady, TerminalTypes, LoopTyped, TermTyped, Levels
<1>2. Only(t, d) /\ UNCHANGED <<channel, inHand, wire>>
  BY <1>1 DEF AttachReady, Rotate, TerminalRecord
<1>3. /\ loop'.pc = "respond" /\ loop'.then = "replay" /\ loop'.of = t
      /\ loop'.frames = frames /\ loop'.cursor = loop.cursor
  BY <1>1 DEF AttachReady, Rotate, LoopRecord
<1>4. term'[t] = d /\ \A u \in Terminals \ {t} : term'[u] = term[u]
  BY <1>1, <1>2 DEF Only, Base, TerminalTypes, TermTyped
<1>5. d.seq = term[t].seq /\ d.written = term[t].written /\ d.retained = term[t].retained
  BY <1>1 DEF TerminalRecord
<1>6. \A j \in DOMAIN frames : \E i \in DOMAIN term[t].retained : frames[j] = term[t].retained[i]
  <2>1. term[t].retained \in Seq(Events) /\ loop.cursor \in Nat
    BY <1>1 DEF TerminalRecord, LoopRecord
  <2> QED
    BY <2>1, AfterSound
<1> HIDE DEF n, frames, d
<1>7. \A e \in {term[t].written, term[t].seq, loop.cursor, inHand.seq} : e \in Nat
  BY <1>1, NumbersTyped DEF TerminalRecord, LoopRecord
<1>8. Level(t)'
  <2>1. loop'.cursor <= term'[t].written
    BY <1>1, <1>3, <1>4, <1>5, <1>7 DEF Level
  <2>2. \A i \in DOMAIN term[t].retained : term[t].retained[i].seq \in wire[t].got
    <3> SUFFICES ASSUME NEW i \in DOMAIN term[t].retained
                 PROVE  term[t].retained[i].seq \in wire[t].got
      OBVIOUS
    <3>1. term[t].retained[i].seq \in Nat /\ term[t].retained[i].seq <= term[t].seq
          /\ Reached(t, term[t].retained[i])
      BY <1>1, NumbersTyped DEF Order, OrderOf, RetainedSound, Level
    <3> QED
      BY <1>1, <1>7, <3>1 DEF Reached
  <2>3. \A i \in DOMAIN frames : frames[i].seq \in wire[t].got
    BY <1>6, <2>2
  <2>4. ASSUME NEW e, e.of = t, e.seq \in Nat, Reached(t, e), Mine(e, t) => e.seq <= term[t].seq
        PROVE  e.seq <= term[t].written
    <3>1. CASE e.late
      BY <2>4, <3>1 DEF Reached
    <3>2. CASE ~e.late
      <4>1. e.seq <= term[t].seq
        BY <2>4, <3>2 DEF Mine
      <4> QED
        BY <1>1, <1>7, <2>4, <4>1
    <3> QED
      BY <3>1, <3>2
  <2>5. /\ inHand.of = t => inHand.seq <= term[t].written
        /\ \A i \in DOMAIN channel : channel[i].of = t => channel[i].seq <= term[t].written
    <3>1. UpTo(t, term[t].seq)
      BY <1>1 DEF Order, OrderOf
    <3>2. inHand.of = t => inHand.seq <= term[t].written
      BY <1>1, <1>7, <2>4, <3>1 DEF UpTo, Level
    <3>3. ASSUME NEW i \in DOMAIN channel, channel[i].of = t PROVE channel[i].seq <= term[t].written
      <4>1. channel[i].seq \in Nat
        BY <1>1, NumbersTyped
      <4> QED
        BY <1>1, <2>4, <3>1, <3>3, <4>1 DEF UpTo, Level
    <3> QED
      BY <3>2, <3>3
  <2>6. Covered(t)'
    BY <1>2, <1>4, <1>5, <2>5 DEF Covered
  <2>7. Reached(t, inHand)' <=> Reached(t, inHand)
    BY <1>2, <1>4, <1>5 DEF Reached
  <2>8. \A i \in DOMAIN channel : Reached(t, channel[i])' <=> Reached(t, channel[i])
    BY <1>2, <1>4, <1>5 DEF Reached
  <2>9. \A i \in DOMAIN term[t].retained : Reached(t, term[t].retained[i])'
                                           <=> Reached(t, term[t].retained[i])
    BY <1>2, <1>4, <1>5 DEF Reached
  <2> QED
    BY <1>1, <1>2, <1>3, <1>4, <1>5, <2>1, <2>3, <2>6, <2>7, <2>8, <2>9 DEF Level
<1>9. ASSUME NEW u \in Terminals, u # t PROVE Level(u)'
  <2>1. term'[u] = term[u] /\ term[u].seq \in Nat /\ ~Replays(u)' /\ Level(u)
    BY <1>3, <1>4, <1>9, NumbersTyped DEF Replays, Levels
  <2>2. \A i \in DOMAIN term[u].retained : Reached(u, term[u].retained[i])
    BY <2>1 DEF Level
  <2> QED
    BY <1>2, <1>3, <1>9, <2>1, <2>2, LevelKept
<1> QED
  BY <1>8, <1>9 DEF Levels

\* The client has seen the response: what becomes late is covered by the level.
LEMMA LevelReplied ==
  ASSUME Base, Order, Levels, Respond, loop.then = "replay"
  PROVE  Levels'
<1> SUFFICES ASSUME NEW t, t = loop.of PROVE Levels'
  OBVIOUS
<1>1. /\ loop.pc = "respond" /\ t \in Terminals /\ loop \in LoopRecord /\ ChannelTyped
      /\ WireTyped
  BY DEF Base, Respond, TerminalTypes, LoopTyped
<1>2. /\ UNCHANGED term /\ loop' = [loop EXCEPT !.pc = "gate"] /\ SeesReply(t)
  BY <1>1 DEF Respond
<1>3. /\ loop'.pc = "gate" /\ loop'.then = "replay" /\ loop'.of = t /\ loop'.frames = loop.frames
      /\ loop'.cursor = loop.cursor /\ loop.cursor \in Nat
  BY <1>1, <1>2 DEF LoopRecord
<1>4. /\ wire'[t] = [wire[t] EXCEPT !.cursor = loop.cursor, !.events = <<>>]
      /\ \A u \in Terminals \ {t} : wire'[u] = wire[u]
      /\ DOMAIN channel' = DOMAIN channel
      /\ \A i \in DOMAIN channel : channel'[i] = Overtaken(t, channel[i])
      /\ inHand' = Overtaken(t, inHand)
  BY <1>1, <1>2, <1>3, SeesReplyTyped
<1>5. wire'[t].events = <<>> /\ wire'[t].cursor = loop.cursor /\ wire'[t].got = wire[t].got
  <2>1. wire[t] \in WireRecord
    BY <1>1 DEF WireTyped
  <2> QED
    BY <1>4, <2>1 DEF WireRecord
<1>6. ASSUME NEW e \in Events \cup {Nothing}
      PROVE  /\ Overtaken(t, e).of = e.of /\ Overtaken(t, e).seq = e.seq
             /\ e.of # t => Overtaken(t, e) = e
  <2>1. CASE e \in Events
    BY <2>1 DEF Overtaken, Events
  <2>2. CASE e = Nothing
    BY <2>2 DEF Overtaken, Nothing
  <2> QED
    BY <2>1, <2>2
<1>7. inHand \in Events \cup {Nothing} /\ \A i \in DOMAIN channel : channel[i] \in Events
  BY <1>1 DEF ChannelTyped
<1>8. Level(t)'
  <2>1. Replays(t) /\ Level(t) /\ Covered(t)
    BY <1>1 DEF Replays, Levels, Level
  <2>2. \A e : Reached(t, e)' <=> Reached(t, e)
    BY <1>2, <1>5 DEF Reached
  <2>3. ASSUME NEW e \in Events \cup {Nothing}, e.of = t, Reached(t, e), e.seq <= term[t].written
        PROVE  Reached(t, Overtaken(t, e))
    BY <1>6, <2>3 DEF Reached
  <2>4. inHand'.of = t => Reached(t, inHand')
    BY <1>4, <1>6, <1>7, <2>1, <2>3 DEF Level, Covered
  <2>5. ASSUME NEW i \in DOMAIN channel', channel'[i].of = t PROVE Reached(t, channel'[i])
    <3>1. channel[i] \in Events /\ channel'[i] = Overtaken(t, channel[i]) /\ i \in DOMAIN channel
      BY <1>4, <1>7
    <3>2. channel[i].of = t
      BY <1>6, <2>5, <3>1
    <3>3. Reached(t, channel[i]) /\ channel[i].seq <= term[t].written
      BY <2>1, <3>1, <3>2 DEF Level, Covered
    <3> QED
      BY <2>3, <3>1, <3>2, <3>3
  <2>6. loop.cursor <= term[t].written
        /\ \A i \in DOMAIN loop.frames : loop.frames[i].seq \in wire[t].got
    BY <2>1 DEF Level
  <2>7. inHand'.of = t => Reached(t, inHand)'
    BY <1>2, <1>5, <2>4 DEF Reached
  <2>8. \A i \in DOMAIN channel' : channel'[i].of = t => Reached(t, channel[i])'
    BY <1>2, <1>5, <2>5 DEF Reached
  <2>9. \A i \in DOMAIN term[t].retained : Reached(t, term[t].retained[i])'
    BY <1>2, <1>5, <2>1 DEF Reached, Level
  <2> QED
    BY <1>2, <1>3, <1>5, <2>1, <2>6, <2>7, <2>8, <2>9 DEF Level
<1>9. ASSUME NEW u \in Terminals, u # t PROVE Level(u)'
  <2>1. Level(u) /\ term[u].seq \in Nat /\ ~Replays(u)' /\ wire'[u] = wire[u] /\ UNCHANGED term
    BY <1>2, <1>3, <1>4, <1>9, NumbersTyped DEF Replays, Levels
  <2>2. \A i \in DOMAIN channel' : channel'[i].of = u =>
          i \in DOMAIN channel /\ channel'[i] = channel[i]
    BY <1>4, <1>6, <1>7, <1>9
  <2>3. inHand' = inHand \/ inHand'.of # u
    BY <1>4, <1>6, <1>7, <1>9
  <2>4. \A i \in DOMAIN term[u].retained : Reached(u, term[u].retained[i])
    BY <2>1 DEF Level
  <2> QED
    BY <1>3, <1>9, <2>1, <2>2, <2>3, <2>4, LevelKept
<1> QED
  BY <1>8, <1>9 DEF Levels

LEMMA LevelEvents ==
  ASSUME Base, Order, Levels, Replay \/ Receive \/ FailConnection
  PROVE  Levels'
<1>1. UNCHANGED <<term, wire>> /\ channel \in Seq(Events)
  BY DEF Replay, Receive, FailConnection, Base, TerminalTypes, ChannelTyped
<1>2. ASSUME NEW u \in Terminals PROVE Level(u)'
  <2>0. term[u].seq \in Nat /\ Level(u)
        /\ \A i \in DOMAIN term[u].retained : Reached(u, term[u].retained[i])
    BY NumbersTyped DEF Levels, Level
  <2>1. CASE Replay
    <3> DEFINE h == Head(loop.frames)
               rest == Tail(loop.frames)
    <3>1. /\ loop \in LoopRecord /\ loop.pc = "replay" /\ loop.frames \in Seq(Events)
          /\ loop.then = "replay" /\ loop.frames # <<>>
      BY <2>1 DEF Replay, Base, TerminalTypes, LoopTyped, LoopRecord
    <3>2. /\ channel' = Append(channel, h) /\ UNCHANGED inHand /\ loop'.frames = rest
          /\ loop'.pc = "replay" /\ loop'.of = loop.of /\ loop'.then = "replay"
          /\ loop'.cursor = loop.cursor
      BY <2>1, <3>1 DEF Replay, LoopRecord
    <3>3. h \in Events /\ h = loop.frames[1] /\ 1 \in DOMAIN loop.frames
          /\ \A i \in DOMAIN rest : i + 1 \in DOMAIN loop.frames /\ rest[i] = loop.frames[i + 1]
      BY <3>1, Tailed
    <3> HIDE DEF h, rest
    <3>4. \A i \in DOMAIN channel' : (i \in DOMAIN channel /\ channel'[i] = channel[i])
                                     \/ channel'[i] = h
      BY <1>1, <3>2, <3>3, AppendedOne
    <3>5. h.of = u => Reached(u, h)
      <4> SUFFICES ASSUME NEW t, t = loop.of, h.of = u PROVE Reached(u, h)
        OBVIOUS
      <4>1. Replays(t) /\ t \in Terminals
        BY <3>1 DEF Replays, Base, TerminalTypes, LoopTyped
      <4>2. Mine(h, t) /\ h.seq \in wire[t].got
        BY <3>3, <4>1 DEF Order, OrderOf, RetainedSound, Levels, Level
      <4> QED
        BY <4>2 DEF Mine, Reached
    <3>6. Replays(u)' =>
             /\ Replays(u)
             /\ \A i \in DOMAIN loop'.frames :
                   \E j \in DOMAIN loop.frames : loop'.frames[i] = loop.frames[j]
      BY <3>1, <3>2, <3>3 DEF Replays
    <3>7. \A i \in DOMAIN channel' : channel'[i].of = u =>
             \/ \E j \in DOMAIN channel : channel'[i] = channel[j]
             \/ Reached(u, channel'[i]) /\ loop'.pc # "respond"
      BY <3>2, <3>4, <3>5
    <3> QED
      BY <1>1, <2>0, <3>2, <3>6, <3>7, LevelKept
  <2>2. CASE Receive
    <3>1. /\ channel # <<>> /\ UNCHANGED loop /\ inHand' = Head(channel) /\ channel' = Tail(channel)
      BY <2>2 DEF Receive
    <3>2. /\ \E j \in DOMAIN channel : inHand' = channel[j]
          /\ \A i \in DOMAIN channel' : \E j \in DOMAIN channel : channel'[i] = channel[j]
      BY <1>1, <3>1, Tailed
    <3>3. Replays(u)' => Replays(u)
      BY <3>1 DEF Replays
    <3> QED
      BY <1>1, <2>0, <3>1, <3>2, <3>3, LevelKept
  <2>3. CASE FailConnection
    <3>1. channel' = <<>> /\ UNCHANGED inHand /\ loop' = Waiting
      BY <2>3 DEF FailConnection
    <3>2. ~Replays(u)' /\ loop'.pc = "idle"
      BY <3>1 DEF Replays, Waiting
    <3> QED
      BY <1>1, <2>0, <3>1, <3>2, LevelKept
  <2> QED
    BY <2>1, <2>2, <2>3
<1> QED
  BY <1>2 DEF Levels

\* What is flushed raises the level: what the level comes to cover has been received, since
\* all of it that is behind has higher numbers.
LEMMA LevelFlush ==
  ASSUME Base, Order, Levels, Flush
  PROVE  Levels'
<1> SUFFICES ASSUME NEW t, t = inHand.of PROVE Levels'
  OBVIOUS
<1> DEFINE c == term[t]
           d == [c EXCEPT !.written = inHand.seq]
<1>1. inHand \in Events /\ t \in Terminals /\ WireTyped /\ ChannelTyped
  BY HeldEvent DEF Base, Flush, TerminalTypes
<1>2. Only(t, IF c.where = "open" /\ inHand.seq > c.written THEN d ELSE c)
      /\ inHand' = Nothing /\ UNCHANGED <<loop, channel>>
  BY DEF Flush
<1>3. c \in TerminalRecord /\ TermTyped
  BY <1>1 DEF Base, TerminalTypes, TermTyped
<1>4. /\ term'[t] = IF c.where = "open" /\ inHand.seq > c.written THEN d ELSE c
      /\ \A u \in Terminals \ {t} : term'[u] = term[u]
  BY <1>1, <1>2, <1>3 DEF Only, TermTyped
<1>5. d.seq = c.seq /\ d.written = inHand.seq /\ d.retained = c.retained
  BY <1>3 DEF TerminalRecord
<1> HIDE DEF d
<1>6. /\ wire'[t].cursor = wire[t].cursor /\ wire'[t].got = wire[t].got \cup {inHand.seq}
      /\ wire'[t].events = IF inHand.late THEN wire[t].events ELSE Append(wire[t].events, inHand)
      /\ \A u \in Terminals \ {t} : wire'[u] = wire[u]
  BY <1>1, FlushedWire
<1>7. \A u \in Terminals : inHand'.of # u
  BY <1>2, TerminalAssumption DEF Nothing
<1>8. Level(t)'
  <2>1. /\ Level(t) /\ UpTo(t, c.seq) /\ InOrder(t) /\ RetainedSound(t) /\ Complete(t)
        /\ c.seq \in Nat /\ c.written \in Nat /\ inHand.seq \in Nat /\ loop.cursor \in Nat
        /\ wire[t].cursor \in Nat
    BY <1>1, <1>3, NumbersTyped DEF Levels, Order, OrderOf, TerminalRecord, Base, TerminalTypes,
       LoopTyped, LoopRecord, WireTyped, WireRecord
  <2>2. /\ \A i \in DOMAIN channel : channel[i].seq \in Nat
        /\ \A i \in DOMAIN c.retained : c.retained[i].seq \in Nat
    BY <1>1, NumbersTyped
  <2>3. /\ term'[t].seq = c.seq /\ term'[t].retained = c.retained
        /\ \/ term'[t].written = c.written
           \/ term'[t].written = inHand.seq /\ inHand.seq > c.written
    BY <1>4, <1>5
  <2>4. inHand.seq > c.written => Mine(inHand, t) /\ inHand.seq <= c.seq
    BY <1>1, <2>1 DEF Level, Reached, Mine, UpTo
  <2>5. term'[t].written <= term'[t].seq /\ term'[t].written >= c.written
    BY <2>1, <2>3, <2>4 DEF Level
  <2>6. wire'[t].cursor <= term'[t].written
    BY <1>6, <2>1, <2>3, <2>5 DEF Level
  <2>7. \A i \in DOMAIN wire'[t].events : wire'[t].events[i].seq \in wire'[t].got
    <3>1. wire[t].events \in Seq(Events) /\ inHand \in Events
      BY <1>1 DEF WireTyped, WireRecord
    <3>2. \A i \in DOMAIN Append(wire[t].events, inHand) :
             \/ i \in DOMAIN wire[t].events
                /\ Append(wire[t].events, inHand)[i] = wire[t].events[i]
             \/ Append(wire[t].events, inHand)[i] = inHand
      BY <3>1, AppendedOne
    <3> QED
      BY <1>6, <2>1, <3>2 DEF Level
  <2>8. ASSUME NEW e, e.seq \in Nat, Reached(t, e),
               Mine(inHand, t) /\ Mine(e, t) =>
                  inHand.seq < e.seq \/ e.seq \in wire'[t].got \/ e.seq <= c.written,
               e.of = t
        PROVE  Reached(t, e)'
    <3>1. e.late => e.seq <= term'[t].written
      BY <2>1, <2>3, <2>5, <2>8 DEF Reached
    <3>2. e.seq <= c.written => e.seq \in wire'[t].got
      BY <1>6, <2>8 DEF Reached
    <3>3. e.seq <= term'[t].written => e.seq \in wire'[t].got
      <4>1. CASE term'[t].written = c.written \/ e.late
        BY <2>8, <3>2, <4>1 DEF Reached
      <4>2. CASE term'[t].written = inHand.seq /\ inHand.seq > c.written /\ ~e.late
        <5>1. Mine(inHand, t) /\ Mine(e, t)
          BY <2>4, <2>8, <4>2 DEF Mine
        <5> QED
          BY <2>1, <2>8, <3>2, <4>2, <5>1
      <4> QED
        BY <2>3, <4>1, <4>2
    <3> QED
      BY <3>1, <3>3 DEF Reached
  <2>9. ASSUME NEW i \in DOMAIN channel, channel[i].of = t PROVE Reached(t, channel[i])'
    <3>1. Reached(t, channel[i]) /\ channel[i].seq \in Nat
          /\ (Mine(inHand, t) /\ Mine(channel[i], t) => inHand.seq < channel[i].seq)
      BY <2>1, <2>2, <2>9 DEF Level, InOrder
    <3> SUFFICES ASSUME NEW e, e = channel[i] PROVE Reached(t, e)'
      BY <1>2 DEF Reached
    <3> QED
      BY <2>8, <2>9, <3>1
  <2>10. ASSUME NEW i \in DOMAIN c.retained PROVE Reached(t, c.retained[i])'
    <3> SUFFICES ASSUME NEW e, e = c.retained[i] PROVE Reached(t, e)'
      BY <2>3 DEF Reached
    <3>1. Reached(t, e) /\ e.seq \in Nat /\ Mine(e, t) /\ e.of = t
      BY <2>1, <2>2 DEF Level, RetainedSound, Mine
    <3>2. ASSUME Mine(inHand, t), ~(e.seq <= c.written), ~(inHand.seq < e.seq)
          PROVE  e.seq \in wire'[t].got
      <4>1. e.seq > wire[t].cursor
        BY <2>1, <3>1, <3>2 DEF Level
      <4>2. ~UpTo(t, e.seq - 1)
        BY <2>1, <3>1, <3>2 DEF UpTo
      <4>3. OnItsWay(t, e)
        BY <2>1, <4>1, <4>2 DEF Complete
      <4>4. /\ \A j \in DOMAIN channel : channel[j] # e
            /\ \A j \in DOMAIN Pending(t) : Pending(t)[j] # e
        BY <2>1, <3>1, <3>2 DEF InOrder
      <4>5. CASE inHand = e
        BY <1>6, <4>5
      <4>6. CASE \E j \in DOMAIN wire[t].events : wire[t].events[j] = e
        BY <1>6, <2>1, <4>6 DEF Level
      <4> QED
        BY <4>3, <4>4, <4>5, <4>6 DEF OnItsWay
    <3> QED
      BY <2>8, <3>1, <3>2
  <2>11. Replays(t)' =>
          /\ loop'.cursor <= term'[t].written
          /\ \A i \in DOMAIN loop'.frames : loop'.frames[i].seq \in wire'[t].got
    <3>1. Replays(t)' => Replays(t)
      BY <1>2 DEF Replays
    <3>2. Replays(t) => /\ loop.cursor <= c.written
                        /\ \A i \in DOMAIN loop.frames : loop.frames[i].seq \in wire[t].got
      BY <2>1 DEF Level
    <3> QED
      BY <1>2, <1>6, <2>1, <2>3, <2>5, <3>1, <3>2
  <2>12. Replays(t)' /\ loop'.pc = "respond" => Covered(t)'
    <3> SUFFICES ASSUME Replays(t), loop.pc = "respond"
                 PROVE  \A i \in DOMAIN channel :
                           channel[i].of = t => channel[i].seq <= term'[t].written
      BY <1>1, <1>2, <1>7 DEF Covered, Replays
    <3>1. \A i \in DOMAIN channel : channel[i].of = t => channel[i].seq <= c.written
      BY <2>1 DEF Level, Covered
    <3> QED
      BY <2>1, <2>2, <2>3, <2>5, <3>1
  <2>13. loop'.pc = "await" /\ loop'.of = t => loop'.cursor <= term'[t].seq
    BY <1>2, <2>1, <2>3 DEF Level
  <2> QED
    BY <1>1, <1>2, <1>7, <2>3, <2>5, <2>6, <2>7, <2>9, <2>10, <2>11, <2>12, <2>13 DEF Level
<1>9. ASSUME NEW u \in Terminals, u # t PROVE Level(u)'
  <2>1. /\ term'[u] = term[u] /\ wire'[u] = wire[u] /\ inHand'.of # u /\ Level(u)
        /\ (Replays(u)' <=> Replays(u)) /\ term[u].seq \in Nat
    BY <1>2, <1>4, <1>6, <1>7, <1>9, NumbersTyped DEF Replays, Levels
  <2>2. \A i \in DOMAIN term[u].retained : Reached(u, term[u].retained[i])
    BY <2>1 DEF Level
  <2> QED
    BY <1>2, <2>1, <2>2, LevelKept
<1> QED
  BY <1>8, <1>9 DEF Levels

LEMMA LevelStep ==
  ASSUME Base, Order, Levels, [TerminalNext]_terminalVars
  PROVE  Levels'
<1>1. CASE TerminalNext
  BY <1>1, StepKinds, LevelQuiet, LevelSend, LevelShutdown, LevelRequests, LevelRotate,
     LevelReplied, LevelWaits, LevelEvents, LevelFlush DEF Loop, Pump
<1>2. CASE UNCHANGED terminalVars
  <2>1. UNCHANGED <<term, loop, channel, inHand, wire>>
    BY <1>2 DEF terminalVars
  <2>2. \A u \in Terminals : Counts(u)
    BY <2>1 DEF Counts
  <2> QED
    BY <2>1, <2>2, LevelLoop
<1> QED
  BY <1>1, <1>2

\* What is late the client has received.
LEMMA LevelShows ==
  ASSUME Base, Levels
  PROVE  LateIsOld
<1> SUFFICES ASSUME NEW e \in ToSet(channel) \cup {inHand}, e.late
             PROVE  e.seq \in wire[e.of].got
  BY DEF LateIsOld
<1>1. e = inHand \/ \E i \in DOMAIN channel : e = channel[i]
  BY DEF ToSet
<1>2. inHand \in Events \cup {Nothing} /\ channel \in Seq(Events)
  BY DEF Base, TerminalTypes, ChannelTyped
<1>3. e \in Events
  BY <1>1, <1>2 DEF Nothing
<1> SUFFICES ASSUME NEW t, t = e.of PROVE e.seq \in wire[t].got
  OBVIOUS
<1>4. t \in Terminals
  BY <1>3 DEF Events
<1>5. Reached(t, e)
  BY <1>1, <1>4 DEF Levels, Level
<1> QED
  BY <1>5 DEF Reached

-----------------------------------------------------------------------------
(* The theorems.                                                           *)

\* What the client sees is in order, and leaves no retained output out.
LEMMA OrderShows ==
  ASSUME Base, Order
  PROVE  ReplayThenLive
<1> SUFFICES ASSUME NEW t \in Terminals
             PROVE  LET view == wire[t].events
                        seen == Outputs(view)
                    IN  /\ \A i \in 1..(Len(view) - 1) : view[i].seq < view[i + 1].seq
                        /\ \A e \in ToSet(term[t].retained) :
                              e.seq > wire[t].cursor /\ (\E s \in seen : e.seq < s) => e.seq \in seen
  BY DEF ReplayThenLive
<1> DEFINE view == wire[t].events
           seen == Outputs(view)
<1>1. view \in Seq(Events) /\ InOrder(t) /\ RetainedSound(t) /\ Complete(t) /\ Ascends(view)
  BY DEF Base, TerminalTypes, WireTyped, WireRecord, Order, OrderOf, InOrder
<1>2. \A i \in 1..(Len(view) - 1) : view[i].seq < view[i + 1].seq
  <2> SUFFICES ASSUME NEW i \in 1..(Len(view) - 1) PROVE view[i].seq < view[i + 1].seq
    OBVIOUS
  <2>1. i \in DOMAIN view /\ i + 1 \in DOMAIN view /\ i < i + 1
    BY <1>1
  <2> QED
    BY <1>1, <2>1 DEF Ascends
<1>3. seen = {view[i].seq : i \in {j \in DOMAIN view : view[j].kind = "output"}}
  BY DEF Outputs, ToSet
<1>4. ASSUME NEW i \in DOMAIN term[t].retained, term[t].retained[i].seq > wire[t].cursor,
             NEW j \in DOMAIN view, term[t].retained[i].seq < view[j].seq
      PROVE  term[t].retained[i].seq \in seen
  <2> DEFINE e == term[t].retained[i]
  <2>1. Mine(e, t) /\ e.kind = "output" /\ e.seq \in Nat /\ view[j].seq \in Nat
    BY <1>1, NumbersTyped DEF RetainedSound
  <2>2. ~UpTo(t, e.seq - 1)
    BY <1>4, <2>1 DEF UpTo
  <2>3. OnItsWay(t, e)
    BY <1>1, <1>4, <2>2 DEF Complete
  <2>4. inHand # e
    <3>1. Mine(inHand, t) => view[j].seq < inHand.seq
      BY <1>1 DEF InOrder
    <3> QED
      BY <1>4, <2>1, <3>1
  <2>5. \A k \in DOMAIN channel : channel[k] # e
    <3>1. \A k \in DOMAIN channel : Mine(channel[k], t) => view[j].seq < channel[k].seq
      BY <1>1 DEF InOrder
    <3> QED
      BY <1>4, <2>1, <3>1
  <2>6. \A k \in DOMAIN Pending(t) : Pending(t)[k] # e
    <3>1. \A k \in DOMAIN Pending(t) : view[j].seq < Pending(t)[k].seq
      BY <1>1 DEF InOrder
    <3> QED
      BY <1>4, <2>1, <3>1
  <2>7. PICK k \in DOMAIN view : view[k] = e
    BY <2>3, <2>4, <2>5, <2>6 DEF OnItsWay
  <2> QED
    BY <1>3, <2>1, <2>7
<1>5. \A e \in ToSet(term[t].retained) : \E i \in DOMAIN term[t].retained : e = term[t].retained[i]
  BY DEF ToSet
<1>6. \A s \in seen : \E j \in DOMAIN view : s = view[j].seq
  BY <1>3
<1> HIDE DEF seen, view
<1>7. \A e \in ToSet(term[t].retained) :
        e.seq > wire[t].cursor /\ (\E s \in seen : e.seq < s) => e.seq \in seen
  BY <1>4, <1>5, <1>6
<1> QED
  BY <1>2, <1>7 DEF view, seen

(* terminal.exited reaches the client only after every byte of the child   *)
(* went out: whatever fails, is closed, expires or is attached meanwhile,  *)
(* for any number of terminals, size of the channel or retention.          *)
THEOREM ExitComesLast == TerminalSpec => []ExitAfterOutput
<1>1. TerminalInit => Base
  BY BaseInit
<1>2. Base /\ [TerminalNext]_terminalVars => Base'
  BY BaseStep
<1>3. Base => ExitAfterOutput
  BY DEF Base, Sound, ExitSound, ReadAll, ExitAfterOutput
<1> QED
  BY <1>1, <1>2, <1>3, PTL DEF TerminalSpec

(* Whatever fails, is closed or is attached again meanwhile, the client    *)
(* sees after each response the retained output after its cursor and then  *)
(* the live events, each once and in order; what else comes after it is    *)
(* the rest of an earlier replay, which it has received before; and the    *)
(* exit comes after all the output. For any number of terminals and of     *)
(* attachments, any size of the channel and any retention.                 *)
THEOREM EventsKeepOrder == TerminalSpec => []EventsInOrder
<1>1. TerminalInit => Base /\ Order /\ Levels
  BY BaseInit, OrderStarts, LevelStarts
<1>2. Base /\ Order /\ Levels /\ [TerminalNext]_terminalVars => Base' /\ Order' /\ Levels'
  BY BaseStep, OrderStep, LevelStep
<1>3. Base /\ Order /\ Levels => EventsInOrder
  <2>1. Base => ExitAfterOutput
    BY DEF Base, Sound, ExitSound, ReadAll, ExitAfterOutput
  <2> QED
    BY <2>1, OrderShows, LevelShows DEF EventsInOrder
<1> QED
  BY <1>1, <1>2, <1>3, PTL DEF TerminalSpec
=============================================================================
