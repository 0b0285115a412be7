----------------------------- MODULE SseDecoder -----------------------------
(***************************************************************************)
(* The decoder of server-sent events (provider/sse.rs). The network hands  *)
(* it the bytes of a response in pieces that break anywhere; it must give  *)
(* the adapters the same events however they were broken. A line is told   *)
(* by its first byte: a data field, an id field, or neither.               *)
(***************************************************************************)
EXTENDS Naturals, Sequences, SequencesExt

CONSTANTS CR, LF,
          Data, Id,       \* first bytes of a data field and of an id field
          Other,          \* any other bytes
          EventLimit,     \* max_event_bytes
          MaxBytes        \* bound: bytes of the response

ASSUME DecoderAssumption ==
    /\ CR # LF /\ Data # Id /\ {CR, LF} \cap ({Data, Id} \cup Other) = {}
    /\ EventLimit \in Nat /\ MaxBytes \in Nat

VARIABLES decoder,   \* its buffer, last event ID, and whether it failed or finished
          wire,      \* bytes sent and not read yet
          fed,       \* history: bytes the decoder was given
          events     \* history: events it gave to the adapter
decoderVars == <<decoder, wire, fed, events>>

DecoderInit ==
    /\ decoder = [buffer |-> <<>>, lastId |-> <<>>, pc |-> "open"]
    /\ wire = <<>> /\ fed = <<>> /\ events = <<>>

Breaks == {CR, LF}
Ends(bytes, i) == bytes[i] = LF \/ (bytes[i] = CR /\ (i < Len(bytes) => bytes[i + 1] # LF))

-----------------------------------------------------------------------------
(* find_event_end: a line starts after LF, CRLF or CR, but a CR at the end *)
(* of the buffer may still become CRLF. The event ends at the first empty  *)
(* line.                                                                   *)

\* Mutant: the LF of a CRLF ends a line of its own.
LineStartsUnpaired(bytes) == {0} \cup {i \in DOMAIN bytes : bytes[i] \in Breaks}

LineStarts(bytes) ==
    {0} \cup {i \in DOMAIN bytes : Ends(bytes, i) /\ (bytes[i] = CR => i < Len(bytes))}

EmptyLines(bytes) ==
    {s \in LineStarts(bytes) : s < Len(bytes) /\ bytes[s + 1] \in Breaks}
FindEventEnd(bytes) == CHOOSE s \in EmptyLines(bytes) : \A t \in EmptyLines(bytes) : s <= t
Consumed(bytes, s) == IF IsPrefix(<<CR, LF>>, SubSeq(bytes, s + 1, Len(bytes))) THEN s + 2 ELSE s + 1

\* The line that ends at byte i, without what ends it.
Line(bytes, start, i) ==
    SubSeq(bytes, start + 1,
           IF bytes[i] = LF /\ i - 1 > start /\ bytes[i - 1] = CR THEN i - 2 ELSE i - 1)
Named(line, name) == line # <<>> /\ line[1] = name

\* parse_event takes line after line. The ID is kept for later events, also by a block
\* that has no data.
TakeLine(event, line) ==
    [data |-> IF Named(line, Data) THEN Append(event.data, line) ELSE event.data,
     id |-> IF Named(line, Id) THEN line ELSE event.id]
PassByte(bytes, p, i) ==
    IF Ends(bytes, i)
    THEN [start |-> i, event |-> TakeLine(p.event, Line(bytes, p.start, i))] ELSE p
SseEvent(bytes, lastId) ==
    LET passed[i \in 0..Len(bytes)] ==
            IF i = 0 THEN [start |-> 0, event |-> [data |-> <<>>, id |-> lastId]]
            ELSE PassByte(bytes, passed[i - 1], i)
    IN  passed[Len(bytes)].event

Given(event) == IF event.data = <<>> THEN <<>> ELSE <<event>>

\* What push makes of the buffer: all its complete events and what is left, or an error
\* that takes the events of this call with it.
DrainOne(d) ==
    IF ~d.ok \/ EmptyLines(d.buffer) = {} THEN d
    ELSE LET s == FindEventEnd(d.buffer)
             event == SseEvent(SubSeq(d.buffer, 1, s), d.lastId)
         IN  IF s > EventLimit THEN [d EXCEPT !.ok = FALSE]
             ELSE [buffer |-> SubSeq(d.buffer, Consumed(d.buffer, s) + 1, Len(d.buffer)),
                   lastId |-> event.id, out |-> d.out \o Given(event), ok |-> TRUE]
Drain(buffer, lastId) ==
    LET after[k \in 0..Len(buffer)] ==
            IF k = 0 THEN [buffer |-> buffer, lastId |-> lastId, out |-> <<>>, ok |-> TRUE]
            ELSE DrainOne(after[k - 1])
    IN  after[Len(buffer)]

Arrive(b) ==
    /\ decoder.pc = "open" /\ Len(fed \o wire) < MaxBytes
    /\ wire' = Append(wire, b)
    /\ UNCHANGED <<decoder, fed, events>>

Push(n) ==
    /\ decoder.pc = "open"
    /\ LET d == Drain(decoder.buffer \o SubSeq(wire, 1, n), decoder.lastId)
           ok == d.ok /\ Len(d.buffer) <= EventLimit
       IN  /\ decoder' = [buffer |-> d.buffer, lastId |-> d.lastId,
                          pc |-> IF ok THEN "open" ELSE "failed"]
           /\ events' = IF ok THEN events \o d.out ELSE events
    /\ fed' = fed \o SubSeq(wire, 1, n)
    /\ wire' = SubSeq(wire, n + 1, Len(wire))

\* A line that was cut off takes its unfinished event with it.
FinishStream ==
    /\ decoder.pc = "open" /\ wire = <<>>
    /\ LET rest == decoder.buffer
           event == SseEvent(rest, decoder.lastId)
           whole == rest # <<>> /\ Last(rest) \in Breaks
       IN  /\ decoder' = [buffer |-> <<>>, lastId |-> IF whole THEN event.id ELSE decoder.lastId,
                          pc |-> IF Len(rest) <= EventLimit THEN "done" ELSE "failed"]
           /\ events' = IF whole /\ Len(rest) <= EventLimit THEN events \o Given(event) ELSE events
    /\ UNCHANGED <<wire, fed>>

DecoderNext == \/ \E b \in {CR, LF, Data, Id} \cup Other : Arrive(b)
               \/ \E n \in 1..Len(wire) : Push(n)
               \/ FinishStream

DecoderSpec == DecoderInit /\ [][DecoderNext]_decoderVars

-----------------------------------------------------------------------------
(* Properties.                                                             *)

\* The stream read one byte at a time, as the event-stream format defines it.
Reader == [line |-> <<>>, cr |-> FALSE, size |-> 0, data |-> <<>>, id |-> <<>>, lastId |-> <<>>,
           out |-> <<>>, over |-> FALSE]
Dispatch(r) ==
    [r EXCEPT !.out = IF r.data = <<>> THEN @ ELSE Append(@, [data |-> r.data, id |-> r.id]),
              !.lastId = r.id, !.data = <<>>, !.size = 0]
Ended(r) ==
    CASE r.line = <<>> -> Dispatch(r)
      [] r.line # <<>> /\ Head(r.line) = Data ->
            [r EXCEPT !.data = Append(@, r.line), !.line = <<>>]
      [] r.line # <<>> /\ Head(r.line) = Id -> [r EXCEPT !.id = r.line, !.line = <<>>]
      [] OTHER -> [r EXCEPT !.line = <<>>]
Read(r, b) ==
    LET sized == [r EXCEPT !.size = @ + 1, !.cr = b = CR]
    IN  CASE b = LF /\ r.cr -> [sized EXCEPT !.size = IF r.size = 0 THEN 0 ELSE @]
          [] b \in Breaks /\ ~(b = LF /\ r.cr) -> Ended(sized)
          [] OTHER -> [sized EXCEPT !.line = Append(@, b)]
ReadOn(r, b) ==
    IF r.over THEN r ELSE LET q == Read(r, b) IN [q EXCEPT !.over = q.size > EventLimit]
Reading(bytes) ==
    LET after[i \in 0..Len(bytes)] == IF i = 0 THEN Reader ELSE ReadOn(after[i - 1], bytes[i])
    IN  after[Len(bytes)]

(* However the response was broken into pieces, inside a CRLF, a line or   *)
(* an event: the adapter gets the events of the stream, each once, in      *)
(* order and with the ID in force, no event earlier than its empty line,   *)
(* and at the end the last one only if its last line was whole; and the    *)
(* decoder gives up exactly on a stream with an event over the limit.      *)
PiecesDontMatter ==
    LET r == Reading(fed)
    IN  CASE decoder.pc = "open" -> ~r.over /\ events = r.out
          [] decoder.pc = "done" ->
                ~r.over /\ events = IF r.line = <<>> THEN Dispatch(r).out ELSE r.out
          [] OTHER -> r.over /\ IsPrefix(events, r.out)
=============================================================================
