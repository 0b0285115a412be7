------------------------------ MODULE Terminal ------------------------------
(***************************************************************************)
(* Pseudo-terminals of one connection (terminal.rs, daemon.rs). A reader,  *)
(* an input writer and a waiter task serve each terminal; their events go  *)
(* through one bounded channel to the task that writes stdout. The         *)
(* protocol loop opens, attaches and closes; an attach replays retained    *)
(* output between its response and the next live event. A cleaner ends a   *)
(* terminal for the client, for a deadline, or because delivery failed.    *)
(***************************************************************************)
EXTENDS Naturals, Sequences, SequencesExt, FiniteSetsExt

CONSTANTS Terminals,
          Capacity,      \* TERMINAL_CHANNEL_CAPACITY
          MaxTerminals,  \* MAX_TERMINALS
          Retention,     \* retentionBytes
          EventBytes,    \* eventBytes
          InputItems,    \* MAX_INPUT_QUEUE_ITEMS
          MaxBytes,      \* bound: bytes a child writes
          MaxAttaches    \* bound: attachments after the first

ASSUME TerminalAssumption ==
    /\ Capacity \in Nat \ {0} /\ MaxTerminals \in Nat \ {0}
    /\ Retention \in Nat \ {0} /\ EventBytes \in Nat \ {0, 1}
    /\ InputItems \in Nat \ {0} /\ MaxBytes \in Nat /\ MaxAttaches \in Nat
    /\ "none" \notin Terminals

VARIABLES term,      \* the state of each terminal
          loop,      \* the protocol loop: what it does, for which terminal, what follows
          gate,      \* who holds the event gate of a terminal across an await
          channel,   \* events on their way to the writer of stdout
          inHand,    \* the event it has received but not yet flushed
          pump,      \* that task: run or ended
          conn,      \* serving, closing (shutdown has begun) or ended
          swept,     \* terminals shutdown has asked to close
          wire       \* what the client received of a terminal: the numbers of all of it,
                     \* and of its last attach the cursor and the events that followed
terminalVars == <<term, loop, gate, channel, inHand, pump, conn, swept, wire>>

Fresh ==
    [where |-> "none", active |-> FALSE, life |-> "running", closing |-> FALSE,
     attachment |-> 0, seq |-> 0, latest |-> 0, retained |-> <<>>, undecoded |-> 0,
     made |-> 0, pty |-> 0, child |-> "none", asked |-> FALSE,
     queue |-> 0, reader |-> "none", waiter |-> "none", status |-> FALSE, cleaner |-> "none",
     barrier |-> FALSE, failed |-> FALSE, exitDone |-> FALSE, written |-> 0]

Nothing == [kind |-> "none", of |-> "none", seq |-> 0, bytes |-> 0, late |-> FALSE]
Waiting == [pc |-> "idle", of |-> "none", frames |-> <<>>, cursor |-> 0, then |-> "none"]

TerminalInit ==
    /\ term = [t \in Terminals |-> Fresh] /\ loop = Waiting
    /\ gate = [t \in Terminals |-> "free"]
    /\ channel = <<>> /\ inHand = Nothing /\ pump = "run"
    /\ conn = "serving" /\ swept = {}
    /\ wire = [t \in Terminals |-> [cursor |-> 0, events |-> <<>>, got |-> {}]]

-----------------------------------------------------------------------------
(* Events.                                                                 *)

\* An event is late when the response of an attach went out before it though it was
\* queued earlier. Only the model knows.
Event(t, kind, seq, bytes) == [kind |-> kind, of |-> t, seq |-> seq, bytes |-> bytes, late |-> FALSE]

\* The events that find room in the channel; one that does not fails delivery.
Sent(events) ==
    IF pump = "ended" \/ conn = "ended" THEN <<>>
    ELSE SubSeq(events, 1, Min({Len(events), Capacity - Len(channel)}))
Emit(events) == channel' = channel \o Sent(events)
Delivered(events) == Sent(events) = events

\* Live events wait for the gate and for a replay to be over.
MayEmit(t) == gate[t] = "free" /\ ~term[t].barrier

Bytes(retained) == FoldSeq(LAMBDA e, n : n + e.bytes, 0, retained)

\* The longest suffix within the retention.
Kept(retained) ==
    LET fits == {i \in 1..(Len(retained) + 1) : Bytes(SubSeq(retained, i, Len(retained))) <= Retention}
    IN  SubSeq(retained, CHOOSE i \in fits : \A j \in fits : i <= j, Len(retained))

\* The events of a sequence after a cursor, in their order.
After(events, cursor) ==
    LET part[i \in 0..Len(events)] ==
            IF i = 0 THEN <<>>
            ELSE IF events[i].seq > cursor THEN Append(part[i - 1], events[i]) ELSE part[i - 1]
    IN  part[Len(events)]

\* record_output: n bytes, of which the last tail bytes are an incomplete character.
\* What follows is the terminal with the output retained, and the events.
Recorded(t, n, tail) ==
    LET d        == term[t]
        count    == d.undecoded + n - tail
        output   == Event(t, "output", d.seq + 1, count)
        retained == Append(d.retained, output)
        kept     == Kept(retained)
        cut      == kept # retained
        next     == [d EXCEPT !.undecoded = tail, !.pty = @ - n]
    IN  IF count = 0
        THEN [state |-> next, events |-> <<>>]
        ELSE [state  |-> [next EXCEPT !.seq = @ + IF cut THEN 2 ELSE 1, !.latest = d.seq + 1,
                                      !.retained = kept],
              events |-> IF cut THEN <<output, Event(t, "truncated", d.seq + 2, 0)>> ELSE <<output>>]

\* A cleaner is started unless there is one; the others wait for it.
Cleaned(d) ==
    IF d.life = "closed" THEN d
    ELSE [d EXCEPT !.closing = TRUE, !.cleaner = IF @ = "none" THEN "start" ELSE @]

Others == UNCHANGED <<loop, gate, inHand, pump, conn, swept, wire>>
Only(t, d) == term' = [term EXCEPT ![t] = d]

-----------------------------------------------------------------------------
(* The child and the tasks of a terminal.                                  *)

ChildWrites(t) ==
    /\ term[t].child = "alive" /\ term[t].made < MaxBytes
    /\ Only(t, [term[t] EXCEPT !.made = @ + 1, !.pty = @ + 1])
    /\ Others /\ UNCHANGED channel

ChildExits(t) ==
    /\ term[t].child = "alive"
    /\ Only(t, [term[t] EXCEPT !.child = "dead"])
    /\ Others /\ UNCHANGED channel

\* A block of bytes is read and recorded; the budget leaves room for what is undecoded.
ReadOutput(t) ==
    /\ term[t].reader = "run" /\ ~term[t].failed /\ MayEmit(t)
    /\ \E n \in 1..term[t].pty, tail \in {0, 1} :
          /\ n + term[t].undecoded <= EventBytes
          /\ LET r == Recorded(t, n, tail)
             IN  /\ Only(t, [r.state EXCEPT !.failed = ~Delivered(r.events)])
                 /\ Emit(r.events)
    /\ Others

\* End of file: what is undecoded is flushed.
ReadEnd(t) ==
    /\ term[t].reader = "run" /\ ~term[t].failed /\ MayEmit(t)
    /\ term[t].child = "dead" /\ term[t].pty = 0
    /\ LET r == Recorded(t, 0, 0)
           d == [r.state EXCEPT !.reader = "done", !.failed = ~Delivered(r.events)]
       IN  Only(t, IF d.failed THEN Cleaned(d) ELSE d) /\ Emit(r.events)
    /\ Others

\* The read fails, or delivery has failed: the reader asks for the cleaner.
ReadFails(t) ==
    /\ term[t].reader = "run"
    /\ Only(t, Cleaned([term[t] EXCEPT !.reader = "done", !.failed = TRUE]))
    /\ Others /\ UNCHANGED channel

\* One accepted block reaches the child.
WriteInput(t) ==
    /\ term[t].active /\ term[t].life # "closed" /\ term[t].queue > 0
    /\ Only(t, [term[t] EXCEPT !.queue = @ - 1])
    /\ Others /\ UNCHANGED channel

\* The child is reaped, or a requested termination gives up on it.
Reap(t) ==
    /\ term[t].waiter = "wait"
    /\ \/ /\ term[t].child = "dead" \/ term[t].asked
          /\ Only(t, [term[t] EXCEPT !.waiter = "drain", !.child = "dead", !.status = TRUE,
                                     !.life = IF @ = "closed" THEN @ ELSE "exited"])
       \/ /\ term[t].asked
          /\ Only(t, [term[t] EXCEPT !.waiter = "drain"])
    /\ Others /\ UNCHANGED channel

\* The reader ends, or has not after OUTPUT_DRAIN_TIMEOUT.
Drain(t) ==
    /\ term[t].waiter = "drain"
    /\ Only(t, [term[t] EXCEPT !.waiter = "exit", !.failed = @ \/ term[t].reader # "done"])
    /\ Others /\ UNCHANGED channel

\* terminal.exited, unless the child was not reaped or output was lost.
AnnounceExit(t) ==
    /\ term[t].waiter = "exit"
    /\ IF term[t].status /\ ~term[t].failed
       THEN LET e  == <<Event(t, "exited", term[t].seq + 1, 0)>>
                ok == Delivered(e)
            IN  /\ MayEmit(t)
                /\ Only(t, [term[t] EXCEPT !.waiter = "done", !.seq = @ + 1, !.exitDone = ok,
                                           !.failed = ~ok])
                /\ Emit(e)
       ELSE Only(t, [term[t] EXCEPT !.waiter = "done"]) /\ UNCHANGED channel
    /\ Others

\* The lifetime or the idle timeout expires.
Expire(t) ==
    /\ term[t].active /\ term[t].life # "closed" /\ term[t].cleaner = "none"
    /\ Only(t, Cleaned(term[t]))
    /\ Others /\ UNCHANGED channel

-----------------------------------------------------------------------------
(* The cleaner (close_terminal).                                           *)

\* A terminal that was never activated has no waiter: its child is killed here.
StartCleaning(t) ==
    /\ term[t].cleaner = "start"
    /\ IF term[t].active
       THEN Only(t, [term[t] EXCEPT !.cleaner = "wait", !.asked = term[t].life = "running"])
       ELSE Only(t, [term[t] EXCEPT !.cleaner = "retire", !.child = "dead"])
    /\ Others /\ UNCHANGED channel

\* The senders, the descriptors and the attachment go, then the tasks are aborted.
Retire(t) ==
    /\ \/ term[t].cleaner = "retire"
       \/ term[t].cleaner = "wait" /\ term[t].waiter = "done"
    /\ Only(t, [term[t] EXCEPT !.cleaner = "announce", !.life = "closed", !.attachment = 0,
                               !.queue = 0, !.reader = IF @ = "run" THEN "aborted" ELSE @])
    /\ Others /\ UNCHANGED channel

\* terminal.closed only after terminal.exited and all the output.
AnnounceClosed(t) ==
    /\ term[t].cleaner = "announce"
    /\ IF term[t].exitDone /\ ~term[t].failed
       THEN LET e == <<Event(t, "closed", term[t].seq + 1, 0)>>
            IN  /\ MayEmit(t)
                /\ Only(t, [term[t] EXCEPT !.cleaner = "remove", !.seq = @ + 1,
                                           !.failed = ~Delivered(e)])
                /\ Emit(e)
       ELSE Only(t, [term[t] EXCEPT !.cleaner = "remove"]) /\ UNCHANGED channel
    /\ Others

RemoveTerminal(t) ==
    /\ term[t].cleaner = "remove"
    /\ Only(t, [term[t] EXCEPT !.cleaner = "done", !.where = "gone"])
    /\ Others /\ UNCHANGED channel

-----------------------------------------------------------------------------
(* Requests. The protocol loop serves one at a time.                       *)

Serving == conn = "serving" /\ loop.pc = "idle"
Known(t) == term[t].where = "open" /\ term[t].life # "closed"
Running(t) == Known(t) /\ term[t].life = "running" /\ ~term[t].closing
Rest == UNCHANGED <<gate, channel, inHand, pump, conn, swept, wire>>

Open(t) ==
    /\ Serving /\ term[t].where = "none"
    /\ Cardinality({u \in Terminals : term[u].where = "open"}) < MaxTerminals
    /\ Only(t, [Fresh EXCEPT !.where = "open", !.attachment = 1, !.child = "alive"])
    /\ loop' = [Waiting EXCEPT !.pc = "respond", !.of = t, !.then = "activate"]
    /\ Rest

\* The queue is bounded; a full one refuses the whole block.
Write(t) ==
    /\ Serving /\ Running(t)
    /\ term[t].queue < InputItems
    /\ Only(t, [term[t] EXCEPT !.queue = @ + 1])
    /\ Rest /\ UNCHANGED loop

\* The waiter delivers the signal; a child that dies of it has ended.
Signal(t) ==
    /\ Serving /\ Running(t) /\ term[t].waiter = "wait"
    /\ Only(t, [term[t] EXCEPT !.child = "dead"])
    /\ Rest /\ UNCHANGED loop

\* The gate is taken; with a takeover any cursor up to the last output will do.
Attach(t) ==
    /\ Serving /\ Known(t) /\ ~term[t].closing /\ ~term[t].failed
    /\ gate[t] = "free" /\ term[t].attachment <= MaxAttaches
    /\ gate' = [gate EXCEPT ![t] = "attach"]
    /\ \E cursor \in 0..term[t].latest :
          loop' = [Waiting EXCEPT !.pc = "await", !.of = t, !.cursor = cursor]
    /\ UNCHANGED <<term, channel, inHand, pump, conn, swept, wire>>

\* The attachment changes hands; the barrier keeps live events back from here on.
Rotate(t) ==
    /\ Only(t, [term[t] EXCEPT !.attachment = @ + 1, !.barrier = TRUE])
    /\ loop' = [loop EXCEPT !.pc = "respond", !.then = "replay",
                            !.frames = After(term[t].retained, loop.cursor)]
    /\ gate' = [gate EXCEPT ![t] = "free"]
    /\ UNCHANGED <<channel, inHand, pump, conn, swept, wire>>

\* Mutant: an attach does not wait for the events before it.
AttachAtOnce ==
    /\ loop.pc = "await" /\ ~term[loop.of].closing
    /\ Rotate(loop.of)

\* Every event before the attach has been flushed to the client.
AttachReady ==
    /\ loop.pc = "await" /\ ~term[loop.of].closing
    /\ term[loop.of].written >= term[loop.of].seq
    /\ Rotate(loop.of)

\* WIRE_DELIVERY_TIMEOUT, or the terminal began to close meanwhile.
AttachFails ==
    /\ loop.pc = "await"
    /\ gate' = [gate EXCEPT ![loop.of] = "free"]
    /\ loop' = Waiting
    /\ UNCHANGED <<term, channel, inHand, pump, conn, swept, wire>>

\* closing is set at once, the cleaner starts after the response.
Close(t) ==
    /\ Serving /\ Known(t) /\ ~term[t].closing
    /\ Only(t, [term[t] EXCEPT !.closing = TRUE])
    /\ loop' = [Waiting EXCEPT !.pc = "respond", !.of = t, !.then = "terminate"]
    /\ Rest

-----------------------------------------------------------------------------
(* What follows a response.                                                *)

\* The client knows of the attachment: what is sent from now on starts after its cursor,
\* and comes behind what is still on its way.
Overtaken(t, e) == IF e.of = t THEN [e EXCEPT !.late = TRUE] ELSE e
SeesReply(t) ==
    /\ wire' = [wire EXCEPT ![t].cursor = loop.cursor, ![t].events = <<>>]
    /\ channel' = [i \in DOMAIN channel |-> Overtaken(t, channel[i])]
    /\ inHand' = Overtaken(t, inHand)

Activate(t) == Only(t, [term[t] EXCEPT !.active = TRUE, !.reader = "run", !.waiter = "wait"])

Respond ==
    /\ loop.pc = "respond"
    /\ IF loop.then = "replay" THEN SeesReply(loop.of) ELSE UNCHANGED <<wire, channel, inHand>>
    /\ CASE loop.then = "activate"  -> Activate(loop.of) /\ loop' = Waiting
         [] loop.then = "terminate" -> Only(loop.of, Cleaned(term[loop.of])) /\ loop' = Waiting
         [] loop.then = "replay"    -> UNCHANGED term /\ loop' = [loop EXCEPT !.pc = "gate"]
    /\ UNCHANGED <<gate, pump, conn, swept>>

\* The replay holds the gate from here to its end; nothing to do for a removed terminal.
StartReplay ==
    /\ loop.pc = "gate"
    /\ IF term[loop.of].where = "gone"
       THEN loop' = Waiting /\ UNCHANGED gate
       ELSE /\ gate[loop.of] = "free"
            /\ gate' = [gate EXCEPT ![loop.of] = "replay"]
            /\ loop' = [loop EXCEPT !.pc = "replay"]
    /\ UNCHANGED <<term, channel, inHand, pump, conn, swept, wire>>

\* A replayed event waits for room in the channel.
Replay ==
    /\ loop.pc = "replay" /\ loop.frames # <<>>
    /\ pump = "run" /\ Len(channel) < Capacity
    /\ channel' = Append(channel, Head(loop.frames))
    /\ loop' = [loop EXCEPT !.frames = Tail(@)]
    /\ UNCHANGED <<term, gate, inHand, pump, conn, swept, wire>>

\* Mutant: the barrier stays up.
EndReplayOnly ==
    /\ loop.pc = "replay" /\ loop.frames = <<>>
    /\ gate' = [gate EXCEPT ![loop.of] = "free"]
    /\ loop' = Waiting
    /\ UNCHANGED <<term, channel, inHand, pump, conn, swept, wire>>

EndReplay ==
    /\ loop.pc = "replay" /\ loop.frames = <<>>
    /\ Only(loop.of, [term[loop.of] EXCEPT !.barrier = FALSE])
    /\ gate' = [gate EXCEPT ![loop.of] = "free"]
    /\ loop' = Waiting
    /\ UNCHANGED <<channel, inHand, pump, conn, swept, wire>>

\* The deadline of the replay passes: the terminal is cleaned, the connection ends.
ReplayFails ==
    /\ loop.pc = "replay" /\ loop.frames # <<>>
    /\ pump = "ended" \/ Len(channel) = Capacity
    /\ Only(loop.of, Cleaned([term[loop.of] EXCEPT !.failed = TRUE, !.barrier = FALSE]))
    /\ gate' = [gate EXCEPT ![loop.of] = "free"]
    /\ loop' = Waiting /\ conn' = "closing"
    /\ UNCHANGED <<channel, inHand, pump, swept, wire>>

-----------------------------------------------------------------------------
(* The task that writes stdout, and the end of the connection.             *)

Receive ==
    /\ pump = "run" /\ inHand = Nothing /\ channel # <<>>
    /\ ~\E t \in Terminals : term[t].failed
    /\ inHand' = Head(channel) /\ channel' = Tail(channel)
    /\ UNCHANGED <<term, loop, gate, pump, conn, swept, wire>>

\* Written and flushed, then acknowledged if the terminal is still there.
Flush ==
    /\ inHand # Nothing
    /\ LET t == inHand.of
       IN  /\ wire' = [wire EXCEPT ![t].got = @ \cup {inHand.seq},
                                   ![t].events = IF inHand.late THEN @ ELSE Append(@, inHand)]
           /\ Only(t, IF term[t].where = "open" /\ inHand.seq > term[t].written
                      THEN [term[t] EXCEPT !.written = inHand.seq]
                      ELSE term[t])
    /\ inHand' = Nothing
    /\ UNCHANGED <<loop, gate, channel, pump, conn, swept>>

\* A failed delivery ends the task, ahead of whatever is in the channel, and with it
\* the protocol loop; a gate the loop holds is released.
Released == gate' = [t \in Terminals |-> "free"]
FailConnection ==
    /\ pump = "run" /\ inHand = Nothing
    /\ \E t \in Terminals : term[t].failed
    /\ pump' = "ended" /\ channel' = <<>>
    /\ conn' = IF conn = "serving" THEN "closing" ELSE conn
    /\ loop' = Waiting
    /\ Released
    /\ UNCHANGED <<term, inHand, swept, wire>>

\* End of input, or a response that cannot be written.
Disconnect ==
    /\ conn = "serving" /\ loop.pc \in {"idle", "respond"}
    /\ conn' = "closing" /\ loop' = Waiting
    /\ UNCHANGED <<term, gate, channel, inHand, pump, swept, wire>>

\* shutdown lifts the barriers and closes the terminals one after the other.
Swept(t) == term[t].where = "gone" \/ term[t].life = "closed"
Shutdown(t) ==
    /\ conn = "closing" /\ t \notin swept
    /\ term[t].where = "open" /\ \A u \in swept : Swept(u)
    /\ swept' = swept \cup {t}
    /\ term' = [u \in Terminals |->
                   LET d == [term[u] EXCEPT !.barrier = FALSE]
                   IN  IF u = t THEN Cleaned(d) ELSE d]
    /\ UNCHANGED <<loop, gate, channel, inHand, pump, conn, wire>>

EndShutdown ==
    /\ conn = "closing"
    /\ \A t \in Terminals : term[t].where = "open" => t \in swept /\ Swept(t)
    /\ conn' = "ended"
    /\ UNCHANGED <<term, loop, gate, channel, inHand, pump, swept, wire>>

-----------------------------------------------------------------------------

Waiter(t) == Reap(t) \/ Drain(t) \/ AnnounceExit(t)
Cleaner(t) == StartCleaning(t) \/ Retire(t) \/ AnnounceClosed(t) \/ RemoveTerminal(t)
Tasks(t) ==
    \/ ReadOutput(t) \/ ReadEnd(t) \/ WriteInput(t)
    \/ Waiter(t) \/ Cleaner(t) \/ Shutdown(t)
Environment(t) == ChildWrites(t) \/ ChildExits(t) \/ ReadFails(t) \/ Expire(t)
Requests(t) == Open(t) \/ Write(t) \/ Signal(t) \/ Attach(t) \/ Close(t)
Loop == AttachReady \/ AttachFails \/ Respond \/ StartReplay \/ Replay \/ EndReplay \/ ReplayFails
Pump == Receive \/ Flush \/ FailConnection

TerminalNext ==
    \/ \E t \in Terminals : Tasks(t) \/ Environment(t) \/ Requests(t)
    \/ Loop \/ Pump \/ Disconnect \/ EndShutdown

\* The runtime serves the waiter, the cleaner and the loop; the client takes its responses
\* or hangs up. Nothing is assumed of the child, its output, or the writing of events.
TerminalFairness ==
    /\ \A t \in Terminals :
          /\ WF_terminalVars(Waiter(t)) /\ WF_terminalVars(Cleaner(t))
          /\ WF_terminalVars(Shutdown(t))
    /\ WF_terminalVars(Loop)

TerminalSpec == TerminalInit /\ [][TerminalNext]_terminalVars /\ TerminalFairness

-----------------------------------------------------------------------------

Outputs(events) == {e.seq : e \in {x \in ToSet(events) : x.kind = "output"}}

(* After the response of an attach the client sees the retained output     *)
(* after its cursor and then the live events, each once and in order.      *)
ReplayThenLive ==
    \A t \in Terminals :
        LET view == wire[t].events
            seen == Outputs(view)
        IN  /\ \A i \in 1..(Len(view) - 1) : view[i].seq < view[i + 1].seq
            /\ \A e \in ToSet(term[t].retained) :
                  e.seq > wire[t].cursor /\ (\E s \in seen : e.seq < s) => e.seq \in seen

(* What slips in between the response and that is nothing new: the rest of *)
(* an earlier replay, of which the client has received every event before. *)
LateIsOld ==
    \A e \in ToSet(channel) \cup {inHand} : e.late => e.seq \in wire[e.of].got

(* terminal.exited reaches the client only when every byte the child wrote *)
(* went out before it: a lost or late block ends the connection instead.   *)
ExitAfterOutput ==
    \A t \in Terminals :
        term[t].exitDone => term[t].pty = 0 /\ term[t].undecoded = 0 /\ term[t].reader = "done"

(* The order the client relies on, however often it attaches: replay, live *)
(* output, exit. The comment of attach promises more, that every event of  *)
(* before the attach has been flushed; but the water level it waits for    *)
(* has already counted the events that a replay queues again, so that a    *)
(* second attach can be answered ahead of the rest of the first replay.    *)
EventsInOrder == ReplayThenLive /\ LateIsOld /\ ExitAfterOutput

(* A terminal that began to close is removed, whatever its child, a replay *)
(* in progress or a client that does not read its events do.               *)
CloseEnds == \A t \in Terminals : term[t].cleaner # "none" ~> term[t].where = "gone"

=============================================================================
