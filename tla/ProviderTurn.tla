---------------------------- MODULE ProviderTurn ----------------------------
(***************************************************************************)
(* One turn of a run at a model provider: the request and its retries, the *)
(* parser of each API family (provider/*.rs), which turns the frames of    *)
(* the wire into the events all families share, and                        *)
(* consume_provider_stream (agent.rs), which gathers the events into one   *)
(* assistant message and its batch of tool calls. The server is free: it   *)
(* sends any frame of its family at any time, stops or breaks off.         *)
(***************************************************************************)
EXTENDS Naturals, Sequences, SequencesExt

CONSTANTS Families,     \* API families to explore
          Slots,        \* block indexes or item IDs of the wire
          Ids,          \* tool-call IDs
          Frags, Closing, \* pieces of argument text; the piece that completes a JSON object
          None,
          MaxFrames, MaxAttempts   \* bounds: frames the server sends, attempts

ASSUME TurnAssumption ==
    /\ Families \subseteq {"chat", "messages", "responses", "codex", "google", "converse",
                           "images", "faux"}
    /\ None \notin Ids \cup Slots /\ Slots \cap Ids = {}
    /\ Closing \in Frags
    /\ MaxFrames \in Nat /\ MaxAttempts \in Nat \ {0}

VARIABLES family,   \* the family of the run's route
          seen,     \* tool-call IDs of earlier turns of the run
          parser,   \* state of the family's parser
          turn,     \* consume_provider_stream, and the attempts before it
          sent,     \* history: the message as the server sent it
          answers   \* history: responses whose body began
turnVars == <<family, seen, parser, turn, sent, answers>>

Call(id) == [id |-> id, args |-> <<>>, ended |-> FALSE]
Fresh == [calls |-> [s \in Slots |-> Call(None)], started |-> FALSE, reason |-> None,
          ended |-> FALSE, count |-> 0]

TurnInit ==
    /\ family \in Families
    /\ seen \in {{}} \cup {{i} : i \in Ids}
    /\ parser = Fresh
    /\ turn = [pc |-> "request", attempt |-> 1, started |-> FALSE, pending |-> {},
               completed |-> <<>>, reason |-> None, image |-> FALSE, text |-> FALSE]
    /\ sent = [calls |-> <<>>, ended |-> FALSE, frames |-> 0]
    /\ answers = 0

-----------------------------------------------------------------------------
(* Frames of the wire, and the events they become.                         *)

Reasons == {"tool_calls", "stop", "length"}
Frames ==
    [kind : {"open", "text", "error", "misnamed", "usage", "image"}]
    \cup [kind : {"call"}, slot : Slots, id : Ids]
    \cup [kind : {"args"}, slot : Slots \cup Ids, frag : Frags]
    \cup [kind : {"stop"}, slot : Slots \cup Ids]
    \cup [kind : {"whole"}, id : Ids \cup {None}, frag : Frags]
    \cup [kind : {"finish"}, reason : Reasons]

Known(p, s) == s \in Slots /\ p.calls[s].id # None
Took(p, s, id) == [p EXCEPT !.calls[s] = Call(id)]
Stopped(p, s) == [p EXCEPT !.calls[s].ended = TRUE]
HasCalls(p) == p.count > 0 \/ \E s \in Slots : Known(p, s)

Plain(kind) == [type |-> kind]
Start(id) == [type |-> "call", id |-> id]
Args(id, frag) == [type |-> "args", id |-> id, frags |-> frag]
End(id) == [type |-> "callEnd", id |-> id]
Finish(reason) == [type |-> "end", reason |-> reason]
\* A call that comes whole: its three events in a row.
Whole(id, args) == [type |-> "whole", id |-> id, frags |-> args]

Fail == [ok |-> FALSE]
Give(p, out) == [ok |-> TRUE, parser |-> p, out |-> out]

Open(p) == SetToSeq({s \in Slots : Known(p, s)})

\* Every call of the message ends with its finish reason, and only with "tool_calls".
Chat(p, f) ==
    CASE f.kind \in {"open", "text"} -> Give(p, <<Plain(f.kind)>>)
      [] f.kind = "call" -> Give(Took(p, f.slot, f.id), <<Start(f.id)>>)
      [] f.kind = "args" /\ Known(p, f.slot) -> Give(p, <<Args(p.calls[f.slot].id, <<f.frag>>)>>)
      [] f.kind = "finish" ->
            Give(p, (IF f.reason = "tool_calls"
                     THEN [i \in DOMAIN Open(p) |-> End(p.calls[Open(p)[i]].id)]
                     ELSE <<>>) \o <<Finish(f.reason)>>)
      [] f.kind = "usage" -> Give(p, <<>>)
      [] OTHER -> Fail

\* A block ends as often as the server says so; message_stop ends what has no reason yet.
Messages(p, f) ==
    CASE f.kind \in {"open", "text"} -> Give(p, <<Plain(f.kind)>>)
      [] f.kind = "call" -> Give(Took(p, f.slot, f.id), <<Start(f.id)>>)
      [] f.kind = "args" /\ Known(p, f.slot) -> Give(p, <<Args(p.calls[f.slot].id, <<f.frag>>)>>)
      [] f.kind = "stop" ->
            Give(p, IF Known(p, f.slot) THEN <<End(p.calls[f.slot].id)>> ELSE <<>>)
      [] f.kind = "finish" -> Give([p EXCEPT !.ended = TRUE], <<Finish(f.reason)>>)
      [] f.kind = "usage" ->
            Give([p EXCEPT !.ended = TRUE], IF p.ended THEN <<>> ELSE <<Finish("stop")>>)
      [] OTHER -> Fail

\* What names no item is taken for the ID of a call. A call ends once, by whichever of
\* its two ends comes first; the batch decides about the reason of a complete response.
Responses(p, f) ==
    CASE f.kind \in {"open", "text"} -> Give(p, <<Plain(f.kind)>>)
      [] f.kind = "call" -> Give(Took(p, f.slot, f.id), <<Start(f.id)>>)
      [] f.kind = "args" ->
            Give(p, <<Args(IF Known(p, f.slot) THEN p.calls[f.slot].id ELSE f.slot, <<f.frag>>)>>)
      [] f.kind = "stop" /\ ~Known(p, f.slot) -> Give(p, <<End(f.slot)>>)
      [] f.kind = "stop" /\ Known(p, f.slot) ->
            Give(Stopped(p, f.slot),
                 IF p.calls[f.slot].ended THEN <<>> ELSE <<End(p.calls[f.slot].id)>>)
      [] f.kind = "finish" ->
            Give(p, <<Finish(IF f.reason = "length" THEN "length"
                             ELSE IF HasCalls(p) THEN "tool_calls" ELSE "stop")>>)
      [] f.kind = "usage" -> Give(p, <<>>)
      [] OTHER -> Fail

\* The event must be named like its body.
Codex(p, f) == IF f.kind = "misnamed" THEN Fail ELSE Responses(p, f)

\* Calls come whole; one without an ID is numbered. The first frame opens the message.
FallbackCallId(p) == <<"call", p.count>>
Google(p, f) ==
    CASE f.kind = "open" ->
            Give([p EXCEPT !.started = TRUE], IF p.started THEN <<>> ELSE <<Plain("open")>>)
      [] f.kind = "text" -> Give(p, <<Plain("text")>>)
      [] f.kind = "whole" ->
            LET q == [p EXCEPT !.count = @ + 1]
            IN  Give(q, <<Whole(IF f.id = None THEN FallbackCallId(q) ELSE f.id, <<f.frag>>)>>)
      [] f.kind = "finish" ->
            Give(p, <<Finish(IF p.count > 0 THEN "tool_calls" ELSE f.reason)>>)
      [] f.kind = "usage" -> Give(p, <<>>)
      [] OTHER -> Fail

\* messageStart, blocks, messageStop, metadata, in this order; calls are kept until then.
InContent(p) == p.started /\ p.reason = None
Metadata(p) ==
    IF p.started /\ p.reason # None /\ \A s \in Slots : Known(p, s) => p.calls[s].ended
    THEN LET c(s) == p.calls[s]
         IN  Give([p EXCEPT !.ended = TRUE],
                  [i \in DOMAIN Open(p) |-> Whole(c(Open(p)[i]).id, c(Open(p)[i]).args)]
                  \o <<Finish(IF HasCalls(p) THEN "tool_calls" ELSE p.reason)>>)
    ELSE Fail
Converse(p, f) ==
    CASE p.ended -> Fail
      [] ~p.ended /\ f.kind = "open" /\ ~p.started ->
            Give([p EXCEPT !.started = TRUE], <<Plain("open")>>)
      [] ~p.ended /\ f.kind = "text" /\ InContent(p) -> Give(p, <<Plain("text")>>)
      [] ~p.ended /\ f.kind = "call" /\ InContent(p) /\ ~Known(p, f.slot) ->
            Give(Took(p, f.slot, f.id), <<>>)
      [] ~p.ended /\ f.kind = "args" /\ InContent(p) /\ Known(p, f.slot)
                                     /\ ~p.calls[f.slot].ended ->
            Give([p EXCEPT !.calls[f.slot].args = Append(@, f.frag)], <<>>)
      [] ~p.ended /\ f.kind = "stop" /\ InContent(p)
                                     /\ (Known(p, f.slot) => ~p.calls[f.slot].ended) ->
            Give(IF Known(p, f.slot) THEN Stopped(p, f.slot) ELSE p, <<>>)
      [] ~p.ended /\ f.kind = "finish" /\ InContent(p) ->
            Give([p EXCEPT !.reason = f.reason], <<>>)
      [] ~p.ended /\ f.kind = "usage" -> Metadata(p)
      [] OTHER -> Fail

\* An image route answers with one document: its text, or its images and their text.
Images(p, f) ==
    CASE f.kind \in {"text", "image"} ->
            Give(p, <<Plain("open"), Plain(f.kind), Finish("stop")>>)
      [] OTHER -> Fail

\* A script that opens, plays its steps, and ends as its calls demand.
Faux(p, f) ==
    LET opened == IF p.started THEN <<>> ELSE <<Plain("open")>>
        q == [p EXCEPT !.started = TRUE]
    IN  CASE f.kind = "text" -> Give(q, Append(opened, Plain("text")))
          [] f.kind = "whole" /\ f.id # None ->
                Give([q EXCEPT !.count = @ + 1], Append(opened, Whole(f.id, <<f.frag>>)))
          [] f.kind = "finish" ->
                Give([q EXCEPT !.ended = TRUE],
                     Append(opened, Finish(IF p.count > 0 THEN "tool_calls" ELSE "stop")))
          [] OTHER -> Fail

ParseEvent(p, f) ==
    CASE family = "chat" -> Chat(p, f)
      [] family = "messages" -> Messages(p, f)
      [] family = "responses" -> Responses(p, f)
      [] family = "codex" -> Codex(p, f)
      [] family = "google" -> Google(p, f)
      [] family = "converse" -> Converse(p, f)
      [] family = "images" -> Images(p, f)
      [] family = "faux" -> Faux(p, f)

-----------------------------------------------------------------------------
(* consume_provider_stream.                                                *)

Mine(t, id) == {c \in t.pending : c.id = id}
Taken(t) == seen \cup {c.id : c \in t.pending \cup ToSet(t.completed)}

IsObject(args) == Closing \in ToSet(args) /\ Closing \notin ToSet(Front(args))

Consume(t, e) ==
    CASE e.type = "open" /\ ~t.started -> [t EXCEPT !.started = TRUE]
      [] e.type = "text" -> [t EXCEPT !.text = TRUE]
      [] e.type = "call" /\ e.id \notin Taken(t) ->
            [t EXCEPT !.pending = @ \cup {[id |-> e.id, args |-> <<>>]}]
      [] e.type = "args" /\ Mine(t, e.id) # {} ->
            [t EXCEPT !.pending = {IF c.id = e.id THEN [c EXCEPT !.args = @ \o e.frags] ELSE c :
                                      c \in @}]
      [] e.type = "callEnd" /\ \E c \in Mine(t, e.id) : IsObject(c.args) ->
            [t EXCEPT !.pending = @ \ Mine(t, e.id),
                      !.completed = Append(@, CHOOSE c \in Mine(t, e.id) : TRUE)]
      [] e.type = "whole" /\ e.id \notin Taken(t) /\ IsObject(e.frags) ->
            [t EXCEPT !.completed = Append(@, [id |-> e.id, args |-> e.frags])]
      [] e.type = "image" /\ t.started /\ ~t.image /\ ~t.text
                          /\ t.pending = {} /\ t.completed = <<>> ->
            [t EXCEPT !.image = TRUE]
      [] e.type = "end" /\ t.reason = None -> [t EXCEPT !.reason = e.reason]
      [] OTHER -> [t EXCEPT !.pc = "failed"]

\* A turn that has failed reads no further.
Reads(t, e) == IF t.pc = "reading" THEN Consume(t, e) ELSE t
ConsumeAll(t, events) ==
    LET after[i \in 0..Len(events)] ==
            IF i = 0 THEN t ELSE Reads(after[i - 1], events[i])
    IN  after[Len(events)]

\* Mutant: calls that never ended are dropped.
ReadyAnyway(t) == t.reason # None /\ (t.completed # <<>> => t.reason = "tool_calls")

\* The stream's end commits the message, or nothing of it.
Ready(t) ==
    /\ t.pending = {}
    /\ t.reason # None
    /\ (t.reason = "tool_calls") = (t.completed # <<>>)
    /\ t.image => t.reason = "stop"

-----------------------------------------------------------------------------
(* What the server says, read without an adapter: an address means the     *)
(* newest call with that index or item ID, else the call with that ID.     *)

Addressed(calls, a) ==
    LET bySlot == {i \in DOMAIN calls : calls[i].slot = a}
        named == IF bySlot # {} THEN bySlot ELSE {i \in DOMAIN calls : calls[i].id = a}
    IN  {i \in named : \A j \in named : j <= i}
Said(slot, id, args, done) == [slot |-> slot, id |-> id, args |-> args, done |-> done]

Says(s, f) ==
    LET calls ==
            CASE f.kind = "call" -> Append(s.calls, Said(f.slot, f.id, <<>>, FALSE))
              [] f.kind = "whole" -> Append(s.calls, Said(None, f.id, <<f.frag>>, TRUE))
              [] f.kind = "args" ->
                    [i \in DOMAIN s.calls |->
                        IF i \in Addressed(s.calls, f.slot)
                        THEN [s.calls[i] EXCEPT !.args = Append(@, f.frag)] ELSE s.calls[i]]
              [] f.kind = "stop" ->
                    [i \in DOMAIN s.calls |->
                        IF i \in Addressed(s.calls, f.slot)
                        THEN [s.calls[i] EXCEPT !.done = TRUE] ELSE s.calls[i]]
              [] f.kind = "finish" /\ family = "chat" /\ f.reason = "tool_calls" ->
                    [i \in DOMAIN s.calls |-> [s.calls[i] EXCEPT !.done = TRUE]]
              [] OTHER -> s.calls
        ends == CASE family = "converse" -> f.kind = "usage"
                  [] family = "images" -> f.kind \in {"text", "image"}
                  [] family = "messages" -> f.kind \in {"finish", "usage"}
                  [] OTHER -> f.kind = "finish"
    IN  [calls |-> calls, ended |-> s.ended \/ ends, frames |-> s.frames + 1]

-----------------------------------------------------------------------------
(* The request, its attempts and the stream.                               *)

Failure(code, status, retryable) == [code |-> code, status |-> status, retryable |-> retryable]
RequestFailures == {Failure("unavailable", 0, TRUE), Failure("timeout", 0, TRUE),
                    Failure("unavailable", 503, TRUE), Failure("rate_limited", 429, TRUE),
                    Failure("error", 400, FALSE)}
BodyFailures == {Failure("interrupted", 0, TRUE), Failure("timeout", 0, TRUE),
                 Failure("limit", 0, FALSE)}

ShouldRetry(e) ==
    /\ e.retryable
    /\ IF e.status = 0 THEN e.code = "unavailable"
       ELSE e.status \in {408, 429, 500, 502, 503, 504}

\* An adapter that fails before it has a stream may be called again.
Retried(e) ==
    turn' = IF ShouldRetry(e) /\ turn.attempt < MaxAttempts
            THEN [turn EXCEPT !.pc = "request", !.attempt = @ + 1]
            ELSE [turn EXCEPT !.pc = "failed"]

FailRequest(e) ==
    /\ turn.pc = "request" /\ family # "faux"
    /\ Retried(e)
    /\ UNCHANGED <<family, seen, parser, sent, answers>>

\* An image route reads its whole document before it has a stream.
Answer ==
    /\ turn.pc = "request"
    /\ turn' = [turn EXCEPT !.pc = IF family = "images" THEN "document" ELSE "reading"]
    /\ answers' = answers + 1
    /\ UNCHANGED <<family, seen, parser, sent>>

\* The connection breaks, falls silent too long, or sends too much.
BreakBody(e) ==
    /\ \/ turn.pc = "document" /\ Retried(e)
       \/ turn.pc = "reading" /\ family # "faux" /\ turn' = [turn EXCEPT !.pc = "failed"]
    /\ UNCHANGED <<family, seen, parser, sent, answers>>

Send(f) ==
    /\ turn.pc = IF family = "images" THEN "document" ELSE "reading"
    /\ sent.frames < MaxFrames
    /\ sent' = Says(sent, f)
    /\ LET read == ParseEvent(parser, f)
       IN  IF read.ok
           THEN /\ parser' = read.parser
                /\ turn' = ConsumeAll([turn EXCEPT !.pc = "reading"], read.out)
           ELSE turn' = [turn EXCEPT !.pc = "failed"] /\ UNCHANGED parser
    /\ UNCHANGED <<family, seen, answers>>

Cancel ==
    /\ turn.pc \in {"request", "document", "reading"}
    /\ turn' = [turn EXCEPT !.pc = "failed"]
    /\ UNCHANGED <<family, seen, parser, sent, answers>>

\* Only a Converse stream must have come to its own end.
Close ==
    /\ turn.pc = "reading"
    /\ turn' = [turn EXCEPT !.pc = IF (family = "converse" => parser.ended) /\ Ready(turn)
                                   THEN "committed" ELSE "failed"]
    /\ UNCHANGED <<family, seen, parser, sent, answers>>

TurnNext == \/ \E e \in RequestFailures : FailRequest(e)
            \/ Answer
            \/ \E e \in BodyFailures : BreakBody(e)
            \/ \E f \in Frames : Send(f)
            \/ Cancel \/ Close

TurnSpec == TurnInit /\ [][TurnNext]_turnVars

-----------------------------------------------------------------------------
(* Properties.                                                             *)

(* An assistant message is committed only when the server ended it, with   *)
(* exactly the calls the server sent, each complete, with the arguments    *)
(* sent for it and under an ID no other call of the run has, whatever the  *)
(* server interleaved, repeated, re-addressed or left out; and a server    *)
(* that began to answer, which may have done and billed the work, is not   *)
(* sent the request again.                                                 *)
CommittedAsSent ==
    turn.pc = "committed" =>
        /\ sent.ended /\ answers = 1
        /\ \A i \in DOMAIN sent.calls : sent.calls[i].done
        /\ Len(turn.completed) = Len(sent.calls)
        /\ ToSet(turn.completed) =
             {[id |-> IF sent.calls[i].id = None THEN <<"call", i>> ELSE sent.calls[i].id,
               args |-> sent.calls[i].args] : i \in DOMAIN sent.calls}
        /\ \A c \in ToSet(turn.completed) : c.id \notin seen
=============================================================================
