---------------------------- MODULE DesktopInput ----------------------------
(***************************************************************************)
(* Interactions with the desktop (computer.rs): clicks, scrolling and key  *)
(* chords are sent to the X server one synthetic event after another, each *)
(* of which may fail, and the run may be cancelled meanwhile. A thread     *)
(* that sends goes on when its tool call is dropped, so several may send.  *)
(***************************************************************************)
EXTENDS Integers, Sequences, FiniteSets, SequencesExt

CONSTANTS Hands,           \* threads that interact
          Keys, Modifiers, \* key codes
          Shift,           \* the modifier a shifted key symbol needs
          MaxRepeats,      \* bound: clicks, and steps of the wheel
          MaxInteractions, MaxInputFaults \* bounds

ASSUME DesktopAssumption ==
    /\ Shift \in Modifiers /\ IsFiniteSet(Modifiers)
    /\ MaxRepeats \in Nat /\ MaxInteractions \in Nat /\ MaxInputFaults \in Nat

VARIABLES pressed,     \* the X server: buttons and keys that are down
          unreleased,  \* those whose last event was a release that failed
          hand,        \* what each thread sends
          stopped,     \* hands whose run is cancelled
          interactions, inputFaults
desktopVars == <<pressed, unreleased, hand, stopped, interactions, inputFaults>>

Resting == [pc |-> "idle", units |-> <<>>, unit |-> <<>>, at |-> 1, failed |-> FALSE]

DesktopInit ==
    /\ pressed = {} /\ unreleased = {} /\ stopped = {}
    /\ hand = [h \in Hands |-> Resting]
    /\ interactions = 0 /\ inputFaults = 0

Motion == [type |-> "motion", code |-> "pointer"]
Press(c) == [type |-> "press", code |-> c]
Lift(c) == [type |-> "lift", code |-> c]
Presses(cs) == [i \in DOMAIN cs |-> Press(cs[i])]
Lifts(cs) == [i \in DOMAIN cs |-> Lift(cs[i])]

\* A unit is not divided by a cancellation. A button is a chord without modifiers.
Chord(key, mods) == Presses(mods) \o <<Press(key), Lift(key)>> \o Lifts(Reverse(mods))
Repeated(n, b) == [i \in 1 .. n |-> Chord(b, <<>>)]
Magnitude(n) == IF n < 0 THEN -n ELSE n

Click(button, n) == <<<<Motion>>>> \o Repeated(n, button)
ScrollAxis(delta, positive, negative) ==
    Repeated(Magnitude(delta), IF delta >= 0 THEN positive ELSE negative)
Scroll(dx, dy) == ScrollAxis(dy, "b4", "b5") \o ScrollAxis(dx, "b6", "b7")

\* resolve_key_action: the key's code may need shift; a chord has no code twice.
WithShift(mods, needed) ==
    IF needed /\ Shift \notin {mods[i] : i \in DOMAIN mods} THEN Append(mods, Shift) ELSE mods
Distinct(key, mods) == key \notin {mods[i] : i \in DOMAIN mods}

\* What parse_computer_action lets through, as the units that interact sends.
Actions ==
    {<<<<Motion>>>>} \cup {Click("b1", n) : n \in 1 .. MaxRepeats}
    \cup {Scroll(dx, dy) : dx \in -MaxRepeats .. MaxRepeats, dy \in -MaxRepeats .. MaxRepeats}
    \cup UNION {{<<Chord(k, WithShift(mods, needed))>> :
                   needed \in {n \in BOOLEAN : Distinct(k, WithShift(mods, n))}} :
                k \in Keys, mods \in SetToAllKPermutations(Modifiers)}

Begin(h) ==
    /\ hand[h].pc = "idle" /\ interactions < MaxInteractions
    /\ \E units \in Actions : hand' = [hand EXCEPT ![h] = [Resting EXCEPT !.pc = "ready", !.units = units]]
    /\ interactions' = interactions + 1 /\ stopped' = stopped \ {h}
    /\ UNCHANGED <<pressed, unreleased, inputFaults>>

CancelInteraction(h) ==
    /\ hand[h].pc # "idle" /\ h \notin stopped /\ stopped' = stopped \cup {h}
    /\ UNCHANGED <<pressed, unreleased, hand, interactions, inputFaults>>

\* ensure_not_cancelled before each unit; the interaction ends after the last.
NextUnit(h) ==
    LET job == hand[h]
    IN  /\ job.pc = "ready"
        /\ hand' = [hand EXCEPT ![h] =
              IF h \in stopped \/ job.units = <<>> THEN Resting
              ELSE [job EXCEPT !.pc = "send", !.units = Tail(job.units), !.unit = Head(job.units),
                               !.at = 1]]
        /\ UNCHANGED <<pressed, unreleased, stopped, interactions, inputFaults>>

\* checked_fake_input: the event takes effect or not, the answer comes or not.
FakeInput(e, ok) ==
    /\ \E effect \in {TRUE, ok} :
         pressed' = CASE effect /\ e.type = "press" -> pressed \cup {e.code}
                      [] effect /\ e.type = "lift"  -> pressed \ {e.code}
                      [] OTHER -> pressed
    /\ unreleased' = CASE e.type = "motion" -> unreleased
                       [] e.type = "lift" /\ ~ok -> unreleased \cup {e.code}
                       [] OTHER -> unreleased \ {e.code}
    /\ IF ok THEN UNCHANGED inputFaults
       ELSE inputFaults < MaxInputFaults /\ inputFaults' = inputFaults + 1

\* Mutant: a press that was refused is taken not to have happened.
OnlyAnswered(unit, at) ==
    LET n == (Len(unit) - 2) \div 2
        mods == [i \in 1 .. (IF at <= n THEN at - 1 ELSE n) |-> unit[i].code]
    IN  IF Len(unit) = 1 THEN <<>>
        ELSE (IF at > n THEN <<Lift(unit[n + 1].code)>> ELSE <<>>) \o Lifts(Reverse(mods))

\* The key, once its press was tried, and the modifiers tried, the last one first.
Compensation(unit, at) ==
    LET n == (Len(unit) - 2) \div 2
        mods == [i \in 1 .. (IF at <= n THEN at ELSE n) |-> unit[i].code]
    IN  IF Len(unit) = 1 THEN <<>>
        ELSE (IF at > n THEN <<Lift(unit[n + 1].code)>> ELSE <<>>) \o Lifts(Reverse(mods))

\* A modifier that cannot be released does not keep the others down.
ReleasesModifier(unit, at) == at > (Len(unit) - 2) \div 2 + 2

SendEvent(h) ==
    LET job == hand[h]
    IN  /\ job.pc = "send" /\ job.at <= Len(job.unit)
        /\ \E ok \in BOOLEAN :
             /\ FakeInput(job.unit[job.at], ok)
             /\ hand' = [hand EXCEPT ![h] =
                   IF ok THEN [job EXCEPT !.at = job.at + 1]
                   ELSE IF ReleasesModifier(job.unit, job.at)
                        THEN [job EXCEPT !.at = job.at + 1, !.failed = TRUE]
                        ELSE [job EXCEPT !.pc = "repair", !.unit = Compensation(job.unit, job.at)]]
        /\ UNCHANGED <<stopped, interactions>>

UnitSent(h) ==
    LET job == hand[h]
    IN  /\ job.pc = "send" /\ job.at > Len(job.unit)
        /\ hand' = [hand EXCEPT ![h] =
              IF job.failed THEN [job EXCEPT !.pc = "repair", !.unit = Compensation(job.unit, Len(job.unit))]
              ELSE [job EXCEPT !.pc = "ready"]]
        /\ UNCHANGED <<pressed, unreleased, stopped, interactions, inputFaults>>

\* best_effort_key_release, best_effort_button_release: what fails is let be.
Repair(h) ==
    LET job == hand[h]
    IN  /\ job.pc = "repair"
        /\ \/ /\ job.unit = <<>> /\ hand' = [hand EXCEPT ![h] = Resting]
              /\ UNCHANGED <<pressed, unreleased, inputFaults>>
           \/ /\ job.unit # <<>> /\ hand' = [hand EXCEPT ![h].unit = Tail(@)]
              /\ \E ok \in BOOLEAN : FakeInput(Head(job.unit), ok)
        /\ UNCHANGED <<stopped, interactions>>

DesktopNext ==
    \E h \in Hands : \/ Begin(h) \/ CancelInteraction(h) \/ NextUnit(h)
                     \/ SendEvent(h) \/ UnitSent(h) \/ Repair(h)

DesktopSpec == DesktopInit /\ [][DesktopNext]_desktopVars

-----------------------------------------------------------------------------
(* When nobody interacts any more nothing is held down, but for what the   *)
(* server refused to release when it was asked last: whichever event of a  *)
(* click, a chord or the wheel failed, whether or not it had its effect,   *)
(* whatever was cancelled, and though another thread presses the same keys.*)
NothingStaysPressed ==
    (\A h \in Hands : hand[h].pc = "idle") => pressed \subseteq unreleased
=============================================================================
