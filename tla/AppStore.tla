------------------------------ MODULE AppStore ------------------------------
(***************************************************************************)
(* The application database (storage.rs) and the agent profiles in it      *)
(* (agent_profile.rs): every process brings the schema to the current      *)
(* version before anything else, then profiles are created, replaced and   *)
(* deleted under a revision the client must know, and a run freezes one.   *)
(* SQLite gives transactions: one writer at a time, readers that keep the  *)
(* state of their first statement, and nothing of a transaction that did   *)
(* not commit. Statements are the steps.                                   *)
(***************************************************************************)
EXTENDS Naturals, Sequences

CONSTANTS Clients,          \* connections to the database
          Bodies,           \* what a profile says, its tools apart
          ToolSets,         \* the tools it may ask for
          Nobody,           \* no writer, no row
          MaxProfiles,      \* bound: profiles ever created
          MaxRevision,      \* the largest revision (MAX_SAFE_INTEGER)
          MaxCalls, MaxKills \* bounds: requests, processes killed

ASSUME AppAssumption ==
    /\ Nobody \notin Clients /\ Nobody \notin Bodies
    /\ MaxProfiles \in Nat /\ MaxRevision \in Nat /\ MaxCalls \in Nat /\ MaxKills \in Nat

VARIABLES db,       \* the committed state
          writer,   \* the connection that holds the write lock
          tx,       \* the transaction of each connection
          ready,    \* connections whose bootstrap went through
          seen,     \* history: profiles as readers got them
          created, calls, kills
appVars == <<db, writer, tx, ready, seen, created, calls, kills>>

Profiles == 1..MaxProfiles
Schema == {"profiles", "tools", "index"}
NoRow == [rev |-> 0, body |-> Nobody]
Blank == [objects |-> {}, forge |-> "none", version |-> "none",
          rows |-> [i \in Profiles |-> NoRow], tools |-> [i \in Profiles |-> {}]]

\* A new file, the previous version, or the database of something else.
AppInit ==
    /\ db \in {Blank,
               [Blank EXCEPT !.objects = {"forge"}, !.forge = "0.1"],
               [Blank EXCEPT !.objects = {"foreign"}]}
    /\ writer = Nobody
    /\ tx = [c \in Clients |-> [at |-> "idle"]]
    /\ ready = {} /\ seen = {}
    /\ created = 0 /\ calls = 0 /\ kills = 0

-----------------------------------------------------------------------------
Idle_(c) == tx[c].at = "idle"
In(c) == tx[c].at = "tx"
Script(c) == tx[c].script
View_(c) == tx[c].view
Call(c) == tx[c].call

End_(c) == /\ tx' = [tx EXCEPT ![c] = [at |-> "idle"]]
           /\ writer' = IF writer = c THEN Nobody ELSE writer
Open_(c, call, script, view) ==
    tx' = [tx EXCEPT ![c] = [at |-> "tx", call |-> call, script |-> script, view |-> view]]
Bounds_ == UNCHANGED <<created, calls, kills>>

\* What the bootstrap does with the database it finds.
Fresh == <<"metadata", "profiles", "tools", "index", "insertVersion">>
Migration == <<"metadata", "copy", "profiles", "tools", "index", "updateVersion", "dropForge">>
Plan(d) ==
    CASE "forge" \notin d.objects /\ "metadata" \notin d.objects /\ d.objects = {} -> Fresh
      [] "forge" \in d.objects /\ "metadata" \notin d.objects /\ d.forge = "0.1" -> Migration
      [] "forge" \notin d.objects /\ Schema \subseteq d.objects /\ d.version = "0.2" -> <<>>
      [] OTHER -> <<"refuse">>

\* BEGIN IMMEDIATE takes the write lock at once.
Bootstrap(c) ==
    /\ Idle_(c) /\ c \notin ready
    /\ writer = Nobody /\ writer' = c
    /\ Open_(c, [kind |-> "boot"], Plan(db), db)
    /\ UNCHANGED <<db, ready, seen>> /\ Bounds_

-----------------------------------------------------------------------------
\* The calls. A client updates and deletes under the revision it has read.
Refs == {[id |-> r.id, rev |-> r.rev] : r \in seen}
Begin_(c) ==
    /\ Idle_(c) /\ c \in ready /\ calls < MaxCalls
    /\ calls' = calls + 1
    /\ \/ /\ created < MaxProfiles
          /\ created' = created + 1
          /\ \E body \in Bodies, tools \in ToolSets :
                 Open_(c, [kind |-> "create", id |-> created + 1, rev |-> 0,
                           body |-> body, tools |-> tools], <<"insertRow", "insertTools">>, db)
       \/ /\ UNCHANGED created
          /\ \E r \in Refs, body \in Bodies, tools \in ToolSets :
                 /\ r.rev < MaxRevision
                 /\ Open_(c, [kind |-> "update", id |-> r.id, rev |-> r.rev,
                              body |-> body, tools |-> tools],
                          <<"updateRow", "deleteTools", "insertTools">>, db)
       \/ /\ UNCHANGED created
          /\ \E r \in Refs : Open_(c, [kind |-> "delete", id |-> r.id, rev |-> r.rev],
                                   <<"deleteRow", "deleteTools">>, db)
       \/ /\ UNCHANGED created
          /\ \E i \in 1..created :
                 Open_(c, [kind |-> "resolve", id |-> i], <<"readRow", "readTools">>, db)
    /\ UNCHANGED <<db, writer, ready, seen, kills>>

Row(d, call) == d.rows[call.id]
Owned == {"insertRow", "insertTools", "updateRow", "deleteTools", "deleteRow",
          "metadata", "copy", "profiles", "tools", "index",
          "insertVersion", "updateVersion", "dropForge"}

\* What a statement makes of the state.
Exec(s, call, d) ==
    CASE s \in Schema \union {"metadata"} -> [d EXCEPT !.objects = @ \union {s}]
      [] s = "copy" -> [d EXCEPT !.version = d.forge]
      [] s \in {"insertVersion", "updateVersion"} -> [d EXCEPT !.version = "0.2"]
      [] s = "dropForge" -> [d EXCEPT !.objects = @ \ {"forge"}, !.forge = "none"]
      [] s \in {"insertRow", "updateRow"} ->
             [d EXCEPT !.rows[call.id] = [rev |-> call.rev + 1, body |-> call.body]]
      [] s = "deleteRow" -> [d EXCEPT !.rows[call.id] = NoRow, !.tools[call.id] = {}]
      [] s = "deleteTools" -> [d EXCEPT !.tools[call.id] = {}]
      [] s = "insertTools" -> [d EXCEPT !.tools[call.id] = call.tools]

\* Mutant: the replacement is not conditional on the revision.
AffectsAny(s, call, d) ==
    s \in {"updateRow", "deleteRow"} => Row(d, call).rev > 0

\* A conditional statement changes exactly one row, or the call is over.
Affects(s, call, d) ==
    s \in {"updateRow", "deleteRow"} => Row(d, call).rev = call.rev

\* The first writing statement takes the write lock, and sees what is
\* committed by then. Losing the wait for the lock ends the call (Abort).
Current(c) == IF writer = c THEN View_(c) ELSE db

\* Mutant: every statement commits by itself.
StatementCommitted(c) ==
    /\ In(c) /\ Script(c) # <<>> /\ Head(Script(c)) \in Owned
    /\ writer \in {Nobody, c} /\ writer' = c
    /\ Affects(Head(Script(c)), Call(c), Current(c))
    /\ db' = Exec(Head(Script(c)), Call(c), Current(c))
    /\ Open_(c, Call(c), Tail(Script(c)), db')
    /\ UNCHANGED <<ready, seen>> /\ Bounds_

Statement(c) ==
    /\ In(c) /\ Script(c) # <<>> /\ Head(Script(c)) \in Owned
    /\ writer \in {Nobody, c} /\ writer' = c
    /\ Affects(Head(Script(c)), Call(c), Current(c))
    /\ Open_(c, Call(c), Tail(Script(c)), Exec(Head(Script(c)), Call(c), Current(c)))
    /\ UNCHANGED <<db, ready, seen>> /\ Bounds_

\* A read transaction keeps the state of its first statement.
Query(c) ==
    /\ In(c) /\ Script(c) # <<>> /\ Head(Script(c)) \in {"readRow", "readTools"}
    /\ Open_(c, Call(c), Tail(Script(c)),
             IF Head(Script(c)) = "readRow" THEN db ELSE View_(c))
    /\ UNCHANGED <<db, writer, ready, seen>> /\ Bounds_

\* The profile as the call returns it or as a run freezes it.
Profile(i, d) == [id |-> i, rev |-> d.rows[i].rev, body |-> d.rows[i].body, tools |-> d.tools[i]]
Shown(c) ==
    IF Call(c).kind \in {"create", "update", "resolve"} /\ Row(View_(c), Call(c)).rev > 0
    THEN {Profile(Call(c).id, View_(c))} ELSE {}

Commit(c) ==
    /\ In(c) /\ Script(c) = <<>>
    /\ db' = IF Call(c).kind = "resolve" THEN db ELSE View_(c)
    /\ ready' = IF Call(c).kind = "boot" THEN ready \union {c} ELSE ready
    /\ seen' = seen \union Shown(c)
    /\ End_(c) /\ Bounds_

\* Nothing matches, the database is not one to open, the lock does not come,
\* a statement or the commit fails: the transaction is rolled back.
Abort(c) == In(c) /\ End_(c) /\ UNCHANGED <<db, ready, seen>> /\ Bounds_

Kill(c) ==
    /\ kills < MaxKills /\ (In(c) \/ c \in ready)
    /\ kills' = kills + 1
    /\ ready' = ready \ {c}
    /\ End_(c) /\ UNCHANGED <<db, seen, created, calls>>

AppNext ==
    \E c \in Clients :
        \/ Bootstrap(c) \/ Begin_(c) \/ Statement(c) \/ Query(c)
        \/ Commit(c) \/ Abort(c) \/ Kill(c)
AppSpec == AppInit /\ [][AppNext]_appVars

-----------------------------------------------------------------------------
\* A revision of a profile names one content, tools included, for everyone who
\* ever got it: a client that updates under it replaces what it has seen, and
\* the runs that froze it agree (update, resolve_for_run).
RevisionNamesContent ==
    \A a, b \in seen : a.id = b.id /\ a.rev = b.rev => a = b

\* Wherever a bootstrap dies, the file is as it was found or complete, so that
\* the next one goes through (bootstrap_metadata).
BootstrapWhole ==
    \/ db.objects \in {{}, {"forge"}, {"foreign"}} /\ db.version = "none"
    \/ db.objects = Schema \union {"metadata"} /\ db.version = "0.2"

\* The two together.
DatabaseSound == RevisionNamesContent /\ BootstrapWhole
=============================================================================
