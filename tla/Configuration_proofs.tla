------------------------ MODULE Configuration_proofs ------------------------
(***************************************************************************)
(* What the application keeps about itself, for any number of processes:   *)
(* the profiles in its database and the schema they stand in (AppStore),   *)
(* the credential store and the connections that use it (ProviderStore),   *)
(* the daemons that read both for the desktop's calls (DesktopBridge), and *)
(* the providers and models a daemon made of them offers and runs          *)
(* (Routing).                                                              *)
(***************************************************************************)
EXTENDS AppStore, ProviderStore, DesktopBridge, Routing, FiniteSetTheorems, TLAPS

-----------------------------------------------------------------------------
(* The application database. A client is in one transaction; the state it  *)
(* works on is its own until it commits, and it can only commit a state    *)
(* made from the one that is committed now.                                *)

Objects == Schema \cup {"metadata", "forge", "foreign"}
Rows == [rev : Nat, body : Bodies \cup {Nobody}]
States == [objects : SUBSET Objects, forge : {"none", "0.1"}, version : {"none", "0.1", "0.2"},
           rows : [Profiles -> Rows], tools : [Profiles -> ToolSets \cup {{}}]]

\* A state the bootstrap of which went through, or one it is not to touch.
Complete(d) == d.objects = Schema \cup {"metadata"} /\ d.version = "0.2"
FileWhole(d) ==
  \/ d.objects \in {{}, {"forge"}, {"foreign"}} /\ d.version = "none"
  \/ Complete(d)

\* Where a bootstrap is: what it has still to do, and what it has made.
FreshAt(script, v) ==
  \/ script = <<"metadata", "profiles", "tools", "index", "insertVersion">> /\ v.objects = {}
  \/ script = <<"profiles", "tools", "index", "insertVersion">> /\ v.objects = {"metadata"}
  \/ script = <<"tools", "index", "insertVersion">> /\ v.objects = {"metadata", "profiles"}
  \/ script = <<"index", "insertVersion">> /\ v.objects = {"metadata", "profiles", "tools"}
  \/ script = <<"insertVersion">> /\ v.objects = Schema \cup {"metadata"}
MigrationAt(script, v) ==
  \/ /\ script = <<"metadata", "copy", "profiles", "tools", "index", "updateVersion", "dropForge">>
     /\ v.objects = {"forge"}
  \/ /\ script = <<"copy", "profiles", "tools", "index", "updateVersion", "dropForge">>
     /\ v.objects = {"forge", "metadata"}
  \/ /\ script = <<"profiles", "tools", "index", "updateVersion", "dropForge">>
     /\ v.objects = {"forge", "metadata"}
  \/ /\ script = <<"tools", "index", "updateVersion", "dropForge">>
     /\ v.objects = {"forge", "metadata", "profiles"}
  \/ /\ script = <<"index", "updateVersion", "dropForge">>
     /\ v.objects = {"forge", "metadata", "profiles", "tools"}
  \/ /\ script = <<"updateVersion", "dropForge">> /\ v.objects = Schema \cup {"forge", "metadata"}
  \/ /\ script = <<"dropForge">> /\ v.objects = Schema \cup {"forge", "metadata"}
     /\ v.version = "0.2"
BootAt(script, v) ==
  FreshAt(script, v) \/ MigrationAt(script, v) \/ (script = <<>> /\ Complete(v)) \/ script = <<"refuse">>

\* The state differs from the committed one in one row, and there in its tools.
Differs(v, d, i, row) ==
  /\ v.objects = d.objects /\ v.version = d.version
  /\ v.rows = [d.rows EXCEPT ![i] = row]
  /\ \A j \in Profiles \ {i} : v.tools[j] = d.tools[j]

RowOf(k) == [rev |-> k.rev + 1, body |-> k.body]
BootCalls == [kind : {"boot"}]
CreateCalls(n) == [kind : {"create"}, id : Profiles \cap (1 .. n), rev : {0}, body : Bodies, tools : ToolSets]
UpdateCalls(n) == [kind : {"update"}, id : Profiles \cap (1 .. n), rev : Nat \ {0}, body : Bodies, tools : ToolSets]
DeleteCalls(n) == [kind : {"delete"}, id : Profiles \cap (1 .. n), rev : Nat \ {0}]
ResolveCalls(n) == [kind : {"resolve"}, id : Profiles \cap (1 .. n)]

\* A transaction that has written anything has the write lock, and what it
\* works on is the committed state but for its own row; one that has not may
\* have seen an older state, and will look again.
Booting(t, d, mine) ==
  /\ t.call \in BootCalls /\ mine /\ BootAt(t.script, t.view)
  /\ t.view.rows = d.rows /\ t.view.tools = d.tools
Creating(t, d, mine, n) ==
  /\ t.call \in CreateCalls(n) /\ d.rows[t.call.id].rev = 0
  /\ \/ ~mine /\ t.script = <<"insertRow", "insertTools">>
     \/ mine /\ t.script \in {<<"insertTools">>, <<>>} /\ Differs(t.view, d, t.call.id, RowOf(t.call))
Updating(t, d, mine, n) ==
  /\ t.call \in UpdateCalls(n)
  /\ \/ ~mine /\ t.script = <<"updateRow", "deleteTools", "insertTools">>
     \/ /\ mine /\ t.script \in {<<"deleteTools", "insertTools">>, <<"insertTools">>, <<>>}
        /\ d.rows[t.call.id].rev = t.call.rev /\ Differs(t.view, d, t.call.id, RowOf(t.call))
Deleting(t, d, mine, n) ==
  /\ t.call \in DeleteCalls(n)
  /\ \/ ~mine /\ t.script = <<"deleteRow", "deleteTools">>
     \/ /\ mine /\ t.script \in {<<"deleteTools">>, <<>>}
        /\ d.rows[t.call.id].rev = t.call.rev /\ Differs(t.view, d, t.call.id, NoRow)
Resolving(t, mine, n) ==
  /\ t.call \in ResolveCalls(n) /\ ~mine
  /\ t.script \in {<<"readRow", "readTools">>, <<"readTools">>, <<>>}

IdleTx == [at |-> "idle"]
TxSound(t, d, mine, n) ==
  \/ t = IdleTx /\ ~mine
  \/ /\ t = [at |-> "tx", call |-> t.call, script |-> t.script, view |-> t.view]
     /\ t.view \in States
     /\ \/ Booting(t, d, mine) \/ Creating(t, d, mine, n) \/ Updating(t, d, mine, n)
        \/ Deleting(t, d, mine, n) \/ Resolving(t, mine, n)

-----------------------------------------------------------------------------
(* One transaction at a time.                                              *)

LEMMA PlanSound ==
  ASSUME NEW d \in States, FileWhole(d)
  PROVE  BootAt(Plan(d), d)
<1>1. CASE "forge" \notin d.objects /\ "metadata" \notin d.objects /\ d.objects = {}
  <2>1. Plan(d) = Fresh
    BY <1>1 DEF Plan, Schema
  <2> QED BY <1>1, <2>1 DEF Fresh, BootAt, FreshAt
<1>2. CASE "forge" \in d.objects /\ "metadata" \notin d.objects /\ d.forge = "0.1"
  <2>1. d.objects = {"forge"}
    BY <1>2 DEF FileWhole, Complete
  <2>2. Plan(d) = Migration
    BY <1>2 DEF Plan
  <2> QED BY <2>1, <2>2 DEF Migration, BootAt, MigrationAt
<1>3. CASE "forge" \notin d.objects /\ Schema \subseteq d.objects /\ d.version = "0.2"
  <2>1. Complete(d)
    BY <1>3 DEF FileWhole, Complete, Schema
  <2>2. Plan(d) = <<>>
    BY <1>3, <2>1 DEF Plan, Complete, Schema
  <2> QED BY <2>1, <2>2 DEF BootAt
<1> QED BY <1>1, <1>2, <1>3 DEF Plan, BootAt

\* A statement of a bootstrap brings it on, and leaves the profiles alone.
LEMMA BootExec ==
  ASSUME NEW v \in States, NEW script, BootAt(script, v), script # <<>>, Head(script) \in Owned, NEW call
  PROVE  LET next == Exec(Head(script), call, v)
         IN  next \in States /\ BootAt(Tail(script), next) /\ next.rows = v.rows /\ next.tools = v.tools
<1> DEFINE next == Exec(Head(script), call, v)
<1>1. /\ Schema = {"profiles", "tools", "index"}
      /\ \A x \in Objects : [v EXCEPT !.objects = @ \cup {x}] \in States
  BY DEF Schema, States
<1>2. ASSUME NEW s \in Schema \cup {"metadata"}, Head(script) = s
      PROVE  /\ next \in States /\ next.rows = v.rows /\ next.tools = v.tools
             /\ next.objects = v.objects \cup {s} /\ next.version = v.version
  <2>1. next = [v EXCEPT !.objects = @ \cup {s}]
    BY <1>2 DEF Exec, Schema
  <2>2. s \in Objects
    BY DEF Objects
  <2> QED BY <1>1, <2>1, <2>2 DEF States
<1>3. CASE FreshAt(script, v)
  <2>1. CASE script = <<"insertVersion">> /\ v.objects = Schema \cup {"metadata"}
    <3>1. Head(script) = "insertVersion" /\ Tail(script) = <<>>
      BY <2>1
    <3>2. next = [v EXCEPT !.version = "0.2"]
      BY <3>1 DEF Exec, Schema
    <3> QED BY <2>1, <3>1, <3>2 DEF States, BootAt, Complete
  <2>2. CASE script = <<"metadata", "profiles", "tools", "index", "insertVersion">> /\ v.objects = {}
    <3>1. Head(script) = "metadata" /\ Tail(script) = <<"profiles", "tools", "index", "insertVersion">>
      BY <2>2
    <3> QED BY <1>2, <2>2, <3>1 DEF BootAt, FreshAt
  <2>3. CASE script = <<"profiles", "tools", "index", "insertVersion">> /\ v.objects = {"metadata"}
    <3>1. Head(script) = "profiles" /\ Tail(script) = <<"tools", "index", "insertVersion">>
      BY <2>3
    <3> QED BY <1>1, <1>2, <2>3, <3>1 DEF BootAt, FreshAt
  <2>4. CASE script = <<"tools", "index", "insertVersion">> /\ v.objects = {"metadata", "profiles"}
    <3>1. Head(script) = "tools" /\ Tail(script) = <<"index", "insertVersion">>
      BY <2>4
    <3> QED BY <1>1, <1>2, <2>4, <3>1 DEF BootAt, FreshAt
  <2>5. CASE script = <<"index", "insertVersion">> /\ v.objects = {"metadata", "profiles", "tools"}
    <3>1. Head(script) = "index" /\ Tail(script) = <<"insertVersion">>
      BY <2>5
    <3> QED BY <1>1, <1>2, <2>5, <3>1 DEF BootAt, FreshAt
  <2> QED BY <1>3, <2>1, <2>2, <2>3, <2>4, <2>5 DEF FreshAt
<1>4. CASE MigrationAt(script, v)
  <2>1. CASE /\ script = <<"metadata", "copy", "profiles", "tools", "index", "updateVersion", "dropForge">>
             /\ v.objects = {"forge"}
    <3>1. /\ Head(script) = "metadata"
          /\ Tail(script) = <<"copy", "profiles", "tools", "index", "updateVersion", "dropForge">>
      BY <2>1
    <3> QED BY <1>2, <2>1, <3>1 DEF BootAt, MigrationAt
  <2>2. CASE /\ script = <<"copy", "profiles", "tools", "index", "updateVersion", "dropForge">>
             /\ v.objects = {"forge", "metadata"}
    <3>1. /\ Head(script) = "copy"
          /\ Tail(script) = <<"profiles", "tools", "index", "updateVersion", "dropForge">>
      BY <2>2
    <3>2. next = [v EXCEPT !.version = v.forge]
      BY <3>1 DEF Exec, Schema
    <3> QED BY <2>2, <3>1, <3>2 DEF States, BootAt, MigrationAt
  <2>3. CASE /\ script = <<"profiles", "tools", "index", "updateVersion", "dropForge">>
             /\ v.objects = {"forge", "metadata"}
    <3>1. Head(script) = "profiles" /\ Tail(script) = <<"tools", "index", "updateVersion", "dropForge">>
      BY <2>3
    <3> QED BY <1>1, <1>2, <2>3, <3>1 DEF BootAt, MigrationAt
  <2>4. CASE /\ script = <<"tools", "index", "updateVersion", "dropForge">>
             /\ v.objects = {"forge", "metadata", "profiles"}
    <3>1. Head(script) = "tools" /\ Tail(script) = <<"index", "updateVersion", "dropForge">>
      BY <2>4
    <3> QED BY <1>1, <1>2, <2>4, <3>1 DEF BootAt, MigrationAt
  <2>5. CASE /\ script = <<"index", "updateVersion", "dropForge">>
             /\ v.objects = {"forge", "metadata", "profiles", "tools"}
    <3>1. Head(script) = "index" /\ Tail(script) = <<"updateVersion", "dropForge">>
      BY <2>5
    <3> QED BY <1>1, <1>2, <2>5, <3>1 DEF BootAt, MigrationAt
  <2>6. CASE script = <<"updateVersion", "dropForge">> /\ v.objects = Schema \cup {"forge", "metadata"}
    <3>1. Head(script) = "updateVersion" /\ Tail(script) = <<"dropForge">>
      BY <2>6
    <3>2. next = [v EXCEPT !.version = "0.2"]
      BY <3>1 DEF Exec, Schema
    <3> QED BY <2>6, <3>1, <3>2 DEF States, BootAt, MigrationAt
  <2>7. CASE /\ script = <<"dropForge">> /\ v.objects = Schema \cup {"forge", "metadata"}
             /\ v.version = "0.2"
    <3>1. Head(script) = "dropForge" /\ Tail(script) = <<>>
      BY <2>7
    <3>2. next = [v EXCEPT !.objects = @ \ {"forge"}, !.forge = "none"]
      BY <3>1 DEF Exec, Schema
    <3>3. v.objects \ {"forge"} = Schema \cup {"metadata"}
      BY <2>7 DEF Schema
    <3> QED BY <2>7, <3>1, <3>2, <3>3 DEF States, BootAt, Complete
  <2> QED BY <1>4, <2>1, <2>2, <2>3, <2>4, <2>5, <2>6, <2>7 DEF MigrationAt
<1>5. script # <<"refuse">>
  BY DEF Owned
<1> QED BY <1>3, <1>4, <1>5 DEF BootAt

-----------------------------------------------------------------------------
(* Everybody who got a profile: the calls that were answered, and the      *)
(* runs that are about to freeze what they have read.                      *)

Holding(t) ==
  /\ t.at = "tx" /\ t.call.kind = "resolve" /\ t.script \in {<<"readTools">>, <<>>}
  /\ t.view.rows[t.call.id].rev > 0
Held(t) == Profile(t.call.id, t.view)
Gotten(s, f) == s \cup {Held(f[c]) : c \in {x \in Clients : Holding(f[x])}}

\* What somebody got is an earlier revision, or what the database says now.
NamedBy(r, d, n) ==
  /\ r.id \in Profiles \cap (1 .. n) /\ r.rev \in Nat \ {0}
  /\ d.rows[r.id].rev = 0 \/ r.rev < d.rows[r.id].rev \/ r = Profile(r.id, d)
OneContent(got) == \A a, b \in got : a.id = b.id /\ a.rev = b.rev => a = b

\* Nobody has a profile that is still being created, and nobody else creates it.
IsCreating(t) == t.at = "tx" /\ t.call.kind = "create"
CreatesNew(f, got) ==
  \A c \in Clients : IsCreating(f[c]) =>
    /\ \A r \in got : r.id # f[c].call.id
    /\ \A x \in Clients \ {c} : IsCreating(f[x]) => f[x].call.id # f[c].call.id

AppTypes ==
  /\ db \in States /\ created \in 0 .. MaxProfiles /\ tx = [c \in Clients |-> tx[c]] /\ DOMAIN tx = Clients
TxsSound == \A c \in Clients : TxSound(tx[c], db, writer = c, created)
ProfilesNamed ==
  /\ \A r \in Gotten(seen, tx) : NamedBy(r, db, created)
  /\ OneContent(Gotten(seen, tx)) /\ CreatesNew(tx, Gotten(seen, tx))
Unborn == \A i \in Profiles : i > created => db.rows[i].rev = 0

AppInv == AppTypes /\ TxsSound /\ ProfilesNamed /\ Unborn /\ FileWhole(db)

LEMMA AppHoldsAtStart == AppInit => AppInv
<1> SUFFICES ASSUME AppInit PROVE AppInv
  OBVIOUS
<1>1. Blank \in States /\ \A i \in Profiles : Blank.rows[i].rev = 0
  BY DEF Blank, NoRow, States, Rows
<1>2. db \in States /\ FileWhole(db) /\ \A i \in Profiles : db.rows[i].rev = 0
  <2>1. CASE db = Blank
    BY <1>1, <2>1 DEF Blank, FileWhole
  <2>2. CASE db = [Blank EXCEPT !.objects = {"forge"}, !.forge = "0.1"]
    BY <1>1, <2>2 DEF Blank, FileWhole, States, Objects
  <2>3. CASE db = [Blank EXCEPT !.objects = {"foreign"}]
    BY <1>1, <2>3 DEF Blank, FileWhole, States, Objects
  <2> QED BY <2>1, <2>2, <2>3 DEF AppInit
<1>3. \A c \in Clients : tx[c] = IdleTx /\ IdleTx.at = "idle" /\ writer # c
  BY AppAssumption DEF AppInit, IdleTx
<1>4. AppTypes /\ TxsSound
  BY <1>2, <1>3, AppAssumption DEF AppInit, AppTypes, TxsSound, TxSound
<1>5. Gotten(seen, tx) = {}
  BY <1>3 DEF AppInit, Gotten, Holding
<1>6. ProfilesNamed
  BY <1>3, <1>5 DEF ProfilesNamed, OneContent, CreatesNew, IsCreating
<1>7. Unborn
  BY <1>2 DEF Unborn
<1> QED BY <1>2, <1>4, <1>6, <1>7 DEF AppInv

\* A sound transaction is idle or has the fields of one.
LEMMA TxFields ==
  ASSUME NEW t, NEW d, NEW mine, NEW n, TxSound(t, d, mine, n)
  PROVE  /\ t.at \in {"idle", "tx"} /\ (t.at = "idle" => ~mine /\ t = IdleTx)
         /\ t.at = "tx" =>
              /\ t = [at |-> "tx", call |-> t.call, script |-> t.script, view |-> t.view]
              /\ t.view \in States
              /\ \/ Booting(t, d, mine) \/ Creating(t, d, mine, n) \/ Updating(t, d, mine, n)
                 \/ Deleting(t, d, mine, n) \/ Resolving(t, mine, n)
BY DEF TxSound, IdleTx

\* Which of them it is, its kind tells.
LEMMA TxKind ==
  ASSUME NEW t, NEW d, NEW mine, NEW n, TxSound(t, d, mine, n), t.at = "tx"
  PROVE  /\ t.call.kind \in {"boot", "create", "update", "delete", "resolve"}
         /\ t.call.kind = "boot" => Booting(t, d, mine)
         /\ t.call.kind = "create" => Creating(t, d, mine, n)
         /\ t.call.kind = "update" => Updating(t, d, mine, n)
         /\ t.call.kind = "delete" => Deleting(t, d, mine, n)
         /\ t.call.kind = "resolve" => Resolving(t, mine, n)
<1>1. \/ Booting(t, d, mine) \/ Creating(t, d, mine, n) \/ Updating(t, d, mine, n)
      \/ Deleting(t, d, mine, n) \/ Resolving(t, mine, n)
  BY TxFields
<1>2. /\ Booting(t, d, mine) => t.call.kind = "boot"
      /\ Creating(t, d, mine, n) => t.call.kind = "create"
      /\ Updating(t, d, mine, n) => t.call.kind = "update"
      /\ Deleting(t, d, mine, n) => t.call.kind = "delete"
      /\ Resolving(t, mine, n) => t.call.kind = "resolve"
  BY DEF Booting, BootCalls, Creating, CreateCalls, Updating, UpdateCalls, Deleting, DeleteCalls,
         Resolving, ResolveCalls
<1> HIDE DEF Booting, Creating, Updating, Deleting, Resolving
<1> QED BY <1>1, <1>2

\* Profiles that are created meanwhile, or are changed under the lock while it
\* is somebody else's, do not disturb it.
LEMMA TxStays ==
  ASSUME NEW t, NEW d, NEW e, NEW mine, NEW n \in Nat, NEW m \in Nat, n <= m,
         TxSound(t, d, mine, n),
         e = d \/ (~mine /\ (IsCreating(t) => e.rows[t.call.id].rev = 0))
  PROVE  TxSound(t, e, mine, m)
<1>1. Profiles \cap (1 .. n) \subseteq Profiles \cap (1 .. m)
  OBVIOUS
<1>2. CreateCalls(n) \subseteq CreateCalls(m) /\ UpdateCalls(n) \subseteq UpdateCalls(m)
      /\ DeleteCalls(n) \subseteq DeleteCalls(m) /\ ResolveCalls(n) \subseteq ResolveCalls(m)
  BY <1>1 DEF CreateCalls, UpdateCalls, DeleteCalls, ResolveCalls
<1>3. CASE t.at = "idle"
  BY <1>3, TxFields DEF TxSound
<1>4. CASE t.at = "tx"
  <2>1. Booting(t, d, mine) => Booting(t, e, mine)
    BY DEF Booting
  <2>2. Creating(t, d, mine, n) => Creating(t, e, mine, m)
    <3> SUFFICES ASSUME Creating(t, d, mine, n) PROVE Creating(t, e, mine, m)
      OBVIOUS
    <3>1. IsCreating(t)
      BY <1>4 DEF Creating, CreateCalls, IsCreating
    <3> QED BY <1>2, <3>1 DEF Creating
  <2>3. Updating(t, d, mine, n) => Updating(t, e, mine, m)
    BY <1>2 DEF Updating
  <2>4. Deleting(t, d, mine, n) => Deleting(t, e, mine, m)
    BY <1>2 DEF Deleting
  <2>5. Resolving(t, mine, n) => Resolving(t, mine, m)
    BY <1>2 DEF Resolving
  <2> QED BY <1>4, <2>1, <2>2, <2>3, <2>4, <2>5, TxFields DEF TxSound
<1> QED BY <1>3, <1>4, TxFields

\* One client moves, and the database stays as it is. What the client may have
\* got is what somebody has or what the database says.
LEMMA ClientMoves ==
  ASSUME AppInv, NEW c \in Clients, NEW t, tx' = [tx EXCEPT ![c] = t], UNCHANGED db,
         created' \in 0 .. MaxProfiles, created <= created', TxSound(t, db, writer' = c, created'),
         writer' = writer \/ (writer \in {Nobody, c} /\ writer' \in {Nobody, c}),
         \A r \in seen' : r \in Gotten(seen, tx),
         Holding(t) => (Holding(tx[c]) /\ Held(t) = Held(tx[c])) \/ t.view = db,
         IsCreating(t) => (IsCreating(tx[c]) /\ t.call.id = tx[c].call.id) \/ t.call.id > created
  PROVE  AppInv'
<1>0. AppTypes /\ TxsSound /\ ProfilesNamed /\ Unborn /\ FileWhole(db)
  BY DEF AppInv
<1> DEFINE before == Gotten(seen, tx)
           after == Gotten(seen', tx')
<1>1. /\ tx'[c] = t /\ \A x \in Clients \ {c} : tx'[x] = tx[x]
      /\ \A r \in after : r \in seen' \/ r \in before \/ (Holding(t) /\ r = Held(t))
  <2>1. tx'[c] = t /\ \A x \in Clients \ {c} : tx'[x] = tx[x]
    BY <1>0 DEF AppTypes
  <2>2. ASSUME NEW r \in after, r \notin seen'
        PROVE  r \in before \/ (Holding(t) /\ r = Held(t))
    <3>1. PICK x \in Clients : Holding(tx'[x]) /\ r = Held(tx'[x])
      BY <2>2 DEF Gotten
    <3>2. x # c => Holding(tx[x]) /\ r = Held(tx[x])
      BY <2>1, <3>1
    <3> QED BY <2>1, <3>1, <3>2 DEF Gotten
  <2> QED BY <2>1, <2>2
<1> HIDE DEF before, after
<1>2. /\ AppTypes' /\ FileWhole(db') /\ created \in Nat /\ db \in States
      /\ \A i \in Profiles : i > created' => i > created
  <2>1. AppTypes' /\ FileWhole(db') /\ created \in Nat /\ db \in States
    BY <1>0 DEF AppTypes
  <2>2. \A i \in Profiles : i \in Nat
    BY DEF Profiles
  <2> QED BY <2>1, <2>2
<1>3. \A x \in Clients \ {c} : (writer' = x) = (writer = x)
  BY AppAssumption
<1>4. TxsSound'
  <2>1. ASSUME NEW x \in Clients \ {c} PROVE TxSound(tx'[x], db', writer' = x, created')
    <3>1. TxSound(tx[x], db, writer = x, created)
      BY <1>0 DEF TxsSound
    <3>2. TxSound(tx[x], db, writer = x, created')
      BY <1>2, <3>1, TxStays
    <3> QED BY <1>1, <1>3, <3>2
  <2> QED BY <1>1, <2>1 DEF TxsSound
<1>5. ASSUME NEW r \in after, r \notin before
      PROVE  NamedBy(r, db, created') /\ r = Profile(r.id, db) /\ db.rows[r.id].rev > 0
  <2>1. Holding(t) /\ r = Held(t)
    BY <1>1, <1>5 DEF before
  <2>2. t.view = db
    BY <1>1, <1>5, <2>1 DEF Gotten, before
  <2>3. t.call \in ResolveCalls(created')
    BY <2>1, TxKind DEF Holding, Resolving
  <2>4. t.call.id \in Profiles \cap (1 .. created')
    BY <2>3 DEF ResolveCalls
  <2>5. r.id = t.call.id /\ r = Profile(r.id, db) /\ r.rev = db.rows[r.id].rev
    BY <2>1, <2>2 DEF Held, Profile
  <2>6. db.rows[r.id].rev > 0 /\ db.rows[r.id].rev \in Nat
    BY <1>2, <2>1, <2>2, <2>4, <2>5 DEF Holding, States, Rows
  <2> QED BY <2>4, <2>5, <2>6 DEF NamedBy
<1>6. \A r \in after : NamedBy(r, db', created')
  <2>1. \A r \in before : NamedBy(r, db, created)
    BY <1>0 DEF ProfilesNamed, before
  <2>2. 1 .. created \subseteq 1 .. created'
    BY <1>2
  <2>3. \A r \in before : NamedBy(r, db, created')
    BY <2>1, <2>2 DEF NamedBy
  <2> QED BY <1>5, <2>3
<1>7. OneContent(after)
  <2> SUFFICES ASSUME NEW a \in after, NEW b \in after,
                      a.id = b.id, a.rev = b.rev
               PROVE  a = b
    BY DEF OneContent
  <2>1. ASSUME NEW r \in before, db.rows[r.id].rev = r.rev PROVE r = Profile(r.id, db)
    <3>1. NamedBy(r, db, created)
      BY <1>0 DEF ProfilesNamed, before
    <3> QED BY <2>1, <3>1 DEF NamedBy
  <2>2. \A r \in after : r \notin before =>
          r = Profile(r.id, db) /\ db.rows[r.id].rev = r.rev
    <3> SUFFICES ASSUME NEW r \in after, r \notin before
                 PROVE  r = Profile(r.id, db) /\ db.rows[r.id].rev = r.rev
      OBVIOUS
    <3>1. r = Profile(r.id, db)
      BY <1>5
    <3>2. Profile(r.id, db).rev = db.rows[r.id].rev
      BY DEF Profile
    <3> QED BY <3>1, <3>2
  <2>3. CASE a \in before /\ b \in before
    BY <1>0, <2>3 DEF ProfilesNamed, OneContent, before
  <2>4. CASE a \notin before \/ b \notin before
    BY <2>1, <2>2, <2>4
  <2> QED BY <2>3, <2>4
<1>8. CreatesNew(tx', after)
  <2>1. ASSUME NEW x \in Clients, IsCreating(tx'[x])
        PROVE  /\ tx'[x].call.id \in Nat /\ db.rows[tx'[x].call.id].rev = 0
    <3>1. TxSound(tx'[x], db, writer' = x, created')
      BY <1>4 DEF TxsSound
    <3>2. Creating(tx'[x], db, writer' = x, created')
      BY <2>1, <3>1, TxKind DEF IsCreating
    <3> QED BY <3>2 DEF Creating, CreateCalls
  <2>2. ASSUME NEW x \in Clients, IsCreating(tx[x])
        PROVE  /\ tx[x].call.id \in 1 .. created
               /\ \A r \in before : r.id # tx[x].call.id
               /\ \A y \in Clients \ {x} : IsCreating(tx[y]) => tx[y].call.id # tx[x].call.id
    <3>1. Creating(tx[x], db, writer = x, created)
      BY <1>0, <2>2, TxKind DEF IsCreating, TxsSound
    <3> QED BY <1>0, <2>2, <3>1 DEF Creating, CreateCalls, ProfilesNamed, CreatesNew, before
  <2>3. \A r \in before : r.id \in 1 .. created
    BY <1>0 DEF ProfilesNamed, NamedBy, before
  <2>4. ASSUME NEW x \in Clients, IsCreating(tx'[x]), NEW r \in after
        PROVE  r.id # tx'[x].call.id
    <3>1. CASE r \notin before
      <4>1. db.rows[r.id].rev > 0
        BY <1>5, <2>4, <3>1
      <4>2. db.rows[tx'[x].call.id].rev = 0
        BY <2>1, <2>4
      <4> QED BY <4>1, <4>2
    <3>2. CASE r \in before
      <4>1. \/ IsCreating(tx[x]) /\ tx'[x].call.id = tx[x].call.id
            \/ tx'[x].call.id > created
        BY <1>1, <2>4
      <4>2. \A n \in Nat : n > created => n \notin 1 .. created
        BY <1>2
      <4> QED BY <2>1, <2>2, <2>3, <2>4, <3>2, <4>1, <4>2
    <3> QED BY <3>1, <3>2
  <2>5. ASSUME NEW x \in Clients, IsCreating(tx'[x]), NEW y \in Clients \ {x}, IsCreating(tx'[y])
        PROVE  tx'[y].call.id # tx'[x].call.id
    <3>1. \A z \in {x, y} : \/ IsCreating(tx[z]) /\ tx'[z].call.id = tx[z].call.id
                            \/ z = c /\ tx'[z].call.id > created
      BY <1>1, <2>5
    <3>2. \A n \in Nat : n > created => n \notin 1 .. created
      BY <1>2
    <3> QED BY <2>1, <2>2, <2>5, <3>1, <3>2
  <2> QED BY <2>4, <2>5 DEF CreatesNew
<1>9. ProfilesNamed'
  BY <1>6, <1>7, <1>8 DEF ProfilesNamed, after
<1>10. Unborn'
  BY <1>0, <1>2 DEF Unborn
<1> QED BY <1>2, <1>4, <1>9, <1>10 DEF AppInv

\* What the statements about a profile make of a state.
LEMMA ExecRow ==
  ASSUME NEW v \in States, NEW call, call.id \in Profiles, RowOf(call) \in Rows,
         NEW s \in {"insertRow", "updateRow"}
  PROVE  /\ Exec(s, call, v) \in States /\ Differs(Exec(s, call, v), v, call.id, RowOf(call))
<1>1. Exec(s, call, v) = [v EXCEPT !.rows[call.id] = RowOf(call)]
  BY DEF Exec, Schema, RowOf
<1> HIDE DEF RowOf
<1> QED BY <1>1 DEF States, Differs

LEMMA ExecDelete ==
  ASSUME NEW v \in States, NEW call, call.id \in Profiles
  PROVE  /\ Exec("deleteRow", call, v) \in States
         /\ Differs(Exec("deleteRow", call, v), v, call.id, NoRow)
<1>1. Exec("deleteRow", call, v) = [v EXCEPT !.rows[call.id] = NoRow, !.tools[call.id] = {}]
  BY DEF Exec, Schema
<1>2. NoRow \in Rows
  BY DEF NoRow, Rows
<1> HIDE DEF NoRow
<1> DEFINE half == [v EXCEPT !.rows[call.id] = NoRow]
<1>3. half \in States /\ Differs(half, v, call.id, NoRow)
  BY <1>2 DEF States, Differs
<1>4. Exec("deleteRow", call, v) = [half EXCEPT !.tools[call.id] = {}]
  BY <1>1
<1> HIDE DEF half
<1> QED BY <1>3, <1>4 DEF States, Differs

LEMMA ExecTools ==
  ASSUME NEW v \in States, NEW d, NEW call, call.id \in Profiles, NEW row,
         Differs(v, d, call.id, row),
         NEW s \in {"deleteTools", "insertTools"}, s = "insertTools" => call.tools \in ToolSets
  PROVE  Exec(s, call, v) \in States /\ Differs(Exec(s, call, v), d, call.id, row)
<1>1. CASE s = "deleteTools"
  <2>1. Exec(s, call, v) = [v EXCEPT !.tools[call.id] = {}]
    BY <1>1 DEF Exec, Schema
  <2> QED BY <2>1 DEF States, Differs
<1>2. CASE s = "insertTools"
  <2>1. Exec(s, call, v) = [v EXCEPT !.tools[call.id] = call.tools]
    BY <1>2 DEF Exec, Schema
  <2> QED BY <1>2, <2>1 DEF States, Differs
<1> QED BY <1>1, <1>2

-----------------------------------------------------------------------------
(* The steps.                                                              *)

LEMMA TxEnds ==
  ASSUME AppInv, NEW c \in Clients, End_(c), UNCHANGED <<db, created>>,
         \A r \in seen' : r \in Gotten(seen, tx)
  PROVE  AppInv'
<1>1. tx' = [tx EXCEPT ![c] = IdleTx] /\ writer' = (IF writer = c THEN Nobody ELSE writer)
  BY DEF End_, IdleTx
<1>2. (writer' = c) = FALSE
  BY <1>1, AppAssumption
<1>3. TxSound(IdleTx, db, writer' = c, created')
  BY <1>2 DEF TxSound
<1>4. ~Holding(IdleTx) /\ ~IsCreating(IdleTx)
  BY DEF Holding, IsCreating, IdleTx
<1>5. created' \in 0 .. MaxProfiles /\ created <= created'
  BY DEF AppInv, AppTypes
<1>6. writer' = writer \/ (writer \in {Nobody, c} /\ writer' \in {Nobody, c})
  BY <1>1
<1> QED BY <1>1, <1>3, <1>4, <1>5, <1>6, ClientMoves

LEMMA TxOpens ==
  ASSUME NEW call, NEW script, NEW view
  PROVE  LET t == [at |-> "tx", call |-> call, script |-> script, view |-> view]
         IN  /\ t.at = "tx" /\ t.call = call /\ t.script = script /\ t.view = view
             /\ t = [at |-> "tx", call |-> t.call, script |-> t.script, view |-> t.view]
OBVIOUS

LEMMA BootstrapKeeps ==
  ASSUME AppInv, NEW c \in Clients, Bootstrap(c)
  PROVE  AppInv'
<1> DEFINE t == [at |-> "tx", call |-> [kind |-> "boot"], script |-> Plan(db), view |-> db]
<1>1. /\ tx' = [tx EXCEPT ![c] = t] /\ UNCHANGED <<db, seen, created>> /\ writer = Nobody /\ writer' = c
  BY DEF Bootstrap, Open_, Bounds_
<1>2. /\ t.at = "tx" /\ t.call = [kind |-> "boot"] /\ t.script = Plan(db) /\ t.view = db
      /\ t = [at |-> "tx", call |-> t.call, script |-> t.script, view |-> t.view]
  BY TxOpens
<1> HIDE DEF t
<1>3. db \in States /\ BootAt(Plan(db), db) /\ created \in 0 .. MaxProfiles /\ created <= created
  BY PlanSound DEF AppInv, AppTypes
<1>4. t.call \in BootCalls /\ t.call.kind = "boot"
  BY <1>2 DEF BootCalls
<1>5. TxSound(t, db, writer' = c, created')
  BY <1>1, <1>2, <1>3, <1>4 DEF TxSound, Booting
<1>6. ~Holding(t) /\ ~IsCreating(t)
  BY <1>4 DEF Holding, IsCreating
<1>7. \A r \in seen' : r \in Gotten(seen, tx)
  BY <1>1 DEF Gotten
<1> QED BY <1>1, <1>3, <1>5, <1>6, <1>7, ClientMoves

\* A call begins: nothing written, and nobody has the profile it creates.
LEMMA CallOpens ==
  ASSUME AppInv, NEW c \in Clients, Idle_(c), NEW call, NEW script,
         Open_(c, call, script, db), UNCHANGED <<db, writer, seen>>,
         created' \in 0 .. MaxProfiles, created <= created',
         LET t == [at |-> "tx", call |-> call, script |-> script, view |-> db]
         IN  \/ Creating(t, db, FALSE, created') /\ call.id > created
             \/ Updating(t, db, FALSE, created') \/ Deleting(t, db, FALSE, created')
             \/ Resolving(t, FALSE, created') /\ script = <<"readRow", "readTools">>
  PROVE  AppInv'
<1> DEFINE t == [at |-> "tx", call |-> call, script |-> script, view |-> db]
<1>1. tx' = [tx EXCEPT ![c] = t]
  BY DEF Open_
<1>2. /\ t.at = "tx" /\ t.call = call /\ t.script = script /\ t.view = db
      /\ t = [at |-> "tx", call |-> t.call, script |-> t.script, view |-> t.view]
  BY TxOpens
<1>3. \/ Creating(t, db, FALSE, created') /\ call.id > created
      \/ Updating(t, db, FALSE, created') \/ Deleting(t, db, FALSE, created')
      \/ Resolving(t, FALSE, created') /\ script = <<"readRow", "readTools">>
  OBVIOUS
<1> HIDE DEF t
<1>4. (writer' = c) = FALSE /\ db \in States
  BY TxFields DEF AppInv, AppTypes, TxsSound, Idle_
<1>5. TxSound(t, db, FALSE, created')
  BY <1>2, <1>3, <1>4 DEF TxSound
<1>6. IsCreating(t) => t.call.id > created
  <2>1. Updating(t, db, FALSE, created') => t.call.kind # "create"
    BY DEF Updating, UpdateCalls
  <2>2. Deleting(t, db, FALSE, created') => t.call.kind # "create"
    BY DEF Deleting, DeleteCalls
  <2>3. Resolving(t, FALSE, created') => t.call.kind # "create"
    BY DEF Resolving, ResolveCalls
  <2> QED BY <1>2, <1>3, <2>1, <2>2, <2>3 DEF IsCreating
<1>7. \A r \in seen' : r \in Gotten(seen, tx)
  BY DEF Gotten
<1> QED BY <1>1, <1>2, <1>4, <1>5, <1>6, <1>7, ClientMoves

LEMMA BeginKeeps ==
  ASSUME AppInv, NEW c \in Clients, Begin_(c)
  PROVE  AppInv'
<1>1. /\ Idle_(c) /\ UNCHANGED <<db, writer, seen>> /\ created \in 0 .. MaxProfiles /\ Unborn
      /\ created \in Nat /\ created <= created
      /\ \A n \in Nat : n <= n + 1 /\ n <= n /\ n + 1 > n
  BY DEF Begin_, AppInv, AppTypes
<1>2. ASSUME NEW r \in Refs PROVE r.id \in Profiles \cap (1 .. created) /\ r.rev \in Nat \ {0}
  <2>1. PICK q \in seen : r = [id |-> q.id, rev |-> q.rev]
    BY <1>2 DEF Refs
  <2>2. q \in Gotten(seen, tx)
    BY DEF Gotten
  <2>3. NamedBy(q, db, created)
    BY <2>2 DEF AppInv, ProfilesNamed
  <2> QED BY <2>1, <2>3 DEF NamedBy
<1>3. ASSUME NEW body \in Bodies, NEW tools \in ToolSets, created < MaxProfiles, created' = created + 1,
             Open_(c, [kind |-> "create", id |-> created + 1, rev |-> 0, body |-> body, tools |-> tools],
                   <<"insertRow", "insertTools">>, db)
      PROVE  AppInv'
  <2> DEFINE call == [kind |-> "create", id |-> created + 1, rev |-> 0, body |-> body, tools |-> tools]
             script == <<"insertRow", "insertTools">>
             t == [at |-> "tx", call |-> call, script |-> script, view |-> db]
  <2>1. created + 1 \in Profiles \cap (1 .. created + 1) /\ created + 1 > created /\ created + 1 \in 0 .. MaxProfiles
        /\ created <= created + 1
    BY <1>1, <1>3, AppAssumption DEF Profiles
  <2>2. db.rows[created + 1].rev = 0
    BY <1>1, <2>1 DEF Unborn
  <2>3. call \in CreateCalls(created + 1) /\ call.id = created + 1
    BY <2>1 DEF CreateCalls
  <2> HIDE DEF call, script
  <2>4. Creating(t, db, FALSE, created')
    BY <1>3, <2>2, <2>3, TxOpens DEF Creating, script
  <2>5. Open_(c, call, script, db)
    BY <1>3 DEF call, script
  <2> QED BY <1>1, <1>3, <2>1, <2>3, <2>4, <2>5, CallOpens
<1>4. ASSUME NEW r \in Refs, NEW body \in Bodies, NEW tools \in ToolSets, UNCHANGED created,
             Open_(c, [kind |-> "update", id |-> r.id, rev |-> r.rev, body |-> body, tools |-> tools],
                   <<"updateRow", "deleteTools", "insertTools">>, db)
      PROVE  AppInv'
  <2> DEFINE call == [kind |-> "update", id |-> r.id, rev |-> r.rev, body |-> body, tools |-> tools]
             script == <<"updateRow", "deleteTools", "insertTools">>
             t == [at |-> "tx", call |-> call, script |-> script, view |-> db]
  <2>1. call \in UpdateCalls(created)
    BY <1>2 DEF UpdateCalls
  <2> HIDE DEF call, script
  <2>2. Updating(t, db, FALSE, created')
    BY <1>4, <2>1, TxOpens DEF Updating, script
  <2>3. Open_(c, call, script, db)
    BY <1>4 DEF call, script
  <2> QED BY <1>1, <1>4, <2>2, <2>3, CallOpens
<1>5. ASSUME NEW r \in Refs, UNCHANGED created,
             Open_(c, [kind |-> "delete", id |-> r.id, rev |-> r.rev], <<"deleteRow", "deleteTools">>, db)
      PROVE  AppInv'
  <2> DEFINE call == [kind |-> "delete", id |-> r.id, rev |-> r.rev]
             script == <<"deleteRow", "deleteTools">>
             t == [at |-> "tx", call |-> call, script |-> script, view |-> db]
  <2>1. call \in DeleteCalls(created)
    BY <1>2 DEF DeleteCalls
  <2> HIDE DEF call, script
  <2>2. Deleting(t, db, FALSE, created')
    BY <1>5, <2>1, TxOpens DEF Deleting, script
  <2>3. Open_(c, call, script, db)
    BY <1>5 DEF call, script
  <2> QED BY <1>1, <1>5, <2>2, <2>3, CallOpens
<1>6. ASSUME NEW i \in 1 .. created, UNCHANGED created,
             Open_(c, [kind |-> "resolve", id |-> i], <<"readRow", "readTools">>, db)
      PROVE  AppInv'
  <2> DEFINE call == [kind |-> "resolve", id |-> i]
             script == <<"readRow", "readTools">>
             t == [at |-> "tx", call |-> call, script |-> script, view |-> db]
  <2>1. call \in ResolveCalls(created)
    BY AppAssumption DEF ResolveCalls, AppInv, AppTypes, Profiles
  <2> HIDE DEF call, script
  <2>2. Resolving(t, FALSE, created') /\ script = <<"readRow", "readTools">>
    BY <1>6, <2>1, TxOpens DEF Resolving, script
  <2>3. Open_(c, call, script, db)
    BY <1>6 DEF call, script
  <2> QED BY <1>1, <1>6, <2>2, <2>3, CallOpens
<1> QED BY <1>3, <1>4, <1>5, <1>6, Zenon DEF Begin_

\* The first statement of a call that writes starts from the committed state,
\* the next ones from what it has made of it.
LEMMA StatementKeeps ==
  ASSUME AppInv, NEW c \in Clients, Statement(c)
  PROVE  AppInv'
<1> DEFINE old == tx[c]
           mine == writer = c
           next == Exec(Head(old.script), old.call, Current(c))
           t == [at |-> "tx", call |-> old.call, script |-> Tail(old.script), view |-> next]
<1>1. /\ old.at = "tx" /\ old.script # <<>> /\ Head(old.script) \in Owned
      /\ writer \in {Nobody, c} /\ writer' = c /\ UNCHANGED <<db, seen, created>>
      /\ Affects(Head(old.script), old.call, Current(c)) /\ tx' = [tx EXCEPT ![c] = t]
  BY DEF Statement, In, Script, Call, Open_, Bounds_
<1>2. /\ TxSound(old, db, mine, created) /\ db \in States /\ created \in 0 .. MaxProfiles
      /\ created <= created
  BY DEF AppInv, AppTypes, TxsSound
<1>3. Current(c) = IF mine THEN old.view ELSE db
  BY DEF Current, View_
<1>4. old.view \in States
  BY <1>1, <1>2, TxFields
<1>5. /\ t.at = "tx" /\ t.call = old.call /\ t.script = Tail(old.script) /\ t.view = next
      /\ t = [at |-> "tx", call |-> t.call, script |-> t.script, view |-> t.view]
  BY TxOpens
<1>6. \A r \in seen' : r \in Gotten(seen, tx)
  BY <1>1 DEF Gotten
<1>7. (writer' = c) = TRUE
  BY <1>1
<1> HIDE DEF old, mine, next, t
<1>8. ASSUME t.view \in States, t.call.kind # "resolve",
             \/ Booting(t, db, TRUE) \/ Creating(t, db, TRUE, created)
             \/ Updating(t, db, TRUE, created) \/ Deleting(t, db, TRUE, created)
      PROVE  AppInv'
  <2>1. TxSound(t, db, TRUE, created)
    BY <1>5, <1>8 DEF TxSound
  <2>2. ~Holding(t)
    BY <1>8 DEF Holding
  <2>3. IsCreating(t) => IsCreating(tx[c]) /\ t.call.id = tx[c].call.id
    BY <1>1, <1>5 DEF IsCreating, old
  <2> QED BY <1>1, <1>2, <1>6, <1>7, <2>1, <2>2, <2>3, ClientMoves
<1>9. ASSUME Booting(old, db, mine), old.call.kind = "boot" PROVE AppInv'
  <2>1. next = Exec(Head(old.script), old.call, old.view) /\ BootAt(old.script, old.view)
    BY <1>3, <1>9 DEF next, Booting
  <2>2. /\ next \in States /\ BootAt(Tail(old.script), next)
        /\ next.rows = old.view.rows /\ next.tools = old.view.tools
    BY <1>1, <1>4, <2>1, BootExec
  <2>3. Booting(t, db, TRUE)
    BY <1>5, <1>9, <2>2 DEF Booting
  <2> QED BY <1>5, <1>8, <1>9, <2>2, <2>3
<1>10. ASSUME Creating(old, db, mine, created), old.call.kind = "create" PROVE AppInv'
  <2>1. /\ old.call.id \in Profiles /\ old.call.rev = 0 /\ old.call.body \in Bodies
        /\ old.call.tools \in ToolSets /\ RowOf(old.call) \in Rows
    BY <1>10 DEF Creating, CreateCalls, RowOf, Rows
  <2>2. CASE ~mine /\ old.script = <<"insertRow", "insertTools">>
    <3>1. Head(old.script) = "insertRow" /\ Tail(old.script) = <<"insertTools">> /\ Current(c) = db
      BY <1>3, <2>2
    <3>2. next \in States /\ Differs(next, db, old.call.id, RowOf(old.call))
      BY <1>2, <2>1, <3>1, ExecRow DEF next
    <3>3. Creating(t, db, TRUE, created)
      BY <1>5, <1>10, <3>1, <3>2 DEF Creating
    <3> QED BY <1>5, <1>8, <1>10, <3>2, <3>3
  <2>3. CASE mine /\ old.script = <<"insertTools">> /\ Differs(old.view, db, old.call.id, RowOf(old.call))
    <3>1. Head(old.script) = "insertTools" /\ Tail(old.script) = <<>> /\ Current(c) = old.view
      BY <1>3, <2>3
    <3>2. next \in States /\ Differs(next, db, old.call.id, RowOf(old.call))
      BY <1>4, <2>1, <2>3, <3>1, ExecTools DEF next
    <3>3. Creating(t, db, TRUE, created)
      BY <1>5, <1>10, <3>1, <3>2 DEF Creating
    <3> QED BY <1>5, <1>8, <1>10, <3>2, <3>3
  <2> QED BY <1>1, <1>10, <2>2, <2>3 DEF Creating
<1>11. ASSUME Updating(old, db, mine, created), old.call.kind = "update" PROVE AppInv'
  <2>1. /\ old.call.id \in Profiles /\ old.call.rev \in Nat /\ old.call.body \in Bodies
        /\ old.call.tools \in ToolSets /\ RowOf(old.call) \in Rows
    BY <1>11 DEF Updating, UpdateCalls, RowOf, Rows
  <2>2. CASE ~mine /\ old.script = <<"updateRow", "deleteTools", "insertTools">>
    <3>1. /\ Head(old.script) = "updateRow" /\ Tail(old.script) = <<"deleteTools", "insertTools">>
          /\ Current(c) = db
      BY <1>3, <2>2
    <3>2. next \in States /\ Differs(next, db, old.call.id, RowOf(old.call))
      BY <1>2, <2>1, <3>1, ExecRow DEF next
    <3>3. db.rows[old.call.id].rev = old.call.rev
      BY <1>1, <3>1 DEF Affects, Row
    <3>4. Updating(t, db, TRUE, created)
      BY <1>5, <1>11, <3>1, <3>2, <3>3 DEF Updating
    <3> QED BY <1>5, <1>8, <1>11, <3>2, <3>4
  <2>3. CASE /\ mine /\ old.script \in {<<"deleteTools", "insertTools">>, <<"insertTools">>}
             /\ Differs(old.view, db, old.call.id, RowOf(old.call))
             /\ db.rows[old.call.id].rev = old.call.rev
    <3>1. /\ Head(old.script) \in {"deleteTools", "insertTools"} /\ Current(c) = old.view
          /\ Tail(old.script) \in {<<"insertTools">>, <<>>}
      <4>1. CASE old.script = <<"deleteTools", "insertTools">>
        BY <1>3, <2>3, <4>1
      <4>2. CASE old.script = <<"insertTools">>
        BY <1>3, <2>3, <4>2
      <4> QED BY <2>3, <4>1, <4>2
    <3>2. next \in States /\ Differs(next, db, old.call.id, RowOf(old.call))
      BY <1>4, <2>1, <2>3, <3>1, ExecTools DEF next
    <3>3. Updating(t, db, TRUE, created)
      BY <1>5, <1>11, <2>3, <3>1, <3>2 DEF Updating
    <3> QED BY <1>5, <1>8, <1>11, <3>2, <3>3
  <2> QED BY <1>1, <1>11, <2>2, <2>3 DEF Updating
<1>12. ASSUME Deleting(old, db, mine, created), old.call.kind = "delete" PROVE AppInv'
  <2>1. old.call.id \in Profiles /\ old.call.rev \in Nat
    BY <1>12 DEF Deleting, DeleteCalls
  <2>2. CASE ~mine /\ old.script = <<"deleteRow", "deleteTools">>
    <3>1. Head(old.script) = "deleteRow" /\ Tail(old.script) = <<"deleteTools">> /\ Current(c) = db
      BY <1>3, <2>2
    <3>2. next \in States /\ Differs(next, db, old.call.id, NoRow)
      BY <1>2, <2>1, <3>1, ExecDelete DEF next
    <3>3. db.rows[old.call.id].rev = old.call.rev
      BY <1>1, <3>1 DEF Affects, Row
    <3>4. Deleting(t, db, TRUE, created)
      BY <1>5, <1>12, <3>1, <3>2, <3>3 DEF Deleting
    <3> QED BY <1>5, <1>8, <1>12, <3>2, <3>4
  <2>3. CASE /\ mine /\ old.script = <<"deleteTools">> /\ Differs(old.view, db, old.call.id, NoRow)
             /\ db.rows[old.call.id].rev = old.call.rev
    <3>1. Head(old.script) = "deleteTools" /\ Current(c) = old.view /\ Tail(old.script) = <<>>
      BY <1>3, <2>3
    <3>2. next \in States /\ Differs(next, db, old.call.id, NoRow)
      BY <1>4, <2>1, <2>3, <3>1, ExecTools DEF next
    <3>3. Deleting(t, db, TRUE, created)
      BY <1>5, <1>12, <2>3, <3>1, <3>2 DEF Deleting
    <3> QED BY <1>5, <1>8, <1>12, <3>2, <3>3
  <2> QED BY <1>1, <1>12, <2>2, <2>3 DEF Deleting
<1>13. old.call.kind # "resolve"
  <2>1. Resolving(old, mine, created) => Head(old.script) \notin Owned
    BY <1>1 DEF Resolving, Owned
  <2> QED BY <1>1, <1>2, <2>1, TxKind
<1> QED BY <1>1, <1>2, <1>9, <1>10, <1>11, <1>12, <1>13, TxKind

\* A run that freezes a profile reads it whole from one state.
LEMMA QueryKeeps ==
  ASSUME AppInv, NEW c \in Clients, Query(c)
  PROVE  AppInv'
<1> DEFINE old == tx[c]
           view == IF Head(old.script) = "readRow" THEN db ELSE old.view
           t == [at |-> "tx", call |-> old.call, script |-> Tail(old.script), view |-> view]
<1>1. /\ old.at = "tx" /\ old.script # <<>> /\ Head(old.script) \in {"readRow", "readTools"}
      /\ UNCHANGED <<db, writer, seen, created>> /\ tx' = [tx EXCEPT ![c] = t]
  BY DEF Query, In, Script, Call, View_, Open_, Bounds_
<1>2. /\ TxSound(old, db, writer = c, created) /\ db \in States /\ created \in 0 .. MaxProfiles
      /\ created <= created
  BY DEF AppInv, AppTypes, TxsSound
<1>3. /\ t.at = "tx" /\ t.call = old.call /\ t.script = Tail(old.script) /\ t.view = view
      /\ t = [at |-> "tx", call |-> t.call, script |-> t.script, view |-> t.view]
  BY TxOpens
<1>4. \A r \in seen' : r \in Gotten(seen, tx)
  BY <1>1 DEF Gotten
<1>5. old.view \in States
  BY <1>1, <1>2, TxFields
<1>6. view \in States
  BY <1>2, <1>5
<1> HIDE DEF t
<1>7. Resolving(old, writer = c, created)
  <2>1. old.script = <<"refuse">> => Head(old.script) \notin {"readRow", "readTools"}
    OBVIOUS
  <2>2. ~Booting(old, db, writer = c)
    BY <1>1, <2>1 DEF Booting, BootAt, FreshAt, MigrationAt
  <2>3. ~Creating(old, db, writer = c, created)
    BY <1>1 DEF Creating
  <2>4. ~Updating(old, db, writer = c, created)
    BY <1>1 DEF Updating
  <2>5. ~Deleting(old, db, writer = c, created)
    BY <1>1 DEF Deleting
  <2> QED BY <1>1, <1>2, <2>2, <2>3, <2>4, <2>5, TxFields
<1>8. \/ old.script = <<"readRow", "readTools">> /\ t.script = <<"readTools">> /\ t.view = db
      \/ old.script = <<"readTools">> /\ t.script = <<>> /\ t.view = old.view
  <2>1. old.script = <<"readRow", "readTools">> \/ old.script = <<"readTools">>
    BY <1>1, <1>7 DEF Resolving
  <2>2. CASE old.script = <<"readRow", "readTools">>
    <3>1. Head(old.script) = "readRow" /\ Tail(old.script) = <<"readTools">>
      BY <2>2
    <3> QED BY <1>3, <2>2, <3>1
  <2>3. CASE old.script = <<"readTools">>
    <3>1. Head(old.script) = "readTools" /\ Tail(old.script) = <<>>
      BY <2>3
    <3> QED BY <1>3, <2>3, <3>1
  <2> QED BY <2>1, <2>2, <2>3
<1>9. Resolving(t, writer' = c, created') /\ t.call.kind = "resolve"
  BY <1>1, <1>3, <1>7, <1>8 DEF Resolving, ResolveCalls
<1>10. TxSound(t, db, writer' = c, created')
  BY <1>3, <1>6, <1>9 DEF TxSound
<1>11. Holding(t) => (Holding(tx[c]) /\ Held(t) = Held(tx[c])) \/ t.view = db
  BY <1>1, <1>3, <1>8 DEF Holding, Held
<1>12. ~IsCreating(t)
  BY <1>9 DEF IsCreating
<1> QED BY <1>1, <1>2, <1>4, <1>10, <1>11, <1>12, ClientMoves

\* A transaction that changed one profile commits: it replaces what it has seen.
LEMMA OneRowCommits ==
  ASSUME AppInv, NEW c \in Clients, End_(c), writer = c, UNCHANGED created,
         NEW i \in Profiles \cap (1 .. created), NEW row \in Rows, NEW v \in States,
         Differs(v, db, i, row), db' = v,
         row.rev = 0 \/ \A r \in Gotten(seen, tx) : r.id = i => r.rev < row.rev,
         \A x \in Clients \ {c} : IsCreating(tx[x]) => tx[x].call.id # i,
         \A r \in seen' : r \in Gotten(seen, tx) \/ (r = Profile(i, v) /\ row.rev > 0)
  PROVE  AppInv'
<1>0. AppTypes /\ TxsSound /\ ProfilesNamed /\ Unborn /\ FileWhole(db)
  BY DEF AppInv
<1> DEFINE before == Gotten(seen, tx)
           after == Gotten(seen', tx')
<1>1. /\ tx' = [tx EXCEPT ![c] = IdleTx] /\ writer' = Nobody
      /\ tx'[c] = IdleTx /\ \A x \in Clients \ {c} : tx'[x] = tx[x]
  BY <1>0 DEF End_, IdleTx, AppTypes
<1>2. /\ i \in Nat /\ row.rev \in Nat /\ v.rows[i] = row
      /\ \A j \in Profiles \ {i} : v.rows[j] = db.rows[j] /\ v.tools[j] = db.tools[j]
      /\ v.objects = db.objects /\ v.version = db.version
  <2>1. v.rows = [db.rows EXCEPT ![i] = row] /\ DOMAIN db.rows = Profiles
    BY <1>0 DEF Differs, AppTypes, States
  <2>2. v.rows[i] = row /\ \A j \in Profiles \ {i} : v.rows[j] = db.rows[j]
    BY <2>1
  <2>3. i \in Nat /\ row.rev \in Nat
    BY DEF Rows, Profiles
  <2> QED BY <2>2, <2>3 DEF Differs
<1>3. ~Holding(IdleTx) /\ ~IsCreating(IdleTx)
  BY DEF Holding, IsCreating, IdleTx
<1>4. \A r \in after : r \in before \/ (r = Profile(i, v) /\ row.rev > 0)
  <2> SUFFICES ASSUME NEW r \in after, r \notin seen' PROVE r \in before
    BY DEF before
  <2>1. PICK x \in Clients : Holding(tx'[x]) /\ r = Held(tx'[x])
    BY DEF Gotten
  <2>2. Holding(tx[x]) /\ r = Held(tx[x])
    BY <1>1, <1>3, <2>1
  <2> QED BY <2>2 DEF Gotten
<1> HIDE DEF before, after
<1>5. AppTypes' /\ FileWhole(db') /\ created \in Nat
  <2>1. DOMAIN tx' = Clients /\ tx' = [x \in Clients |-> tx'[x]]
    BY <1>0, <1>1 DEF AppTypes
  <2> QED BY <1>0, <1>2, <2>1 DEF AppTypes, FileWhole, Complete
<1>6. TxsSound'
  <2>1. ASSUME NEW x \in Clients \ {c} PROVE TxSound(tx'[x], db', writer' = x, created')
    <3>1. TxSound(tx[x], db, writer = x, created)
      BY <1>0 DEF TxsSound
    <3>2. (writer = x) = FALSE /\ (writer' = x) = FALSE
      BY <1>1, AppAssumption
    <3>3. TxSound(tx[x], db, FALSE, created)
      BY <3>1, <3>2
    <3>4. IsCreating(tx[x]) => db'.rows[tx[x].call.id].rev = 0
      <4> SUFFICES ASSUME IsCreating(tx[x]) PROVE db'.rows[tx[x].call.id].rev = 0
        OBVIOUS
      <4>1. Creating(tx[x], db, FALSE, created)
        BY <3>3, TxKind DEF IsCreating
      <4> QED BY <1>2, <4>1 DEF Creating, CreateCalls
    <3>5. created <= created
      BY <1>5
    <3>6. TxSound(tx[x], db', FALSE, created)
      BY <1>5, <3>3, <3>4, <3>5, TxStays
    <3> QED BY <1>1, <3>2, <3>6
  <2>2. TxSound(tx'[c], db', writer' = c, created')
    BY <1>1, AppAssumption DEF TxSound
  <2> QED BY <2>1, <2>2 DEF TxsSound
<1>7. Profile(i, v).id = i /\ Profile(i, v).rev = row.rev
  BY <1>2 DEF Profile
<1>8. ASSUME NEW r \in before PROVE NamedBy(r, v, created)
  <2>1. NamedBy(r, db, created)
    BY <1>0 DEF ProfilesNamed, before
  <2>2. CASE r.id = i
    BY <1>2, <2>1, <2>2 DEF NamedBy, before
  <2>3. CASE r.id # i
    <3>1. v.rows[r.id] = db.rows[r.id] /\ v.tools[r.id] = db.tools[r.id]
      BY <1>2, <2>1, <2>3 DEF NamedBy
    <3> QED BY <2>1, <3>1 DEF NamedBy, Profile
  <2> QED BY <2>2, <2>3
<1>9. ASSUME row.rev > 0 PROVE NamedBy(Profile(i, v), v, created)
  BY <1>2, <1>7, <1>9 DEF NamedBy
<1>10. \A r \in after : NamedBy(r, db', created')
  BY <1>4, <1>8, <1>9
<1>11. OneContent(after)
  <2> SUFFICES ASSUME NEW a \in after, NEW b \in after, a.id = b.id, a.rev = b.rev PROVE a = b
    BY DEF OneContent
  <2>1. \A r \in before : r.id = i /\ row.rev > 0 => r.rev # row.rev
    BY <1>2 DEF before
  <2>2. CASE a \in before /\ b \in before
    BY <1>0, <2>2 DEF ProfilesNamed, OneContent, before
  <2>3. CASE a \notin before \/ b \notin before
    BY <1>4, <1>7, <2>1, <2>3
  <2> QED BY <2>2, <2>3
<1>12. CreatesNew(tx', after)
  <2>1. ASSUME NEW x \in Clients, IsCreating(tx'[x])
        PROVE  x # c /\ IsCreating(tx[x]) /\ tx'[x].call.id = tx[x].call.id
    BY <1>1, <1>3, <2>1
  <2>2. CreatesNew(tx, before)
    BY <1>0 DEF ProfilesNamed, before
  <2> QED BY <1>4, <1>7, <2>1, <2>2 DEF CreatesNew
<1>13. ProfilesNamed'
  BY <1>10, <1>11, <1>12 DEF ProfilesNamed, after
<1>14. Unborn'
  BY <1>0, <1>2, <1>5 DEF Unborn
<1> QED BY <1>5, <1>6, <1>13, <1>14 DEF AppInv

\* A bootstrap commits: the schema is complete, and the profiles are as they were.
LEMMA BootCommits ==
  ASSUME AppInv, NEW c \in Clients, End_(c), writer = c, UNCHANGED created, seen' = seen,
         NEW v \in States, Complete(v), v.rows = db.rows, v.tools = db.tools, db' = v
  PROVE  AppInv'
<1>0. AppTypes /\ TxsSound /\ ProfilesNamed /\ Unborn
  BY DEF AppInv
<1> DEFINE before == Gotten(seen, tx)
           after == Gotten(seen', tx')
<1>1. /\ tx' = [tx EXCEPT ![c] = IdleTx] /\ writer' = Nobody
      /\ tx'[c] = IdleTx /\ \A x \in Clients \ {c} : tx'[x] = tx[x]
  BY <1>0 DEF End_, IdleTx, AppTypes
<1>2. ~Holding(IdleTx) /\ ~IsCreating(IdleTx)
  BY DEF Holding, IsCreating, IdleTx
<1>3. \A r \in after : r \in before
  <2> SUFFICES ASSUME NEW r \in after, r \notin seen' PROVE r \in before
    <3>1. \A r \in seen' : r \in before
      BY DEF Gotten
    <3> QED BY <3>1
  <2>1. PICK x \in Clients : Holding(tx'[x]) /\ r = Held(tx'[x])
    BY DEF Gotten
  <2>2. Holding(tx[x]) /\ r = Held(tx[x])
    BY <1>1, <1>2, <2>1
  <2> QED BY <2>2 DEF Gotten
<1> HIDE DEF before, after
<1>4. AppTypes' /\ FileWhole(db') /\ created \in Nat /\ created <= created
  <2>1. DOMAIN tx' = Clients /\ tx' = [x \in Clients |-> tx'[x]]
    BY <1>0, <1>1 DEF AppTypes
  <2> QED BY <1>0, <2>1 DEF AppTypes, FileWhole
<1>5. TxsSound'
  <2>1. ASSUME NEW x \in Clients \ {c} PROVE TxSound(tx'[x], db', writer' = x, created')
    <3>1. TxSound(tx[x], db, writer = x, created)
      BY <1>0 DEF TxsSound
    <3>2. (writer = x) = FALSE /\ (writer' = x) = FALSE
      BY <1>1, AppAssumption
    <3>3. TxSound(tx[x], db, FALSE, created)
      BY <3>1, <3>2
    <3>4. IsCreating(tx[x]) => db'.rows[tx[x].call.id].rev = 0
      <4> SUFFICES ASSUME IsCreating(tx[x]) PROVE db'.rows[tx[x].call.id].rev = 0
        OBVIOUS
      <4>1. Creating(tx[x], db, FALSE, created)
        BY <3>3, TxKind DEF IsCreating
      <4> QED BY <4>1 DEF Creating
    <3>5. TxSound(tx[x], db', FALSE, created)
      BY <1>4, <3>3, <3>4, TxStays
    <3> QED BY <1>1, <3>2, <3>5
  <2>2. TxSound(tx'[c], db', writer' = c, created')
    BY <1>1, AppAssumption DEF TxSound
  <2> QED BY <2>1, <2>2 DEF TxsSound
<1>6. \A r \in after : NamedBy(r, db', created')
  BY <1>0, <1>3 DEF ProfilesNamed, NamedBy, Profile, before
<1>7. OneContent(after)
  BY <1>0, <1>3 DEF ProfilesNamed, OneContent, before
<1>8. CreatesNew(tx', after)
  <2>1. ASSUME NEW x \in Clients, IsCreating(tx'[x])
        PROVE  x # c /\ IsCreating(tx[x]) /\ tx'[x].call.id = tx[x].call.id
    BY <1>1, <1>2, <2>1
  <2>2. CreatesNew(tx, before)
    BY <1>0 DEF ProfilesNamed, before
  <2> QED BY <1>3, <2>1, <2>2 DEF CreatesNew
<1>9. ProfilesNamed'
  BY <1>6, <1>7, <1>8 DEF ProfilesNamed, after
<1>10. Unborn'
  BY <1>0 DEF Unborn
<1> QED BY <1>4, <1>5, <1>9, <1>10 DEF AppInv

LEMMA CommitKeeps ==
  ASSUME AppInv, NEW c \in Clients, Commit(c)
  PROVE  AppInv'
<1> DEFINE old == tx[c]
           mine == writer = c
<1>1. /\ old.at = "tx" /\ old.script = <<>> /\ End_(c) /\ UNCHANGED created
      /\ db' = (IF old.call.kind = "resolve" THEN db ELSE old.view)
      /\ seen' = seen \cup Shown(c)
  BY DEF Commit, In, Script, Call, View_, Bounds_
<1>2. TxSound(old, db, mine, created) /\ AppTypes /\ TxsSound /\ ProfilesNamed /\ FileWhole(db)
  BY DEF AppInv, TxsSound
<1>3. old.view \in States
  BY <1>1, <1>2, TxFields
<1>4. \A r \in Shown(c) : /\ r = Profile(old.call.id, old.view) /\ old.view.rows[old.call.id].rev > 0
                          /\ old.call.kind \in {"create", "update", "resolve"}
  BY DEF Shown, Call, View_, Row
<1>5. \A r \in seen : r \in Gotten(seen, tx)
  BY DEF Gotten
<1>6. created \in Nat /\ \A n \in Nat : n + 1 \in Nat /\ n < n + 1
  BY <1>2 DEF AppTypes
<1> HIDE DEF old, mine
<1>7. ASSUME Resolving(old, mine, created), old.call.kind = "resolve" PROVE AppInv'
  <2>1. UNCHANGED <<db, created>>
    BY <1>1, <1>7
  <2>2. \A r \in Shown(c) : Holding(old) /\ r = Held(old)
    BY <1>1, <1>4, <1>7 DEF Holding, Held
  <2>3. \A r \in seen' : r \in Gotten(seen, tx)
    BY <1>1, <1>5, <2>2 DEF Gotten, old
  <2> QED BY <1>1, <2>1, <2>3, TxEnds
<1>8. ASSUME Booting(old, db, mine), old.call.kind = "boot" PROVE AppInv'
  <2>1. /\ db' = old.view /\ seen' = seen
    BY <1>1, <1>4, <1>8
  <2>2. Complete(old.view) /\ old.view.rows = db.rows /\ old.view.tools = db.tools
    BY <1>1, <1>8 DEF Booting, BootAt, FreshAt, MigrationAt
  <2> QED BY <1>1, <1>3, <1>8, <2>1, <2>2, BootCommits DEF mine, Booting
<1>9. ASSUME Creating(old, db, mine, created), old.call.kind = "create" PROVE AppInv'
  <2>1. mine /\ Differs(old.view, db, old.call.id, RowOf(old.call))
    BY <1>1, <1>9 DEF Creating
  <2>2. old.call.id \in Profiles \cap (1 .. created) /\ RowOf(old.call) \in Rows
    BY <1>9 DEF Creating, CreateCalls, RowOf, Rows
  <2>3. IsCreating(old)
    BY <1>1, <1>9 DEF IsCreating
  <2>4. /\ \A r \in Gotten(seen, tx) : r.id # old.call.id
        /\ \A x \in Clients \ {c} : IsCreating(tx[x]) => tx[x].call.id # old.call.id
    BY <1>2, <2>3 DEF ProfilesNamed, CreatesNew, old
  <2>5. old.view.rows[old.call.id] = RowOf(old.call)
    BY <1>2, <2>1, <2>2 DEF Differs, AppTypes, States
  <2>6. \A r \in seen' : \/ r \in Gotten(seen, tx)
                         \/ r = Profile(old.call.id, old.view) /\ RowOf(old.call).rev > 0
    BY <1>1, <1>4, <1>5, <2>5
  <2> QED BY <1>1, <1>3, <1>9, <2>1, <2>2, <2>4, <2>6, OneRowCommits DEF mine
<1>10. ASSUME Updating(old, db, mine, created), old.call.kind = "update" PROVE AppInv'
  <2>1. /\ mine /\ Differs(old.view, db, old.call.id, RowOf(old.call))
        /\ db.rows[old.call.id].rev = old.call.rev
    BY <1>1, <1>10 DEF Updating
  <2>2. /\ old.call.id \in Profiles \cap (1 .. created) /\ RowOf(old.call) \in Rows
        /\ old.call.rev \in Nat \ {0} /\ RowOf(old.call).rev = old.call.rev + 1
    BY <1>10 DEF Updating, UpdateCalls, RowOf, Rows
  <2>3. \A r \in Gotten(seen, tx) : r.id = old.call.id => r.rev < RowOf(old.call).rev
    <3> SUFFICES ASSUME NEW r \in Gotten(seen, tx), r.id = old.call.id PROVE r.rev < RowOf(old.call).rev
      OBVIOUS
    <3>1. NamedBy(r, db, created)
      BY <1>2 DEF ProfilesNamed
    <3> QED BY <2>1, <2>2, <3>1 DEF NamedBy, Profile
  <2>4. \A x \in Clients \ {c} : IsCreating(tx[x]) => tx[x].call.id # old.call.id
    <3> SUFFICES ASSUME NEW x \in Clients, IsCreating(tx[x]) PROVE tx[x].call.id # old.call.id
      OBVIOUS
    <3>1. Creating(tx[x], db, writer = x, created)
      BY <1>2, TxKind DEF TxsSound, IsCreating
    <3> QED BY <2>1, <2>2, <3>1 DEF Creating
  <2>5. old.view.rows[old.call.id] = RowOf(old.call)
    BY <1>2, <2>1, <2>2 DEF Differs, AppTypes, States
  <2>6. \A r \in seen' : \/ r \in Gotten(seen, tx)
                         \/ r = Profile(old.call.id, old.view) /\ RowOf(old.call).rev > 0
    BY <1>1, <1>4, <1>5, <2>5
  <2> QED BY <1>1, <1>3, <1>10, <2>1, <2>2, <2>3, <2>4, <2>6, OneRowCommits DEF mine
<1>11. ASSUME Deleting(old, db, mine, created), old.call.kind = "delete" PROVE AppInv'
  <2>1. /\ mine /\ Differs(old.view, db, old.call.id, NoRow)
        /\ db.rows[old.call.id].rev = old.call.rev
    BY <1>1, <1>11 DEF Deleting
  <2>2. /\ old.call.id \in Profiles \cap (1 .. created) /\ NoRow \in Rows /\ NoRow.rev = 0
        /\ old.call.rev \in Nat \ {0}
    BY <1>11 DEF Deleting, DeleteCalls, NoRow, Rows
  <2>3. \A x \in Clients \ {c} : IsCreating(tx[x]) => tx[x].call.id # old.call.id
    <3> SUFFICES ASSUME NEW x \in Clients, IsCreating(tx[x]) PROVE tx[x].call.id # old.call.id
      OBVIOUS
    <3>1. Creating(tx[x], db, writer = x, created)
      BY <1>2, TxKind DEF TxsSound, IsCreating
    <3> QED BY <2>1, <2>2, <3>1 DEF Creating
  <2>4. \A r \in seen' : r \in Gotten(seen, tx)
    BY <1>1, <1>4, <1>5, <1>11
  <2> QED BY <1>1, <1>3, <1>11, <2>1, <2>2, <2>3, <2>4, OneRowCommits DEF mine
<1> QED BY <1>1, <1>2, <1>7, <1>8, <1>9, <1>10, <1>11, TxKind

LEMMA AppKept == AppInv /\ [AppNext]_appVars => AppInv'
<1> SUFFICES ASSUME AppInv, [AppNext]_appVars PROVE AppInv'
  OBVIOUS
<1>1. ASSUME NEW c \in Clients, Abort(c) PROVE AppInv'
  <2>1. \A r \in seen' : r \in Gotten(seen, tx)
    BY <1>1 DEF Abort, Gotten
  <2> QED BY <1>1, <2>1, TxEnds DEF Abort, Bounds_
<1>2. ASSUME NEW c \in Clients, Kill(c) PROVE AppInv'
  <2>1. \A r \in seen' : r \in Gotten(seen, tx)
    BY <1>2 DEF Kill, Gotten
  <2> QED BY <1>2, <2>1, TxEnds DEF Kill
<1>3. CASE UNCHANGED appVars
  <2>1. UNCHANGED <<db, writer, tx, seen, created>>
    BY <1>3 DEF appVars
  <2>2. AppTypes' /\ TxsSound' /\ Unborn' /\ FileWhole(db')
    BY <2>1 DEF AppInv, AppTypes, TxsSound, Unborn
  <2>3. ProfilesNamed'
    BY <2>1 DEF AppInv, ProfilesNamed
  <2> QED BY <2>2, <2>3 DEF AppInv
<1> QED BY <1>1, <1>2, <1>3, BootstrapKeeps, BeginKeeps, StatementKeeps, QueryKeeps, CommitKeeps DEF AppNext

\* Two clients that got a profile under one revision got the same, its tools
\* included, whoever wrote meanwhile and whoever died; and a bootstrap leaves
\* the file as it found it or complete, so that the next one goes through
\* (bootstrap_metadata, update, delete, resolve_for_run).
THEOREM DatabaseStaysSound == AppSpec => []DatabaseSound
<1>1. AppInv => DatabaseSound
  <2> SUFFICES ASSUME AppInv PROVE DatabaseSound
    OBVIOUS
  <2>1. RevisionNamesContent
    BY DEF AppInv, ProfilesNamed, OneContent, Gotten, RevisionNamesContent
  <2>2. BootstrapWhole
    BY DEF AppInv, FileWhole, Complete, BootstrapWhole
  <2> QED BY <2>1, <2>2 DEF DatabaseSound
<1> QED BY <1>1, AppHoldsAtStart, AppKept, PTL DEF AppSpec

-----------------------------------------------------------------------------
(* The credential store. Who works on it holds its lock; the leaves are    *)
(* the keys once they are there, and the aggregate file until then.        *)

KeyMaps == [Names -> Nat \cup {None}]
InStore == {"layout", "copy", "leaf", "replace"}
KeyTypes ==
  /\ legacy \in KeyMaps \cup {None} /\ leaves \in KeyMaps \cup {None} /\ want \in KeyMaps
  /\ clock \in Nat /\ DOMAIN proc = Procs
KeysHeld == \A p \in Procs : proc[p].at \in InStore => lockK = p
Laid == \A p \in Procs : /\ proc[p].at = "copy" => leaves = None
                         /\ proc[p].at \in {"leaf", "replace"} => leaves # None
StoreInv == KeyTypes /\ KeysHeld /\ Laid /\ (leaves = None => legacy # None) /\ View = want

LEMMA NoneIsNoMap == None \notin KeyMaps /\ NoKeys \in KeyMaps
<1>1. Names = Providers \cup 1 .. MaxIds
  BY DEF Names, Ids
<1>2. None \notin KeyMaps
  BY <1>1, StoreAssumption DEF KeyMaps
<1> QED BY <1>2 DEF KeyMaps, NoKeys

LEMMA StoreHoldsAtStart == StoreInit => StoreInv
<1> SUFFICES ASSUME StoreInit PROVE StoreInv
  OBVIOUS
<1>1. PICK keys \in SUBSET Providers : legacy = [n \in Names |-> IF n \in keys THEN 0 ELSE None]
  BY DEF StoreInit
<1>2. legacy \in KeyMaps
  BY <1>1 DEF KeyMaps
<1>3. \A p \in Procs : proc[p].at = "idle"
  BY DEF StoreInit, Idle
<1> QED BY <1>2, <1>3, NoneIsNoMap DEF StoreInit, StoreInv, KeyTypes, KeysHeld, Laid, View, InStore

\* One process moves: what it needs to know is where it goes, and what it
\* made of the keys under the lock.
LEMMA ProcMoves ==
  ASSUME StoreInv, NEW p \in Procs, NEW t, proc' = [proc EXCEPT ![p] = t],
         \/ lockK' = lockK \/ (lockK = None /\ lockK' = p) \/ (lockK = p /\ lockK' = None),
         t.at \in InStore => lockK' = p,
         leaves' = leaves \/ lockK = p,
         t.at = "copy" => leaves' = None, t.at \in {"leaf", "replace"} => leaves' # None,
         legacy' \in KeyMaps \cup {None}, leaves' \in KeyMaps \cup {None}, want' \in KeyMaps, clock' \in Nat,
         leaves' = None => legacy' # None, View' = want'
  PROVE  StoreInv'
<1>1. proc'[p] = t /\ DOMAIN proc' = Procs /\ \A q \in Procs \ {p} : proc'[q] = proc[q]
  BY DEF StoreInv, KeyTypes
<1>2. ASSUME NEW q \in Procs \ {p}, proc'[q].at \in InStore
      PROVE  lockK' = q /\ leaves' = leaves
  <2>1. lockK = q
    BY <1>1, <1>2 DEF StoreInv, KeysHeld
  <2> QED BY <2>1, StoreAssumption
<1>3. KeysHeld'
  BY <1>1, <1>2 DEF KeysHeld
<1>4. \A q \in Procs : (proc'[q].at = "copy" => leaves' = None)
                       /\ (proc'[q].at \in {"leaf", "replace"} => leaves' # None)
  BY <1>1, <1>2 DEF InStore, StoreInv, Laid
<1> QED BY <1>1, <1>3, <1>4 DEF StoreInv, KeyTypes, Laid

\* A step that leaves the keys alone and does not work on the store.
LEMMA ProcLeaves ==
  ASSUME StoreInv, NEW p \in Procs, NEW at, NEW op, Become(p, at, op), at \notin InStore,
         lockK' = lockK \/ (lockK = p /\ lockK' = None),
         UNCHANGED <<legacy, leaves, want>>, clock' \in Nat
  PROVE  StoreInv'
<1> DEFINE t == [at |-> at, op |-> op]
<1>1. proc' = [proc EXCEPT ![p] = t] /\ t.at = at
  BY DEF Become
<1> HIDE DEF t
<1>2. /\ legacy \in KeyMaps \cup {None} /\ leaves \in KeyMaps \cup {None} /\ want \in KeyMaps
      /\ View' = want' /\ (leaves = None => legacy # None)
  BY DEF StoreInv, KeyTypes, View
<1> QED BY <1>1, <1>2, ProcMoves DEF InStore

\* An answer gives the locks back.
LEMMA AnswerLeaves ==
  ASSUME StoreInv, NEW p \in Procs, Answer(p), UNCHANGED <<legacy, leaves, want>>, clock' \in Nat
  PROVE  StoreInv'
<1>1. Become(p, "idle", NoOp)
  BY DEF Answer, Become, Idle
<1>2. lockK' = lockK \/ (lockK = p /\ lockK' = None)
  BY DEF Answer, Free
<1> QED BY <1>1, <1>2, ProcLeaves DEF InStore

\* The steps that work on the store itself.
LEMMA MigrationKeeps ==
  ASSUME StoreInv, NEW p \in Procs,
         TakeKeys(p) \/ RemoveLegacy(p) \/ StartMigration(p) \/ CopyLeaf(p) \/ PublishLeaves(p) \/ WriteTemporary(p)
  PROVE  StoreInv'
<1>1. /\ legacy \in KeyMaps \cup {None} /\ leaves \in KeyMaps \cup {None} /\ want \in KeyMaps
      /\ clock \in Nat /\ DOMAIN proc = Procs /\ View = want /\ (leaves = None => legacy # None)
      /\ (proc[p].at \in InStore => lockK = p) /\ (proc[p].at = "copy" => leaves = None)
      /\ (proc[p].at \in {"leaf", "replace"} => leaves # None)
  BY DEF StoreInv, KeyTypes, KeysHeld, Laid
<1>2. ASSUME NEW at, Goto(p, at) PROVE \E t : proc' = [proc EXCEPT ![p] = t] /\ t.at = at
  <2>1. [at |-> at, op |-> Op(p)].at = at
    OBVIOUS
  <2> QED BY <1>2, <2>1 DEF Goto, Become
<1>3. CASE TakeKeys(p)
  <2>1. CASE lockK # None
    BY <1>1, <1>3, <2>1, AnswerLeaves DEF TakeKeys, Files, Rest
  <2>2. CASE lockK = None
    <3>1. PICK t : proc' = [proc EXCEPT ![p] = t] /\ t.at = "layout"
      BY <1>2, <1>3, <2>2 DEF TakeKeys
    <3>2. lockK' = p /\ UNCHANGED <<legacy, leaves, want, clock>>
      BY <1>3, <2>2 DEF TakeKeys, Files, Rest
    <3> QED BY <1>1, <2>2, <3>1, <3>2, ProcMoves DEF View
  <2> QED BY <2>1, <2>2
<1>4. CASE RemoveLegacy(p)
  <2>1. PICK t : proc' = [proc EXCEPT ![p] = t] /\ t.at = "leaf"
    BY <1>2, <1>4 DEF RemoveLegacy
  <2>2. leaves # None /\ legacy' = None /\ UNCHANGED <<lockK, leaves, want, clock>> /\ proc[p].at \in InStore
    BY <1>4 DEF RemoveLegacy, At, InStore, Rest
  <2> QED BY <1>1, <2>1, <2>2, ProcMoves DEF View
<1>5. CASE StartMigration(p)
  <2>1. leaves = None /\ legacy # None /\ UNCHANGED <<lockK, leaves, legacy, want, clock>> /\ proc[p].at \in InStore
    BY <1>1, <1>5 DEF StartMigration, At, InStore, Rest
  <2>2. PICK t : proc' = [proc EXCEPT ![p] = t] /\ t.at = "copy"
    BY <1>2, <1>5, <2>1 DEF StartMigration
  <2> QED BY <1>1, <2>1, <2>2, ProcMoves DEF View
<1>6. CASE CopyLeaf(p)
  <2>1. UNCHANGED <<proc, lockK, leaves, legacy, want, clock>>
    BY <1>6 DEF CopyLeaf, Rest
  <2> QED BY <2>1 DEF StoreInv, KeyTypes, KeysHeld, Laid, View
<1>7. CASE PublishLeaves(p)
  <2>1. PICK t : proc' = [proc EXCEPT ![p] = t] /\ t.at = "layout"
    BY <1>2, <1>7 DEF PublishLeaves
  <2>2. /\ leaves' = legacy /\ UNCHANGED <<lockK, legacy, want, clock>> /\ proc[p].at = "copy"
        /\ proc[p].at \in InStore
    BY <1>7 DEF PublishLeaves, At, InStore, Rest
  <2> QED BY <1>1, <2>1, <2>2, ProcMoves DEF View
<1>8. CASE WriteTemporary(p)
  <2>1. PICK t : proc' = [proc EXCEPT ![p] = t] /\ t.at = "replace"
    BY <1>2, <1>8 DEF WriteTemporary
  <2>2. UNCHANGED <<lockK, legacy, leaves, want, clock>> /\ proc[p].at = "leaf" /\ proc[p].at \in InStore
    BY <1>8 DEF WriteTemporary, HasLeaf, At, InStore, Rest
  <2> QED BY <1>1, <2>1, <2>2, ProcMoves DEF View
<1> QED BY <1>3, <1>4, <1>5, <1>6, <1>7, <1>8

\* What is written or removed is what the store is told.
LEMMA LeafKeeps ==
  ASSUME StoreInv, NEW p \in Procs, ReplaceLeaf(p) \/ RemoveLeaf(p)
  PROVE  StoreInv'
<1>1. /\ legacy \in KeyMaps \cup {None} /\ leaves \in KeyMaps /\ want = leaves /\ clock \in Nat /\ lockK = p
  <2>1. proc[p].at \in {"leaf", "replace"} /\ proc[p].at \in InStore
    BY DEF ReplaceLeaf, RemoveLeaf, HasLeaf, At, InStore
  <2> QED BY <2>1 DEF StoreInv, KeyTypes, KeysHeld, Laid, View
<1>2. ASSUME NEW n, NEW v \in Nat \cup {None}, leaves' = [leaves EXCEPT ![n] = v], want' = [want EXCEPT ![n] = v]
      PROVE  leaves' \in KeyMaps /\ leaves' # None /\ want' \in KeyMaps /\ View' = want'
  <2>1. leaves' \in KeyMaps /\ want' = leaves'
    BY <1>1, <1>2 DEF KeyMaps
  <2> QED BY <2>1, NoneIsNoMap DEF View
<1>3. leaves' \in KeyMaps /\ leaves' # None /\ want' \in KeyMaps /\ View' = want' /\ UNCHANGED <<legacy, clock>>
  BY <1>1, <1>2 DEF ReplaceLeaf, RemoveLeaf, Rest
<1>4. \E t : /\ proc' = [proc EXCEPT ![p] = t] /\ t.at \notin InStore
             /\ lockK' = lockK \/ (lockK = p /\ lockK' = None)
  <2>1. CASE Answer(p)
    BY <2>1 DEF Answer, Idle, Free, InStore
  <2>2. ASSUME NEW at \in {"publish", "keys"}, NEW op, Become(p, at, op), lockK' = None
        PROVE  \E t : /\ proc' = [proc EXCEPT ![p] = t] /\ t.at \notin InStore
                      /\ lockK' = lockK \/ (lockK = p /\ lockK' = None)
    <3>1. [at |-> at, op |-> op].at = at
      OBVIOUS
    <3> QED BY <1>1, <2>2, <3>1 DEF Become, InStore
  <2>3. ~Answer(p) => \E at \in {"publish", "keys"} : \E op : Become(p, at, op) /\ lockK' = None
    BY DEF ReplaceLeaf, RemoveLeaf
  <2> QED BY <2>1, <2>2, <2>3
<1> QED BY <1>1, <1>3, <1>4, ProcMoves DEF InStore

\* All the others read the keys, or have nothing to do with them.
LEMMA OtherStepsKeep ==
  ASSUME StoreInv, NEW p \in Procs,
         \/ Begin(p) \/ Connect(p) \/ ReadKey(p) \/ CheckKey(p) \/ ListKeys(p)
         \/ Load(p) \/ Return(p) \/ Publish(p) \/ Fail(p) \/ Crash(p)
  PROVE  StoreInv'
<1>1. UNCHANGED <<legacy, leaves, want>>
  BY DEF Begin, Connect, ReadKey, CheckKey, ListKeys, Load, Return, Publish, Fail, Crash, Files
<1>2. clock \in Nat /\ clock' \in Nat
  <2>1. clock' \in {clock, clock + 1}
    BY DEF Begin, Connect, ReadKey, CheckKey, ListKeys, Load, Return, Publish, Fail, Crash, Rest
  <2> QED BY <2>1 DEF StoreInv, KeyTypes
<1>3. proc[p].at = "leaf" => lockK = p
  BY DEF StoreInv, KeysHeld, InStore
<1>4. ~Answer(p) =>
        \E at \in {"connect", "keys", "publish", "network", "load"} : \E op :
            Become(p, at, op) /\ (lockK' = lockK \/ (lockK = p /\ lockK' = None))
  <2>1. CASE Begin(p)
    BY <2>1 DEF Begin
  <2>2. CASE Connect(p)
    BY <2>2 DEF Connect
  <2>3. CASE ReadKey(p) \/ CheckKey(p) \/ ListKeys(p)
    BY <1>3, <2>3 DEF ReadKey, CheckKey, ListKeys, HasLeaf, At
  <2>4. CASE Load(p) \/ Return(p) \/ Publish(p) \/ Fail(p) \/ Crash(p)
    BY <2>4 DEF Load, Return, Publish, Fail, Crash
  <2> QED BY <2>1, <2>2, <2>3, <2>4
<1>5. CASE Answer(p)
  BY <1>1, <1>2, <1>5, AnswerLeaves
<1>6. CASE ~Answer(p)
  BY <1>1, <1>2, <1>4, <1>6, ProcLeaves DEF InStore
<1> QED BY <1>5, <1>6

LEMMA StoreKept == StoreInv /\ [StoreNext]_storeVars => StoreInv'
<1>1. CASE UNCHANGED storeVars
  BY <1>1 DEF storeVars, StoreInv, KeyTypes, KeysHeld, Laid, View
<1> QED BY <1>1, MigrationKeeps, LeafKeeps, OtherStepsKeep DEF StoreNext, Step

\* The store shows what it was last told to hold, wherever the process dies
\* that moves the keys from the aggregate file to the leaves
\* (ensure_current_layout_unlocked).
THEOREM NoKeyIsLost == StoreSpec => []StoreKeepsLast
<1>1. StoreInv => StoreKeepsLast
  BY DEF StoreInv, StoreKeepsLast
<1> QED BY <1>1, StoreHoldsAtStart, StoreKept, PTL DEF StoreSpec

-----------------------------------------------------------------------------
(* The connections. A name is cleared of its key before a connection takes  *)
(* it, under the lock of the document, and whoever sets a key holds that    *)
(* lock too: so the key of a name is never older than a connection that has *)
(* or had the name, be it in the document, in an adapter or in a request    *)
(* that is on its way.                                                      *)

Conns == [id : Nat, rev : Nat, prov : Providers \cup {None}, url : Urls \cup {None},
          models : {None, "given"} \cup Urls, bind : Nat]
KeyFits(c, w, k) == /\ c.prov \in Providers /\ c.bind <= k
                    /\ w[c.prov] # None => w[c.prov] >= c.bind

\* The document: identities are unique, models belong to the endpoint.
DocFits(d, w, n, k) ==
  /\ d \subseteq Conns
  /\ \A c \in d : c.id <= n /\ c.models \in {None, "given", c.url} /\ KeyFits(c, w, k)
  /\ \A a, b \in d : a.id = b.id => a = b

\* What a request knows of the connection it names.
Knows(op, d, n) ==
  /\ op.conn.id <= n
  /\ \A c \in d : c.id = op.conn.id =>
       /\ op.conn.rev <= c.rev
       /\ op.conn.rev = c.rev => op.conn.bind = c.bind /\ (op.kind # "update" => op.conn.url = c.url)
HeldIn(c, d) == \E x \in d : x.id = c.id /\ x.rev = c.rev

\* Places after the lock of the document was tried, and the requests that
\* keep it.
Under == {"keys", "layout", "copy", "leaf", "replace", "publish"}
Keeping == Setting \cup Removing \cup {"discovered"}

\* The lock is kept until the change is made: the name that is taken has been
\* cleared, or is about to be.
ChangeFits(t, d, w) ==
  LET op == t.op
      clearing == t.at # "publish" /\ Head(op.left) = op.conn.prov
      cleared == w[op.conn.prov] = None
  IN  /\ op.kind = "create" => clearing \/ cleared
      /\ op.kind = "update" =>
           /\ HeldIn(op.conn, d)
           /\ (\E c \in d : c.id = op.conn.id /\ c.prov # op.conn.prov) => clearing \/ cleared
      /\ op.kind = "discovered" => HeldIn(op.conn, d)

\* The leaf a request reads: that of the name, or of the identity.
ReadsOwn(op) == op.left = <<op.conn.prov>> \/ \E i \in Ids : op.left = <<i>>

Shaped(t) ==
  /\ t = [at |-> t.at, op |-> t.op]
  /\ t.op = [kind |-> t.op.kind, conn |-> t.op.conn, left |-> t.op.left, got |-> t.op.got, seen |-> t.op.seen]
  /\ t.op.conn \in Conns
RequestFits(t, d, w, n, k) ==
  /\ Shaped(t)
  /\ t.at = "connect" => t.op.kind \in Keeping \cup {"discover"}
  /\ t.at = "replace" => t.op.kind \in Setting
  /\ t.at = "publish" => t.op.kind \in {"create", "update", "delete", "discovered"}
  /\ t.at = "network" => t.op.kind \in {"discover", "read"}
  /\ t.op.kind \in {"create", "update"} => t.op.conn.prov \in Providers
  /\ t.op.kind = "create" => t.op.conn.models \in {None, "given"}
  /\ t.op.kind \in {"discover", "discovered", "check", "read"} => KeyFits(t.op.conn, w, k)
  /\ t.op.kind \in {"update", "discover", "discovered"} => Knows(t.op, d, n)
  /\ t.op.kind \in {"check", "read"} \/ (t.op.kind = "discover" /\ t.at # "connect") => ReadsOwn(t.op)
  /\ t.at = "network" /\ Head(t.op.left) \in Providers => t.op.got \in Nat /\ t.op.got >= t.op.conn.bind
  /\ t.at \in Under => ChangeFits(t, d, w)

OwnInv ==
  /\ ids \in Nat /\ DOMAIN adapters = Procs /\ DocFits(doc, want, ids, clock)
  /\ \A p \in Procs : RequestFits(proc[p], doc, want, ids, clock)
  /\ \A p \in Procs : proc[p].at \in Under /\ proc[p].op.kind \in Keeping => lockC = p
  /\ \A p \in Procs : \A a \in adapters[p] :
       a.conn \in Conns /\ KeyFits(a.conn, want, clock) /\ a.leaf \in {a.conn.prov} \cup Ids

\* What may become of the keys and of the document in a step.
WantMoves(w, v, k) == \A n \in Names : v[n] = w[n] \/ v[n] = None \/ v[n] = k
DocMoves(d, e, n) == \A c \in e : c.id <= n => \E x \in d : x.id = c.id /\ (c = x \/ x.rev < c.rev)

LEMMA KeyFitsOnward ==
  ASSUME NEW c, c.bind \in Nat, NEW k \in Nat, NEW m \in Nat, k <= m, NEW w \in KeyMaps, NEW v \in KeyMaps,
         WantMoves(w, v, k), KeyFits(c, w, k)
  PROVE  KeyFits(c, v, m)
<1>1. c.prov \in Names /\ w[c.prov] \in Nat \cup {None}
  BY DEF KeyFits, Names, KeyMaps
<1>2. v[c.prov] = w[c.prov] \/ v[c.prov] = None \/ v[c.prov] = k
  BY <1>1 DEF WantMoves
<1> QED BY <1>1, <1>2 DEF KeyFits

LEMMA KnowsOnward ==
  ASSUME NEW op, op.conn \in Conns, NEW d \in SUBSET Conns, NEW e \in SUBSET Conns, NEW n \in Nat, NEW m \in Nat,
         n <= m, DocMoves(d, e, n), Knows(op, d, n)
  PROVE  Knows(op, e, m)
<1>1. op.conn.id \in Nat /\ op.conn.rev \in Nat /\ op.conn.id <= n
  BY DEF Conns, Knows
<1>2. ASSUME NEW c \in e, c.id = op.conn.id
      PROVE  /\ op.conn.rev <= c.rev
             /\ op.conn.rev = c.rev => op.conn.bind = c.bind /\ (op.kind # "update" => op.conn.url = c.url)
  <2>1. PICK x \in d : x.id = c.id /\ (c = x \/ x.rev < c.rev)
    BY <1>1, <1>2 DEF DocMoves
  <2>2. x.rev \in Nat /\ c.rev \in Nat
    BY DEF Conns
  <2> QED BY <1>1, <1>2, <2>1, <2>2 DEF Knows
<1> QED BY <1>1, <1>2 DEF Knows

\* A request that does not hold the lock is not disturbed by one that does.
LEMMA RequestStays ==
  ASSUME NEW t, NEW d \in SUBSET Conns, NEW e \in SUBSET Conns, NEW w \in KeyMaps, NEW v \in KeyMaps,
         NEW n \in Nat, NEW m \in Nat, n <= m, NEW k \in Nat, NEW l \in Nat, k <= l,
         WantMoves(w, v, k), DocMoves(d, e, n),
         t.at \in Under /\ t.op.kind \in Keeping => e = d /\ v = w,
         RequestFits(t, d, w, n, k)
  PROVE  RequestFits(t, e, v, m, l)
<1>1. Shaped(t) /\ t.op.conn \in Conns /\ t.op.conn.bind \in Nat
  BY DEF RequestFits, Shaped, Conns
<1>2. KeyFits(t.op.conn, w, k) => KeyFits(t.op.conn, v, l)
  BY <1>1, KeyFitsOnward
<1>3. Knows(t.op, d, n) => Knows(t.op, e, m)
  BY <1>1, KnowsOnward
<1>4. t.at \in Under => ChangeFits(t, e, v)
  <2>1. t.at \in Under => ChangeFits(t, d, w)
    BY DEF RequestFits
  <2>2. t.op.kind \notin Keeping => ChangeFits(t, e, v)
    BY DEF ChangeFits, Keeping, Removing
  <2> QED BY <2>1, <2>2
<1> QED BY <1>1, <1>2, <1>3, <1>4 DEF RequestFits

\* A step of one process.
LEMMA OwnMoves ==
  ASSUME StoreInv, OwnInv, NEW p \in Procs, NEW t, proc' = [proc EXCEPT ![p] = t],
         RequestFits(t, doc', want', ids', clock'), DocFits(doc', want', ids', clock'),
         want' \in KeyMaps, WantMoves(want, want', clock), DocMoves(doc, doc', ids),
         ids' \in Nat, ids <= ids', clock' \in Nat, clock <= clock',
         (doc' = doc /\ want' = want) \/ lockC = p,
         lockC' = lockC \/ (lockC = None /\ lockC' = p) \/ (lockC = p /\ lockC' = None),
         t.at \in Under /\ t.op.kind \in Keeping => lockC' = p,
         DOMAIN adapters' = Procs,
         \A q \in Procs : adapters'[q] = adapters[q] \/
           \A a \in adapters'[q] : a.conn \in Conns /\ KeyFits(a.conn, want', clock') /\ a.leaf \in {a.conn.prov} \cup Ids
  PROVE  OwnInv'
<1>1. proc'[p] = t /\ \A q \in Procs \ {p} : proc'[q] = proc[q]
  BY DEF StoreInv, KeyTypes
<1>2. want \in KeyMaps /\ clock \in Nat /\ ids \in Nat /\ doc \in SUBSET Conns /\ doc' \in SUBSET Conns
  BY DEF StoreInv, KeyTypes, OwnInv, DocFits
<1>3. ASSUME NEW q \in Procs \ {p}, proc[q].at \in Under, proc[q].op.kind \in Keeping
      PROVE  doc' = doc /\ want' = want /\ lockC' = q
  <2>1. lockC = q
    BY <1>3 DEF OwnInv
  <2> QED BY <2>1, StoreAssumption
<1>4. ASSUME NEW q \in Procs PROVE RequestFits(proc'[q], doc', want', ids', clock')
  <2>1. CASE q = p
    BY <1>1, <2>1
  <2>2. CASE q # p
    <3>1. RequestFits(proc[q], doc, want, ids, clock)
      BY DEF OwnInv
    <3>2. RequestFits(proc[q], doc', want', ids', clock')
      BY <1>2, <1>3, <2>2, <3>1, RequestStays
    <3> QED BY <1>1, <2>2, <3>2
  <2> QED BY <2>1, <2>2
<1>5. \A q \in Procs : proc'[q].at \in Under /\ proc'[q].op.kind \in Keeping => lockC' = q
  BY <1>1, <1>3
<1>6. \A q \in Procs : \A a \in adapters'[q] :
        a.conn \in Conns /\ KeyFits(a.conn, want', clock') /\ a.leaf \in {a.conn.prov} \cup Ids
  <2> SUFFICES ASSUME NEW q \in Procs, adapters'[q] = adapters[q], NEW a \in adapters[q]
               PROVE  a.conn \in Conns /\ KeyFits(a.conn, want', clock') /\ a.leaf \in {a.conn.prov} \cup Ids
    OBVIOUS
  <2>1. a.conn \in Conns /\ KeyFits(a.conn, want, clock) /\ a.leaf \in {a.conn.prov} \cup Ids
    BY DEF OwnInv
  <2>2. a.conn.bind \in Nat
    BY <2>1 DEF Conns
  <2> QED BY <1>2, <2>1, <2>2, KeyFitsOnward
<1> QED BY <1>4, <1>5, <1>6 DEF OwnInv

\* A step that changes neither document nor keys.
LEMMA OwnGoes ==
  ASSUME StoreInv, OwnInv, NEW p \in Procs, NEW at, NEW op, Become(p, at, op), UNCHANGED <<doc, want, ids, clock>>,
         RequestFits([at |-> at, op |-> op], doc, want, ids, clock),
         lockC' = lockC \/ (lockC = None /\ lockC' = p) \/ (lockC = p /\ lockC' = None),
         at \in Under /\ op.kind \in Keeping => lockC' = p,
         adapters' = adapters
  PROVE  OwnInv'
<1> DEFINE t == [at |-> at, op |-> op]
<1>1. proc' = [proc EXCEPT ![p] = t] /\ t.at = at /\ t.op = op /\ RequestFits(t, doc, want, ids, clock)
  BY DEF Become
<1> HIDE DEF t
<1>2. /\ DocFits(doc, want, ids, clock) /\ ids \in Nat /\ clock \in Nat /\ DOMAIN adapters = Procs
      /\ ids <= ids /\ clock <= clock /\ want \in KeyMaps
  BY DEF StoreInv, KeyTypes, OwnInv
<1>3. WantMoves(want, want, clock) /\ DocMoves(doc, doc, ids)
  BY DEF WantMoves, DocMoves
<1> QED BY <1>1, <1>2, <1>3, OwnMoves

LEMMA IdleFits ==
  ASSUME NEW d, NEW w, NEW n, NEW k
  PROVE  RequestFits(Idle, d, w, n, k) /\ Idle = [at |-> "idle", op |-> NoOp] /\ NoOp.kind = "none"
<1>1. NoConn \in Conns
  BY DEF NoConn, Conns
<1>2. /\ Idle.at = "idle" /\ Idle.op = NoOp /\ NoOp.kind = "none" /\ NoOp.conn = NoConn
      /\ Idle = [at |-> "idle", op |-> NoOp]
  BY DEF Idle, NoOp
<1>3. Shaped(Idle)
  BY <1>1, <1>2 DEF Shaped, NoOp
<1> QED BY <1>2, <1>3 DEF RequestFits, Under

LEMMA AnswerKeepsOwn ==
  ASSUME StoreInv, OwnInv, NEW p \in Procs, Answer(p), UNCHANGED <<doc, want, ids, clock>>, adapters' = adapters
  PROVE  OwnInv'
<1>1. Become(p, "idle", NoOp) /\ lockC' = Free(lockC, p)
  BY IdleFits DEF Answer, Become
<1>2. RequestFits([at |-> "idle", op |-> NoOp], doc, want, ids, clock)
  BY IdleFits
<1> QED BY <1>1, <1>2, OwnGoes DEF Under, Free

\* The requests as they begin.
LEMMA Requested ==
  ASSUME NEW at, NEW kind, NEW conn \in Conns, NEW left, NEW got, NEW keys, NEW op,
         op = [kind |-> kind, conn |-> conn, left |-> left, got |-> got, seen |-> keys]
  PROVE  /\ op.kind = kind /\ op.conn = conn /\ op.left = left /\ op.got = got /\ op.seen = keys
         /\ Shaped([at |-> at, op |-> op])
         /\ [at |-> at, op |-> op].at = at /\ [at |-> at, op |-> op].op = op
<1> DEFINE t == [at |-> at, op |-> op]
<1>1. op.kind = kind /\ op.conn = conn /\ op.left = left /\ op.got = got /\ op.seen = keys
  OBVIOUS
<1>2. t.at = at /\ t.op = op /\ t = [at |-> t.at, op |-> t.op]
  OBVIOUS
<1> HIDE DEF t
<1>3. Shaped(t)
  BY <1>1, <1>2 DEF Shaped
<1> QED BY <1>1, <1>2, <1>3 DEF t

LEMMA ConnOf ==
  ASSUME NEW prov \in Providers, NEW url \in Urls \cup {None}, NEW models \in {None, "given"}
  PROVE  /\ Conn(prov, url) \in Conns /\ Conn(prov, url).prov = prov
         /\ [Conn(prov, url) EXCEPT !.models = models] \in Conns
         /\ [Conn(prov, url) EXCEPT !.models = models].prov = prov
         /\ [Conn(prov, url) EXCEPT !.models = models].models = models
<1>1. Conn(prov, url) = [id |-> 0, rev |-> 0, prov |-> prov, url |-> url, models |-> None, bind |-> 0]
  <2> DEFINE half == [NoConn EXCEPT !.prov = prov]
  <2>1. half = [id |-> 0, rev |-> 0, prov |-> prov, url |-> None, models |-> None, bind |-> 0]
    BY DEF NoConn
  <2>2. Conn(prov, url) = [half EXCEPT !.url = url]
    BY DEF Conn
  <2> HIDE DEF half
  <2> QED BY <2>1, <2>2
<1> QED BY <1>1 DEF Conns

LEMMA BeginKeepsOwn ==
  ASSUME StoreInv, OwnInv, NEW p \in Procs, Begin(p)
  PROVE  OwnInv'
<1>1. /\ UNCHANGED <<doc, want, ids, clock>> /\ lockC' = lockC /\ adapters' = adapters
      /\ DocFits(doc, want, ids, clock)
  BY DEF Begin, Files, OwnInv
<1>2. ASSUME NEW op, NEW at, Become(p, at, op), RequestFits([at |-> at, op |-> op], doc, want, ids, clock),
             at \in Under => op.kind \notin Keeping
      PROVE  OwnInv'
  BY <1>1, <1>2, OwnGoes
<1>3. ASSUME NEW kind, NEW conn \in Conns, Become(p, "connect", Request(kind, conn)),
             kind \in {"create", "update"} => conn.prov \in Providers,
             kind = "create" => conn.models \in {None, "given"},
             kind \in (Setting \cup Removing \cup {"discover"}),
             kind = "discover" => KeyFits(conn, want, clock),
             kind \in {"update", "discover"} =>
               /\ conn.id <= ids
               /\ \A c \in doc : c.id = conn.id =>
                    /\ conn.rev <= c.rev
                    /\ conn.rev = c.rev => conn.bind = c.bind /\ (kind # "update" => conn.url = c.url)
      PROVE  OwnInv'
  <2> DEFINE op == Request(kind, conn)
             t == [at |-> "connect", op |-> op]
  <2>0. op = [kind |-> kind, conn |-> conn, left |-> <<>>, got |-> 0, seen |-> {}]
    BY DEF Request, RequestOn
  <2>1. op.kind = kind /\ op.conn = conn /\ Shaped(t) /\ t.at = "connect" /\ t.op = op
    BY <2>0, Requested
  <2> HIDE DEF op, t
  <2>2. RequestFits(t, doc, want, ids, clock)
    BY <1>3, <2>1 DEF RequestFits, Knows, Under, Keeping, Setting, Removing
  <2> QED BY <1>2, <1>3, <2>1, <2>2 DEF t, op, Under
<1>4. ASSUME NEW c \in doc
      PROVE  /\ c \in Conns /\ c.prov \in Providers /\ KeyFits(c, want, clock) /\ c.id <= ids /\ c.rev <= c.rev
             /\ \A x \in doc : x.id = c.id => x = c
  <2>1. c \in Conns /\ KeyFits(c, want, clock) /\ c.id <= ids /\ \A x \in doc : x.id = c.id => x = c
    BY <1>1 DEF DocFits
  <2> QED BY <2>1 DEF KeyFits, Conns
<1>5. ASSUME NEW prov \in Providers, NEW url \in Urls, NEW models \in {None, "given"},
             Become(p, "connect", Request("create", [Conn(prov, url) EXCEPT !.models = models]))
      PROVE  OwnInv'
  <2> DEFINE conn == [Conn(prov, url) EXCEPT !.models = models]
  <2>1. conn \in Conns /\ conn.prov = prov /\ conn.models = models
    BY ConnOf
  <2> HIDE DEF conn
  <2>2. Become(p, "connect", Request("create", conn))
    BY <1>5 DEF conn
  <2> QED BY <1>3, <2>1, <2>2 DEF Removing
<1>6. ASSUME NEW c \in doc, NEW prov \in Providers, NEW url \in Urls,
             Become(p, "connect", Request("update", [c EXCEPT !.prov = prov, !.url = url]))
      PROVE  OwnInv'
  <2> DEFINE conn == [c EXCEPT !.prov = prov, !.url = url]
  <2>1. conn \in Conns /\ conn.prov = prov /\ conn.id = c.id /\ conn.rev = c.rev /\ conn.bind = c.bind
    BY <1>4 DEF Conns
  <2> HIDE DEF conn
  <2>2. Become(p, "connect", Request("update", conn))
    BY <1>6 DEF conn
  <2> QED BY <1>3, <1>4, <2>1, <2>2 DEF Removing
<1>7. ASSUME NEW c \in doc, NEW kind \in {"delete", "discover"}, Become(p, "connect", Request(kind, c))
      PROVE  OwnInv'
  BY <1>3, <1>4, <1>7 DEF Removing
<1>8. ASSUME NEW prov \in Providers, NEW kind \in {"set", "unset", "setImage", "unsetImage", "cliSet", "cliUnset"},
             Become(p, "connect", Request(kind, Conn(prov, None)))
      PROVE  OwnInv'
  BY <1>3, <1>8, ConnOf DEF Setting, Removing
<1>9. ASSUME Become(p, "keys", Request("boot", NoConn)) PROVE OwnInv'
  <2> DEFINE op == Request("boot", NoConn)
             t == [at |-> "keys", op |-> op]
  <2>1. NoConn \in Conns
    BY DEF NoConn, Conns
  <2>2. op.kind = "boot" /\ Shaped(t) /\ t.at = "keys" /\ t.op = op
    <3>1. op = [kind |-> "boot", conn |-> NoConn, left |-> <<>>, got |-> 0, seen |-> {}]
      BY DEF Request, RequestOn
    <3> HIDE DEF op
    <3> QED BY <2>1, <3>1, Requested
  <2> HIDE DEF op, t
  <2>3. RequestFits(t, doc, want, ids, clock)
    BY <2>2 DEF RequestFits, ChangeFits
  <2> QED BY <1>2, <1>9, <2>2, <2>3 DEF t, op, Keeping, Setting, Removing
<1>10. ASSUME NEW a \in adapters[p], Become(p, "keys", RequestOn("check", a.conn, <<a.leaf>>))
       PROVE  OwnInv'
  <2> DEFINE op == RequestOn("check", a.conn, <<a.leaf>>)
             t == [at |-> "keys", op |-> op]
  <2>1. a.conn \in Conns /\ KeyFits(a.conn, want, clock) /\ a.leaf \in {a.conn.prov} \cup Ids
    BY DEF OwnInv
  <2>2. op.kind = "check" /\ op.conn = a.conn /\ op.left = <<a.leaf>> /\ Shaped(t) /\ t.at = "keys" /\ t.op = op
    <3>1. op = [kind |-> "check", conn |-> a.conn, left |-> <<a.leaf>>, got |-> 0, seen |-> {}]
      BY DEF RequestOn
    <3> HIDE DEF op
    <3> QED BY <2>1, <3>1, Requested
  <2> HIDE DEF op, t
  <2>3. ReadsOwn(op)
    BY <2>1, <2>2 DEF ReadsOwn
  <2>4. RequestFits(t, doc, want, ids, clock)
    BY <2>1, <2>2, <2>3 DEF RequestFits, ChangeFits
  <2> QED BY <1>2, <1>10, <2>2, <2>4 DEF t, op, Keeping, Setting, Removing
<1> QED
  <2>1. \A c \in doc : c.prov \in Providers
    BY <1>4
  <2> QED BY <1>5, <1>6, <1>7, <1>8, <1>9, <1>10, <2>1 DEF Begin

\* The lock of the document was free, and the document admits the request.
LEMMA ConnectKeepsOwn ==
  ASSUME StoreInv, OwnInv, NEW p \in Procs, Connect(p)
  PROVE  OwnInv'
<1> DEFINE op == Op(p)
           left == Subject(op)
           next == [op EXCEPT !.left = left]
           at == IF left = <<>> THEN "publish" ELSE "keys"
           t == [at |-> at, op |-> next]
<1>1. /\ UNCHANGED <<doc, want, ids, clock>> /\ adapters' = adapters /\ proc[p].at = "connect"
      /\ RequestFits(proc[p], doc, want, ids, clock)
  BY DEF Connect, At, Files, Rest, Bounds, OwnInv
<1>2. CASE lockC # None \/ ~Admits(op)
  BY <1>1, <1>2, AnswerKeepsOwn DEF Connect
<1>3. CASE lockC = None /\ Admits(op)
  <2>1. /\ Become(p, at, next) /\ lockC' = (IF op.kind = "discover" THEN None ELSE p)
        /\ lockC = None
    <3>1. ~(lockC # None \/ ~Admits(Op(p)))
      BY <1>3
    <3>2. /\ lockC' = (IF Kind(p) = "discover" THEN None ELSE p)
          /\ Become(p, IF Subject(Op(p)) = <<>> THEN "publish" ELSE "keys", [Op(p) EXCEPT !.left = Subject(Op(p))])
      BY <3>1, Zenon DEF Connect
    <3> QED BY <1>3, <3>2 DEF Kind, Op
  <2>2. /\ op.kind \in Keeping \cup {"discover"} /\ op.conn \in Conns
        /\ op = [kind |-> op.kind, conn |-> op.conn, left |-> op.left, got |-> op.got, seen |-> op.seen]
        /\ op.kind \in {"create", "update"} => op.conn.prov \in Providers
        /\ op.kind = "create" => op.conn.models \in {None, "given"}
        /\ op.kind \in {"discover", "discovered"} => KeyFits(op.conn, want, clock)
        /\ op.kind \in {"update", "discover", "discovered"} => Knows(op, doc, ids)
    BY <1>1 DEF RequestFits, Shaped, Op
  <2> HIDE DEF op, left
  <2>3. /\ next = [kind |-> op.kind, conn |-> op.conn, left |-> left, got |-> op.got, seen |-> op.seen]
    BY <2>2
  <2> HIDE DEF next
  <2>4. /\ next.kind = op.kind /\ next.conn = op.conn /\ next.left = left
        /\ Shaped(t) /\ t.at = at /\ t.op = next
    BY <2>2, <2>3, Requested
  <2>5. left = <<>> => op.kind \in {"create", "update", "delete", "discovered"}
    BY <2>2 DEF left, Subject, Cleared, Keeping, Setting, Removing
  <2>6. op.kind = "discover" => left = <<op.conn.prov>>
    BY DEF left, Subject
  <2>7. ChangeFits(t, doc, want)
    <3>1. CASE op.kind = "create"
      <4>1. left = <<op.conn.prov>>
        BY <3>1 DEF left, Subject, Cleared
      <4> QED BY <2>4, <3>1, <4>1 DEF ChangeFits
    <3>2. CASE op.kind = "update"
      <4>1. HeldIn(op.conn, doc)
        BY <1>3, <3>2 DEF Admits, Holds, HeldIn
      <4>2. Renamed(op) => left = <<op.conn.prov, OldName(op)>>
        BY <3>2 DEF left, Subject, Cleared
      <4>3. Renamed(op) => left # <<>> /\ Head(left) = op.conn.prov
        BY <4>2
      <4>4. (\E c \in doc : c.id = op.conn.id /\ c.prov # op.conn.prov) => at = "keys" /\ Head(left) = op.conn.prov
        BY <4>3 DEF Renamed
      <4> HIDE DEF at
      <4> QED BY <2>4, <3>2, <4>1, <4>4 DEF ChangeFits
    <3>3. CASE op.kind = "discovered"
      <4>1. HeldIn(op.conn, doc)
        BY <1>3, <3>3 DEF Admits, Holds, HeldIn
      <4> QED BY <2>4, <3>3, <4>1 DEF ChangeFits
    <3>4. CASE op.kind \notin {"create", "update", "discovered"}
      BY <2>4, <3>4 DEF ChangeFits
    <3> QED BY <3>1, <3>2, <3>3, <3>4
  <2>8. Knows(op, doc, ids) => Knows(next, doc, ids)
    BY <2>4 DEF Knows
  <2>9. at \in {"publish", "keys"} /\ (at = "publish" => left = <<>>)
    OBVIOUS
  <2>10. op.kind \in Keeping \cup {"discover"} => op.kind \notin {"check", "read"}
    BY DEF Keeping, Setting, Removing
  <2> HIDE DEF t, at
  <2>11. RequestFits(t, doc, want, ids, clock)
    BY <2>2, <2>4, <2>5, <2>6, <2>7, <2>8, <2>9, <2>10 DEF RequestFits, ReadsOwn
  <2>12. RequestFits([at |-> at, op |-> next], doc, want, ids, clock)
    BY <2>11 DEF t
  <2>13. "discover" \notin Keeping
    BY DEF Keeping, Setting, Removing
  <2> QED BY <1>1, <2>1, <2>2, <2>4, <2>12, <2>13, OwnGoes
<1> QED BY <1>2, <1>3

\* On its way through the store a request stays what it is.
LEMMA StoreStepsKeepOwn ==
  ASSUME StoreInv, OwnInv, NEW p \in Procs,
         TakeKeys(p) \/ RemoveLegacy(p) \/ StartMigration(p) \/ CopyLeaf(p) \/ PublishLeaves(p) \/ WriteTemporary(p)
  PROVE  OwnInv'
<1>1. /\ UNCHANGED <<doc, want, ids, clock>> /\ adapters' = adapters
      /\ RequestFits(proc[p], doc, want, ids, clock)
  BY DEF TakeKeys, RemoveLegacy, StartMigration, CopyLeaf, PublishLeaves, WriteTemporary, Files, Rest, Bounds, OwnInv
<1>2. CASE Answer(p)
  BY <1>1, <1>2, AnswerKeepsOwn
<1>3. ASSUME NEW at \in InStore, Goto(p, at), lockC' = lockC, proc[p].at \in Under \ {"publish"},
             at = "replace" => Kind(p) \in Setting
      PROVE  OwnInv'
  <2> DEFINE t == [at |-> at, op |-> Op(p)]
  <2>1. t.at = at /\ t.op = proc[p].op /\ t = [at |-> t.at, op |-> t.op] /\ Become(p, at, Op(p))
    BY <1>3 DEF Goto, Op
  <2>2. at \in Under /\ at \notin {"connect", "publish", "network"}
    BY <1>3 DEF InStore, Under
  <2> HIDE DEF t
  <2>3. ChangeFits(t, doc, want)
    BY <1>1, <1>3, <2>1, <2>2 DEF RequestFits, ChangeFits
  <2>4. Shaped(t)
    BY <1>1, <2>1 DEF RequestFits, Shaped
  <2>5. proc[p].at # "connect"
    BY <1>3 DEF Under
  <2>6. RequestFits(t, doc, want, ids, clock)
    BY <1>1, <1>3, <2>1, <2>2, <2>3, <2>4, <2>5 DEF RequestFits, Kind
  <2>7. Op(p).kind \in Keeping => lockC' = p
    BY <1>3 DEF OwnInv, Op
  <2> QED BY <1>1, <1>3, <2>1, <2>6, <2>7, OwnGoes DEF t
<1>4. CASE CopyLeaf(p)
  <2>1. UNCHANGED <<doc, want, ids, clock, adapters, proc, lockC>>
    BY <1>4 DEF CopyLeaf, Rest, Bounds
  <2> QED BY <2>1 DEF OwnInv
<1>5. CASE ~Answer(p) /\ ~CopyLeaf(p)
  <2>1. \E at \in InStore : /\ Goto(p, at) /\ lockC' = lockC /\ proc[p].at \in Under \ {"publish"}
                            /\ at = "replace" => Kind(p) \in Setting
    BY <1>5 DEF TakeKeys, RemoveLegacy, StartMigration, PublishLeaves, WriteTemporary, At, HasLeaf, InStore, Under
  <2> QED BY <1>3, <2>1
<1> QED BY <1>2, <1>4, <1>5

\* A leaf is set, or removed, under the lock of the document.
LEMMA LeafMovesOwn ==
  ASSUME StoreInv, OwnInv, NEW p \in Procs, NEW n, NEW key \in {None, clock}, want' = [want EXCEPT ![n] = key],
         UNCHANGED <<doc, ids, clock>>, adapters' = adapters, NEW t, proc' = [proc EXCEPT ![p] = t],
         RequestFits(t, doc, want', ids, clock), lockC = p, lockC' \in {p, None},
         t.at \in Under /\ t.op.kind \in Keeping => lockC' = p
  PROVE  OwnInv'
<1>1. /\ want \in KeyMaps /\ clock \in Nat /\ ids \in Nat /\ DOMAIN adapters = Procs
      /\ DocFits(doc, want, ids, clock) /\ clock <= clock /\ ids <= ids
  BY DEF StoreInv, KeyTypes, OwnInv
<1>2. want' \in KeyMaps /\ WantMoves(want, want', clock)
  BY <1>1 DEF KeyMaps, WantMoves
<1>3. DocFits(doc, want', ids, clock)
  <2>1. ASSUME NEW c \in doc PROVE KeyFits(c, want', clock)
    <3>1. c.bind \in Nat /\ KeyFits(c, want, clock)
      BY <1>1 DEF DocFits, Conns
    <3> QED BY <1>1, <1>2, <3>1, KeyFitsOnward
  <2> QED BY <1>1, <2>1 DEF DocFits
<1>4. DocMoves(doc, doc, ids)
  BY DEF DocMoves
<1> QED BY <1>1, <1>2, <1>3, <1>4, OwnMoves

LEMMA ReplaceLeafKeepsOwn ==
  ASSUME StoreInv, OwnInv, NEW p \in Procs, ReplaceLeaf(p)
  PROVE  OwnInv'
<1>1. /\ proc[p].at = "replace" /\ RequestFits(proc[p], doc, want, ids, clock)
      /\ want' = [want EXCEPT ![Head(Op(p).left)] = clock] /\ UNCHANGED <<doc, ids, clock>> /\ adapters' = adapters
      /\ proc' = [proc EXCEPT ![p] = Idle] /\ lockC' = Free(lockC, p)
  BY DEF ReplaceLeaf, At, Answer, Rest, Bounds, OwnInv
<1>2. lockC = p /\ lockC' \in {p, None}
  BY <1>1 DEF RequestFits, OwnInv, Under, Keeping, Free
<1>3. RequestFits(Idle, doc, want', ids, clock) /\ Idle.at \notin Under
  BY IdleFits DEF Under
<1> QED BY <1>1, <1>2, <1>3, LeafMovesOwn

LEMMA RemoveLeafKeepsOwn ==
  ASSUME StoreInv, OwnInv, NEW p \in Procs, RemoveLeaf(p)
  PROVE  OwnInv'
<1> DEFINE op == Op(p)
           left == Tail(op.left)
           next == [op EXCEPT !.left = left]
           at == IF left = <<>> THEN "publish" ELSE "keys"
           t == [at |-> at, op |-> next]
<1>1. /\ proc[p].at = "leaf" /\ proc[p].op = op /\ op.kind \in Removing
      /\ RequestFits(proc[p], doc, want, ids, clock)
      /\ want' = [want EXCEPT ![Head(op.left)] = None] /\ UNCHANGED <<doc, ids, clock>> /\ adapters' = adapters
  BY DEF RemoveLeaf, HasLeaf, At, Rest, Bounds, OwnInv, Op, Kind
<1>2. lockC = p /\ want \in KeyMaps
  BY <1>1 DEF OwnInv, Under, Keeping, StoreInv, KeyTypes
<1>3. CASE Answer(p)
  <2>1. proc' = [proc EXCEPT ![p] = Idle] /\ lockC' \in {p, None}
    BY <1>2, <1>3 DEF Answer, Free
  <2>2. RequestFits(Idle, doc, want', ids, clock) /\ Idle.at \notin Under
    BY IdleFits DEF Under
  <2> QED BY <1>1, <1>2, <2>1, <2>2, LeafMovesOwn
<1>4. CASE ~Answer(p)
  <2>1. proc' = [proc EXCEPT ![p] = t] /\ lockC' = lockC /\ op.kind \notin {"unset", "unsetImage", "cliUnset"}
    <3>1. ~(Kind(p) \in {"unset", "unsetImage", "cliUnset"})
      BY <1>4, Zenon DEF RemoveLeaf
    <3>2. UNCHANGED lockC /\ Become(p, IF Tail(Op(p).left) = <<>> THEN "publish" ELSE "keys",
                                    [Op(p) EXCEPT !.left = Tail(Op(p).left)])
      BY <3>1, Zenon DEF RemoveLeaf
    <3> QED BY <3>1, <3>2 DEF Become, Kind, Op
  <2>2. /\ op.kind \in {"create", "update", "delete"} /\ op.conn \in Conns
        /\ op = [kind |-> op.kind, conn |-> op.conn, left |-> op.left, got |-> op.got, seen |-> op.seen]
        /\ op.kind \in {"create", "update"} => op.conn.prov \in Providers
        /\ op.kind = "create" => op.conn.models \in {None, "given"}
        /\ op.kind = "update" => Knows(op, doc, ids)
        /\ ChangeFits(proc[p], doc, want)
    BY <1>1, <2>1 DEF RequestFits, Shaped, Under, Removing
  <2> HIDE DEF op, left
  <2>3. next = [kind |-> op.kind, conn |-> op.conn, left |-> left, got |-> op.got, seen |-> op.seen]
    BY <2>2
  <2> HIDE DEF next
  <2>4. /\ next.kind = op.kind /\ next.conn = op.conn /\ next.left = left
        /\ Shaped(t) /\ t.at = at /\ t.op = next /\ at \in {"publish", "keys"}
    BY <2>2, <2>3, Requested
  <2> HIDE DEF t, at
  <2>5. ASSUME op.conn.prov \in Providers, Head(op.left) = op.conn.prov \/ want[op.conn.prov] = None
        PROVE  want'[op.conn.prov] = None
    BY <1>1, <1>2, <2>5 DEF KeyMaps, Names
  <2>6. ChangeFits(t, doc, want')
    <3>1. CASE op.kind = "create"
      <4>1. Head(op.left) = op.conn.prov \/ want[op.conn.prov] = None
        BY <1>1, <2>2, <3>1 DEF ChangeFits
      <4> QED BY <2>2, <2>4, <2>5, <3>1, <4>1 DEF ChangeFits
    <3>2. CASE op.kind = "update"
      <4>1. /\ HeldIn(op.conn, doc)
            /\ (\E c \in doc : c.id = op.conn.id /\ c.prov # op.conn.prov) =>
                 Head(op.left) = op.conn.prov \/ want[op.conn.prov] = None
        BY <1>1, <2>2, <3>2 DEF ChangeFits
      <4> QED BY <2>2, <2>4, <2>5, <3>2, <4>1 DEF ChangeFits
    <3>3. CASE op.kind = "delete"
      BY <2>4, <3>3 DEF ChangeFits
    <3> QED BY <2>2, <3>1, <3>2, <3>3
  <2>7. op.kind = "update" => Knows(next, doc, ids)
    BY <2>2, <2>4 DEF Knows
  <2>8. RequestFits(t, doc, want', ids, clock)
    BY <2>2, <2>4, <2>6, <2>7 DEF RequestFits
  <2> QED BY <1>1, <1>2, <2>1, <2>8, LeafMovesOwn
<1> QED BY <1>3, <1>4

\* A step that only moves the request on.
LEMMA RequestGoesOn ==
  ASSUME StoreInv, OwnInv, NEW p \in Procs, NEW at, NEW kind, NEW got, NEW keys,
         Become(p, at, [kind |-> kind, conn |-> Op(p).conn, left |-> Op(p).left, got |-> got, seen |-> keys]),
         UNCHANGED <<doc, want, ids, clock>>, adapters' = adapters, lockC' = lockC,
         at \in {"keys", "network", "connect", "load"}, proc[p].at \in {"leaf", "network"},
         at = "keys" => kind \in {"read", "boot"}, at = "connect" => kind = "discovered",
         at = "network" => kind \in {"discover", "read"}, at = "load" => kind = "boot",
         kind \in {"discover", "discovered"} => Op(p).kind = "discover",
         kind = "read" => Op(p).kind \in {"check", "read"},
         at = "network" /\ Head(Op(p).left) \in Providers => got \in Nat /\ got >= Op(p).conn.bind
  PROVE  OwnInv'
<1> DEFINE op == [kind |-> kind, conn |-> Op(p).conn, left |-> Op(p).left, got |-> got, seen |-> keys]
           t == [at |-> at, op |-> op]
<1>1. RequestFits(proc[p], doc, want, ids, clock) /\ proc[p].op = Op(p) /\ Op(p).conn \in Conns
  BY DEF OwnInv, Op, RequestFits, Shaped
<1>2. /\ op.kind = kind /\ op.conn = Op(p).conn /\ op.left = Op(p).left /\ op.got = got
      /\ Shaped(t) /\ t.at = at /\ t.op = op
  BY <1>1, Requested
<1>3. Become(p, at, op)
  OBVIOUS
<1> HIDE DEF op, t
<1>4. kind \in {"discover", "discovered"} => Knows(op, doc, ids)
  BY <1>1, <1>2 DEF RequestFits, Knows
<1>5. kind \in {"discover", "discovered", "read"} => KeyFits(op.conn, want, clock)
  BY <1>1, <1>2 DEF RequestFits
<1>6. kind = "read" \/ (kind = "discover" /\ at # "connect") => ReadsOwn(op)
  BY <1>1, <1>2 DEF RequestFits, ReadsOwn
<1>7. kind \in {"read", "boot", "discovered", "discover"}
  OBVIOUS
<1>8. at \in Under => ChangeFits(t, doc, want)
  BY <1>2 DEF ChangeFits, Under
<1>9. RequestFits(t, doc, want, ids, clock)
  BY <1>2, <1>4, <1>5, <1>6, <1>7, <1>8 DEF RequestFits, Keeping
<1>10. at \in Under => kind \notin Keeping
  BY DEF Under, Keeping, Setting, Removing
<1> QED BY <1>2, <1>3, <1>9, <1>10, OwnGoes DEF t

LEMMA ReadingKeepsOwn ==
  ASSUME StoreInv, OwnInv, NEW p \in Procs, ReadKey(p) \/ CheckKey(p) \/ ListKeys(p) \/ Return(p)
  PROVE  OwnInv'
<1> DEFINE op == Op(p)
           key == leaves[Head(op.left)]
<1>1. /\ UNCHANGED <<doc, want, ids, clock>> /\ adapters' = adapters
      /\ RequestFits(proc[p], doc, want, ids, clock) /\ proc[p].op = op /\ proc[p].at \in {"leaf", "network"}
  BY DEF ReadKey, CheckKey, ListKeys, Return, HasLeaf, At, Files, Rest, Bounds, OwnInv, Op
<1>0. op = Op(p)
  OBVIOUS
<1>2. op = [kind |-> op.kind, conn |-> op.conn, left |-> op.left, got |-> op.got, seen |-> op.seen] /\ op.conn \in Conns
  BY <1>1 DEF RequestFits, Shaped
<1> HIDE DEF op
<1>3. CASE Answer(p)
  BY <1>1, <1>3, AnswerKeepsOwn
<1>4. CASE ReadKey(p) /\ ~Answer(p)
  <2>1. /\ key # None /\ lockC' = lockC /\ op.kind \in {"discover", "read"}
        /\ Become(p, "network", [op EXCEPT !.got = key]) /\ proc[p].at = "leaf"
    BY <1>4 DEF ReadKey, HasLeaf, At, Kind, Op, op
  <2>2. leaves = want /\ leaves \in KeyMaps
    BY <2>1 DEF StoreInv, KeyTypes, Laid, View
  <2>3. ReadsOwn(op) /\ KeyFits(op.conn, want, clock)
    BY <1>1, <2>1 DEF RequestFits
  <2>4. ASSUME Head(op.left) \in Providers PROVE key \in Nat /\ key >= op.conn.bind
    <3>1. Head(op.left) = op.conn.prov
      BY <2>3, <2>4, StoreAssumption DEF ReadsOwn, Ids
    <3> QED BY <2>1, <2>2, <2>3, <2>4, <3>1 DEF KeyFits, KeyMaps, Names
  <2> HIDE DEF key
  <2>5. [op EXCEPT !.got = key] = [kind |-> op.kind, conn |-> op.conn, left |-> op.left, got |-> key, seen |-> op.seen]
    BY <1>2
  <2>6. Become(p, "network", [kind |-> op.kind, conn |-> op.conn, left |-> op.left, got |-> key, seen |-> op.seen])
    BY <2>1, <2>5
  <2> QED BY <1>0, <1>1, <2>1, <2>4, <2>6, RequestGoesOn
<1>5. CASE CheckKey(p) /\ ~Answer(p)
  <2>1. /\ lockC' = lockC /\ op.kind = "check" /\ Become(p, "keys", [op EXCEPT !.kind = "read"])
    BY <1>5 DEF CheckKey, Kind, Op, op
  <2>2. [op EXCEPT !.kind = "read"]
          = [kind |-> "read", conn |-> op.conn, left |-> op.left, got |-> op.got, seen |-> op.seen]
    BY <1>2
  <2>3. Become(p, "keys", [kind |-> "read", conn |-> op.conn, left |-> op.left, got |-> op.got, seen |-> op.seen])
    BY <2>1, <2>2
  <2> QED BY <1>0, <1>1, <2>1, <2>3, RequestGoesOn
<1>6. CASE ListKeys(p) /\ ~Answer(p)
  <2> DEFINE keys == {n \in Names : leaves[n] # None}
  <2>1. /\ lockC' = lockC /\ op.kind = "boot" /\ Become(p, "load", [op EXCEPT !.seen = keys])
    BY <1>6 DEF ListKeys, Kind, Op, op
  <2> HIDE DEF keys
  <2>2. [op EXCEPT !.seen = keys]
          = [kind |-> op.kind, conn |-> op.conn, left |-> op.left, got |-> op.got, seen |-> keys]
    BY <1>2
  <2>3. Become(p, "load", [kind |-> op.kind, conn |-> op.conn, left |-> op.left, got |-> op.got, seen |-> keys])
    BY <2>1, <2>2
  <2> QED BY <1>0, <1>1, <2>1, <2>3, RequestGoesOn
<1>7. CASE Return(p) /\ ~Answer(p)
  <2>1. /\ lockC' = lockC /\ op.kind = "discover" /\ Become(p, "connect", [op EXCEPT !.kind = "discovered"])
    BY <1>7 DEF Return, Kind, Op, op
  <2>2. [op EXCEPT !.kind = "discovered"]
          = [kind |-> "discovered", conn |-> op.conn, left |-> op.left, got |-> op.got, seen |-> op.seen]
    BY <1>2
  <2>3. Become(p, "connect",
               [kind |-> "discovered", conn |-> op.conn, left |-> op.left, got |-> op.got, seen |-> op.seen])
    BY <2>1, <2>2
  <2> QED BY <1>0, <1>1, <2>1, <2>3, RequestGoesOn
<1> QED BY <1>3, <1>4, <1>5, <1>6, <1>7

\* A step that leaves the process idle, its adapters built or gone.
LEMMA AdaptersOwn ==
  ASSUME StoreInv, OwnInv, NEW p \in Procs, Answer(p), UNCHANGED <<doc, want, ids, clock>>,
         NEW built, adapters' = [adapters EXCEPT ![p] = built],
         \A a \in built : a.conn \in doc /\ a.leaf \in {a.conn.prov} \cup Ids
  PROVE  OwnInv'
<1>1. proc' = [proc EXCEPT ![p] = Idle] /\ lockC' = Free(lockC, p)
  BY DEF Answer
<1>2. RequestFits(Idle, doc, want, ids, clock) /\ Idle.at \notin Under
  BY IdleFits DEF Under
<1>3. /\ DocFits(doc, want, ids, clock) /\ ids \in Nat /\ clock \in Nat /\ DOMAIN adapters' = Procs
      /\ ids <= ids /\ clock <= clock /\ want \in KeyMaps
  BY DEF StoreInv, KeyTypes, OwnInv
<1>4. WantMoves(want, want, clock) /\ DocMoves(doc, doc, ids)
  BY DEF WantMoves, DocMoves
<1>5. \A a \in built : a.conn \in Conns /\ KeyFits(a.conn, want, clock) /\ a.leaf \in {a.conn.prov} \cup Ids
  BY <1>3 DEF DocFits
<1>6. \A q \in Procs : adapters'[q] = adapters[q] \/
        \A a \in adapters'[q] : a.conn \in Conns /\ KeyFits(a.conn, want', clock') /\ a.leaf \in {a.conn.prov} \cup Ids
  BY <1>5 DEF OwnInv
<1>7. lockC' = lockC \/ (lockC = p /\ lockC' = None)
  BY <1>1 DEF Free
<1> QED BY <1>1, <1>2, <1>3, <1>4, <1>6, <1>7, OwnMoves

LEMMA EndingsKeepOwn ==
  ASSUME StoreInv, OwnInv, NEW p \in Procs, Load(p) \/ Fail(p) \/ Crash(p)
  PROVE  OwnInv'
<1>1. Answer(p) /\ UNCHANGED <<doc, want, ids, clock>>
  BY DEF Load, Fail, Crash, Files, Rest, Bounds
<1>2. CASE adapters' = adapters
  BY <1>1, <1>2, AnswerKeepsOwn
<1>3. CASE Crash(p)
  <2>1. adapters' = [adapters EXCEPT ![p] = {}]
    BY <1>3 DEF Crash
  <2> QED BY <1>1, <2>1, AdaptersOwn
<1>4. CASE Load(p) /\ adapters' # adapters
  <2>1. PICK image \in SUBSET (Ids \cap Op(p).seen) :
          adapters' = [adapters EXCEPT ![p] =
            {[conn |-> c, leaf |-> IF c.id \in image THEN c.id ELSE c.prov] :
                c \in {d \in doc : d.models # None /\ d.prov \in Op(p).seen}}]
    BY <1>4 DEF Load
  <2> DEFINE built == {[conn |-> c, leaf |-> IF c.id \in image THEN c.id ELSE c.prov] :
                         c \in {d \in doc : d.models # None /\ d.prov \in Op(p).seen}}
  <2>2. \A a \in built : a.conn \in doc /\ a.leaf \in {a.conn.prov} \cup Ids
    OBVIOUS
  <2>3. adapters' = [adapters EXCEPT ![p] = built]
    BY <2>1
  <2> HIDE DEF built
  <2> QED BY <1>1, <2>2, <2>3, AdaptersOwn
<1>5. Fail(p) => adapters' = adapters
  BY DEF Fail, Rest
<1> QED BY <1>2, <1>3, <1>4, <1>5

\* What is published: a connection more, one less, or one in a new form.
LEMMA OneReplaced ==
  ASSUME NEW d, NEW w, NEW n, NEW k \in Nat, NEW m \in Nat, k <= m, DocFits(d, w, n, k),
         NEW x \in d, NEW y \in Conns, y.id = x.id, y.rev = x.rev + 1, y.models \in {None, "given", y.url}, KeyFits(y, w, m),
         NEW e, \A c \in e : c = y \/ (c \in d /\ c.id # x.id)
  PROVE  DocFits(e, w, n, m) /\ DocMoves(d, e, n)
<1>1. x \in Conns /\ x.id <= n /\ x.rev < y.rev
  BY DEF DocFits, Conns
<1>2. ASSUME NEW c \in d PROVE KeyFits(c, w, m)
  <2>1. c.bind \in Nat /\ KeyFits(c, w, k)
    BY DEF DocFits, Conns
  <2> QED BY <2>1 DEF KeyFits
<1>3. DocFits(e, w, n, m)
  BY <1>1, <1>2 DEF DocFits
<1>4. DocMoves(d, e, n)
  BY <1>1 DEF DocMoves
<1> QED BY <1>3, <1>4

LEMMA OneAdded ==
  ASSUME NEW d, NEW w, NEW n \in Nat, NEW k \in Nat, DocFits(d, w, n, k),
         NEW y \in Conns, y.id = n + 1, y.models \in {None, "given", y.url}, KeyFits(y, w, k + 1)
  PROVE  DocFits(d \cup {y}, w, n + 1, k + 1) /\ DocMoves(d, d \cup {y}, n)
<1>1. ASSUME NEW c \in d PROVE KeyFits(c, w, k + 1) /\ c.id \in Nat /\ c.id <= n
  <2>1. c.bind \in Nat /\ c.id \in Nat /\ c.id <= n /\ KeyFits(c, w, k)
    BY DEF DocFits, Conns
  <2> QED BY <2>1 DEF KeyFits
<1>2. DocFits(d \cup {y}, w, n + 1, k + 1)
  BY <1>1 DEF DocFits
<1>3. DocMoves(d, d \cup {y}, n)
  BY DEF DocMoves
<1> QED BY <1>2, <1>3

LEMMA ChangedFits ==
  ASSUME StoreInv, OwnInv, NEW p \in Procs, Publish(p)
  PROVE  /\ DocFits(doc', want, ids', clock') /\ DocMoves(doc, doc', ids)
         /\ ids' \in {ids, ids + 1} /\ clock' \in {clock, clock + 1}
<1> DEFINE op == Op(p)
           conn == op.conn
<1>1. /\ RequestFits(proc[p], doc, want, ids, clock) /\ proc[p].at = "publish" /\ proc[p].op = op
      /\ doc' = Changed(op) /\ clock' = (IF Binds(op) THEN clock + 1 ELSE clock)
      /\ ids' = (IF op.kind = "create" THEN ids + 1 ELSE ids)
  BY DEF Publish, At, OwnInv, Op, Kind
<1>2. DocFits(doc, want, ids, clock) /\ ids \in Nat /\ clock \in Nat /\ want \in KeyMaps
  BY DEF OwnInv, StoreInv, KeyTypes
<1>3. conn \in Conns /\ op.kind \in {"create", "update", "delete", "discovered"} /\ ChangeFits(proc[p], doc, want)
  BY <1>1 DEF RequestFits, Shaped, Under
<1>4. ids' \in {ids, ids + 1} /\ clock' \in {clock, clock + 1}
  BY <1>1
<1>5. conn = [id |-> conn.id, rev |-> conn.rev, prov |-> conn.prov, url |-> conn.url,
              models |-> conn.models, bind |-> conn.bind]
  BY <1>3 DEF Conns
<1> HIDE DEF op, conn
<1>6. CASE op.kind = "create"
  <2> DEFINE new == [conn EXCEPT !.id = ids + 1, !.rev = 1, !.bind = clock + 1]
  <2>1. new = [id |-> ids + 1, rev |-> 1, prov |-> conn.prov, url |-> conn.url,
               models |-> conn.models, bind |-> clock + 1]
    <3> DEFINE a == [conn EXCEPT !.id = ids + 1]
               b == [a EXCEPT !.rev = 1]
    <3>1. a = [id |-> ids + 1, rev |-> conn.rev, prov |-> conn.prov, url |-> conn.url,
               models |-> conn.models, bind |-> conn.bind]
      BY <1>5
    <3>2. b = [id |-> ids + 1, rev |-> 1, prov |-> conn.prov, url |-> conn.url,
               models |-> conn.models, bind |-> conn.bind]
      <4> HIDE DEF a
      <4> QED BY <3>1
    <3>3. new = [b EXCEPT !.bind = clock + 1]
      OBVIOUS
    <3> HIDE DEF b, new
    <3> QED BY <3>2, <3>3
  <2>2. conn.prov \in Providers /\ conn.models \in {None, "given"} /\ want[conn.prov] = None
    BY <1>1, <1>3, <1>6 DEF RequestFits, ChangeFits, conn
  <2>3. doc' = doc \cup {new} /\ ids' = ids + 1 /\ clock' = clock + 1
    BY <1>1, <1>6 DEF Changed, Binds, conn
  <2> HIDE DEF new
  <2>4. /\ new \in Conns /\ new.id = ids + 1 /\ new.models \in {None, "given"}
        /\ new.prov = conn.prov /\ new.bind = clock + 1
    BY <1>2, <1>3, <2>1, <2>2 DEF Conns
  <2>5. KeyFits(new, want, clock + 1)
    BY <1>2, <2>2, <2>4 DEF KeyFits
  <2> QED BY <1>2, <1>4, <2>3, <2>4, <2>5, OneAdded
<1>7. CASE op.kind = "update"
  <2>1. PICK x \in doc : x.id = conn.id /\ x.rev = conn.rev
    BY <1>1, <1>3, <1>7 DEF ChangeFits, HeldIn, conn
  <2>2. /\ x \in Conns /\ conn.bind = x.bind /\ KeyFits(x, want, clock) /\ conn.prov \in Providers
        /\ \A c \in doc : c.id = x.id => c = x
    BY <1>1, <1>2, <1>7, <2>1 DEF RequestFits, Knows, DocFits, conn
  <2>3. x.prov # conn.prov => want[conn.prov] = None /\ Binds(op)
    <3> SUFFICES ASSUME x.prov # conn.prov PROVE want[conn.prov] = None /\ Binds(op)
      OBVIOUS
    <3>1. \E c \in doc : c.id = conn.id /\ c.prov # conn.prov
      BY <2>1
    <3> QED BY <1>1, <1>3, <1>7, <3>1 DEF ChangeFits, Binds, Renamed, conn
  <2> DEFINE bind == IF x.prov = conn.prov THEN conn.bind ELSE clock + 1
             new == [conn EXCEPT !.rev = @ + 1, !.models = "given", !.bind = bind]
  <2>4. new = [id |-> conn.id, rev |-> conn.rev + 1, prov |-> conn.prov, url |-> conn.url,
               models |-> "given", bind |-> bind]
    <3> HIDE DEF bind
    <3> DEFINE a == [conn EXCEPT !.rev = @ + 1]
               b == [a EXCEPT !.models = "given"]
    <3>1. a = [id |-> conn.id, rev |-> conn.rev + 1, prov |-> conn.prov, url |-> conn.url,
               models |-> conn.models, bind |-> conn.bind]
      BY <1>5
    <3>2. b = [id |-> conn.id, rev |-> conn.rev + 1, prov |-> conn.prov, url |-> conn.url,
               models |-> "given", bind |-> conn.bind]
      <4> HIDE DEF a
      <4> QED BY <3>1
    <3>3. new = [b EXCEPT !.bind = bind]
      OBVIOUS
    <3> HIDE DEF b, new
    <3> QED BY <3>2, <3>3
  <2>5. ASSUME NEW c \in doc', c \notin doc \/ c.id = x.id
        PROVE  c = new
    <3> DEFINE form(y) == [conn EXCEPT !.rev = @ + 1, !.models = "given",
                                       !.bind = IF y.prov = conn.prov THEN @ ELSE clock + 1]
    <3>1. doc' = {IF y.id # conn.id THEN y ELSE form(y) : y \in doc}
      BY <1>1, <1>7 DEF Changed, conn
    <3>2. form(x) = new
      OBVIOUS
    <3> HIDE DEF form, new
    <3>3. PICK y \in doc : c = IF y.id # conn.id THEN y ELSE form(y)
      BY <3>1
    <3> QED BY <2>1, <2>2, <2>5, <3>2, <3>3
  <2>6. clock' \in Nat /\ clock <= clock' /\ ids' = ids /\ (x.prov # conn.prov => clock' = clock + 1)
    BY <1>1, <1>2, <1>7, <2>3
  <2>7. bind \in Nat /\ bind <= clock' /\ (want[conn.prov] # None => want[conn.prov] >= bind)
    BY <1>2, <2>2, <2>3, <2>6 DEF KeyFits, Conns
  <2> HIDE DEF bind, new
  <2>8. /\ new \in Conns /\ new.id = x.id /\ new.rev = x.rev + 1 /\ new.models = "given"
        /\ new.prov = conn.prov /\ new.bind = bind
    BY <1>3, <2>1, <2>4, <2>7 DEF Conns
  <2>9. KeyFits(new, want, clock')
    BY <2>2, <2>7, <2>8 DEF KeyFits
  <2>10. \A c \in doc' : c = new \/ (c \in doc /\ c.id # x.id)
    BY <2>5
  <2>11. DocFits(doc', want, ids, clock') /\ DocMoves(doc, doc', ids)
    BY <1>2, <2>6, <2>8, <2>9, <2>10, OneReplaced
  <2> QED BY <1>4, <2>6, <2>11
<1>8. CASE op.kind = "discovered"
  <2>1. PICK x \in doc : x.id = conn.id /\ x.rev = conn.rev
    BY <1>1, <1>3, <1>8 DEF ChangeFits, HeldIn, conn
  <2>2. /\ x \in Conns /\ conn.url = x.url /\ KeyFits(x, want, clock)
        /\ \A c \in doc : c.id = x.id => c = x
    BY <1>1, <1>2, <1>8, <2>1 DEF RequestFits, Knows, DocFits, conn
  <2> DEFINE new == [x EXCEPT !.rev = @ + 1, !.models = conn.url]
  <2>3. new = [id |-> x.id, rev |-> x.rev + 1, prov |-> x.prov, url |-> x.url,
               models |-> conn.url, bind |-> x.bind]
    <3> DEFINE a == [x EXCEPT !.rev = @ + 1]
    <3>1. a = [id |-> x.id, rev |-> x.rev + 1, prov |-> x.prov, url |-> x.url,
               models |-> x.models, bind |-> x.bind]
      BY <2>2 DEF Conns
    <3>2. new = [a EXCEPT !.models = conn.url]
      OBVIOUS
    <3> HIDE DEF a, new
    <3> QED BY <3>1, <3>2
  <2>4. ASSUME NEW c \in doc', c \notin doc \/ c.id = x.id
        PROVE  c = new
    <3> DEFINE form(y) == [y EXCEPT !.rev = @ + 1, !.models = conn.url]
    <3>1. doc' = {IF y.id # conn.id THEN y ELSE form(y) : y \in doc}
      BY <1>1, <1>8 DEF Changed, conn
    <3>2. form(x) = new
      OBVIOUS
    <3> HIDE DEF form, new
    <3>3. PICK y \in doc : c = IF y.id # conn.id THEN y ELSE form(y)
      BY <3>1
    <3> QED BY <2>1, <2>2, <2>4, <3>2, <3>3
  <2>5. clock' = clock /\ ids' = ids
    BY <1>1, <1>8 DEF Binds
  <2> HIDE DEF new
  <2>6. /\ new \in Conns /\ new.id = x.id /\ new.rev = x.rev + 1 /\ new.models = new.url
        /\ new.prov = x.prov /\ new.bind = x.bind
    BY <2>2, <2>3 DEF Conns
  <2>7. KeyFits(new, want, clock)
    BY <2>2, <2>6 DEF KeyFits
  <2>8. \A c \in doc' : c = new \/ (c \in doc /\ c.id # x.id)
    BY <2>4
  <2>9. DocFits(doc', want, ids, clock) /\ DocMoves(doc, doc', ids)
    BY <1>2, <2>6, <2>7, <2>8, OneReplaced
  <2> QED BY <1>4, <2>5, <2>9
<1>9. CASE op.kind = "delete"
  <2>1. doc' \subseteq doc /\ clock' = clock /\ ids' = ids
    BY <1>1, <1>9 DEF Changed, Binds
  <2> QED BY <1>2, <1>4, <2>1 DEF DocFits, DocMoves
<1> QED BY <1>3, <1>6, <1>7, <1>8, <1>9

LEMMA PublishKeepsOwn ==
  ASSUME StoreInv, OwnInv, NEW p \in Procs, Publish(p)
  PROVE  OwnInv'
<1>1. /\ DocFits(doc', want, ids', clock') /\ DocMoves(doc, doc', ids)
      /\ ids' \in {ids, ids + 1} /\ clock' \in {clock, clock + 1}
  BY ChangedFits
<1>2. ids \in Nat /\ clock \in Nat /\ want \in KeyMaps /\ want' = want /\ adapters' = adapters /\ DOMAIN adapters = Procs
  BY DEF OwnInv, StoreInv, KeyTypes, Publish, Files
<1>3. lockC = p
  BY DEF OwnInv, Publish, At, RequestFits, Under, Keeping, Removing
<1>4. WantMoves(want, want', clock)
  BY <1>2 DEF WantMoves
<1>5. ASSUME NEW t, proc' = [proc EXCEPT ![p] = t], RequestFits(t, doc', want', ids', clock'),
             t.op.kind \notin Keeping, lockC' \in {p, None}
      PROVE  OwnInv'
  <2>1. /\ DocFits(doc', want', ids', clock') /\ want' \in KeyMaps /\ DOMAIN adapters' = Procs
        /\ ids' \in Nat /\ ids <= ids' /\ clock' \in Nat /\ clock <= clock'
    BY <1>1, <1>2
  <2>2. \A q \in Procs : adapters'[q] = adapters[q]
    BY <1>2
  <2>3. lockC' = lockC \/ (lockC = p /\ lockC' = None)
    BY <1>3, <1>5
  <2> QED BY <1>1, <1>3, <1>4, <1>5, <2>1, <2>2, <2>3, OwnMoves
<1>6. CASE Answer(p)
  <2>1. proc' = [proc EXCEPT ![p] = Idle] /\ lockC' \in {p, None}
    BY <1>3, <1>6 DEF Answer, Free
  <2>2. Idle.op.kind = "none"
    BY DEF Idle, NoOp
  <2>3. RequestFits(Idle, doc', want', ids', clock')
    BY IdleFits
  <2> QED BY <1>5, <2>1, <2>2, <2>3 DEF Keeping, Setting, Removing
<1>7. CASE ~Answer(p)
  <2> DEFINE op == [NoOp EXCEPT !.kind = "list"]
             t == [at |-> "keys", op |-> op]
  <2>1. proc' = [proc EXCEPT ![p] = t] /\ lockC' = None
    <3>1. Become(p, "keys", op) /\ lockC' = None
      BY <1>7, Zenon DEF Publish
    <3> QED BY <3>1, Zenon DEF Become
  <2>2. op = [kind |-> "list", conn |-> NoConn, left |-> <<>>, got |-> 0, seen |-> {}] /\ NoConn \in Conns
    <3>1. op = [kind |-> "list", conn |-> NoConn, left |-> <<>>, got |-> 0, seen |-> {}]
      BY DEF NoOp
    <3>2. NoConn \in Conns
      BY DEF NoConn, Conns
    <3> HIDE DEF op
    <3> QED BY <3>1, <3>2
  <2> HIDE DEF op
  <2>3. op.kind = "list" /\ Shaped(t) /\ t.at = "keys" /\ t.op = op
    BY <2>2, Requested
  <2> HIDE DEF t
  <2>4. RequestFits(t, doc', want', ids', clock')
    BY <2>3 DEF RequestFits, ChangeFits
  <2> QED BY <1>5, <2>1, <2>3, <2>4 DEF Keeping, Setting, Removing
<1> QED BY <1>6, <1>7

LEMMA OwnHoldsAtStart == StoreInit => OwnInv
<1> SUFFICES ASSUME StoreInit PROVE OwnInv
  OBVIOUS
<1>1. \A p \in Procs : proc[p] = Idle /\ adapters[p] = {}
  BY DEF StoreInit
<1>2. doc = {} /\ ids = 0 /\ DOMAIN adapters = Procs
  BY DEF StoreInit
<1>3. DocFits(doc, want, ids, clock)
  BY <1>2 DEF DocFits
<1>4. \A p \in Procs : RequestFits(proc[p], doc, want, ids, clock) /\ proc[p].at \notin Under
  BY <1>1, IdleFits DEF Under
<1> QED BY <1>1, <1>2, <1>3, <1>4 DEF OwnInv

LEMMA OwnKept == StoreInv /\ OwnInv /\ [StoreNext]_storeVars => OwnInv'
<1> SUFFICES ASSUME StoreInv, OwnInv, [StoreNext]_storeVars PROVE OwnInv'
  OBVIOUS
<1>1. ASSUME NEW p \in Procs, Begin(p) \/ Step(p) \/ Fail(p) \/ Crash(p) PROVE OwnInv'
  BY <1>1, BeginKeepsOwn, ConnectKeepsOwn, StoreStepsKeepOwn, ReplaceLeafKeepsOwn, RemoveLeafKeepsOwn,
     ReadingKeepsOwn, EndingsKeepOwn, PublishKeepsOwn DEF Step
<1>2. ASSUME UNCHANGED storeVars PROVE OwnInv'
  BY <1>2 DEF storeVars, OwnInv
<1> QED BY <1>1, <1>2 DEF StoreNext

\* A connection sends no key older than itself and keeps no models of another
\* endpoint (ConnectionsOwn): however many daemons and CLI calls create, rename,
\* delete, discover and set keys, and wherever one of them dies, a key that goes
\* out was set after the connection took its provider ID (perhaps for a later
\* connection with that ID), and the models a discovery found are those of the
\* endpoint the connection still has.
THEOREM ConnectionsUseTheirOwn == StoreSpec => []ConnectionsOwn
<1>1. StoreInv /\ OwnInv => ConnectionsOwn
  BY DEF OwnInv, RequestFits, DocFits, ConnectionsOwn, NoOldKey, ModelsFromEndpoint, At, Op
<1> QED BY StoreHoldsAtStart, StoreKept, OwnHoldsAtStart, OwnKept, <1>1, PTL DEF StoreSpec


-----------------------------------------------------------------------------
(* The desktop's calls. The lock of the state's lifecycle keeps a change   *)
(* alone with the daemons: before it sends, and when it is over, none of   *)
(* them has a change to make; and each that is still in use read the       *)
(* configuration as it is.                                                 *)

Kinds == {"initialize", "ask", "change"}
CallPlaces == {"idle", "gate", "ensure", "look", "register", "write", "send", "wait", "answered"}
Frames == [id : Nat, kind : Kinds]
Answers == [id : Nat, kind : {"result", "error"}]
Processes == [snapshot : Nat, dead : BOOLEAN, stored : BOOLEAN, healthy : BOOLEAN,
              reader : {"reading", "ended", "drained"}, requests : Nat,
              pending : SUBSET (Nat \X Commands), inbox : Seq(Frames), outbox : Seq(Answers)]
Called == [pc : CallPlaces, kind : Kinds \cup {"none"}, backend : Backends \cup {NoOne}, daemon : Nat,
           greeting : BOOLEAN, request : Nat, answer : [from : Nat, kind : {"none", "result", "error"}]]

BridgeTypes ==
  /\ config \in Nat /\ daemons \in Seq(Processes) /\ connections \in [Backends -> 0 .. Len(daemons)]
  /\ command \in [Commands -> Called] /\ \A c \in Commands : command[c].daemon \in 0 .. Len(daemons)
  /\ lifecycle = [readers |-> lifecycle.readers, writer |-> lifecycle.writer, queue |-> lifecycle.queue]
  /\ \A c \in Commands : command[c].pc # "idle" => command[c].backend \in Backends /\ command[c].kind \in Kinds

Active(c) == command[c].pc \notin {"idle", "gate"}
Unsent(c) == command[c].pc \in {"write", "send"}

\* Who is past the gate holds the lock, shared or, for a change, alone.
LockHeld ==
  /\ \A c \in Commands : Active(c) => IF Change(c) THEN lifecycle.writer = c ELSE c \in lifecycle.readers
  /\ lifecycle.writer # NoOne => lifecycle.readers = {}
  /\ \A c \in Commands : ~Active(c) => command[c].daemon = 0
  /\ \A c \in Commands : command[c].pc \in {"look", "register", "write", "send", "wait", "answered"} =>
                           command[c].daemon # 0

\* Who waits for an answer of daemon d, and whose answer it was.
AnswersMatch ==
  /\ \A d \in 1 .. Len(daemons) : \A c \in Commands : \A n \in Nat :
       <<n, c>> \in daemons[d].pending =>
         command[c].pc \in {"write", "send", "wait"} /\ command[c].daemon = d /\ command[c].request = n
  /\ \A c \in Commands : CallAt(c, "answered") /\ command[c].answer.kind = "result" =>
                           command[c].answer.from = command[c].daemon

\* Requests are numbered anew, so a number that is not sent yet is nowhere.
NumbersFresh ==
  /\ \A d \in 1 .. Len(daemons) :
       /\ \A i \in DOMAIN daemons[d].inbox : daemons[d].inbox[i].id <= daemons[d].requests
       /\ \A i \in DOMAIN daemons[d].outbox : daemons[d].outbox[i].id <= daemons[d].requests
  /\ \A c \in Commands : Unsent(c) => command[c].request <= daemons[command[c].daemon].requests
  /\ \A c \in Commands : Unsent(c) /\ Change(c) /\ ~command[c].greeting =>
       /\ \A i \in DOMAIN daemons[command[c].daemon].inbox :
            daemons[command[c].daemon].inbox[i].id # command[c].request
       /\ \A i \in DOMAIN daemons[command[c].daemon].outbox :
            daemons[command[c].daemon].outbox[i].id # command[c].request

Quiet(m) == ~m.stored /\ \A i \in DOMAIN m.inbox : m.inbox[i].kind # "change"
UpToDate ==
  /\ \A b \in Backends : connections[b] # 0 => daemons[connections[b]].snapshot = config
  /\ \A c \in Commands : command[c].daemon # 0 => daemons[command[c].daemon].snapshot = config

\* A change that may have reached its daemon.
Underway(c) == Change(c) /\ ~command[c].greeting /\ command[c].pc \in {"wait", "answered"}

BetweenChanges ==
  (\A c \in Commands : ~Underway(c)) => UpToDate /\ \A d \in 1 .. Len(daemons) : Quiet(daemons[d])

\* It is made once at most, and answered with a result only when it was made.
\* Daemon m has it of call k, and v is the version of the configuration.
Carries(m, k, v) ==
  /\ v \in {m.snapshot, m.snapshot + 1}
  /\ m.stored => v = m.snapshot + 1 /\ m.inbox # <<>> /\ m.inbox[1].kind = "change"
  /\ \A i, j \in DOMAIN m.inbox : m.inbox[i].kind = "change" /\ m.inbox[j].kind = "change" => i = j
  /\ \A i \in DOMAIN m.inbox : m.inbox[i].kind = "change" /\ ~m.stored => v = m.snapshot
  /\ k.pc = "wait" =>
       /\ \A i \in DOMAIN m.inbox : m.inbox[i].id = k.request => m.inbox[i].kind = "change"
       /\ \A i \in DOMAIN m.outbox :
            m.outbox[i].id = k.request /\ m.outbox[i].kind = "result" => v = m.snapshot + 1
  /\ k.pc = "answered" /\ k.answer.kind = "result" => v = m.snapshot + 1

DuringChange ==
  \A c \in Commands : Underway(c) =>
    /\ Carries(daemons[command[c].daemon], command[c], config)
    /\ \A d \in 1 .. Len(daemons) : d # command[c].daemon => Quiet(daemons[d])

BridgeInv ==
  BridgeTypes /\ LockHeld /\ AnswersMatch /\ NumbersFresh /\ BetweenChanges /\ DuringChange

LEMMA StartedFacts ==
  ASSUME NEW v \in Nat
  PROVE  /\ Started(v) \in Processes /\ Started(v).snapshot = v /\ Started(v).pending = {}
         /\ Started(v).inbox = <<>> /\ Started(v).outbox = <<>> /\ Quiet(Started(v))
BY DEF Started, Processes, Quiet

LEMMA GoneFacts ==
  Gone \in Processes /\ Gone.pending = {} /\ Gone.inbox = <<>> /\ Gone.outbox = <<>> /\ Quiet(Gone)
<1> DEFINE s == Started(0)
           half == [s EXCEPT !.dead = TRUE]
           more == [half EXCEPT !.healthy = FALSE]
<1>1. s \in Processes /\ s.pending = {} /\ s.inbox = <<>> /\ s.outbox = <<>> /\ Quiet(s)
  BY StartedFacts
<1>2. Gone = [more EXCEPT !.reader = "drained"]
  BY DEF Gone
<1> HIDE DEF s
<1>3. half \in Processes /\ half.pending = {} /\ half.inbox = <<>> /\ half.outbox = <<>> /\ Quiet(half)
  BY <1>1 DEF Processes, Quiet
<1> HIDE DEF half
<1>4. more \in Processes /\ more.pending = {} /\ more.inbox = <<>> /\ more.outbox = <<>> /\ Quiet(more)
  BY <1>3 DEF Processes, Quiet
<1> HIDE DEF more
<1> QED BY <1>2, <1>4 DEF Processes, Quiet

\* A daemon is as it was, or gone if nothing has its connection.
LEMMA Survive ==
  ASSUME BridgeTypes
  PROVE  /\ Survivors \in Seq(Processes) /\ Len(Survivors) = Len(daemons)
         /\ \A d \in 1 .. Len(daemons) :
              /\ Survivors[d] \in {daemons[d], Gone}
              /\ \A b \in Backends : connections'[b] = d => Survivors[d] = daemons[d]
              /\ \A c \in Commands : (command')[c].daemon = d => Survivors[d] = daemons[d]
              /\ (\A b \in Backends : connections'[b] = 0) /\ (\A c \in Commands : (command')[c].daemon = 0) =>
                   Survivors[d] = Gone
<1>1. daemons \in Seq(Processes) /\ DOMAIN daemons = 1 .. Len(daemons)
  BY DEF BridgeTypes
<1>2. DOMAIN Survivors = 1 .. Len(daemons)
  BY <1>1 DEF Survivors
<1>3. \A d \in 1 .. Len(daemons) : Survivors[d] \in {daemons[d], Gone}
  BY <1>1 DEF Survivors
<1>4. Survivors \in [1 .. Len(daemons) -> Processes]
  <2>1. \A d \in 1 .. Len(daemons) : Survivors[d] \in Processes
    BY <1>1, <1>3, GoneFacts
  <2>2. Survivors = [d \in 1 .. Len(daemons) |-> Survivors[d]]
    BY <1>1 DEF Survivors
  <2> QED BY <2>1, <2>2
<1>5. Survivors \in Seq(Processes) /\ Len(Survivors) = Len(daemons)
  BY <1>1, <1>2, <1>4
<1> QED BY <1>1, <1>3, <1>5 DEF Survivors

\* What every call that is past the gate knows.
LEMMA CallFacts ==
  ASSUME BridgeInv, NEW c \in Commands
  PROVE  /\ command[c] \in Called /\ command[c].daemon \in 0 .. Len(daemons) /\ c # NoOne
         /\ command[c].pc # "idle" => command[c].backend \in Backends /\ command[c].kind \in Kinds
         /\ command[c].pc \in {"look", "register", "write", "send", "wait", "answered"} =>
              command[c].daemon \in 1 .. Len(daemons) /\ daemons[command[c].daemon] \in Processes
         /\ BridgeTypes
         /\ Active(c) /\ Change(c) => \A x \in Commands \ {c} : ~Active(x) /\ ~Underway(x) /\ command[x].daemon = 0
         /\ Active(c) /\ ~Change(c) => \A x \in Commands : ~(Active(x) /\ Change(x)) /\ ~Underway(x)
<1>1. command[c] \in Called /\ command[c].daemon \in 0 .. Len(daemons) /\ c # NoOne /\ BridgeTypes
      /\ (command[c].pc # "idle" => command[c].backend \in Backends /\ command[c].kind \in Kinds)
  BY BridgeAssumption DEF BridgeInv, BridgeTypes
<1>2. command[c].pc \in {"look", "register", "write", "send", "wait", "answered"} =>
        command[c].daemon \in 1 .. Len(daemons) /\ daemons[command[c].daemon] \in Processes
  BY <1>1 DEF BridgeInv, BridgeTypes, LockHeld
<1>3. Active(c) /\ Change(c) => \A x \in Commands \ {c} : ~Active(x)
  BY <1>1 DEF BridgeInv, LockHeld
<1>4. Active(c) /\ ~Change(c) => \A x \in Commands : ~(Active(x) /\ Change(x))
  BY BridgeAssumption DEF BridgeInv, LockHeld
<1>5. \A x \in Commands : Underway(x) => Active(x) /\ Change(x)
  BY DEF Underway, Active
<1> QED BY <1>1, <1>2, <1>3, <1>4, <1>5 DEF BridgeInv, LockHeld

-----------------------------------------------------------------------------
(* Steps that neither write a frame nor take one from an inbox.            *)

Alike(m, e) ==
  /\ e \in Processes /\ e.snapshot = m.snapshot /\ e.stored = m.stored /\ e.inbox = m.inbox
  /\ e.requests = m.requests /\ e.pending \subseteq m.pending
  /\ \A i \in DOMAIN e.outbox : \E j \in DOMAIN m.outbox : e.outbox[i] = m.outbox[j]

Advances(c) ==
  /\ Active(c) /\ command'[c].kind = command[c].kind /\ command'[c].daemon = command[c].daemon
  /\ command'[c].backend = command[c].backend
  /\ command'[c].greeting = command[c].greeting /\ command'[c].request = command[c].request
  /\ command[c].daemon # 0
  /\ command'[c].pc \in {"register", "answered"}
  /\ \A d \in 1 .. Len(daemons) : \A n \in Nat : <<n, c>> \notin daemons'[d].pending
  /\ command'[c].pc = "answered" /\ command'[c].answer.kind = "result" =>
       /\ command'[c].answer.from = command[c].daemon
       /\ Change(c) /\ ~command[c].greeting => config = daemons[command[c].daemon].snapshot + 1
  /\ Underway(c) => command'[c].pc = "answered"

LEMMA AdvanceKeeps ==
  ASSUME BridgeInv, daemons' \in Seq(Processes), Len(daemons') = Len(daemons),
         \A d \in 1 .. Len(daemons) : Alike(daemons[d], daemons'[d]),
         command' \in [Commands -> Called], UNCHANGED <<config, connections, lifecycle>>,
         \A c \in Commands : command'[c] = command[c] \/ Advances(c)
  PROVE  BridgeInv'
<1>0. \A c \in Commands : command[c].daemon \in 0 .. Len(daemons)
  BY DEF BridgeInv, BridgeTypes
<1>1. \A c \in Commands : /\ command'[c].kind = command[c].kind /\ command'[c].daemon = command[c].daemon
                          /\ command'[c].greeting = command[c].greeting /\ command'[c].request = command[c].request
                          /\ command'[c].backend = command[c].backend
                          /\ Active(c)' = Active(c) /\ Change(c)' = Change(c)
  BY DEF Advances, Active, Change
<1>2. BridgeTypes'
  <2>1. \A c \in Commands : command'[c].pc # "idle" => command[c].pc # "idle"
    BY DEF Advances, Active
  <2> QED BY <1>1, <2>1 DEF BridgeInv, BridgeTypes
<1>3. LockHeld'
  <2>1. \A c \in Commands : command'[c].pc \in {"look", "register", "write", "send", "wait", "answered"} =>
                              command'[c].daemon # 0
    BY <1>1 DEF BridgeInv, LockHeld, Advances
  <2> QED BY <1>1, <2>1 DEF BridgeInv, LockHeld
<1>4. AnswersMatch'
  <2>1. ASSUME NEW d \in 1 .. Len(daemons), NEW c \in Commands, NEW n \in Nat, <<n, c>> \in daemons'[d].pending
        PROVE  command'[c].pc \in {"write", "send", "wait"} /\ command'[c].daemon = d /\ command'[c].request = n
    <3>1. command'[c] = command[c]
      BY <2>1 DEF Advances
    <3>2. <<n, c>> \in daemons[d].pending
      BY <2>1 DEF Alike
    <3> QED BY <3>1, <3>2 DEF BridgeInv, AnswersMatch
  <2>2. \A c \in Commands : CallAt(c, "answered")' /\ command'[c].answer.kind = "result" =>
                              command'[c].answer.from = command'[c].daemon
    BY <1>1 DEF BridgeInv, AnswersMatch, Advances, CallAt
  <2> QED BY <2>1, <2>2 DEF AnswersMatch
<1>5. NumbersFresh'
  <2>1. \A d \in 1 .. Len(daemons) :
          /\ \A i \in DOMAIN daemons'[d].inbox : daemons'[d].inbox[i].id <= daemons'[d].requests
          /\ \A i \in DOMAIN daemons'[d].outbox : daemons'[d].outbox[i].id <= daemons'[d].requests
    BY DEF BridgeInv, NumbersFresh, Alike
  <2>2. ASSUME NEW c \in Commands, Unsent(c)', Change(c)', ~command'[c].greeting
        PROVE  LET m == daemons'[command'[c].daemon]
               IN  /\ \A i \in DOMAIN m.inbox : m.inbox[i].id # command'[c].request
                   /\ \A i \in DOMAIN m.outbox : m.outbox[i].id # command'[c].request
    <3>1. command'[c] = command[c] /\ Unsent(c) /\ Change(c) /\ ~command[c].greeting
      BY <2>2, <1>1 DEF Advances, Unsent
    <3>2. command[c].daemon \in 1 .. Len(daemons)
      BY <3>1, CallFacts DEF CallAt, Unsent
    <3> QED BY <3>1, <3>2 DEF BridgeInv, NumbersFresh, Alike
  <2>3. ASSUME NEW c \in Commands, Unsent(c)'
        PROVE  command'[c].request <= daemons'[command'[c].daemon].requests
    <3>1. command'[c] = command[c] /\ Unsent(c)
      BY <2>3 DEF Advances, CallAt, Unsent
    <3>2. command[c].daemon \in 1 .. Len(daemons)
      BY <3>1, CallFacts DEF CallAt, Unsent
    <3> QED BY <3>1, <3>2 DEF BridgeInv, NumbersFresh, Alike
  <2> QED BY <2>1, <2>2, <2>3 DEF NumbersFresh
<1>6. \A c \in Commands : Underway(c) => Underway(c)'
  BY <1>1 DEF Underway, Advances, Change
<1>7. \A d \in 1 .. Len(daemons) : Quiet(daemons[d]) => Quiet(daemons'[d])
  BY DEF Quiet, Alike
<1>8. BetweenChanges'
  <2>1. SUFFICES ASSUME \A c \in Commands : ~Underway(c)
                 PROVE  UpToDate' /\ \A d \in 1 .. Len(daemons) : Quiet(daemons'[d])
    BY <1>6 DEF BetweenChanges
  <2>2. UpToDate /\ \A d \in 1 .. Len(daemons) : Quiet(daemons[d])
    BY <2>1 DEF BridgeInv, BetweenChanges
  <2>3. UpToDate'
    <3>1. \A b \in Backends : connections[b] \in 0 .. Len(daemons)
      BY DEF BridgeInv, BridgeTypes
    <3>2. \A d \in 1 .. Len(daemons) : daemons'[d].snapshot = daemons[d].snapshot
      BY DEF Alike
    <3> QED BY <1>0, <1>1, <2>2, <3>1, <3>2 DEF UpToDate
  <2> QED BY <1>7, <2>2, <2>3
<1>9. DuringChange'
  <2>1. SUFFICES ASSUME NEW c \in Commands, Underway(c)'
                 PROVE  /\ Carries(daemons'[command[c].daemon], command'[c], config)
                        /\ \A d \in 1 .. Len(daemons) : d # command[c].daemon => Quiet(daemons'[d])
    BY <1>1 DEF DuringChange
  <2> DEFINE d == command[c].daemon
             m == daemons[d]
             e == daemons'[d]
  <2>2. Change(c) /\ ~command[c].greeting /\ Active(c) /\ command'[c].pc \in {"wait", "answered"}
    BY <1>1, <2>1 DEF Underway, Active
  <2>3. d \in 1 .. Len(daemons) /\ Alike(m, e) /\ m \in Processes
    <3>1. d # 0
      BY <2>1, CallFacts DEF Advances, Underway
    <3> QED BY <1>0, <3>1 DEF BridgeInv, BridgeTypes
  <2>4. command'[c].pc = "answered" /\ command'[c].answer.kind = "result" /\ command'[c] # command[c]
        => config = m.snapshot + 1
    BY <2>2 DEF Advances
  <2>5. command'[c].pc = "wait" => command'[c] = command[c]
    BY DEF Advances
  <2>6. CASE Underway(c)
    <3>1. Carries(m, command[c], config) /\ \A x \in 1 .. Len(daemons) : x # d => Quiet(daemons[x])
      BY <2>6 DEF BridgeInv, DuringChange
    <3> HIDE DEF d, m, e
    <3>2. Carries(e, command'[c], config)
      BY <2>3, <2>4, <2>5, <3>1 DEF Carries, Alike
    <3> QED BY <1>7, <3>1, <3>2 DEF d, m, e
  <2>7. CASE ~Underway(c)
    <3>1. \A x \in Commands : ~Underway(x)
      BY <2>2, <2>7, CallFacts
    <3>2. UpToDate /\ \A x \in 1 .. Len(daemons) : Quiet(daemons[x])
      BY <3>1 DEF BridgeInv, BetweenChanges
    <3>3. config = m.snapshot /\ Quiet(e)
      BY <1>7, <2>3, <3>2 DEF UpToDate
    <3>4. command'[c] # command[c] /\ command'[c].pc = "answered"
      BY <2>1, <2>5, <2>7, <1>1 DEF Underway, Change
    <3> HIDE DEF d, m, e
    <3>5. Carries(e, command'[c], config)
      BY <2>3, <2>4, <3>3, <3>4 DEF Carries, Alike, Quiet
    <3> QED BY <1>7, <3>2, <3>5 DEF d, m, e
  <2> QED BY <2>6, <2>7
<1> QED BY <1>2, <1>3, <1>4, <1>5, <1>8, <1>9 DEF BridgeInv

LEMMA OneDaemon ==
  ASSUME BridgeTypes, NEW d \in 1 .. Len(daemons), NEW e \in Processes, daemons' = [daemons EXCEPT ![d] = e]
  PROVE  /\ daemons' \in Seq(Processes) /\ Len(daemons') = Len(daemons) /\ daemons'[d] = e
         /\ \A x \in 1 .. Len(daemons) : x # d => daemons'[x] = daemons[x]
BY DEF BridgeTypes

LEMMA SameAlike == ASSUME NEW m \in Processes PROVE Alike(m, m)
BY DEF Alike

\* One daemon changes without touching what it has to handle.
LEMMA DaemonAlike ==
  ASSUME BridgeTypes, NEW d \in 1 .. Len(daemons), NEW e, Alike(daemons[d], e),
         daemons' = [daemons EXCEPT ![d] = e]
  PROVE  /\ daemons' \in Seq(Processes) /\ Len(daemons') = Len(daemons) /\ daemons'[d] = e
         /\ \A x \in 1 .. Len(daemons) : /\ Alike(daemons[x], daemons'[x])
                                         /\ daemons'[x].pending \subseteq daemons[x].pending
<1>1. e \in Processes /\ \A x \in 1 .. Len(daemons) : daemons[x] \in Processes
  BY DEF Alike, BridgeTypes
<1>2. /\ daemons' \in Seq(Processes) /\ Len(daemons') = Len(daemons) /\ daemons'[d] = e
      /\ \A x \in 1 .. Len(daemons) : x # d => daemons'[x] = daemons[x]
  BY <1>1, OneDaemon
<1>3. \A x \in 1 .. Len(daemons) : Alike(daemons[x], daemons'[x])
  BY <1>1, <1>2, SameAlike
<1> QED BY <1>2, <1>3 DEF Alike

\* A call goes to another place, or ends without an answer.
LEMMA MovesFacts ==
  ASSUME BridgeInv, NEW c \in Commands, NEW pc \in CallPlaces, Moves(c, pc)
  PROVE  /\ command' \in [Commands -> Called] /\ command'[c].pc = pc
         /\ command'[c] = [command[c] EXCEPT !.pc = pc]
         /\ command'[c].kind = command[c].kind /\ command'[c].backend = command[c].backend
         /\ command'[c].daemon = command[c].daemon /\ command'[c].greeting = command[c].greeting
         /\ command'[c].request = command[c].request /\ command'[c].answer = command[c].answer
         /\ \A x \in Commands : x # c => command'[x] = command[x]
<1> DEFINE t == [command[c] EXCEPT !.pc = pc]
<1>1. command' = [command EXCEPT ![c] = t] /\ command[c] \in Called
  BY CallFacts DEF Moves
<1>2. /\ t \in Called /\ t.pc = pc /\ t.kind = command[c].kind /\ t.backend = command[c].backend
      /\ t.daemon = command[c].daemon /\ t.greeting = command[c].greeting /\ t.request = command[c].request
      /\ t.answer = command[c].answer
  BY <1>1 DEF Called
<1> HIDE DEF t
<1>3. command'[c] = t /\ command' \in [Commands -> Called] /\ \A x \in Commands : x # c => command'[x] = command[x]
  BY <1>1, <1>2, CallFacts DEF BridgeTypes
<1> QED BY <1>2, <1>3 DEF t

LEMMA FailsFacts ==
  ASSUME BridgeInv, NEW c \in Commands, Fails_(c)
  PROVE  /\ command' \in [Commands -> Called] /\ command'[c].pc = "answered" /\ command'[c].answer = Silent
         /\ command'[c].kind = command[c].kind /\ command'[c].backend = command[c].backend
         /\ command'[c].daemon = command[c].daemon /\ command'[c].greeting = command[c].greeting
         /\ command'[c].request = command[c].request
         /\ \A x \in Commands : x # c => command'[x] = command[x]
<1> DEFINE u == [command[c] EXCEPT !.pc = "answered"]
           t == [u EXCEPT !.answer = Silent]
<1>1. command' = [command EXCEPT ![c] = t] /\ command[c] \in Called
  BY CallFacts DEF Fails_, BridgeTypes
<1>2. /\ u \in Called /\ u.pc = "answered" /\ u.kind = command[c].kind /\ u.backend = command[c].backend
      /\ u.daemon = command[c].daemon /\ u.greeting = command[c].greeting /\ u.request = command[c].request
  BY <1>1 DEF Called, CallPlaces
<1>3. Silent \in [from : Nat, kind : {"none", "result", "error"}]
  BY DEF Silent, NoDaemon_
<1> HIDE DEF u
<1>4. /\ t \in Called /\ t.pc = "answered" /\ t.kind = command[c].kind /\ t.backend = command[c].backend
      /\ t.daemon = command[c].daemon /\ t.greeting = command[c].greeting /\ t.request = command[c].request
      /\ t.answer = Silent
  BY <1>2, <1>3 DEF Called
<1> HIDE DEF t
<1>5. command'[c] = t /\ command' \in [Commands -> Called] /\ \A x \in Commands : x # c => command'[x] = command[x]
  BY <1>1, <1>4, CallFacts DEF BridgeTypes
<1> QED BY <1>4, <1>5

LEMMA SilentAdvances ==
  ASSUME BridgeInv, NEW c \in Commands, Fails_(c), Active(c), command[c].daemon # 0,
         \A d \in 1 .. Len(daemons) : \A n \in Nat : <<n, c>> \notin daemons'[d].pending
  PROVE  command' \in [Commands -> Called] /\ \A x \in Commands : command'[x] = command[x] \/ Advances(x)
BY FailsFacts DEF Advances, Silent

LEMMA LookHealthyKeeps ==
  ASSUME BridgeInv, NEW c \in Commands, LookHealthy(c)
  PROVE  BridgeInv'
<1>1. CallAt(c, "look") /\ UNCHANGED <<config, daemons, connections, lifecycle>>
  BY DEF LookHealthy
<1>2. Active(c) /\ ~Underway(c) /\ command[c].daemon # 0 /\ BridgeTypes
  BY <1>1, CallFacts DEF CallAt, Active, Underway
<1>3. daemons' \in Seq(Processes) /\ \A d \in 1 .. Len(daemons) : Alike(daemons[d], daemons'[d])
  BY <1>1, <1>2, SameAlike DEF BridgeTypes
<1>4. \A d \in 1 .. Len(daemons) : \A n \in Nat : <<n, c>> \notin daemons'[d].pending
  BY <1>1 DEF BridgeInv, AnswersMatch, CallAt
<1>5. CASE Moves(c, "register")
  <2>1. command' \in [Commands -> Called] /\ \A x \in Commands : command'[x] = command[x] \/ Advances(x)
    BY <1>2, <1>4, <1>5, MovesFacts DEF Advances, CallPlaces
  <2> QED BY <1>1, <1>3, <2>1, AdvanceKeeps
<1>6. CASE Fails_(c)
  BY <1>1, <1>2, <1>3, <1>4, <1>6, SilentAdvances, AdvanceKeeps
<1> QED BY <1>5, <1>6 DEF LookHealthy

\* What a waiter that is struck off leaves behind.
LEMMA StruckOff ==
  ASSUME BridgeInv, NEW c \in Commands, CallAt(c, "wait") \/ CallAt(c, "send"),
         NEW e, Alike(daemons[command[c].daemon], e), Waiter(c) \notin e.pending,
         daemons' = [daemons EXCEPT ![command[c].daemon] = e]
  PROVE  /\ daemons' \in Seq(Processes) /\ Len(daemons') = Len(daemons)
         /\ \A x \in 1 .. Len(daemons) : Alike(daemons[x], daemons'[x])
         /\ \A x \in 1 .. Len(daemons) : \A n \in Nat : <<n, c>> \notin daemons'[x].pending
         /\ Active(c) /\ command[c].daemon # 0
<1>1. command[c].daemon \in 1 .. Len(daemons) /\ BridgeTypes /\ Active(c)
  BY CallFacts DEF CallAt, Active
<1>2. /\ daemons' \in Seq(Processes) /\ Len(daemons') = Len(daemons) /\ daemons'[command[c].daemon] = e
      /\ \A x \in 1 .. Len(daemons) : /\ Alike(daemons[x], daemons'[x])
                                      /\ daemons'[x].pending \subseteq daemons[x].pending
  BY <1>1, DaemonAlike
<1>3. \A x \in 1 .. Len(daemons) : \A n \in Nat :
        <<n, c>> \in daemons'[x].pending => x = command[c].daemon /\ n = command[c].request
  BY <1>2 DEF BridgeInv, AnswersMatch
<1> QED BY SMTT(20), <1>1, <1>2, <1>3 DEF Waiter

LEMMA TimeOutKeeps ==
  ASSUME BridgeInv, NEW c \in Commands, TimeOut(c)
  PROVE  BridgeInv'
<1> DEFINE m == daemons[command[c].daemon]
           e == [m EXCEPT !.pending = @ \ {Waiter(c)}]
<1>1. CallAt(c, "wait") /\ UNCHANGED <<config, connections, lifecycle>> /\ Fails_(c)
      /\ daemons' = [daemons EXCEPT ![command[c].daemon] = e]
  BY DEF TimeOut
<1>2. m \in Processes
  BY <1>1, CallFacts DEF CallAt
<1>3. Alike(m, e) /\ Waiter(c) \notin e.pending
  BY <1>2 DEF Alike, Processes
<1> HIDE DEF e
<1> QED BY <1>1, <1>3, StruckOff, SilentAdvances, AdvanceKeeps

LEMMA WriteFailsKeeps ==
  ASSUME BridgeInv, NEW c \in Commands, WriteFails(c)
  PROVE  BridgeInv'
<1> DEFINE m == daemons[command[c].daemon]
           half == [m EXCEPT !.pending = @ \ {Waiter(c)}]
           e == [half EXCEPT !.healthy = FALSE]
<1>1. CallAt(c, "send") /\ UNCHANGED <<config, connections, lifecycle>> /\ Fails_(c)
  BY DEF WriteFails
<1>2. m \in Processes /\ command[c].daemon \in 1 .. Len(daemons) /\ BridgeTypes
  BY <1>1, CallFacts DEF CallAt
<1>3. daemons' = [daemons EXCEPT ![command[c].daemon] = e]
  BY <1>2 DEF WriteFails, BridgeTypes
<1>4. Alike(m, half) /\ Waiter(c) \notin half.pending
  BY <1>2 DEF Alike, Processes
<1> HIDE DEF half
<1>5. Alike(m, e) /\ Waiter(c) \notin e.pending
  BY <1>4 DEF Alike, Processes
<1> HIDE DEF e
<1> QED BY <1>1, <1>3, <1>5, StruckOff, SilentAdvances, AdvanceKeeps

LEMMA DaemonBreaksKeeps ==
  ASSUME BridgeInv, NEW d \in 1 .. Len(daemons), DaemonBreaks(d)
  PROVE  BridgeInv'
<1> DEFINE e == [daemons[d] EXCEPT !.dead = TRUE]
<1>1. daemons' = [daemons EXCEPT ![d] = e] /\ UNCHANGED <<config, connections, lifecycle, command>>
  BY DEF DaemonBreaks
<1>2. daemons[d] \in Processes /\ BridgeTypes /\ command \in [Commands -> Called]
  BY DEF BridgeInv, BridgeTypes
<1>3. Alike(daemons[d], e)
  BY <1>2 DEF Alike, Processes
<1> HIDE DEF e
<1> QED BY <1>1, <1>2, <1>3, DaemonAlike, AdvanceKeeps

LEMMA ReaderEndsKeeps ==
  ASSUME BridgeInv, NEW d \in 1 .. Len(daemons), ReaderEnds(d)
  PROVE  BridgeInv'
<1> DEFINE half == [daemons[d] EXCEPT !.reader = "ended"]
           e == [half EXCEPT !.healthy = FALSE]
<1>1. daemons[d] \in Processes /\ BridgeTypes /\ command \in [Commands -> Called]
  BY DEF BridgeInv, BridgeTypes
<1>2. daemons' = [daemons EXCEPT ![d] = e] /\ UNCHANGED <<config, connections, lifecycle, command>>
  BY <1>1 DEF ReaderEnds, BridgeTypes
<1>3. Alike(daemons[d], half)
  BY <1>1 DEF Alike, Processes
<1> HIDE DEF half
<1>4. Alike(daemons[d], e)
  BY <1>3 DEF Alike, Processes
<1> HIDE DEF e
<1> QED BY <1>1, <1>2, <1>4, DaemonAlike, AdvanceKeeps

LEMMA DrainPendingKeeps ==
  ASSUME BridgeInv, NEW d \in 1 .. Len(daemons), DrainPending(d)
  PROVE  BridgeInv'
<1> DEFINE half == [daemons[d] EXCEPT !.reader = "drained"]
           e == [half EXCEPT !.pending = {}]
<1>1. daemons[d] \in Processes /\ BridgeTypes /\ command \in [Commands -> Called]
  BY DEF BridgeInv, BridgeTypes
<1>2. daemons' = [daemons EXCEPT ![d] = e] /\ UNCHANGED <<config, connections, lifecycle>>
  BY <1>1 DEF DrainPending, BridgeTypes
<1>3. Alike(daemons[d], half)
  BY <1>1 DEF Alike, Processes
<1> HIDE DEF half
<1>4. Alike(daemons[d], e) /\ e.pending = {}
  BY <1>3 DEF Alike, Processes
<1> HIDE DEF e
<1>5. /\ daemons' \in Seq(Processes) /\ Len(daemons') = Len(daemons) /\ daemons'[d] = e
      /\ \A x \in 1 .. Len(daemons) : /\ Alike(daemons[x], daemons'[x])
                                      /\ daemons'[x].pending \subseteq daemons[x].pending
  BY <1>1, <1>2, <1>4, DaemonAlike
<1>6. ASSUME NEW c \in Commands
      PROVE  command'[c] \in Called /\ (command'[c] = command[c] \/ Advances(c))
  <2>1. CASE CallAt(c, "wait") /\ command[c].daemon = d
    <3> DEFINE u == [command[c] EXCEPT !.pc = "answered"]
               t == [u EXCEPT !.answer = Silent]
    <3>1. command'[c] = t \/ command'[c] = command[c]
      BY DEF DrainPending
    <3>2. u \in Called /\ u.kind = command[c].kind /\ u.backend = command[c].backend /\ u.pc = "answered"
          /\ u.daemon = command[c].daemon /\ u.greeting = command[c].greeting /\ u.request = command[c].request
      BY <1>1 DEF Called, CallPlaces
    <3> HIDE DEF u
    <3>3. t \in Called /\ t.kind = command[c].kind /\ t.backend = command[c].backend /\ t.pc = "answered"
          /\ t.daemon = command[c].daemon /\ t.greeting = command[c].greeting /\ t.request = command[c].request
          /\ t.answer.kind # "result"
      BY <3>2 DEF Called, Silent, NoDaemon_
    <3> HIDE DEF t
    <3>4. \A x \in 1 .. Len(daemons) : \A n \in Nat : <<n, c>> \notin daemons'[x].pending
      BY <1>4, <1>5, <2>1 DEF BridgeInv, AnswersMatch
    <3> QED BY <1>1, <2>1, <3>1, <3>3, <3>4 DEF Advances, Active, CallAt
  <2>2. CASE ~(CallAt(c, "wait") /\ command[c].daemon = d)
    BY <1>1, <2>2 DEF DrainPending
  <2> QED BY <2>1, <2>2
<1>7. command' \in [Commands -> Called]
  BY <1>6 DEF DrainPending
<1> QED BY <1>2, <1>5, <1>6, <1>7, AdvanceKeeps

LEMMA HandleFrameKeeps ==
  ASSUME BridgeInv, NEW d \in 1 .. Len(daemons), HandleFrame(d)
  PROVE  BridgeInv'
<1> DEFINE m == daemons[d]
           frame == Head(m.outbox)
           waiters == {w \in m.pending : w[1] = frame.id}
           half == [m EXCEPT !.outbox = Tail(@)]
           e == [half EXCEPT !.pending = @ \ waiters]
<1>1. m \in Processes /\ BridgeTypes /\ command \in [Commands -> Called]
  BY DEF BridgeInv, BridgeTypes
<1>2. m.outbox \in Seq(Answers) /\ m.outbox # <<>>
  BY <1>1 DEF HandleFrame, Processes
<1>3. /\ frame = m.outbox[1] /\ 1 \in DOMAIN m.outbox /\ frame \in Answers /\ Tail(m.outbox) \in Seq(Answers)
      /\ \A i \in DOMAIN Tail(m.outbox) : i + 1 \in DOMAIN m.outbox /\ Tail(m.outbox)[i] = m.outbox[i + 1]
  BY <1>2
<1>4. /\ daemons' = [daemons EXCEPT ![d] = e] /\ UNCHANGED <<config, connections, lifecycle>>
      /\ command' = [c \in Commands |->
                  IF <<frame.id, c>> \in waiters
                  THEN [command[c] EXCEPT !.pc = "answered", !.answer = [from |-> d, kind |-> frame.kind]]
                  ELSE command[c]]
  BY <1>1 DEF HandleFrame, BridgeTypes
<1>5. half \in Processes /\ Alike(m, half) /\ half.pending = m.pending
  <2>1. half \in Processes /\ half.snapshot = m.snapshot /\ half.stored = m.stored /\ half.inbox = m.inbox
        /\ half.requests = m.requests /\ half.pending = m.pending /\ half.outbox = Tail(m.outbox)
    BY <1>1, <1>3 DEF Processes
  <2> HIDE DEF half
  <2> QED BY <1>3, <2>1 DEF Alike
<1> HIDE DEF half
<1>6. Alike(m, e) /\ e.pending = m.pending \ waiters
  <2> HIDE DEF waiters
  <2> QED BY <1>5 DEF Alike, Processes
<1> HIDE DEF e
<1>7. /\ daemons' \in Seq(Processes) /\ Len(daemons') = Len(daemons) /\ daemons'[d] = e
      /\ \A x \in 1 .. Len(daemons) : /\ Alike(daemons[x], daemons'[x])
                                      /\ daemons'[x].pending \subseteq daemons[x].pending
  BY <1>1, <1>4, <1>6, DaemonAlike
<1>8. ASSUME NEW c \in Commands
      PROVE  command'[c] \in Called /\ (command'[c] = command[c] \/ Advances(c))
  <2>1. CASE <<frame.id, c>> \in waiters
    <3> DEFINE u == [command[c] EXCEPT !.pc = "answered"]
               t == [u EXCEPT !.answer = [from |-> d, kind |-> frame.kind]]
    <3>1. command'[c] = t
      BY <1>4, <2>1
    <3>2. u \in Called /\ u.kind = command[c].kind /\ u.backend = command[c].backend /\ u.pc = "answered"
          /\ u.daemon = command[c].daemon /\ u.greeting = command[c].greeting /\ u.request = command[c].request
      BY <1>1 DEF Called, CallPlaces
    <3> HIDE DEF u
    <3>3. t \in Called /\ t.kind = command[c].kind /\ t.backend = command[c].backend /\ t.pc = "answered"
          /\ t.daemon = command[c].daemon /\ t.greeting = command[c].greeting /\ t.request = command[c].request
          /\ t.answer.kind = frame.kind /\ t.answer.from = d
      <4> DEFINE answer == [from |-> d, kind |-> frame.kind]
      <4>1. answer \in [from : Nat, kind : {"none", "result", "error"}] /\ answer.from = d
            /\ answer.kind = frame.kind
        BY <1>3 DEF Answers
      <4>2. t = [u EXCEPT !.answer = answer]
        OBVIOUS
      <4> HIDE DEF answer
      <4> QED BY <3>2, <4>1, <4>2 DEF Called
    <3> HIDE DEF t
    <3>4. frame.id \in Nat /\ <<frame.id, c>> \in m.pending
      BY <1>3, <2>1 DEF Answers
    <3>5. command[c].pc \in {"write", "send", "wait"} /\ command[c].daemon = d /\ command[c].request = frame.id
      BY <3>4 DEF BridgeInv, AnswersMatch
    <3>6. ASSUME NEW x \in 1 .. Len(daemons), NEW n \in Nat, <<n, c>> \in daemons'[x].pending
          PROVE  FALSE
      <4>1. x = d /\ n = frame.id
        BY <1>7, <3>5, <3>6 DEF BridgeInv, AnswersMatch
      <4> QED BY <1>6, <1>7, <2>1, <3>6, <4>1
    <3>7. ASSUME frame.kind = "result", Change(c), ~command[c].greeting
          PROVE  config = m.snapshot + 1
      <4>1. command[c].pc = "wait"
        BY <1>3, <3>5, <3>7 DEF BridgeInv, NumbersFresh, Unsent
      <4>2. Carries(m, command[c], config)
        BY <3>5, <3>7, <4>1 DEF BridgeInv, DuringChange, Underway
      <4> QED BY <1>3, <3>5, <3>7, <4>1, <4>2 DEF Carries
    <3>8. Advances(c)
      BY <3>1, <3>3, <3>5, <3>6, <3>7 DEF Advances, Active
    <3> QED BY <3>1, <3>3, <3>8
  <2>2. CASE <<frame.id, c>> \notin waiters
    BY <1>1, <1>4, <2>2
  <2> QED BY <2>1, <2>2
<1>9. command' \in [Commands -> Called]
  BY <1>4, <1>8
<1> QED BY <1>4, <1>7, <1>8, <1>9, AdvanceKeeps

-----------------------------------------------------------------------------
(* Steps that write a frame or handle one.                                 *)

\* A frame at the end of an inbox.
LEMMA Appended ==
  ASSUME NEW m \in Processes, NEW frame \in Frames
  PROVE  LET e == [m EXCEPT !.inbox = Append(@, frame)]
         IN  /\ e \in Processes /\ e.snapshot = m.snapshot /\ e.stored = m.stored /\ e.outbox = m.outbox
             /\ e.requests = m.requests /\ e.pending = m.pending
             /\ DOMAIN e.inbox = DOMAIN m.inbox \cup {Len(m.inbox) + 1} /\ Len(m.inbox) + 1 \notin DOMAIN m.inbox
             /\ \A i \in DOMAIN m.inbox : e.inbox[i] = m.inbox[i]
             /\ e.inbox[Len(m.inbox) + 1] = frame
<1> DEFINE e == [m EXCEPT !.inbox = Append(@, frame)]
<1>1. m.inbox \in Seq(Frames)
  BY DEF Processes
<1>2. Append(m.inbox, frame) \in Seq(Frames)
      /\ DOMAIN Append(m.inbox, frame) = DOMAIN m.inbox \cup {Len(m.inbox) + 1}
      /\ Len(m.inbox) + 1 \notin DOMAIN m.inbox
      /\ \A i \in DOMAIN m.inbox : Append(m.inbox, frame)[i] = m.inbox[i]
      /\ Append(m.inbox, frame)[Len(m.inbox) + 1] = frame
  BY <1>1
<1>3. e \in Processes /\ e.snapshot = m.snapshot /\ e.stored = m.stored /\ e.outbox = m.outbox
      /\ e.requests = m.requests /\ e.pending = m.pending /\ e.inbox = Append(m.inbox, frame)
  BY <1>2 DEF Processes
<1> QED BY <1>2, <1>3

LEMMA WriteSendsKeeps ==
  ASSUME BridgeInv, NEW c \in Commands, WriteFrame(c)
  PROVE  BridgeInv'
<1> DEFINE d == command[c].daemon
           m == daemons[d]
           e == [m EXCEPT !.inbox = Append(@, Frame(c))]
<1>1. /\ CallAt(c, "send") /\ UNCHANGED <<config, connections, lifecycle>>
      /\ daemons' = [daemons EXCEPT ![d] = e]
      /\ (IF Waiter(c) \in m.pending THEN Moves(c, "wait") ELSE Fails_(c))
  BY DEF WriteFrame
<1>2. m \in Processes /\ d \in 1 .. Len(daemons) /\ BridgeTypes /\ Active(c) /\ d # 0 /\ ~Underway(c)
      /\ command[c] \in Called
  BY <1>1, CallFacts DEF CallAt, Active, Underway
<1>3. Frame(c) \in Frames /\ Frame(c).id = command[c].request
      /\ (Frame(c).kind = "change" => Change(c) /\ ~command[c].greeting)
      /\ (Change(c) /\ ~command[c].greeting => Frame(c).kind = "change")
  BY <1>1, <1>2, CallFacts DEF Frame, Frames, Called, Kinds, Change, CallAt
<1>4. /\ e \in Processes /\ e.snapshot = m.snapshot /\ e.stored = m.stored /\ e.outbox = m.outbox
      /\ e.requests = m.requests /\ e.pending = m.pending
      /\ DOMAIN e.inbox = DOMAIN m.inbox \cup {Len(m.inbox) + 1} /\ Len(m.inbox) + 1 \notin DOMAIN m.inbox
      /\ \A i \in DOMAIN m.inbox : e.inbox[i] = m.inbox[i]
      /\ e.inbox[Len(m.inbox) + 1] = Frame(c)
  BY <1>2, <1>3, Appended
<1> HIDE DEF e
<1>5. /\ daemons' \in Seq(Processes) /\ Len(daemons') = Len(daemons) /\ daemons'[d] = e
      /\ \A x \in 1 .. Len(daemons) : x # d => daemons'[x] = daemons[x]
  BY <1>1, <1>2, <1>4, OneDaemon
<1>6. /\ command' \in [Commands -> Called] /\ command'[c].pc \in {"wait", "answered"}
      /\ command'[c].kind = command[c].kind /\ command'[c].backend = command[c].backend
      /\ command'[c].daemon = d /\ command'[c].greeting = command[c].greeting
      /\ command'[c].request = command[c].request
      /\ \A x \in Commands : x # c => command'[x] = command[x]
      /\ (command'[c].pc = "answered" => command'[c].answer.kind = "none" /\ Waiter(c) \notin m.pending)
  <2>1. CASE Waiter(c) \in m.pending
    BY <1>1, <2>1, MovesFacts DEF CallPlaces
  <2>2. CASE Waiter(c) \notin m.pending
    BY <1>1, <2>2, FailsFacts DEF Silent
  <2> QED BY <2>1, <2>2
<1>7. \A x \in Commands : /\ command'[x].kind = command[x].kind /\ command'[x].daemon = command[x].daemon
                          /\ command'[x].greeting = command[x].greeting /\ command'[x].request = command[x].request
                          /\ command'[x].backend = command[x].backend
                          /\ Active(x)' = Active(x) /\ Change(x)' = Change(x)
  BY <1>1, <1>2, <1>6 DEF Active, Change, CallAt
<1>8. BridgeTypes'
  <2>1. \A x \in Commands : command'[x].pc # "idle" => command[x].pc # "idle"
    BY <1>1, <1>6 DEF CallAt
  <2> QED BY <1>1, <1>5, <1>6, <1>7, <2>1 DEF BridgeInv, BridgeTypes
<1>9. LockHeld'
  <2>1. \A x \in Commands : command'[x].pc \in {"look", "register", "write", "send", "wait", "answered"} =>
                              command'[x].daemon # 0
    BY <1>2, <1>6 DEF BridgeInv, LockHeld
  <2> QED BY <1>1, <1>7, <2>1 DEF BridgeInv, LockHeld
<1>10. AnswersMatch'
  <2>1. \A x \in 1 .. Len(daemons) : daemons'[x].pending = daemons[x].pending
    BY <1>4, <1>5
  <2>2. ASSUME NEW x \in 1 .. Len(daemons), NEW y \in Commands, NEW n \in Nat, <<n, y>> \in daemons[x].pending
        PROVE  command'[y].pc \in {"write", "send", "wait"} /\ command'[y].daemon = x /\ command'[y].request = n
    <3>1. command[y].pc \in {"write", "send", "wait"} /\ command[y].daemon = x /\ command[y].request = n
      BY <2>2 DEF BridgeInv, AnswersMatch
    <3>2. CASE y = c
      BY <1>6, <2>2, <3>1, <3>2 DEF Waiter
    <3> QED BY <1>6, <3>1, <3>2
  <2>3. \A y \in Commands : CallAt(y, "answered")' /\ command'[y].answer.kind = "result" =>
                              command'[y].answer.from = command'[y].daemon
    BY <1>6 DEF BridgeInv, AnswersMatch, CallAt
  <2> QED BY <1>5, <2>1, <2>2, <2>3 DEF AnswersMatch
<1>11. NumbersFresh'
  <2>1. command[c].request <= m.requests
    BY <1>1 DEF BridgeInv, NumbersFresh, CallAt, Unsent
  <2>2. \A x \in 1 .. Len(daemons) :
          /\ \A i \in DOMAIN daemons'[x].inbox : daemons'[x].inbox[i].id <= daemons'[x].requests
          /\ \A i \in DOMAIN daemons'[x].outbox : daemons'[x].outbox[i].id <= daemons'[x].requests
    <3>1. \A x \in 1 .. Len(daemons) :
            /\ \A i \in DOMAIN daemons[x].inbox : daemons[x].inbox[i].id <= daemons[x].requests
            /\ \A i \in DOMAIN daemons[x].outbox : daemons[x].outbox[i].id <= daemons[x].requests
      BY DEF BridgeInv, NumbersFresh
    <3>2. /\ \A i \in DOMAIN e.inbox : e.inbox[i].id <= e.requests
          /\ \A i \in DOMAIN e.outbox : e.outbox[i].id <= e.requests
      BY <1>2, <1>3, <1>4, <2>1, <3>1
    <3> QED BY <1>5, <3>1, <3>2
  <2>3. ASSUME NEW y \in Commands, Unsent(y)'
        PROVE  /\ command'[y].request <= daemons'[command'[y].daemon].requests
               /\ ~Change(y)'
    <3>1. y # c /\ command'[y] = command[y] /\ Unsent(y)
      BY <1>6, <2>3 DEF CallAt, Unsent
    <3>2. command[y].daemon \in 1 .. Len(daemons) /\ Active(y)
      BY <3>1, CallFacts DEF CallAt, Active, Unsent
    <3>3. daemons'[command[y].daemon].requests = daemons[command[y].daemon].requests
      BY <1>4, <1>5, <3>2
    <3>4. ~Change(y)
      BY <1>2, <3>1, <3>2, CallFacts
    <3> QED BY <3>1, <3>3, <3>4 DEF BridgeInv, NumbersFresh, Change
  <2> QED BY <1>5, <2>2, <2>3 DEF NumbersFresh
<1>12. CASE Change(c) /\ ~command[c].greeting
  <2>1. \A x \in Commands : ~Underway(x)
    BY <1>2, <1>12, CallFacts
  <2>2. UpToDate /\ \A x \in 1 .. Len(daemons) : Quiet(daemons[x])
    BY <2>1 DEF BridgeInv, BetweenChanges
  <2>3. Underway(c)' /\ \A x \in Commands : Underway(x)' => x = c
    BY <1>6, <1>12, <2>1 DEF Underway, Change
  <2>4. config = m.snapshot /\ Quiet(m)
    BY <1>2, <2>2 DEF UpToDate
  <2>5. /\ \A i \in DOMAIN m.inbox : m.inbox[i].id # command[c].request
        /\ \A i \in DOMAIN m.outbox : m.outbox[i].id # command[c].request
    BY <1>1, <1>12 DEF BridgeInv, NumbersFresh, CallAt, Unsent
  <2>6. Carries(e, command'[c], config)
    <3> DEFINE n == Len(m.inbox) + 1
    <3>1. \A i \in DOMAIN e.inbox :
            e.inbox[i].kind = "change" \/ e.inbox[i].id = command[c].request => i = n
      BY <1>4, <2>4, <2>5 DEF Quiet
    <3>2. config = e.snapshot /\ ~e.stored /\ n \in DOMAIN e.inbox /\ e.inbox[n].kind = "change"
      BY <1>3, <1>4, <1>12, <2>4 DEF Quiet
    <3>3. \A i \in DOMAIN e.outbox : e.outbox[i].id # command'[c].request
      BY <1>4, <1>6, <2>5
    <3>4. command'[c].request = command[c].request
          /\ (command'[c].pc = "answered" => command'[c].answer.kind = "none")
      BY <1>6
    <3> HIDE DEF m, d, n
    <3> QED BY <3>1, <3>2, <3>3, <3>4 DEF Carries
  <2>7. DuringChange'
    BY <1>1, <1>5, <1>6, <2>2, <2>3, <2>6 DEF DuringChange
  <2>8. BetweenChanges'
    BY <2>3 DEF BetweenChanges
  <2> QED BY <1>8, <1>9, <1>10, <1>11, <2>7, <2>8 DEF BridgeInv
<1>13. CASE ~(Change(c) /\ ~command[c].greeting)
  <2>1. \A x \in Commands : ~Underway(x)
    BY <1>2, CallFacts
  <2>2. UpToDate /\ \A x \in 1 .. Len(daemons) : Quiet(daemons[x])
    BY <2>1 DEF BridgeInv, BetweenChanges
  <2>3. \A x \in Commands : ~Underway(x)'
    BY <1>6, <1>13, <2>1 DEF Underway, Change
  <2>4. \A x \in 1 .. Len(daemons) : daemons'[x].snapshot = daemons[x].snapshot
    BY <1>4, <1>5
  <2>5. Quiet(e)
    <3>1. Quiet(m) /\ Frame(c).kind # "change"
      BY <1>2, <1>3, <1>13, <2>2
    <3> HIDE DEF m, d
    <3> QED BY <1>4, <3>1 DEF Quiet
  <2>6. \A x \in 1 .. Len(daemons) : Quiet(daemons'[x])
    BY <1>5, <2>2, <2>5
  <2>7. UpToDate'
    <3>1. /\ \A b \in Backends : connections[b] \in 0 .. Len(daemons)
          /\ \A x \in Commands : command[x].daemon \in 0 .. Len(daemons)
      BY DEF BridgeInv, BridgeTypes
    <3> QED BY <1>1, <1>7, <2>2, <2>4, <3>1 DEF UpToDate
  <2> QED BY <1>5, <1>8, <1>9, <1>10, <1>11, <2>3, <2>6, <2>7 DEF BridgeInv, BetweenChanges, DuringChange
<1> QED BY <1>12, <1>13

LEMMA FrameFacts ==
  ASSUME NEW m \in Processes
  PROVE  /\ \A i \in DOMAIN m.inbox : m.inbox[i] \in Frames /\ m.inbox[i].id \in Nat
         /\ \A i \in DOMAIN m.outbox : m.outbox[i] \in Answers /\ m.outbox[i].id \in Nat
<1>1. m.inbox \in Seq(Frames) /\ m.outbox \in Seq(Answers)
  BY DEF Processes
<1>2. (\A i \in DOMAIN m.inbox : m.inbox[i] \in Frames) /\ \A i \in DOMAIN m.outbox : m.outbox[i] \in Answers
  BY <1>1
<1> QED BY <1>2 DEF Frames, Answers

LEMMA RegisterKeeps ==
  ASSUME BridgeInv, NEW c \in Commands, Register(c)
  PROVE  BridgeInv'
<1> DEFINE d == command[c].daemon
           m == daemons[d]
           n == m.requests + 1
           half == [m EXCEPT !.requests = n]
           e == [half EXCEPT !.pending = @ \cup {<<n, c>>}]
           u == [command[c] EXCEPT !.pc = "write"]
           t == [u EXCEPT !.request = n]
<1>1. CallAt(c, "register") /\ UNCHANGED <<config, connections, lifecycle>>
  BY DEF Register
<1>2. m \in Processes /\ d \in 1 .. Len(daemons) /\ BridgeTypes /\ Active(c) /\ d # 0 /\ ~Underway(c)
      /\ command[c] \in Called
  BY <1>1, CallFacts DEF CallAt, Active, Underway
<1>3. daemons' = [daemons EXCEPT ![d] = e] /\ command' = [command EXCEPT ![c] = t]
  <2>1. daemons' = [daemons EXCEPT ![d].requests = n, ![d].pending = @ \cup {<<n, c>>}]
    BY DEF Register
  <2>2. command' = [command EXCEPT ![c].pc = "write", ![c].request = n]
    BY DEF Register
  <2>3. d \in DOMAIN daemons /\ c \in DOMAIN command
    BY <1>2 DEF BridgeTypes
  <2> HIDE DEF n, d
  <2> QED BY <2>1, <2>2, <2>3
<1>0. n \in Nat
  BY <1>2 DEF Processes
<1> HIDE DEF n
<1>4. n \in Nat /\ half \in Processes /\ half.pending = m.pending /\ half.snapshot = m.snapshot
      /\ half.stored = m.stored /\ half.inbox = m.inbox /\ half.outbox = m.outbox /\ half.requests = n
  BY <1>0, <1>2 DEF Processes
<1>5. u \in Called /\ u.pc = "write" /\ u.kind = command[c].kind /\ u.backend = command[c].backend
      /\ u.daemon = d /\ u.greeting = command[c].greeting
  BY <1>2 DEF Called, CallPlaces
<1> HIDE DEF half, u
<1>6. e \in Processes /\ e.pending = m.pending \cup {<<n, c>>} /\ e.snapshot = m.snapshot
      /\ e.stored = m.stored /\ e.inbox = m.inbox /\ e.outbox = m.outbox /\ e.requests = n
  <2> DEFINE more == m.pending \cup {<<n, c>>}
  <2>1. more \in SUBSET (Nat \X Commands)
    BY <1>0, <1>2 DEF Processes
  <2>2. e = [half EXCEPT !.pending = more]
    BY <1>4
  <2>3. half.pending = m.pending /\ more = m.pending \cup {<<n, c>>}
    BY <1>4
  <2> HIDE DEF more, m, e, n
  <2>4. e \in Processes /\ e.pending = more /\ e.snapshot = half.snapshot
        /\ e.stored = half.stored /\ e.inbox = half.inbox /\ e.outbox = half.outbox /\ e.requests = half.requests
    BY <1>4, <2>1, <2>2 DEF Processes
  <2> QED BY <1>4, <2>3, <2>4
<1>7. t \in Called /\ t.pc = "write" /\ t.kind = command[c].kind /\ t.backend = command[c].backend
      /\ t.daemon = d /\ t.greeting = command[c].greeting /\ t.request = n
  BY <1>4, <1>5 DEF Called
<1> HIDE DEF e, t
<1>8. /\ daemons' \in Seq(Processes) /\ Len(daemons') = Len(daemons) /\ daemons'[d] = e
      /\ \A x \in 1 .. Len(daemons) : x # d => daemons'[x] = daemons[x]
  BY <1>2, <1>3, <1>6, OneDaemon
<1>9. /\ command' \in [Commands -> Called] /\ command'[c] = t
      /\ \A x \in Commands : x # c => command'[x] = command[x]
  BY <1>2, <1>3, <1>7 DEF BridgeTypes
<1>10. \A x \in Commands : /\ command'[x].kind = command[x].kind /\ command'[x].daemon = command[x].daemon
                           /\ command'[x].greeting = command[x].greeting
                           /\ command'[x].backend = command[x].backend
                           /\ Active(x)' = Active(x) /\ Change(x)' = Change(x)
  BY <1>1, <1>7, <1>9 DEF Active, Change, CallAt
<1>11. BridgeTypes'
  <2>1. \A x \in Commands : command'[x].pc # "idle" => command[x].pc # "idle"
    BY <1>1, <1>9 DEF CallAt
  <2> QED BY <1>1, <1>8, <1>9, <1>10, <2>1 DEF BridgeInv, BridgeTypes
<1>12. LockHeld'
  <2>1. \A x \in Commands : command'[x].pc \in {"look", "register", "write", "send", "wait", "answered"} =>
                              command'[x].daemon # 0
    BY <1>2, <1>7, <1>9 DEF BridgeInv, LockHeld
  <2> QED BY <1>1, <1>10, <2>1 DEF BridgeInv, LockHeld
<1>13. AnswersMatch'
  <2>1. ASSUME NEW x \in 1 .. Len(daemons), NEW y \in Commands, NEW k \in Nat, <<k, y>> \in daemons'[x].pending
        PROVE  command'[y].pc \in {"write", "send", "wait"} /\ command'[y].daemon = x /\ command'[y].request = k
    <3>1. CASE <<k, y>> \in daemons[x].pending
      <4>1. command[y].pc \in {"write", "send", "wait"} /\ command[y].daemon = x /\ command[y].request = k
        BY <3>1 DEF BridgeInv, AnswersMatch
      <4> QED BY <1>1, <1>9, <4>1 DEF CallAt
    <3>2. CASE <<k, y>> \notin daemons[x].pending
      <4>1. x = d /\ k = n /\ y = c
        BY <1>6, <1>8, <2>1, <3>2
      <4> QED BY <1>7, <1>9, <4>1
    <3> QED BY <3>1, <3>2
  <2>2. \A y \in Commands : CallAt(y, "answered")' /\ command'[y].answer.kind = "result" =>
                              command'[y].answer.from = command'[y].daemon
    BY <1>7, <1>9 DEF BridgeInv, AnswersMatch, CallAt
  <2> QED BY <1>8, <2>1, <2>2 DEF AnswersMatch
<1>14. NumbersFresh'
  <2>1. m.requests \in Nat /\ n = m.requests + 1
    BY <1>2 DEF Processes, n
  <2>2. /\ \A i \in DOMAIN m.inbox : m.inbox[i].id < n
        /\ \A i \in DOMAIN m.outbox : m.outbox[i].id < n
    <3>1. /\ \A i \in DOMAIN m.inbox : m.inbox[i].id \in Nat /\ m.inbox[i].id <= m.requests
          /\ \A i \in DOMAIN m.outbox : m.outbox[i].id \in Nat /\ m.outbox[i].id <= m.requests
      BY <1>2, FrameFacts DEF BridgeInv, NumbersFresh
    <3> HIDE DEF m
    <3> QED BY <2>1, <3>1
  <2>3. \A x \in 1 .. Len(daemons) :
          /\ \A i \in DOMAIN daemons'[x].inbox : daemons'[x].inbox[i].id <= daemons'[x].requests
          /\ \A i \in DOMAIN daemons'[x].outbox : daemons'[x].outbox[i].id <= daemons'[x].requests
    <3>1. /\ \A i \in DOMAIN e.inbox : e.inbox[i].id <= e.requests
          /\ \A i \in DOMAIN e.outbox : e.outbox[i].id <= e.requests
      <4>1. /\ \A i \in DOMAIN e.inbox : e.inbox[i].id \in Nat
            /\ \A i \in DOMAIN e.outbox : e.outbox[i].id \in Nat
        BY <1>6, FrameFacts
      <4> HIDE DEF m
      <4> QED BY <1>0, <1>6, <2>2, <4>1
    <3> QED BY <1>8, <3>1 DEF BridgeInv, NumbersFresh
  <2>4. ASSUME NEW y \in Commands, Unsent(y)'
        PROVE  command'[y].request <= daemons'[command'[y].daemon].requests
    <3>1. CASE y = c
      BY <1>4, <1>6, <1>7, <1>8, <1>9, <3>1
    <3>2. CASE y # c
      <4>1. command'[y] = command[y] /\ Unsent(y)
        BY <1>9, <2>4, <3>2 DEF CallAt, Unsent
      <4>2. command[y].daemon \in 1 .. Len(daemons) /\ command[y].request \in Nat
            /\ command[y].request <= daemons[command[y].daemon].requests
        BY <4>1, CallFacts DEF CallAt, BridgeInv, NumbersFresh, Called, Unsent
      <4>3. CASE command[y].daemon = d
        <5>1. command[y].request <= n
          BY <2>1, <4>2, <4>3
        <5> QED BY <1>6, <1>8, <4>1, <4>3, <5>1
      <4>4. CASE command[y].daemon # d
        BY <1>8, <4>1, <4>2, <4>4
      <4> QED BY <4>3, <4>4
    <3> QED BY <3>1, <3>2
  <2>5. ASSUME NEW y \in Commands, Unsent(y)', Change(y)', ~command'[y].greeting
        PROVE  /\ \A i \in DOMAIN daemons'[command'[y].daemon].inbox :
                    daemons'[command'[y].daemon].inbox[i].id # command'[y].request
               /\ \A i \in DOMAIN daemons'[command'[y].daemon].outbox :
                    daemons'[command'[y].daemon].outbox[i].id # command'[y].request
    <3>1. CASE y = c
      <4>1. /\ \A i \in DOMAIN e.inbox : e.inbox[i].id # n
            /\ \A i \in DOMAIN e.outbox : e.outbox[i].id # n
        <5>1. /\ \A i \in DOMAIN e.inbox : e.inbox[i].id \in Nat /\ e.inbox[i].id < n
              /\ \A i \in DOMAIN e.outbox : e.outbox[i].id \in Nat /\ e.outbox[i].id < n
          BY <1>6, <2>2, FrameFacts
        <5> HIDE DEF m
        <5> QED BY <1>0, <5>1
      <4> QED BY <1>7, <1>8, <1>9, <3>1, <4>1
    <3>2. CASE y # c
      <4>1. command'[y] = command[y] /\ Unsent(y) /\ Change(y)
        BY <1>9, <2>5, <3>2 DEF CallAt, Change, Unsent
      <4> QED BY <1>2, <3>2, <4>1, CallFacts DEF CallAt, Active, Unsent
    <3> QED BY <3>1, <3>2
  <2> QED BY <1>8, <2>3, <2>4, <2>5 DEF NumbersFresh
<1>15. \A x \in Commands : Underway(x)' => Underway(x)
  BY <1>7, <1>9, <1>10 DEF Underway, Change
<1>16. \A x \in Commands : ~Underway(x)
  BY <1>2, CallFacts DEF Underway, Active
<1>17. BetweenChanges' /\ DuringChange'
  <2>1. UpToDate /\ \A x \in 1 .. Len(daemons) : Quiet(daemons[x])
    BY <1>16 DEF BridgeInv, BetweenChanges
  <2>2. \A x \in 1 .. Len(daemons) : Quiet(daemons'[x]) /\ daemons'[x].snapshot = daemons[x].snapshot
    BY <1>6, <1>8, <2>1 DEF Quiet
  <2>3. /\ \A b \in Backends : connections[b] \in 0 .. Len(daemons)
        /\ \A x \in Commands : command[x].daemon \in 0 .. Len(daemons)
    BY DEF BridgeInv, BridgeTypes
  <2>4. UpToDate'
    BY <1>1, <1>10, <2>1, <2>2, <2>3 DEF UpToDate
  <2> QED BY <1>8, <1>15, <1>16, <2>2, <2>4 DEF BetweenChanges, DuringChange
<1> QED BY <1>11, <1>12, <1>13, <1>14, <1>17 DEF BridgeInv

\* A daemon takes its next frame, makes the change if it is one, and answers.
LEMMA HandleKeeps ==
  ASSUME BridgeInv, NEW d \in 1 .. Len(daemons), Handle(d)
  PROVE  BridgeInv'
<1> DEFINE m == daemons[d]
           frame == Head(m.inbox)
<1>1. /\ m \in Processes /\ BridgeTypes /\ command \in [Commands -> Called] /\ config \in Nat
      /\ UNCHANGED <<connections, lifecycle, command>> /\ m.inbox # <<>>
  BY SMTT(20) DEF Handle, BridgeInv, BridgeTypes
<1>2. /\ m.inbox \in Seq(Frames) /\ m.outbox \in Seq(Answers)
      /\ frame = m.inbox[1] /\ 1 \in DOMAIN m.inbox /\ frame \in Frames
  <2>1. m.inbox \in Seq(Frames) /\ m.outbox \in Seq(Answers)
    BY <1>1 DEF Processes
  <2> QED BY <1>1, <2>1
\* What the daemon's record becomes, and the configuration.
<1>3. ASSUME NEW e \in Processes, daemons' = [daemons EXCEPT ![d] = e], config' \in Nat,
             e.snapshot = m.snapshot, e.requests = m.requests, e.pending = m.pending,
             \A i \in DOMAIN e.inbox : \E j \in DOMAIN m.inbox : e.inbox[i] = m.inbox[j],
             \A i \in DOMAIN e.outbox : \/ \E j \in DOMAIN m.outbox : e.outbox[i] = m.outbox[j]
                                        \/ e.outbox[i].id = frame.id,
             Quiet(m) => Quiet(e) /\ config' = config,
             \A c \in Commands : Carries(m, command[c], config) /\ ~Quiet(m) => Carries(e, command[c], config'),
             \A c \in Commands : Carries(m, command[c], config) /\ Quiet(m) /\ Quiet(e) => Carries(e, command[c], config)
      PROVE  BridgeInv'
  <2>1. /\ daemons' \in Seq(Processes) /\ Len(daemons') = Len(daemons) /\ daemons'[d] = e
        /\ \A x \in 1 .. Len(daemons) : x # d => daemons'[x] = daemons[x]
    BY <1>1, <1>3, OneDaemon
  <2>2. BridgeTypes'
    BY <1>1, <1>3, <2>1 DEF BridgeTypes
  <2>3. LockHeld' /\ AnswersMatch'
    BY <1>1, <1>3, <2>1 DEF BridgeInv, LockHeld, AnswersMatch, Active, Change, CallAt
  <2>4. NumbersFresh'
    <3>1. \A x \in 1 .. Len(daemons) :
            /\ \A i \in DOMAIN daemons'[x].inbox : daemons'[x].inbox[i].id <= daemons'[x].requests
            /\ \A i \in DOMAIN daemons'[x].outbox : daemons'[x].outbox[i].id <= daemons'[x].requests
      BY <1>2, <1>3, <2>1 DEF BridgeInv, NumbersFresh
    <3>2. ASSUME NEW c \in Commands, Unsent(c)
          PROVE  /\ command[c].request <= daemons'[command[c].daemon].requests
                 /\ Change(c) /\ ~command[c].greeting =>
                      /\ \A i \in DOMAIN daemons'[command[c].daemon].inbox :
                           daemons'[command[c].daemon].inbox[i].id # command[c].request
                      /\ \A i \in DOMAIN daemons'[command[c].daemon].outbox :
                           daemons'[command[c].daemon].outbox[i].id # command[c].request
      <4>1. command[c].daemon \in 1 .. Len(daemons)
        BY <3>2, CallFacts DEF CallAt, Unsent
      <4>2. CASE command[c].daemon = d
        BY SMTT(20), <1>2, <1>3, <2>1, <3>2, <4>2 DEF BridgeInv, NumbersFresh
      <4>3. CASE command[c].daemon # d
        BY <2>1, <3>2, <4>1, <4>3 DEF BridgeInv, NumbersFresh
      <4> QED BY <4>2, <4>3
    <3> QED BY <1>1, <2>1, <3>1, <3>2 DEF NumbersFresh, CallAt, Change, Unsent
  <2>5. BetweenChanges'
    <3> SUFFICES ASSUME \A c \in Commands : ~Underway(c)
                 PROVE  UpToDate' /\ \A x \in 1 .. Len(daemons) : Quiet(daemons'[x])
      BY <1>1, <2>1 DEF BetweenChanges, Underway, Change
    <3>1. UpToDate /\ \A x \in 1 .. Len(daemons) : Quiet(daemons[x])
      BY DEF BridgeInv, BetweenChanges
    <3>2. config' = config /\ \A x \in 1 .. Len(daemons) : Quiet(daemons'[x]) /\ daemons'[x].snapshot = daemons[x].snapshot
      BY <1>3, <2>1, <3>1
    <3>3. /\ \A b \in Backends : connections[b] \in 0 .. Len(daemons)
          /\ \A x \in Commands : command[x].daemon \in 0 .. Len(daemons)
      BY <1>1 DEF BridgeTypes
    <3> QED BY <1>1, <3>1, <3>2, <3>3 DEF UpToDate
  <2>6. DuringChange'
    <3> SUFFICES ASSUME NEW c \in Commands, Underway(c)
                 PROVE  /\ Carries(daemons'[command[c].daemon], command[c], config')
                        /\ \A x \in 1 .. Len(daemons) : x # command[c].daemon => Quiet(daemons'[x])
      BY <1>1, <2>1 DEF DuringChange, Underway, Change
    <3>1. /\ Carries(daemons[command[c].daemon], command[c], config)
          /\ \A x \in 1 .. Len(daemons) : x # command[c].daemon => Quiet(daemons[x])
      BY DEF BridgeInv, DuringChange
    <3>2. command[c].daemon \in 1 .. Len(daemons)
      BY CallFacts DEF Underway
    <3>3. CASE command[c].daemon = d
      BY <1>3, <2>1, <3>1, <3>3
    <3>4. CASE command[c].daemon # d
      BY <1>3, <2>1, <3>1, <3>2, <3>4
    <3> QED BY <3>3, <3>4
  <2> QED BY <2>2, <2>3, <2>4, <2>5, <2>6 DEF BridgeInv
<1>4. CASE frame.kind = "change" /\ ~m.stored /\ config' = config + 1
           /\ daemons' = [daemons EXCEPT ![d].stored = TRUE]
  <2> DEFINE e == [m EXCEPT !.stored = TRUE]
  <2>1. daemons' = [daemons EXCEPT ![d] = e] /\ config' \in Nat
    BY <1>1, <1>4
  <2>2. e \in Processes /\ e.snapshot = m.snapshot /\ e.requests = m.requests /\ e.pending = m.pending
        /\ e.inbox = m.inbox /\ e.outbox = m.outbox /\ e.stored
    BY <1>1 DEF Processes
  <2>3. ~Quiet(m) /\ ~Quiet(e)
    BY <1>2, <1>4, <2>2 DEF Quiet
  <2>4. ASSUME NEW c \in Commands, Carries(m, command[c], config)
        PROVE  Carries(e, command[c], config')
    <3>1. config = m.snapshot /\ config + 1 # config
      BY <1>1, <1>2, <1>4, <2>4 DEF Carries
    <3> HIDE DEF m, e
    <3> QED BY <1>1, <1>2, <1>4, <2>2, <2>4, <3>1 DEF Carries
  <2> HIDE DEF e
  <2> QED BY <1>3, <2>1, <2>2, <2>3, <2>4
<1>5. ASSUME NEW ok \in BOOLEAN, config' = config,
             daemons' = [daemons EXCEPT
               ![d].inbox = Tail(@), ![d].stored = FALSE,
               ![d].outbox = Append(@, [id |-> frame.id, kind |-> IF ok THEN "result" ELSE "error"]),
               ![d].dead = frame.kind = "initialize" /\ ~ok],
             IF ok THEN frame.kind = "change" => m.stored ELSE ~m.stored
      PROVE  BridgeInv'
  <2> DEFINE answer == [id |-> frame.id, kind |-> IF ok THEN "result" ELSE "error"]
             e1 == [m EXCEPT !.inbox = Tail(@)]
             e2 == [e1 EXCEPT !.stored = FALSE]
             e3 == [e2 EXCEPT !.outbox = Append(@, answer)]
             dead == frame.kind = "initialize" /\ ~ok
             e == [e3 EXCEPT !.dead = dead]
  <2>1. daemons' = [daemons EXCEPT ![d] = e]
    <3>1. d \in DOMAIN daemons
      BY <1>1 DEF BridgeTypes
    <3> HIDE DEF frame
    <3> QED BY <1>5, <3>1
  <2>2. /\ Tail(m.inbox) \in Seq(Frames)
        /\ \A i \in DOMAIN Tail(m.inbox) : i + 1 \in DOMAIN m.inbox /\ Tail(m.inbox)[i] = m.inbox[i + 1]
                                           /\ i \in Nat \ {0}
    BY <1>1, <1>2
  <2>3. answer \in Answers /\ answer.id = frame.id /\ (answer.kind = "result" => ok)
    BY <1>2 DEF Answers, Frames
  <2>4. dead \in BOOLEAN
    OBVIOUS
  <2> HIDE DEF answer, dead
  <2>5. e1 \in Processes /\ e1.snapshot = m.snapshot /\ e1.requests = m.requests /\ e1.pending = m.pending
        /\ e1.inbox = Tail(m.inbox) /\ e1.outbox = m.outbox
    BY <1>1, <2>2 DEF Processes
  <2> HIDE DEF e1
  <2>6. e2 \in Processes /\ e2.snapshot = m.snapshot /\ e2.requests = m.requests /\ e2.pending = m.pending
        /\ e2.inbox = Tail(m.inbox) /\ e2.outbox = m.outbox /\ e2.stored = FALSE
    BY <2>5 DEF Processes
  <2> HIDE DEF e2
  <2>7. Append(m.outbox, answer) \in Seq(Answers)
        /\ \A i \in DOMAIN Append(m.outbox, answer) :
             \/ i \in DOMAIN m.outbox /\ Append(m.outbox, answer)[i] = m.outbox[i]
             \/ Append(m.outbox, answer)[i] = answer
    BY <1>2, <2>3
  <2>8. e3 \in Processes /\ e3.snapshot = m.snapshot /\ e3.requests = m.requests /\ e3.pending = m.pending
        /\ e3.inbox = Tail(m.inbox) /\ e3.outbox = Append(m.outbox, answer) /\ e3.stored = FALSE
    BY <2>6, <2>7 DEF Processes
  <2> HIDE DEF e3
  <2>9. e \in Processes /\ e.snapshot = m.snapshot /\ e.requests = m.requests /\ e.pending = m.pending
        /\ e.inbox = Tail(m.inbox) /\ e.outbox = Append(m.outbox, answer) /\ e.stored = FALSE
    BY <2>4, <2>8 DEF Processes
  <2> HIDE DEF e
  <2>10. /\ \A i \in DOMAIN e.inbox : i + 1 \in DOMAIN m.inbox /\ e.inbox[i] = m.inbox[i + 1] /\ i \in Nat \ {0}
         /\ \A i \in DOMAIN e.outbox : \/ i \in DOMAIN m.outbox /\ e.outbox[i] = m.outbox[i]
                                       \/ e.outbox[i] = answer
    BY <2>2, <2>7, <2>9
  <2>11. /\ \A i \in DOMAIN e.inbox : \E j \in DOMAIN m.inbox : e.inbox[i] = m.inbox[j]
         /\ \A i \in DOMAIN e.outbox : \/ \E j \in DOMAIN m.outbox : e.outbox[i] = m.outbox[j]
                                       \/ e.outbox[i].id = frame.id
    BY <2>3, <2>10
  <2>12. Quiet(m) => Quiet(e)
    BY <2>9, <2>11 DEF Quiet
  <2>13. ASSUME NEW c \in Commands, Carries(m, command[c], config)
         PROVE  Carries(e, command[c], config)
    <3> DEFINE k == command[c]
    <3>1. \A i \in DOMAIN e.inbox : e.inbox[i].kind = "change" => frame.kind # "change"
      BY <1>2, <2>10, <2>13 DEF Carries
    <3>2. \A i \in DOMAIN e.inbox : e.inbox[i].kind = "change" => config = m.snapshot
      <4>1. m.stored => frame.kind = "change"
        BY <1>2, <2>13 DEF Carries
      <4> QED BY <2>10, <2>13, <3>1, <4>1 DEF Carries
    <3>3. \A i, j \in DOMAIN e.inbox : e.inbox[i].kind = "change" /\ e.inbox[j].kind = "change" => i = j
      <4>1. ASSUME NEW i \in DOMAIN e.inbox, NEW j \in DOMAIN e.inbox,
                   e.inbox[i].kind = "change", e.inbox[j].kind = "change"
            PROVE  i = j
        <5>1. i + 1 = j + 1
          BY <2>10, <2>13, <4>1 DEF Carries
        <5> QED BY <2>10, <4>1, <5>1
      <4> QED BY <4>1
    <3>4. ASSUME k.pc = "wait", NEW i \in DOMAIN e.outbox, e.outbox[i].id = k.request, e.outbox[i].kind = "result"
          PROVE  config = m.snapshot + 1
      <4>1. CASE i \in DOMAIN m.outbox /\ e.outbox[i] = m.outbox[i]
        BY <2>13, <3>4, <4>1 DEF Carries
      <4>2. CASE e.outbox[i] = answer
        <5>1. frame.kind = "change" /\ ok
          BY <1>2, <2>3, <2>13, <3>4, <4>2 DEF Carries
        <5> QED BY <1>5, <2>13, <5>1 DEF Carries
      <4> QED BY <2>10, <4>1, <4>2
    <3>5. k.pc = "wait" => \A i \in DOMAIN e.inbox : e.inbox[i].id = k.request => e.inbox[i].kind = "change"
      BY <2>11, <2>13 DEF Carries
    <3>6. config \in {m.snapshot, m.snapshot + 1}
          /\ (k.pc = "answered" /\ k.answer.kind = "result" => config = m.snapshot + 1)
      BY <2>13 DEF Carries
    <3> HIDE DEF m, k
    <3>7. Carries(e, k, config)
      BY <2>9, <3>2, <3>3, <3>4, <3>5, <3>6 DEF Carries
    <3> QED BY <3>7 DEF k
  <2> QED BY <1>1, <1>3, <1>5, <2>1, <2>9, <2>11, <2>12, <2>13
<1> QED
  <2>1. \/ /\ frame.kind = "change" /\ ~m.stored
           /\ config' = config + 1 /\ daemons' = [daemons EXCEPT ![d].stored = TRUE]
        \/ \E ok \in BOOLEAN :
             /\ config' = config
             /\ daemons' = [daemons EXCEPT
                  ![d].inbox = Tail(@), ![d].stored = FALSE,
                  ![d].outbox = Append(@, [id |-> frame.id, kind |-> IF ok THEN "result" ELSE "error"]),
                  ![d].dead = frame.kind = "initialize" /\ ~ok]
             /\ IF ok THEN frame.kind = "change" => m.stored ELSE ~m.stored
    BY DEF Handle
  <2> QED BY <1>4, <1>5, <2>1

-----------------------------------------------------------------------------
(* The lock, and what is done with a connection.                           *)

\* Daemons are as they were, or have nothing to do with a request; so are the
\* calls that have one.
LEMMA RequestsKept ==
  ASSUME BridgeInv,
         \A x \in 1 .. Len(daemons') :
           \/ x \in 1 .. Len(daemons) /\ daemons'[x] = daemons[x]
           \/ daemons'[x].pending = {} /\ daemons'[x].inbox = <<>> /\ daemons'[x].outbox = <<>>,
         \A y \in Commands :
           \/ command'[y] = command[y] /\ (command[y].daemon # 0 => daemons'[command[y].daemon] = daemons[command[y].daemon])
           \/ /\ command[y].pc \notin {"write", "send", "wait"} /\ command'[y].pc \notin {"write", "send"}
              /\ command'[y].pc = "answered" /\ command'[y].answer.kind = "result" =>
                   command'[y].answer.from = command'[y].daemon
  PROVE  AnswersMatch' /\ NumbersFresh'
<1>1. ASSUME NEW x \in 1 .. Len(daemons'), NEW y \in Commands, NEW n \in Nat, <<n, y>> \in daemons'[x].pending
      PROVE  command'[y].pc \in {"write", "send", "wait"} /\ command'[y].daemon = x /\ command'[y].request = n
  <2>1. x \in 1 .. Len(daemons) /\ daemons'[x] = daemons[x] /\ <<n, y>> \in daemons[x].pending
    BY <1>1
  <2>2. command[y].pc \in {"write", "send", "wait"} /\ command[y].daemon = x /\ command[y].request = n
    BY <2>1 DEF BridgeInv, AnswersMatch
  <2> QED BY <2>2
<1>2. \A y \in Commands : CallAt(y, "answered")' /\ command'[y].answer.kind = "result" =>
                            command'[y].answer.from = command'[y].daemon
  BY DEF BridgeInv, AnswersMatch, CallAt
<1>3. ASSUME NEW x \in 1 .. Len(daemons')
      PROVE  /\ \A i \in DOMAIN daemons'[x].inbox : daemons'[x].inbox[i].id <= daemons'[x].requests
             /\ \A i \in DOMAIN daemons'[x].outbox : daemons'[x].outbox[i].id <= daemons'[x].requests
  <2>1. CASE x \in 1 .. Len(daemons) /\ daemons'[x] = daemons[x]
    BY <2>1 DEF BridgeInv, NumbersFresh
  <2>2. CASE daemons'[x].inbox = <<>> /\ daemons'[x].outbox = <<>>
    BY <2>2
  <2> QED BY <2>1, <2>2
<1>4. ASSUME NEW y \in Commands, Unsent(y)'
      PROVE  /\ command'[y] = command[y] /\ Unsent(y)
             /\ daemons'[command[y].daemon] = daemons[command[y].daemon]
  <2>1. command'[y] = command[y]
    BY <1>4 DEF Unsent
  <2>2. command[y].daemon # 0
    BY <1>4, <2>1 DEF BridgeInv, LockHeld, Unsent
  <2> QED BY <1>4, <2>1, <2>2 DEF Unsent
<1>5. ASSUME NEW y \in Commands, Unsent(y)'
      PROVE  command'[y].request <= daemons'[command'[y].daemon].requests
  BY <1>4, <1>5 DEF BridgeInv, NumbersFresh, CallAt
<1>6. ASSUME NEW y \in Commands, Unsent(y)', Change(y)', ~command'[y].greeting
      PROVE  /\ \A i \in DOMAIN daemons'[command'[y].daemon].inbox :
                  daemons'[command'[y].daemon].inbox[i].id # command'[y].request
             /\ \A i \in DOMAIN daemons'[command'[y].daemon].outbox :
                  daemons'[command'[y].daemon].outbox[i].id # command'[y].request
  <2> DEFINE d == command[y].daemon
  <2>1. /\ command'[y] = command[y] /\ daemons'[d] = daemons[d]
        /\ Unsent(y) /\ Change(y) /\ ~command[y].greeting
    BY <1>4, <1>6 DEF CallAt, Change
  <2>2. /\ \A i \in DOMAIN daemons[d].inbox : daemons[d].inbox[i].id # command[y].request
        /\ \A i \in DOMAIN daemons[d].outbox : daemons[d].outbox[i].id # command[y].request
    BY <2>1 DEF BridgeInv, NumbersFresh
  <2> QED BY <2>1, <2>2
<1> QED BY <1>1, <1>2, <1>3, <1>5, <1>6 DEF AnswersMatch, NumbersFresh

\* A call that is at rest or before the gate: nothing else changes.
LEMMA IssueKeeps ==
  ASSUME BridgeInv, NEW c \in Commands, Issue(c)
  PROVE  BridgeInv'
<1>1. CallAt(c, "idle") /\ UNCHANGED <<config, daemons, connections>>
      /\ lifecycle' = [lifecycle EXCEPT !.queue = Append(@, c)]
  BY DEF Issue
<1>2. BridgeTypes /\ command[c].daemon = 0 /\ ~Active(c)
  BY <1>1, CallFacts DEF CallAt, Active, BridgeInv, LockHeld
<1>3. PICK kind \in Kinds, b \in Backends :
        command' = [command EXCEPT ![c] = [Resting_ EXCEPT !.pc = "gate", !.kind = kind, !.backend = b]]
  BY DEF Issue, Kinds
<1> DEFINE u == [Resting_ EXCEPT !.pc = "gate"]
           v == [u EXCEPT !.kind = kind]
           t == [v EXCEPT !.backend = b]
<1>4. Resting_ \in Called /\ Resting_.daemon = 0
  BY DEF Resting_, Called, CallPlaces, Silent, NoDaemon_
<1>5. u \in Called /\ u.pc = "gate" /\ u.daemon = 0
  BY <1>4 DEF Called, CallPlaces
<1> HIDE DEF u
<1>6. v \in Called /\ v.pc = "gate" /\ v.daemon = 0 /\ v.kind = kind
  BY <1>5 DEF Called
<1> HIDE DEF v
<1>7. t \in Called /\ t.pc = "gate" /\ t.daemon = 0 /\ t.kind = kind /\ t.backend = b
  BY <1>6 DEF Called
<1>8. command' = [command EXCEPT ![c] = t]
  BY <1>3 DEF u, v
<1> HIDE DEF t
<1>9. command'[c] = t /\ command' \in [Commands -> Called] /\ \A x \in Commands : x # c => command'[x] = command[x]
  BY <1>2, <1>7, <1>8 DEF BridgeTypes
<1>10. /\ lifecycle'.readers = lifecycle.readers /\ lifecycle'.writer = lifecycle.writer
       /\ lifecycle' = [readers |-> lifecycle'.readers, writer |-> lifecycle'.writer, queue |-> lifecycle'.queue]
  BY <1>1, <1>2 DEF BridgeTypes
<1>11. BridgeTypes'
  BY <1>1, <1>2, <1>7, <1>9, <1>10 DEF BridgeTypes
<1>12. LockHeld'
  BY <1>2, <1>7, <1>9, <1>10 DEF BridgeInv, LockHeld, Active, Change
<1>13. AnswersMatch' /\ NumbersFresh'
  BY <1>1, <1>7, <1>9, RequestsKept DEF CallAt
<1>14. \A x \in Commands : Underway(x)' = Underway(x)
  BY <1>1, <1>7, <1>9 DEF Underway, Change, CallAt
<1>15. BetweenChanges' /\ DuringChange'
  BY <1>1, <1>2, <1>7, <1>9, <1>14 DEF BridgeInv, BetweenChanges, DuringChange, UpToDate, Underway
<1> QED BY <1>11, <1>12, <1>13, <1>15 DEF BridgeInv

\* A call that waits for the writer gets it.
LEMMA TakeWriterKeeps ==
  ASSUME BridgeInv, NEW c \in Commands, TakeWriter(c)
  PROVE  BridgeInv'
<1>1. CallAt(c, "write") /\ Moves(c, "send") /\ UNCHANGED <<config, daemons, connections, lifecycle>>
  BY DEF TakeWriter
<1>2. BridgeTypes /\ command[c].daemon \in 1 .. Len(daemons)
  BY <1>1, CallFacts DEF CallAt
<1>3. /\ command' \in [Commands -> Called] /\ command[c].pc = "write" /\ command'[c].pc = "send"
      /\ \A x \in Commands : x # c => command'[x] = command[x]
      /\ \A x \in Commands :
           /\ command'[x].kind = command[x].kind /\ command'[x].backend = command[x].backend
           /\ command'[x].daemon = command[x].daemon /\ command'[x].greeting = command[x].greeting
           /\ command'[x].request = command[x].request
  BY <1>1, MovesFacts DEF CallAt, CallPlaces
<1>4. \A x \in Commands : /\ Active(x)' = Active(x) /\ Change(x)' = Change(x)
                          /\ Unsent(x)' = Unsent(x) /\ Underway(x)' = Underway(x)
  <2>1. \A x \in Commands : Active(x)' = Active(x) /\ Change(x)' = Change(x) /\ Unsent(x)' = Unsent(x)
    BY <1>3 DEF Active, Change, Unsent
  <2> QED BY <1>3, <2>1 DEF Underway, Change
<1>5. BridgeTypes'
  BY <1>1, <1>2, <1>3 DEF BridgeTypes
<1>6. LockHeld'
  BY <1>1, <1>2, <1>3, <1>4 DEF BridgeInv, LockHeld
<1>7. AnswersMatch'
  BY <1>1, <1>3 DEF BridgeInv, AnswersMatch, CallAt
<1>8. NumbersFresh'
  <2>1. NumbersFresh
    BY DEF BridgeInv
  <2>2. daemons' = daemons
    BY <1>1
  <2>3. \A x \in Commands : Unsent(x)' =>
          command'[x].request <= daemons'[command'[x].daemon].requests
    BY <1>3, <1>4, <2>1, <2>2 DEF NumbersFresh
  <2>4. ASSUME NEW x \in Commands, Unsent(x)', Change(x)', ~command'[x].greeting
        PROVE  /\ \A i \in DOMAIN daemons'[command'[x].daemon].inbox :
                    daemons'[command'[x].daemon].inbox[i].id # command'[x].request
               /\ \A i \in DOMAIN daemons'[command'[x].daemon].outbox :
                    daemons'[command'[x].daemon].outbox[i].id # command'[x].request
    <3>1. Unsent(x) /\ Change(x) /\ ~command[x].greeting
      BY <1>3, <1>4, <2>4
    <3> QED BY <1>3, <2>1, <2>2, <3>1 DEF NumbersFresh
  <2> QED BY <2>1, <2>2, <2>3, <2>4 DEF NumbersFresh
<1>9. BetweenChanges' /\ DuringChange'
  BY <1>1, <1>2, <1>3, <1>4 DEF BridgeInv, BetweenChanges, DuringChange, UpToDate, Underway
<1> QED BY <1>5, <1>6, <1>7, <1>8, <1>9 DEF BridgeInv

LEMMA EnterLifecycleKeeps ==
  ASSUME BridgeInv, NEW c \in Commands, EnterLifecycle(c)
  PROVE  BridgeInv'
<1>1. /\ CallAt(c, "gate") /\ UNCHANGED <<config, daemons, connections>> /\ lifecycle.writer = NoOne
      /\ (Change(c) => lifecycle.readers = {}) /\ Moves(c, "ensure")
      /\ lifecycle'.readers = (IF Change(c) THEN {} ELSE lifecycle.readers \cup {c})
      /\ lifecycle'.writer = (IF Change(c) THEN c ELSE NoOne)
      /\ lifecycle' = [readers |-> lifecycle'.readers, writer |-> lifecycle'.writer, queue |-> lifecycle'.queue]
  BY DEF EnterLifecycle
<1>2. BridgeTypes /\ command[c].daemon = 0 /\ c # NoOne /\ \A x \in Commands : x # NoOne
  BY <1>1, BridgeAssumption DEF CallAt, Active, BridgeInv, LockHeld
<1>3. /\ command' \in [Commands -> Called] /\ command'[c].pc = "ensure"
      /\ command'[c].kind = command[c].kind /\ command'[c].daemon = 0
      /\ command'[c].backend = command[c].backend
      /\ \A x \in Commands : x # c => command'[x] = command[x]
  BY <1>1, <1>2, MovesFacts DEF CallPlaces
<1>4. BridgeTypes'
  BY <1>1, <1>2, <1>3 DEF BridgeTypes, CallAt
<1>5. LockHeld'
  BY <1>1, <1>2, <1>3 DEF BridgeInv, LockHeld, Active, Change
<1>6. AnswersMatch' /\ NumbersFresh'
  BY <1>1, <1>3, RequestsKept DEF CallAt
<1>7. \A x \in Commands : Underway(x)' = Underway(x)
  BY <1>1, <1>3 DEF Underway, Change, CallAt
<1>8. BetweenChanges' /\ DuringChange'
  BY <1>1, <1>2, <1>3, <1>7 DEF BridgeInv, BetweenChanges, DuringChange, UpToDate, Underway
<1> QED BY <1>4, <1>5, <1>6, <1>8 DEF BridgeInv

\* What Found makes of a call.
LEMMA FoundFacts ==
  ASSUME BridgeInv, NEW c \in Commands, NEW d \in Nat, command' = Found(c, d)
  PROVE  /\ command' \in [Commands -> Called] /\ command'[c].daemon = d
         /\ command'[c].kind = command[c].kind /\ command'[c].backend = command[c].backend
         /\ ~command'[c].greeting
         /\ \/ command'[c].pc = "look" /\ command'[c].answer.kind = "none"
            \/ command'[c].pc = "answered" /\ command'[c].answer.from = d /\ command[c].kind = "initialize"
         /\ \A x \in Commands : x # c => command'[x] = command[x]
<1> DEFINE k == command[c]
           pc == IF k.kind = "initialize" THEN "answered" ELSE "look"
           answer == IF k.kind = "initialize" THEN [from |-> d, kind |-> "result"] ELSE Silent
           u == [k EXCEPT !.daemon = d]
           v == [u EXCEPT !.greeting = FALSE]
           w == [v EXCEPT !.pc = pc]
           t == [w EXCEPT !.answer = answer]
<1>1. k \in Called /\ BridgeTypes
  BY CallFacts
<1>2. command' = [command EXCEPT ![c] = t]
  BY <1>1 DEF Found, BridgeTypes
<1>3. pc \in CallPlaces /\ answer \in [from : Nat, kind : {"none", "result", "error"}]
      /\ \/ pc = "look" /\ answer.kind = "none"
         \/ pc = "answered" /\ answer.from = d /\ k.kind = "initialize"
  BY DEF CallPlaces, Silent, NoDaemon_
<1> HIDE DEF pc, answer, k
<1>4. u \in Called /\ u.daemon = d /\ u.kind = k.kind /\ u.backend = k.backend
  BY <1>1 DEF Called
<1> HIDE DEF u
<1>5. v \in Called /\ v.daemon = d /\ v.kind = k.kind /\ v.backend = k.backend /\ v.greeting = FALSE
  BY <1>4 DEF Called
<1> HIDE DEF v
<1>6. w \in Called /\ w.daemon = d /\ w.kind = k.kind /\ w.backend = k.backend /\ w.greeting = FALSE
      /\ w.pc = pc
  BY <1>3, <1>5 DEF Called
<1> HIDE DEF w
<1>7. t \in Called /\ t.daemon = d /\ t.kind = k.kind /\ t.backend = k.backend /\ t.greeting = FALSE
      /\ t.pc = pc /\ t.answer = answer
  BY <1>3, <1>6 DEF Called
<1> HIDE DEF t
<1>8. command'[c] = t /\ command' \in [Commands -> Called] /\ \A x \in Commands : x # c => command'[x] = command[x]
  BY <1>1, <1>2, <1>7 DEF BridgeTypes
<1> QED BY <1>3, <1>7, <1>8 DEF k

\* A call takes up a connection to a daemon that is up to date; daemons that
\* lose their last connection go, others may have been there before or be new.
LEMMA TakesUpKeeps ==
  ASSUME BridgeInv, NEW c \in Commands, Active(c), ~Underway(c), command[c].pc \in {"ensure", "answered"},
         UNCHANGED <<config, lifecycle>>,
         command' \in [Commands -> Called], \A x \in Commands : x # c => command'[x] = command[x],
         command'[c].kind = command[c].kind, command'[c].backend = command[c].backend,
         command'[c].pc = "look" \/ (command'[c].pc = "answered" /\ ~Change(c)),
         command'[c].pc = "answered" /\ command'[c].answer.kind = "result" =>
           command'[c].answer.from = command'[c].daemon,
         daemons' \in Seq(Processes), Len(daemons) <= Len(daemons'),
         NEW d \in 1 .. Len(daemons'), command'[c].daemon = d, daemons'[d].snapshot = config,
         \A x \in 1 .. Len(daemons) : daemons'[x] \in {daemons[x], Gone},
         \A x \in 1 .. Len(daemons') : x \notin 1 .. Len(daemons) => daemons'[x] = Started(config),
         connections' \in [Backends -> 0 .. Len(daemons')],
         \A b \in Backends : \/ connections'[b] \in {0, d}
                             \/ connections'[b] \in 1 .. Len(daemons) /\ connections'[b] = connections[b]
                                /\ daemons'[connections[b]] = daemons[connections[b]],
         \A x \in Commands : x # c /\ command[x].daemon # 0 => daemons'[command[x].daemon] = daemons[command[x].daemon]
  PROVE  BridgeInv'
<1>1. BridgeTypes /\ config \in Nat /\ Len(daemons) \in Nat /\ Len(daemons') \in Nat
      /\ \A x \in Commands : command[x].daemon \in 0 .. Len(daemons)
  BY DEF BridgeInv, BridgeTypes
<1>2. \A x \in Commands : /\ command'[x].kind = command[x].kind /\ command'[x].backend = command[x].backend
                          /\ Active(x)' = Active(x) /\ Change(x)' = Change(x)
                          /\ command'[x].daemon \in 0 .. Len(daemons')
                          /\ (command'[x].pc # "idle" => command[x].pc # "idle")
  BY <1>1 DEF Active, Change
<1>3. BridgeTypes'
  BY <1>1, <1>2 DEF BridgeTypes
<1>4. LockHeld'
  BY SMTT(20), <1>2 DEF BridgeInv, LockHeld, Active
<1>5. \A x \in 1 .. Len(daemons') :
        \/ x \in 1 .. Len(daemons) /\ daemons'[x] = daemons[x]
        \/ daemons'[x].pending = {} /\ daemons'[x].inbox = <<>> /\ daemons'[x].outbox = <<>> /\ Quiet(daemons'[x])
  BY <1>1, GoneFacts, StartedFacts
<1>6. AnswersMatch' /\ NumbersFresh'
  BY <1>5, RequestsKept
<1>7. \A x \in Commands : ~Underway(x) /\ ~Underway(x)'
  <2>1. \A x \in Commands : ~Underway(x)
    BY CallFacts
  <2>2. ~Underway(c)'
    BY <1>2 DEF Underway, Change
  <2> QED BY <2>1, <2>2 DEF Underway, Change
<1>8. UpToDate /\ \A x \in 1 .. Len(daemons) : Quiet(daemons[x])
  BY <1>7 DEF BridgeInv, BetweenChanges
<1>9. \A x \in 1 .. Len(daemons') : Quiet(daemons'[x])
  BY <1>5, <1>8
<1>10. UpToDate'
  <2>1. ASSUME NEW b \in Backends, connections'[b] # 0
        PROVE  daemons'[connections'[b]].snapshot = config
    <3>1. CASE connections'[b] = d
      BY <3>1
    <3>2. CASE connections'[b] # d
      <4>1. connections'[b] = connections[b] /\ daemons'[connections[b]] = daemons[connections[b]]
            /\ connections[b] # 0
        BY <2>1, <3>2
      <4> QED BY <1>8, <4>1 DEF UpToDate
    <3> QED BY <3>1, <3>2
  <2>2. ASSUME NEW x \in Commands, command'[x].daemon # 0
        PROVE  daemons'[command'[x].daemon].snapshot = config
    BY <1>8, <2>2 DEF UpToDate
  <2> QED BY <2>1, <2>2 DEF UpToDate
<1> QED BY <1>3, <1>4, <1>6, <1>7, <1>9, <1>10 DEF BridgeInv, BetweenChanges, DuringChange

LEMMA ReuseKeeps ==
  ASSUME BridgeInv, NEW c \in Commands, Reuse(c)
  PROVE  BridgeInv'
<1> DEFINE d == connections[command[c].backend]
<1>1. CallAt(c, "ensure") /\ d # 0 /\ command' = Found(c, d)
      /\ UNCHANGED <<config, daemons, connections, lifecycle>>
  BY DEF Reuse, NoDaemon_
<1>2. BridgeTypes /\ Active(c) /\ ~Underway(c) /\ command[c].backend \in Backends
  BY <1>1, CallFacts DEF CallAt, Active, Underway
<1>3. d \in 1 .. Len(daemons) /\ d \in Nat /\ Len(daemons) \in Nat
      /\ \A b \in Backends : connections[b] \in 0 .. Len(daemons)
  BY <1>1, <1>2 DEF BridgeTypes
<1>4. \A x \in Commands : ~Underway(x)
  BY <1>2, CallFacts
<1>5. daemons[d].snapshot = config
  BY <1>1, <1>2, <1>4 DEF BridgeInv, BetweenChanges, UpToDate
<1>6. /\ command' \in [Commands -> Called] /\ command'[c].daemon = d
      /\ command'[c].kind = command[c].kind /\ command'[c].backend = command[c].backend
      /\ \/ command'[c].pc = "look" /\ command'[c].answer.kind = "none"
         \/ command'[c].pc = "answered" /\ command'[c].answer.from = d /\ command[c].kind = "initialize"
      /\ \A x \in Commands : x # c => command'[x] = command[x]
  BY <1>1, <1>3, FoundFacts
<1> HIDE DEF d
<1> QED BY <1>1, <1>2, <1>3, <1>5, <1>6, TakesUpKeeps DEF CallAt, Change, BridgeTypes

LEMMA SpawnKeeps ==
  ASSUME BridgeInv, NEW c \in Commands, SpawnConnection(c), daemons' = Append(Survivors, Started(config)),
         command' = [command EXCEPT ![c].daemon = Len(daemons) + 1, ![c].greeting = TRUE, ![c].pc = "look"],
         UNCHANGED lifecycle
  PROVE  BridgeInv'
<1> DEFINE d == Len(daemons) + 1
           b == command[c].backend
           u == [command[c] EXCEPT !.daemon = d]
           v == [u EXCEPT !.greeting = TRUE]
           t == [v EXCEPT !.pc = "look"]
<1>1. CallAt(c, "ensure") /\ UNCHANGED config /\ connections' = [connections EXCEPT ![b] = 0]
  BY DEF SpawnConnection, NoDaemon_
<1>2. /\ BridgeTypes /\ Active(c) /\ ~Underway(c) /\ b \in Backends /\ command[c] \in Called
      /\ Len(daemons) \in Nat /\ config \in Nat
  BY <1>1, CallFacts DEF CallAt, Active, Underway, BridgeTypes
<1>3. command' = [command EXCEPT ![c] = t]
  BY <1>2 DEF BridgeTypes
<1>4. d \in Nat
  BY <1>2
<1> HIDE DEF d
<1>5. u \in Called /\ u.daemon = d /\ u.kind = command[c].kind /\ u.backend = command[c].backend
  BY <1>2, <1>4 DEF Called
<1> HIDE DEF u
<1>6. v \in Called /\ v.daemon = d /\ v.kind = command[c].kind /\ v.backend = command[c].backend
  BY <1>5 DEF Called
<1> HIDE DEF v
<1>7. t \in Called /\ t.daemon = d /\ t.kind = command[c].kind /\ t.backend = command[c].backend /\ t.pc = "look"
  BY <1>6 DEF Called, CallPlaces
<1> HIDE DEF t
<1>8. command'[c] = t /\ command' \in [Commands -> Called] /\ \A x \in Commands : x # c => command'[x] = command[x]
  BY <1>2, <1>3, <1>7 DEF BridgeTypes
<1>9. /\ Survivors \in Seq(Processes) /\ Len(Survivors) = Len(daemons)
      /\ \A x \in 1 .. Len(daemons) :
           /\ Survivors[x] \in {daemons[x], Gone}
           /\ \A y \in Backends : connections'[y] = x => Survivors[x] = daemons[x]
           /\ \A y \in Commands : (command')[y].daemon = x => Survivors[x] = daemons[x]
  BY <1>2, Survive
<1>10. Started(config) \in Processes /\ Started(config).snapshot = config
  BY <1>2, StartedFacts
<1> DEFINE s == Survivors
           new == Started(config)
<1> HIDE DEF s, new
<1>11. /\ daemons' \in Seq(Processes) /\ Len(daemons') = d /\ daemons'[d] = new
       /\ \A x \in 1 .. Len(daemons) : daemons'[x] = s[x]
  BY <1>2, <1>9, <1>10 DEF d, s, new
<1>12. d \in 1 .. Len(daemons') /\ Len(daemons) <= Len(daemons')
       /\ \A x \in 1 .. Len(daemons') : x \notin 1 .. Len(daemons) => x = d
  BY <1>2, <1>11 DEF d
<1>13. \A x \in 1 .. Len(daemons) : daemons'[x] \in {daemons[x], Gone}
  BY <1>9, <1>11 DEF s
<1>14. \A x \in 1 .. Len(daemons') : x \notin 1 .. Len(daemons) => daemons'[x] = Started(config)
  BY <1>11, <1>12 DEF new
<1>15. connections' \in [Backends -> 0 .. Len(daemons')]
       /\ \A y \in Backends : \/ connections'[y] = 0
                              \/ connections'[y] = connections[y] /\ connections[y] \in 1 .. Len(daemons)
  <2>1. connections \in [Backends -> 0 .. Len(daemons)] /\ Len(daemons') \in Nat
    BY <1>2, <1>4, <1>11 DEF BridgeTypes
  <2>2. \A y \in Backends : connections'[y] \in {0, connections[y]} /\ connections'[y] \in 0 .. Len(daemons')
    BY <1>1, <1>2, <1>12, <2>1
  <2>3. connections' = [y \in Backends |-> connections'[y]]
    BY <1>1, <2>1
  <2> HIDE DEF b
  <2> QED BY <1>2, <2>1, <2>2, <2>3
<1>16. \A y \in Backends : \/ connections'[y] \in {0, d}
                           \/ connections'[y] \in 1 .. Len(daemons) /\ connections'[y] = connections[y]
                              /\ daemons'[connections[y]] = daemons[connections[y]]
  BY <1>9, <1>11, <1>15 DEF s
<1>17. ASSUME NEW x \in Commands, x # c, command[x].daemon # 0
       PROVE  daemons'[command[x].daemon] = daemons[command[x].daemon]
  <2>1. command[x].daemon \in 1 .. Len(daemons) /\ command'[x].daemon = command[x].daemon
    BY <1>2, <1>8, <1>17 DEF BridgeTypes
  <2> QED BY <1>9, <1>11, <2>1 DEF s
<1>18. daemons'[d].snapshot = config
  BY <1>10, <1>11 DEF new
<1>19. /\ command'[c].kind = command[c].kind /\ command'[c].backend = command[c].backend
       /\ command'[c].pc = "look" /\ command'[c].daemon = d /\ UNCHANGED <<config, lifecycle>>
       /\ command[c].pc \in {"ensure", "answered"}
  BY <1>1, <1>7, <1>8 DEF CallAt
<1> QED
  BY ONLY BridgeInv, c \in Commands, <1>2, <1>8, <1>11, <1>12, <1>13, <1>14, <1>15, <1>16, <1>17, <1>18, <1>19, TakesUpKeeps

LEMMA GreetedKeeps ==
  ASSUME BridgeInv, NEW c \in Commands, Greeted(c), command[c].answer.kind = "result"
  PROVE  BridgeInv'
<1> DEFINE d == command[c].daemon
           b == command[c].backend
<1>1. /\ CallAt(c, "answered") /\ command[c].greeting /\ UNCHANGED <<config, lifecycle>>
      /\ connections' = [connections EXCEPT ![b] = d] /\ command' = Found(c, d) /\ daemons' = Survivors
  BY DEF Greeted
<1>2. /\ BridgeTypes /\ Active(c) /\ ~Underway(c) /\ b \in Backends /\ d \in 1 .. Len(daemons)
      /\ Len(daemons) \in Nat /\ d \in Nat
  BY <1>1, CallFacts DEF CallAt, Active, Underway, BridgeTypes
<1>3. \A x \in Commands : ~Underway(x)
  BY <1>2, CallFacts
<1>4. daemons[d].snapshot = config
  BY <1>2, <1>3 DEF BridgeInv, BetweenChanges, UpToDate
<1>5. /\ command' \in [Commands -> Called] /\ command'[c].daemon = d
      /\ command'[c].kind = command[c].kind /\ command'[c].backend = command[c].backend
      /\ \/ command'[c].pc = "look" /\ command'[c].answer.kind = "none"
         \/ command'[c].pc = "answered" /\ command'[c].answer.from = d /\ command[c].kind = "initialize"
      /\ \A x \in Commands : x # c => command'[x] = command[x]
  BY <1>1, <1>2, FoundFacts
<1>6. /\ daemons' \in Seq(Processes) /\ Len(daemons') = Len(daemons)
      /\ \A x \in 1 .. Len(daemons) :
           /\ daemons'[x] \in {daemons[x], Gone}
           /\ \A y \in Backends : connections'[y] = x => daemons'[x] = daemons[x]
           /\ \A y \in Commands : (command')[y].daemon = x => daemons'[x] = daemons[x]
  BY <1>1, <1>2, Survive
<1>7. daemons'[d].snapshot = config
  BY <1>2, <1>4, <1>5, <1>6
<1>8. connections' \in [Backends -> 0 .. Len(daemons')]
      /\ \A y \in Backends : \/ connections'[y] \in {0, d}
                             \/ connections'[y] = connections[y] /\ connections[y] \in 1 .. Len(daemons)
  BY <1>1, <1>2, <1>6 DEF BridgeTypes
<1>9. \A y \in Backends : \/ connections'[y] \in {0, d}
                          \/ connections'[y] \in 1 .. Len(daemons) /\ connections'[y] = connections[y]
                             /\ daemons'[connections[y]] = daemons[connections[y]]
  BY <1>6, <1>8
<1>10. ASSUME NEW x \in Commands, x # c, command[x].daemon # 0
       PROVE  daemons'[command[x].daemon] = daemons[command[x].daemon]
  <2>1. command[x].daemon \in 1 .. Len(daemons) /\ command'[x].daemon = command[x].daemon
    BY <1>2, <1>5, <1>10 DEF BridgeTypes
  <2> QED BY <1>6, <2>1
<1> HIDE DEF d
<1> QED BY <1>1, <1>2, <1>5, <1>6, <1>7, <1>8, <1>9, <1>10, TakesUpKeeps DEF CallAt, Change

\* A call is over; it leaves the lock, and its connection. A change that may
\* have reached its daemon leaves no connection at all.
LEMMA LeavesKeeps ==
  ASSUME BridgeInv, NEW c \in Commands, Active(c), command[c].pc \in {"ensure", "answered"}, Leaves(c),
         UNCHANGED config, daemons' = Survivors, connections' \in [Backends -> 0 .. Len(daemons)],
         \A b \in Backends : connections'[b] \in {0, connections[b]},
         Underway(c) => \A b \in Backends : connections'[b] = 0
  PROVE  BridgeInv'
<1>1. /\ BridgeTypes /\ command' = [command EXCEPT ![c] = Resting_] /\ c # NoOne
      /\ lifecycle' = [lifecycle EXCEPT !.readers = @ \ {c}, !.writer = IF @ = c THEN NoOne ELSE @]
  BY CallFacts DEF Leaves
<1>2. Resting_ \in Called /\ Resting_.daemon = 0 /\ Resting_.pc = "idle"
  BY DEF Resting_, Called, CallPlaces, Silent, NoDaemon_
<1>3. /\ command' \in [Commands -> Called] /\ command'[c].daemon = 0 /\ command'[c].pc = "idle"
      /\ \A x \in Commands : x # c => command'[x] = command[x]
  BY <1>1, <1>2 DEF BridgeTypes
<1>4. /\ lifecycle'.readers = lifecycle.readers \ {c}
      /\ lifecycle'.writer = (IF lifecycle.writer = c THEN NoOne ELSE lifecycle.writer)
      /\ lifecycle' = [readers |-> lifecycle'.readers, writer |-> lifecycle'.writer, queue |-> lifecycle'.queue]
  <2> DEFINE r == [lifecycle EXCEPT !.readers = @ \ {c}]
  <2>1. lifecycle' = [r EXCEPT !.writer = IF @ = c THEN NoOne ELSE @]
    BY <1>1
  <2>2. r.readers = lifecycle.readers \ {c} /\ r.writer = lifecycle.writer
        /\ r = [readers |-> r.readers, writer |-> r.writer, queue |-> r.queue]
    <3>1. lifecycle = [readers |-> lifecycle.readers, writer |-> lifecycle.writer, queue |-> lifecycle.queue]
      BY <1>1 DEF BridgeTypes
    <3>2. r = [readers |-> lifecycle.readers \ {c}, writer |-> lifecycle.writer, queue |-> lifecycle.queue]
      BY ONLY <3>1
    <3> HIDE DEF r
    <3> QED BY <3>2
  <2> HIDE DEF r
  <2> QED BY <2>1, <2>2
<1>5. /\ daemons' \in Seq(Processes) /\ Len(daemons') = Len(daemons) /\ Len(daemons) \in Nat
      /\ \A x \in 1 .. Len(daemons) :
           /\ daemons'[x] \in {daemons[x], Gone}
           /\ \A y \in Backends : connections'[y] = x => daemons'[x] = daemons[x]
           /\ \A y \in Commands : (command')[y].daemon = x => daemons'[x] = daemons[x]
           /\ (\A b \in Backends : connections'[b] = 0) /\ (\A y \in Commands : (command')[y].daemon = 0) =>
                daemons'[x] = Gone
  <2>1. daemons' = Survivors /\ Len(daemons) \in Nat
    BY <1>1 DEF BridgeTypes
  <2> QED BY <1>1, <2>1, Survive
<1>6. BridgeTypes'
  BY <1>1, <1>3, <1>4, <1>5 DEF BridgeTypes
<1>7. LockHeld'
  BY <1>3, <1>4 DEF BridgeInv, LockHeld, Active, Change
<1>8. \A x \in Commands : x # c /\ command[x].daemon # 0 => daemons'[command[x].daemon] = daemons[command[x].daemon]
  <2>1. \A x \in Commands : x # c /\ command[x].daemon # 0 =>
          command[x].daemon \in 1 .. Len(daemons) /\ command'[x].daemon = command[x].daemon
    BY <1>1, <1>3, <1>5 DEF BridgeTypes
  <2> QED BY <1>5, <2>1
<1>9. AnswersMatch' /\ NumbersFresh'
  <2>1. \A x \in 1 .. Len(daemons') :
          \/ x \in 1 .. Len(daemons) /\ daemons'[x] = daemons[x]
          \/ daemons'[x].pending = {} /\ daemons'[x].inbox = <<>> /\ daemons'[x].outbox = <<>>
    BY <1>5, GoneFacts
  <2> QED BY <1>3, <1>8, <2>1, RequestsKept
<1>10. \A x \in Commands : ~Underway(x)'
  <2>1. \A x \in Commands \ {c} : ~Underway(x)
    BY CallFacts
  <2> QED BY <1>3, <2>1 DEF Underway, Change
<1>11. (\A x \in 1 .. Len(daemons) : Quiet(daemons'[x])) /\ UpToDate'
  <2>1. CASE Underway(c)
    <3>1. \A x \in Commands : command'[x].daemon = 0
      BY <1>3, <2>1, CallFacts DEF Underway, Active
    <3> QED BY <1>5, <2>1, <3>1, GoneFacts DEF UpToDate
  <2>2. CASE ~Underway(c)
    <3>1. \A x \in Commands : ~Underway(x)
      BY <2>2, CallFacts
    <3>2. UpToDate /\ \A x \in 1 .. Len(daemons) : Quiet(daemons[x])
      BY <3>1 DEF BridgeInv, BetweenChanges
    <3>3. \A b \in Backends : connections'[b] # 0 =>
            connections'[b] = connections[b] /\ connections[b] \in 1 .. Len(daemons)
      BY <1>5
    <3>4. \A b \in Backends : connections'[b] # 0 => daemons'[connections'[b]].snapshot = config
      BY <1>5, <3>2, <3>3 DEF UpToDate
    <3>5. \A x \in Commands : command'[x].daemon # 0 => daemons'[command'[x].daemon].snapshot = config
      BY <1>3, <1>8, <3>2 DEF UpToDate
    <3> QED BY <1>5, <3>2, <3>4, <3>5, GoneFacts DEF UpToDate
  <2> QED BY <2>1, <2>2
<1> QED BY <1>5, <1>6, <1>7, <1>9, <1>10, <1>11 DEF BridgeInv, BetweenChanges, DuringChange

LEMMA BridgeKept ==
  ASSUME BridgeInv, [BridgeNext]_bridgeVars
  PROVE  BridgeInv'
<1>1. ASSUME NEW c \in Commands, BridgeStep(c)
      PROVE  BridgeInv'
  <2>1. CASE SpawnConnection(c)
    <3>1. CallAt(c, "ensure") /\ UNCHANGED config /\ connections' = [connections EXCEPT ![command[c].backend] = 0]
      BY <2>1 DEF SpawnConnection, NoDaemon_
    <3>2. Active(c) /\ ~Underway(c) /\ BridgeTypes
      BY <3>1, CallFacts DEF CallAt, Active, Underway
    <3>3. CASE Leaves(c) /\ daemons' = Survivors
      <4>1. connections' \in [Backends -> 0 .. Len(daemons)] /\ \A b \in Backends : connections'[b] \in {0, connections[b]}
        <5>1. connections \in [Backends -> 0 .. Len(daemons)] /\ Len(daemons) \in Nat
          BY <3>2 DEF BridgeTypes
        <5> DEFINE x == command[c].backend
        <5>2. connections' = [connections EXCEPT ![x] = 0]
          BY <3>1
        <5> HIDE DEF x
        <5>3. \A b \in Backends : connections'[b] \in {0, connections[b]} /\ connections'[b] \in 0 .. Len(daemons)
          BY <5>1, <5>2
        <5>4. connections' = [b \in Backends |-> connections'[b]]
          BY <5>1, <5>2
        <5> QED BY <5>1, <5>3, <5>4
      <4> QED BY <3>1, <3>2, <3>3, <4>1, LeavesKeeps DEF CallAt
    <3>4. CASE /\ command' = [command EXCEPT ![c].daemon = Len(daemons) + 1, ![c].greeting = TRUE, ![c].pc = "look"]
               /\ daemons' = Append(Survivors, Started(config)) /\ UNCHANGED lifecycle
      BY <2>1, <3>4, SpawnKeeps
    <3> QED BY <2>1, <3>3, <3>4 DEF SpawnConnection
  <2>2. CASE Greeted(c)
    <3>1. CASE command[c].answer.kind = "result"
      BY <2>2, <3>1, GreetedKeeps
    <3>2. CASE command[c].answer.kind # "result"
      <4>1. CallAt(c, "answered") /\ command[c].greeting /\ Leaves(c) /\ UNCHANGED <<connections, config>>
            /\ daemons' = Survivors
        BY <2>2, <3>2 DEF Greeted
      <4>2. connections \in [Backends -> 0 .. Len(daemons)] /\ Active(c) /\ ~Underway(c)
        BY <4>1, CallFacts DEF BridgeTypes, CallAt, Active, Underway
      <4> QED BY <4>1, <4>2, LeavesKeeps DEF CallAt
    <3> QED BY <3>1, <3>2
  <2>3. CASE ReturnAnswer(c)
    <3>1. /\ CallAt(c, "answered") /\ Leaves(c) /\ UNCHANGED config /\ daemons' = Survivors
          /\ (IF Change(c) THEN connections' = [b \in Backends |-> 0] ELSE UNCHANGED connections)
      BY <2>3 DEF ReturnAnswer, GivenUp, NoDaemon_
    <3>2. connections \in [Backends -> 0 .. Len(daemons)] /\ Active(c) /\ Len(daemons) \in Nat
      BY <3>1, CallFacts DEF BridgeTypes, CallAt, Active
    <3>3. connections' \in [Backends -> 0 .. Len(daemons)] /\ \A b \in Backends : connections'[b] \in {0, connections[b]}
      BY <3>1, <3>2
    <3>4. Underway(c) => \A b \in Backends : connections'[b] = 0
      BY <3>1 DEF Underway
    <3> QED BY <3>1, <3>2, <3>3, <3>4, LeavesKeeps DEF CallAt
  <2> QED BY <1>1, <2>1, <2>2, <2>3, EnterLifecycleKeeps, ReuseKeeps, LookHealthyKeeps, RegisterKeeps,
             TakeWriterKeeps, WriteFailsKeeps, TimeOutKeeps DEF BridgeStep
<1>2. ASSUME NEW d \in DOMAIN daemons,
             Handle(d) \/ DaemonBreaks(d) \/ HandleFrame(d) \/ ReaderEnds(d) \/ DrainPending(d)
      PROVE  BridgeInv'
  <2>1. d \in 1 .. Len(daemons)
    BY DEF BridgeInv, BridgeTypes
  <2> QED BY <1>2, <2>1, HandleKeeps, DaemonBreaksKeeps, HandleFrameKeeps, ReaderEndsKeeps, DrainPendingKeeps
<1>3. CASE UNCHANGED bridgeVars
  BY <1>3 DEF bridgeVars, BridgeInv, BridgeTypes, LockHeld, AnswersMatch, NumbersFresh, BetweenChanges,
              DuringChange, UpToDate, Underway, Active, Change, CallAt, Unsent
<1> QED BY <1>1, <1>2, <1>3, IssueKeeps, WriteSendsKeeps DEF BridgeNext

(* An answer with a result comes from a daemon that knows the configuration *)
(* as it is, a change's own included; whatever died, broke or came late     *)
(* before (application_service_bridge.rs: with_state_mutation, invalidate;  *)
(* daemon.rs: request, reader_loop).                                        *)
THEOREM AnswersStayCurrent == BridgeInit /\ [][BridgeNext]_bridgeVars => []AnswersCurrent
<1>1. BridgeInit => BridgeInv
  <2> SUFFICES ASSUME BridgeInit PROVE BridgeInv
    OBVIOUS
  <2>1. Resting_ \in Called /\ Resting_.daemon = 0 /\ Resting_.pc = "idle"
    BY DEF Resting_, Called, CallPlaces, Silent, NoDaemon_
  <2>2. \A c \in Commands : command[c] = Resting_
    BY DEF BridgeInit
  <2>3. BridgeTypes
    BY <2>1, <2>2 DEF BridgeInit, BridgeTypes, NoDaemon_
  <2> QED BY <2>1, <2>2, <2>3 DEF BridgeInit, BridgeInv, LockHeld, AnswersMatch, NumbersFresh, BetweenChanges,
             DuringChange, UpToDate, Underway, Active, CallAt, NoDaemon_, Unsent
<1>2. BridgeInv => AnswersCurrent
  <2> SUFFICES ASSUME BridgeInv, NEW c \in Commands, CallAt(c, "answered"), command[c].answer.kind = "result",
                      ~command[c].greeting
               PROVE  config = daemons[command[c].answer.from].snapshot + (IF Change(c) THEN 1 ELSE 0)
    BY DEF AnswersCurrent
  <2>1. command[c].answer.from = command[c].daemon
    BY DEF BridgeInv, AnswersMatch
  <2>2. Active(c) /\ command[c].daemon \in 1 .. Len(daemons) /\ daemons[command[c].daemon].snapshot \in Nat
    BY CallFacts DEF CallAt, Active, Processes
  <2>3. CASE Change(c)
    BY <2>1, <2>3 DEF BridgeInv, DuringChange, Carries, Underway, CallAt
  <2>4. CASE ~Change(c)
    <3>1. UpToDate
      BY <2>2, <2>4, CallFacts DEF BridgeInv, BetweenChanges
    <3> QED BY <2>1, <2>2, <2>4, <3>1 DEF UpToDate
  <2> QED BY <2>3, <2>4
<1>3. BridgeInv /\ [BridgeNext]_bridgeVars => BridgeInv'
  BY BridgeKept
<1> QED BY <1>1, <1>2, <1>3, PTL

-----------------------------------------------------------------------------
(* Which models a process offers and runs.                                 *)

RoutingTypes ==
  /\ configured \in [CustomIds -> Connections \cup {Absent}]
  /\ installed \in [Relays -> RelayRoutes \cup {Absent}]
  /\ \A i \in CustomIds : configured[i] # Absent => i \notin CanonicalIds

\* A connection as a process found it when it started, and its adapter.
FoundConnection(c) ==
  /\ c.id \in CustomIds \ CanonicalIds /\ c.models # {}
  /\ \E k \in Connections : c.family = k.family /\ c.models = k.models /\ c.images = k.imageIn
CustomAdapter(c) == Adapter(c.id, c.family, c.models, c.images, c.needs)
RelayAdapter(a) == a.id \in Relays /\ \E r \in RelayRoutes : a.models = r.models

\* What a process has frozen is what its environment and one look at the files gave it.
FrozenWell(p) ==
  /\ p.env \in Environments /\ p.mode = Mode(p.env) /\ p.mode # "refused"
  /\ p.mode = "identity" => p.routes = {} /\ p.custom = {} /\ p.registry = {Faux}
  /\ p.mode # "identity" =>
       /\ p.routes = Snapshot(p.env)
       /\ \A c \in p.custom : FoundConnection(c)
       /\ \A c, d \in p.custom : c.id = d.id => c = d
       /\ \A a \in p.registry : \/ a = Faux \/ a \in RouteAdapters(p.env)
                                \/ a \in LegacyAdapters(p.env) \/ RelayAdapter(a)
                                \/ \E c \in p.custom : a = CustomAdapter(c)
       /\ {Faux} \cup RouteAdapters(p.env) \cup LegacyAdapters(p.env) \subseteq p.registry
       /\ \A c \in p.custom : CustomAdapter(c) \in p.registry
       /\ \A c \in p.custom : \A a \in p.registry : a.id = c.id => a = CustomAdapter(c)

RoutingInv == RoutingTypes /\ (process # Absent => FrozenWell(process))

LEMMA AdapterFields ==
  ASSUME NEW i, NEW f, NEW m, NEW g, NEW n
  PROVE  /\ Adapter(i, f, m, g, n).id = i /\ Adapter(i, f, m, g, n).family = f
         /\ Adapter(i, f, m, g, n).models = m /\ Adapter(i, f, m, g, n).images = g
         /\ Adapter(i, f, m, g, n).needs = n
BY DEF Adapter

(* The connections one look finds.                                           *)
LEMMA SnapshotFinds ==
  ASSUME RoutingTypes
  PROVE  /\ \A c \in RuntimeSnapshot : FoundConnection(c)
         /\ \A c, d \in RuntimeSnapshot : c.id = d.id => c = d
<1> DEFINE f(i) == [id |-> i, family |-> configured[i].family, models |-> configured[i].models,
                    images |-> configured[i].imageIn,
                    needs |-> {Key(i)} \cup (IF configured[i].imageOut /\ ImageKey(i) \in stored
                                             THEN {ImageKey(i)} ELSE {})]
           found == {j \in CustomIds : /\ configured[j] # Absent /\ configured[j].enabled
                                       /\ configured[j].models # {} /\ Key(j) \in stored}
<1>1. RuntimeSnapshot = {f(i) : i \in found}
  BY DEF RuntimeSnapshot
<1>2. \A i \in found : /\ i \in CustomIds \ CanonicalIds /\ configured[i] \in Connections
                       /\ configured[i].models # {}
  BY DEF RoutingTypes
<1>3. \A i : /\ f(i).id = i /\ f(i).family = configured[i].family
             /\ f(i).models = configured[i].models /\ f(i).images = configured[i].imageIn
  OBVIOUS
<1> HIDE DEF f, found
<1> QED BY <1>1, <1>2, <1>3 DEF FoundConnection

LEMMA StartsWell ==
  ASSUME RoutingTypes, NEW env \in Environments, Mode(env) # "refused", ~Conflicts(env)
  PROVE  FrozenWell(AtStart(env))
<1> DEFINE p == AtStart(env)
<1>1. /\ p.env = env /\ p.mode = Mode(env)
      /\ p.routes = (IF Mode(env) = "identity" THEN {} ELSE Snapshot(env))
      /\ p.custom = (IF Mode(env) = "identity" THEN {} ELSE RuntimeSnapshot)
      /\ p.registry = (BaseRegistry(env)
                        \cup IF Mode(env) = "identity" THEN {} ELSE CustomAdapters)
  BY DEF AtStart
<1> HIDE DEF p
<1>2. CASE Mode(env) = "identity"
  <2>1. p.registry = {Faux}
    BY <1>1, <1>2 DEF BaseRegistry
  <2> QED BY <1>1, <1>2, <2>1 DEF FrozenWell, p
<1>3. CASE Mode(env) # "identity"
  <2>1. /\ p.routes = Snapshot(env) /\ p.custom = RuntimeSnapshot
        /\ p.registry = BaseRegistry(env) \cup CustomAdapters
        /\ BaseRegistry(env) = {Faux} \cup (RouteAdapters(env) \cup RelayAdapters \cup LegacyAdapters(env))
        /\ CustomAdapters = {CustomAdapter(c) : c \in p.custom}
    BY <1>1, <1>3 DEF BaseRegistry, CustomAdapters, CustomAdapter
  <2>2. \A a \in RelayAdapters : RelayAdapter(a)
    <3> TAKE a \in RelayAdapters
    <3>1. PICK e \in Relays : /\ installed[e] # Absent
                              /\ a = Adapter(e, installed[e].family, installed[e].models, FALSE, {Key(e)})
      BY DEF RelayAdapters
    <3>2. installed[e] \in RelayRoutes
      BY <3>1 DEF RoutingTypes
    <3>3. a.id = e /\ a.models = installed[e].models
      BY <3>1 DEF Adapter
    <3> QED BY <3>2, <3>3 DEF RelayAdapter
  <2>3. \A c \in p.custom : CustomAdapter(c).id = c.id
    BY AdapterFields DEF CustomAdapter
  <2>4. ASSUME NEW c \in p.custom, NEW a \in p.registry, a.id = c.id PROVE a = CustomAdapter(c)
    <3>1. CASE a \in BaseRegistry(env)
      <4>1. CustomAdapter(c) \in CustomAdapters
        BY <2>1
      <4>2. Conflicts(env)
        BY <1>3, <2>3, <2>4, <3>1, <4>1 DEF Conflicts
      <4> QED BY <4>2
    <3>2. CASE a \in CustomAdapters
      <4>1. PICK d \in p.custom : a = CustomAdapter(d)
        BY <2>1, <3>2
      <4>2. d.id = c.id
        BY <2>3, <2>4, <4>1
      <4> QED BY <2>1, <4>1, <4>2, SnapshotFinds
    <3> QED BY <2>1, <2>4, <3>1, <3>2
  <2>5. \A c \in p.custom : CustomAdapter(c) \in p.registry
    BY <2>1
  <2>6. \A a \in p.registry : \/ a = Faux \/ a \in RouteAdapters(p.env)
                              \/ a \in LegacyAdapters(p.env) \/ RelayAdapter(a)
                              \/ \E c \in p.custom : a = CustomAdapter(c)
    BY <1>1, <2>1, <2>2
  <2> QED BY <1>1, <1>3, <2>1, <2>4, <2>5, <2>6, SnapshotFinds DEF FrozenWell, p
<1> QED BY <1>2, <1>3

LEMMA RoutingKept ==
  ASSUME RoutingInv, [RoutingNext]_routingVars
  PROVE  RoutingInv'
<1> USE DEF RoutingInv
<1>1. ASSUME UNCHANGED process PROVE process' # Absent => FrozenWell(process')
  BY <1>1
<1>2. ASSUME NEW env \in Environments, StartDaemon(env) PROVE RoutingInv'
  <2>1. /\ process' = AtStart(env) /\ UNCHANGED <<configured, stored, installed>>
        /\ FrozenWell(AtStart(env))
    BY <1>2, StartsWell DEF StartDaemon
  <2>2. FrozenWell(process')
    BY <2>1
  <2> QED BY <2>1, <2>2 DEF RoutingTypes
<1>3. CASE StopDaemon
  BY <1>3 DEF StopDaemon, RoutingTypes
<1>4. ASSUME NEW i \in CustomIds, EditConnection(i) PROVE RoutingInv'
  BY <1>4 DEF EditConnection, RoutingTypes
<1>5. ASSUME NEW k \in Keys, SetKey(k) \/ RemoveKey(k) PROVE RoutingInv'
  BY <1>5 DEF SetKey, RemoveKey, RoutingTypes
<1>6. ASSUME NEW e \in Relays, InstallRelay(e) PROVE RoutingInv'
  BY <1>6 DEF InstallRelay, RoutingTypes
<1>7. CASE UNCHANGED routingVars
  BY <1>7 DEF routingVars, RoutingTypes
<1> QED BY <1>2, <1>3, <1>4, <1>5, <1>6, <1>7 DEF RoutingNext

LEMMA RoutingAlways ==
  RoutingSpec => []RoutingInv
<1>1. RoutingInit => RoutingInv
  BY DEF RoutingInit, RoutingInv, RoutingTypes
<1> QED BY <1>1, RoutingKept, PTL DEF RoutingSpec

LEMMA RoutesAreSpecs ==
  ASSUME NEW env, NEW r \in Snapshot(env)
  PROVE  \E s \in Specs :
           /\ r.id = s.id /\ r.family = s.family /\ r.images = s.images /\ CredentialAvailable(env, s)
           /\ Mode(env) = "config" => /\ s.id = env.config.id /\ s.family = env.config.family
                                      /\ r.models = {env.config.model}
           /\ Mode(env) # "config" => r.models = s.models
<1> DEFINE chosen == {s \in Specs : Mode(env) = "config" =>
                        s.id = env.config.id /\ s.family = env.config.family}
           models(s) == IF Mode(env) = "config" THEN {env.config.model} ELSE s.models
           route(s) == [id |-> s.id, family |-> s.family, models |-> models(s), images |-> s.images]
<1>1. PICK s \in chosen : CredentialAvailable(env, s) /\ r = route(s)
  BY DEF Snapshot
<1>2. route(s).id = s.id /\ route(s).family = s.family /\ route(s).models = models(s)
      /\ route(s).images = s.images
  OBVIOUS
<1> HIDE DEF route
<1> QED BY <1>1, <1>2

LEMMA RoutesDiffer ==
  ASSUME NEW env, NEW r \in Snapshot(env), NEW q \in Snapshot(env), r.id = q.id, r.family = q.family
  PROVE  r = q
<1> DEFINE chosen == {s \in Specs : Mode(env) = "config" =>
                        s.id = env.config.id /\ s.family = env.config.family}
           models(s) == IF Mode(env) = "config" THEN {env.config.model} ELSE s.models
           route(s) == [id |-> s.id, family |-> s.family, models |-> models(s), images |-> s.images]
<1>1. PICK s \in chosen : r = route(s)
  BY DEF Snapshot
<1>2. PICK t \in chosen : q = route(t)
  BY DEF Snapshot
<1>3. \A x : route(x).id = x.id /\ route(x).family = x.family
  OBVIOUS
<1> HIDE DEF route
<1>4. s.id = t.id /\ s.family = t.family /\ s \in Specs /\ t \in Specs
  BY <1>1, <1>2, <1>3
<1>5. s = t
  BY <1>4, RoutingAssumption
<1> QED BY <1>1, <1>2, <1>5

RouteAdapter(r) == Adapter(r.id, r.family, r.models, FALSE, {})
LegacyAdapter(l) == Adapter(l.id, l.family, l.models, l.images, {})

LEMMA RouteAdaptersAre ==
  ASSUME NEW env
  PROVE  /\ \A a \in RouteAdapters(env) : \E r \in Snapshot(env) : a = RouteAdapter(r)
         /\ \A r \in Snapshot(env) : RouteAdapter(r) \in RouteAdapters(env)
BY DEF RouteAdapters, RouteAdapter

LEMMA LegacyAdaptersAre ==
  ASSUME NEW env
  PROVE  /\ \A a \in LegacyAdapters(env) :
              \E l \in Legacy : EndpointSet(env, l.id) /\ l.key \in env.keys /\ a = LegacyAdapter(l)
         /\ \A l \in Legacy : EndpointSet(env, l.id) /\ l.key \in env.keys =>
              LegacyAdapter(l) \in LegacyAdapters(env)
BY DEF LegacyAdapters, LegacyAdapter

LEMMA RouteFields ==
  \A r : /\ RouteAdapter(r).id = r.id /\ RouteAdapter(r).family = r.family
        /\ RouteAdapter(r).models = r.models /\ RouteAdapter(r).images = FALSE
        /\ RouteAdapter(r).needs = {}
BY DEF RouteAdapter, Adapter

LEMMA LegacyFields ==
  \A l : /\ LegacyAdapter(l).id = l.id /\ LegacyAdapter(l).family = l.family
        /\ LegacyAdapter(l).models = l.models /\ LegacyAdapter(l).images = l.images
        /\ LegacyAdapter(l).needs = {}
BY DEF LegacyAdapter, Adapter

LEMMA CustomFields ==
  \A c : /\ CustomAdapter(c).id = c.id /\ CustomAdapter(c).family = c.family
        /\ CustomAdapter(c).models = c.models /\ CustomAdapter(c).images = c.images
        /\ CustomAdapter(c).needs = c.needs
BY DEF CustomAdapter, Adapter

LEMMA FauxFields ==
  Faux.id = "faux" /\ Faux.family = NoFamily /\ Faux.models = AnyModel /\ Faux.needs = {}
BY DEF Faux, Adapter

LEMMA IdsDiffer ==
  /\ \A s \in Specs : s.id # "faux" /\ s.id \notin Relays /\ s.id \in CanonicalIds
  /\ \A l \in Legacy : l.id # "faux" /\ l.id \notin Relays
  /\ \A c : FoundConnection(c) => c.id # "faux" /\ c.id \notin Relays /\ c.id \notin CanonicalIds
  /\ \A a : RelayAdapter(a) => a.id # "faux" /\ a.id \in Relays
<1>1. \A s \in Specs : s.id # "faux" /\ s.id \notin Relays /\ s.id \in CanonicalIds
  BY RoutingAssumption DEF CanonicalIds
<1>2. \A l \in Legacy : l.id # "faux" /\ l.id \notin Relays
  BY RoutingAssumption
<1>3. \A c : FoundConnection(c) => c.id # "faux" /\ c.id \notin Relays /\ c.id \notin CanonicalIds
  BY RoutingAssumption DEF FoundConnection
<1>4. \A a : RelayAdapter(a) => a.id # "faux" /\ a.id \in Relays
  BY RoutingAssumption DEF RelayAdapter
<1> QED BY <1>1, <1>2, <1>3, <1>4

LEMMA RoutesDifferFrom ==
  ASSUME NEW env, NEW r \in Snapshot(env)
  PROVE  r.id # "faux" /\ r.id \notin Relays /\ r.id \in {s.id : s \in Specs} /\ r.id \in CanonicalIds
<1>1. PICK s \in Specs : r.id = s.id
  BY RoutesAreSpecs
<1> QED BY <1>1, IdsDiffer

(* An adapter of another provider than the found ones is one of these.       *)
LEMMA RegistryHas ==
  ASSUME NEW p, FrozenWell(p), p.mode # "identity", NEW a \in p.registry
  PROVE  \/ a = Faux /\ a.id = "faux"
         \/ \E r \in Snapshot(p.env) : a = RouteAdapter(r) /\ a.id = r.id /\ a.family = r.family
         \/ \E l \in Legacy : /\ EndpointSet(p.env, l.id) /\ l.key \in p.env.keys
                             /\ a = LegacyAdapter(l) /\ a.id = l.id /\ a.family = l.family
         \/ RelayAdapter(a)
         \/ \E c \in p.custom : /\ a = CustomAdapter(c) /\ a.id = c.id /\ a.family = c.family
                               /\ FoundConnection(c)
<1>1. \/ a = Faux \/ a \in RouteAdapters(p.env) \/ a \in LegacyAdapters(p.env)
      \/ RelayAdapter(a) \/ \E c \in p.custom : a = CustomAdapter(c) /\ FoundConnection(c)
  BY DEF FrozenWell
<1>2. CASE a = Faux
  BY <1>2, FauxFields
<1>3. CASE a \in RouteAdapters(p.env)
  BY <1>3, RouteAdaptersAre, RouteFields
<1>4. CASE a \in LegacyAdapters(p.env)
  BY <1>4, LegacyAdaptersAre, LegacyFields
<1>5. CASE \E c \in p.custom : a = CustomAdapter(c) /\ FoundConnection(c)
  BY <1>5, CustomFields
<1> QED BY <1>1, <1>2, <1>3, <1>4, <1>5

(* Of one adapter a run is told whether it takes the model and has its keys.  *)
LEMMA ProviderIs ==
  ASSUME NEW p, NEW sel, NEW family, NEW a, sel.images => a.images,
         {x \in p.registry : /\ x.id = sel.id
                             /\ x.family = IF sel.id = "faux" /\ family = "faux"
                                           THEN NoFamily ELSE family} = {a}
  PROVE  ProviderFor(p, sel, family) =
           IF a.models # AnyModel /\ sel.model \notin a.models THEN "invalid"
           ELSE IF ~Available(a) THEN "unavailable" ELSE "accepted"
<1> DEFINE wanted == IF sel.id = "faux" /\ family = "faux" THEN NoFamily ELSE family
           matches == {x \in p.registry : x.id = sel.id /\ x.family = wanted}
<1>1. matches = {a}
  OBVIOUS
<1>2. Cardinality(matches) = 1
  BY <1>1, FS_Singleton
<1>3. matches # {} /\ ~(Cardinality(matches) > 1) /\ (CHOOSE x \in matches : TRUE) = a
  BY <1>1, <1>2
<1> QED BY <1>3 DEF ProviderFor

(* What a run is accepted by is an adapter of the registry.                   *)
LEMMA AcceptedBy ==
  ASSUME NEW p, NEW sel, NEW family, ProviderFor(p, sel, family) = "accepted", sel.id # "faux"
  PROVE  \E a \in p.registry : /\ a.id = sel.id /\ a.family = family
                               /\ a.models = AnyModel \/ sel.model \in a.models
<1> DEFINE wanted == IF sel.id = "faux" /\ family = "faux" THEN NoFamily ELSE family
           matches == {x \in p.registry : x.id = sel.id /\ x.family = wanted}
           a == CHOOSE x \in matches : TRUE
<1>1. matches # {} /\ (a.models = AnyModel \/ sel.model \in a.models)
  BY DEF ProviderFor
<1>2. a \in matches
  BY <1>1
<1> QED BY <1>1, <1>2

(* The four ways of a selection to its adapter.                               *)
LEMMA FauxRuns ==
  ASSUME NEW p, FrozenWell(p), NEW sel, sel.id = "faux", sel.family \in {NoFamily, "faux"},
         sel.images = FALSE
  PROVE  RunStart(p, sel) = "accepted"
<1> DEFINE wanted == IF sel.id = "faux" /\ sel.family = "faux" THEN NoFamily ELSE sel.family
<1>1. wanted = NoFamily
  OBVIOUS
<1>2. {x \in p.registry : x.id = "faux" /\ x.family = NoFamily} = {Faux}
  <2>1. Faux \in p.registry
    BY DEF FrozenWell
  <2>2. ASSUME NEW a \in p.registry, a.id = "faux" PROVE a = Faux
    <3>1. CASE p.mode = "identity"
      BY <2>2, <3>1 DEF FrozenWell
    <3>2. CASE p.mode # "identity"
      BY <2>2, <3>2, RegistryHas, IdsDiffer, RoutesDifferFrom
    <3> QED BY <3>1, <3>2
  <2> QED BY <2>1, <2>2, FauxFields
<1>3. {x \in p.registry : x.id = sel.id /\ x.family = wanted} = {Faux}
  BY <1>1, <1>2
<1> HIDE DEF wanted
<1>4. Faux.models = AnyModel /\ Available(Faux)
  BY FauxFields DEF Available
<1>5. ProviderFor(p, sel, sel.family) = "accepted"
  BY <1>3, <1>4, ProviderIs DEF wanted
<1>6. ResolvedFamily(p, sel) = sel.family
  BY DEF ResolvedFamily
<1>7. KnownProvider(p, sel)
  BY DEF KnownProvider
<1> QED BY <1>5, <1>6, <1>7 DEF RunStart

LEMMA RoutesRun ==
  ASSUME ConfigAlone, NEW p, FrozenWell(p), p.mode # "identity", NEW r \in p.routes, NEW sel,
         sel.id = r.id, sel.model \in r.models, sel.images = FALSE,
         {q \in p.routes : Selects(q, sel)} = {r}
  PROVE  RunStart(p, sel) = "accepted"
<1>1. /\ p.routes = Snapshot(p.env) /\ p.env \in Environments /\ p.mode = Mode(p.env)
      /\ p.mode # "refused"
  BY DEF FrozenWell
<1>2. PICK s \in Specs :
           /\ r.id = s.id /\ r.family = s.family /\ CredentialAvailable(p.env, s)
           /\ p.mode = "config" => s.id = p.env.config.id /\ s.family = p.env.config.family
  BY <1>1, RoutesAreSpecs
<1>3. sel.id # "faux" /\ sel.id = s.id
  BY <1>2, IdsDiffer
<1>4. ASSUME NEW c \in p.custom PROVE c.id # sel.id
  BY <1>3, <1>4, IdsDiffer DEF FrozenWell
<1>5. ResolveRoute(p, sel) = "resolved"
  <2>1. Cardinality({q \in p.routes : Selects(q, sel)}) = 1
    BY FS_Singleton
  <2> QED BY <2>1 DEF ResolveRoute
<1>6. ResolvedFamily(p, sel) = r.family
  <2>1. {q \in p.routes \cup p.custom : Selects(q, sel)} = {r}
    BY <1>4 DEF Selects
  <2> QED BY <1>3, <2>1 DEF ResolvedFamily
<1>7. {x \in p.registry : x.id = sel.id /\ x.family = r.family} = {RouteAdapter(r)}
  <2>1. RouteAdapter(r) \in p.registry /\ RouteAdapter(r).id = sel.id /\ RouteAdapter(r).family = r.family
    BY <1>1, RouteAdaptersAre, RouteFields DEF FrozenWell
  <2>2. ASSUME NEW a \in p.registry, a.id = sel.id, a.family = r.family PROVE a = RouteAdapter(r)
    <3>1. ASSUME NEW l \in Legacy, EndpointSet(p.env, l.id), l.key \in p.env.keys,
                 a.id = l.id, a.family = l.family
          PROVE  FALSE
      <4>1. l.id = s.id /\ l.family = s.family
        BY <1>2, <1>3, <2>2, <3>1
      <4>2. p.mode # "production"
        BY <1>1, <1>2, <3>1, <4>1 DEF CredentialAvailable
      <4>3. Mode(p.env) \in {"config", "refused", "identity", "production"}
        BY DEF Mode
      <4>4. p.mode = "config"
        BY <1>1, <4>2, <4>3
      <4>5. l.family # p.env.config.family
        BY <1>1, <3>1, <4>1, <4>4 DEF ConfigAlone
      <4> QED BY <1>2, <4>1, <4>4, <4>5
    <3>2. ASSUME NEW q \in Snapshot(p.env), a = RouteAdapter(q), a.id = q.id, a.family = q.family
          PROVE  a = RouteAdapter(r)
      <4>1. q = r
        BY <1>1, <2>2, <3>2, RoutesDiffer
      <4> QED BY <3>2, <4>1
    <3>3. ~RelayAdapter(a) /\ a.id # "faux" /\ \A c \in p.custom : a.id # c.id
      BY <1>2, <1>3, <1>4, <2>2, IdsDiffer
    <3> QED BY <3>1, <3>2, <3>3, RegistryHas
  <2> QED BY <2>1, <2>2
<1>8. ProviderFor(p, sel, r.family) = "accepted"
  <2>1. RouteAdapter(r).models = r.models /\ Available(RouteAdapter(r))
    BY RouteFields DEF Available
  <2>2. {x \in p.registry : /\ x.id = sel.id
                            /\ x.family = IF sel.id = "faux" /\ r.family = "faux"
                                          THEN NoFamily ELSE r.family} = {RouteAdapter(r)}
    BY <1>3, <1>7
  <2> QED BY <2>1, <2>2, ProviderIs
<1>9. KnownProvider(p, sel)
  BY <1>3 DEF KnownProvider
<1>10. MatchingRouteCount(p, sel) = 0
  BY DEF MatchingRouteCount
<1> QED BY <1>5, <1>6, <1>8, <1>9, <1>10 DEF RunStart

LEMMA CustomsRun ==
  ASSUME NEW p, FrozenWell(p), p.mode # "identity", NEW c \in p.custom, NEW sel,
         sel.id = c.id, sel.model \in c.models, sel.family \in {NoFamily, c.family},
         sel.images => c.images
  PROVE  RunStart(p, sel) = IF c.needs \subseteq stored THEN "accepted" ELSE "unavailable"
<1>1. /\ p.routes = Snapshot(p.env) /\ FoundConnection(c)
      /\ \A d \in p.custom : d.id = c.id => d = c
      /\ CustomAdapter(c) \in p.registry
      /\ \A a \in p.registry : a.id = c.id => a = CustomAdapter(c)
  BY DEF FrozenWell
<1>2. sel.id # "faux" /\ sel.id \notin {s.id : s \in Specs}
  BY <1>1, RoutingAssumption DEF FoundConnection, CanonicalIds
<1>3. ASSUME NEW q \in p.routes PROVE q.id # sel.id
  BY <1>1, <1>2, <1>3, RoutesAreSpecs
<1>4. ResolveRoute(p, sel) = "passed"
  <2>1. {q \in p.routes : Selects(q, sel)} = {}
    BY <1>3 DEF Selects
  <2>2. Cardinality({q \in p.routes : Selects(q, sel)}) = 0
    BY <2>1, FS_EmptySet
  <2> QED BY <1>2, <2>2 DEF ResolveRoute
<1>5. ResolvedFamily(p, sel) = c.family
  <2>1. {q \in p.routes \cup p.custom : Selects(q, sel)} = {c}
    BY <1>1, <1>3 DEF Selects
  <2> QED BY <1>2, <2>1 DEF ResolvedFamily
<1>6. {x \in p.registry : /\ x.id = sel.id
                          /\ x.family = IF sel.id = "faux" /\ c.family = "faux"
                                        THEN NoFamily ELSE c.family} = {CustomAdapter(c)}
  <2>1. CustomAdapter(c).id = c.id /\ CustomAdapter(c).family = c.family
    BY CustomFields
  <2> QED BY <1>1, <1>2, <2>1
<1>7. ProviderFor(p, sel, c.family) = IF c.needs \subseteq stored THEN "accepted" ELSE "unavailable"
  <2>1. /\ CustomAdapter(c).models = c.models /\ CustomAdapter(c).images = c.images
        /\ Available(CustomAdapter(c)) <=> c.needs \subseteq stored
    BY CustomFields DEF Available
  <2> QED BY <1>6, <2>1, ProviderIs
<1>8. KnownProvider(p, sel)
  BY DEF KnownProvider
<1>9. MatchingRouteCount(p, sel) = 0
  BY DEF MatchingRouteCount
<1> QED BY <1>4, <1>5, <1>7, <1>8, <1>9 DEF RunStart

LEMMA AdvertisedFrom ==
  ASSUME NEW presence, NEW m \in Advertisement(presence)
  PROVE  \E x \in Manifest : m.id = x.id /\ m.family = x.family /\ m.model \in x.models
<1> DEFINE usable == {x \in Manifest : /\ RouteIsUsable(x, presence)
                                       /\ Inputs(x, presence.features[<<x.id, x.family>>]) # {}}
           image(r) == "image" \in Inputs(r, presence.features[<<r.id, r.family>>])
           model(r, k) == [id |-> r.id, model |-> k, family |-> r.family, images |-> image(r)]
<1>1. Advertisement(presence) = UNION {{model(r, k) : k \in r.models} : r \in usable}
  BY DEF Advertisement
<1> HIDE DEF image
<1>2. \A r, k : /\ model(r, k).id = r.id /\ model(r, k).model = k /\ model(r, k).family = r.family
  OBVIOUS
<1> HIDE DEF model
<1>3. PICK r \in usable : \E k \in r.models : m = model(r, k)
  BY <1>1
<1> QED BY <1>2, <1>3

LEMMA AdvertisedDiffer ==
  ASSUME NEW presence, NEW m \in Advertisement(presence), NEW n \in Advertisement(presence),
         m.id = n.id, m.model = n.model, m.family = n.family
  PROVE  m = n
<1> DEFINE usable == {x \in Manifest : /\ RouteIsUsable(x, presence)
                                       /\ Inputs(x, presence.features[<<x.id, x.family>>]) # {}}
           image(r) == "image" \in Inputs(r, presence.features[<<r.id, r.family>>])
           model(r, k) == [id |-> r.id, model |-> k, family |-> r.family, images |-> image(r)]
<1>1. Advertisement(presence) = UNION {{model(r, k) : k \in r.models} : r \in usable}
  BY DEF Advertisement
<1> HIDE DEF image
<1>2. \A r, k : /\ model(r, k).id = r.id /\ model(r, k).model = k /\ model(r, k).family = r.family
  OBVIOUS
<1> HIDE DEF model
<1>3. PICK r \in usable : \E k \in r.models : m = model(r, k)
  BY <1>1
<1>4. PICK q \in usable : \E k \in q.models : n = model(q, k)
  BY <1>1
<1>5. r \in Manifest /\ q \in Manifest /\ r.id = q.id /\ r.family = q.family
      /\ m = model(r, m.model) /\ n = model(q, m.model)
  BY <1>2, <1>3, <1>4
<1>6. r = q
  BY <1>5, RoutingAssumption
<1> QED BY <1>5, <1>6

LEMMA AdvertisedRefused ==
  ASSUME NEW p, p.mode = "identity", NEW m \in Advertisement(p.env.presence), m.id # "faux", NEW sel,
         sel.id = m.id, sel.model = m.model, sel.family \in {NoFamily, m.family},
         \A n \in Advertisement(p.env.presence) :
           n.id = m.id /\ n.model = m.model /\ sel.family \in {NoFamily, n.family} => n = m
  PROVE  RunStart(p, sel) = "unavailable"
<1>1. {n \in Advertisement(p.env.presence) : /\ n.id = sel.id /\ n.model = sel.model
                                             /\ sel.family \in {NoFamily, n.family}} = {m}
  OBVIOUS
<1>2. MatchingRouteCount(p, sel) = 1
  BY <1>1, FS_Singleton DEF MatchingRouteCount
<1> QED BY <1>2 DEF RunStart

(* What a process lists is faux, a route, a connection or an identity.        *)
Described(r, k) == [id |-> r.id, model |-> k, family |-> r.family, images |-> r.images]

LEMMA AdvertisedAre ==
  ASSUME NEW p
  PROVE  /\ \A m \in AdvertisedModels(p) :
              \/ m = FauxModel
              \/ \E r \in p.routes \cup p.custom : \E k \in r.models : m = Described(r, k)
              \/ p.mode = "identity" /\ m \in Advertisement(p.env.presence)
         /\ FauxModel \in AdvertisedModels(p)
         /\ \A r \in p.routes \cup p.custom : \A k \in r.models : Described(r, k) \in AdvertisedModels(p)
         /\ p.mode = "identity" => Advertisement(p.env.presence) \subseteq AdvertisedModels(p)
<1> DEFINE trim(c) == [id |-> c.id, family |-> c.family, models |-> c.models, images |-> c.images]
           routes == p.routes \cup {trim(c) : c \in p.custom}
<1>1. \A c : /\ trim(c).id = c.id /\ trim(c).family = c.family /\ trim(c).models = c.models
             /\ trim(c).images = c.images
  OBVIOUS
<1>2. AdvertisedModels(p) = {FauxModel} \cup Descriptors(routes)
                              \cup IF p.mode = "identity" THEN Advertisement(p.env.presence) ELSE {}
  BY DEF AdvertisedModels
<1>3. Descriptors(routes) = UNION {{Described(r, k) : k \in r.models} : r \in routes}
  BY DEF Descriptors, Described
<1> HIDE DEF trim
<1>4. \A c \in p.custom : trim(c) \in routes
  OBVIOUS
<1>5. \A c, k : Described(trim(c), k) = Described(c, k)
  BY <1>1 DEF Described
<1>6. ASSUME NEW m \in Descriptors(routes)
      PROVE  \E r \in p.routes \cup p.custom : \E k \in r.models : m = Described(r, k)
  <2>1. PICK r \in routes : \E k \in r.models : m = Described(r, k)
    BY <1>3
  <2>2. CASE r \in p.routes
    BY <2>1, <2>2
  <2>3. CASE r \in {trim(c) : c \in p.custom}
    BY <1>1, <1>5, <2>1, <2>3
  <2> QED BY <2>2, <2>3
<1>7. ASSUME NEW r \in p.routes \cup p.custom, NEW k \in r.models
      PROVE  Described(r, k) \in Descriptors(routes)
  <2>1. CASE r \in p.routes
    BY <1>3, <2>1
  <2>2. CASE r \in p.custom
    <3>1. k \in trim(r).models /\ trim(r) \in routes
      BY <1>1, <1>4, <2>2
    <3> QED BY <1>3, <1>5, <3>1
  <2> QED BY <2>1, <2>2
<1> HIDE DEF routes
<1> QED BY <1>2, <1>6, <1>7

LEMMA DescribedFields ==
  \A r, k : /\ Described(r, k).id = r.id /\ Described(r, k).model = k
            /\ Described(r, k).family = r.family /\ Described(r, k).images = r.images
BY DEF Described

LEMMA FauxModelFields ==
  FauxModel.id = "faux" /\ FauxModel.model = "faux-v1" /\ FauxModel.family = "faux"
BY DEF FauxModel

LEMMA SelectingFields ==
  \A m, family : /\ Selecting(m, family).id = m.id /\ Selecting(m, family).model = m.model
                 /\ Selecting(m, family).family = family /\ Selecting(m, family).images = FALSE
BY DEF Selecting

LEMMA RouteFamilies ==
  ASSUME NEW env, NEW r \in Snapshot(env)
  PROVE  r.family # NoFamily
<1>1. PICK s \in Specs : r.family = s.family
  BY RoutesAreSpecs
<1> QED BY <1>1, RoutingAssumption

LEMMA ListedModelsRun ==
  ASSUME RoutingInv, ConfigAlone
  PROVE  ListedRuns
<1> SUFFICES ASSUME process # Absent, NEW m \in AdvertisedModels(process),
                    NEW family \in {m.family, NoFamily}, family = m.family \/ Alone(process, m)
             PROVE  IF process.mode = "identity" /\ m.id # "faux"
                    THEN RunStart(process, Selecting(m, family)) = "unavailable"
                    ELSE \/ RunStart(process, Selecting(m, family)) = "accepted"
                         \/ KeyGone(process, m.id)
                              /\ RunStart(process, Selecting(m, family)) = "unavailable"
  BY DEF ListedRuns
<1> DEFINE p == process
           sel == Selecting(m, family)
<1>1. FrozenWell(p)
  BY DEF RoutingInv
<1>2. sel.id = m.id /\ sel.model = m.model /\ sel.family = family /\ sel.images = FALSE
  BY SelectingFields
<1> HIDE DEF sel
<1>3. CASE m = FauxModel
  <2>1. RunStart(p, sel) = "accepted"
    BY <1>1, <1>2, <1>3, FauxRuns, FauxModelFields
  <2> QED BY <1>3, <2>1, FauxModelFields DEF sel
<1>4. ASSUME NEW r \in p.routes, NEW k \in r.models, m = Described(r, k)
      PROVE  p.mode # "identity" /\ RunStart(p, sel) = "accepted"
  <2>1. p.mode # "identity" /\ p.routes = Snapshot(p.env)
    BY <1>1, <1>4 DEF FrozenWell
  <2>2. m.id = r.id /\ m.model = k /\ m.family = r.family /\ r.family # NoFamily
    BY <1>4, <2>1, DescribedFields, RouteFamilies
  <2>3. ASSUME NEW q \in p.routes, Selects(q, sel) PROVE q = r
    <3>1. q.id = r.id /\ k \in q.models /\ family \in {NoFamily, q.family}
      BY <1>2, <2>2, <2>3 DEF Selects
    <3>2. q.family = r.family
      <4>1. CASE family = m.family
        BY <2>2, <3>1, <4>1
      <4>2. CASE Alone(p, m)
        <5>1. Described(q, k) \in AdvertisedModels(p)
          BY <3>1, AdvertisedAre
        <5>2. Described(q, k) = m
          BY <2>2, <3>1, <4>2, <5>1, DescribedFields DEF Alone
        <5> QED BY <2>2, <5>2, DescribedFields
      <4> QED BY <4>1, <4>2
    <3> QED BY <2>1, <3>1, <3>2, RoutesDiffer
  <2>4. Selects(r, sel)
    BY <1>2, <2>2 DEF Selects
  <2>5. {q \in p.routes : Selects(q, sel)} = {r}
    BY <2>3, <2>4
  <2> QED BY <1>1, <1>2, <2>1, <2>2, <2>5, RoutesRun
<1>5. ASSUME NEW c \in p.custom, NEW k \in c.models, m = Described(c, k)
      PROVE  /\ p.mode # "identity"
             /\ RunStart(p, sel) = "accepted" \/ (KeyGone(p, m.id) /\ RunStart(p, sel) = "unavailable")
  <2>1. p.mode # "identity"
    BY <1>1, <1>5 DEF FrozenWell
  <2>2. m.id = c.id /\ m.model = k /\ m.family = c.family
    BY <1>5, DescribedFields
  <2>3. RunStart(p, sel) = IF c.needs \subseteq stored THEN "accepted" ELSE "unavailable"
    BY <1>1, <1>2, <2>1, <2>2, CustomsRun
  <2>4. ~(c.needs \subseteq stored) => KeyGone(p, m.id)
    BY <2>2 DEF KeyGone
  <2> QED BY <2>1, <2>3, <2>4
<1>6. CASE p.mode = "identity" /\ m \in Advertisement(p.env.presence) /\ m.id # "faux"
  <2>1. ASSUME NEW n \in Advertisement(p.env.presence), n.id = m.id, n.model = m.model,
               family \in {NoFamily, n.family}
        PROVE  n = m
    <3>1. CASE Alone(p, m)
      BY <1>6, <2>1, <3>1, AdvertisedAre DEF Alone
    <3>2. CASE family = m.family
      <4>1. m.family # NoFamily
        <5>1. PICK x \in Manifest : m.family = x.family
          BY <1>6, AdvertisedFrom
        <5> QED BY <5>1, RoutingAssumption
      <4> QED BY <1>6, <2>1, <3>2, <4>1, AdvertisedDiffer
    <3> QED BY <3>1, <3>2
  <2>2. sel.family \in {NoFamily, m.family}
    BY <1>2
  <2> QED BY <1>2, <1>6, <2>1, <2>2, AdvertisedRefused DEF sel
<1>7. CASE p.mode = "identity" /\ m \in Advertisement(p.env.presence) /\ m.id = "faux"
  <2>1. PICK x \in Manifest : m.id = x.id
    BY <1>7, AdvertisedFrom
  <2> QED BY <1>7, <2>1, RoutingAssumption
<1>8. \/ m = FauxModel
      \/ \E r \in p.routes \cup p.custom : \E k \in r.models : m = Described(r, k)
      \/ p.mode = "identity" /\ m \in Advertisement(p.env.presence)
  BY AdvertisedAre
<1> QED BY <1>3, <1>4, <1>5, <1>6, <1>7, <1>8 DEF sel

(* Nothing else runs.                                                        *)
LEMMA SelectedIsListed ==
  ASSUME NEW p, NEW sel, NEW r \in p.routes \cup p.custom, Selects(r, sel)
  PROVE  Listed(p, sel)
<1>1. sel.model \in r.models /\ r.id = sel.id /\ sel.family \in {NoFamily, r.family}
  BY DEF Selects
<1>2. Described(r, sel.model) \in AdvertisedModels(p)
  BY <1>1, AdvertisedAre
<1> QED BY <1>1, <1>2, DescribedFields DEF Listed

LEMMA UnlistedResolves ==
  ASSUME NEW p, FrozenWell(p), p.mode # "identity", NEW sel, ~Listed(p, sel),
         ResolveRoute(p, sel) \notin {"ambiguous", "unavailable"}
  PROVE  \A r \in Snapshot(p.env) : r.id # sel.id
<1>1. {q \in p.routes : Selects(q, sel)} = {}
  BY SelectedIsListed
<1>2. Cardinality({q \in p.routes : Selects(q, sel)}) = 0
  BY <1>1, FS_EmptySet
<1>3. LegacyFallback(p, sel) \/ sel.id \notin {s.id : s \in Specs}
  BY <1>2 DEF ResolveRoute
<1> SUFFICES ASSUME NEW r \in Snapshot(p.env), r.id = sel.id PROVE FALSE
  OBVIOUS
<1>4. PICK s \in Specs : r.id = s.id /\ CredentialAvailable(p.env, s)
  BY RoutesAreSpecs
<1>5. p.mode = "production" /\ EndpointSet(p.env, sel.id)
  BY <1>3, <1>4 DEF LegacyFallback
<1>6. p.mode = Mode(p.env)
  BY DEF FrozenWell
<1> QED BY <1>4, <1>5, <1>6 DEF CredentialAvailable

LEMMA AcceptedIsListed ==
  ASSUME NEW p, FrozenWell(p), NEW sel, NEW family, sel.id # "faux", ~Listed(p, sel),
         ~ForRunners(p.env, sel), ProviderFor(p, sel, family) = "accepted",
         sel.family # NoFamily => family = sel.family,
         p.mode # "identity" => ResolveRoute(p, sel) \notin {"ambiguous", "unavailable"}
  PROVE  \E a \in p.registry : /\ a.id = sel.id /\ RelayAdapter(a) /\ sel.model \in a.models
                               /\ p.mode # "identity"
<1>1. PICK a \in p.registry : /\ a.id = sel.id /\ a.family = family
                              /\ a.models = AnyModel \/ sel.model \in a.models
  BY AcceptedBy
<1>2. p.mode # "identity"
  <2>1. Faux.id = "faux"
    BY FauxFields
  <2> QED BY <1>1, <2>1 DEF FrozenWell
<1>3. \A r \in Snapshot(p.env) : r.id # sel.id
  BY <1>2, UnlistedResolves
<1>4. \A l \in Legacy : EndpointSet(p.env, l.id) => l.id # sel.id
  BY DEF ForRunners
<1>5. ASSUME NEW c \in p.custom, a = CustomAdapter(c), a.id = c.id, a.family = c.family,
             FoundConnection(c)
      PROVE  FALSE
  <2>1. PICK k \in Connections : c.family = k.family /\ c.models = k.models
    BY <1>5 DEF FoundConnection
  <2>2. a.models = c.models
    BY <1>5, CustomFields
  <2>3. c.models # AnyModel
    BY <2>1, RoutingAssumption
  <2>4. sel.model \in c.models /\ sel.family \in {NoFamily, c.family}
    BY <1>1, <1>5, <2>2, <2>3
  <2>5. Selects(c, sel)
    BY <1>1, <1>5, <2>4 DEF Selects
  <2> QED BY <2>5, SelectedIsListed
<1>6. RelayAdapter(a)
  BY <1>1, <1>2, <1>3, <1>4, <1>5, RegistryHas
<1>7. a.models # AnyModel
  BY <1>6, RoutingAssumption DEF RelayAdapter
<1> QED BY <1>1, <1>2, <1>6, <1>7

LEMMA KnownIsNoRelay ==
  ASSUME NEW p, FrozenWell(p), NEW sel, KnownProvider(p, sel)
  PROVE  sel.id \notin Relays
<1>1. "faux" \notin Relays
  BY RoutingAssumption
<1>2. ASSUME NEW c \in p.custom PROVE c.id \notin Relays
  <2>1. FoundConnection(c)
    BY DEF FrozenWell
  <2> QED BY <2>1, IdsDiffer
<1> QED BY <1>1, <1>2, IdsDiffer DEF KnownProvider

\* The family run/start asks for is the one it was given, where nothing listed matches.
LEMMA FamilyAsGiven ==
  ASSUME NEW p, NEW sel, ~Listed(p, sel)
  PROVE  ResolvedFamily(p, sel) = sel.family
<1>1. {r \in p.routes \cup p.custom : Selects(r, sel)} = {}
  BY SelectedIsListed
<1> QED BY <1>1 DEF ResolvedFamily

LEMMA StartedIsListed ==
  ASSUME NEW p, FrozenWell(p), NEW sel, RunStart(p, sel) = "accepted"
  PROVE  Listed(p, sel) \/ ForRunners(p.env, sel)
<1> SUFFICES ASSUME ~Listed(p, sel), ~ForRunners(p.env, sel) PROVE FALSE
  OBVIOUS
<1>1. sel.id # "faux"
  BY DEF ForRunners
<1>2. /\ p.mode # "identity" => ResolveRoute(p, sel) \notin {"ambiguous", "unavailable"}
      /\ KnownProvider(p, sel)
      /\ ProviderFor(p, sel, ResolvedFamily(p, sel)) = "accepted"
  BY <1>1 DEF RunStart
<1>3. ResolvedFamily(p, sel) = sel.family
  BY FamilyAsGiven
<1>4. PICK a \in p.registry : a.id = sel.id /\ RelayAdapter(a)
  BY <1>1, <1>2, <1>3, AcceptedIsListed
<1> QED BY <1>2, <1>4, KnownIsNoRelay DEF RelayAdapter

\* The adapter of a sponsored entry is that of the route installed for it.
LEMMA RelayIsInstalled ==
  ASSUME RoutingTypes, NEW env, FrozenWell(AtStart(env)),
         NEW a \in AtStart(env).registry, RelayAdapter(a), Mode(env) # "identity"
  PROVE  \E e \in Relays : installed[e] # Absent /\ a.id = e /\ a.models = installed[e].models
<1> DEFINE p == AtStart(env)
<1>1. FrozenWell(p) /\ p.env = env /\ p.mode = Mode(env)
  BY DEF AtStart
<1>2. a.id \in Relays /\ a.id # "faux"
  BY IdsDiffer
<1>3. p.registry = ({Faux} \cup (RouteAdapters(env) \cup RelayAdapters \cup LegacyAdapters(env)))
                     \cup {CustomAdapter(c) : c \in p.custom}
  BY DEF AtStart, BaseRegistry, CustomAdapters, CustomAdapter
<1>4. a # Faux
  BY <1>2, FauxFields
<1>5. a \notin RouteAdapters(env)
  BY <1>2, RouteAdaptersAre, RouteFields, RoutesDifferFrom
<1>6. a \notin LegacyAdapters(env)
  BY <1>2, LegacyAdaptersAre, LegacyFields, IdsDiffer
<1>7. ASSUME NEW c \in p.custom PROVE a # CustomAdapter(c)
  <2>1. FoundConnection(c)
    BY <1>1 DEF FrozenWell
  <2> QED BY <1>2, <2>1, IdsDiffer, CustomFields
<1>8. a \in RelayAdapters
  BY <1>3, <1>4, <1>5, <1>6, <1>7
<1>9. PICK e \in Relays : /\ installed[e] # Absent
                          /\ a = Adapter(e, installed[e].family, installed[e].models, FALSE, {Key(e)})
  BY <1>8 DEF RelayAdapters
<1>10. a.id = e /\ a.models = installed[e].models
  BY <1>9 DEF Adapter
<1> QED BY <1>9, <1>10

LEMMA OnceIsListed ==
  ASSUME RoutingTypes, NEW env, FrozenWell(AtStart(env)),
         NEW sel, RunOnce(env, sel) = "accepted"
  PROVE  \/ Listed(AtStart(env), sel) \/ ForRunners(env, sel)
         \/ \E e \in Relays : /\ e = sel.id /\ installed[e] # Absent
                              /\ sel.model \in installed[e].models
<1> DEFINE p == AtStart(env)
           family == IF sel.id # "faux" /\ ResolvedFamily(p, sel) = NoFamily
                       THEN InstalledFamily(sel) ELSE ResolvedFamily(p, sel)
<1>1. FrozenWell(p) /\ p.env = env /\ p.mode = Mode(env)
  BY DEF AtStart
<1> SUFFICES ASSUME ~Listed(p, sel), ~ForRunners(env, sel)
             PROVE  \E e \in Relays : /\ e = sel.id /\ installed[e] # Absent
                                      /\ sel.model \in installed[e].models
  OBVIOUS
<1>2. sel.id # "faux"
  BY DEF ForRunners
<1>3. ~(\E c \in p.custom : Selects(c, sel))
  BY SelectedIsListed
<1>4. /\ p.mode # "identity" => ResolveRoute(p, sel) \notin {"ambiguous", "unavailable"}
      /\ ProviderFor(p, sel, family) = "accepted"
  <2> HIDE DEF p
  <2> QED BY <1>2, <1>3 DEF RunOnce, p
<1>5. sel.family # NoFamily => family = sel.family
  BY FamilyAsGiven
<1> HIDE DEF p, family
<1>6. PICK a \in p.registry : /\ a.id = sel.id /\ RelayAdapter(a) /\ sel.model \in a.models
                              /\ p.mode # "identity"
  BY <1>1, <1>2, <1>4, <1>5, AcceptedIsListed
<1> QED BY <1>1, <1>6, RelayIsInstalled DEF p

LEMMA StartedRunsOnce ==
  ASSUME RoutingTypes, NEW env, FrozenWell(AtStart(env)),
         NEW sel, RunStart(AtStart(env), sel) = "accepted"
  PROVE  RunOnce(env, sel) = "accepted"
<1> DEFINE p == AtStart(env)
           family == IF sel.id # "faux" /\ ResolvedFamily(p, sel) = NoFamily
                       THEN InstalledFamily(sel) ELSE ResolvedFamily(p, sel)
<1>1. FrozenWell(p)
  OBVIOUS
<1>2. /\ sel.id # "faux" /\ p.mode # "identity" =>
           ResolveRoute(p, sel) \notin {"ambiguous", "unavailable"}
      /\ KnownProvider(p, sel)
      /\ ProviderFor(p, sel, ResolvedFamily(p, sel)) = "accepted"
  BY DEF RunStart
<1>3. sel.id \notin Relays
  BY <1>1, <1>2, KnownIsNoRelay
<1>4. InstalledFamily(sel) = NoFamily
  BY <1>3 DEF InstalledFamily
<1>5. family = ResolvedFamily(p, sel)
  BY <1>4
<1> QED BY <1>2, <1>5 DEF RunOnce

LEMMA OnlyListedModelsRun ==
  ASSUME RoutingInv
  PROVE  OnlyListedRuns
<1> SUFFICES ASSUME process # Absent, NEW sel
             PROVE  /\ RunStart(process, sel) = "accepted" =>
                         Listed(process, sel) \/ ForRunners(process.env, sel)
                    /\ process = AtStart(process.env) =>
                         /\ RunOnce(process.env, sel) = "accepted" =>
                              \/ Listed(process, sel) \/ ForRunners(process.env, sel)
                              \/ \E e \in Relays : /\ e = sel.id /\ installed[e] # Absent
                                                   /\ sel.model \in installed[e].models
                         /\ RunStart(process, sel) = "accepted" =>
                              RunOnce(process.env, sel) = "accepted"
  BY DEF OnlyListedRuns
<1>1. RoutingTypes /\ FrozenWell(process)
  BY DEF RoutingInv
<1>2. ASSUME process = AtStart(process.env)
      PROVE  /\ RunOnce(process.env, sel) = "accepted" =>
                  \/ Listed(process, sel) \/ ForRunners(process.env, sel)
                  \/ \E e \in Relays : /\ e = sel.id /\ installed[e] # Absent
                                       /\ sel.model \in installed[e].models
             /\ RunStart(process, sel) = "accepted" => RunOnce(process.env, sel) = "accepted"
  <2> DEFINE env == process.env
  <2>1. FrozenWell(AtStart(env)) /\ process = AtStart(env)
    BY <1>1, <1>2
  <2> HIDE DEF env
  <2>2. /\ RunOnce(env, sel) = "accepted" =>
             \/ Listed(AtStart(env), sel) \/ ForRunners(env, sel)
             \/ \E e \in Relays : /\ e = sel.id /\ installed[e] # Absent
                                  /\ sel.model \in installed[e].models
        /\ RunStart(AtStart(env), sel) = "accepted" => RunOnce(env, sel) = "accepted"
    BY <1>1, <2>1, OnceIsListed, StartedRunsOnce
  <2>3. env = process.env
    BY DEF env
  <2> QED BY <2>1, <2>2, <2>3
<1> QED BY <1>1, <1>2, StartedIsListed

(* What initialize announces.                                                *)
Picking(id, model, family) == [id |-> id, model |-> model, family |-> family, images |-> FALSE]

LEMMA PickingFields ==
  \A i, k, f : /\ Picking(i, k, f).id = i /\ Picking(i, k, f).model = k
               /\ Picking(i, k, f).family = f /\ Picking(i, k, f).images = FALSE
BY DEF Picking

LEMMA PickingIsSelection ==
  ASSUME NEW id \in {"faux"} \cup {r.id : r \in Specs \cup Legacy \cup Manifest},
         NEW model \in {"faux-v1"} \cup UNION {s.models : s \in Specs},
         NEW family \in {NoFamily} \cup {s.family : s \in Specs}
  PROVE  Picking(id, model, family) \in Selections
<1> DEFINE providers == {"faux", "stranger"} \cup {r.id : r \in Specs \cup Legacy \cup Manifest}
                    \cup CustomIds \cup Relays
           others == Specs \cup Manifest \cup Connections \cup RelayRoutes
           names == {"faux-v1"} \cup UNION {r.models : r \in others}
           families == {NoFamily} \cup {r.family : r \in others}
<1>1. id \in providers
  OBVIOUS
<1>2. model \in names
  OBVIOUS
<1>3. family \in families
  OBVIOUS
<1>4. Selections = [id : providers, model : names, family : families, images : {FALSE}]
  BY DEF Selections
<1> HIDE DEF providers, names, families
<1> QED BY <1>1, <1>2, <1>3, <1>4 DEF Picking

Chosen(p, id) == \E sel \in Selections : sel.id = id /\ RunStart(p, sel) = "accepted"

LEMMA FauxChosen ==
  ASSUME NEW p, FrozenWell(p)
  PROVE  Chosen(p, "faux")
<1> DEFINE sel == Picking("faux", "faux-v1", NoFamily)
<1>1. sel \in Selections
  BY PickingIsSelection
<1>2. sel.id = "faux" /\ sel.family = NoFamily /\ sel.images = FALSE
  BY PickingFields
<1> HIDE DEF sel
<1>3. RunStart(p, sel) = "accepted"
  BY <1>2, FauxRuns
<1> QED BY <1>1, <1>2, <1>3 DEF Chosen

LEMMA RouteModels ==
  ASSUME NEW env \in Environments, Mode(env) # "refused", NEW r \in Snapshot(env)
  PROVE  r.models # {} /\ r.models \subseteq UNION {s.models : s \in Specs}
<1>1. PICK s \in Specs : /\ Mode(env) = "config" => r.models = {env.config.model}
                         /\ Mode(env) # "config" => r.models = s.models
  BY RoutesAreSpecs
<1>2. CASE Mode(env) = "config"
  <2>1. \E t \in Specs : env.config.model \in t.models
    BY <1>2 DEF Mode
  <2> QED BY <1>1, <1>2, <2>1
<1>3. CASE Mode(env) # "config"
  BY <1>1, <1>3, RoutingAssumption
<1> QED BY <1>2, <1>3

LEMMA RouteChosen ==
  ASSUME ConfigAlone, NEW p, FrozenWell(p), p.mode # "identity", NEW r \in p.routes
  PROVE  Chosen(p, r.id)
<1>1. p.routes = Snapshot(p.env) /\ p.env \in Environments /\ Mode(p.env) # "refused"
  BY DEF FrozenWell
<1>2. PICK k \in r.models : k \in UNION {s.models : s \in Specs}
  BY <1>1, RouteModels
<1>3. PICK s \in Specs : r.id = s.id /\ r.family = s.family
  BY <1>1, RoutesAreSpecs
<1> DEFINE sel == Picking(r.id, k, r.family)
<1>4. sel \in Selections
  BY <1>2, <1>3, PickingIsSelection
<1>5. sel.id = r.id /\ sel.model = k /\ sel.family = r.family /\ sel.images = FALSE
  BY PickingFields
<1> HIDE DEF sel
<1>6. ASSUME NEW q \in p.routes, Selects(q, sel) PROVE q = r
  <2>1. q.id = r.id /\ r.family \in {NoFamily, q.family}
    BY <1>5, <1>6 DEF Selects
  <2>2. r.family # NoFamily
    BY <1>1, RouteFamilies
  <2> QED BY <1>1, <2>1, <2>2, RoutesDiffer
<1>7. Selects(r, sel)
  BY <1>2, <1>5 DEF Selects
<1>8. {q \in p.routes : Selects(q, sel)} = {r}
  BY <1>6, <1>7
<1>9. RunStart(p, sel) = "accepted"
  BY <1>2, <1>5, <1>8, RoutesRun
<1> QED BY <1>4, <1>5, <1>9 DEF Chosen

LEMMA LegacyModels ==
  ASSUME NEW l \in Legacy
  PROVE  \E k \in {"faux-v1"} \cup UNION {s.models : s \in Specs} :
           l.models = AnyModel \/ k \in l.models
<1>1. CASE l.models = AnyModel
  BY <1>1
<1>2. ASSUME NEW s \in Specs, l.models = s.models
      PROVE  \E k \in UNION {t.models : t \in Specs} : k \in l.models
  BY <1>2, RoutingAssumption
<1> QED BY <1>1, <1>2, RoutingAssumption

\* A family runner whose provider has no route in this process.
LEMMA LegacyRuns ==
  ASSUME NEW p, FrozenWell(p), p.mode # "identity", NEW l \in Legacy,
         EndpointSet(p.env, l.id), l.key \in p.env.keys,
         \A r \in p.routes : r.id # l.id, \A c \in p.custom : c.id # l.id,
         l.id \in {s.id : s \in Specs} => p.mode = "production"
  PROVE  Chosen(p, l.id)
<1>1. PICK k \in {"faux-v1"} \cup UNION {s.models : s \in Specs} :
           l.models = AnyModel \/ k \in l.models
  BY LegacyModels
<1>2. l.family = NoFamily \/ \E s \in Specs : l.id = s.id /\ l.family = s.family
  BY RoutingAssumption
<1> DEFINE sel == Picking(l.id, k, l.family)
<1>3. sel \in Selections
  BY <1>1, <1>2, PickingIsSelection
<1>4. sel.id = l.id /\ sel.model = k /\ sel.family = l.family /\ sel.images = FALSE
  BY PickingFields
<1> HIDE DEF sel
<1>5. sel.id # "faux"
  BY <1>4, IdsDiffer
<1>6. ResolveRoute(p, sel) = "passed"
  <2>1. {q \in p.routes : Selects(q, sel)} = {}
    BY <1>4 DEF Selects
  <2>2. Cardinality({q \in p.routes : Selects(q, sel)}) = 0
    BY <2>1, FS_EmptySet
  <2>3. LegacyFallback(p, sel) \/ sel.id \notin {s.id : s \in Specs}
    <3>1. CASE l.id \in {s.id : s \in Specs}
      <4>1. PICK s \in Specs : l.id = s.id /\ sel.family \in {NoFamily, s.family}
        BY <1>2, <1>4, <3>1
      <4> QED BY <1>4, <3>1, <4>1 DEF LegacyFallback
    <3> QED BY <1>4, <3>1
  <2> QED BY <2>2, <2>3 DEF ResolveRoute
<1>7. ResolvedFamily(p, sel) = l.family
  <2>1. {q \in p.routes \cup p.custom : Selects(q, sel)} = {}
    BY <1>4 DEF Selects
  <2> QED BY <1>4, <2>1 DEF ResolvedFamily
<1>8. {x \in p.registry : x.id = l.id /\ x.family = l.family} = {LegacyAdapter(l)}
  <2>1. /\ LegacyAdapter(l) \in p.registry
        /\ LegacyAdapter(l).id = l.id /\ LegacyAdapter(l).family = l.family
    BY LegacyAdaptersAre, LegacyFields DEF FrozenWell
  <2>2. p.routes = Snapshot(p.env)
    BY DEF FrozenWell
  <2>3. ASSUME NEW a \in p.registry, a.id = l.id, a.family = l.family PROVE a = LegacyAdapter(l)
    <3>1. PICK t \in Legacy : a = LegacyAdapter(t) /\ a.id = t.id /\ a.family = t.family
      BY <2>2, <2>3, RegistryHas, IdsDiffer
    <3>2. t = l
      BY <2>3, <3>1, RoutingAssumption
    <3> QED BY <3>1, <3>2
  <2> QED BY <2>1, <2>3
<1>9. ProviderFor(p, sel, l.family) = "accepted"
  <2>1. LegacyAdapter(l).models = l.models /\ Available(LegacyAdapter(l))
    BY LegacyFields DEF Available
  <2>2. {x \in p.registry : /\ x.id = sel.id
                            /\ x.family = IF sel.id = "faux" /\ l.family = "faux"
                                          THEN NoFamily ELSE l.family} = {LegacyAdapter(l)}
    BY <1>4, <1>5, <1>8
  <2> QED BY <1>1, <1>4, <2>1, <2>2, ProviderIs
<1>10. KnownProvider(p, sel) /\ MatchingRouteCount(p, sel) = 0
  BY <1>4 DEF KnownProvider, MatchingRouteCount
<1>11. RunStart(p, sel) = "accepted"
  BY <1>6, <1>7, <1>9, <1>10 DEF RunStart
<1> QED BY <1>3, <1>4, <1>11 DEF Chosen

\* A conformance configuration has the key of its route when it has that of the runner.
LEMMA ConfigHasRoute ==
  ASSUME ConfigAlone, NEW p, FrozenWell(p), p.mode # "identity", p.mode # "production",
         NEW l \in Legacy, EndpointSet(p.env, l.id), l.key \in p.env.keys,
         l.id \in {s.id : s \in Specs}
  PROVE  \E r \in p.routes : r.id = l.id
<1>1. /\ p.env \in Environments /\ p.mode = Mode(p.env) /\ p.mode # "refused"
      /\ p.routes = Snapshot(p.env)
  BY DEF FrozenWell
<1>2. Mode(p.env) = "config"
  BY <1>1 DEF Mode
<1>3. l.id = p.env.config.id
  BY <1>1, <1>2 DEF ConfigAlone
<1>4. PICK s \in Specs : s.id = p.env.config.id /\ s.family = p.env.config.family
  BY <1>2 DEF Mode
<1>5. s.key = l.key
  BY <1>3, <1>4, RoutingAssumption
<1>6. CredentialAvailable(p.env, s)
  BY <1>2, <1>5 DEF CredentialAvailable
<1> DEFINE chosen == {t \in Specs : Mode(p.env) = "config" =>
                        t.id = p.env.config.id /\ t.family = p.env.config.family}
           models(t) == IF Mode(p.env) = "config" THEN {p.env.config.model} ELSE t.models
           route(t) == [id |-> t.id, family |-> t.family, models |-> models(t), images |-> t.images]
<1>7. Snapshot(p.env) = {route(t) : t \in {x \in chosen : CredentialAvailable(p.env, x)}}
  BY DEF Snapshot
<1>8. route(s).id = s.id
  OBVIOUS
<1> HIDE DEF route
<1>9. route(s) \in p.routes
  BY <1>1, <1>4, <1>6, <1>7
<1> QED BY <1>3, <1>4, <1>8, <1>9

LEMMA AnnouncedProvidersRun ==
  ASSUME RoutingInv, ConfigAlone
  PROVE  OffersKept
<1> SUFFICES ASSUME process # Absent, process.mode # "identity" PROVE OffersKept
  BY DEF OffersKept
<1> DEFINE p == process
<1>1. FrozenWell(p)
  BY DEF RoutingInv
<1>2. p.routes = Snapshot(p.env)
  BY <1>1 DEF FrozenWell
<1>3. ASSUME NEW id \in AnnouncedIds(p) \ Relays PROVE (\E c \in p.custom : c.id = id) \/ Chosen(p, id)
  <2>1. CASE id = "faux"
    BY <1>1, <2>1, FauxChosen
  <2>2. CASE \E r \in p.routes : r.id = id
    BY <1>1, <2>2, RouteChosen
  <2>3. ASSUME NEW m \in AdvertisedModels(p), m.id = id
        PROVE  \/ id = "faux" \/ \E r \in p.routes : r.id = id
               \/ \E c \in p.custom : c.id = id
    BY <2>3, AdvertisedAre, DescribedFields, FauxModelFields
  <2>4. ASSUME NEW l \in Legacy, EndpointSet(p.env, l.id), l.key \in p.env.keys, l.id = id
        PROVE  (\E r \in p.routes : r.id = id) \/ (\E c \in p.custom : c.id = id) \/ Chosen(p, id)
    <3> SUFFICES ASSUME ~(\E r \in p.routes : r.id = id), ~(\E c \in p.custom : c.id = id)
                 PROVE  Chosen(p, id)
      OBVIOUS
    <3>1. l.id \in {s.id : s \in Specs} => p.mode = "production"
      BY <1>1, <2>4, ConfigHasRoute
    <3>2. \A r \in p.routes : r.id # l.id
      BY <2>4
    <3>3. \A c \in p.custom : c.id # l.id
      BY <2>4
    <3>4. Chosen(p, l.id)
      BY <1>1, <2>4, <3>1, <3>2, <3>3, LegacyRuns
    <3> QED BY <2>4, <3>4
  <2>5. ASSUME NEW a \in p.registry, a.id = id
        PROVE  \/ id = "faux" \/ \E r \in p.routes : r.id = id
               \/ \E c \in p.custom : c.id = id
               \/ Chosen(p, id)
    <3>1. ~RelayAdapter(a)
      BY <2>5 DEF RelayAdapter
    <3> QED BY <1>1, <1>2, <2>4, <2>5, <3>1, RegistryHas
  <2>6. \/ \E m \in AdvertisedModels(p) : m.id = id
        \/ \E a \in p.registry : a.id = id
    BY DEF AnnouncedIds
  <2> QED BY <2>1, <2>2, <2>3, <2>5, <2>6
<1>4. ASSUME NEW c \in p.custom, NEW m \in c.models, c.images
      PROVE  RunStart(p, [id |-> c.id, model |-> m, family |-> c.family, images |-> TRUE])
               # "imageRefused"
  <2> DEFINE sel == [id |-> c.id, model |-> m, family |-> c.family, images |-> TRUE]
  <2>1. sel.id = c.id /\ sel.model = m /\ sel.family = c.family
    OBVIOUS
  <2> HIDE DEF sel
  <2>2. RunStart(p, sel) = IF c.needs \subseteq stored THEN "accepted" ELSE "unavailable"
    BY <1>1, <1>4, <2>1, CustomsRun
  <2> QED BY <2>2 DEF sel
<1>5. \A id \in AnnouncedIds(p) \ Relays :
         \/ \E c \in p.custom : c.id = id
         \/ \E sel \in Selections : sel.id = id /\ RunStart(p, sel) = "accepted"
  BY <1>3 DEF Chosen
<1> QED BY <1>4, <1>5 DEF OffersKept

(* What a daemon offers is what it runs: every model it lists, nothing else, *)
(* and each provider it announces, whatever connections, keys and sponsored  *)
(* routes change while it runs.                                              *)
THEOREM OffersAreKept ==
  ConfigAlone => (RoutingSpec => []OffersHold)
<1>1. ASSUME ConfigAlone PROVE RoutingSpec => []OffersHold
  <2>1. RoutingInv => OffersHold
    BY <1>1, ListedModelsRun, OnlyListedModelsRun, AnnouncedProvidersRun DEF OffersHold
  <2> QED BY <2>1, RoutingAlways, PTL
<1> QED BY <1>1
=============================================================================
