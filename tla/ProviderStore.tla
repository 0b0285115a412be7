---------------------------- MODULE ProviderStore ----------------------------
(***************************************************************************)
(* Custom provider connections and the credential store                    *)
(* (provider_connection.rs, commercial_state.rs). Several daemons and CLI  *)
(* calls share two files, each behind a lock that is only tried: the       *)
(* document of connections and the directory of credential leaves. The     *)
(* lock of the connections is taken first. Every operation on a leaf first *)
(* brings the directory to the current layout, from the aggregate file of  *)
(* the previous version if it has to. A process may die at every step.     *)
(***************************************************************************)
EXTENDS Naturals, Sequences

CONSTANTS Procs, Providers, Urls,
          None,             \* no holder, no file, no key
          MaxIds,           \* bound: connections ever created
          MaxRequests,      \* bound: requests
          MaxCrashes        \* bound: processes that die

ASSUME StoreAssumption ==
    /\ None \notin Procs /\ Providers \intersect (1..MaxIds) = {}
    /\ None \notin [Providers \union (1..MaxIds) -> Nat \union {None}]
    /\ MaxIds \in Nat /\ MaxRequests \in Nat /\ MaxCrashes \in Nat

VARIABLES doc,        \* the published connections
          lockC,      \* holder of provider-connections.lock
          lockK,      \* holder of provider-credentials.lock
          legacy,     \* the aggregate file of the previous version
          staging,    \* the directory the migration fills
          leaves,     \* the directory of leaves
          temps,      \* a temporary leaf was left behind
          proc,       \* what each process is doing
          adapters,   \* the adapters each daemon built when it started
          want,       \* history: what the store was last told to hold
          clock,      \* history: bindings published so far
          ids, requests, crashes
storeVars == <<doc, lockC, lockK, legacy, staging, leaves, temps, proc, adapters,
               want, clock, ids, requests, crashes>>

Ids == 1..MaxIds

\* A leaf is named by a provider ID, or by a connection for its image key. Its
\* value is the binding under which the key was set.
Names == Providers \union Ids
NoKeys == [n \in Names |-> None]
View == IF leaves = None THEN legacy ELSE leaves

NoConn == [id |-> 0, rev |-> 0, prov |-> None, url |-> None, models |-> None, bind |-> 0]
NoOp == [kind |-> "none", conn |-> NoConn, left |-> <<>>, got |-> 0, seen |-> {}]
Idle == [at |-> "idle", op |-> NoOp]

\* The store starts empty, or as the previous version left it.
StoreInit ==
    /\ doc = {} /\ lockC = None /\ lockK = None
    /\ leaves = None /\ staging = None /\ temps = FALSE
    /\ \E keys \in SUBSET Providers :
           legacy = [n \in Names |-> IF n \in keys THEN 0 ELSE None]
    /\ proc = [p \in Procs |-> Idle]
    /\ adapters = [p \in Procs |-> {}]
    /\ want = legacy /\ clock = 0
    /\ ids = 0 /\ requests = 0 /\ crashes = 0

-----------------------------------------------------------------------------
At(p, at) == proc[p].at = at
Op(p) == proc[p].op
Kind(p) == proc[p].op.kind
Become(p, at, op) == proc' = [proc EXCEPT ![p] = [at |-> at, op |-> op]]
Goto(p, at) == Become(p, at, Op(p))

Free(lock, p) == IF lock = p THEN None ELSE lock

\* The answer, an error included: both locks go with the handler.
Answer(p) ==
    /\ lockC' = Free(lockC, p) /\ lockK' = Free(lockK, p)
    /\ proc' = [proc EXCEPT ![p] = Idle]

Files == UNCHANGED <<legacy, staging, leaves, temps, want>>
Bounds == UNCHANGED <<ids, requests, crashes>>
Rest == UNCHANGED <<adapters, clock>> /\ Bounds

Named(prov) == {c \in doc : c.prov = prov}
Holds(c) == \E d \in doc : d.id = c.id /\ d.rev = c.rev

-----------------------------------------------------------------------------
\* The requests. The client names a connection and the revision it has seen.
Conn(prov, url) == [NoConn EXCEPT !.prov = prov, !.url = url]
RequestOn(kind, conn, left) ==
    [kind |-> kind, conn |-> conn, left |-> left, got |-> 0, seen |-> {}]
Request(kind, conn) == RequestOn(kind, conn, <<>>)
Begin(p) ==
    /\ At(p, "idle") /\ requests < MaxRequests
    /\ requests' = requests + 1
    /\ \/ \E prov \in Providers, url \in Urls :
              \E models \in {None, "given"} :
                  Become(p, "connect",
                         Request("create", [Conn(prov, url) EXCEPT !.models = models]))
       \/ \E c \in doc, prov \in Providers, url \in Urls :
              Become(p, "connect",
                     Request("update", [c EXCEPT !.prov = prov, !.url = url]))
       \/ \E c \in doc, kind \in {"delete", "discover"} :
              Become(p, "connect", Request(kind, c))
       \/ \E c \in doc, kind \in {"set", "unset", "setImage", "unsetImage"} :
              Become(p, "connect", Request(kind, Conn(c.prov, None)))
       \/ \E prov \in Providers, kind \in {"cliSet", "cliUnset"} :
              Become(p, "connect", Request(kind, Conn(prov, None)))
       \/ adapters[p] = {} /\ Become(p, "keys", Request("boot", NoConn))
       \/ \E a \in adapters[p] :
              Become(p, "keys", RequestOn("check", a.conn, <<a.leaf>>))
    /\ UNCHANGED <<doc, lockC, lockK, adapters, clock, ids, crashes>> /\ Files

\* The leaves an operation removes before it publishes the document, in order.
Renamed(op) == \E c \in doc : c.id = op.conn.id /\ c.prov # op.conn.prov
OldName(op) == (CHOOSE c \in doc : c.id = op.conn.id).prov
Binds(op) == op.kind = "create" \/ (op.kind = "update" /\ Renamed(op))

Cleared(op) ==
    CASE op.kind = "create" -> <<op.conn.prov>>
      [] op.kind = "update" /\ Renamed(op) -> <<op.conn.prov, OldName(op)>>
      [] op.kind = "delete" -> <<op.conn.prov, op.conn.id>>
      [] OTHER -> <<>>

\* Mutant: what a discovery found is published whatever the revision is by now.
AdmitsStale(op) ==
    CASE op.kind = "create" -> ids < MaxIds /\ Named(op.conn.prov) = {}
      [] op.kind = "update" ->
             Holds(op.conn) /\ \A c \in Named(op.conn.prov) : c.id = op.conn.id
      [] op.kind \in {"delete", "discover"} -> Holds(op.conn)
      [] op.kind = "discovered" -> \E c \in doc : c.id = op.conn.id
      [] op.kind \in {"set", "unset", "setImage", "unsetImage"} -> Named(op.conn.prov) # {}
      [] OTHER -> TRUE

\* What the document must say for the operation to go on.
Admits(op) ==
    CASE op.kind = "create" -> ids < MaxIds /\ Named(op.conn.prov) = {}
      [] op.kind = "update" ->
             Holds(op.conn) /\ \A c \in Named(op.conn.prov) : c.id = op.conn.id
      [] op.kind \in {"delete", "discover", "discovered"} -> Holds(op.conn)
      [] op.kind \in {"set", "unset", "setImage", "unsetImage"} -> Named(op.conn.prov) # {}
      [] OTHER -> TRUE

\* The leaves a request is about: the key of a connection has its name, its
\* image key its identity.
Subject(op) ==
    CASE op.kind \in {"setImage", "unsetImage"} ->
             <<(CHOOSE c \in doc : c.prov = op.conn.prov).id>>
      [] op.kind \in {"set", "unset", "cliSet", "cliUnset", "discover"} -> <<op.conn.prov>>
      [] OTHER -> Cleared(op)

\* The lock of the connections is tried; under it the document is read and the
\* request examined. A discovery reads its snapshot and lets go of the lock.
Connect(p) ==
    /\ At(p, "connect") /\ UNCHANGED doc /\ Files /\ Rest
    /\ IF lockC # None \/ ~Admits(Op(p))
       THEN Answer(p)
       ELSE LET left == Subject(Op(p)) IN
            /\ lockC' = IF Kind(p) = "discover" THEN None ELSE p
            /\ UNCHANGED lockK
            /\ Become(p, IF left = <<>> THEN "publish" ELSE "keys", [Op(p) EXCEPT !.left = left])

-----------------------------------------------------------------------------
\* The lock of the credentials is tried; then the layout is made current.
TakeKeys(p) ==
    /\ At(p, "keys") /\ UNCHANGED doc /\ Files /\ Rest
    /\ IF lockK # None THEN Answer(p)
                       ELSE lockK' = p /\ UNCHANGED lockC /\ Goto(p, "layout")

\* The directory is there: the aggregate file, never read again, goes.
RemoveLegacy(p) ==
    /\ At(p, "layout") /\ leaves # None
    /\ legacy' = None /\ temps' = FALSE
    /\ Goto(p, "leaf")
    /\ UNCHANGED <<doc, lockC, lockK, staging, leaves, want>> /\ Rest

\* Mutant: the leaves are written straight into the final directory.
MigrateInPlace(p) ==
    /\ At(p, "layout") /\ leaves = None
    /\ leaves' = NoKeys
    /\ IF legacy = None THEN Goto(p, "leaf") /\ UNCHANGED staging
                        ELSE staging' = NoKeys /\ Goto(p, "copy")
    /\ UNCHANGED <<doc, lockC, lockK, legacy, temps, want>> /\ Rest

\* No directory yet: what a dead migration left goes, and a new one begins.
StartMigration(p) ==
    /\ At(p, "layout") /\ leaves = None
    /\ staging' = NoKeys
    /\ IF legacy = None
       THEN leaves' = NoKeys /\ staging' = None /\ Goto(p, "leaf")
       ELSE UNCHANGED leaves /\ Goto(p, "copy")
    /\ UNCHANGED <<doc, lockC, lockK, legacy, temps, want>> /\ Rest

CopyLeaf(p) ==
    /\ At(p, "copy")
    /\ \E n \in Names :
           /\ legacy[n] # None /\ staging[n] = None
           /\ staging' = [staging EXCEPT ![n] = legacy[n]]
    /\ UNCHANGED <<doc, lockC, lockK, legacy, leaves, temps, proc, want>> /\ Rest

PublishLeaves(p) ==
    /\ At(p, "copy") /\ staging = legacy
    /\ leaves' = staging /\ staging' = None
    /\ Goto(p, "layout")
    /\ UNCHANGED <<doc, lockC, lockK, legacy, temps, want>> /\ Rest

-----------------------------------------------------------------------------
\* With the lock and the layout, the operation on leaves.
HasLeaf(p) == At(p, "leaf")
Setting == {"set", "setImage", "cliSet"}
Removing == {"create", "update", "delete", "unset", "unsetImage", "cliUnset"}

WriteTemporary(p) ==
    /\ HasLeaf(p) /\ Kind(p) \in Setting
    /\ temps' = TRUE /\ Goto(p, "replace")
    /\ UNCHANGED <<doc, lockC, lockK, legacy, staging, leaves, want>> /\ Rest

ReplaceLeaf(p) ==
    /\ At(p, "replace")
    /\ temps' = FALSE
    /\ leaves' = [leaves EXCEPT ![Head(Op(p).left)] = clock]
    /\ want' = [want EXCEPT ![Head(Op(p).left)] = clock]
    /\ Answer(p)
    /\ UNCHANGED <<doc, legacy, staging>> /\ Rest

\* One leaf is removed; the next takes the lock again. A request about a
\* connection goes on to the document, a request about a key is done.
RemoveLeaf(p) ==
    /\ HasLeaf(p) /\ Kind(p) \in Removing
    /\ leaves' = [leaves EXCEPT ![Head(Op(p).left)] = None]
    /\ want' = [want EXCEPT ![Head(Op(p).left)] = None]
    /\ IF Kind(p) \in {"unset", "unsetImage", "cliUnset"}
       THEN Answer(p)
       ELSE LET left == Tail(Op(p).left) IN
            /\ lockK' = None /\ UNCHANGED lockC
            /\ Become(p, IF left = <<>> THEN "publish" ELSE "keys", [Op(p) EXCEPT !.left = left])
    /\ UNCHANGED <<doc, legacy, staging, temps>> /\ Rest

\* A discovery and the request of an adapter read one key and are on their way.
ReadKey(p) ==
    /\ HasLeaf(p) /\ Kind(p) \in {"discover", "read"} /\ UNCHANGED doc /\ Files /\ Rest
    /\ LET key == leaves[Head(Op(p).left)] IN
       IF key = None
       THEN Answer(p)
       ELSE /\ lockK' = None /\ UNCHANGED lockC
            /\ Become(p, "network", [Op(p) EXCEPT !.got = key])

\* is_available: the key is there, and the image key when the adapter uses one.
CheckKey(p) ==
    /\ HasLeaf(p) /\ Kind(p) = "check" /\ UNCHANGED doc /\ Files /\ Rest
    /\ IF None \in {leaves[Head(Op(p).left)], leaves[Op(p).conn.prov]}
       THEN Answer(p)
       ELSE /\ lockK' = None /\ UNCHANGED lockC
            /\ Become(p, "keys", [Op(p) EXCEPT !.kind = "read"])

\* list: the names, and no value.
ListKeys(p) ==
    /\ HasLeaf(p) /\ Kind(p) \in {"boot", "list"} /\ UNCHANGED doc /\ Files /\ Rest
    /\ IF Kind(p) = "list"
       THEN Answer(p)
       ELSE /\ lockK' = None /\ UNCHANGED lockC
            /\ Become(p, "load", [Op(p) EXCEPT !.seen = {n \in Names : leaves[n] # None}])

-----------------------------------------------------------------------------
\* The daemon builds an adapter of every usable connection, with the keys it
\* saw before it took the other lock. An adapter keeps its connection for good.
Load(p) ==
    /\ At(p, "load") /\ UNCHANGED <<doc, clock>> /\ Files /\ Bounds
    /\ Answer(p)
    /\ IF lockC # None THEN UNCHANGED adapters
       ELSE \E image \in SUBSET (Ids \intersect Op(p).seen) :
            adapters' = [adapters EXCEPT ![p] =
                {[conn |-> c, leaf |-> IF c.id \in image THEN c.id ELSE c.prov] :
                    c \in {d \in doc : d.models # None /\ d.prov \in Op(p).seen}}]

\* What comes back: a list of models, or an error; an adapter's answer is for
\* the run that asked.
Return(p) ==
    /\ At(p, "network") /\ UNCHANGED doc /\ Files /\ Rest
    /\ \/ Answer(p)
       \/ /\ Kind(p) = "discover"
          /\ Become(p, "connect", [Op(p) EXCEPT !.kind = "discovered"])
          /\ UNCHANGED <<lockC, lockK>>

\* The document with the connection of the request in its new form.
Changed(op) ==
    CASE op.kind = "create" ->
             doc \union {[op.conn EXCEPT !.id = ids + 1, !.rev = 1, !.bind = clock + 1]}
      [] op.kind = "update" ->
             {IF c.id # op.conn.id THEN c
              ELSE [op.conn EXCEPT !.rev = @ + 1, !.models = "given",
                                   !.bind = IF c.prov = op.conn.prov THEN @ ELSE clock + 1] :
                  c \in doc}
      [] op.kind = "discovered" ->
             {IF c.id # op.conn.id THEN c ELSE [c EXCEPT !.rev = @ + 1, !.models = op.conn.url] :
                  c \in doc}
      [] OTHER -> {c \in doc : c.id # op.conn.id}

\* The document is replaced as a whole. The answer shows which keys are set;
\* an error after the replacement leaves the change in place.
Publish(p) ==
    /\ At(p, "publish")
    /\ doc' = Changed(Op(p))
    /\ clock' = IF Binds(Op(p)) THEN clock + 1 ELSE clock
    /\ ids' = IF Kind(p) = "create" THEN ids + 1 ELSE ids
    /\ \/ Answer(p)
       \/ /\ Kind(p) # "delete"
          /\ lockC' = None /\ UNCHANGED lockK
          /\ Become(p, "keys", [NoOp EXCEPT !.kind = "list"])
    /\ Files /\ UNCHANGED <<adapters, requests, crashes>>

\* An error of the file system at a step that was to change a file: what was
\* being built goes away, the rest stays.
Fail(p) ==
    /\ proc[p].at \in {"layout", "copy", "leaf", "replace", "publish"}
    /\ staging' = IF At(p, "copy") THEN None ELSE staging
    /\ temps' = IF At(p, "replace") THEN FALSE ELSE temps
    /\ Answer(p)
    /\ UNCHANGED <<doc, legacy, leaves, want>> /\ Rest

\* The process dies; the system frees its locks, the files stay as they are.
Crash(p) ==
    /\ crashes < MaxCrashes /\ (~At(p, "idle") \/ adapters[p] # {})
    /\ crashes' = crashes + 1
    /\ adapters' = [adapters EXCEPT ![p] = {}]
    /\ Answer(p)
    /\ Files /\ UNCHANGED <<doc, clock, ids, requests>>

Step(p) ==
    \/ Connect(p) \/ TakeKeys(p)
    \/ RemoveLegacy(p) \/ StartMigration(p) \/ CopyLeaf(p) \/ PublishLeaves(p)
    \/ WriteTemporary(p) \/ ReplaceLeaf(p) \/ RemoveLeaf(p)
    \/ ReadKey(p) \/ CheckKey(p) \/ ListKeys(p)
    \/ Load(p) \/ Return(p) \/ Publish(p)

StoreNext == \E p \in Procs : Begin(p) \/ Step(p) \/ Fail(p) \/ Crash(p)
StoreSpec == StoreInit /\ [][StoreNext]_storeVars

-----------------------------------------------------------------------------
\* No key goes out with a connection that took its provider ID after the key
\* was set: creation and renaming clear the name before the document is
\* published, whatever crash or other process comes between
\* (create_with_credential_removal, update_with_provider_cleanup), for
\* discoveries and for adapters built long ago alike. The other way round
\* nothing is promised: keys are read by provider ID when they are used, so a
\* discovery or an adapter of a connection that is gone sends the key that was
\* set for a later connection under the same ID.
NoOldKey ==
    \A p \in Procs :
        (At(p, "network") /\ Head(Op(p).left) \in Providers) => Op(p).got >= Op(p).conn.bind

\* The store shows what it was last told to hold: the move from the aggregate
\* file to the leaves loses no key, and no key that was removed comes back,
\* wherever the process that moves them dies (ensure_current_layout_unlocked).
StoreKeepsLast == View = want

\* Models a discovery found stay with the endpoint they were found at, though
\* no lock is held while the network is asked (discover_models).
ModelsFromEndpoint == \A c \in doc : c.models \in {None, "given", c.url}

\* A connection sends no key older than itself and keeps no models of another endpoint.
ConnectionsOwn == NoOldKey /\ ModelsFromEndpoint
=============================================================================
