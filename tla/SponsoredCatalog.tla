--------------------------- MODULE SponsoredCatalog ---------------------------
(***************************************************************************)
(* The sponsored provider catalogue and the routes installed from it: what *)
(* the processes of `qxnm-forge sponsors configure | list | use |          *)
(* installed | remove` share in one state root (sponsored_catalog.rs,      *)
(* commercial_state.rs).                                                   *)
(*                                                                         *)
(* A signed catalogue is a pair of a version and a content; the cache of   *)
(* a source holds one file per catalogue, named after both, and nothing    *)
(* ever replaces or removes such a file.  A process that dies, or whose    *)
(* write fails, between creating the file and syncing it leaves it torn.   *)
(* No lock covers the cache: a load decides with the names it listed       *)
(* before it asked the server.  The installed routes have a lock of their  *)
(* own that is tried, never waited for.                                    *)
(*                                                                         *)
(* Abstractions: signatures are valid or the document is refused; a route  *)
(* is the catalogue its entry was taken from; the temporary files of the   *)
(* two atomic writers are invisible to readers and left out.               *)
(***************************************************************************)
EXTENDS Naturals, FiniteSets, Functions

CONSTANTS Shells,      \* processes of the command line
          Sources,     \* configured (catalogue URL, key) pairs
          Versions,    \* catalogue versions, naturals from 1
          Contents,    \* payloads
          Offers,      \* the entries of each payload
          Expiring,    \* catalogues whose validity ends while the shells run
          MaxCalls,    \* bound: commands all shells run
          MaxCatalogFaults \* bound: crashes and failed writes

ASSUME CatalogAssumption ==
  /\ Versions \subseteq Nat \ {0} /\ Expiring \subseteq Versions \X Contents
  /\ DOMAIN Offers = Contents /\ MaxCalls \in Nat /\ MaxCatalogFaults \in Nat

Catalogs == Versions \X Contents
Entries == UNION {Offers[c] : c \in Contents}
NoSource == <<>>             \* no source, no catalogue, no entry
Commands == {"configure", "list", "use", "installed", "remove"}

VARIABLES source,      \* source.json: a source or NoSource
          cache,       \* per source: the files of its cache directory
          expired,     \* catalogues whose expiresAt has passed
          routes,      \* installed-sponsored-routes.json: entry -> catalogue
          routeLock,   \* the shells that hold installed-sponsored-routes.lock
          call,        \* per shell: the command it runs
          accepted,    \* per source: catalogues some load returned as Remote
          started, setbacks
catalogVars == <<source, cache, expired, routes, routeLock, call, accepted, started, setbacks>>

NoCommand == [at |-> "idle", kind |-> "none", offline |-> FALSE, source |-> NoSource,
         entry |-> NoSource, listed |-> {}, unread |-> {}, active |-> NoSource,
         remote |-> NoSource, origin |-> "none", catalog |-> NoSource,
         before |-> {}, document |-> <<>>]

CatalogInit ==
  /\ source \in {NoSource} \cup {<<s>> : s \in Sources}
  /\ cache = [s \in Sources |-> <<>>]
  /\ expired = {}
  /\ routes = <<>>
  /\ routeLock = {}
  /\ call = [p \in Shells |-> NoCommand]
  /\ accepted = [s \in Sources |-> {}]
  /\ started = 0 /\ setbacks = 0

Version(c) == c[1]
Put(f, x, v) == [y \in DOMAIN f \cup {x} |-> IF y = x THEN v ELSE f[y]]
Names(s) == DOMAIN cache[s]
Ends(p) == call' = [call EXCEPT ![p] = NoCommand]
\* What a load gives its command: list prints it, use goes on with it.
Gives(p, origin, catalog) ==
  call' = [call EXCEPT
    ![p] = [NoCommand EXCEPT !.at = IF call[p].kind = "use" THEN "loaded" ELSE "done",
                        !.kind = call[p].kind, !.entry = call[p].entry,
                        !.origin = origin, !.catalog = catalog,
                        !.before = IF origin = "remote" THEN call[p].before ELSE {},
                        !.listed = IF origin = "remote" THEN call[p].listed ELSE {}]]
Goes(p, step) == call' = [call EXCEPT ![p].at = step]

BeginCommand(p) ==
  /\ call[p].at \in {"idle", "done"} /\ started < MaxCalls
  /\ started' = started + 1
  /\ \E kind \in Commands, offline \in BOOLEAN, s \in Sources, e \in Entries :
       /\ (kind \notin {"list", "use"}) => ~offline
       /\ call' = [call EXCEPT ![p] =
            [NoCommand EXCEPT !.at = CASE kind \in {"list", "use"} -> "readSource"
                                  [] kind = "configure" -> "replace"
                                  [] OTHER -> "tryLock",
                         !.kind = kind, !.offline = offline,
                         !.source = IF kind = "configure" THEN <<s>> ELSE NoSource,
                         !.entry = IF kind \in {"use", "remove"} THEN <<e>> ELSE NoSource]]
  /\ UNCHANGED <<source, cache, expired, routes, routeLock, accepted, setbacks>>

(***************************************************************************)
(* configure: the old file is removed before the new one is renamed into   *)
(* its place, so a reader, or a crash, may find no source at all.          *)
(***************************************************************************)
SeeOldSource(p) ==
  /\ call[p].at = "replace"
  /\ Goes(p, IF source = NoSource THEN "rename" ELSE "removeOld")
  /\ UNCHANGED <<source, cache, expired, routes, routeLock, accepted, setbacks, started>>

RemoveOldSource(p) ==
  /\ call[p].at = "removeOld"
  /\ source' = NoSource
  /\ IF source = NoSource THEN Ends(p) ELSE Goes(p, "rename")
  /\ UNCHANGED <<cache, expired, routes, routeLock, accepted, setbacks, started>>

RenameSource(p) ==
  /\ call[p].at = "rename"
  /\ source' = call[p].source
  /\ Ends(p)
  /\ UNCHANGED <<cache, expired, routes, routeLock, accepted, setbacks, started>>

ReadSource(p) ==
  /\ call[p].at = "readSource"
  /\ IF source = NoSource
       THEN Ends(p)
       ELSE call' = [call EXCEPT ![p].at = "readCache", ![p].source = source,
                                 ![p].before = accepted[source[1]]]
  /\ UNCHANGED <<source, cache, expired, routes, routeLock, accepted, setbacks, started>>

(***************************************************************************)
(* read_cache_state: every well-formed name counts as seen; only a file    *)
(* that is whole and not expired may become the active catalogue.          *)
(***************************************************************************)
ListCache(p) ==
  LET names == Names(call[p].source[1]) IN
  /\ call[p].at = "readCache"
  /\ call' = [call EXCEPT ![p].at = "readFiles", ![p].listed = names, ![p].unread = names]
  /\ UNCHANGED <<source, cache, expired, routes, routeLock, accepted, setbacks, started>>

Usable(s, c) == cache[s][c] = "whole" /\ c \notin expired

ReadCacheFile(p, c) ==
  /\ call[p].at = "readFiles" /\ c \in call[p].unread
  /\ call' = [call EXCEPT
       ![p].unread = @ \ {c},
       ![p].active = IF Usable(call[p].source[1], c)
                          /\ (@ = NoSource \/ Version(c) > Version(@)) THEN c ELSE @]
  /\ UNCHANGED <<source, cache, expired, routes, routeLock, accepted, setbacks, started>>

AnswerOffline(p) ==
  /\ call[p].at = "readFiles" /\ call[p].unread = {} /\ call[p].offline
  /\ IF call[p].active = NoSource THEN Ends(p)
                              ELSE Gives(p, "cache", call[p].active)
  /\ UNCHANGED <<source, cache, expired, routes, routeLock, accepted, setbacks, started>>

(***************************************************************************)
(* fetch and verify_envelope: the server may answer with any catalogue     *)
(* that was ever signed; what is expired is refused like a lost answer.    *)
(***************************************************************************)
Fetch(p) ==
  /\ call[p].at = "readFiles" /\ call[p].unread = {} /\ ~call[p].offline
  /\ \E c \in {NoSource} \cup (Catalogs \ expired) :
       call' = [call EXCEPT ![p].at = "decide", ![p].remote = c]
  /\ UNCHANGED <<source, cache, expired, routes, routeLock, accepted, setbacks, started>>

RolledBack(seen, c) == \E old \in seen : Version(c) < Version(old)
Equivocates(seen, c) == c \notin seen /\ \E old \in seen : Version(c) = Version(old)
\* A load that forgets that an old version may come back.
AcceptableNewer(seen, c) == c # NoSource /\ ~Equivocates(seen, c)

Acceptable(seen, c) == c # NoSource /\ ~RolledBack(seen, c) /\ ~Equivocates(seen, c)

FallBack(p) ==
  /\ call[p].at = "decide" /\ ~Acceptable(call[p].listed, call[p].remote)
  /\ IF call[p].active = NoSource THEN Ends(p)
                              ELSE Gives(p, "cache", call[p].active)
  /\ UNCHANGED <<source, cache, expired, routes, routeLock, accepted, setbacks, started>>

Accept(p) ==
  /\ accepted' = [accepted EXCEPT ![call[p].source[1]] = @ \cup {call[p].remote}]
  /\ Gives(p, "remote", call[p].remote)

CreateFile(p) ==
  LET s == call[p].source[1]  c == call[p].remote IN
  /\ call[p].at = "decide" /\ Acceptable(call[p].listed, c)
  /\ IF c \in Names(s)
       THEN Accept(p) /\ UNCHANGED cache
       ELSE /\ cache' = [cache EXCEPT ![s] = Put(@, c, "torn")]
            /\ Goes(p, "write") /\ UNCHANGED accepted
  /\ UNCHANGED <<source, expired, routes, routeLock, setbacks, started>>

WriteFile(p) ==
  /\ call[p].at = "write"
  /\ cache' = [cache EXCEPT ![call[p].source[1]][call[p].remote] = "whole"]
  /\ Accept(p)
  /\ UNCHANGED <<source, expired, routes, routeLock, setbacks, started>>

WriteFails(p) ==
  /\ call[p].at = "write" /\ setbacks < MaxCatalogFaults
  /\ Ends(p)
  /\ setbacks' = setbacks + 1
  /\ UNCHANGED <<source, cache, expired, routes, routeLock, accepted, started>>

(***************************************************************************)
(* use goes on with the catalogue the load returned; use, installed and    *)
(* remove try the lock of the route document.                              *)
(***************************************************************************)
Install(p) ==
  /\ call[p].at = "loaded"
  /\ IF call[p].entry[1] \in Offers[call[p].catalog[2]] THEN Goes(p, "tryLock") ELSE Ends(p)
  /\ UNCHANGED <<source, cache, expired, routes, routeLock, accepted, setbacks, started>>

LockableShared == TRUE   \* a shared lock instead of an exclusive one

Lockable == routeLock = {}

TryLock(p) ==
  /\ call[p].at = "tryLock"
  /\ IF Lockable THEN routeLock' = routeLock \cup {p} /\ Goes(p, "readRoutes")
                 ELSE Ends(p) /\ UNCHANGED routeLock
  /\ UNCHANGED <<source, cache, expired, routes, accepted, setbacks, started>>

Unlock(p) == routeLock' = routeLock \ {p}

ReadRoutes(p) ==
  LET nothingToWrite == \/ call[p].kind = "installed"
                        \/ call[p].kind = "remove" /\ call[p].entry[1] \notin DOMAIN routes IN
  /\ call[p].at = "readRoutes"
  /\ IF nothingToWrite
       THEN Ends(p) /\ Unlock(p)
       ELSE /\ call' = [call EXCEPT ![p].at = "publish", ![p].document = routes]
            /\ UNCHANGED routeLock
  /\ UNCHANGED <<source, cache, expired, routes, accepted, setbacks, started>>

Edited(p) ==
  LET e == call[p].entry[1]
      others == Restrict(call[p].document, DOMAIN call[p].document \ {e}) IN
  IF call[p].kind = "remove" THEN others ELSE Put(others, e, call[p].catalog)

\* atomic_write renames before it syncs the directory, so a failure after the
\* rename answers an error for a document that is in place.
Publish(p) ==
  /\ call[p].at = "publish"
  /\ \/ routes' = Edited(p) /\ UNCHANGED setbacks
     \/ routes' = routes /\ setbacks < MaxCatalogFaults /\ setbacks' = setbacks + 1
  /\ Ends(p) /\ Unlock(p)
  /\ UNCHANGED <<source, cache, expired, accepted, started>>

CommandDies(p) ==
  /\ call[p].at \notin {"idle", "done"} /\ setbacks < MaxCatalogFaults
  /\ Ends(p) /\ Unlock(p)
  /\ setbacks' = setbacks + 1
  /\ UNCHANGED <<source, cache, expired, routes, accepted, started>>

Expire(c) ==
  /\ c \notin expired
  /\ expired' = expired \cup {c}
  /\ UNCHANGED <<source, cache, routes, routeLock, call, accepted, setbacks, started>>

CatalogNext ==
  \/ \E p \in Shells :
       \/ BeginCommand(p)
       \/ SeeOldSource(p) \/ RemoveOldSource(p) \/ RenameSource(p)
       \/ ReadSource(p) \/ ListCache(p) \/ (\E c \in call[p].unread : ReadCacheFile(p, c))
       \/ AnswerOffline(p) \/ Fetch(p) \/ FallBack(p)
       \/ CreateFile(p) \/ WriteFile(p) \/ WriteFails(p)
       \/ Install(p) \/ TryLock(p) \/ ReadRoutes(p) \/ Publish(p)
       \/ CommandDies(p)
  \/ \E c \in Expiring : Expire(c)

CatalogSpec == CatalogInit /\ [][CatalogNext]_catalogVars

-----------------------------------------------------------------------------
(***************************************************************************)
(* A catalogue a load returns from the server is not older than one that   *)
(* any load had returned from it before this one began; and where it gives *)
(* an accepted version another content, an overlapping load had put that   *)
(* content in the cache before this one listed it (sponsored_catalog.rs,   *)
(* load).  Loads that overlap see stale listings, so among them neither    *)
(* half holds.                                                             *)
(***************************************************************************)
NoRollback ==
  \A p \in Shells : call[p].origin = "remote" =>
    \A old \in call[p].before :
      /\ Version(old) <= Version(call[p].catalog)
      /\ (Version(old) = Version(call[p].catalog) /\ old # call[p].catalog)
           => call[p].catalog \in call[p].listed

(***************************************************************************)
(* A command that publishes the route document changes the route of its    *)
(* own entry and of no other, whoever else edits the document meanwhile    *)
(* (commercial_state.rs, install and remove).                              *)
(***************************************************************************)
RoutesKeepOthers ==
  [][\A p \in Shells : (call[p].at = "publish" /\ call'[p].at = "idle") =>
       LET other == Entries \ {call[p].entry[1]} IN
       /\ DOMAIN routes' \cap other = DOMAIN routes \cap other
       /\ \A e \in DOMAIN routes \cap other : routes'[e] = routes[e]]_catalogVars

(***************************************************************************)
(* A catalogue that was returned as the server's is in the cache, whole,   *)
(* for the next offline load: persist_cache succeeds only when the same    *)
(* content exists or the new file is synced (sponsored_catalog.rs:380).    *)
(***************************************************************************)
AcceptedIsCached ==
  \A s \in Sources : \A c \in accepted[s] : cache[s][c] = "whole"

===============================================================================
