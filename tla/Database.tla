------------------------------ MODULE Database ------------------------------
(***************************************************************************)
(* The connections to the local store: openDb, closeDb, resetStorage,      *)
(* storedVersion and the shape check of storage/db.ts, in several contexts *)
(* of one profile that may run different builds.                           *)
(*                                                                         *)
(* A context keeps one handle and asks for a connection only when it has   *)
(* none, but the asking is an await: two callers of one context that find  *)
(* no handle both ask, and the handle then names the later answer only.    *)
(* IndexedDB serves requests in order; an upgrade or a deletion waits for  *)
(* every open connection to be closed, after telling each of them.         *)
(***************************************************************************)
EXTENDS Integers, Sequences, FiniteSets

CONSTANTS
    Contexts,   \* worker, pages
    Callers,    \* calls of openDb that may be under way in one context
    Build,      \* per context: the version its build asks for
    MaxOpens    \* bound: connections opened

NoConnection == [ctx |-> "none", id |-> 0]

ASSUME DatabaseAssumption ==
    /\ Build \in [Contexts -> Nat \ {0}]
    /\ MaxOpens \in Nat
    /\ "none" \notin Contexts

SchemaVersions == {0} \cup {Build[c] : c \in Contexts}

VARIABLES
    profile,     \* the database: [version, whole], version 0 for none
    conns,       \* the open connections
    handle,      \* per context: the connection it keeps, or None
    queue,       \* the requests IndexedDB has not served
    heard,       \* the connections told of the request at the head
    opened,      \* how many connections there have been
    openedTwice,  \* history: contexts that ever asked twice at once
    resetDone    \* history: whether the last reset asked for has ended

databaseVars == <<profile, conns, handle, queue, heard, opened, openedTwice, resetDone>>

Request(c, what) == [ctx |-> c, what |-> what]
Pending(c, what) == Cardinality({i \in 1 .. Len(queue) : queue[i] = Request(c, what)})

DatabaseTypeOK ==
    /\ profile \in [version : SchemaVersions, whole : BOOLEAN]
    /\ conns \subseteq [ctx : Contexts, id : 1 .. MaxOpens]
    /\ \A c \in Contexts : handle[c] = NoConnection \/ handle[c].ctx = c
    /\ \A i \in 1 .. Len(queue) : queue[i] \in [ctx : Contexts, what : {"open", "delete"}]
    /\ heard \subseteq [ctx : Contexts, id : 1 .. MaxOpens]
    /\ opened \in 0 .. MaxOpens /\ openedTwice \subseteq Contexts /\ resetDone \in BOOLEAN

(* No profile, one an earlier or a later build left, whole or half upgraded. *)
DatabaseStarts(found) ==
    /\ profile = found
    /\ conns = {} /\ handle = [c \in Contexts |-> NoConnection] /\ queue = <<>> /\ heard = {}
    /\ opened = 0 /\ openedTwice = {} /\ resetDone = TRUE

DatabaseInit == \E found \in [version : SchemaVersions, whole : BOOLEAN] : DatabaseStarts(found)

-----------------------------------------------------------------------------
(* openDb: the kept handle, or a request.                                  *)
OpenDb(c) ==
    /\ handle[c] = NoConnection
    /\ Pending(c, "open") < Cardinality(Callers) /\ opened + Len(queue) < MaxOpens
    /\ queue' = Append(queue, Request(c, "open"))
    /\ openedTwice' = IF Pending(c, "open") > 0 THEN openedTwice \cup {c} ELSE openedTwice
    /\ UNCHANGED <<profile, conns, handle, heard, opened, resetDone>>

Asks(what) == queue # <<>> /\ Head(queue).what = what
Served == queue' = Tail(queue) /\ heard' = {}

(* ensureShape creates what is absent; a profile already at this version   *)
(* is not upgraded, and whatIsMissing looks at what was opened.            *)
Shaped(asked) == IF profile.version < asked THEN TRUE ELSE profile.whole
Usable(asked) == Shaped(asked)

(* The later of two answers replaces the handle the earlier one set.       *)
Connect(c) ==
    LET conn == [ctx |-> c, id |-> opened + 1] IN
    /\ opened' = opened + 1
    /\ profile' = [version |-> Build[c], whole |-> Shaped(Build[c])]
    /\ IF Usable(Build[c])
         THEN conns' = conns \cup {conn} /\ handle' = [handle EXCEPT ![c] = conn]
         ELSE conns' = conns /\ handle' = [handle EXCEPT ![c] = NoConnection]

ServeOpen ==
    /\ Asks("open")
    /\ LET c == Head(queue).ctx IN
       \/ profile.version = Build[c] /\ Connect(c)
       \/ profile.version < Build[c] /\ conns = {} /\ Connect(c)
       \/ (* VersionError: a profile from a newer build is left alone.     *)
          /\ profile.version > Build[c]
          /\ handle' = [handle EXCEPT ![c] = NoConnection]
          /\ UNCHANGED <<profile, conns, opened>>
    /\ Served
    /\ UNCHANGED <<openedTwice, resetDone>>

(* What the request at the head waits for.                                 *)
Exclusive ==
    queue # <<>> /\ (Asks("delete") \/ profile.version < Build[Head(queue).ctx])

(* closeDb closes the connection the handle names, whichever was told.     *)
StayOpen(c) == UNCHANGED <<conns, handle>>
CloseDb(c) ==
    /\ conns' = conns \ {handle[c]}
    /\ handle' = [handle EXCEPT ![c] = NoConnection]

(* versionchange: the blocking callback of one old connection.             *)
Blocking(conn) ==
    /\ Exclusive /\ conn \in conns \ heard
    /\ CloseDb(conn.ctx)
    /\ heard' = heard \cup {conn}
    /\ UNCHANGED <<profile, queue, opened, openedTwice, resetDone>>

(* blocked: everybody was told and somebody stays; the caller waits on.    *)
Blocked ==
    /\ Exclusive /\ Asks("open") /\ conns # {} /\ conns \subseteq heard
    /\ handle' = [handle EXCEPT ![Head(queue).ctx] = NoConnection]
    /\ UNCHANGED <<profile, conns, queue, heard, opened, openedTwice, resetDone>>

(* resetStorage: close ours, then delete when everybody else has.          *)
ResetStorage(c) ==
    /\ resetDone /\ opened > 0
    /\ CloseDb(c)
    /\ queue' = Append(queue, Request(c, "delete"))
    /\ resetDone' = FALSE
    /\ UNCHANGED <<profile, heard, opened, openedTwice>>

ServeDelete ==
    /\ Asks("delete") /\ conns = {}
    /\ profile' = [version |-> 0, whole |-> FALSE]
    /\ resetDone' = TRUE
    /\ Served
    /\ UNCHANGED <<conns, handle, opened, openedTwice>>

(* The browser closes a connection: pressure, a reset, cleared site data.  *)
KeepHandle(c) == handle
DropHandle(c) == [handle EXCEPT ![c] = NoConnection]

Terminated(conn) ==
    /\ conn \in conns
    /\ conns' = conns \ {conn}
    /\ handle' = DropHandle(conn.ctx)
    /\ UNCHANGED <<profile, queue, heard, opened, openedTwice, resetDone>>

(* The requests of the other contexts, in their order: one sequence.       *)
LeftWaiting(c) ==
    LET left == {i \in 1 .. Len(queue) : queue[i].ctx # c}
        orders == {from \in [1 .. Cardinality(left) -> left] :
                       \A i, j \in DOMAIN from : i < j => from[i] < from[j]}
    IN {[i \in DOMAIN from |-> queue[from[i]]] : from \in orders}

(* A context ends: its connections close and its requests are dropped.  The *)
(* page that waits for its reset is kept open.                             *)
ContextEnds(c) ==
    /\ \E conn \in conns : conn.ctx = c
    /\ ~ \E i \in 1 .. Len(queue) : queue[i] = Request(c, "delete")
    /\ conns' = {conn \in conns : conn.ctx # c}
    /\ handle' = [handle EXCEPT ![c] = NoConnection]
    /\ queue' \in LeftWaiting(c)
    /\ heard' = IF queue' # <<>> /\ Head(queue') = Head(queue) THEN heard ELSE {}
    /\ UNCHANGED <<profile, opened, openedTwice, resetDone>>

Callbacks == \E conn \in conns : Blocking(conn)

DatabaseNext ==
    \/ \E c \in Contexts : OpenDb(c) \/ ResetStorage(c) \/ ContextEnds(c)
    \/ ServeOpen \/ ServeDelete \/ Callbacks \/ Blocked
    \/ \E conn \in conns : Terminated(conn)

(* IndexedDB serves its queue and calls back; nobody has to close a page.  *)
DatabaseFairness ==
    WF_databaseVars(ServeOpen) /\ WF_databaseVars(ServeDelete) /\ WF_databaseVars(Callbacks)

DatabaseSpec == DatabaseInit /\ [][DatabaseNext]_databaseVars /\ DatabaseFairness

-----------------------------------------------------------------------------
(* The kept handle is a live connection: one the browser closed is never   *)
(* kept (db.ts:187-193, "The cached handle was kept forever").             *)
HandleIsOpen == \A c \in Contexts : handle[c] # NoConnection => handle[c] \in conns

(* Whoever holds a handle reads a profile with every store and index, even *)
(* one a half-finished upgrade left at this very version.                  *)
ServedOnlyWhole == \A c \in Contexts : handle[c] # NoConnection => profile.whole

(* A connection nobody can close any more, because no handle names it, is  *)
(* only ever left by two callers of one context that asked at once.        *)
LeakedOnlyByOverlap ==
    \A conn \in conns : handle[conn.ctx] = conn \/ conn.ctx \in openedTwice

(* A reset ends: every context told to close does close, so the deletion   *)
(* the person asked for comes, unless an overlap has leaked a connection.  *)
ResetEnds == (~ resetDone) ~> (resetDone \/ openedTwice # {})

(* Whoever asks for the database gets a live connection to a whole one,    *)
(* and no connection is left behind but by two who asked at once.          *)
HandlesAreSound ==
    /\ DatabaseTypeOK /\ HandleIsOpen /\ ServedOnlyWhole
    /\ LeakedOnlyByOverlap
=============================================================================
