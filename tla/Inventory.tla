------------------------------ MODULE Inventory ------------------------------
(***************************************************************************)
(* What the other extensions are allowed to do, and what changed about     *)
(* them since a person last agreed to it: background/extensions.ts, the    *)
(* handlers of background/index.ts that call it, and the comparison of     *)
(* core-extensions/diff.ts.                                                *)
(*                                                                         *)
(* A reading compares the browser's list with the stored snapshots.  The   *)
(* daily review journals what it finds, the screen shows it, and neither   *)
(* moves the snapshots; only trusting a change does.  The one exception is *)
(* the very first reading, which stores the baseline row by row.           *)
(***************************************************************************)
EXTENDS Integers, FiniteSets

CONSTANTS
    Extensions,
    Looks,        \* what is recorded of one: [publisher, permissions, hosts]
    Risky,        \* permissions of RISKY_PERMISSIONS
    Everywhere,   \* host patterns that mean every site
    Unrecorded,   \* hosts of a row older than the field
    Gone,         \* not installed, or no snapshot
    NotTold,      \* no journal row
    Profiles,     \* what may be installed and stored when the first worker starts
    Readings,     \* the daily reviews and screen openings that may run at once
    MaxUpdates,   \* bound: changes in the browser
    MaxReadings,  \* bound: readings begun
    MaxStops      \* bound: stops of the worker

ASSUME InventoryAssumption ==
    /\ Gone \notin Looks /\ Unrecorded \notin Looks \cup {Gone}
    /\ \A look \in Looks : look.hosts # Unrecorded => IsFiniteSet(look.hosts)
    /\ \A profile \in Profiles :
           /\ profile.installed \in [Extensions -> Looks \cup {Gone}]
           /\ profile.snapshots \in [Extensions -> Looks \cup {Gone}]
    /\ MaxUpdates \in Nat /\ MaxReadings \in Nat /\ MaxStops \in Nat

Kinds == {"newly-installed", "removed", "publisher-changed", "permission-added",
          "host-access-widened"}

Rows == Extensions \X (Kinds \cup {"trusted"})

VARIABLES
    installed,    \* the browser's extensions, without ours
    snapshots,    \* the stored rows
    reading,      \* per reading: where it stands and what it has read
    trusting,     \* the acceptance under way: idle, or the id and what was listed
    reported,     \* the changes the screen shows
    extJournal,   \* per extension and kind: what the row tells
    updates, listings, stops,
    original,     \* history: installed when the first reading began
    cut,          \* history: the baseline was not written whole, or more than once
    agreed,       \* history: what the person's trust last recorded
    readTwice,   \* history: two reviews journalled at once
    redated       \* history: a row was rewritten to tell the same

inventoryVars == <<installed, snapshots, reading, trusting, reported, extJournal,
                   updates, listings, stops, original, cut, agreed, readTwice, redated>>

-----------------------------------------------------------------------------
(* diffInventory.                                                          *)

Change(e, kind, tells, severity) ==
    [id |-> e, kind |-> kind, tells |-> tells, severity |-> severity]

Added(old, new) == new.permissions \ old.permissions

(* No comparison against an absence.                                       *)
Widened(old, new) ==
    IF old.hosts = Unrecorded \/ new.hosts = Unrecorded THEN {}
    ELSE new.hosts \ old.hosts

Updated(e, old, new) ==
    (IF old.publisher = new.publisher THEN {}
     ELSE {Change(e, "publisher-changed", <<new.publisher, old.publisher>>, "critical")})
    \cup
    (IF Added(old, new) = {} THEN {}
     ELSE {Change(e, "permission-added", <<Added(old, new)>>,
                  IF Added(old, new) \cap Risky # {} THEN "critical" ELSE "major")})
    \cup
    (IF Widened(old, new) = {} THEN {}
     ELSE {Change(e, "host-access-widened", <<Widened(old, new)>>,
                  IF Widened(old, new) \cap Everywhere # {} THEN "critical" ELSE "major")})

Compared(e, old, new) ==
    CASE old = Gone /\ new = Gone -> {}
      [] old = Gone /\ new # Gone -> {Change(e, "newly-installed", <<>>, "minor")}
      [] old # Gone /\ new = Gone -> {Change(e, "removed", <<>>, "minor")}
      [] OTHER -> Updated(e, old, new)

DiffInventory(before, after) ==
    UNION {Compared(e, before[e], after[e]) : e \in Extensions}

(* stored: what is kept of a snapshot.  The browser always tells the hosts. *)
Stored(look) == look

NoRows == [e \in Extensions |-> Gone]
NeverAgreed == [e \in Extensions |-> Unrecorded]

-----------------------------------------------------------------------------
Writing == {"journalling", "putting"}
Idle == [at |-> "idle", reviews |-> FALSE, list |-> NoRows, changes |-> {}, row |-> {}]
Quiet == [at |-> "idle", id |-> Gone, look |-> Gone]

InventoryTypeOK ==
    /\ installed \in [Extensions -> Looks \cup {Gone}]
    /\ snapshots \in [Extensions -> Looks \cup {Gone}]
    /\ \A r \in Readings :
           /\ reading[r].at \in {"idle", "listed", "seeding", "journalling", "putting"}
           /\ reading[r].reviews \in BOOLEAN
           /\ reading[r].list \in [Extensions -> Looks \cup {Gone}]
           /\ \A c \in reading[r].changes \cup reading[r].row : c.id \in Extensions /\ c.kind \in Kinds
    /\ trusting.at \in {"idle", "listing", "writing", "recording"}
    /\ \A c \in reported : c.id \in Extensions /\ c.kind \in Kinds
    /\ DOMAIN extJournal = Rows
    /\ updates \in 0 .. MaxUpdates /\ listings \in 0 .. MaxReadings /\ stops \in 0 .. MaxStops
    /\ original \subseteq Extensions
    /\ agreed \in [Extensions -> Looks \cup {Gone, Unrecorded}]
    /\ cut \in BOOLEAN /\ readTwice \in BOOLEAN /\ redated \in BOOLEAN

(* A new install, or a profile whose rows predate the hosts.               *)
InventoryStarts(profile) ==
    /\ installed = profile.installed /\ snapshots = profile.snapshots
    /\ reading = [r \in Readings |-> Idle]
    /\ trusting = Quiet
    /\ reported = {}
    /\ extJournal = [row \in Rows |-> NotTold]
    /\ updates = 0 /\ listings = 0 /\ stops = 0
    /\ original = {} /\ cut = FALSE
    /\ agreed = NeverAgreed
    /\ readTwice = FALSE /\ redated = FALSE

InventoryInit == \E profile \in Profiles : InventoryStarts(profile)

(* The person, or a store, installs, updates or removes one.               *)
Update(e) ==
    /\ updates < MaxUpdates
    /\ updates' = updates + 1
    /\ \E look \in {l \in Looks : l.hosts # Unrecorded} \cup {Gone} :
           /\ look # installed[e]
           /\ installed' = [installed EXCEPT ![e] = look]
    /\ UNCHANGED <<snapshots, reading, trusting, reported, extJournal, listings, stops,
                   original, cut, agreed, readTwice, redated>>

-----------------------------------------------------------------------------
(* compareInventory, await by await.                                       *)

List(r) ==
    /\ reading[r].at = "idle" /\ listings < MaxReadings
    /\ listings' = listings + 1
    /\ \E reviews \in BOOLEAN :
           reading' = [reading EXCEPT ![r] = [Idle EXCEPT !.at = "listed", !.reviews = reviews,
                                                          !.list = installed]]
    /\ UNCHANGED <<installed, snapshots, trusting, reported, extJournal, updates, stops, original, cut, agreed, readTwice, redated>>

Found(r, changes) ==
    IF reading[r].reviews
      THEN /\ reading' = [reading EXCEPT ![r].at = "journalling", ![r].changes = changes]
           /\ readTwice' = (readTwice \/ \E q \in Readings : reading[q].at \in Writing)
           /\ UNCHANGED reported
      ELSE /\ reading' = [reading EXCEPT ![r] = Idle]
           /\ reported' = changes
           /\ UNCHANGED readTwice

Seeding == \E r \in Readings : reading[r].at = "seeding"

ReadRows(r) ==
    /\ reading[r].at = "listed"
    /\ cut' = (cut \/ Seeding \/ (snapshots = NoRows /\ agreed # NeverAgreed))
    /\ IF snapshots = NoRows
         THEN /\ reading' = [reading EXCEPT ![r].at = "seeding"]
              /\ original' = original \cup {e \in Extensions : reading[r].list[e] # Gone}
              /\ UNCHANGED <<reported, readTwice>>
         ELSE /\ Found(r, DiffInventory(snapshots, reading[r].list))
              /\ UNCHANGED original
    /\ UNCHANGED <<installed, snapshots, trusting, extJournal, updates, listings, stops, agreed,
                   redated>>

(* The first baseline: one put after another, and nothing to report.       *)
EverythingNew(r) == DiffInventory(NoRows, installed)
NothingNew(r) == {}

Seed(r) ==
    /\ reading[r].at = "seeding"
    /\ \E e \in Extensions :
           /\ reading[r].list[e] # Gone
           /\ snapshots' = [snapshots EXCEPT ![e] = Stored(reading[r].list[e])]
           /\ reading' = [reading EXCEPT ![r].list[e] = Gone]
    /\ UNCHANGED <<installed, trusting, reported, extJournal, updates, listings, stops, original,
                   cut, agreed, readTwice, redated>>

Seeded(r) ==
    /\ reading[r].at = "seeding" /\ reading[r].list = NoRows
    /\ Found(r, NothingNew(r))
    /\ UNCHANGED <<installed, snapshots, trusting, extJournal, updates, listings, stops, original,
                   cut, agreed, redated>>

(* A reading whose list or rows fail: the screen takes it for no changes.  *)
ReadingFails(r) ==
    /\ reading[r].at \in {"listed", "seeding"}
    /\ cut' = (cut \/ reading[r].at = "seeding")
    /\ reading' = [reading EXCEPT ![r] = Idle]
    /\ reported' = IF reading[r].reviews THEN reported ELSE {}
    /\ UNCHANGED <<installed, snapshots, trusting, extJournal, updates, listings, stops, original,
                   agreed, readTwice, redated>>

-----------------------------------------------------------------------------
(* journalChanges: a row for each extension and kind, left alone when it   *)
(* already tells the same.                                                 *)

Same(c) == extJournal[<<c.id, c.kind>>] = c.tells

JournalRead(r) ==
    /\ reading[r].at = "journalling"
    /\ \E c \in reading[r].changes :
           reading' = [reading EXCEPT ![r].changes = @ \ {c},
                                      ![r].at = IF Same(c) THEN @ ELSE "putting",
                                      ![r].row = IF Same(c) THEN {} ELSE {c}]
    /\ UNCHANGED <<installed, snapshots, trusting, reported, extJournal, updates, listings,
                   stops, original, cut, agreed, readTwice, redated>>

JournalPut(r) ==
    /\ reading[r].at = "putting"
    /\ \E c \in reading[r].row :
           /\ redated' = (redated \/ extJournal[<<c.id, c.kind>>] = c.tells)
           /\ extJournal' = [extJournal EXCEPT ![<<c.id, c.kind>>] = c.tells]
    /\ reading' = [reading EXCEPT ![r].at = "journalling", ![r].row = {}]
    /\ UNCHANGED <<installed, snapshots, trusting, reported, updates, listings, stops, original,
                   cut, agreed, readTwice>>

Reviewed(r) ==
    /\ reading[r].at = "journalling" /\ reading[r].changes = {}
    /\ reading' = [reading EXCEPT ![r] = Idle]
    /\ UNCHANGED <<installed, snapshots, trusting, reported, extJournal, updates, listings,
                   stops, original, cut, agreed, readTwice, redated>>

-----------------------------------------------------------------------------
(* acceptInventoryChange, for a change the screen shows.                   *)

Trust(e) ==
    /\ trusting = Quiet
    /\ \E c \in reported : c.id = e
    /\ trusting' = [at |-> "listing", id |-> e, look |-> Gone]
    /\ reported' = {c \in reported : c.id # e}
    /\ UNCHANGED <<installed, snapshots, reading, extJournal, updates, listings, stops,
                   original, cut, agreed, readTwice, redated>>

TrustLists ==
    /\ trusting.at = "listing"
    /\ trusting' = [trusting EXCEPT !.at = "writing", !.look = installed[trusting.id]]
    /\ UNCHANGED <<installed, snapshots, reading, reported, extJournal, updates, listings,
                   stops, original, cut, agreed, readTwice, redated>>

(* Put for one that is still here, delete for one that is gone.            *)
KeptWhenGone(look) == IF look = Gone THEN snapshots[trusting.id] ELSE Stored(look)
Accepted(look) == IF look = Gone THEN Gone ELSE Stored(look)

TrustWrites ==
    /\ trusting.at = "writing"
    /\ snapshots' = [snapshots EXCEPT ![trusting.id] = Accepted(trusting.look)]
    /\ trusting' = [trusting EXCEPT !.at = "recording"]
    /\ agreed' = [agreed EXCEPT ![trusting.id] = trusting.look]
    /\ original' = IF trusting.look = Gone THEN original \ {trusting.id} ELSE original
    /\ UNCHANGED <<installed, reading, reported, extJournal, updates, listings, stops,
                   cut, readTwice, redated>>

TrustRecords ==
    /\ trusting.at = "recording"
    /\ extJournal' = [extJournal EXCEPT ![<<trusting.id, "trusted">>] = <<>>]
    /\ trusting' = Quiet
    /\ UNCHANGED <<installed, snapshots, reading, reported, updates, listings, stops,
                   original, cut, agreed, readTwice, redated>>

(* A list or a store that fails: the screen is answered "ok" all the same. *)
TrustFails ==
    /\ trusting # Quiet
    /\ trusting' = Quiet
    /\ UNCHANGED <<installed, snapshots, reading, reported, extJournal, updates,
                   listings, stops, original, cut, agreed, readTwice, redated>>

(* The browser stops the worker: rows stay, whatever was under way is lost. *)
InventoryStop ==
    /\ stops < MaxStops
    /\ \/ \E r \in Readings : reading[r].at # "idle"
       \/ trusting # Quiet
    /\ stops' = stops + 1
    /\ cut' = (cut \/ Seeding)
    /\ reading' = [r \in Readings |-> Idle]
    /\ trusting' = Quiet
    /\ UNCHANGED <<installed, snapshots, reported, extJournal, updates, listings, original,
                   agreed, readTwice, redated>>

InventoryNext ==
    \/ \E e \in Extensions : Update(e) \/ Trust(e)
    \/ \E r \in Readings : List(r) \/ ReadRows(r) \/ Seed(r) \/ Seeded(r) \/ ReadingFails(r)
                          \/ JournalRead(r) \/ JournalPut(r) \/ Reviewed(r)
    \/ TrustLists \/ TrustWrites \/ TrustRecords \/ TrustFails \/ InventoryStop

InventorySpec == InventoryInit /\ [][InventoryNext]_inventoryVars

-----------------------------------------------------------------------------
(* What is told of the extensions that were here before the first reading: *)
(* none is called newly installed, as long as that reading stored them all *)
(* before anybody else read, and no accepted removal of the last one left  *)
(* the baseline to be made again (extensions.ts:87-88: "Reporting every         *)
(* installed extension as newly installed would bury the one that          *)
(* matters").                                                              *)
OldIsNotNew ==
    \A c \in reported \cup UNION {reading[r].changes : r \in Readings} :
        c.kind = "newly-installed" /\ c.id \in original => cut

(* Trusting a change ends it: a reading that finds an extension as it was  *)
(* when the person's trust was recorded, here or gone, has nothing to      *)
(* report about it, unless a first baseline was still being written and    *)
(* put its older row over the trusted one.                                 *)
AgreedIsSilent ==
    [][\A r \in Readings, e \in Extensions :
          ReadRows(r) /\ ~cut' /\ reading[r].list[e] = agreed[e]
            => \A c \in (reported' \ reported) \cup reading'[r].changes : c.id # e]_inventoryVars

(* A change that is still there keeps the date of the day it was found,    *)
(* unless two reviews wrote at once: a daily alarm does not say again      *)
(* today what it said yesterday.                                           *)
RedatedOnlyByOverlap == redated => readTwice

(* The journal of the other extensions: what was there before is not news, *)
(* and no change is news twice.                                            *)
ChangesAreToldOnce == InventoryTypeOK /\ OldIsNotNew /\ RedatedOnlyByOverlap
=============================================================================
