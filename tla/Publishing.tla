----------------------------- MODULE Publishing -----------------------------
(***************************************************************************)
(* How the blocklist is made, signed, published and answered for:          *)
(* tools/ingest.mjs, sign-feed.mjs, publish-feed.mjs and listings.mjs, and *)
(* the two reads of apps/proxy/src/router.ts that must agree about it,     *)
(* servePublishedFeed and the status of a domain.                          *)
(*                                                                         *)
(* The project publishes one feed.  An ingest writes a snapshot of hosts;  *)
(* an operator may also write an update by hand, whose entries can narrow  *)
(* a host to a path.  Both tables are written by one batch.                *)
(***************************************************************************)
EXTENDS Integers, Sequences, SequencesExt, FiniteSets

CONSTANTS
    FeedEntries,        \* what an update may list
    HostOf,         \* the host an entry is about, as a function
    AskedHosts,     \* the hosts a browser visits and an owner asks about
    AtOrBeneath,    \* the listed hosts each of them is, or is a subdomain of
    SourceTexts,    \* what the source may answer: sequences of hosts, newest first
    Refused,        \* hosts the guard never lists: suffixes, shared hosts, shorteners
    HandUpdates,    \* what an operator may write: [kind, entries, added, removed]
    RuleLimit,      \* the ceiling of one list
    MaxVersion, MaxDay

ASSUME PublishingAssumption ==
    /\ HostOf \in [FeedEntries -> STRING] /\ IsFiniteSet(FeedEntries)
    /\ {HostOf[e] : e \in FeedEntries} \subseteq AskedHosts
    /\ \A host \in AskedHosts :
           AtOrBeneath[host] \cap {host} = {HostOf[e] : e \in FeedEntries} \cap {host}
    /\ \A s \in SourceTexts : s \in Seq(FeedEntries) /\ IsInjective(s)
    /\ \A e \in FeedEntries : e \in Refused => HostOf[e] = e
    /\ HandUpdates \subseteq [kind : {"snapshot", "delta"}, version : Nat, entries : SUBSET FeedEntries,
                             added : SUBSET FeedEntries, removed : SUBSET FeedEntries]
    /\ RuleLimit \in Nat /\ MaxVersion \in Nat /\ MaxDay \in Nat

Hosts == {HostOf[e] : e \in FeedEntries}
Unlisted == -1
NeverPublished == [kind |-> "none", version |-> 0, entries |-> {}, added |-> {}, removed |-> {}]

VARIABLES
    listFile,       \* feeds/phishing.json: [version, entries]
    input,          \* the update the publisher holds
    publishStep,    \* idle, signed, uploaded
    feedRow,        \* the feeds table: the update as published
    listings,       \* the listings table: the day a host was listed
    follower,       \* a client that has applied every update it could
    publishDay,
    shipped,        \* history: the file's entries when it was last published
    unpublished,    \* history: ingests since then
    unhealed        \* history: what since the last accepted snapshot could make
                    \* the two tables differ

publishVars == <<listFile, input, publishStep, feedRow, listings, follower, publishDay,
                 shipped, unpublished, unhealed>>

PublishingTypeOK ==
    /\ listFile.version \in 0 .. MaxVersion /\ listFile.entries \subseteq FeedEntries
    /\ publishStep \in {"idle", "signed", "uploaded"}
    /\ \A u \in {input, feedRow} : u.kind \in {"none", "snapshot", "delta"} /\ u.version \in 0 .. MaxVersion
    /\ listings \in [Hosts -> Unlisted .. MaxDay]
    /\ follower.version \in 0 .. MaxVersion /\ follower.entries \subseteq FeedEntries
    /\ publishDay \in 0 .. MaxDay /\ shipped \subseteq FeedEntries /\ unpublished \in 0 .. MaxVersion
    /\ unhealed \subseteq {"narrowed", "refused"}

PublishingInit ==
    /\ listFile = [version |-> 0, entries |-> {}]
    /\ input = NeverPublished /\ publishStep = "idle" /\ feedRow = NeverPublished
    /\ listings = [h \in Hosts |-> Unlisted]
    /\ follower = [version |-> 0, entries |-> {}]
    /\ publishDay = 0 /\ shipped = {} /\ unpublished = 0 /\ unhealed = {}

-----------------------------------------------------------------------------
(* What passes the guard, by its place; the ceiling keeps the newest.      *)
Guarded(hosts) == {i \in 1 .. Len(hosts) : hosts[i] \notin Refused}

Snapshot(hosts) ==
    {hosts[i] : i \in {j \in Guarded(hosts) : Cardinality({k \in Guarded(hosts) : k <= j}) <= RuleLimit}}

ShrankTooFar(previous, next) == 3 * (Cardinality(previous) - Cardinality(next)) > Cardinality(previous)

(* A source that fails, or parses to nothing, stops the run.               *)
Ingest ==
    /\ publishStep = "idle" /\ listFile.version < MaxVersion
    /\ \E text \in SourceTexts :
        /\ text # <<>>
        /\ ~ ShrankTooFar(listFile.entries, Snapshot(text))
        /\ listFile' = [version |-> listFile.version + 1, entries |-> Snapshot(text)]
    /\ unpublished' = unpublished + 1
    /\ UNCHANGED <<input, publishStep, feedRow, listings, follower, publishDay, shipped, unhealed>>

FromFile == [NeverPublished EXCEPT !.kind = "snapshot", !.version = listFile.version,
                                   !.entries = listFile.entries]

(* Written by hand, on top of what is published.                           *)
ByHand(u) == [u EXCEPT !.version = feedRow.version + 1]

(* Every entry must be about a public host, or nothing is published.       *)
Mentioned(u) == u.entries \cup u.added \cup u.removed
Sign ==
    /\ publishStep = "idle"
    /\ \/ listFile.version > 0 /\ input' = FromFile
       \/ \E u \in HandUpdates : feedRow.version < MaxVersion /\ input' = ByHand(u)
    /\ \A e \in Mentioned(input') : HostOf[e] # "none"
    /\ publishStep' = "signed"
    /\ UNCHANGED <<listFile, feedRow, listings, follower, publishDay, shipped, unpublished, unhealed>>

HostsOf(entries) == {HostOf[e] : e \in entries}

DatedOnce(date) == IF date = Unlisted THEN publishDay ELSE date

(* A snapshot is the whole answer; a delta says nothing of what it does    *)
(* not mention.                                                            *)
NothingSwept(u) == {}
Dropped(u) == IF u.kind = "snapshot" THEN Hosts \ HostsOf(u.entries) ELSE HostsOf(u.removed)
Inserted(u) == IF u.kind = "snapshot" THEN HostsOf(u.entries) ELSE HostsOf(u.added)

(* The rows are dropped before any is inserted, so a host that an update   *)
(* both drops and inserts gets a new date.                                 *)
Remaining(u) == [h \in Hosts |-> IF h \in Dropped(u) THEN Unlisted ELSE listings[h]]
ListingSql(u) ==
    [h \in Hosts |-> IF h \in Inserted(u) THEN DatedOnce(Remaining(u)[h]) ELSE Remaining(u)[h]]

(* applyUpdate of an up to date client, from the update's own entries.     *)
FollowerAccepts(u) ==
    /\ u.version > follower.version
    /\ u.kind = "delta" => follower.version > 0 /\ u.version = follower.version + 1
FollowerApplies(u) == [version |-> u.version,
               entries |-> IF u.kind = "snapshot" THEN u.entries
                           ELSE (follower.entries \ u.removed) \cup u.added]

(* A removed path of a host another of whose paths stays listed.           *)
Narrowed(u) == u.kind = "delta" /\
    (HostsOf(u.removed) \cap HostsOf(FollowerApplies(u).entries)) \ HostsOf(u.added) # {}

Upload ==
    /\ publishStep = "signed"
    /\ feedRow' = input /\ listings' = ListingSql(input)
    /\ follower' = IF FollowerAccepts(input) THEN FollowerApplies(input) ELSE follower
    /\ unhealed' =
         CASE ~ FollowerAccepts(input) -> unhealed \cup {"refused"}
           [] FollowerAccepts(input) /\ input.kind = "snapshot" -> {}
           [] OTHER -> unhealed \cup (IF Narrowed(input) THEN {"narrowed"} ELSE {})
    /\ IF input = FromFile THEN unpublished' = 0 /\ shipped' = input.entries
                           ELSE UNCHANGED <<unpublished, shipped>>
    /\ publishStep' = "uploaded"
    /\ UNCHANGED <<listFile, input, publishDay>>

DatedRow(host) == host \in Hosts /\ listings[host] # Unlisted

(* The smoke test: the service serves what was signed, and answers for its *)
(* first entry.  It reports; nothing is undone.                            *)
Smoke == publishStep = "uploaded" /\ publishStep' = "idle"
         /\ UNCHANGED <<listFile, input, feedRow, listings, follower, publishDay, shipped, unpublished, unhealed>>

NextDay == publishDay < MaxDay /\ publishDay' = publishDay + 1
           /\ UNCHANGED <<listFile, input, publishStep, feedRow, listings, follower, shipped, unpublished, unhealed>>

PublishingNext == Ingest \/ Sign \/ Upload \/ Smoke \/ NextDay

PublishingSpec == PublishingInit /\ [][PublishingNext]_publishVars

(* What the service answers: of a domain, on the page an owner reads (with *)
(* the form that lifts a listing of ours), and of the feed itself.  The    *)
(* row looked up is that of the host asked about, and the look-up may      *)
(* fail.                                                                   *)
DomainStatus(host, found) ==
    IF ~ found THEN "unknown" ELSE IF DatedRow(host) THEN "listed" ELSE "not-listed"
StatusPage(host, found) ==
    IF ~ found THEN "no answer" ELSE IF DatedRow(host) THEN "listed, with the form" ELSE "not listed"
SaidClean(host, found) ==
    DomainStatus(host, found) = "not-listed" \/ StatusPage(host, found) = "not listed"
ServedFeed == feedRow

-----------------------------------------------------------------------------
(* What a browser stops: a listing's rules are about its host and every    *)
(* subdomain (rules.ts:80-90).  The block screen sends the owner to the    *)
(* status of the blocked host (appeal-link.ts:28-43), not of the listed.   *)
BlockedHosts == {host \in AskedHosts : AtOrBeneath[host] \cap HostsOf(follower.entries) # {}}

(* The page an owner is sent to agrees with the list that blocked them     *)
(* (publish-feed.mjs:71-74), as far as the listed hosts themselves go:     *)
(* those an up to date browser holds, and no others, are answered          *)
(* "listed".  Beneath a listed host one is blocked and told "not listed":  *)
(* the look-up is by the very name (router.ts:395, 463).  A look-up that   *)
(* failed never says so.  All of it unless an update that browsers refuse  *)
(* was published since the last snapshot, or a delta removed one path of a *)
(* host and left another; the next accepted snapshot heals both.           *)
StatusFollowsTheFeed ==
    unhealed = {} =>
        /\ \A host \in AskedHosts :
             /\ DomainStatus(host, TRUE) = "listed" <=> host \in HostsOf(follower.entries)
             /\ StatusPage(host, TRUE) = "not listed" <=> host \notin HostsOf(follower.entries)
        /\ \A host \in BlockedHosts, found \in BOOLEAN :
             SaidClean(host, found) =>
                 \E above \in AtOrBeneath[host] \ {host} : DomainStatus(above, TRUE) = "listed"
        /\ ServedFeed.kind = "snapshot" => ServedFeed.entries = follower.entries

(* The drift goes one way after narrowing deltas alone: an owner may be    *)
(* told "not listed" of a blocked site, never "listed" of an open one.     *)
NeverListedWhenOpen ==
    "refused" \notin unhealed =>
        \A host \in AskedHosts, found \in BOOLEAN :
            DomainStatus(host, found) = "listed" => host \in BlockedHosts

(* The date an owner quotes is "written once and never rewritten"          *)
(* (listings.mjs:47): while a host stays listed its date does not move,    *)
(* unless a delta removes one entry of the host and adds another, which    *)
(* deletes its row and inserts it anew.                                    *)
Renamed(u) == IF u.kind = "delta" THEN HostsOf(u.removed) \cap HostsOf(u.added) ELSE {}

DateStands ==
    [][\A h \in Hosts : listings[h] # Unlisted /\ listings'[h] # Unlisted =>
            listings'[h] = listings[h] \/ h \in Renamed(input)]_publishVars

(* A truncated source cannot unblock most of the list at one stroke: when  *)
(* each ingest is published before the next, a browser that follows the    *)
(* file loses at most a third of what it blocks.  Two ingests between two  *)
(* publications may lose more: the file, not the feed, is compared.        *)
LosesAtMostAThird ==
    [][publishStep = "signed" /\ input = FromFile /\ unpublished <= 1 /\ follower.entries = shipped =>
            3 * (Cardinality(follower.entries) - Cardinality(follower'.entries))
                <= Cardinality(follower.entries)]_publishVars

(* What an owner is told of a listed host is what browsers do with it, and *)
(* of an open host never that it is listed; beneath a listed host, and     *)
(* after an update that lets the two part, a blocked one may be told that  *)
(* it is not.                                                              *)
StatusIsTrue ==
    /\ PublishingTypeOK /\ StatusFollowsTheFeed /\ NeverListedWhenOpen
=============================================================================
