---------------------------- MODULE BlockingFeed ----------------------------
(***************************************************************************)
(* The blocking pipeline of the extension's background worker: pullFeed,   *)
(* syncFeed, updateFeed and refreshBlockRules of                           *)
(* apps/extension/src/background, with the exceptions the user grants and  *)
(* revokes.                                                                *)
(*                                                                         *)
(* Every function is async and nothing serialises them: the worker's start *)
(* launches a refresh and a pull, an alarm launches another pull, and a    *)
(* message from a page launches a change of the exceptions.  A job's pc    *)
(* names the await it stands at, so two jobs interleave at exactly the     *)
(* awaits.  The store (feed, exceptions, attempted) and the browser's      *)
(* dynamic rules outlive the worker; pc and what a job has read do not.    *)
(***************************************************************************)
EXTENDS FeedUpdate, BlockRules

CONSTANTS
    UserJobs,     \* messages about exceptions being served at once
    Sites,        \* the hosts the user decides about
    Nothing       \* a local a job has not filled, or no longer holds

Jobs == {"startRefresh", "startPull", "alarmPull"} \cup UserJobs

ASSUME JobsAssumption ==
    /\ {"startRefresh", "startPull", "alarmPull"} \cap UserJobs = {}
    /\ Listings \subseteq Entry
    /\ IsFiniteSet(Listings)
    /\ Rank \in [Listings -> Nat]
    /\ \A l, m \in Listings : Rank[l] = Rank[m] => l = m
    /\ RuleLimit > 0
    /\ Sites \subseteq Hosts
    /\ Nothing \notin Updates \cup Feed \cup {NoFeed}

VARIABLES
    feed,         \* the 'phishing' row of the feeds store
    exceptions,   \* the 'domain' rows of the exceptions store
    attempted,    \* LAST_FEED_KEY is less than six hours old
    installed,    \* the browser's dynamic rules
    worker,       \* the service worker is running
    alarm,        \* FEED_ALARM is due
    pc,           \* per job: the await it stands at
    upd,          \* per job: the update it fetched
    base,         \* per job: the row it read
    rules,        \* per job: the rule set it built
    seen,         \* per job: the rule ids getDynamicRules gave it
    fetches,      \* history: requests for the feed in this six-hour window
    settled       \* history: the version in force when the worker last started

store == <<feed, exceptions, attempted>>
held  == <<upd, base, rules, seen>>
host  == <<installed, worker, alarm>>
vars  == <<feed, exceptions, attempted, installed, worker, alarm,
           pc, upd, base, rules, seen, fetches, settled>>
history == <<fetches, settled>>

PullPc    == {"due", "attempt", "fetch", "read", "apply"}
RefreshPc == {"rules", "exceptions", "ids", "install"}
Pc        == {"idle", "journal"} \cup PullPc \cup RefreshPc

Rule == [id : 1 .. RuleLimit, listing : Listings, excused : SUBSET Hosts]

TypeOK ==
    /\ feed \in Feed \cup {NoFeed}
    /\ exceptions \subseteq Sites
    /\ attempted \in BOOLEAN
    /\ installed \subseteq Rule
    /\ worker \in BOOLEAN
    /\ alarm \in BOOLEAN
    /\ pc \in [Jobs -> Pc]
    /\ upd \in [Jobs -> Updates \cup {Nothing}]
    /\ base \in [Jobs -> Feed \cup {NoFeed, Nothing}]
    /\ rules \in [Jobs -> SUBSET Rule]
    /\ seen \in [Jobs -> SUBSET (1 .. RuleLimit)]
    /\ fetches \in Nat
    /\ settled \in Nat

Idle == \A j \in Jobs : pc[j] = "idle"

(* A fresh install, or one an earlier build left with an unusable version. *)
Init ==
    /\ feed \in {NoFeed, [version |-> Unusable, entries |-> Published[Unusable]]}
    /\ exceptions = {}
    /\ attempted = FALSE
    /\ installed = IF feed = NoFeed THEN {} ELSE BuildRules(feed.entries, {})
    /\ worker = FALSE
    /\ alarm = FALSE
    /\ pc = [j \in Jobs |-> "idle"]
    /\ upd = [j \in Jobs |-> Nothing]
    /\ base = [j \in Jobs |-> Nothing]
    /\ rules = [j \in Jobs |-> {}]
    /\ seen = [j \in Jobs |-> {}]
    /\ fetches = 0
    /\ settled = 0

(* The job is over and holds nothing any more. *)
Finish(j) ==
    /\ pc' = [pc EXCEPT ![j] = "idle"]
    /\ upd' = [upd EXCEPT ![j] = Nothing]
    /\ base' = [base EXCEPT ![j] = Nothing]
    /\ rules' = [rules EXCEPT ![j] = {}]
    /\ seen' = [seen EXCEPT ![j] = {}]

Goto(j, here, there) ==
    /\ pc[j] = here
    /\ pc' = [pc EXCEPT ![j] = there]

-----------------------------------------------------------------------------
(* pullFeed: is a pull owed, record the attempt, fetch, verify, store. *)

PullOwed(j) ==
    /\ ~attempted
    /\ Goto(j, "due", "attempt")
    /\ UNCHANGED <<store, host, held, history>>

PullNotOwed(j) ==
    /\ pc[j] = "due"
    /\ attempted
    /\ Finish(j)
    /\ UNCHANGED <<store, host, history>>

(* Mutation: the attempt is recorded only once the answer is in. *)
AttemptUnrecorded(j) ==
    /\ Goto(j, "attempt", "fetch")
    /\ UNCHANGED <<store, host, held, history>>

RecordAttempt(j) ==
    /\ Goto(j, "attempt", "fetch")
    /\ attempted' = TRUE
    /\ UNCHANGED <<feed, exceptions, host, held, history>>

(* syncFeed: the server, a cache or someone in the middle answers with any *)
(* update there ever was.                                                  *)
Fetch(j) ==
    /\ Goto(j, "fetch", "read")
    /\ \E u \in Updates : upd' = [upd EXCEPT ![j] = u]
    /\ fetches' = fetches + 1
    /\ UNCHANGED <<store, host, base, rules, seen, settled>>

(* No answer, a status that is not OK, a body that does not parse. *)
FetchFails(j) ==
    /\ pc[j] = "fetch"
    /\ Finish(j)
    /\ fetches' = fetches + 1
    /\ UNCHANGED <<store, host, settled>>

(* updateFeed reads the row, and verifies the signature after that await. *)
ReadFeed(j) ==
    /\ Goto(j, "read", "apply")
    /\ base' = [base EXCEPT ![j] = feed]
    /\ UNCHANGED <<store, host, upd, rules, seen, history>>

AcceptUpdate(j) ==
    /\ Goto(j, "apply", "rules")
    /\ Accepts(base[j], upd[j])
    /\ feed' = ApplyUpdate(base[j], upd[j])
    /\ upd' = [upd EXCEPT ![j] = Nothing]
    /\ base' = [base EXCEPT ![j] = Nothing]
    /\ UNCHANGED <<exceptions, attempted, host, rules, seen, history>>

RefuseUpdate(j) ==
    /\ pc[j] = "apply"
    /\ ~Accepts(base[j], upd[j])
    /\ Finish(j)
    /\ UNCHANGED <<store, host, history>>

Pull(j) ==
    \/ PullOwed(j) \/ PullNotOwed(j) \/ RecordAttempt(j) \/ Fetch(j) \/ FetchFails(j)
    \/ ReadFeed(j) \/ AcceptUpdate(j) \/ RefuseUpdate(j)

-----------------------------------------------------------------------------
(* refreshBlockRules: read the feed, read the exceptions, replaceRules. *)

(* Mutation: no feed is taken for an empty feed. *)
DisarmedByNoFeed(j) ==
    /\ pc[j] = "rules"
    /\ feed = NoFeed
    /\ Finish(j)
    /\ installed' = {}
    /\ UNCHANGED <<store, worker, alarm, history>>

(* currentFeed turns "no row" and "could not read" alike into null, and    *)
(* the refresh then leaves the installed rules alone.                      *)
NothingToInstall(j) ==
    /\ pc[j] = "rules"
    /\ feed = NoFeed
    /\ Finish(j)
    /\ UNCHANGED <<store, host, history>>

ReadFeedForRules(j) ==
    /\ feed # NoFeed
    /\ Goto(j, "rules", "exceptions")
    /\ base' = [base EXCEPT ![j] = feed]
    /\ UNCHANGED <<store, host, upd, rules, seen, history>>

BuildRuleSet(j) ==
    /\ Goto(j, "exceptions", "ids")
    /\ rules' = [rules EXCEPT ![j] = BuildRules(base[j].entries, exceptions)]
    /\ base' = [base EXCEPT ![j] = Nothing]
    /\ UNCHANGED <<store, host, upd, seen, history>>

GetDynamicRules(j) ==
    /\ Goto(j, "ids", "install")
    /\ seen' = [seen EXCEPT ![j] = Ids(installed)]
    /\ UNCHANGED <<store, host, upd, base, rules, history>>

(* The browser's own part, as the code relies on it: removal and addition  *)
(* are one step, and an addition whose id is taken fails the whole call.   *)
UpdateDynamicRules(remove, add) ==
    LET kept == {r \in installed : r.id \notin remove}
    IN  installed' = IF Ids(kept) \cap Ids(add) = {} THEN kept \cup add ELSE installed

InstallRules(j) ==
    /\ pc[j] = "install"
    /\ UpdateDynamicRules(seen[j], rules[j])
    /\ Finish(j)
    /\ UNCHANGED <<store, worker, alarm, history>>

Refresh(j) ==
    \/ NothingToInstall(j) \/ ReadFeedForRules(j) \/ BuildRuleSet(j)
    \/ GetDynamicRules(j) \/ InstallRules(j)

-----------------------------------------------------------------------------
(* What the user decides about a site: each writes, then refreshes. *)

Serve(j, there) == worker /\ Goto(j, "idle", there)

AllowBlocked(j, h) ==
    /\ Serve(j, "journal")
    /\ exceptions' = exceptions \cup {h}
    /\ UNCHANGED <<feed, attempted, host, held, history>>

JournalAllowed(j) ==
    /\ Goto(j, "journal", "rules")
    /\ UNCHANGED <<store, host, held, history>>

AddTrusted(j, h) ==
    /\ Serve(j, "rules")
    /\ exceptions' = exceptions \cup {h}
    /\ UNCHANGED <<feed, attempted, host, held, history>>

RevokeTrusted(j, h) ==
    /\ Serve(j, "rules")
    /\ exceptions' = exceptions \ {h}
    /\ UNCHANGED <<feed, attempted, host, held, history>>

Decide(j) == \E h \in Sites : AllowBlocked(j, h) \/ AddTrusted(j, h) \/ RevokeTrusted(j, h)

-----------------------------------------------------------------------------
(* Failures, the worker's life, and time. *)

(* A store, the browser or the network refuses: every caller catches, and  *)
(* what was written before stays written.                                  *)
Fail(j) ==
    /\ pc[j] # "idle"
    /\ Finish(j)
    /\ UNCHANGED <<store, host, history>>

Stop ==
    /\ worker
    /\ worker' = FALSE
    /\ pc' = [j \in Jobs |-> "idle"]
    /\ upd' = [j \in Jobs |-> Nothing]
    /\ base' = [j \in Jobs |-> Nothing]
    /\ rules' = [j \in Jobs |-> {}]
    /\ seen' = [j \in Jobs |-> {}]
    /\ UNCHANGED <<store, installed, alarm, history>>

StopIdle == Idle /\ Stop

(* Mutation: the worker starts without refreshing the rules. *)
LaunchedWithoutRefresh(woken) ==
    /\ ~worker
    /\ worker' = TRUE
    /\ alarm' = FALSE
    /\ pc' = [pc EXCEPT !["startPull"] = "due", !["alarmPull"] = IF woken THEN "due" ELSE "idle"]
    /\ settled' = VersionOf(feed)
    /\ UNCHANGED <<store, installed, held, fetches>>

(* The script's top level: void refreshBlockRules(), void pullFeed(), and  *)
(* alarms.create, which replaces an alarm that has not fired yet.          *)
Launched(woken) ==
    /\ ~worker
    /\ worker' = TRUE
    /\ alarm' = FALSE
    /\ pc' = [pc EXCEPT !["startRefresh"] = "rules", !["startPull"] = "due",
                        !["alarmPull"] = IF woken THEN "due" ELSE "idle"]
    /\ settled' = VersionOf(feed)
    /\ UNCHANGED <<store, installed, held, fetches>>

Start == Launched(FALSE)

(* The alarm wakes the worker and is then delivered to its listener. *)
StartByAlarm == alarm /\ Launched(TRUE)

AlarmFires ==
    /\ worker
    /\ alarm
    /\ Goto("alarmPull", "idle", "due")
    /\ alarm' = FALSE
    /\ UNCHANGED <<store, installed, worker, held, history>>

SixHoursPass ==
    /\ Idle
    /\ attempted \/ ~alarm
    /\ attempted' = FALSE
    /\ alarm' = TRUE
    /\ fetches' = 0
    /\ UNCHANGED <<feed, exceptions, installed, worker, pc, held, settled>>

(* wipeAll on the options page clears one store after another, beside the  *)
(* worker and without telling it.                                          *)
WipeFeeds ==
    /\ feed # NoFeed
    /\ feed' = NoFeed
    /\ settled' = 0
    /\ UNCHANGED <<exceptions, attempted, host, pc, held, fetches>>

WipeExceptions ==
    /\ exceptions # {}
    /\ exceptions' = {}
    /\ UNCHANGED <<feed, attempted, host, pc, held, history>>

WipeSettings ==
    /\ attempted
    /\ attempted' = FALSE
    /\ fetches' = 0
    /\ UNCHANGED <<feed, exceptions, host, pc, held, settled>>

Wipe == WipeFeeds \/ WipeExceptions \/ WipeSettings

-----------------------------------------------------------------------------
Work(j) == Pull(j) \/ Refresh(j) \/ JournalAllowed(j)

Next ==
    \/ \E j \in Jobs : Work(j)
    \/ \E j \in Jobs : Fail(j)
    \/ \E j \in UserJobs : Decide(j)
    \/ Stop \/ Start \/ StartByAlarm \/ AlarmFires
    \/ SixHoursPass
    \/ Wipe

Spec == Init /\ [][Next]_vars

-----------------------------------------------------------------------------
(* Properties *)

(* The row in force is exactly what the publisher put under its version,   *)
(* whatever order the pulls ran in: a delta never lands on another row     *)
(* than the one it was built against, nor a forged list anywhere           *)
(* (applyUpdate's first two rules).                                        *)
FeedAsPublished == AsPublished(feed)

(* From the signature to the browser: no rule stops an address that no     *)
(* signed version ever listed, whichever refreshes mixed their rules.      *)
OnlySignedBlocks ==
    \A r \in installed : \E v \in Versions \cup {Unusable} : r.listing \in Published[v]

(* Two pulls can race and the slower, older one can write last, but the    *)
(* row never falls below what was in force when the worker started: a      *)
(* replay cannot un-fix an entry that was fixed before.                    *)
NeverBelowSettled == settled <= VersionOf(feed)

(* A version falls, other than to nothing in a wipe, only through a pull   *)
(* whose row was overwritten between its read and its write: alone, an old *)
(* or replayed update is refused however it is signed.                     *)
LoweredOnlyByStaleRead ==
    [][feed' # NoFeed /\ VersionOf(feed') < VersionOf(feed) =>
        \E j \in Jobs : pc[j] = "apply" /\ base[j] # feed]_feed

(* No failure, refusal, wipe or crash empties the installed rules: they go *)
(* only when the user has excused every listing of a published version.    *)
NeverDisarmed ==
    [][installed # {} /\ installed' = {} =>
        \E v \in Versions \cup {Unusable} : Wanted(Published[v], Sites) = {}]_installed

(* Six hours see one pull however often the worker starts; the launch and  *)
(* the alarm that woke it may race for it, and a wipe under way lets the   *)
(* next start ask once more.                                               *)
RequestsPerWindow == fetches <= 3

(* What is stored, and what the browser enforces, is what the publisher    *)
(* signed.                                                                 *)
SignedOnly == FeedAsPublished /\ OnlySignedBlocks
=============================================================================
