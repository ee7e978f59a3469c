------------------------ MODULE BlockingFeed_proofs -------------------------
(***************************************************************************)
(* BlockingFeed, for every publisher, every set of sites and any number of *)
(* jobs: the type invariant, that the stored feed is always one the        *)
(* publisher signed, that only signed listings block, that races never     *)
(* take the feed below what was in force when the worker started, that the *)
(* server is asked a few times at most and that nothing disarms the rules. *)
(***************************************************************************)
EXTENDS BlockingFeed, FiniteSetTheorems, WellFoundedInduction, TLAPS

-----------------------------------------------------------------------------
(* apply.ts *)

(* What is left of an update once applyUpdate's first two refusals passed. *)
LEMMA SignedUpdateShape ==
    ASSUME NEW u \in Updates, u.signed, IsUsableVersion(u.version)
    PROVE  /\ u.version \in Versions
           /\ u.kind \in {"snapshot", "delta"}
           /\ u.kind = "snapshot" => u.entries = Published[u.version]
           /\ u.kind = "delta" =>
                /\ u.base \in Versions
                /\ u.removed = Published[u.base] \ Published[u.version]
                /\ u.added = Published[u.version] \ Published[u.base]
<1>1. CASE \E v \in Versions \cup {Unusable} : u = Snapshot(v)
  BY <1>1 DEF Snapshot, IsUsableVersion
<1>2. CASE \E b \in Versions, v \in Versions : u = Delta(b, v)
  BY <1>2 DEF Delta
<1>3. CASE u = Forged
  BY <1>3 DEF Forged, Snapshot
<1>4. QED
  BY <1>1, <1>2, <1>3 DEF Updates

(* An accepted update yields the publisher's own list of a newer version.  *)
LEMMA AcceptedIsPublished ==
    ASSUME NEW current \in Feed \cup {NoFeed}, AsPublished(current),
           NEW u \in Updates, Accepts(current, u)
    PROVE  /\ ApplyUpdate(current, u) \in Feed
           /\ ApplyUpdate(current, u) # NoFeed
           /\ AsPublished(ApplyUpdate(current, u))
           /\ VersionOf(ApplyUpdate(current, u)) > VersionOf(current)
<1> DEFINE new == ApplyUpdate(current, u)
<1>1. /\ u.version \in Versions
      /\ u.kind \in {"snapshot", "delta"}
      /\ u.kind = "snapshot" => u.entries = Published[u.version]
      /\ u.kind = "delta" =>
           /\ u.base \in Versions
           /\ u.removed = Published[u.base] \ Published[u.version]
           /\ u.added = Published[u.version] \ Published[u.base]
  BY SignedUpdateShape DEF Accepts
<1>2. Published[u.version] \subseteq Listings
  BY <1>1, FeedAssumption
<1>3. new.entries = Published[u.version]
  <2>1. CASE u.kind = "snapshot"
    BY <2>1, <1>1 DEF ApplyUpdate
  <2>2. CASE u.kind = "delta"
    <3>1. current # NoFeed /\ u.base = current.version
      BY <2>2 DEF Accepts, BuiltAgainst
    <3>2. current.entries = Published[u.base]
      BY <3>1 DEF AsPublished
    <3>3. new.entries = (current.entries \ u.removed) \cup u.added
      BY <2>2 DEF ApplyUpdate
    <3>4. QED
      BY <3>2, <3>3, <2>2, <1>1
  <2>3. QED
    BY <2>1, <2>2, <1>1
<1>4. new = [version |-> u.version, entries |-> Published[u.version]]
  BY <1>3 DEF ApplyUpdate
<1>5. new \in Feed
  BY <1>1, <1>2, <1>4 DEF Feed
<1>6. new # NoFeed
  BY <1>5, FeedAssumption DEF Feed
<1>7. AsPublished(new)
  BY <1>4 DEF AsPublished
<1>8. u.version \in Int /\ u.version > 0
  BY <1>1, FeedAssumption DEF Versions
<1>9. VersionOf(new) = u.version
  BY <1>1, <1>4, <1>6, <1>8, FeedAssumption DEF VersionOf, IsUsableVersion
<1>10. u.version > VersionOf(current)
  <2>1. CASE current = NoFeed \/ ~IsUsableVersion(current.version)
    BY <2>1, <1>8 DEF VersionOf
  <2>2. CASE current # NoFeed /\ IsUsableVersion(current.version)
    BY <2>2 DEF VersionOf, Accepts, NotReplayed
  <2>3. QED
    BY <2>1, <2>2
<1>11. QED
  BY <1>5, <1>6, <1>7, <1>9, <1>10

LEMMA VersionOfType ==
    ASSUME NEW f \in Feed \cup {NoFeed}
    PROVE  VersionOf(f) \in Nat
BY FeedAssumption DEF VersionOf, IsUsableVersion, Feed, Versions

-----------------------------------------------------------------------------
(* rules.ts *)

(* A rule has an id within the ceiling and stops a wanted listing.         *)
LEMMA BuildRulesType ==
    ASSUME NEW entries \in SUBSET Listings, NEW excused \in SUBSET Hosts
    PROVE  /\ BuildRules(entries, excused) \subseteq Rule
           /\ \A r \in BuildRules(entries, excused) : r.listing \in entries
<1> DEFINE wanted == Wanted(entries, excused)
<1>1. wanted \subseteq entries /\ wanted \subseteq Listings
  BY DEF Wanted
<1>2. ASSUME NEW l \in wanted, Position(l, wanted) <= RuleLimit
      PROVE  [id |-> Position(l, wanted), listing |-> l,
              excused |-> TrustedUnder(l, excused)] \in Rule
  <2> DEFINE before == {m \in wanted : Rank[m] <= Rank[l]}
  <2>1. IsFiniteSet(before)
    BY <1>1, JobsAssumption, FS_Subset
  <2>2. l \in before
    BY <1>1, JobsAssumption
  <2>3. Cardinality(before) \in Nat /\ Cardinality(before) # 0
    BY <2>1, <2>2, FS_CardinalityType, FS_EmptySet
  <2>4. Position(l, wanted) \in 1 .. RuleLimit
    BY <1>2, <2>3, RulesAssumption DEF Position
  <2>5. TrustedUnder(l, excused) \subseteq Hosts
    BY DEF TrustedUnder
  <2>6. QED
    BY <1>1, <2>4, <2>5 DEF Rule
<1>3. QED
  BY <1>1, <1>2 DEF BuildRules

-----------------------------------------------------------------------------
(* Type correctness *)

LEMMA LaunchedJobs == {"startRefresh", "startPull", "alarmPull"} \subseteq Jobs
BY DEF Jobs

LEMMA FinishType ==
    ASSUME TypeOK, NEW j \in Jobs, Finish(j)
    PROVE  /\ pc' \in [Jobs -> Pc]
           /\ upd' \in [Jobs -> Updates \cup {Nothing}]
           /\ base' \in [Jobs -> Feed \cup {NoFeed, Nothing}]
           /\ rules' \in [Jobs -> SUBSET Rule]
           /\ seen' \in [Jobs -> SUBSET (1 .. RuleLimit)]
BY DEF TypeOK, Finish, Pc

LEMMA SentinelFeed == NoFeed # Nothing /\ Nothing \notin Feed /\ NoFeed \notin Feed
BY FeedAssumption, JobsAssumption DEF Feed

(* Every job that is about to use a local holds it. *)
Loaded ==
    \A j \in Jobs :
        /\ pc[j] = "apply" => base[j] # Nothing
        /\ pc[j] \in {"read", "apply"} => upd[j] # Nothing
        /\ pc[j] = "exceptions" => base[j] \in Feed

(* All that is stored or held from a feed is the publisher's. *)
HeldAsPublished ==
    \A j \in Jobs :
        /\ base[j] # Nothing => AsPublished(base[j])
        /\ \A r \in rules[j] : \E v \in Versions \cup {Unusable} : r.listing \in Published[v]

PublishedInv == TypeOK /\ Loaded /\ FeedAsPublished /\ HeldAsPublished /\ OnlySignedBlocks

(* A refresh builds rules from published listings only. *)
LEMMA BuiltFromPublished ==
    ASSUME NEW f \in Feed, AsPublished(f), NEW excused \in SUBSET Hosts
    PROVE  /\ BuildRules(f.entries, excused) \subseteq Rule
           /\ \A r \in BuildRules(f.entries, excused) :
                  \E v \in Versions \cup {Unusable} : r.listing \in Published[v]
<1>1. f.entries \in SUBSET Listings /\ f.version \in Versions \cup {Unusable}
  BY DEF Feed
<1>2. f.entries = Published[f.version]
  BY SentinelFeed DEF AsPublished
<1>3. QED
  BY <1>1, <1>2, BuildRulesType

LEMMA PublishedInit == Init => PublishedInv
<1> SUFFICES ASSUME Init PROVE PublishedInv
  OBVIOUS
<1> DEFINE legacy == [version |-> Unusable, entries |-> Published[Unusable]]
<1>1. legacy \in Feed /\ AsPublished(legacy)
  BY FeedAssumption DEF Feed, AsPublished
<1>2. feed \in Feed \cup {NoFeed} /\ AsPublished(feed)
  BY <1>1 DEF Init, AsPublished
<1>3. /\ installed \subseteq Rule
      /\ \A r \in installed : \E v \in Versions \cup {Unusable} : r.listing \in Published[v]
  <2>1. CASE feed = NoFeed
    BY <2>1 DEF Init
  <2>2. CASE feed # NoFeed
    BY <2>2, <1>2, BuiltFromPublished DEF Init
  <2>3. QED
    BY <2>1, <2>2
<1>4. TypeOK
  BY <1>2, <1>3 DEF Init, TypeOK, Pc
<1>5. Loaded /\ HeldAsPublished
  BY DEF Init, Loaded, HeldAsPublished
<1>6. QED
  BY <1>2, <1>3, <1>4, <1>5 DEF PublishedInv, FeedAsPublished, OnlySignedBlocks

(* Ending a job leaves nothing behind that could be unpublished. *)
LEMMA FinishHeld ==
    ASSUME TypeOK, Loaded, HeldAsPublished, NEW j \in Jobs, Finish(j)
    PROVE  Loaded' /\ HeldAsPublished'
<1>1. \A k \in Jobs :
        /\ pc'[k] = IF k = j THEN "idle" ELSE pc[k]
        /\ upd'[k] = IF k = j THEN Nothing ELSE upd[k]
        /\ base'[k] = IF k = j THEN Nothing ELSE base[k]
        /\ rules'[k] = IF k = j THEN {} ELSE rules[k]
  BY DEF TypeOK, Finish
<1>2. Loaded'
  BY <1>1 DEF Loaded
<1>3. HeldAsPublished'
  BY <1>1 DEF HeldAsPublished
<1>4. QED
  BY <1>2, <1>3

(* Every step that only ends a job, at most counting a request. *)
LEMMA FinishKeepsPublished ==
    ASSUME PublishedInv, NEW j \in Jobs, Finish(j),
           UNCHANGED <<store, host, settled>>, fetches' \in Nat
    PROVE  PublishedInv'
<1>1. TypeOK'
  BY FinishType DEF PublishedInv, TypeOK, store, host
<1>2. Loaded' /\ HeldAsPublished'
  BY FinishHeld DEF PublishedInv
<1>3. FeedAsPublished' /\ OnlySignedBlocks'
  BY DEF PublishedInv, FeedAsPublished, OnlySignedBlocks, store, host
<1>4. QED
  BY <1>1, <1>2, <1>3 DEF PublishedInv

(* A step that only moves a job on, to an await that needs no local. *)
LEMMA GotoKeepsPublished ==
    ASSUME PublishedInv, NEW j \in Jobs, NEW here, NEW there \in Pc, Goto(j, here, there),
           there \notin {"read", "apply", "exceptions"},
           UNCHANGED <<feed, installed, held, history>>,
           exceptions' \in SUBSET Sites, attempted' \in BOOLEAN,
           worker' \in BOOLEAN, alarm' \in BOOLEAN
    PROVE  PublishedInv'
<1>1. TypeOK'
  BY DEF PublishedInv, TypeOK, Goto, held, history
<1>2. Loaded' /\ HeldAsPublished'
  BY DEF PublishedInv, TypeOK, Loaded, HeldAsPublished, Goto, held
<1>3. FeedAsPublished' /\ OnlySignedBlocks'
  BY DEF PublishedInv, FeedAsPublished, OnlySignedBlocks
<1>4. QED
  BY <1>1, <1>2, <1>3 DEF PublishedInv

(* The actions of a pull. *)
LEMMA PullKeepsPublished ==
    ASSUME PublishedInv, NEW j \in Jobs, Pull(j)
    PROVE  PublishedInv'
<1> USE DEF PublishedInv
<1>1. CASE PullOwed(j)
  BY <1>1, GotoKeepsPublished DEF PullOwed, Pc, PullPc, TypeOK, store, host
<1>2. CASE PullNotOwed(j)
  BY <1>2, FinishKeepsPublished DEF PullNotOwed, TypeOK, history
<1>3. CASE RecordAttempt(j)
  BY <1>3, GotoKeepsPublished DEF RecordAttempt, Pc, PullPc, TypeOK, host
<1>4. CASE Fetch(j)
  <2>1. PICK u \in Updates : upd' = [upd EXCEPT ![j] = u]
    BY <1>4 DEF Fetch
  <2>2. u # Nothing
    BY JobsAssumption
  <2>3. TypeOK'
    BY <1>4, <2>1 DEF Fetch, TypeOK, Goto, Pc, PullPc, store, host
  <2>4. Loaded' /\ HeldAsPublished'
    BY <1>4, <2>1, <2>2 DEF Fetch, TypeOK, Goto, Loaded, HeldAsPublished
  <2>5. FeedAsPublished' /\ OnlySignedBlocks'
    BY <1>4 DEF Fetch, FeedAsPublished, OnlySignedBlocks, store, host
  <2>6. QED
    BY <2>3, <2>4, <2>5
<1>5. CASE FetchFails(j)
  BY <1>5, FinishKeepsPublished DEF FetchFails, TypeOK
<1>6. CASE ReadFeed(j)
  <2>1. TypeOK'
    BY <1>6 DEF ReadFeed, TypeOK, Goto, Pc, PullPc, store, host, history
  <2>2. feed # Nothing
    BY SentinelFeed DEF TypeOK
  <2>3. Loaded' /\ HeldAsPublished'
    BY <1>6, <2>2 DEF ReadFeed, TypeOK, Goto, Loaded, HeldAsPublished, FeedAsPublished
  <2>4. FeedAsPublished' /\ OnlySignedBlocks'
    BY <1>6 DEF ReadFeed, FeedAsPublished, OnlySignedBlocks, store, host
  <2>5. QED
    BY <2>1, <2>3, <2>4
<1>7. CASE AcceptUpdate(j)
  <2>1. base[j] \in Feed \cup {NoFeed} /\ AsPublished(base[j]) /\ upd[j] \in Updates
    BY <1>7 DEF AcceptUpdate, Goto, TypeOK, Loaded, HeldAsPublished
  <2>2. feed' \in Feed /\ AsPublished(feed')
    BY <1>7, <2>1, AcceptedIsPublished DEF AcceptUpdate
  <2>3. TypeOK'
    BY <1>7, <2>2 DEF AcceptUpdate, TypeOK, Goto, Pc, RefreshPc, host, history
  <2>4. Loaded' /\ HeldAsPublished'
    BY <1>7 DEF AcceptUpdate, TypeOK, Goto, Loaded, HeldAsPublished
  <2>5. FeedAsPublished' /\ OnlySignedBlocks'
    BY <1>7, <2>2 DEF AcceptUpdate, FeedAsPublished, OnlySignedBlocks, host, AsPublished
  <2>6. QED
    BY <2>3, <2>4, <2>5
<1>8. CASE RefuseUpdate(j)
  BY <1>8, FinishKeepsPublished DEF RefuseUpdate, TypeOK, history
<1>9. QED
  BY <1>1, <1>2, <1>3, <1>4, <1>5, <1>6, <1>7, <1>8 DEF Pull

(* The actions of a refresh. *)
LEMMA RefreshKeepsPublished ==
    ASSUME PublishedInv, NEW j \in Jobs, Refresh(j)
    PROVE  PublishedInv'
<1> USE DEF PublishedInv
<1>1. CASE NothingToInstall(j)
  BY <1>1, FinishKeepsPublished DEF NothingToInstall, TypeOK, history
<1>2. CASE ReadFeedForRules(j)
  <2>1. TypeOK'
    BY <1>2 DEF ReadFeedForRules, TypeOK, Goto, Pc, RefreshPc, store, host, history
  <2>2. Loaded' /\ HeldAsPublished'
    BY <1>2 DEF ReadFeedForRules, TypeOK, Goto, Loaded, HeldAsPublished, FeedAsPublished
  <2>3. FeedAsPublished' /\ OnlySignedBlocks'
    BY <1>2 DEF ReadFeedForRules, FeedAsPublished, OnlySignedBlocks, store, host
  <2>4. QED
    BY <2>1, <2>2, <2>3
<1>3. CASE BuildRuleSet(j)
  <2> DEFINE built == BuildRules(base[j].entries, exceptions)
  <2>1. base[j] \in Feed /\ AsPublished(base[j])
    BY <1>3, SentinelFeed DEF BuildRuleSet, Goto, Loaded, HeldAsPublished
  <2>2. exceptions \in SUBSET Hosts
    BY JobsAssumption DEF TypeOK
  <2>3. /\ built \subseteq Rule
        /\ \A r \in built : \E v \in Versions \cup {Unusable} : r.listing \in Published[v]
    BY <2>1, <2>2, BuiltFromPublished
  <2>4. rules' = [rules EXCEPT ![j] = built]
    BY <1>3 DEF BuildRuleSet
  <2> HIDE DEF built
  <2>5. TypeOK'
    BY <1>3, <2>3, <2>4 DEF BuildRuleSet, TypeOK, Goto, Pc, RefreshPc, store, host, history
  <2>6. Loaded'
    BY <1>3 DEF BuildRuleSet, TypeOK, Goto, Loaded
  <2>7. HeldAsPublished'
    BY <1>3, <2>3, <2>4 DEF BuildRuleSet, TypeOK, HeldAsPublished
  <2>8. FeedAsPublished' /\ OnlySignedBlocks'
    BY <1>3 DEF BuildRuleSet, FeedAsPublished, OnlySignedBlocks, store, host
  <2>9. QED
    BY <2>5, <2>6, <2>7, <2>8
<1>4. CASE GetDynamicRules(j)
  <2>1. Ids(installed) \subseteq 1 .. RuleLimit
    BY DEF TypeOK, Ids, Rule
  <2>2. TypeOK'
    BY <1>4, <2>1 DEF GetDynamicRules, TypeOK, Goto, Pc, RefreshPc, store, host, history
  <2>3. Loaded' /\ HeldAsPublished'
    BY <1>4 DEF GetDynamicRules, TypeOK, Goto, Loaded, HeldAsPublished
  <2>4. FeedAsPublished' /\ OnlySignedBlocks'
    BY <1>4 DEF GetDynamicRules, FeedAsPublished, OnlySignedBlocks, store, host
  <2>5. QED
    BY <2>2, <2>3, <2>4
<1>5. CASE InstallRules(j)
  <2>1. installed' \subseteq installed \cup rules[j]
    BY <1>5 DEF InstallRules, UpdateDynamicRules
  <2>2. installed' \subseteq Rule
    BY <2>1 DEF TypeOK
  <2>3. OnlySignedBlocks'
    BY <2>1 DEF OnlySignedBlocks, HeldAsPublished
  <2>4. Finish(j) /\ UNCHANGED <<store, worker, alarm, history>>
    BY <1>5 DEF InstallRules
  <2>5. TypeOK'
    BY <2>2, <2>4, FinishType DEF TypeOK, store, history
  <2>6. Loaded' /\ HeldAsPublished'
    BY <2>4, FinishHeld
  <2>7. FeedAsPublished'
    BY <2>4 DEF FeedAsPublished, store
  <2>8. QED
    BY <2>3, <2>5, <2>6, <2>7
<1>6. QED
  BY <1>1, <1>2, <1>3, <1>4, <1>5 DEF Refresh

(* What the user decides. *)
LEMMA DecideKeepsPublished ==
    ASSUME PublishedInv, NEW j \in Jobs, Decide(j) \/ JournalAllowed(j)
    PROVE  PublishedInv'
<1> USE DEF PublishedInv, TypeOK, Pc, RefreshPc
<1>1. CASE \E h \in Sites : AllowBlocked(j, h)
  BY <1>1, GotoKeepsPublished DEF AllowBlocked, Serve, host
<1>2. CASE \E h \in Sites : AddTrusted(j, h)
  BY <1>2, GotoKeepsPublished DEF AddTrusted, Serve, host
<1>3. CASE \E h \in Sites : RevokeTrusted(j, h)
  BY <1>3, GotoKeepsPublished DEF RevokeTrusted, Serve, host
<1>4. CASE JournalAllowed(j)
  BY <1>4, GotoKeepsPublished DEF JournalAllowed, store, host
<1>5. QED
  BY <1>1, <1>2, <1>3, <1>4 DEF Decide

(* The worker stops and starts, time passes, the store is wiped. *)
LEMMA WorldKeepsPublished ==
    ASSUME PublishedInv,
           Stop \/ Start \/ StartByAlarm \/ AlarmFires \/ SixHoursPass \/ Wipe
    PROVE  PublishedInv'
<1> USE DEF PublishedInv
<1>1. CASE Stop
  <2>1. TypeOK'
    BY <1>1 DEF Stop, TypeOK, Pc, store, history
  <2>2. Loaded' /\ HeldAsPublished'
    BY <1>1 DEF Stop, Loaded, HeldAsPublished
  <2>3. FeedAsPublished' /\ OnlySignedBlocks'
    BY <1>1 DEF Stop, FeedAsPublished, OnlySignedBlocks, store
  <2>4. QED
    BY <2>1, <2>2, <2>3
<1>2. ASSUME NEW woken \in BOOLEAN, Launched(woken)
      PROVE  PublishedInv'
  <2>1. VersionOf(feed) \in Nat
    BY VersionOfType DEF TypeOK
  <2>2. pc' \in [Jobs -> Pc]
    BY <1>2 DEF Launched, TypeOK, Pc, PullPc, RefreshPc
  <2>3. TypeOK'
    BY <1>2, <2>1, <2>2 DEF Launched, TypeOK, store, held
  <2>4. \A k \in Jobs : pc'[k] \in {"rules", "due", "idle"} \/ pc'[k] = pc[k]
    BY <1>2 DEF Launched, TypeOK
  <2>5. Loaded' /\ HeldAsPublished'
    BY <1>2, <2>4 DEF Launched, Loaded, HeldAsPublished, held
  <2>6. FeedAsPublished' /\ OnlySignedBlocks'
    BY <1>2 DEF Launched, FeedAsPublished, OnlySignedBlocks, store
  <2>7. QED
    BY <2>3, <2>5, <2>6
<1>3. CASE Start
  BY <1>2, <1>3 DEF Start
<1>4. CASE StartByAlarm
  BY <1>2, <1>4 DEF StartByAlarm
<1>5. CASE AlarmFires
  BY <1>5, GotoKeepsPublished, LaunchedJobs DEF AlarmFires, TypeOK, Pc, PullPc, store
<1>6. CASE SixHoursPass
  <2>1. TypeOK'
    BY <1>6 DEF SixHoursPass, TypeOK, held
  <2>2. QED
    BY <1>6, <2>1 DEF SixHoursPass, Loaded, HeldAsPublished, FeedAsPublished,
                      OnlySignedBlocks, held
<1>7. CASE WipeFeeds
  <2>1. TypeOK'
    BY <1>7 DEF WipeFeeds, TypeOK, host, held
  <2>2. QED
    BY <1>7, <2>1 DEF WipeFeeds, Loaded, HeldAsPublished, FeedAsPublished,
                      OnlySignedBlocks, host, held, AsPublished
<1>8. CASE WipeExceptions
  <2>1. TypeOK'
    BY <1>8 DEF WipeExceptions, TypeOK, host, held, history
  <2>2. QED
    BY <1>8, <2>1 DEF WipeExceptions, Loaded, HeldAsPublished, FeedAsPublished,
                      OnlySignedBlocks, host, held
<1>9. CASE WipeSettings
  <2>1. TypeOK'
    BY <1>9 DEF WipeSettings, TypeOK, host, held
  <2>2. QED
    BY <1>9, <2>1 DEF WipeSettings, Loaded, HeldAsPublished, FeedAsPublished,
                      OnlySignedBlocks, host, held
<1>10. QED
  BY <1>1, <1>3, <1>4, <1>5, <1>6, <1>7, <1>8, <1>9 DEF Wipe

LEMMA PublishedStep == PublishedInv /\ [Next]_vars => PublishedInv'
<1> SUFFICES ASSUME PublishedInv, [Next]_vars PROVE PublishedInv'
  OBVIOUS
<1>1. ASSUME NEW j \in Jobs, Work(j) PROVE PublishedInv'
  BY <1>1, PullKeepsPublished, RefreshKeepsPublished, DecideKeepsPublished DEF Work
<1>2. ASSUME NEW j \in Jobs, Fail(j) PROVE PublishedInv'
  BY <1>2, FinishKeepsPublished DEF Fail, history, PublishedInv, TypeOK
<1>3. ASSUME NEW j \in UserJobs, Decide(j) PROVE PublishedInv'
  BY <1>3, DecideKeepsPublished DEF Jobs
<1>4. CASE Stop \/ Start \/ StartByAlarm \/ AlarmFires \/ SixHoursPass \/ Wipe
  BY <1>4, WorldKeepsPublished
<1>5. CASE UNCHANGED vars
  BY <1>5 DEF vars, PublishedInv, TypeOK, Loaded, HeldAsPublished, FeedAsPublished,
              OnlySignedBlocks
<1>6. QED
  BY <1>1, <1>2, <1>3, <1>4, <1>5 DEF Next

LEMMA PublishedAlways == Spec => []PublishedInv
BY PublishedInit, PublishedStep, PTL DEF Spec

(* Every reachable state is well typed. *)
THEOREM TypeCorrect == Spec => []TypeOK
<1>1. PublishedInv => TypeOK
  BY DEF PublishedInv
<1>2. QED
  BY <1>1, PublishedAlways, PTL

(* The stored feed is always exactly a version the publisher signed,       *)
(* however many pulls race to write it (applyUpdate, updateFeed).          *)
THEOREM FeedAlwaysPublished == Spec => []FeedAsPublished
<1>1. PublishedInv => FeedAsPublished
  BY DEF PublishedInv
<1>2. QED
  BY <1>1, PublishedAlways, PTL

(* Nothing blocks an address the publisher never listed, however the       *)
(* refreshes interleave (refreshBlockRules, replaceRules).                 *)
THEOREM OnlySignedAlwaysBlocks == Spec => []OnlySignedBlocks
<1>1. PublishedInv => OnlySignedBlocks
  BY DEF PublishedInv
<1>2. QED
  BY <1>1, PublishedAlways, PTL

-----------------------------------------------------------------------------
(* Replays and races *)

(* NeverBelowSettled is not inductive: a pull writes from the row it read, *)
(* so that row must not be older than the worker's start either, and no    *)
(* pull may outlive the worker it ran in.                                  *)
SettledInv ==
    /\ ~worker => Idle
    /\ NeverBelowSettled
    /\ \A j \in Jobs : pc[j] = "apply" => settled <= VersionOf(base[j])

LEMMA SettledInit == Init => SettledInv
<1> SUFFICES ASSUME Init PROVE SettledInv
  OBVIOUS
<1>1. VersionOf(feed) = 0
  BY DEF Init, VersionOf, IsUsableVersion
<1>2. QED
  BY <1>1 DEF Init, SettledInv, Idle, NeverBelowSettled

(* Steps of a job that leave the feed, the start and every read row alone. *)
LEMMA FinishKeepsSettled ==
    ASSUME TypeOK, SettledInv, NEW j \in Jobs, pc[j] # "idle", Finish(j),
           UNCHANGED <<feed, worker, settled>>
    PROVE  SettledInv'
<1>1. \A k \in Jobs : pc'[k] = "apply" => pc[k] = "apply" /\ base'[k] = base[k]
  BY DEF Finish, TypeOK
<1>2. worker
  BY DEF SettledInv, Idle
<1>3. QED
  BY <1>1, <1>2 DEF SettledInv, NeverBelowSettled

LEMMA GotoKeepsSettled ==
    ASSUME TypeOK, SettledInv, NEW j \in Jobs, NEW here, NEW there, Goto(j, here, there),
           here # "idle" \/ worker, there # "apply", UNCHANGED <<feed, worker, settled>>,
           \A k \in Jobs \ {j} : base'[k] = base[k]
    PROVE  SettledInv'
<1>1. \A k \in Jobs : pc'[k] = "apply" => pc[k] = "apply" /\ base'[k] = base[k]
  BY DEF Goto, TypeOK
<1>2. worker
  BY DEF SettledInv, Idle, Goto
<1>3. QED
  BY <1>1, <1>2 DEF SettledInv, NeverBelowSettled

LEMMA WorkKeepsSettled ==
    ASSUME PublishedInv, SettledInv, NEW j \in Jobs, Work(j)
    PROVE  SettledInv'
<1>1. TypeOK
  BY DEF PublishedInv
<1>2. CASE AcceptUpdate(j)
  <2>1. base[j] \in Feed \cup {NoFeed} /\ AsPublished(base[j]) /\ upd[j] \in Updates
    BY <1>2 DEF AcceptUpdate, Goto, PublishedInv, TypeOK, Loaded, HeldAsPublished
  <2>2. VersionOf(feed') > VersionOf(base[j]) /\ feed' \in Feed
    BY <1>2, <2>1, AcceptedIsPublished DEF AcceptUpdate
  <2>3. VersionOf(feed') \in Nat /\ VersionOf(base[j]) \in Nat
    BY <2>1, <2>2, VersionOfType
  <2>4. settled <= VersionOf(base[j])
    BY <1>2 DEF AcceptUpdate, Goto, SettledInv
  <2>5. NeverBelowSettled'
    BY <1>1, <1>2, <2>2, <2>3, <2>4 DEF AcceptUpdate, NeverBelowSettled, TypeOK, history
  <2>6. worker /\ worker' = worker
    BY <1>2 DEF AcceptUpdate, Goto, SettledInv, Idle, host
  <2>7. \A k \in Jobs : pc'[k] = "apply" => pc[k] = "apply" /\ base'[k] = base[k]
    BY <1>1, <1>2 DEF AcceptUpdate, Goto, TypeOK
  <2>8. settled' = settled
    BY <1>2 DEF AcceptUpdate, history
  <2>9. QED
    BY <2>5, <2>6, <2>7, <2>8 DEF SettledInv
<1>3. CASE ReadFeed(j)
  <2>1. \A k \in Jobs : pc'[k] = "apply" =>
            \/ pc[k] = "apply" /\ base'[k] = base[k]
            \/ base'[k] = feed
    BY <1>1, <1>3 DEF ReadFeed, Goto, TypeOK
  <2>2. UNCHANGED <<feed, worker, settled>> /\ worker
    BY <1>3 DEF ReadFeed, Goto, SettledInv, Idle, store, host, history
  <2>3. QED
    BY <2>1, <2>2 DEF SettledInv, NeverBelowSettled
<1>4. CASE Fetch(j)
  BY <1>1, <1>4, GotoKeepsSettled DEF Fetch, store, host
<1>5. CASE FetchFails(j) \/ PullNotOwed(j) \/ RefuseUpdate(j) \/ NothingToInstall(j)
  BY <1>1, <1>5, FinishKeepsSettled
     DEF FetchFails, PullNotOwed, RefuseUpdate, NothingToInstall, store, host, history
<1>6. CASE PullOwed(j)
  BY <1>1, <1>6, GotoKeepsSettled DEF PullOwed, store, host, held, history
<1>7. CASE RecordAttempt(j)
  BY <1>1, <1>7, GotoKeepsSettled DEF RecordAttempt, host, held, history
<1>8. CASE ReadFeedForRules(j)
  BY <1>1, <1>8, GotoKeepsSettled DEF ReadFeedForRules, TypeOK, store, host, history
<1>9. CASE BuildRuleSet(j)
  BY <1>1, <1>9, GotoKeepsSettled DEF BuildRuleSet, TypeOK, store, host, history
<1>10. CASE GetDynamicRules(j)
  BY <1>1, <1>10, GotoKeepsSettled DEF GetDynamicRules, store, host, history
<1>11. CASE InstallRules(j)
  BY <1>1, <1>11, FinishKeepsSettled DEF InstallRules, store, history
<1>12. CASE JournalAllowed(j)
  BY <1>1, <1>12, GotoKeepsSettled DEF JournalAllowed, store, host, held, history
<1>13. QED
  BY <1>2, <1>3, <1>4, <1>5, <1>6, <1>7, <1>8, <1>9, <1>10, <1>11, <1>12
     DEF Work, Pull, Refresh

LEMMA SettledStep == PublishedInv /\ SettledInv /\ [Next]_vars => SettledInv'
<1> SUFFICES ASSUME PublishedInv, SettledInv, [Next]_vars PROVE SettledInv'
  OBVIOUS
<1>1. TypeOK
  BY DEF PublishedInv
<1>2. ASSUME NEW j \in Jobs, Work(j) PROVE SettledInv'
  BY <1>2, WorkKeepsSettled
<1>3. ASSUME NEW j \in Jobs, Fail(j) PROVE SettledInv'
  BY <1>1, <1>3, FinishKeepsSettled DEF Fail, store, host, history
<1>4. ASSUME NEW j \in UserJobs, Decide(j) PROVE SettledInv'
  <2>1. j \in Jobs /\ worker /\ UNCHANGED <<feed, worker, settled, base>>
    BY <1>4 DEF Decide, AllowBlocked, AddTrusted, RevokeTrusted, Serve, Jobs, host, held, history
  <2>2. CASE Goto(j, "idle", "journal")
    BY <1>1, <2>1, <2>2, GotoKeepsSettled
  <2>3. CASE Goto(j, "idle", "rules")
    BY <1>1, <2>1, <2>3, GotoKeepsSettled
  <2>4. QED
    BY <1>4, <2>2, <2>3 DEF Decide, AllowBlocked, AddTrusted, RevokeTrusted, Serve
<1>5. CASE Stop
  BY <1>5 DEF Stop, SettledInv, Idle, NeverBelowSettled, store, history
<1>6. ASSUME NEW woken \in BOOLEAN, Launched(woken) PROVE SettledInv'
  <2>1. \A k \in Jobs : pc'[k] # "apply"
    BY <1>1, <1>6 DEF Launched, SettledInv, Idle, TypeOK
  <2>2. VersionOf(feed) \in Nat
    BY <1>1, VersionOfType DEF TypeOK
  <2>3. worker' /\ settled' = VersionOf(feed) /\ feed' = feed
    BY <1>6 DEF Launched, store
  <2>4. NeverBelowSettled'
    BY <2>2, <2>3 DEF NeverBelowSettled
  <2>5. QED
    BY <2>1, <2>3, <2>4 DEF SettledInv
<1>7. CASE Start \/ StartByAlarm
  BY <1>6, <1>7 DEF Start, StartByAlarm
<1>8. CASE AlarmFires
  BY <1>1, <1>8, LaunchedJobs, GotoKeepsSettled
     DEF AlarmFires, store, held, history
<1>9. CASE SixHoursPass \/ WipeExceptions \/ WipeSettings
  BY <1>9 DEF SixHoursPass, WipeExceptions, WipeSettings, SettledInv, Idle,
              NeverBelowSettled, host, held, history
<1>10. CASE WipeFeeds
  <2>1. VersionOf(feed') = 0 /\ settled' = 0
    BY <1>10 DEF WipeFeeds, VersionOf
  <2>2. \A k \in Jobs : pc[k] = "apply" => VersionOf(base[k]) \in Nat
    BY VersionOfType DEF PublishedInv, TypeOK, Loaded
  <2>3. QED
    BY <1>10, <2>1, <2>2 DEF WipeFeeds, SettledInv, Idle, NeverBelowSettled, host, held
<1>11. CASE UNCHANGED vars
  BY <1>11 DEF vars, SettledInv, Idle, NeverBelowSettled
<1>12. QED
  BY <1>2, <1>3, <1>4, <1>5, <1>7, <1>8, <1>9, <1>10, <1>11 DEF Next, Wipe

(* No race of pulls takes the feed below what the worker started with.     *)
THEOREM NeverBelowSettledAlways == Spec => []NeverBelowSettled
<1>1. SettledInv => NeverBelowSettled
  BY DEF SettledInv
<1>2. QED
  BY <1>1, PublishedInit, PublishedStep, SettledInit, SettledStep, PTL DEF Spec

(* Only a pull whose row was overwritten under it can lower the version.   *)
THEOREM OnlyStaleReadsLower == Spec => LoweredOnlyByStaleRead
<1> DEFINE Lowered == feed' # NoFeed /\ VersionOf(feed') < VersionOf(feed)
           Stale == \E j \in Jobs : pc[j] = "apply" /\ base[j] # feed
<1>1. PublishedInv /\ [Next]_vars => [Lowered => Stale]_feed
  <2> SUFFICES ASSUME PublishedInv, Next, feed' # feed, feed' # NoFeed,
                      VersionOf(feed') < VersionOf(feed)
               PROVE  Stale
    BY DEF vars
  <2>1. PICK j \in Jobs : AcceptUpdate(j)
    BY DEF Next, Work, Pull, Refresh, Decide, Wipe, PullOwed, PullNotOwed, RecordAttempt,
           Fetch, FetchFails, ReadFeed, RefuseUpdate, NothingToInstall, ReadFeedForRules,
           BuildRuleSet, GetDynamicRules, InstallRules, AllowBlocked, JournalAllowed,
           AddTrusted, RevokeTrusted, Fail, Stop, Start, StartByAlarm, Launched, AlarmFires,
           SixHoursPass, WipeFeeds, WipeExceptions, WipeSettings, store
  <2>2. base[j] \in Feed \cup {NoFeed} /\ AsPublished(base[j]) /\ upd[j] \in Updates
    BY <2>1 DEF AcceptUpdate, Goto, PublishedInv, TypeOK, Loaded, HeldAsPublished
  <2>3. VersionOf(feed') > VersionOf(base[j]) /\ feed' \in Feed
    BY <2>1, <2>2, AcceptedIsPublished DEF AcceptUpdate
  <2>4. VersionOf(feed') \in Nat /\ VersionOf(base[j]) \in Nat
    BY <2>2, <2>3, VersionOfType
  <2>5. base[j] # feed
    BY <2>3, <2>4
  <2>6. QED
    BY <2>1, <2>5 DEF AcceptUpdate, Goto
<1>2. QED
  BY <1>1, PublishedAlways, PTL DEF Spec, LoweredOnlyByStaleRead

(* Stored or enforced: it was signed (feeds.ts, index.ts).                 *)
THEOREM SignedAlways == Spec => []SignedOnly
<1>1. FeedAsPublished /\ OnlySignedBlocks => SignedOnly
  BY DEF SignedOnly
<1>2. QED
  BY <1>1, FeedAlwaysPublished, OnlySignedAlwaysBlocks, PTL

-----------------------------------------------------------------------------
(* How often the server is asked *)

AtPull == {"due", "attempt", "fetch"}

(* How many of the two jobs that pull stand at one of these awaits. *)
Standing(at) ==
    (IF pc["startPull"] \in at THEN 1 ELSE 0) + (IF pc["alarmPull"] \in at THEN 1 ELSE 0)

(* The requests made and those still to come.  Until an attempt is on      *)
(* record every pull there is may ask, and one may yet be launched: before *)
(* the alarm the window is unused, and after a wipe at most two pulls that *)
(* were under way ask.  Once it is, only the pulls past the check may.     *)
WindowInv ==
    /\ \A j \in Jobs : pc[j] \in AtPull => j \in {"startPull", "alarmPull"}
    /\ ~worker => Idle
    /\ alarm => ~attempted /\ fetches = 0 /\ Standing(AtPull) = 0
    /\ attempted => fetches + Standing({"attempt", "fetch"}) <= 3
    /\ ~attempted => /\ fetches + Standing({"fetch"}) <= 2
                     /\ fetches + Standing(AtPull) <= 3

LEMMA WindowInit == Init => WindowInv
BY LaunchedJobs DEF Init, WindowInv, Idle, Standing, AtPull

(* A step that takes a job on without letting it nearer to the server.     *)
LEMMA MoveKeepsWindow ==
    ASSUME TypeOK, WindowInv, NEW j \in Jobs, NEW there \in Pc,
           pc' = [pc EXCEPT ![j] = there],
           worker \/ pc[j] # "idle",
           there \notin AtPull,
           UNCHANGED <<worker, alarm, attempted, fetches>>
    PROVE  WindowInv'
BY LaunchedJobs DEF TypeOK, WindowInv, Idle, Standing, AtPull

(* The answer, or its failure, turns a request to come into one made.      *)
LEMMA AskedKeepsWindow ==
    ASSUME TypeOK, WindowInv, NEW j \in Jobs, NEW there \in {"idle", "read"},
           pc[j] = "fetch", pc' = [pc EXCEPT ![j] = there], fetches' = fetches + 1,
           UNCHANGED <<worker, alarm, attempted>>
    PROVE  WindowInv'
<1>1. j \in {"startPull", "alarmPull"}
  BY DEF WindowInv, AtPull
<1>2. CASE j = "startPull"
  BY <1>2, LaunchedJobs DEF TypeOK, WindowInv, Idle, Standing, AtPull
<1>3. CASE j = "alarmPull"
  BY <1>3, LaunchedJobs DEF TypeOK, WindowInv, Idle, Standing, AtPull
<1>4. QED
  BY <1>1, <1>2, <1>3

LEMMA WorkKeepsWindow ==
    ASSUME TypeOK, WindowInv, NEW j \in Jobs, Work(j) \/ Fail(j)
    PROVE  WindowInv'
<1> USE DEF Pc, PullPc, RefreshPc, AtPull
<1>1. CASE PullOwed(j)
  <2>1. j \in {"startPull", "alarmPull"}
    BY <1>1 DEF PullOwed, Goto, WindowInv
  <2>2. CASE j = "startPull"
    BY <1>1, <2>2, LaunchedJobs
       DEF PullOwed, Goto, TypeOK, WindowInv, Idle, Standing, store, host, history
  <2>3. CASE j = "alarmPull"
    BY <1>1, <2>3, LaunchedJobs
       DEF PullOwed, Goto, TypeOK, WindowInv, Idle, Standing, store, host, history
  <2>4. QED
    BY <2>1, <2>2, <2>3
<1>2. CASE RecordAttempt(j)
  <2>1. j \in {"startPull", "alarmPull"}
    BY <1>2 DEF RecordAttempt, Goto, WindowInv
  <2>2. CASE j = "startPull"
    BY <1>2, <2>2, LaunchedJobs
       DEF RecordAttempt, Goto, TypeOK, WindowInv, Idle, Standing, host, history
  <2>3. CASE j = "alarmPull"
    BY <1>2, <2>3, LaunchedJobs
       DEF RecordAttempt, Goto, TypeOK, WindowInv, Idle, Standing, host, history
  <2>4. QED
    BY <2>1, <2>2, <2>3
<1>3. CASE Fetch(j)
  BY <1>3, AskedKeepsWindow DEF Fetch, Goto, store, host
<1>4. CASE FetchFails(j)
  BY <1>4, AskedKeepsWindow DEF FetchFails, Finish, store, host
<1>5. CASE PullNotOwed(j) \/ RefuseUpdate(j) \/ NothingToInstall(j) \/ InstallRules(j) \/ Fail(j)
  BY <1>5, MoveKeepsWindow
     DEF PullNotOwed, RefuseUpdate, NothingToInstall, InstallRules, Fail, Finish,
         store, host, history
<1>6. CASE \/ ReadFeed(j) \/ AcceptUpdate(j) \/ ReadFeedForRules(j) \/ BuildRuleSet(j)
           \/ GetDynamicRules(j) \/ JournalAllowed(j)
  BY <1>6, MoveKeepsWindow
     DEF ReadFeed, AcceptUpdate, ReadFeedForRules, BuildRuleSet, GetDynamicRules,
         JournalAllowed, Goto, store, host, history
<1>7. QED
  BY <1>1, <1>2, <1>3, <1>4, <1>5, <1>6 DEF Work, Pull, Refresh

LEMMA LaunchKeepsWindow ==
    ASSUME TypeOK, WindowInv, NEW woken \in BOOLEAN, Launched(woken), woken => alarm
    PROVE  WindowInv'
<1>1. \A j \in Jobs : pc[j] = "idle"
  BY DEF Launched, WindowInv, Idle
<1>2. /\ pc'["startPull"] = "due"
      /\ pc'["alarmPull"] = IF woken THEN "due" ELSE "idle"
      /\ \A j \in Jobs \ {"startPull", "alarmPull"} : pc'[j] \notin AtPull
  BY <1>1, LaunchedJobs DEF Launched, TypeOK, AtPull
<1>3. QED
  BY <1>1, <1>2, LaunchedJobs
     DEF Launched, TypeOK, WindowInv, Idle, Standing, AtPull, store, held

LEMMA WindowStep == TypeOK /\ WindowInv /\ [Next]_vars => WindowInv'
<1> SUFFICES ASSUME TypeOK, WindowInv, [Next]_vars PROVE WindowInv'
  OBVIOUS
<1>1. CASE \E j \in Jobs : Work(j) \/ Fail(j)
  BY <1>1, WorkKeepsWindow
<1>2. CASE \E j \in UserJobs : Decide(j)
  <2>1. PICK j \in UserJobs : Decide(j)
    BY <1>2
  <2>2. j \in Jobs
    BY DEF Jobs
  <2>3. QED
    BY <2>1, <2>2, MoveKeepsWindow
       DEF Decide, AllowBlocked, AddTrusted, RevokeTrusted, Serve, Goto, Pc, PullPc,
           RefreshPc, AtPull, host, history
<1>3. CASE Stop
  BY <1>3, LaunchedJobs
     DEF Stop, TypeOK, WindowInv, Idle, Standing, AtPull, store, history
<1>4. CASE Start \/ StartByAlarm
  BY <1>4, LaunchKeepsWindow DEF Start, StartByAlarm
<1>5. CASE AlarmFires
  BY <1>5, LaunchedJobs
     DEF AlarmFires, Goto, TypeOK, WindowInv, Idle, Standing, AtPull, store, held, history
<1>6. CASE SixHoursPass
  BY <1>6, LaunchedJobs
     DEF SixHoursPass, TypeOK, WindowInv, Idle, Standing, AtPull, held
<1>7. CASE WipeSettings
  BY <1>7, LaunchedJobs
     DEF WipeSettings, TypeOK, WindowInv, Idle, Standing, AtPull, host, held
<1>8. CASE WipeFeeds \/ WipeExceptions \/ UNCHANGED vars
  BY <1>8, LaunchedJobs
     DEF WipeFeeds, WipeExceptions, vars, WindowInv, Idle, Standing, AtPull, host, held, history
<1>9. QED
  BY <1>1, <1>2, <1>3, <1>4, <1>5, <1>6, <1>7, <1>8 DEF Next, Wipe

(* However the launches, the alarm, the wipes and the crashes fall, the    *)
(* server is asked at most three times in six hours (retrieve.ts).         *)
THEOREM RequestsAreFew == Spec => []RequestsPerWindow
<1>1. TypeOK /\ WindowInv => RequestsPerWindow
  BY DEF TypeOK, WindowInv, Standing, RequestsPerWindow
<1>2. QED
  BY <1>1, TypeCorrect, WindowInit, WindowStep, PTL DEF Spec

-----------------------------------------------------------------------------
(* Disarming *)

(* The first of the wanted listings has a rule, so a feed that is not      *)
(* wholly excused never becomes an empty rule set.                         *)
LEMMA WantedIsArmed ==
    ASSUME NEW entries \in SUBSET Listings, NEW excused,
           BuildRules(entries, excused) = {}
    PROVE  Wanted(entries, excused) = {}
<1> DEFINE wanted == Wanted(entries, excused)
           ranks == {Rank[l] : l \in wanted}
           before(l) == {m \in wanted : Rank[m] <= Rank[l]}
<1>1. wanted \subseteq Listings
  BY DEF Wanted
<1> SUFFICES ASSUME wanted # {} PROVE FALSE
  OBVIOUS
<1>2. ranks \subseteq Nat /\ ranks # {}
  BY <1>1, JobsAssumption
<1>3. PICK n \in ranks : \A k \in ranks : ~(<<k, n>> \in OpToRel(<, Nat))
  BY <1>2, WFMin, NatLessThanWellFounded, Zenon
<1>4. PICK l \in wanted : n = Rank[l]
  OBVIOUS
<1>5. ASSUME NEW m \in wanted PROVE ~(Rank[m] < Rank[l])
  BY <1>1, <1>2, <1>3, <1>4 DEF OpToRel
<1>6. before(l) = {l}
  <2>1. ASSUME NEW m \in wanted, Rank[m] <= Rank[l] PROVE m = l
    <3>1. Rank[m] \in Nat /\ Rank[l] \in Nat /\ m \in Listings /\ l \in Listings
      BY <1>1, JobsAssumption
    <3>2. Rank[m] = Rank[l]
      BY <1>5, <2>1, <3>1
    <3>3. QED
      BY <3>1, <3>2, JobsAssumption
  <2>2. Rank[l] \in Nat
    BY <1>1, JobsAssumption
  <2>3. QED
    BY <2>1, <2>2
<1>7. Position(l, wanted) = 1
  BY <1>6, FS_Singleton DEF Position
<1>8. Position(l, wanted) <= RuleLimit
  BY <1>7, JobsAssumption, RulesAssumption
<1>9. QED
  BY <1>8 DEF BuildRules

Excusable == \E v \in Versions \cup {Unusable} : Wanted(Published[v], Sites) = {}

(* A refresh is about to install nothing only where the user could excuse  *)
(* the whole of a published version.                                       *)
EmptyOnlyExcused ==
    \A j \in Jobs : pc[j] \in {"ids", "install"} /\ rules[j] = {} => Excusable

LEMMA EmptyInit == Init => EmptyOnlyExcused
BY DEF Init, EmptyOnlyExcused

(* A step that brings no job to its installation.                          *)
LEMMA OthersKeepEmpty ==
    ASSUME EmptyOnlyExcused,
           \A k \in Jobs : pc'[k] \in {"ids", "install"} =>
                               pc[k] \in {"ids", "install"} /\ rules'[k] = rules[k]
    PROVE  EmptyOnlyExcused'
BY DEF EmptyOnlyExcused, Excusable

LEMMA EmptyStep == PublishedInv /\ EmptyOnlyExcused /\ [Next]_vars => EmptyOnlyExcused'
<1> SUFFICES ASSUME PublishedInv, EmptyOnlyExcused, [Next]_vars PROVE EmptyOnlyExcused'
  OBVIOUS
<1>1. TypeOK
  BY DEF PublishedInv
<1>2. CASE \E j \in Jobs : BuildRuleSet(j)
  <2>1. PICK j \in Jobs : BuildRuleSet(j)
    BY <1>2
  <2>2. base[j] \in Feed /\ AsPublished(base[j])
    BY <2>1, SentinelFeed DEF BuildRuleSet, Goto, PublishedInv, Loaded, HeldAsPublished
  <2>3. /\ base[j].version \in Versions \cup {Unusable}
        /\ base[j].entries \in SUBSET Listings
        /\ base[j].entries = Published[base[j].version]
    BY <2>2, SentinelFeed DEF Feed, AsPublished
  <2>4. BuildRules(base[j].entries, exceptions) = {} => Excusable
    <3>1. SUFFICES ASSUME BuildRules(base[j].entries, exceptions) = {} PROVE Excusable
      OBVIOUS
    <3>2. Wanted(base[j].entries, exceptions) = {}
      BY <2>3, <3>1, WantedIsArmed
    <3>3. Wanted(Published[base[j].version], Sites) = {}
      BY <1>1, <2>3, <3>2 DEF Wanted, TypeOK
    <3>4. QED
      BY <2>3, <3>3 DEF Excusable
  <2>5. /\ rules'[j] = BuildRules(base[j].entries, exceptions)
        /\ \A k \in Jobs \ {j} : pc'[k] = pc[k] /\ rules'[k] = rules[k]
    BY <1>1, <2>1 DEF BuildRuleSet, Goto, TypeOK
  <2>6. QED
    BY <2>4, <2>5 DEF EmptyOnlyExcused, Excusable
<1>3. CASE \E j \in Jobs : Pull(j) \/ JournalAllowed(j)
  <2>1. PICK j \in Jobs : Pull(j) \/ JournalAllowed(j)
    BY <1>3
  <2>2. QED
    BY <1>1, <2>1, OthersKeepEmpty
       DEF Pull, PullOwed, PullNotOwed, RecordAttempt, Fetch, FetchFails, ReadFeed, AcceptUpdate,
           RefuseUpdate, JournalAllowed, Goto, Finish, TypeOK, held
<1>4. CASE \E j \in Jobs : \/ NothingToInstall(j) \/ ReadFeedForRules(j)
                           \/ GetDynamicRules(j) \/ InstallRules(j) \/ Fail(j)
  <2>1. PICK j \in Jobs : \/ NothingToInstall(j) \/ ReadFeedForRules(j)
                          \/ GetDynamicRules(j) \/ InstallRules(j) \/ Fail(j)
    BY <1>4
  <2>2. QED
    BY <1>1, <2>1, OthersKeepEmpty
       DEF NothingToInstall, ReadFeedForRules, GetDynamicRules, InstallRules, Fail, Goto, Finish, TypeOK
<1>5. CASE \E j \in UserJobs : Decide(j)
  BY <1>1, <1>5, OthersKeepEmpty
     DEF Decide, AllowBlocked, AddTrusted, RevokeTrusted, Serve, Goto, TypeOK, held
<1>6. CASE Stop \/ Start \/ StartByAlarm \/ AlarmFires
  BY <1>1, <1>6, OthersKeepEmpty
     DEF Stop, Start, StartByAlarm, Launched, AlarmFires, Goto, TypeOK, held
<1>7. CASE SixHoursPass \/ Wipe \/ UNCHANGED vars
  BY <1>7, OthersKeepEmpty
     DEF SixHoursPass, Wipe, WipeFeeds, WipeExceptions, WipeSettings, vars, held
<1>8. QED
  BY <1>2, <1>3, <1>4, <1>5, <1>6, <1>7 DEF Next, Work, Refresh

(* No failure, refusal, wipe or crash takes the last rule away: a feed     *)
(* that could be excused whole does, and nothing else (index.ts, rules.ts).*)
THEOREM NeverDisarmedAlways == Spec => NeverDisarmed
<1> DEFINE Disarmed == installed # {} /\ installed' = {}
<1>1. EmptyOnlyExcused /\ [Next]_vars => [Disarmed => Excusable]_installed
  <2> SUFFICES ASSUME EmptyOnlyExcused, Next, Disarmed PROVE Excusable
    BY DEF vars
  <2>1. PICK j \in Jobs : InstallRules(j)
    BY DEF Next, Work, Pull, Refresh, Decide, Wipe, PullOwed, PullNotOwed, RecordAttempt,
           Fetch, FetchFails, ReadFeed, AcceptUpdate, RefuseUpdate, NothingToInstall,
           ReadFeedForRules, BuildRuleSet, GetDynamicRules, AllowBlocked, JournalAllowed,
           AddTrusted, RevokeTrusted, Fail, Stop, Start, StartByAlarm, Launched, AlarmFires,
           SixHoursPass, WipeFeeds, WipeExceptions, WipeSettings, host
  <2>2. rules[j] = {}
    BY <2>1 DEF InstallRules, UpdateDynamicRules
  <2>3. QED
    BY <2>1, <2>2 DEF InstallRules, EmptyOnlyExcused
<1>2. QED
  BY <1>1, EmptyInit, EmptyStep, PublishedAlways, PTL DEF Spec, NeverDisarmed, Excusable
=============================================================================
