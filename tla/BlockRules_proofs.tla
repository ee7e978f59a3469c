------------------------------ MODULE BlockRules_proofs -------------------
(***************************************************************************)
(* The two modules built on BlockRules: what the rules mean, and what the  *)
(* screen that stands in for a stopped page promises.                      *)
(***************************************************************************)
EXTENDS RuleSemantics, BlockScreen, FiniteSetTheorems, TLAPS

-----------------------------------------------------------------------------
(***************************************************************************)
(* RuleSemantics, for every feed, every set of trusted hosts, every        *)
(* ceiling and every relation between hosts and between paths.             *)
(***************************************************************************)
(* Numbering *)

(* The listings placed at or before l. *)
UpTo(l, wanted) == {m \in wanted : Rank[m] <= Rank[l]}

LEMMA UpToFinite ==
    ASSUME NEW wanted \in SUBSET Listings, NEW l \in Listings
    PROVE  IsFiniteSet(UpTo(l, wanted)) /\ Position(l, wanted) \in Nat
<1>1. IsFiniteSet(UpTo(l, wanted))
  BY SemanticsAssumption, FS_Subset DEF UpTo
<1>2. QED
  BY <1>1, FS_CardinalityType DEF UpTo, Position

(* A later listing gets a higher number. *)
LEMMA PositionGrows ==
    ASSUME NEW wanted \in SUBSET Listings, NEW l \in Listings, NEW m \in wanted,
           Rank[l] < Rank[m]
    PROVE  Position(l, wanted) < Position(m, wanted)
<1>1. Rank[l] \in Nat /\ \A n \in Listings : Rank[n] \in Nat
  BY SemanticsAssumption
<1>2. UpTo(l, wanted) \subseteq UpTo(m, wanted)
  BY <1>1 DEF UpTo
<1>3. m \in UpTo(m, wanted) /\ m \notin UpTo(l, wanted)
  BY <1>1 DEF UpTo
<1>4. IsFiniteSet(UpTo(m, wanted)) /\ IsFiniteSet(UpTo(l, wanted))
  BY UpToFinite
<1>5. /\ Cardinality(UpTo(l, wanted)) <= Cardinality(UpTo(m, wanted))
      /\ Cardinality(UpTo(l, wanted)) # Cardinality(UpTo(m, wanted))
  BY <1>2, <1>3, <1>4, FS_Subset
<1>6. Cardinality(UpTo(l, wanted)) \in Nat /\ Cardinality(UpTo(m, wanted)) \in Nat
  BY <1>4, FS_CardinalityType
<1>7. QED
  BY <1>5, <1>6 DEF UpTo, Position

(* Dropping listings never raises a number. *)
LEMMA PositionFalls ==
    ASSUME NEW wanted \in SUBSET Listings, NEW fewer \in SUBSET wanted, NEW l \in Listings
    PROVE  Position(l, fewer) <= Position(l, wanted)
<1>1. UpTo(l, fewer) \subseteq UpTo(l, wanted)
  BY DEF UpTo
<1>2. Cardinality(UpTo(l, fewer)) <= Cardinality(UpTo(l, wanted))
  BY <1>1, UpToFinite, FS_Subset
<1>3. QED
  BY <1>2 DEF UpTo, Position

(* No two rules of a set share an id, so updateDynamicRules never refuses  *)
(* one for that (buildRules: id: index + 1).                               *)
THEOREM IdsAreDistinct ==
    ASSUME NEW listed \in SUBSET Listings, NEW spared \in SUBSET Hosts,
           NEW r \in BuildRules(listed, spared), NEW s \in BuildRules(listed, spared),
           r.id = s.id
    PROVE  r = s
<1> DEFINE wanted == Wanted(listed, spared)
<1>1. wanted \subseteq Listings
  BY DEF Wanted
<1>2. /\ r.listing \in wanted /\ r.id = Position(r.listing, wanted)
      /\ s.listing \in wanted /\ s.id = Position(s.listing, wanted)
      /\ r = [id |-> r.id, listing |-> r.listing, excused |-> TrustedUnder(r.listing, spared)]
      /\ s = [id |-> s.id, listing |-> s.listing, excused |-> TrustedUnder(s.listing, spared)]
  BY DEF BuildRules
<1>3. Rank[r.listing] \in Nat /\ Rank[s.listing] \in Nat
  BY <1>1, <1>2, SemanticsAssumption
<1>4. ~(Rank[r.listing] < Rank[s.listing]) /\ ~(Rank[s.listing] < Rank[r.listing])
  BY <1>1, <1>2, PositionGrows, UpToFinite
<1>5. r.listing = s.listing
  BY <1>1, <1>2, <1>3, <1>4, SemanticsAssumption
<1>6. QED
  BY <1>2, <1>5

-----------------------------------------------------------------------------
(* What a rule set stops *)

LEMMA RuleShape ==
    ASSUME TypeOK, NEW r \in Rules
    PROVE  /\ r.listing \in entries
           /\ r.listing.host \notin excused
           /\ r.excused = TrustedUnder(r.listing, excused)
<1>1. PICK l \in Wanted(entries, excused) :
        r = [id |-> Position(l, Wanted(entries, excused)), listing |-> l,
             excused |-> TrustedUnder(l, excused)]
  BY DEF Rules, BuildRules
<1>2. QED
  BY <1>1 DEF Wanted

(* A listing nobody trusts has a rule unless the ceiling left it out. *)
LEMMA WantedHasRule ==
    ASSUME TypeOK, NEW l \in Wanted(entries, excused),
           Position(l, Wanted(entries, excused)) <= RuleLimit
    PROVE  \E r \in Rules : r.listing = l /\ r.excused = TrustedUnder(l, excused)
<1> DEFINE r == [id |-> Position(l, Wanted(entries, excused)), listing |-> l,
                 excused |-> TrustedUnder(l, excused)]
<1>1. r \in Rules
  BY DEF Rules, BuildRules
<1>2. QED
  BY <1>1

LEMMA RulesInvariants ==
    TypeOK => NumberedApart /\ ListedIsStopped /\ StoppedIsNamed /\ BareTrustHonoured
<1> SUFFICES ASSUME TypeOK PROVE NumberedApart /\ ListedIsStopped /\ StoppedIsNamed /\ BareTrustHonoured
  OBVIOUS
<1>1. ListedIsStopped
  <2> SUFFICES ASSUME Dropped = {}, NEW l \in entries, NEW a \in Address,
                      Matches(l, a), Within(a.host, l.host),
                      ReachesSpelling(l, a),
                      ~ \E h \in excused : Within(a.host, h) /\ Within(h, l.host)
               PROVE  Blocked(a)
    BY DEF ListedIsStopped, ReachesSpelling
  <2>1. l \in Wanted(entries, excused)
    BY DEF Wanted, Within
  <2>2. l \in Listings /\ Wanted(entries, excused) \subseteq Listings
    BY DEF TypeOK, Wanted
  <2>3. Position(l, Wanted(entries, excused)) <= RuleLimit
    <3>1. Position(l, Wanted(entries, excused)) \in Nat
      BY <2>2, UpToFinite
    <3>2. ~ (Position(l, Wanted(entries, excused)) > RuleLimit)
      BY <2>1 DEF Dropped
    <3>3. QED
      BY <3>1, <3>2, RulesAssumption
  <2>4. PICK r \in Rules : r.listing = l /\ r.excused = TrustedUnder(l, excused)
    BY <2>1, <2>3, WantedHasRule
  <2>5. l.path \in {NoPath, a.path} \/ <<a.path, l.path>> \in PathPrefix
    <3>1. CASE Reduced(a) = l
      BY <3>1 DEF Reduced
    <3>2. CASE Reduced(a) # l
      BY <3>2, RulesAssumption DEF Matches
    <3>3. QED
      BY <3>1, <3>2
  <2>6. \A h \in r.excused : ~Within(a.host, h)
    BY <2>4 DEF TrustedUnder, Within
  <2>7. QED
    BY <2>4, <2>5, <2>6 DEF Blocked, Blocks
<1>2. StoppedIsNamed
  <2> SUFFICES ASSUME NEW a \in Address, NEW r \in Rules, Blocks(r, a), r.listing.path = NoPath
               PROVE  MatchUrl(a)
    BY RuleShape DEF StoppedIsNamed, Blocked, Blocks
  <2>1. r.listing \in entries /\ Matches(r.listing, a)
    BY RuleShape DEF Blocks, Matches
  <2>2. QED
    BY <2>1 DEF MatchUrl
<1>3. BareTrustHonoured
  <2> SUFFICES ASSUME NEW r \in Rules, NEW a \in Address, a.host \in excused,
                      r.listing.path = NoPath, Blocks(r, a)
               PROVE  FALSE
    BY DEF BareTrustHonoured
  <2>1. a.host # r.listing.host
    BY RuleShape
  <2>2. a.host \in r.excused
    BY <2>1, RuleShape DEF Blocks, Within, TrustedUnder
  <2>3. QED
    BY <2>2 DEF Blocks, Within
<1>4. NumberedApart
  BY IdsAreDistinct DEF NumberedApart, Rules, TypeOK
<1>5. QED
  BY <1>1, <1>2, <1>3, <1>4

LEMMA TypeStep == TypeOK /\ [Next]_vars => TypeOK'
<1> SUFFICES ASSUME TypeOK, [Next]_vars PROVE TypeOK'
  OBVIOUS
<1>1. entries' \subseteq Listings /\ excused' \subseteq Hosts
  BY DEF TypeOK, Next, AcceptUpdate, Trust, Revoke, vars
<1>2. ASSUME NEW listed \in SUBSET Listings, NEW spared \in SUBSET Hosts
      PROVE  BuildRules(listed, spared) \subseteq
                 [id : 1 .. RuleLimit, listing : Listings, excused : SUBSET Hosts]
  <2> DEFINE wanted == Wanted(listed, spared)
  <2>1. wanted \subseteq Listings
    BY DEF Wanted
  <2>2. ASSUME NEW l \in wanted, Position(l, wanted) <= RuleLimit
        PROVE  Position(l, wanted) \in 1 .. RuleLimit
    <3> HIDE DEF wanted
    <3>1. l \in UpTo(l, wanted) /\ IsFiniteSet(UpTo(l, wanted))
      <4>1. l \in Listings /\ Rank[l] \in Nat
        BY <2>1, SemanticsAssumption
      <4>2. QED
        BY <2>1, <4>1, UpToFinite DEF UpTo
    <3>2. Cardinality(UpTo(l, wanted)) # 0 /\ Cardinality(UpTo(l, wanted)) \in Nat
      BY <3>1, FS_EmptySet, FS_CardinalityType
    <3>3. QED
      BY <2>2, <3>2, RulesAssumption DEF UpTo, Position
  <2>3. \A l \in wanted : TrustedUnder(l, spared) \subseteq Hosts
    BY DEF TrustedUnder
  <2>4. QED
    BY <2>1, <2>2, <2>3 DEF BuildRules
<1>3. Rules' = BuildRules(entries', excused')
  BY DEF Rules
<1>4. QED
  BY <1>1, <1>2, <1>3 DEF TypeOK

LEMMA TypeInit == Init => TypeOK
BY RulesAssumption DEF Init, TypeOK, Rules, BuildRules, Wanted

(* The rules in force are numbered within the ceiling, each with a listing *)
(* and the hosts excused from it (buildRules).                             *)
THEOREM TypeAlways == Spec => []TypeOK
BY TypeInit, TypeStep, PTL DEF Spec

(* The ids number what is kept.                                            *)
THEOREM NumberedAlwaysApart == Spec => []NumberedApart
BY TypeAlways, RulesInvariants, PTL

(* Trust on a parent, the numbering or an unrelated exception never lets a *)
(* listed address through while the ceiling leaves nothing out: plainly    *)
(* spelt, or with a port where the listing is of a bare host.              *)
THEOREM ListedAlwaysStopped == Spec => []ListedIsStopped
BY TypeAlways, RulesInvariants, PTL

(* The browser and matchUrl agree on every listing of a bare host.         *)
THEOREM StoppedAlwaysNamed == Spec => []StoppedIsNamed
BY TypeAlways, RulesInvariants, PTL

(* "Continue" on a block of a bare host is never followed by the same block.*)
THEOREM BareTrustAlwaysHonoured == Spec => []BareTrustHonoured
BY TypeAlways, RulesInvariants, PTL

(* One more trusted host opens addresses within it and no others.          *)
THEOREM TrustStaysLocal == Spec => TrustIsLocal
<1> DEFINE Local == \A h \in Hosts : Trust(h) =>
                \A a \in Address : Blocked(a) /\ ~Blocked(a)' => Within(a.host, h)
<1>1. TypeOK /\ TypeOK' /\ [Next]_vars => [Local]_vars
  <2> SUFFICES ASSUME TypeOK, TypeOK', NEW h \in Hosts, Trust(h), NEW a \in Address,
                      NEW r \in Rules, Blocks(r, a), ~Within(a.host, h)
               PROVE  Blocked(a)'
    BY DEF Blocked
  <2> DEFINE l == r.listing
             wanted == Wanted(entries, excused)
  <2>1. entries' = entries /\ excused' = excused \cup {h}
    BY DEF Trust
  <2>2. l \in entries /\ l \in wanted /\ Position(l, wanted) <= RuleLimit
    BY DEF Rules, BuildRules, Wanted
  <2>3. l.host # h
    BY DEF Blocks
  <2>4. l \in wanted' /\ wanted' \subseteq wanted
    BY <2>1, <2>2, <2>3 DEF Wanted
  <2>5. wanted \subseteq Listings /\ l \in Listings
    BY <2>2 DEF TypeOK, Wanted
  <2>6. Position(l, wanted') <= Position(l, wanted)
    BY <2>4, <2>5, PositionFalls
  <2>7. Position(l, wanted') <= RuleLimit
    <3>1. Position(l, wanted') \in Nat /\ Position(l, wanted) \in Nat
      BY <2>4, <2>5, UpToFinite
    <3>2. QED
      BY <2>2, <2>6, <3>1, RulesAssumption
  <2> DEFINE s == [id |-> Position(l, wanted'), listing |-> l,
                   excused |-> TrustedUnder(l, excused')]
  <2>8. s \in Rules'
    BY <2>4, <2>7 DEF Rules, BuildRules
  <2>9. r.excused = TrustedUnder(l, excused)
    BY RuleShape
  <2>10. \A g \in s.excused : g \in r.excused \/ g = h
    BY <2>1, <2>9 DEF TrustedUnder
  <2>11. Blocks(s, a)
    BY <2>10 DEF Blocks
  <2>12. QED
    BY <2>8, <2>11 DEF Blocked
<1>2. QED
  BY <1>1, TypeAlways, PTL DEF Spec, TrustIsLocal

(* The rules are numbered apart and stop what is listed and not trusted,   *)
(* but for the ports and dots matchUrl does not look at, and what they     *)
(* stop matchUrl names (rules.ts, lookup.ts).                              *)
THEOREM RulesAlwaysMeanTheFeed == Spec => []RulesMeanTheFeed
<1>1. NumberedApart /\ ListedIsStopped /\ StoppedIsNamed /\ BareTrustHonoured => RulesMeanTheFeed
  BY DEF RulesMeanTheFeed
<1>2. QED
  BY <1>1, NumberedAlwaysApart, ListedAlwaysStopped, StoppedAlwaysNamed, BareTrustAlwaysHonoured, PTL

-----------------------------------------------------------------------------
(***************************************************************************)
(* BlockScreen, for any tabs, listings, addresses and answers: a screen    *)
(* never loses an answer, and "continue" opens the page.                   *)
(***************************************************************************)
Context == Note \cup {Unknown}

(* What the screens hold, and the background's note.                       *)
ScreensTyped ==
    /\ lastBlock \in Context /\ noting \subseteq Visited
    /\ at \in [Tabs -> Visited \cup {Blank}]
    /\ phase \in [Tabs -> {"unpainted", "painted", "asking"}]
    /\ left \in [Tabs -> Nat]
    /\ shown \in [Tabs -> Context]

(* A screen that asks, or will, cannot name the list.                      *)
OpenOn(context, stage, more) ==
    /\ stage = "asking" => ~ Complete(context)
    /\ stage = "painted" => more = 0 \/ ~ Complete(context)
AskingIsOpen == \A t \in Tabs : OpenOn(shown[t], phase[t], left[t])

(* Of a screen no other navigation's note reaches, the note is its own or  *)
(* still to come.                                                          *)
NotesOwn(u, context, note, pending) ==
    /\ pending \subseteq {u}
    /\ u \in pending \/ note = Unknown \/ note.url = u
    /\ context # Unknown => context.url = u
NotesAreOwn ==
    \A t \in Tabs \ crossed : Stopped(t) => NotesOwn(at[t], shown[t], lastBlock, noting)

(* A grant that is under way is about an address, and a refresh of a tab   *)
(* belongs to one.                                                         *)
IsGrant(g) ==
    \/ g = NoGrant
    \/ /\ g = [stage |-> g.stage, url |-> g.url, spoilt |-> g.spoilt]
       /\ g.stage \in {"sent", "orphaned", "replied"} /\ g.url \in Visited /\ g.spoilt \in BOOLEAN
IsJob(job) == job = Job(job.step, job.honoured, job.ids)

GrantsTyped ==
    /\ DOMAIN grant = Tabs /\ \A t \in Tabs : IsGrant(grant[t])
    /\ DOMAIN refresh = Jobs /\ \A j \in Jobs : IsJob(refresh[j])
    /\ \A t \in Tabs : refresh[t].step # "idle" => Asked(t)

(* The rule stops the host only by a listing with a path.                  *)
Spares(r, h) ==
    r.listing.path = NoPath => r.listing.host # h /\ (<<h, r.listing.host>> \in SubdomainOf => h \in r.excused)

(* How far a promise that is not spoilt has come: the host is trusted, the *)
(* rules are built with it, and what the replacement will leave spares it. *)
Honours(g, job, trust, rules) ==
    \/ g.spoilt = TRUE
    \/ /\ job.step = "reading" => g.url.host \in trust
       /\ job.step \in {"built", "replacing"} => g.url.host \in job.honoured
       /\ job.step = "replacing" => \A r \in rules : r.id \in job.ids \/ Spares(r, g.url.host)
       /\ g.stage = "replied" => \A r \in rules : Spares(r, g.url.host)
PromisesHonoured == \A t \in Tabs : Honours(grant[t], refresh[t], trusted, installed)

ScreenInv == ScreensTyped /\ AskingIsOpen /\ NotesAreOwn /\ GrantsTyped /\ PromisesHonoured

-----------------------------------------------------------------------------
LEMMA NoGrantFacts ==
    /\ NoGrant.stage = "none" /\ NoGrant.url = Blank /\ IsGrant(NoGrant)
    /\ Idle.step = "idle" /\ IsJob(Idle)
BY DEF NoGrant, Idle, Job, IsGrant, IsJob

LEMMA GrantFacts ==
    ASSUME NEW g, IsGrant(g), g.stage # "none"
    PROVE  /\ g = [stage |-> g.stage, url |-> g.url, spoilt |-> g.spoilt]
           /\ g.stage \in {"sent", "orphaned", "replied"} /\ g.url \in Visited /\ g.spoilt \in BOOLEAN
BY NoGrantFacts DEF IsGrant

LEMMA NotHonouring ==
    ASSUME NEW g, NEW job, NEW trust, NEW rules, job.step = "idle", g.stage # "replied"
    PROVE  Honours(g, job, trust, rules)
BY DEF Honours

(* A host the rules were built to excuse is spared by every one of them.   *)
LEMMA FreshSpares ==
    ASSUME NEW honoured, NEW r \in BuildRules(Listed, honoured), NEW h \in honoured
    PROVE  Spares(r, h)
<1>1. PICK l \in Wanted(Listed, honoured) : r.listing = l /\ r.excused = TrustedUnder(l, honoured)
  BY DEF BuildRules
<1>2. l.host \notin honoured
  BY DEF Wanted
<1>3. QED
  BY <1>1, <1>2 DEF Spares, TrustedUnder

LEMMA SparedOpens ==
    ASSUME NEW r, NEW u, Spares(r, u.host), Blocks(r, u)
    PROVE  r.listing.path # NoPath
BY DEF Spares, Blocks, Within

LEMMA ScreenInvInit == ScreenInit => ScreenInv
<1> SUFFICES ASSUME ScreenInit PROVE ScreenInv
  OBVIOUS
<1>1. ScreensTyped
  BY ScreenAssumption DEF ScreenInit, ScreensTyped, Context
<1>2. AskingIsOpen
  BY DEF ScreenInit, AskingIsOpen, OpenOn
<1>3. NotesAreOwn
  BY DEF ScreenInit, NotesAreOwn, Stopped
<1>4. \A t \in Tabs : grant[t] = NoGrant /\ refresh[t] = Idle
  BY DEF ScreenInit, Jobs
<1>5. GrantsTyped
  BY <1>4, NoGrantFacts DEF ScreenInit, GrantsTyped
<1>6. PromisesHonoured
  BY <1>4, NoGrantFacts, NotHonouring DEF PromisesHonoured
<1>7. QED
  BY <1>1, <1>2, <1>3, <1>5, <1>6 DEF ScreenInv

-----------------------------------------------------------------------------
(* Grants and refreshes, apart from the screens.                           *)

(* One tab's grant moves, and nothing of a refresh.                        *)
LEMMA GrantMoves ==
    ASSUME ScreenInv, NEW t \in Tabs, NEW g, IsGrant(g), UNCHANGED rulesVars,
           grant' = [grant EXCEPT ![t] = g],
           refresh[t].step # "idle" => g.stage \in {"sent", "orphaned"},
           Honours(g, refresh[t], trusted, installed)
    PROVE  GrantsTyped' /\ PromisesHonoured'
<1>1. UNCHANGED <<trusted, installed, refresh>>
  BY DEF rulesVars
<1>2. DOMAIN grant' = Tabs /\ grant'[t] = g /\ \A s \in Tabs \ {t} : grant'[s] = grant[s]
  BY DEF ScreenInv, GrantsTyped
<1>3. GrantsTyped'
  <2>1. \A s \in Tabs : IsGrant(grant'[s])
    BY <1>2 DEF ScreenInv, GrantsTyped
  <2>2. \A s \in Tabs : refresh[s].step # "idle" => grant'[s].stage \in {"sent", "orphaned"}
    BY <1>2 DEF ScreenInv, GrantsTyped, Asked
  <2>3. QED
    BY <1>1, <1>2, <2>1, <2>2 DEF ScreenInv, GrantsTyped, Asked
<1>4. PromisesHonoured'
  BY <1>1, <1>2 DEF ScreenInv, PromisesHonoured
<1>5. QED
  BY <1>3, <1>4

(* One refresh moves; each promise of a tab follows.                       *)
LEMMA RefreshMoves ==
    ASSUME ScreenInv, NEW j \in Jobs, NEW job, IsJob(job), Goes(j, job),
           DOMAIN grant' = Tabs, \A t \in Tabs : IsGrant(grant'[t]),
           \A t \in Tabs \ {j} : Asked(t) => Asked(t)',
           j \in Tabs /\ job.step # "idle" => Asked(j)',
           \A t \in Tabs : Honours(grant'[t], IF t = j THEN job ELSE refresh[t], trusted', installed')
    PROVE  GrantsTyped' /\ PromisesHonoured'
<1>1. DOMAIN refresh' = Jobs /\ refresh'[j] = job /\ \A i \in Jobs \ {j} : refresh'[i] = refresh[i]
  BY DEF Goes, ScreenInv, GrantsTyped
<1>2. \A t \in Tabs : refresh'[t] = IF t = j THEN job ELSE refresh[t]
  BY <1>1 DEF Jobs
<1>3. \A i \in Jobs : IsJob(refresh'[i])
  BY <1>1 DEF ScreenInv, GrantsTyped
<1>4. \A t \in Tabs : refresh'[t].step # "idle" => Asked(t)'
  BY <1>2 DEF ScreenInv, GrantsTyped
<1>5. GrantsTyped'
  BY <1>1, <1>3, <1>4 DEF GrantsTyped
<1>6. PromisesHonoured'
  BY <1>2 DEF PromisesHonoured
<1>7. QED
  BY <1>5, <1>6

(* A reply to a tab's own question, when its refresh is over.              *)
LEMMA ReplyFacts ==
    ASSUME ScreenInv, NEW t \in Tabs, refresh[t].step # "idle", NEW spoilt \in BOOLEAN
    PROVE  /\ IsGrant(Reply(grant[t], spoilt))
           /\ \/ Reply(grant[t], spoilt) = NoGrant
              \/ Reply(grant[t], spoilt) = [stage |-> "replied", url |-> grant[t].url,
                                            spoilt |-> grant[t].spoilt \/ spoilt]
           /\ grant[t].url \in Visited /\ grant[t].spoilt \in BOOLEAN /\ grant[t].stage # "replied"
<1>1. grant[t].stage \in {"sent", "orphaned"} /\ IsGrant(grant[t])
  BY DEF ScreenInv, GrantsTyped, Asked
<1>2. /\ grant[t] = [stage |-> grant[t].stage, url |-> grant[t].url, spoilt |-> grant[t].spoilt]
      /\ grant[t].url \in Visited /\ grant[t].spoilt \in BOOLEAN
  BY <1>1, GrantFacts
<1>3. \/ Reply(grant[t], spoilt) = NoGrant
      \/ Reply(grant[t], spoilt) = [stage |-> "replied", url |-> grant[t].url, spoilt |-> grant[t].spoilt \/ spoilt]
  BY <1>2 DEF Reply
<1>4. IsGrant(Reply(grant[t], spoilt))
  BY <1>2, <1>3, NoGrantFacts DEF IsGrant
<1>5. QED
  BY <1>1, <1>2, <1>3, <1>4

LEMMA RecordKeeps == ASSUME ScreenInv, NEW t \in Tabs, RecordException(t) PROVE GrantsTyped' /\ PromisesHonoured'
<1> DEFINE job == Job("reading", {}, {})
<1>1. /\ Asked(t) /\ trusted' = trusted \cup {grant[t].url.host} /\ Goes(t, job)
      /\ UNCHANGED <<installed, grant>>
  BY DEF RecordException
<1>2. IsJob(job) /\ job.step = "reading"
  BY DEF Job, IsJob
<1> HIDE DEF job
<1>3. \A s \in Tabs : Honours(grant'[s], IF s = t THEN job ELSE refresh[s], trusted', installed')
  <2>1. \A s \in Tabs \ {t} : Honours(grant[s], refresh[s], trusted', installed)
    BY <1>1 DEF ScreenInv, PromisesHonoured, Honours
  <2>2. grant[t].stage # "replied"
    BY <1>1 DEF Asked
  <2>3. Honours(grant[t], job, trusted', installed)
    BY <1>1, <1>2, <2>2 DEF Honours
  <2>4. QED
    BY <1>1, <2>1, <2>3
<1>4. \A s \in Tabs : IsGrant(grant'[s]) /\ (Asked(s) => Asked(s)')
  BY <1>1 DEF ScreenInv, GrantsTyped, Asked
<1>5. DOMAIN grant' = Tabs /\ Asked(t)' /\ t \in Jobs
  BY <1>1, <1>4 DEF ScreenInv, GrantsTyped, Jobs
<1>6. QED
  BY <1>1, <1>2, <1>3, <1>4, <1>5, RefreshMoves

(* Trust given or taken back elsewhere spoils what it takes back.          *)
LEMMA ElsewhereKeeps == ASSUME ScreenInv, NEW o \in Others, RefreshElsewhere(o) PROVE GrantsTyped' /\ PromisesHonoured'
<1> DEFINE job == Job("reading", {}, {})
<1>1. /\ Goes(o, job) /\ UNCHANGED installed
      /\ grant' = [t \in Tabs |-> IF Promised(t) /\ grant[t].url.host \notin trusted'
                                  THEN [grant[t] EXCEPT !.spoilt = TRUE] ELSE grant[t]]
  BY DEF RefreshElsewhere
<1>2. IsJob(job) /\ job.step = "reading" /\ o \in Jobs /\ o \notin Tabs
  BY ScreenAssumption DEF Job, IsJob, Jobs
<1> HIDE DEF job
<1>3. ASSUME NEW t \in Tabs
      PROVE  /\ IsGrant(grant'[t]) /\ (Asked(t) => Asked(t)')
             /\ Honours(grant'[t], refresh[t], trusted', installed)
  <2>1. IsGrant(grant[t]) /\ Honours(grant[t], refresh[t], trusted, installed)
    BY DEF ScreenInv, GrantsTyped, PromisesHonoured
  <2>2. refresh[t].step # "idle" => Asked(t)
    BY DEF ScreenInv, GrantsTyped
  <2>3. CASE Promised(t) /\ grant[t].url.host \notin trusted'
    <3>1. grant[t].stage # "none"
      BY <2>2, <2>3 DEF Promised, Asked
    <3>2. grant'[t] = [stage |-> grant[t].stage, url |-> grant[t].url, spoilt |-> TRUE]
      <4>1. grant[t] = [stage |-> grant[t].stage, url |-> grant[t].url, spoilt |-> grant[t].spoilt]
        BY <2>1, <3>1, GrantFacts
      <4>2. grant'[t] = [grant[t] EXCEPT !.spoilt = TRUE]
        BY <1>1, <2>1, <2>3
      <4>3. QED
        BY <4>1, <4>2
    <3>3. IsGrant(grant'[t])
      BY <2>1, <3>1, <3>2, GrantFacts DEF IsGrant
    <3>4. Honours(grant'[t], refresh[t], trusted', installed)
      BY <3>2 DEF Honours
    <3>5. QED
      BY <3>2, <3>3, <3>4 DEF Asked
  <2>4. CASE ~ Promised(t)
    <3>1. grant'[t] = grant[t] /\ refresh[t].step = "idle" /\ grant[t].stage # "replied"
      BY <1>1, <2>4 DEF Promised
    <3>2. QED
      BY <2>1, <3>1, NotHonouring DEF Asked
  <2>5. CASE Promised(t) /\ grant[t].url.host \in trusted'
    <3>1. grant'[t] = grant[t]
      BY <1>1, <2>5
    <3>2. Honours(grant[t], refresh[t], trusted', installed)
      BY <2>1, <2>5 DEF Honours
    <3>3. QED
      BY <2>1, <3>1, <3>2 DEF Asked
  <2>6. QED
    BY <2>3, <2>4, <2>5
<1>4. DOMAIN grant' = Tabs
  BY <1>1
<1>5. \A t \in Tabs : Honours(grant'[t], IF t = o THEN job ELSE refresh[t], trusted', installed')
  BY <1>1, <1>2, <1>3
<1>6. QED
  BY <1>1, <1>2, <1>3, <1>4, <1>5, RefreshMoves

(* The two reads of a refresh.                                             *)
LEMMA ReadsKeep ==
    ASSUME ScreenInv, NEW j \in Jobs, BuildRuleSet(j) \/ GetDynamicRules(j)
    PROVE  GrantsTyped' /\ PromisesHonoured'
<1>1. UNCHANGED <<trusted, installed, grant>> /\ refresh[j].step # "idle"
  BY DEF BuildRuleSet, GetDynamicRules
<1>2. PICK job : /\ IsJob(job) /\ Goes(j, job)
                 /\ \/ refresh[j].step = "reading" /\ job.step = "built" /\ job.honoured = trusted
                    \/ /\ refresh[j].step = "built" /\ job.step = "replacing"
                       /\ job.honoured = refresh[j].honoured /\ job.ids = Ids(installed)
  <2>1. CASE BuildRuleSet(j)
    BY <2>1 DEF BuildRuleSet, Job, IsJob
  <2>2. CASE GetDynamicRules(j)
    BY <2>2 DEF GetDynamicRules, Job, IsJob
  <2>3. QED
    BY <2>1, <2>2
<1>3. \A t \in Tabs : IsGrant(grant'[t]) /\ (Asked(t) => Asked(t)')
  BY <1>1 DEF ScreenInv, GrantsTyped, Asked
<1>4. j \in Tabs => Asked(j)'
  BY <1>1, <1>3 DEF ScreenInv, GrantsTyped
<1>5. ASSUME NEW t \in Tabs PROVE Honours(grant'[t], IF t = j THEN job ELSE refresh[t], trusted', installed')
  <2>1. Honours(grant[t], refresh[t], trusted, installed)
    BY DEF ScreenInv, PromisesHonoured
  <2>2. CASE t = j
    <3>1. grant[t].stage # "replied"
      BY <1>1, <2>2 DEF ScreenInv, GrantsTyped, Asked
    <3>2. \A r \in installed : r.id \in Ids(installed)
      BY DEF Ids
    <3>3. Honours(grant[t], job, trusted, installed)
      BY <1>2, <2>1, <2>2, <3>1, <3>2 DEF Honours
    <3>4. QED
      BY <1>1, <2>2, <3>3
  <2>3. QED
    BY <1>1, <2>1, <2>2
<1>6. DOMAIN grant' = Tabs
  BY <1>1 DEF ScreenInv, GrantsTyped
<1>7. QED
  BY <1>2, <1>3, <1>4, <1>5, <1>6, RefreshMoves

LEMMA UnreadKeeps == ASSUME ScreenInv, NEW j \in Jobs, FeedUnread(j) PROVE GrantsTyped' /\ PromisesHonoured'
<1>1. /\ UNCHANGED <<trusted, installed>> /\ refresh[j].step = "reading" /\ Goes(j, Idle)
      /\ grant' = [t \in Tabs |-> IF t = j THEN Reply(grant[t], TRUE) ELSE grant[t]]
  BY DEF FeedUnread
<1>2. ASSUME NEW t \in Tabs
      PROVE  /\ IsGrant(grant'[t])
             /\ Honours(grant'[t], IF t = j THEN Idle ELSE refresh[t], trusted', installed')
  <2>1. CASE t = j
    <3>1. refresh[t].step # "idle" /\ grant'[t] = Reply(grant[t], TRUE)
      BY <1>1, <2>1
    <3>2. IsGrant(grant'[t]) /\ (grant'[t] = NoGrant \/ grant'[t].spoilt = TRUE)
      <4>1. /\ IsGrant(grant'[t]) /\ grant[t].spoilt \in BOOLEAN
            /\ \/ grant'[t] = NoGrant
               \/ grant'[t] = [stage |-> "replied", url |-> grant[t].url, spoilt |-> grant[t].spoilt \/ TRUE]
        BY <3>1, ReplyFacts
      <4>2. (grant[t].spoilt \/ TRUE) = TRUE
        BY <4>1
      <4>3. grant'[t] = NoGrant \/ grant'[t] = [stage |-> "replied", url |-> grant[t].url, spoilt |-> TRUE]
        BY <4>1, <4>2, Zenon
      <4>4. QED
        BY <4>1, <4>3
    <3>3. Honours(grant'[t], Idle, trusted', installed')
      BY <3>2, NoGrantFacts DEF Honours
    <3>4. QED
      BY <2>1, <3>2, <3>3
  <2>2. CASE t # j
    BY <1>1, <2>2 DEF ScreenInv, GrantsTyped, PromisesHonoured
  <2>3. QED
    BY <2>1, <2>2
<1>3. DOMAIN grant' = Tabs /\ \A t \in Tabs \ {j} : grant'[t] = grant[t]
  BY <1>1
<1>4. \A t \in Tabs \ {j} : Asked(t) => Asked(t)'
  BY <1>3 DEF Asked
<1>5. QED
  BY <1>1, <1>2, <1>3, <1>4, NoGrantFacts, RefreshMoves

(* The rules are replaced: the promises the new ones do not honour, and    *)
(* that the next replacement would not undo, are spoilt.                   *)
LEMMA ReplaceKeeps == ASSUME ScreenInv, NEW j \in Jobs, ReplaceRules(j) PROVE GrantsTyped' /\ PromisesHonoured'
<1> DEFINE spoils(t) == Exposed(t, Ids(Fresh(j))) /\ grant[t].url.host \notin refresh[j].honoured
<1>1. /\ UNCHANGED trusted /\ refresh[j].step = "replacing" /\ Goes(j, Idle)
      /\ installed' = Kept(j) \cup Fresh(j)
      /\ grant' = [t \in Tabs |-> IF t = j THEN Reply(grant[t], FALSE)
                                  ELSE IF spoils(t) THEN [grant[t] EXCEPT !.spoilt = TRUE] ELSE grant[t]]
  BY DEF ReplaceRules
<1>2. \A h \in refresh[j].honoured, r \in Fresh(j) : Spares(r, h)
  BY FreshSpares DEF Fresh
<1>3. Kept(j) = {r \in installed : r.id \notin refresh[j].ids}
  BY DEF Kept
<1>4. ASSUME NEW t \in Tabs, t = j
      PROVE  /\ IsGrant(grant'[t]) /\ Honours(grant'[t], Idle, trusted', installed')
  <2>1. refresh[t].step = "replacing" /\ grant'[t] = Reply(grant[t], FALSE)
    BY <1>1, <1>4
  <2>2. /\ IsGrant(grant'[t]) /\ grant[t].spoilt \in BOOLEAN
        /\ \/ grant'[t] = NoGrant
           \/ grant'[t] = [stage |-> "replied", url |-> grant[t].url, spoilt |-> grant[t].spoilt \/ FALSE]
    BY <2>1, ReplyFacts
  <2>3. CASE grant'[t] = NoGrant
    BY <2>2, <2>3, NoGrantFacts, NotHonouring
  <2>4. CASE grant[t].spoilt = TRUE /\ grant'[t] # NoGrant
    <3>1. grant'[t].spoilt = TRUE
      BY <2>2, <2>4
    <3>2. QED
      BY <2>2, <3>1 DEF Honours
  <2>5. CASE grant[t].spoilt # TRUE /\ grant'[t] # NoGrant
    <3>1. Honours(grant[t], refresh[t], trusted, installed)
      BY DEF ScreenInv, PromisesHonoured
    <3>2. /\ grant[t].url.host \in refresh[j].honoured
          /\ \A r \in installed : r.id \in refresh[j].ids \/ Spares(r, grant[t].url.host)
      BY <1>4, <2>1, <2>5, <3>1 DEF Honours
    <3>3. \A r \in installed' : Spares(r, grant[t].url.host)
      BY <1>1, <1>2, <1>3, <3>2
    <3>4. grant'[t].url = grant[t].url
      BY <2>2, <2>5
    <3>5. Honours(grant'[t], Idle, trusted', installed')
      BY <3>3, <3>4, NoGrantFacts DEF Honours
    <3>6. QED
      BY <2>2, <3>5
  <2>6. QED
    BY <2>3, <2>4, <2>5
<1>5. ASSUME NEW t \in Tabs, t # j
      PROVE  /\ IsGrant(grant'[t]) /\ (Asked(t) => Asked(t)')
             /\ Honours(grant'[t], refresh[t], trusted', installed')
  <2>1. IsGrant(grant[t]) /\ Honours(grant[t], refresh[t], trusted, installed)
    BY DEF ScreenInv, GrantsTyped, PromisesHonoured
  <2>2. CASE spoils(t)
    <3>1. grant[t].stage # "none"
      BY <2>2 DEF Exposed, ScreenInv, GrantsTyped, Asked
    <3>2. grant'[t] = [stage |-> grant[t].stage, url |-> grant[t].url, spoilt |-> TRUE]
      <4>1. grant[t] = [stage |-> grant[t].stage, url |-> grant[t].url, spoilt |-> grant[t].spoilt]
        BY <2>1, <3>1, GrantFacts
      <4>2. grant'[t] = [grant[t] EXCEPT !.spoilt = TRUE]
        BY <1>1, <1>5, <2>1, <2>2
      <4>3. QED
        BY <4>1, <4>2
    <3>3. IsGrant(grant'[t])
      BY <2>1, <3>1, <3>2, GrantFacts DEF IsGrant
    <3>4. Honours(grant'[t], refresh[t], trusted', installed')
      BY <3>2 DEF Honours
    <3>5. QED
      BY <3>2, <3>3, <3>4 DEF Asked
  <2>3. CASE ~ spoils(t)
    <3>1. grant'[t] = grant[t]
      BY <1>1, <1>5, <2>3
    <3>2. Honours(grant[t], refresh[t], trusted, installed')
      <4>1. CASE grant[t].url.host \in refresh[j].honoured
        <5>1. \A r \in Fresh(j) : Spares(r, grant[t].url.host)
          BY <1>2, <4>1
        <5>2. QED
          BY <1>1, <1>3, <2>1, <5>1 DEF Honours
      <4>2. CASE grant[t].url.host \notin refresh[j].honoured
        <5>1. /\ grant[t].stage # "replied"
              /\ refresh[t].step = "replacing" => Ids(Fresh(j)) \subseteq refresh[t].ids
          BY <2>3, <4>2 DEF Exposed
        <5>2. \A r \in Fresh(j) : r.id \in Ids(Fresh(j))
          BY DEF Ids
        <5>3. QED
          BY <1>1, <1>3, <2>1, <5>1, <5>2 DEF Honours
      <4>3. QED
        BY <4>1, <4>2
    <3>3. QED
      BY <1>1, <2>1, <3>1, <3>2 DEF Asked
  <2>4. QED
    BY <2>2, <2>3
<1>6. DOMAIN grant' = Tabs
  BY <1>1
<1>7. \A t \in Tabs : /\ IsGrant(grant'[t])
                      /\ Honours(grant'[t], IF t = j THEN Idle ELSE refresh[t], trusted', installed')
  BY <1>4, <1>5
<1>8. QED
  BY <1>1, <1>5, <1>6, <1>7, NoGrantFacts, RefreshMoves

(* A refresh fails: what was under way is answered with nothing.           *)
LEMMA FailsKeep ==
    ASSUME ScreenInv, (\E t \in Tabs : AllowFails(t)) \/ (\E o \in Others : OtherFails(o))
    PROVE  GrantsTyped' /\ PromisesHonoured'
<1>1. PICK j \in Jobs : /\ UNCHANGED <<trusted, installed>> /\ Goes(j, Idle)
                        /\ \/ j \in Tabs /\ grant' = [grant EXCEPT ![j] = NoGrant]
                           \/ j \notin Tabs /\ grant' = grant
  BY ScreenAssumption DEF AllowFails, OtherFails, Jobs
<1>2. /\ DOMAIN grant' = Tabs /\ \A t \in Tabs \ {j} : grant'[t] = grant[t]
      /\ j \in Tabs => grant'[j] = NoGrant
  BY <1>1 DEF ScreenInv, GrantsTyped
<1>3. \A t \in Tabs \ {j} : IsGrant(grant'[t]) /\ (Asked(t) => Asked(t)')
  BY <1>2 DEF ScreenInv, GrantsTyped, Asked
<1>4. \A t \in Tabs : IsGrant(grant'[t])
  BY <1>2, <1>3, NoGrantFacts
<1>5. \A t \in Tabs : Honours(grant'[t], IF t = j THEN Idle ELSE refresh[t], trusted', installed')
  <2>1. \A t \in Tabs \ {j} : Honours(grant'[t], refresh[t], trusted', installed')
    BY <1>1, <1>2 DEF ScreenInv, PromisesHonoured
  <2>2. j \in Tabs => Honours(grant'[j], Idle, trusted', installed')
    BY <1>2, NoGrantFacts, NotHonouring
  <2>3. QED
    BY <2>1, <2>2
<1>6. QED
  BY <1>1, <1>2, <1>3, <1>4, <1>5, NoGrantFacts, RefreshMoves

(* A refresh, or what begins or ends one, leaves screens and notes.        *)
LEMMA RulesStepKeeps ==
    ASSUME ScreenInv,
           \/ \E t \in Tabs : RecordException(t) \/ AllowFails(t)
           \/ \E o \in Others : RefreshElsewhere(o) \/ OtherFails(o)
           \/ \E j \in Jobs : Refresh(j)
    PROVE  ScreenInv' /\ UNCHANGED <<background, screens, crossed>>
<1>1. UNCHANGED <<background, screens, crossed>>
  BY DEF RecordException, AllowFails, RefreshElsewhere, OtherFails, Refresh, BuildRuleSet, GetDynamicRules,
         FeedUnread, ReplaceRules
<1>2. GrantsTyped' /\ PromisesHonoured'
  BY RecordKeeps, FailsKeep, ElsewhereKeeps, ReadsKeep, UnreadKeeps, ReplaceKeeps DEF Refresh
<1>3. ScreensTyped' /\ AskingIsOpen' /\ NotesAreOwn'
  BY <1>1 DEF ScreenInv, background, screens, ScreensTyped, AskingIsOpen, NotesAreOwn, Stopped
<1>4. QED
  BY <1>1, <1>2, <1>3 DEF ScreenInv

-----------------------------------------------------------------------------
(* Screens and notes.                                                      *)

LEMMA GoesToKeeps ==
    ASSUME ScreenInv, NEW t \in Tabs, NEW u \in Visited, GoesTo(t, u)
    PROVE  /\ ScreensTyped' /\ AskingIsOpen' /\ NotesAreOwn'
           /\ UNCHANGED rulesVars
           /\ phase'[t] = "unpainted" /\ \A s \in Tabs \ {t} : shown'[s] = shown[s]
           /\ at'[t] # Blank => \E r \in installed : Blocks(r, u)
<1>1. /\ noting' = noting \cup {u}
      /\ at' = [at EXCEPT ![t] = IF \E r \in installed : Blocks(r, u) THEN u ELSE Blank]
      /\ phase' = [phase EXCEPT ![t] = "unpainted"]
      /\ left' = [left EXCEPT ![t] = Attempts]
      /\ shown' = [shown EXCEPT ![t] = Unknown]
      /\ UNCHANGED <<rulesVars, lastBlock>>
  BY DEF GoesTo
<1>2. crossed' = {s \in Tabs \ {t} : s \in crossed \/ (Stopped(s) /\ at[s] # u)}
                 \cup {s \in {t} : noting \ {u} # {}}
  BY DEF GoesTo
<1>3. ScreensTyped
  BY DEF ScreenInv
<1>4. ScreensTyped'
  BY <1>1, <1>3, ScreenAssumption DEF ScreensTyped, Context
<1>5. /\ phase'[t] = "unpainted" /\ left'[t] = Attempts /\ shown'[t] = Unknown /\ at'[t] \in {u, Blank}
      /\ \A s \in Tabs \ {t} : /\ shown'[s] = shown[s] /\ at'[s] = at[s]
                               /\ left'[s] = left[s] /\ phase'[s] = phase[s]
      /\ at'[t] # Blank => \E r \in installed : Blocks(r, u)
  BY <1>1, <1>3 DEF ScreensTyped
<1>6. AskingIsOpen'
  BY <1>5 DEF ScreenInv, AskingIsOpen, OpenOn
<1>7. NotesAreOwn'
  <2> SUFFICES ASSUME NEW s \in Tabs \ crossed', Stopped(s)'
               PROVE  NotesOwn(at[s], shown[s], lastBlock, noting)'
    BY DEF NotesAreOwn
  <2>1. CASE s = t
    <3>1. noting' \subseteq {u} /\ at'[s] = u /\ u \in noting' /\ shown'[s] = Unknown
      BY <1>1, <1>2, <1>5, <2>1 DEF Stopped
    <3>2. QED
      BY <3>1 DEF NotesOwn
  <2>2. CASE s # t
    <3>1. s \notin crossed /\ at'[s] = at[s] /\ shown'[s] = shown[s] /\ Stopped(s) /\ at[s] = u
      BY <1>2, <1>5, <2>2 DEF Stopped
    <3>2. NotesOwn(at[s], shown[s], lastBlock, noting)
      BY <3>1 DEF ScreenInv, NotesAreOwn
    <3>3. QED
      BY <1>1, <3>1, <3>2 DEF NotesOwn
  <2>3. QED
    BY <2>1, <2>2
<1>8. QED
  BY <1>1, <1>4, <1>5, <1>6, <1>7

LEMMA NavigateKeeps == ASSUME ScreenInv, NEW t \in Tabs, NEW u \in Visited, Navigate(t, u) PROVE ScreenInv'
<1> DEFINE g == IF grant[t].stage \in {"sent", "orphaned"} THEN [grant[t] EXCEPT !.stage = "orphaned"] ELSE NoGrant
<1>1. GoesTo(t, u) /\ grant' = [grant EXCEPT ![t] = g]
  BY DEF Navigate
<1>2. \/ g = NoGrant /\ ~ Asked(t)
      \/ g = [stage |-> "orphaned", url |-> grant[t].url, spoilt |-> grant[t].spoilt]
         /\ grant[t].url \in Visited /\ grant[t].spoilt \in BOOLEAN
  <2>1. CASE Asked(t)
    <3>1. /\ grant[t] = [stage |-> grant[t].stage, url |-> grant[t].url, spoilt |-> grant[t].spoilt]
          /\ grant[t].url \in Visited /\ grant[t].spoilt \in BOOLEAN
      BY <2>1, GrantFacts DEF ScreenInv, GrantsTyped, Asked
    <3>2. QED
      BY <2>1, <3>1 DEF Asked
  <2>2. QED
    BY <2>1 DEF Asked
<1> HIDE DEF g
<1>3. IsGrant(g)
  BY <1>2, NoGrantFacts DEF IsGrant
<1>4. refresh[t].step # "idle" => g.stage \in {"sent", "orphaned"}
  BY <1>2 DEF ScreenInv, GrantsTyped
<1>5. Honours(g, refresh[t], trusted, installed)
  <2>1. CASE g = NoGrant
    BY <1>4, <2>1, NoGrantFacts, NotHonouring
  <2>2. CASE g # NoGrant
    <3>1. Honours(grant[t], refresh[t], trusted, installed)
      BY DEF ScreenInv, PromisesHonoured
    <3>2. g.stage # "replied" /\ g.url = grant[t].url /\ g.spoilt = grant[t].spoilt
      BY <1>2, <2>2
    <3>3. QED
      BY <3>1, <3>2 DEF Honours
  <2>3. QED
    BY <2>1, <2>2
<1>6. ScreensTyped' /\ AskingIsOpen' /\ NotesAreOwn' /\ UNCHANGED rulesVars
  BY <1>1, GoesToKeeps
<1>7. GrantsTyped' /\ PromisesHonoured'
  BY <1>1, <1>3, <1>4, <1>5, <1>6, GrantMoves
<1>8. QED
  BY <1>6, <1>7 DEF ScreenInv

LEMMA FollowKeeps == ASSUME ScreenInv, NEW t \in Tabs, Follow(t) PROVE ScreenInv' /\ grant[t].url \in Visited
<1>1. grant[t].url \in Visited /\ GoesTo(t, grant[t].url) /\ grant' = [grant EXCEPT ![t] = NoGrant]
  BY GrantFacts DEF Follow, ScreenInv, GrantsTyped
<1>2. ScreensTyped' /\ AskingIsOpen' /\ NotesAreOwn' /\ UNCHANGED rulesVars
  BY <1>1, GoesToKeeps
<1>3. refresh[t].step = "idle"
  BY DEF Follow, ScreenInv, GrantsTyped, Asked
<1>4. GrantsTyped' /\ PromisesHonoured'
  BY <1>1, <1>2, <1>3, NoGrantFacts, NotHonouring, GrantMoves
<1>5. QED
  BY <1>1, <1>2, <1>4 DEF ScreenInv

LEMMA ContinueKeeps == ASSUME ScreenInv, NEW t \in Tabs, Continue(t) PROVE ScreenInv' /\ UNCHANGED <<phase, shown>>
<1> DEFINE g == [stage |-> "sent", url |-> shown[t].url, spoilt |-> FALSE]
<1>1. /\ UNCHANGED <<rulesVars, lastBlock, noting, at, phase, shown, crossed>>
      /\ left' = [left EXCEPT ![t] = 0] /\ grant' = [grant EXCEPT ![t] = g]
      /\ shown[t] # Unknown /\ grant[t] = NoGrant
  BY DEF Continue, background
<1>2. shown[t].url \in Visited
  BY <1>1 DEF ScreenInv, ScreensTyped, Context, Note
<1>3. IsGrant(g) /\ g.stage = "sent"
  BY <1>2 DEF IsGrant
<1> HIDE DEF g
<1>4. refresh[t].step = "idle"
  BY <1>1, NoGrantFacts DEF ScreenInv, GrantsTyped, Asked
<1>5. GrantsTyped' /\ PromisesHonoured'
  BY <1>1, <1>3, <1>4, NotHonouring, GrantMoves
<1>6. ScreensTyped' /\ NotesAreOwn'
  BY <1>1 DEF ScreenInv, ScreensTyped, NotesAreOwn, Stopped
<1>7. \A s \in Tabs : left'[s] = left[s] \/ left'[s] = 0
  BY <1>1 DEF ScreenInv, ScreensTyped
<1>8. AskingIsOpen'
  BY <1>1, <1>7 DEF ScreenInv, AskingIsOpen, OpenOn
<1>9. QED
  BY <1>1, <1>5, <1>6, <1>8 DEF ScreenInv

(* The step of a screen that asks, hears or is touched.                    *)
LEMMA AskingStep ==
    ASSUME ScreenInv, NEW t \in Tabs, Stopped(t) \/ phase[t] = "asking",
           UNCHANGED <<rulesVars, background, at, grant>>,
           NEW answer \in Context, NEW stage \in {"painted", "asking"}, NEW more \in Nat,
           shown' = [shown EXCEPT ![t] = answer], phase' = [phase EXCEPT ![t] = stage],
           left' = [left EXCEPT ![t] = more], OpenOn(answer, stage, more),
           \/ crossed' = crossed \cup {t}
           \/ crossed' = crossed /\ (Stopped(t) /\ t \notin crossed => NotesOwn(at[t], answer, lastBlock, noting))
    PROVE  ScreenInv'
<1>1. UNCHANGED <<trusted, installed, refresh, lastBlock, noting, at, grant>>
  BY DEF rulesVars, background
<1>2. ScreensTyped'
  BY <1>1 DEF ScreenInv, ScreensTyped
<1>3. /\ shown'[t] = answer /\ phase'[t] = stage /\ left'[t] = more
      /\ \A s \in Tabs \ {t} : shown'[s] = shown[s] /\ phase'[s] = phase[s] /\ left'[s] = left[s]
  BY DEF ScreenInv, ScreensTyped
<1>4. AskingIsOpen'
  BY <1>3 DEF ScreenInv, AskingIsOpen
<1>5. NotesAreOwn'
  BY <1>1, <1>3 DEF ScreenInv, NotesAreOwn, Stopped
<1>6. GrantsTyped' /\ PromisesHonoured'
  BY <1>1 DEF ScreenInv, GrantsTyped, Asked, PromisesHonoured
<1>7. QED
  BY <1>2, <1>4, <1>5, <1>6 DEF ScreenInv

(* What a screen asks for it either has heard before, or paints without a  *)
(* better answer to lose.                                                  *)
LEMMA AskingKeeps ==
    ASSUME ScreenInv, NEW t \in Tabs, FirstAnswer(t) \/ AskAgain(t) \/ LaterAnswer(t) \/ Touch(t)
    PROVE  /\ ScreenInv'
           /\ \A s \in Tabs : \/ shown'[s] = shown[s]
                              \/ phase[s] = "unpainted"
                              \/ ~ Complete(shown[s]) /\ Complete(shown'[s])
<1>1. ScreensTyped /\ OpenOn(shown[t], phase[t], left[t])
  BY DEF ScreenInv, AskingIsOpen
<1>2. Stopped(t) /\ t \notin crossed => NotesOwn(at[t], shown[t], lastBlock, noting)
  BY DEF ScreenInv, NotesAreOwn
<1>3. lastBlock \in Context /\ Unknown \in Context /\ left[t] \in Nat
  BY <1>1 DEF ScreensTyped, Context
<1>4. shown = [shown EXCEPT ![t] = shown[t]] /\ phase = [phase EXCEPT ![t] = phase[t]]
      /\ shown[t] \in Context /\ phase[t] \in {"unpainted", "painted", "asking"}
  BY <1>1 DEF ScreensTyped
<1>5. ASSUME NEW answer \in {lastBlock, Unknown}, PaintedEarly(t, answer)
      PROVE  \/ crossed' = crossed \cup {t}
             \/ crossed' = crossed /\ (Stopped(t) /\ t \notin crossed => NotesOwn(at[t], answer, lastBlock, noting))
  BY <1>2, <1>5 DEF PaintedEarly, NotesOwn
<1>6. CASE FirstAnswer(t)
  <2>1. PICK answer \in {lastBlock, Unknown} :
           /\ shown' = [shown EXCEPT ![t] = answer]
           /\ left' = [left EXCEPT ![t] = AsksOn(answer, left[t])]
           /\ PaintedEarly(t, answer)
    BY <1>6 DEF FirstAnswer
  <2>2. Stopped(t) /\ phase[t] = "unpainted" /\ phase' = [phase EXCEPT ![t] = "painted"]
        /\ UNCHANGED <<rulesVars, background, at, grant>>
    BY <1>6 DEF FirstAnswer
  <2>3. AsksOn(answer, left[t]) \in Nat /\ OpenOn(answer, "painted", AsksOn(answer, left[t]))
    BY <1>3 DEF AsksOn, OpenOn
  <2>4. answer \in Context
    BY <1>3
  <2>5. ScreenInv'
    BY <1>5, <2>1, <2>2, <2>3, <2>4, AskingStep
  <2>6. \A s \in Tabs \ {t} : shown'[s] = shown[s]
    BY <1>1, <2>1 DEF ScreensTyped
  <2>7. QED
    BY <2>2, <2>5, <2>6
<1>7. CASE AskAgain(t)
  <2>1. /\ Stopped(t) /\ phase[t] = "painted" /\ left[t] > 0
        /\ phase' = [phase EXCEPT ![t] = "asking"] /\ left' = [left EXCEPT ![t] = left[t] - 1]
        /\ UNCHANGED <<rulesVars, background, at, shown, grant, crossed>>
    BY <1>7 DEF AskAgain
  <2>2. left[t] - 1 \in Nat
    BY <1>3, <2>1
  <2>3. OpenOn(shown[t], "asking", left[t] - 1)
    BY <1>1, <2>1 DEF OpenOn
  <2>4. ScreenInv'
    BY <1>2, <1>4, <2>1, <2>2, <2>3, AskingStep
  <2>5. QED
    BY <2>1, <2>4
<1>8. CASE LaterAnswer(t)
  <2>1. PICK answer \in {lastBlock, Unknown} :
           /\ shown' = [shown EXCEPT ![t] = IF Complete(answer) THEN answer ELSE shown[t]]
           /\ left' = [left EXCEPT ![t] = AsksOn(answer, left[t])]
           /\ PaintedEarly(t, IF Complete(answer) THEN answer ELSE Unknown)
    BY <1>8 DEF LaterAnswer
  <2>2. phase[t] = "asking" /\ phase' = [phase EXCEPT ![t] = "painted"]
        /\ UNCHANGED <<rulesVars, background, at, grant>>
    BY <1>8 DEF LaterAnswer
  <2>3. ~ Complete(shown[t])
    BY <1>1, <2>2 DEF OpenOn
  <2>4. AsksOn(answer, left[t]) \in Nat
    BY <1>3 DEF AsksOn
  <2>5. CASE Complete(answer)
    <3>1. shown' = [shown EXCEPT ![t] = answer] /\ PaintedEarly(t, answer) /\ AsksOn(answer, left[t]) = 0
      BY <2>1, <2>5 DEF AsksOn
    <3>2. OpenOn(answer, "painted", AsksOn(answer, left[t])) /\ answer \in Context
      BY <1>3, <3>1 DEF OpenOn
    <3>3. ScreenInv'
      BY <1>5, <2>1, <2>2, <2>4, <3>1, <3>2, AskingStep
    <3>4. shown'[t] = answer /\ \A s \in Tabs \ {t} : shown'[s] = shown[s]
      BY <1>1, <3>1 DEF ScreensTyped
    <3>5. QED
      BY <2>3, <2>5, <3>3, <3>4
  <2>6. CASE ~ Complete(answer)
    <3>1. shown' = [shown EXCEPT ![t] = shown[t]] /\ crossed' = crossed
      BY <2>1, <2>6 DEF PaintedEarly
    <3>2. OpenOn(shown[t], "painted", AsksOn(answer, left[t]))
      BY <2>3 DEF OpenOn
    <3>3. ScreenInv'
      BY <1>2, <1>4, <2>1, <2>2, <2>4, <3>1, <3>2, AskingStep
    <3>4. shown' = shown
      BY <1>4, <3>1
    <3>5. QED
      BY <3>3, <3>4
  <2>7. QED
    BY <2>5, <2>6
<1>9. CASE Touch(t)
  <2>1. /\ left' = [left EXCEPT ![t] = 0]
        /\ UNCHANGED <<rulesVars, background, at, phase, shown, grant, crossed>>
    BY <1>9 DEF Touch
  <2>2. \A s \in Tabs : left'[s] = left[s] \/ left'[s] = 0
    BY <1>1, <2>1 DEF ScreensTyped
  <2>3. AskingIsOpen'
    BY <2>1, <2>2 DEF ScreenInv, AskingIsOpen, OpenOn
  <2>4. ScreensTyped' /\ NotesAreOwn'
    BY <2>1 DEF ScreenInv, ScreensTyped, NotesAreOwn, Stopped, background
  <2>5. GrantsTyped' /\ PromisesHonoured'
    BY <2>1 DEF ScreenInv, rulesVars, GrantsTyped, Asked, PromisesHonoured
  <2>6. QED
    BY <2>1, <2>3, <2>4, <2>5 DEF ScreenInv
<1>10. QED
  BY <1>6, <1>7, <1>8, <1>9

(* The handler overwrites the note: for the screens nothing else reaches,  *)
(* with their own navigation.                                              *)
LEMMA NoteKeeps == ASSUME ScreenInv, NEW u \in Visited, NoteBlock(u) PROVE ScreenInv' /\ UNCHANGED screens
<1>1. u \in noting /\ noting' = noting \ {u} /\ UNCHANGED <<rulesVars, screens, grant, crossed>>
  BY DEF NoteBlock
<1>2. PICK named \in BOOLEAN : lastBlock' = [url |-> u, named |-> named]
  BY DEF NoteBlock
<1>3. lastBlock' \in Context /\ lastBlock'.url = u
  BY <1>2 DEF Context, Note
<1>4. UNCHANGED <<trusted, installed, refresh, at, phase, left, shown>>
  BY <1>1 DEF rulesVars, screens
<1>5. ScreensTyped' /\ AskingIsOpen'
  BY <1>1, <1>3, <1>4 DEF ScreenInv, ScreensTyped, AskingIsOpen
<1>6. NotesAreOwn'
  BY <1>1, <1>3, <1>4 DEF ScreenInv, NotesAreOwn, NotesOwn, Stopped
<1>7. GrantsTyped' /\ PromisesHonoured'
  BY <1>1, <1>4 DEF ScreenInv, GrantsTyped, Asked, PromisesHonoured
<1>8. QED
  BY <1>1, <1>5, <1>6, <1>7 DEF ScreenInv

(* The worker stops: an answer that has come stays with its page.          *)
LEMMA StopKeeps == ASSUME ScreenInv, Stop PROVE ScreenInv' /\ UNCHANGED screens
<1>1. UNCHANGED <<trusted, installed, screens, crossed>> /\ lastBlock' = Unknown /\ noting' = {}
      /\ refresh' = [j \in Jobs |-> Idle]
      /\ grant' = [t \in Tabs |-> IF grant[t].stage = "replied" THEN grant[t] ELSE NoGrant]
  BY DEF Stop
<1>2. UNCHANGED <<at, phase, left, shown>>
  BY <1>1 DEF screens
<1>3. ScreensTyped' /\ AskingIsOpen'
  BY <1>1, <1>2 DEF ScreenInv, ScreensTyped, Context, AskingIsOpen
<1>4. NotesAreOwn'
  BY <1>1, <1>2 DEF ScreenInv, NotesAreOwn, NotesOwn, Stopped
<1>5. \A t \in Tabs : refresh'[t] = Idle
  BY <1>1 DEF Jobs
<1>6. GrantsTyped'
  BY <1>1, <1>5, NoGrantFacts DEF ScreenInv, GrantsTyped
<1>7. PromisesHonoured'
  <2>1. ASSUME NEW t \in Tabs PROVE Honours(grant'[t], Idle, trusted, installed)
    <3>1. CASE grant[t].stage = "replied"
      <4>1. Honours(grant[t], refresh[t], trusted, installed)
        BY DEF ScreenInv, PromisesHonoured
      <4>2. QED
        BY <1>1, <3>1, <4>1, NoGrantFacts DEF Honours
    <3>2. CASE grant[t].stage # "replied"
      BY <1>1, <3>2, NoGrantFacts, NotHonouring
    <3>3. QED
      BY <3>1, <3>2
  <2>2. QED
    BY <1>1, <1>5, <2>1 DEF PromisesHonoured
<1>8. QED
  BY <1>1, <1>3, <1>4, <1>6, <1>7 DEF ScreenInv

LEMMA ScreenInvStep == ScreenInv /\ [ScreenNext]_screenVars => ScreenInv'
<1> SUFFICES ASSUME ScreenInv, [ScreenNext]_screenVars PROVE ScreenInv'
  OBVIOUS
<1>1. CASE UNCHANGED screenVars
  <2>1. UNCHANGED <<trusted, installed, refresh, lastBlock, noting, at, phase, left, shown, grant, crossed>>
    BY <1>1 DEF screenVars, rulesVars, background, screens
  <2>2. ScreensTyped' /\ AskingIsOpen' /\ NotesAreOwn'
    BY <2>1 DEF ScreenInv, ScreensTyped, AskingIsOpen, NotesAreOwn, Stopped
  <2>3. GrantsTyped' /\ PromisesHonoured'
    BY <2>1 DEF ScreenInv, GrantsTyped, Asked, PromisesHonoured
  <2>4. QED
    BY <2>2, <2>3 DEF ScreenInv
<1>2. ASSUME NEW t \in Tabs, Screen(t) PROVE ScreenInv'
  BY <1>2, AskingKeeps, ContinueKeeps, FollowKeeps DEF Screen
<1>3. QED
  BY <1>1, <1>2, NavigateKeeps, NoteKeeps, RulesStepKeeps, StopKeeps DEF ScreenNext

(* Whom "continue" was answered for and with which rules in force, and     *)
(* whose note a screen holds, whatever other tabs, the owner and the       *)
(* browser do between answer and page.                                     *)
THEOREM ScreenInvAlways == ScreenSpec => []ScreenInv
<1>1. QED
  BY ScreenInvInit, ScreenInvStep, PTL DEF ScreenSpec

-----------------------------------------------------------------------------
(* A screen never loses an answer and shows its own address, and           *)
(* "continue" opens the page, for any tabs, listings, rules and refreshes: *)
(* settleContext of context.ts, onBlocked, allowBlocked and                *)
(* refreshBlockRules of background/index.ts, replaceRules of adapter.ts.   *)
THEOREM ScreenAlwaysKeepsItsWord == ScreenSpec => ScreenKeepsItsWord
<1> DEFINE Better == \A t \in Tabs : Stopped(t) /\ phase[t] # "unpainted" /\ phase'[t] # "unpainted" =>
                        /\ shown[t] # Unknown => shown'[t] # Unknown
                        /\ Complete(shown[t]) => shown'[t] = shown[t]
           Opens == \A t \in Tabs : Follow(t) /\ ~ grant[t].spoilt /\ Stopped(t)' =>
                        \E r \in installed : r.listing.path # NoPath /\ Blocks(r, grant[t].url)
<1>1. ASSUME ScreenInv, ScreenNext PROVE Better
  <2> SUFFICES ASSUME NEW t \in Tabs, phase[t] # "unpainted", phase'[t] # "unpainted"
               PROVE  /\ shown[t] # Unknown => shown'[t] # Unknown
                      /\ Complete(shown[t]) => shown'[t] = shown[t]
    OBVIOUS
  <2>1. ASSUME NEW s \in Tabs, NEW u \in Visited, GoesTo(s, u) PROVE shown'[t] = shown[t]
    BY <1>1, <2>1, GoesToKeeps
  <2>2. ASSUME NEW s \in Tabs, Screen(s)
        PROVE  shown'[t] = shown[t] \/ (~ Complete(shown[t]) /\ Complete(shown'[t]))
    <3>1. CASE Follow(s)
      BY <1>1, <2>1, <3>1, FollowKeeps DEF Follow
    <3>2. CASE Continue(s)
      BY <1>1, <3>2, ContinueKeeps
    <3>3. CASE FirstAnswer(s) \/ AskAgain(s) \/ LaterAnswer(s) \/ Touch(s)
      BY <1>1, <3>3, AskingKeeps
    <3>4. QED
      BY <2>2, <3>1, <3>2, <3>3 DEF Screen
  <2>3. shown'[t] = shown[t] \/ (~ Complete(shown[t]) /\ Complete(shown'[t]))
    <3>1. CASE \E s \in Tabs, u \in Visited : Navigate(s, u)
      BY <2>1, <3>1 DEF Navigate
    <3>2. CASE \E s \in Tabs : Screen(s)
      BY <2>2, <3>2
    <3>3. CASE \/ \E u \in Visited : NoteBlock(u)
               \/ \E s \in Tabs : RecordException(s) \/ AllowFails(s)
               \/ \E o \in Others : RefreshElsewhere(o) \/ OtherFails(o)
               \/ \E j \in Jobs : Refresh(j)
               \/ Stop
      <4>1. UNCHANGED screens
        BY <1>1, <3>3, NoteKeeps, RulesStepKeeps, StopKeeps
      <4>2. QED
        BY <4>1 DEF screens
    <3>4. QED
      BY <1>1, <3>1, <3>2, <3>3 DEF ScreenNext
  <2>4. Complete(shown'[t]) => shown'[t] # Unknown
    BY DEF Complete
  <2>5. QED
    BY <2>3, <2>4
<1>2. ASSUME ScreenInv PROVE Opens
  <2> SUFFICES ASSUME NEW t \in Tabs, Follow(t), ~ grant[t].spoilt, Stopped(t)'
               PROVE  \E r \in installed : r.listing.path # NoPath /\ Blocks(r, grant[t].url)
    OBVIOUS
  <2>1. grant[t].url \in Visited /\ GoesTo(t, grant[t].url) /\ grant[t].stage = "replied"
    BY <1>2, FollowKeeps DEF Follow
  <2>2. PICK r \in installed : Blocks(r, grant[t].url)
    BY <1>2, <2>1, GoesToKeeps DEF Stopped
  <2>3. Spares(r, grant[t].url.host)
    BY <1>2, <2>1 DEF ScreenInv, PromisesHonoured, Honours
  <2>4. r.listing.path # NoPath
    BY <2>2, <2>3, SparedOpens
  <2>5. QED
    BY <2>2, <2>4
<1>3. ScreenInv => ShowsItsOwn
  BY DEF ScreenInv, NotesAreOwn, NotesOwn, ShowsItsOwn
<1>4. ScreenInv /\ [ScreenNext]_screenVars => [Better]_screenVars
  BY <1>1
<1>5. ScreenInv /\ [ScreenNext]_screenVars => [Opens]_screenVars
  BY <1>2
<1>6. ScreenKeepsItsWord <=> [][Better]_screenVars /\ [][Opens]_screenVars /\ []ShowsItsOwn
  BY DEF ScreenKeepsItsWord, NeverAWorseAnswer, ContinueOpensThePage
<1> HIDE DEF Better, Opens
<1>7. QED
  BY <1>3, <1>4, <1>5, <1>6, ScreenInvAlways, PTL DEF ScreenSpec

=============================================================================
