# Okolos in TLA+

Okolos is a browser extension (with a mail command line and a small proxy) that
warns about hostile pages and blocks known phishing pages on the device itself.
These modules model its control: the order in which things happen, what fails
half-way, what is read before an await and used after it. TLC checks them on
small instances, and TLAPS proves what matters most for every value of the
constants. Paths are relative to the repository; `bg/` stands for
`apps/extension/src/background/`, `content/` and `options/` for the directories
of that name beside it, other short names for `packages/`.

To check a run of section 4: `tlc -config <its cfg> <its module>`. To prove:
`tlapm BlockingFeed_proofs.tla`, and the other `*_proofs.tla`.

## 1. Inventory

The extension has three kinds of process. The **background worker** is one
event loop the browser stops after about thirty seconds of quiet and starts
again on the next event: everything it must remember is in IndexedDB, in
`storage.local` or in the browser's dynamic rules. A **content script** lives in
every frame of every page; it asks the worker by message and draws in-page
panels. **Extension pages** (options, popup, block screen) ask the worker too,
and open the database themselves. None of the asynchronous handlers hold a lock:
whatever two of them do overlaps at every `await`. Outside the browser stand a
**proxy** with one table of appeals and one of listings, and the **tools** that
make, sign and publish the blocklist.

| Component | State | Operations | Hard behaviour | What makes it correct |
|---|---|---|---|---|
| Blocking feed (`bg/index.ts`, `feed-sync.ts`, `feeds.ts`, `core-feeds/apply.ts`) | the feed row, the trusted hosts, the last attempt, the browser's rules | pull, verify, store; refresh; allow, trust, revoke; alarm; wipe | two pulls race; a refresh installs what it read long ago; stops at any await | only what the publisher signed is stored and enforced; a failure never switches protection off; the rules follow the store in the end |
| Block rules (`core-feeds/rules.ts`, `lookup.ts`) | none | build rules; match an address | two pieces of code decide "is it listed" | what is stopped, named and trusted agree |
| Block screen (`bg/index.ts`, `interstitial/`) | `lastBlock`, the screen's context | note, ask, ask again, repaint, continue | one note for all tabs, restarts | a screen never loses an answer; "continue" opens the page |
| Egress (`net/request.ts`, `bg/audit-space.ts`) | the outbound log | audit, refuse, send, audit the failure, sweep | order of row and request, a full device, a wipe between | nothing leaves without its row; one story per request |
| Agent gate (`content/agent-gate.ts`, `core-gate/`, `content/index.ts`, `ui/gate/`) | findings, the panel, held actions, timers | scan, intercept, ask, answer, expire, replay | several actions, one panel, timers nothing cancels, late scans | every held action is decided; a question stands over a held action; only a person stands the gate down |
| Surface slot (`content/surface-slot.ts`, `keep-surface.ts`) | holder, kinds behind it, the watch | claim, displace, release, re-mount | six modules share a panel the page removes | the worst finding is on screen and tells of the rest |
| Password verdicts (`bg/password.ts`, `pending-password.ts`, `core-credential`) | one verdict per tab, the reuse index and its key | check, hold, push, ask, receipt | the page that asked is gone; two submissions, one key | a verdict is shown or expires; a tag can be found again |
| Collector, sanitiser (`content/collect.ts`, `sanitize.ts`, `core-sanitizer`) | what was taken out, by element | walk, name, empty, restore | ceilings; the page moves under the plan | nothing is missed in silence, nothing lost, nothing put back beside new writing |
| Scan pacing and journal (`content/pace.ts`, `fail-open.ts`, `journal-once.ts`) | recent scans, one timer, keys written | request, fire, answer, record | bursts, answers overtaking, lost answers | a change is examined, a fact recorded once |
| Frame reports (`content/report-frame.ts`) | attempts | relay, retry, give up | the embedding page is not listening yet | heard, or noted as unheard |
| Page watch (`page-watch/index.ts`, `bg/page-requests.ts`) | armed or not, the rows | wrap, observe, record | a world the page owns; rows of one millisecond | the record is what was requested |
| Detection (`core-injection`, `bg/index.ts`) | none | characters, patterns, bands, policy, classifier | rules that interact | an edit rests on evidence; hiding more is not judged milder |
| Extension inventory (`bg/extensions.ts`, `core-extensions`) | baseline, journalled changes | compare, accept, journal | a baseline written row by row, overlapping readings | old is not new; agreed is silent |
| Downloads (`bg/downloads.ts`, `core-download`) | none | judge, cancel, journal, announce | the file lands meanwhile | stopped before told; a verdict nobody saw is noted |
| Storage connection (`storage/db.ts`) | the handle, the connections | open, upgrade, close, reset | two openers, blocked upgrades | the handle is live, a reset ends |
| Export and wipe (`storage/export.ts`, `ui/settings/data-controls.ts`) | stores, the section on screen | confirm, clear, retry, export | stores cleared one by one while others write | the screen says what was done, once |
| Sites (`core-lookalike`, `bg/index.ts`, `content/lookalike.ts`, `credential.ts`) | first-seen days, trust | judge a name, remember, trust | two documents ask at once, a sweep | trust frees what it names; a site met is not new |
| Leak lookups (`bg/leaks.ts`, `core-leaks`, `options/`) | the panel | ask each source, merge | a silent or refusing source | unknown is not reported as none |
| Queue, popup, options (`core-queue`, `popup/`, `options/`) | findings, deferrals, the view | rank, load, press, repaint | loads and repaints overlap presses | the screen settles on what was last asked |
| Messages (`platform/adapter.ts`, `contracts`) | calls and their timers | send, answer, time out | dropped messages, a worker stopped in a handler | an answer can be relied on, every call ends |
| Local model (`model/`, `bg/inference.ts`) | the cache, the host | consent, fetch, pin, prepare | two fetches of two versions | nothing unpinned runs |
| Appeals (`apps/proxy/`) | the appeals | count, find, insert, sweep | handlers overlap between the three | once on file, within the budget |
| Feed publishing (`tools/*.mjs`, `apps/proxy/`) | the file, the rows, the listings | ingest, sign, publish, answer | deltas, paths, versions refused | the public status says what browsers do |
| Traps, mail, pack and deploy scripts, words, layout | none | | pure functions and one-shot scripts | not modelled, see section 6 |

Components meet in few places: `egress` carries the feed's pull, the password
check, the leak lookup and the reports; the block screen reads the feed and
writes the exceptions; a page's frames talk to their top frame through the
worker; five sources claim the one panel; and the sweep and the wipe reach into
every store while the others work. Where two components share state, one module
has both sides: the feed and the user's exceptions in `BlockingFeed`, the screen
and its feed in `BlockScreen`, the scans and the gate in `AgentGate`, the scans
and their journal in `ScanPace`, the worker's verdict and the page's slot in
`PasswordVerdict`, the index and the wipe in `ReuseIndex`, the popup and the
store in `OwnerQueue`, the tools, the tables and the proxy in `Publishing`.

The hazards of each component, at the line where they bite and with the property
that watches over them, are in `PROJECT.json`.

## 2. Modules

| Module | Models | Checked in | Proofs |
|---|---|---|---|
| `FeedUpdate` | `apply.ts`: signature, version, replay, base, snapshot and delta | `blocking_feed` | yes |
| `BlockRules` | `rules.ts`, `lookup.ts`, and how the browser applies a rule | three runs | yes |
| `BlockingFeed` | the pipeline, job by job and await by await | `blocking_feed` | yes |
| `FeedConvergence` | its actions in a calm environment, from any rules left behind | `feed_convergence` | |
| `RuleSemantics` | what the rules stop against what the feed names | `rule_semantics` | yes |
| `BlockScreen` | several tabs, the shared note, the screens, "continue" | `block_screen` | yes |
| `OutboundLedger` | the abstract promise of `request()`: one story per request | refined by `Egress` | yes |
| `Egress` | `request()`, the audit row, a full device, sweeps, the wipe | `worker_parts` | yes |
| `AgentGate` | one frame: scans, findings, the gate, the person | `agent_gate` | yes |
| `SurfaceSlot` | the one warning panel, its watch, its sources, the page | `surface_slot` | yes |
| `PasswordVerdict` | a leak verdict in one tab across its documents | `password_verdict` | yes |
| `Collector`, `Sanitiser`, `ScanPace` | the walk; the edit and its undoing; how often, and what becomes of it | `page_parts` | yes |
| `FrameRelay`, `PageWatch` | a frame's report; the record of a watched page | `page_parts` | yes |
| `Injection` | the judgement of a hidden text: its characters, then its patterns | `page_parts` | yes |
| `OptionsPage` | routes, serialised repaints, controls, checklist | `page_parts` | yes |
| `Inventory`, `Downloads` | the other extensions; a download judged while it lands | `worker_parts` | yes |
| `Database`, `ReuseIndex` | connections; the keyed index of reused passwords | `worker_parts` | yes |
| `LeakLookup`, `Messages`, `ModelStore` | leak checks; calls to the worker; the optional classifier | `worker_parts` | yes |
| `OwnerQueue`, `WipeControls` | the popup's queue; wiping and exporting | `owner_parts` | yes |
| `SiteGuard`, `Appeals`, `Publishing` | judging a site; the service's table; making and publishing the feed | `owner_parts` | yes |
| `MCPage`, `MCWorker`, `OwnerScreens` with `MCOwner` | the parts above side by side, with the sets they are examined over | | |
| other `MC*` | the instances of the modules they are named after | | |

How state and actions correspond to the code:

* **BlockingFeed.** A *job* is one running async function: the start's refresh
  and pull, the alarm's pull, and the handlers of the user's decisions. `pc[j]`
  names the await it stands at; `upd`, `base`, `rules`, `seen` are its locals.
  `feed`, `exceptions`, `attempted` are rows of IndexedDB and `installed` the
  browser's dynamic rules: they survive `Stop`, the locals do not. `Fetch` may
  answer with any update there ever was, signed or not, newer or older. `Fail`
  may end any job at any await, keeping what was written. `updateDynamicRules`
  is atomic and fails whole when an id is taken, which is how the code uses it;
  `getDynamicRules` before it is a separate await, which is where refreshes mix.
* **BlockRules.** An entry is a host and a path, an address has a spelling besides:
  `normaliseEntry` takes a port or a trailing dot away (`Reduced`), the browser
  compares them with the rule (`ReachesSpelling`). How hosts and paths relate (`www` is
  under `shop`, `pay/2` below `pay`, `paydesk` merely begins with it, `x.shop`
  merely ends with a host's name) is a set of constants, so the difference
  between the prefix match of the urlFilter and the segment match of `matchUrl`
  is kept without any string. `Rank` is the feed's order, `RuleLimit` the ceiling.
* **BlockScreen.** `noting` holds the handlers between reading the feed and
  writing `lastBlock`; `crossed` is history: the screens another navigation's note
  may reach. `refresh` is `refreshBlockRules` of every "continue" and of one other
  caller, each await a step, over one feed. A `grant` whose promise may have been
  undone before its page acts on it is `spoilt`, at the step that undoes it. The row
  a cut rule set leaves in the journal is left out, and with it that row's failure.
* **Egress.** `log` is the store, `aged` the rows a sweep may take, `other` the
  room of the remaining stores; `left` and `cleared` are history.
* **AgentGate.** A task with its microtasks is one step. `gate` is the handle
  `closeGate` destroys, `panels` what is in the document: the defect B-123 was
  their parting. `timers` is the queue of deadlines, all of one length; one is
  set for **every** held action, including those decided at once.
* **SurfaceSlot.** A panel is its number in the order of mounting. `holder`,
  `severity`, `panel` are `held` of `surface-slot.ts`; `stopped`, `busy`,
  `removals`, `escalated` are the watch of each panel, which outlives the slot's
  interest in it by one gap. A mutation callback belongs to the step that caused
  it (`React`). `Resolving` sources close through `resolveEverything`, which
  releases the slot, `SelfClosing` ones destroy the handle they were given. The
  page may take panels out as often as it likes; it does not put them back.
* **PasswordVerdict.** `stage[v]` is the await at which the check of a submission
  stands; `held` the tab's record in `storage.local`, `old` that its minute is
  over, `question[d]` what document `d` asked as it started. `own`, `behind` and
  `dwells` are the timers of `claimPasswordBanner`, which run whatever the slot
  answered; `drawn` is the mark on the panel. A claim told, a banner that stood for
  its dwell (`seen`) and one that was refused or taken down early (`crowded`) are
  three histories: the receipt goes out for all of them.
* **Collector.** A page is a number of comments and a sequence of elements, each
  a sequence of carriers. The two walks share the ceilings; the clock may end
  either at any node, but not between two carriers of one element, where the code
  does not look at it: each carrier is a step of its own.
* **Sanitiser.** Elements are siblings of one tag, named by id or by place, as
  `locatorFor` names them; the plan is applied to the page as it has become. A
  detached element still held is let go at a restore, which is why
  `NothingDestroyed` stops there; `comment()` resolves to no element.
* **ScanPace.** Ticks of one debounce; several scans may be with the worker, and
  answer in any order, fail, or lose their answer. `failOpen` and the journal of
  each scan are part of it.
* **FrameRelay.** Twelve tries, each two hops; the page may load or reload
  meanwhile; an answer may be lost on its way back, and the note of the frame that
  gave up may be refused.
* **PageWatch.** The wrapped `fetch` and XMLHttpRequest post to a channel the page
  can write to as well; messages come in order, the worker's handlers interleave.
  Every step may fail, and its failure is swallowed where it happens: `open` throws
  after what it was called with was noted, the browser refuses what was told, the
  report's post throws, the message, the handler's reading or the row fails.
  Row ids are host and millisecond, which is why two requests of one millisecond
  are one row.
* **Injection.** Its first half reads a text of classes of characters one by one
  with the stack of open runs (`Reading`, a recursive function); in its second half
  a text is the set of the patterns it matches. Signals, families, bands and policy are modelled;
  the regular expressions are not. Comments share the locator `comment()`.
* **OptionsPage.** One chain of repaints, each with what it read before it drew;
  controls keep what their drawing had read. Every read and write may fail.
* **Inventory.** A reading is compared with the snapshots; the very first one
  writes them row by row and may be stopped in between; readings may overlap.
* **Downloads.** The verdict over name, type and address; the file lands, the
  feed moves and the worker stops at will; the page answers or does not.
* **Database.** Two contexts of one build and a page of the build before, two
  callers each; IndexedDB serves in order and waits for open connections.
* **ReuseIndex.** One tag per password and key; the wipe clears the key's store
  before the index's, as `STORES` lists them.
* **LeakLookup.** Two sources asked one after the other under a deadline of their
  own; a refusal may have a body; two checks may be under way.
* **Messages.** A call, its timer, and the handler in a worker that may be stopped
  in it; the browser may drop either message; the worker may be of a newer build
  after a restart. `inference/score` is answered by nobody without an offscreen
  document.
* **ModelStore.** Two managers (two versions) over one cache, consent per fetch, a
  digest that may not match, and the host that prepares while pages ask.
* **OwnerQueue.** The popup's loads are not serialised; a press names what was
  drawn; closing stamps the last look. `Weight` and `Ease` are what `rank.ts` sorts by.
* **WipeControls.** Two of the nine stores (all are treated alike), with the rows
  that matter to each other. A section has a number: going elsewhere and back
  replaces it. An export is one read per store, not a snapshot.
* **SiteGuard.** A host is a sequence of labels, decoded when it is the one visited
  and as the browser holds it when it is compared with, as `check.ts:42-48` does;
  suffixes, confusables, near pairs and login words are constants. `siteFacts` reads
  and writes in two awaits.
* **Appeals.** Three queries per request, each of which may fail, over one table.
* **Publishing.** The ingest's file, the published rows, the listings table and
  what an up-to-date browser holds; updates come from an ingest or by hand.

## 3. How the properties are stated

Each part states its properties one by one, with the sentence of the code they
are about, and then collects the invariants of the part under one name, its
promise, whose first conjunct is the part's type invariant (`SignedOnly` of the
feed, `OutboundInOrder` of egress, `AppealsAreOnFile` of the appeals ...). The
runs check the promises; a counterexample names the state, and the conjunct it
fails is read off it. Action properties and liveness are collected likewise
where they ask one question (`NothingGoesEarly`, `PageSettles`, `WorkerAnswers`).
Many say "... unless", followed by the overlap that breaks them: a history
variable (`crossed`, `doubled`, `ensuredTwice`, `blind` ...) records that overlap
and nothing else, so that the property is the exact extent of the race, and any
other way to break it is an error.

## 4. Runs

| Run (cfg, module) | Instance and bounds | Checks |
|---|---|---|
| `blocking_feed` (`MCBlockingFeed.cfg`, `MCBlockingFeed`) | three hosts, a listing with a path, versions 1-2 and an unusable one, one site decided about, ceiling of two rules; two jobs interleaving at any await, or one running while two stand at their first | `SignedOnly` (type, `FeedAsPublished`, `OnlySignedBlocks`), `RequestsPerWindow`, `LoweredOnlyByStaleRead`, `NeverDisarmed` |
| `feed_convergence` (`MCFeedConvergence.cfg`, `MCBlockingFeed`) | two hosts, three versions, every rule set an earlier life can have left | `FeedConverges`: `RulesComeIntoForce`, `FeedSettles` |
| `rule_semantics` (`MCRuleSemantics`) | four hosts on three levels, five paths, three spellings, five listings, every feed over them and every set of trusted hosts, ceiling of three | `RulesMeanTheFeed` (`NumberedApart`, `ListedIsStopped`, `StoppedIsNamed`, `BareTrustHonoured`), `TrustIsLocal` |
| `block_screen` (`MCBlockScreen`) | two tabs and one other caller of a refresh, three listings, two addresses, one repeated question; two things under way at once | `ScreenKeepsItsWord`: `NeverAWorseAnswer`, `ContinueOpensThePage`, `ShowsItsOwn` |
| `agent_gate` (`MCAgentGate.cfg`, `AgentGate`) | two actions, two overlapping scans | `QuestionsAreOfTheHeld` (`PanelAsksOfTheHeld`, `HeldHasDeadline`), `FlagStandsUntilResolved`, `HeldIsDecided` |
| `surface_slot` (`MCSurfaceSlot.cfg`, `SurfaceSlot`) | a source of each way to claim and close, three panels | `OnePanelTellsAll` (`OnlyTheHolderIsDrawn`, `PanelHoldsTheWorst`, `EveryClaimIsTold`), `RemovalIsAnswered` (`PutBackOrTold`, `TheWarEnds`) |
| `password_verdict` (`MCPasswordVerdict`) | two submissions with two marks, two documents | `FreshLeavesOnlySeen`, `VerdictIsSeen` (`ReachesTheDocument`, `OnlyVerdictIsSeen`) |
| `page_parts` (`MCPage`) | see below | `ScanMissesNothing`, `NothingIsLost`, `RestoreIsHonest`, `ChangesAreExamined`, `ReportsAreHeard`, `RequestsAreOnRecord`, `DetectionIsEarned`, `ScreenIsCurrent`, `PageSettles` |
| `worker_parts` (`MCWorker`) | see below | `ChangesAreToldOnce`, `AgreedIsSilent`, `FilesAreStoppedAndTold`, `HandlesAreSound`, `IndexIsHonest`, `OutboundInOrder`, `KeepsTheLedger`, `AnswerIsEverySources`, `OnlyAgreedModels`, `WorkerAnswers` |
| `owner_parts` (`MCOwner`) | see below | `QueueIsCurrent`, `WipeSaysWhatItDid`, `SitesAreJudgedFairly`, `AppealsAreOnFile`, `StatusIsTrue`, `NothingGoesEarly` |
| `dismissed_returns` (`MCDismissedReturns.cfg`, `SurfaceSlot`), `refusal_as_nothing` (`MCLeakRefusal.cfg`, `LeakLookup`) | the instances above; one leak check | that a sentence of the code does not hold, see *Findings* |

Where the cfg has no module of its own name, the module is the one given.

**Side by side.** `page_parts`, `worker_parts` and `owner_parts` each hold several
components that share no state a property of another is about. The variable
`part` says which of them moves in a behaviour; the others stand at their initial
state. The states of a run are then the sum of the parts' states and not their
product, every part is explored in full over its own bounds, and nothing is
claimed about their composition: where two components do interact, one module
models both (section 1).

Why the bounds are enough for what the runs ask:

* *Feed.* A lost update needs two pulls and a version for each to write; a mixed
  rule set two refreshes, with the user as either of the two. A version more
  repeats the step from one to the next, which the proofs cover for every number.
* *Screens, gate, slot, verdicts.* Two tabs share one note. A promise is undone by one
  other refresh, so that two things under way at once (navigations to note, repeated
  questions, grants, refreshes from elsewhere) reach every way `spoilt` and `crossed`
  name; without either of them the run finds its property violated. The listing on the
  subdomain itself lets the number of rules change. Two held actions are
  what it takes for one's deadline to meet the other's question, two scans for an
  answer after the person's. Three panels let one be displaced during its gap and
  its successor too. Two documents are the one that asks and the one its
  submission leads to.
* *Collector:* pages of up to three elements of five shapes and 0, 1, 3 or 7
  comments, against a ceiling of eight nodes and six candidates: each ceiling is
  reached by comments, by elements, and by both. *Sanitiser:* three elements, two
  of one id and one without, two plans, two restores, three moves. *ScanPace:* a
  window of four ticks, two scans in it, three changes and one cause. *FrameRelay:*
  all twelve attempts, two reloads. *PageWatch:* three calls (requests,
  forged posts, armings) in two milliseconds, `open` as often as it likes.
* *Injection:* every text of three characters over all classes, five over the
  runs and over the tag sequences, three honest units joined; every
  consistent set of up to four patterns, pages of up to three places, room for one
  scored text. *OptionsPage:* two areas and the checklist, three presses, two steps.
* *Inventory:* two extensions, two readings at once, a new install and an old
  profile, one stop. *Downloads:* every name and type, two moves of the feed.
  *Database:* four opens over two builds. *ReuseIndex:* two submissions, three
  passwords, one wipe, one stop. *Egress:* two requests of any kind, one old row,
  room for three, which lets each write both rows only after room was made.
  *LeakLookup, Messages, ModelStore:* two of each, which is one overlap.
* *OwnerQueue:* two items, one shown, two loads. *WipeControls:* two wipes, one
  export, two sections. *SiteGuard:* two names watched and eight hosts (worn in front of
  another's domain and a host beneath that, a country's own, an ending mistyped, a
  login word, one edit away, one that renders as another and a host beneath it), two
  interchangeable documents, three days against limits of one. *Appeals:* three requests, a budget of one. *Publishing:* seven
  entries, a subdomain of one host, three versions, two days.

`CHECK_DEADLOCK FALSE` is said where the system may stop: when no job, request,
timer, press or question is left.

**Fairness.** `FeedConvergence` assumes that an await that is answered lets its
job run on (WF on each job), that a page eventually starts the worker (WF), and
that thirty seconds of quiet stop it even if an alarm keeps it busy now and then
(SF on stopping). In that calm environment the user decides nothing and nothing
fails; it is the strongest statement true of the code, whose only remedy for a
stale rule set is the refresh of the next start. `AgentGate` assumes only that a
timer fires (WF on `Expire`), `SurfaceSlot` the same of the timers of its watches
(WF on each `GapOver`); nothing is owed by the page or the person.
`PasswordVerdict` assumes that as long as something is under way some of it
happens: one WF on their disjunction, which is enough because each step uses
something up. `ScanPace` assumes that time passes and an expired timer fires,
`FrameRelay` that its timers fire and a hop taken ends (either way), `OptionsPage`
that the chain of repaints is taken up and its reads end (either way), `Database`
that the browser serves its queue and runs a context's callbacks, `LeakLookup` that
a deadline passes, the inventory arrives and the page paints, `Messages` only that
a deadline passes. In the side-by-side runs these conditions are on the steps of
their own part. Nothing else is assumed fair: no server, no page and no person has
to answer, and the worker may be stopped wherever its part lets it.

### Findings

Each is a sentence of the repository a run contradicts; `PROJECT.json` has the lines.

* *A dismissal is not a removal ... the caller stops the watch before it destroys*
  (`content/keep-surface.ts:30-33`): the credential, trap, download and lookalike
  panels destroy without stopping it; the panel comes back a quarter of a second
  after the press, and its buttons no longer find a handle.
* *One source failing ... must not be mistaken for that source having nothing to
  report* (`bg/leaks.ts:134-135`): `body.stealers ?? []` is read from any answer,
  so a refusal of the second source with a JSON body reads as "nothing found".

More divergences are kept in the models without a run of their own; each is where
the model says "unless":

* "Versions never go backwards": they do when two pulls read the same row and the
  one with the older answer writes last (`bg/feeds.ts:151`; `LoweredOnlyByStaleRead`
  says it is the only way). "Every rule replaced at once, never patched": two
  refreshes leave rules of two versions, because the ids are read in one call and
  removed in another (`platform/adapter.ts:281`). "How long a held action waits for
  a person": the deadline of an earlier action takes the panel of a later one down
  with it (`content/index.ts:911`; the later one still has its own deadline).
* `lastBlock` is one note for all tabs and every navigation overwrites it
  (`bg/index.ts:1081`), so that one tab can show, and "continue" trust, another's
  address, where `bg/index.ts:326-328` promises "unknown rather than guessed"
  (`ShowsItsOwn` has the exact extent).
* "Without a recorded exception the next visit is blocked again. Saying so beats
  sending the user back into a loop" (`bg/index.ts:419-420`): with one recorded it may
  be too. "Continue" is answered though the feed could not be read and nothing was
  installed (`bg/index.ts:345`), and a refresh that read the exceptions before may
  install its rules after the answer; nothing rebuilds them until something else does
  (`ContinueOpensThePage`).
* A listing with a path is not stopped on a port of its own, and nothing is on a host
  with a trailing dot, though `matchUrl`, which the block screen and the download check
  ask, names both (`rules.ts:90`, `lookup.ts:20-31`; `ListedIsStopped`).
* "The receipt waits for the panel to still be there after a moment"
  (`content/index.ts:568`), but the dwell is set before the claim: a banner that was
  refused or displaced is receipted too, and releases whatever the tab then holds.
* A listing with a path also stops subdomains of its host, for which no exception is
  looked up (`rules.ts:141`): `BareTrustHonoured` says how far trust reaches. And
  `scan()` returns before it fills the list of findings on a page that is clean
  (`content/index.ts:348`), so that an action there passes as "unread".
* "One carrier class must not be able to spend the whole allowance for all the
  others" (`content/collect.ts:97-99`): the data attributes of one element may, for
  the elements behind it; and comments that were cut short keep every data attribute
  of the page from being read (`collect.ts:155`, `:187`). The scan says it was cut
  short (`CompleteUnlessTruncated`); `ElementsNotStarved` says what is still read.
* "A silent give-up is the defect returning" (`content/report-frame.ts:40`): the note
  is one message, and where it is refused too (`report-frame.ts:75`) what the frame
  found reaches neither the page nor the journal (`HeardOrSaidSo`).
* "A page can turn the watcher on ... and has nothing to say about turning it off"
  (`page-watch/index.ts:38-40`): an `open` that throws leaves what it was called with
  noted (`page-watch/index.ts:147`), so that the next `send` of that request is
  reported under another method and host, or not at all; one `send` that the browser
  refuses is reported though nothing went out (`NothingMadeIsSilent`,
  `RecordedWasMade`).
* Losing "a tick": one pressed on a drawing older than another tick files the list
  without it (`options/index.ts:649`), and so may one pressed while an earlier write
  is under way (`TicksLostOnlyOnStale`). "A write that fails
  must ... say what happened" (`options/index.ts:1176`): another action that succeeds
  before the repaint clears the message. The options queue shows what was put off,
  which the popup hides, where `ui/queue/queue.ts:13-15` promises "the same three".
* "A key conflict here is that race ... the appeal is on file" (`router.ts:672`): the
  key is a random reference, so two requests that pass the look-up together are both
  inserted (`RepeatOnlyBlind`).
* "The audit entry ... is written before this line can be reached"
  (`net/request.ts:98-107`): the throw at a malformed address comes before any row.
* "A blocked download has already been cancelled by the time this runs"
  (`content/download.ts:14-15`): the browser was asked to; the file may have landed.
* "Unknown is not the same as new" (`bg/index.ts:919-922`): a failed look-up answers
  what a first visit answers. After `SeenKept` days a site used daily is new again,
  because its row keeps the first day.
* "The page an owner is sent to" (`publish-feed.mjs:71-74`) is asked about the host
  that was blocked (`appeal-link.ts:28-43`), and looks that very name up
  (`router.ts:395`, `:463`): the rules stop the subdomains of a listed host
  (`rules.ts:90`), so the owner of `www.` of one is blocked and told "not listed".
* "An exact match and any subdomain of a watched host pass silently"
  (`core-lookalike/check.ts:14-15`): only the visited host is decoded (`check.ts:42`),
  so a host beneath a trusted internationalised name is accused still
  (`TrustSilencesOnlyItself` has the exact extent).
* A delta that narrows a host to one of its paths un-lists the host on the status
  page, and a version the browsers refuse is accepted by the tables; one that swaps an
  entry of a host for another deletes the host's row before it inserts it again, under
  a new date (`listings.mjs:95`, against `listings.mjs:47-49`; `DateStands`).

## 5. Proofs

Proved by TLAPS for every value of the constants (any publisher, any number of
jobs, requests, calls, wipes and actions, any relation between hosts and paths).

* `BlockingFeed_proofs`: `TypeCorrect`, `FeedAlwaysPublished`,
  `OnlySignedAlwaysBlocks`, `NeverBelowSettledAlways`, `OnlyStaleReadsLower`, and
  together `SignedAlways`; `RequestsAreFew` and `NeverDisarmedAlways`. "What is stored was published" is not inductive: a delta
  is applied to the row a job read earlier, and rules are built from one. The
  invariant says of every job's locals what it says of the store, and that a job
  past its read has a row at least as new as the version in force when the worker
  started. The heart is a lemma about `apply.ts` alone: an accepted update yields
  the publisher's own list of a newer version. For the requests of a window the
  invariant counts those made and those still to come, apart for "an attempt is on
  record" and "not yet": a wipe may find two pulls under way and a start adds one. For
  disarming it says that a job about to install nothing built it from a version the
  user could excuse whole, because the first wanted listing always gets a rule; this
  needs a total order of the feed's entries and a ceiling above zero.
* `BlockRules_proofs`: `IdsAreDistinct`, `TypeAlways`, `NumberedAlwaysApart`, `ListedAlwaysStopped`,
  `StoppedAlwaysNamed`, `BareTrustAlwaysHonoured`, `TrustStaysLocal`, and together
  `RulesAlwaysMeanTheFeed`. The argument is about numbering: a later listing's
  position is larger, so trusting a host never pushes a listing beyond the ceiling.
  Assumed is only that the feed's order is total and the set of listings finite.
* `AgentGate_proofs`: `TypeCorrect`, `QuestionsAreLive`, `NothingWaitsForever`,
  `OnlyAPersonStandsDown`, `QuestionsStayOfTheHeld`. One panel at most, and its
  action held; every held action in the queue of deadlines. Two lemmas about
  appending to and taking from a queue carry the second.
* `SurfaceSlot_proofs`: `TypeCorrect`, `OnePanel`, `WorstHolds`, `EveryClaimTold`,
  together `OnePanelAlwaysTellsAll`. The first is not inductive without `OneWatch`:
  every panel but the held one is stopped or was never mounted. The last needs
  `Told`: the kinds behind the panel stand there once each and are those claimed but
  the holder, also while the panel is out of the document. Its lemmas say what
  pushing to and splicing from a list without duplicates does.
* `PasswordVerdict_proofs`: `TypeCorrect`, `LeavingLosesNothing`. The record is
  emptied by a receipt or by a question that found it too old; the invariant says
  that a dwell other than that of the banner on screen runs, and a receipt is under
  way, only after some banner stood, was pressed or was crowded out. The pagehide
  handler keeps the first half true across a navigation.

The parts that run side by side are proved about in three modules, one section a
part: its inductive invariant, a lemma per step that can disturb it, its theorems.

`Worker_proofs`:

* *Egress*: `NothingLeavesUnlogged`, `BlockedAlwaysStayed`, `FailedAlwaysSent`,
  `LogStaysTyped`, together `OutboundAlwaysInOrder`; and `LedgerKept`: **`Egress`
  implements `OutboundLedger`**. The refinement mapping reads the story of a request
  off history variables (rows ever written, calls ever made); each step of writing,
  retrying, sweeping, failing, wiping and stopping is one turn of one story or none.
  The invariant `StoryOf(r)` says at each await which rows exist or are being
  written and whether the request has left, without which a "failed" row might be
  written for a request that never went.
* *Messages*: `AnswersHold` (a page that was answered can rely on the work having
  been done by that very call) and `TimersEnd`. `CallInv` ties page, handler and
  timer of one call: a handler works only for a call that was made, what it answers
  after acting is already done, and a timer runs only under a waiting page.
* *ModelStore*: `ModelsAreAgreed`, from `FetchIsAgreed` (a fetch past its consent has
  it on record, and what it writes was compared with the pin), `FetchedAlone` (until
  two fetches overlap, one has emptied the cache by the time it writes) and
  `HostIsHonest`.
* *ReuseIndex*: `IndexStaysHonest`. `VerdictsEarned` says of each submission in flight
  what its verdict rests on, `RowsWereUsed` that a row stands for a submission that was
  made, and `KeyAlone` that, until two of them overlap, a submission tags with the
  stored key or makes the first there is.
* *LeakLookup*: `AnswersAreEverySources`. `AddsUp(c)` says of each check which sources
  it has heard of and that it adds up what they said; `Earned`, that the panel shows
  an inventory of an ended check that heard them all.
* *Downloads*: `FilesStoppedAndTold`, from `JudgedInOrder(d)`, which says at every
  step of a download which of stopping, telling and noting is behind it.
* *Inventory*: `InventoryToldOnce` and `TrustEndsAChange`. `BaselineHolds` says that,
  unless the first reading was cut short, what was here before it has a row or one on
  its way, and nothing is reported until it has stored them; `ReviewAlone`, that until
  two reviews write at once, none is about to put what its row already tells.
* *Database*: `HandlesStaySound`. `AsksAlone` says that a context that never asked
  twice at once has one request in the queue, and no handle while it waits: its
  answer displaces nothing.

`Owner_proofs`:

* *WipeControls*: `DoneAlwaysMeansGone`, `OneAnswerAlways`, `ClearedOnlyAfterYes`,
  `SectionsStayTyped`, together `SaysWhatItDid`. `WipeInv` says
  that what a run has cleared or failed at is exactly what it has passed, that it
  began in a section where "yes" was given, and that an unfinished success leaves a
  note there unless another run has succeeded.
* *Appeals*: `AppealsFiled`, `AppealsKeptTheirTime`. The budget is a count of rows in
  a moving window; `BudgetInv` states it for every stretch of it up to now, together
  with what each request read in its look-ups (`HandlerInv`), so that a surplus row is
  traced to a request that looked before another wrote. That needs the cardinality
  of a set growing by one row, hence that the requests are finitely many.
* *OwnerQueue*: `QueueStaysCurrent`, from `OneView` (a closed popup loads nothing, and
  while nothing has crossed one load is under way, none under a painted view),
  `StillSo` (what it has read is still so, but for deferrals whose time is over) and
  `AnnouncedInTime` (a stamp is never ahead of what was announced).
* *SiteGuard*: `SitesJudgedFairly`, `SiteDatesStand`. The lemmas are about names as
  sequences of labels: what stands beneath what, and which names a verdict rests on
  when some are added; the invariant `DayIsOne` is about the two awaits of `siteFacts`.
* *Publishing*: `StatusAlwaysTrue`, `DatesStand`, `BulkStands`. `TablesAgree` says that
  what is listed and what browsers hold drift apart in one direction and only after
  the updates that are named, `FileIsNear` that an ingest which is not published yet
  dropped at most a third of what was shipped; the latter rests on lemmas about
  sequences without duplicates and about cardinalities.
* All together: `NothingEverGoesEarly`.

`Page_proofs`:

* *FrameRelay*: `ReportsAlwaysHeard`, from `ToldAndKnown`: the worker told the page as
  often as its answer was lost, and once more if that is on its way or was heard.
* *PageWatch*: `RequestsStayOnRecord`. Each call made is on the channel, with a
  handler or in a row, or among the losses that are named; and in one of them only.
  `OpensAgree` says that what is noted of an XMLHttpRequest is what it was opened with
  unless an `open` has thrown since.
* *Sanitiser*: `NothingEverLost`, `UndoingIsHonest`. `PlansAreApt` says that as long as
  the page has not moved since a plan was made, each target of it is the place of its
  element; the lemmas are about finding an element by place or by id.
* *ScanPace*: `ChangesAlwaysExamined`. `RunsRemembered` says that the runs the pacer has
  forgotten are those that have left the window, `ChangeIsOwed` that an unexamined
  change has its timer, `FactsAccounted` that a fact nothing excuses is in one place:
  on its way, or on record and remembered.
* *Collector*: `ScanNeverMisses`. `NodesSpent` and `CandidatesSpent` say what each walk
  has taken of the two budgets, `AllThatWasRead` that everything behind the walk was
  found, `StoppedForCause` that a walk that ended early says so.
* *Injection*: `InvisibleAlwaysWeighed` and, with the verdicts (`RulesFirst`,
  `AskedAboutUndecided`), `DetectionAlwaysEarned`. The code reads a text with a
  stack; the property speaks of pairing. One direction keeps, along the text, that
  the stack is the openers whose partner is still to come; the other builds the
  pairing as the stack is popped. That honest writing is silent rests on three
  lemmas: every character stands in one unit, the run of tags around a flag's tag is
  the flag's, and isolates pair with what stands two further. Reading is a recursive
  function, proved to unfold by well-founded induction on the position: nothing about
  the text's length is assumed.
* *OptionsPage*: `ScreenStaysCurrent`. `AskedIsCurrent`, `PaintedIsCurrent` and
  `DrawnIsCurrent` follow what was asked last through the chain, the reading and the
  drawing; `TicksCarried` accounts for each tick until it is filed or lost.

`BlockRules_proofs` also holds the section *BlockScreen*: `ScreenAlwaysKeepsItsWord`,
from `PromisesHonoured`, `NotesAreOwn` and `AskingIsOpen`. The first says how far a
promise that is not spoilt has come: the host is trusted while its refresh reads the
exceptions, in the set the rules are built from after that, what a pending replacement
leaves standing spares the host, and once it is answered every rule in force does,
unless it has a path. The second says that a screen no other navigation's note can
reach has its own, or is waiting for it.

The assumptions are the named `ASSUME`s of the modules, all evaluated by TLC. Besides
types they say: requests, items, entries and elements are finite sets; the page starts
with each element once, and a host is told by its labels; a form is unencrypted or posts
elsewhere; a feed contains no absent address; "gone" and "unrecorded" are no looks of an
extension; an update by hand is a snapshot or a delta.

Only model-checked: liveness (`FeedConverges`, `HeldIsDecided`, `RemovalIsAnswered`,
`VerdictIsSeen`, `PageSettles`, `WorkerAnswers`), which is out of the prover's reach.
Every safety invariant and action property a passing run checks is proved.
`AnsweredIsDone`, `NoTimerLeft` and `NeverBelowSettled` are proved and in no run.

## 6. Not modelled, and why

* Trap and mail detection, and the patterns, word lists and confusable tables of the
  other detectors: pure functions over strings, where what can be wrong is an entry.
  How punycode decodes and the public suffix list are constants of `SiteGuard`.
* Layout, words, focus, themes: they change no state a property is about. Of the
  options page the sections that only draw what they were answered are left out.
* Pack, deploy and test tools: run once by a person.
* Signatures and hashes are what they promise: a forged update is one whose `signed`
  is false. Clocks are what a comparison with them decides.
* A password submitted in a frame, and a document that returns from the back-forward
  cache (`PasswordVerdict`); the indexes of the stores (`Database`); the runtime of
  the classifier (`ModelStore`); the relay of breach ranges, which keeps nothing.
* An insert that was committed and whose answer was lost: the applicant is told that
  nothing was saved (`router.ts:675`) though the appeal is on file (`Appeals`).
* Each scan of a page whose finding was not sanitised writes a new row of findings
  (`bg/index.ts:235-246`); the model has one finding per page, so it does not show.

## 7. What is left

1. An abstract feed store that `BlockingFeed` implements up to stale reads, and one
   of the appeals table that `Appeals` implements up to overtaken requests.
2. The frame's submission in `PasswordVerdict`, and the presentation of permissions
   (`analyse.ts`, `standing.ts`) as operators.
3. A joint model of `ScanPace`, `Sanitiser` and `AgentGate` over one page.
