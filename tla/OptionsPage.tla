----------------------------- MODULE OptionsPage -----------------------------
(***************************************************************************)
(* The owner's page: options/index.ts with views.ts, pending.ts,           *)
(* failure.ts, answered.ts and keep-focus.ts, the recovery screen it       *)
(* draws, and the worker's handlers behind its buttons                     *)
(* (background/index.ts).                                                  *)
(*                                                                         *)
(* Repaints run one at a time over a chain of promises; what a repaint     *)
(* draws was read before it; and every control keeps, in its closure, what *)
(* its own repaint had read.  A read or a write is an await, and fails     *)
(* when it likes.                                                          *)
(***************************************************************************)
EXTENDS Integers, FiniteSets

CONSTANTS
    AreaHashes,         \* the areas that list something and offer to act on it
    Steps,              \* the steps of the one incident
    MaxHashMoves,           \* bounds how often the person goes elsewhere
    Presses             \* the presses the person makes, in order

ASSUME OptionsAssumption ==
    /\ AreaHashes \subseteq {"#queue", "#trusted", "#extensions"}
    /\ MaxHashMoves \in Nat /\ Presses \subseteq Nat

Checklist == "#recovery=kind"
Addresses == AreaHashes \cup {"", "#recovery", Checklist, "#else"}

(* routeFor: an address nobody knows is the overview, and it says so.      *)
RouteFor(hash) ==
    CASE hash \in AreaHashes \cup {Checklist} -> hash
      [] hash = "#recovery" -> "the picker"
      [] hash = "#else" -> "overview, not understood"
      [] OTHER -> "overview"

Routes == {RouteFor(a) : a \in Addresses}
NoRoute == "no route"
NoPress == 0

VARIABLES
    address,        \* location.hash
    pendingRoute, chained,      \* the newest route asked for; the runs in the chain
    painter,        \* idle, reading, or drawing what it read
    body,           \* what this run draws: its route, how it went, what it read
    onScreen,       \* what is drawn: the same, and the failure above it
    lastView,       \* the route last drawn
    busy,           \* the controls of this tree that are marked pending
    failure,        \* the presses the sentence and the diagnostic are about
    areaHeld,           \* what each area holds; one item each
    progress,       \* the steps on file
    presses,        \* each press: its control, its closure, how it went
    ticked,         \* history: the steps the person last left ticked
    threw,          \* history: the last run threw
    hashMoves

optionsVars == <<address, pendingRoute, chained, painter, body, onScreen, lastView, busy,
                 failure, areaHeld, progress, presses, ticked, threw, hashMoves>>

NothingRead == [items |-> {}, were |-> {}, progress |-> {}]
Bodies == [route : Routes \cup {NoRoute}, kind : {"blank", "shell", "problem", "unread", "ready"},
           items : SUBSET AreaHashes, were : SUBSET AreaHashes, progress : SUBSET Steps]
Body(route, kind, read) == [route |-> route, kind |-> kind, items |-> read.items,
                            were |-> read.were, progress |-> read.progress]

NotPressed == [step |-> "none", on |-> "none", next |-> {}, sameTree |-> FALSE, stale |-> FALSE,
               written |-> FALSE]
Silent == [sentence |-> NoPress, diagnostic |-> NoPress]

OptionsTypeOK ==
    /\ address \in Addresses /\ pendingRoute \in Routes \cup {NoRoute}
    /\ chained \in Nat /\ painter \in {"idle", "reading", "drawing"}
    /\ body \in Bodies /\ onScreen.tree \in Bodies
    /\ lastView \in Routes \cup {NoRoute}
    /\ busy \subseteq AreaHashes
    /\ {failure, onScreen.failure} \subseteq [sentence : Presses \cup {NoPress}, diagnostic : Presses \cup {NoPress}]
    /\ areaHeld \subseteq AreaHashes /\ progress \subseteq Steps /\ ticked \subseteq Steps
    /\ \A p \in Presses : presses[p].step \in {"none", "act", "disable", "put", "archive", "done"}
    /\ hashMoves \in 0 .. MaxHashMoves /\ threw \in BOOLEAN

Blank == Body(NoRoute, "blank", NothingRead)

(* What is asked for when nothing has been pressed, and what is drawn.     *)
OptionsStarts(asked, runs, drawn) ==
    /\ address = "" /\ pendingRoute = asked /\ chained = runs
    /\ painter = "idle" /\ body = drawn /\ lastView = NoRoute
    /\ onScreen = [tree |-> drawn, failure |-> Silent]
    /\ busy = {} /\ failure = Silent /\ areaHeld = AreaHashes /\ progress = {}
    /\ presses = [p \in Presses |-> NotPressed] /\ ticked = {} /\ threw = FALSE /\ hashMoves = 0

(* The last line of the script: the first reload.                          *)
OptionsInit == OptionsStarts(RouteFor(""), 1, Blank)

-----------------------------------------------------------------------------
KeepsTheFirst(hash) ==
    /\ pendingRoute' = IF pendingRoute = NoRoute THEN RouteFor(hash) ELSE pendingRoute
    /\ chained' = chained + 1

(* paint: the newest route, and one more run at the end of the chain.      *)
Reload(hash) == pendingRoute' = RouteFor(hash) /\ chained' = chained + 1
NoReload == UNCHANGED <<pendingRoute, chained>>

IsOverview(route) == route \in {"overview", "overview, not understood"}

(* Every control goes with the tree, and so does every mark.               *)
TreeReplaced ==
    /\ busy' = {}
    /\ presses' = [p \in Presses |-> [presses[p] EXCEPT !.sameTree = FALSE]]

(* renderOverview before anything is read, on arriving only.               *)
Shell(route) ==
    IF IsOverview(route) /\ (onScreen.tree.kind = "blank" \/ ~ IsOverview(lastView))
    THEN /\ onScreen' = [tree |-> Body(route, "shell", NothingRead), failure |-> Silent]
         /\ TreeReplaced
    ELSE UNCHANGED <<onScreen, busy, presses>>

(* A run whose route an earlier run already took has nothing to paint.     *)
StartRun ==
    /\ painter = "idle" /\ chained > 0
    /\ chained' = chained - 1 /\ pendingRoute' = NoRoute
    /\ IF pendingRoute = NoRoute
       THEN UNCHANGED <<painter, body, onScreen, busy, presses, threw>>
       ELSE /\ painter' = "reading" /\ threw' = FALSE /\ body' = Body(pendingRoute, "blank", NothingRead)
            /\ Shell(pendingRoute)
    /\ UNCHANGED <<address, lastView, failure, areaHeld, progress, ticked, hashMoves>>

(* queueSection: the page reads the store itself.                          *)
QueueRead == {[items |-> areaHeld \cap {"#queue"}, were |-> areaHeld \cap {"#queue"}, progress |-> {}]}

(* listTrusted answers a store it could not read with an empty list.       *)
ListTrusted == {areaHeld \cap {"#trusted"}, {}}
(* trustedSection: only no answer at all is an error.                      *)
TrustedRead == {[items |-> i, were |-> areaHeld \cap {"#trusted"}, progress |-> {}] : i \in ListTrusted}

(* extensionsState answers a comparison that failed with no changes.       *)
ExtensionsState == {areaHeld \cap {"#extensions"}, {}}
(* extensionsSection: only no answer at all is an error.                   *)
ExtensionsRead ==
    {[items |-> i, were |-> areaHeld \cap {"#extensions"}, progress |-> {}] : i \in ExtensionsState}

(* buildChecklist: what remains of what was read.                          *)
Remaining(done) == Steps \ done

(* recoverySection: progress that could not be read is no progress.        *)
ChecklistRead == {[items |-> {}, were |-> {}, progress |-> done] : done \in {progress, {}}}

(* openIncidents: the one incident, while some step of it remains.         *)
OpenIncidents == {k \in {Checklist} : Remaining(progress) # {}}
(* attentionItems: the findings and the open incidents.                    *)
Attention == (areaHeld \cap {"#queue"}) \cup OpenIncidents
(* overviewSection: what waits for the owner, beside the areas' own lines. *)
OverviewRead == {[items |-> areaHeld \cap {"#queue"}, were |-> areaHeld \cap Attention, progress |-> progress]}

SectionRead(route) ==
    CASE route = "#queue" -> QueueRead
      [] route = "#trusted" -> TrustedRead
      [] route = "#extensions" -> ExtensionsRead
      [] route = Checklist -> ChecklistRead
      [] route = "the picker" -> {NothingRead}
      [] OTHER -> OverviewRead

CanFail(route) == route \notin {Checklist, "the picker"}

(* storageProblem first, then the section of this route.                   *)
ReadSections ==
    /\ painter = "reading" /\ painter' = "drawing"
    /\ \/ body' = [body EXCEPT !.kind = "problem"]
       \/ CanFail(body.route) /\ body' = [body EXCEPT !.kind = "unread"]
       \/ \E read \in SectionRead(body.route) : body' = Body(body.route, "ready", read)
    /\ UNCHANGED <<address, pendingRoute, chained, onScreen, lastView, busy, failure, areaHeld,
                   progress, presses, ticked, threw, hashMoves>>

(* The tree is replaced whole, the failure above it; every mark goes.      *)
Draw ==
    /\ painter = "drawing" /\ painter' = "idle"
    /\ onScreen' = [tree |-> body, failure |-> failure]
    /\ lastView' = IF body.kind = "problem" THEN lastView ELSE body.route
    /\ TreeReplaced
    /\ UNCHANGED <<address, pendingRoute, chained, body, failure, areaHeld, progress, ticked, threw, hashMoves>>

FulfilledOnly == 0
(* painting.then(run, run): the next run is chained on both arms.          *)
Rechained == chained

(* A run that throws draws nothing.                                        *)
RunThrows ==
    /\ painter = "reading" /\ painter' = "idle" /\ threw' = TRUE /\ chained' = Rechained
    /\ UNCHANGED <<address, pendingRoute, body, onScreen, lastView, busy, failure,
                   areaHeld, progress, presses, ticked, hashMoves>>

(* A link, back or forward, or an incident picked.                         *)
Navigate ==
    /\ hashMoves < MaxHashMoves /\ hashMoves' = hashMoves + 1
    /\ \E a \in Addresses \ {address} : address' = a /\ Reload(a)
    /\ UNCHANGED <<painter, body, onScreen, lastView, busy, failure, areaHeld, progress,
                   presses, ticked, threw>>

-----------------------------------------------------------------------------
Turn(p) == presses[p].step = "none" /\ \A q \in Presses : q < p => presses[q].step # "none"
(* A drawing that does not show the steps last ticked, or one that is      *)
(* pressed while an earlier write is still under way: the writes land in   *)
(* any order.                                                              *)
OutOfDate == onScreen.tree.progress # ticked
             \/ \E p \in Presses : presses[p].step \in {"put", "archive"}
PressOf(p, step, on, next) ==
    presses' = [presses EXCEPT ![p] = [step |-> step, on |-> on, next |-> next,
                                       sameTree |-> TRUE, stale |-> OutOfDate,
                                       written |-> FALSE]]
Ended(p, written) ==
    presses' = [presses EXCEPT ![p].step = "done", ![p].written = written]

(* mark: the pressed control is disabled until its result lands.           *)
Pressable(control) == control \notin busy

(* act: resolve, revoke or accept the one item of this area.               *)
PressAct(p) ==
    /\ Turn(p) /\ onScreen.tree.kind = "ready"
    /\ \E a \in onScreen.tree.items :
        /\ a = onScreen.tree.route /\ Pressable(a) /\ busy' = busy \cup {a}
        /\ PressOf(p, "act", a, {})
    /\ UNCHANGED <<address, pendingRoute, chained, painter, body, onScreen, lastView,
                   failure, areaHeld, progress, ticked, threw, hashMoves>>

(* resolveFinding, revokeTrusted and trustExtensionChange: a store that    *)
(* cannot be opened or written is answered ok all the same.                *)
WorkerActs(p, written) == areaHeld' = IF written THEN areaHeld \ {presses[p].on} ELSE areaHeld

(* The worker answers, or it does not and the deadline throws -- having    *)
(* written or not.  Only what throws is said; what worked says no more.    *)
ActEnds(p) ==
    /\ presses[p].step = "act"
    /\ \E written, thrown \in BOOLEAN :
        /\ WorkerActs(p, written)
        /\ failure' = IF thrown THEN [sentence |-> p, diagnostic |-> p] ELSE Silent
        /\ busy' = IF thrown /\ presses[p].sameTree THEN busy \ {presses[p].on} ELSE busy
        /\ Ended(p, written)
    /\ Reload(address)
    /\ UNCHANGED <<address, painter, body, onScreen, lastView, progress, ticked, threw, hashMoves>>

(* onDisable: not through act, and marks nothing.                          *)
PressDisable(p) ==
    /\ Turn(p) /\ onScreen.tree.kind = "ready" /\ onScreen.tree.route = "#extensions"
    /\ PressOf(p, "disable", "the extension", {})
    /\ UNCHANGED <<address, pendingRoute, chained, painter, body, onScreen, lastView, busy,
                   failure, areaHeld, progress, ticked, threw, hashMoves>>

(* disableExtension: the browser disables it or refuses, and the refusal   *)
(* is a sentence; the diagnostic stays whose it was.  A message that is    *)
(* never answered ends the handler without a word and without a repaint.   *)
DisableEnds(p) ==
    /\ presses[p].step = "disable"
    /\ \/ \E refused \in BOOLEAN :
            /\ failure' = [failure EXCEPT !.sentence = IF refused THEN p ELSE NoPress]
            /\ Ended(p, ~ refused) /\ Reload(address)
       \/ \E written \in BOOLEAN : Ended(p, written) /\ NoReload /\ UNCHANGED failure
    /\ UNCHANGED <<address, painter, body, onScreen, lastView, busy, areaHeld, progress, ticked,
                   threw, hashMoves>>

NextProgress(step, done) == IF done THEN onScreen.tree.progress \cup {step}
                            ELSE onScreen.tree.progress \ {step}

(* The box of a step: as it was drawn, or as it was left on this drawing.  *)
Toggles(s) == {p \in Presses : presses[p].on = s /\ presses[p].sameTree}
Checked(s) ==
    IF Toggles(s) = {} THEN s \in onScreen.tree.progress
    ELSE \E p \in Toggles(s) : (\A q \in Toggles(s) : q <= p) /\ s \in presses[p].next

(* onToggle: the list its own drawing had read, with this step changed.    *)
PressStep(p) ==
    /\ Turn(p) /\ onScreen.tree.route = Checklist /\ onScreen.tree.kind = "ready"
    /\ \E s \in Steps :
        LET done == ~ Checked(s) IN
        /\ PressOf(p, "put", s, NextProgress(s, done))
        /\ ticked' = IF done THEN ticked \cup {s} ELSE ticked \ {s}
    /\ UNCHANGED <<address, pendingRoute, chained, painter, body, onScreen, lastView, busy,
                   failure, areaHeld, progress, threw, hashMoves>>

(* Losing a tick is survivable: a put that fails says nothing.             *)
PutEnds(p) ==
    /\ presses[p].step = "put"
    /\ \E written \in BOOLEAN :
        /\ progress' = IF written THEN presses[p].next ELSE progress
        /\ Ended(p, written)
    /\ Reload(address)
    /\ UNCHANGED <<address, painter, body, onScreen, lastView, busy, failure, areaHeld, ticked,
                   threw, hashMoves>>

(* onArchive is offered once nothing remains.                              *)
PressArchive(p) ==
    /\ Turn(p) /\ onScreen.tree.route = Checklist /\ onScreen.tree.kind = "ready"
    /\ Remaining(onScreen.tree.progress) = {}
    /\ PressOf(p, "archive", "archive", {})
    /\ UNCHANGED <<address, pendingRoute, chained, painter, body, onScreen, lastView, busy,
                   failure, areaHeld, progress, ticked, threw, hashMoves>>

(* The incident is gone and the address goes home, or the delete throws    *)
(* and nobody hears.                                                       *)
ArchiveEnds(p) ==
    /\ presses[p].step = "archive"
    /\ \/ /\ progress' = {} /\ ticked' = {} /\ Ended(p, TRUE)
          /\ address' = "" /\ IF address = "" THEN NoReload ELSE Reload("")
       \/ Ended(p, FALSE) /\ NoReload /\ UNCHANGED <<progress, ticked, address>>
    /\ UNCHANGED <<painter, body, onScreen, lastView, busy, failure, areaHeld, threw, hashMoves>>

OptionsNext ==
    \/ StartRun \/ ReadSections \/ Draw \/ RunThrows \/ Navigate
    \/ \E p \in Presses : \/ PressAct(p) \/ ActEnds(p) \/ PressDisable(p) \/ DisableEnds(p)
                          \/ PressStep(p) \/ PutEnds(p) \/ PressArchive(p) \/ ArchiveEnds(p)

OptionsFairness ==
    /\ WF_optionsVars(StartRun) /\ WF_optionsVars(ReadSections) /\ WF_optionsVars(Draw)

OptionsSpec == OptionsInit /\ [][OptionsNext]_optionsVars /\ OptionsFairness

-----------------------------------------------------------------------------
RunInFlight == {p \in Presses : presses[p].step \notin {"none", "done"}}
Settled == painter = "idle" /\ chained = 0 /\ RunInFlight = {}

(* "Repaints run one at a time, and a burst collapses to the last state"   *)
(* (options/index.ts:870): once nothing is under way and the last run did  *)
(* not throw, the page shows the area its address names, what that area    *)
(* held, and the failure of the last action that says one.                 *)
SettlesOnTheLast ==
    Settled /\ ~ threw =>
        /\ onScreen.tree.route = RouteFor(address)
        /\ onScreen.failure.sentence = failure.sentence
        /\ onScreen.tree.kind = "ready" => onScreen.tree.were \subseteq areaHeld

(* A repaint that throws does not freeze the page: whatever is asked for   *)
(* is taken up and ends (options/index.ts:893-897).                        *)
PaintsInTheEnd == (pendingRoute # NoRoute) ~> (pendingRoute = NoRoute /\ painter = "idle")

(* A control pressed twice before its answer was redrawn in between        *)
(* (pending.ts:8-13).                                                      *)
TwiceOnlyIfRedrawn ==
    \A p, q \in Presses :
        p < q /\ presses[p].on = presses[q].on /\ {presses[p].step, presses[q].step} = {"act"} =>
            ~ presses[p].sameTree

(* The steps on file are the steps last ticked, unless a write failed, or  *)
(* one was pressed on a drawing that did not show them all or before the   *)
(* write ahead of it had ended (options/index.ts:650-661).                 *)
TicksLostOnlyOnStale ==
    RunInFlight = {} /\ progress # ticked =>
        \E p \in Presses : presses[p].on \in Steps \cup {"archive"} /\ (presses[p].stale \/ ~ presses[p].written)

(* What the owner's page shows and files is what was last asked of it.     *)
ScreenIsCurrent ==
    /\ OptionsTypeOK /\ SettlesOnTheLast /\ TwiceOnlyIfRedrawn
    /\ TicksLostOnlyOnStale
=============================================================================
