----------------------------- MODULE OwnerQueue ------------------------------
(***************************************************************************)
(* What waits for the owner: the ranked queue (core-queue/rank.ts), "what  *)
(* changed since you last looked" (core-queue/diff.ts), and the popup that *)
(* shows both (popup/index.ts, popup/state.ts) over the store the worker   *)
(* writes (finding/resolve, finding/defer, the sweep of deferrals).        *)
(*                                                                         *)
(* The popup loads on opening and after each action, and its loads are not *)
(* serialised.  Closing it stamps the moment of the last look.             *)
(***************************************************************************)
EXTENDS Integers, FiniteSets

CONSTANTS
    Items,              \* the findings, numbered as their ids sort
    Weight, Ease,       \* the severity of each, and its fixability: Unread without a verdict
    Shown,              \* how many the queue shows; three in the code
    Entries,            \* the journal entries to come
    Loads,              \* the loads of the popup, in order; they bound its reloads
    DeferFor,           \* how long "not now" lasts
    InFlight,           \* bounds the messages to the worker at once
    MaxClock            \* bounds the clock

Never == -1
Unread == -1

ASSUME OwnerAssumption ==
    /\ Items \subseteq Nat /\ IsFiniteSet(Items)
    /\ Weight \in [Items -> Nat] /\ Ease \in [Items -> Nat \cup {Unread}]
    /\ Shown \in Nat /\ Loads \subseteq Nat \ {0} /\ DeferFor \in Nat \ {0} /\ {InFlight, MaxClock} \subseteq Nat

VARIABLES
    clock,
    created, resolved,          \* the findings: when stored, which are dealt with
    deferrals,                  \* defer:<id>: until when, or 0 where there is no row
    entries,                    \* the journal: when each entry was written
    lastCheck,                  \* popup:lastCheck
    popup,                      \* closed, or open with the view it shows
    expanded,                   \* "show all" was pressed in this popup
    loads,                      \* each load of this popup
    sends, stamping,            \* in flight: messages to the worker; the stamp of the last look
    announced, excused,         \* history: entries counted; entries no look could have counted
    crossed                     \* history: a write failed, two loads were under way at once, or
                                \* what an earlier popup had asked for was done under a later one

ownerVars == <<clock, created, resolved, deferrals, entries, lastCheck, popup, expanded, loads,
               sends, stamping, announced, excused, crossed>>

NoView == [kind |-> "closed", items |-> {}, deferred |-> {}, all |-> FALSE, changed |-> 0]
(* What a row of the queue offers beside opening the page.                 *)
Verbs == {"resolve", "defer"}
Unused == [step |-> "none", items |-> {}, held |-> [i \in Items |-> 0], changed |-> {}]

OwnerTypeOK ==
    /\ clock \in 0 .. MaxClock /\ created \in [Items -> Int] /\ resolved \subseteq Items
    /\ deferrals \in [Items -> Nat] /\ entries \in [Entries -> Int]
    /\ lastCheck \in {Never} \cup 0 .. MaxClock /\ stamping \in BOOLEAN
    /\ popup.kind \in {"closed", "loading", "ready", "error"} /\ popup.items \subseteq Items
    /\ expanded \in BOOLEAN /\ crossed \in BOOLEAN
    /\ \A l \in Loads : loads[l].step \in {"none", "reading", "read", "done"}
    /\ sends \subseteq [what : Verbs, item : Items, until : Nat, own : BOOLEAN]

OwnerInit ==
    /\ clock = 0 /\ created = [i \in Items |-> Never] /\ resolved = {}
    /\ deferrals = [i \in Items |-> 0] /\ entries = [e \in Entries |-> Never] /\ lastCheck = Never
    /\ popup = NoView /\ expanded = FALSE /\ loads = [l \in Loads |-> Unused] /\ sends = {}
    /\ stamping = FALSE /\ announced = {} /\ excused = {} /\ crossed = FALSE

-----------------------------------------------------------------------------
Stored == {i \in Items : created[i] # Never}
(* toQueueItems: what is stored and not dealt with.                        *)
Waiting == {i \in Items : created[i] # Never} \ resolved

(* rankedBy: how easily a thing is done counts only when it is known of    *)
(* every one of them.                                                      *)
Full(items) == \A k \in items : Ease[k] # Unread

(* Severity; then ease; then what is newer; then the id.                   *)
Weightier(items, i, j) ==
    \/ Weight[i] > Weight[j]
    \/ /\ Weight[i] = Weight[j]
       /\ \/ Full(items) /\ Ease[i] > Ease[j]
          \/ /\ Full(items) => Ease[i] = Ease[j]
             /\ created[i] > created[j] \/ (created[i] = created[j] /\ i < j)

(* buildQueue: what was put off comes last, whatever else is true of it.   *)
Before(items, held, i, j) ==
    \/ i \notin held /\ j \in held
    \/ (i \in held <=> j \in held) /\ Weightier(items, i, j)

TopOf(items, held) == {i \in items : Cardinality({j \in items : Before(items, held, j, i)}) < Shown}
OnShow(items, held, all) == IF all THEN items ELSE TopOf(items, held)

(* deferredUntil > now; no row is no deferral.                             *)
DeferredAt(held, now) == {i \in Items : held[i] > now}

(* diffSince: strictly later than the last look.                           *)
Fresh(since) == {e \in Entries : entries[e] # Never /\ (since = Never \/ entries[e] > since)}

-----------------------------------------------------------------------------
(* The worker stores a finding; the worker journals something.             *)
FindingStored ==
    /\ \E i \in Items : created[i] = Never /\ created' = [created EXCEPT ![i] = clock]
    /\ UNCHANGED <<clock, resolved, deferrals, entries, lastCheck, popup, expanded, loads, sends,
                   stamping, announced, excused, crossed>>

EntryWritten ==
    /\ \E e \in Entries :
        /\ entries[e] = Never /\ entries' = [entries EXCEPT ![e] = clock]
        /\ excused' = IF popup.kind # "closed" \/ stamping \/ lastCheck = clock
                      THEN excused \cup {e} ELSE excused
    /\ UNCHANGED <<clock, created, resolved, deferrals, lastCheck, popup, expanded, loads, sends,
                   stamping, announced, crossed>>

Ticks ==
    /\ clock < MaxClock /\ clock' = clock + 1
    /\ UNCHANGED <<created, resolved, deferrals, entries, lastCheck, popup, expanded, loads, sends,
                   stamping, announced, excused, crossed>>

-----------------------------------------------------------------------------
UnderWay == {l \in Loads : loads[l].step \in {"reading", "read"}}
NextLoad(l) == loads[l].step = "none" /\ \A k \in Loads : k < l => loads[k].step # "none"

(* reload: "loading" is painted, and the store is asked.                   *)
Reloads ==
    /\ \E l \in Loads : NextLoad(l) /\ loads' = [loads EXCEPT ![l].step = "reading"]
    /\ popup' = [NoView EXCEPT !.kind = "loading"]

OpenPopup ==
    /\ popup.kind = "closed" /\ Reloads /\ expanded' = FALSE
    /\ UNCHANGED <<clock, created, resolved, deferrals, entries, lastCheck, sends, stamping,
                   announced, excused, crossed>>

(* load: the findings, the journal, the deferrals, the last look.          *)
ReadStore(l) ==
    /\ loads[l].step = "reading"
    /\ loads' = [loads EXCEPT ![l] = [step |-> "read", items |-> Waiting, held |-> deferrals,
                                      changed |-> Fresh(lastCheck)]]
    /\ UNCHANGED <<clock, created, resolved, deferrals, entries, lastCheck, popup, expanded, sends,
                   stamping, announced, excused, crossed>>

(* The tab's address has come too: buildPopupState, with the clock of this *)
(* moment, and paint.                                                      *)
PaintPopup(l) ==
    /\ loads[l].step = "read"
    /\ popup' = [kind |-> "ready", items |-> loads[l].items, all |-> expanded,
                 deferred |-> DeferredAt(loads[l].held, clock), changed |-> Cardinality(loads[l].changed)]
    /\ announced' = announced \cup loads[l].changed
    /\ loads' = [loads EXCEPT ![l] = [Unused EXCEPT !.step = "done"]]
    /\ UNCHANGED <<clock, created, resolved, deferrals, entries, lastCheck, expanded, sends,
                   stamping, excused, crossed>>

(* A store that cannot be read is an error on the screen, never an answer. *)
LoadFails(l) ==
    /\ loads[l].step = "reading"
    /\ popup' = [NoView EXCEPT !.kind = "error"]
    /\ loads' = [loads EXCEPT ![l].step = "done"]
    /\ UNCHANGED <<clock, created, resolved, deferrals, entries, lastCheck, expanded, sends,
                   stamping, announced, excused, crossed>>

(* onShowAll; onRepair, on the error, is the same without the flag.        *)
ShowAll ==
    /\ popup.kind \in {"ready", "error"} /\ Reloads /\ expanded' = (expanded \/ popup.kind = "ready")
    /\ crossed' = (crossed \/ UnderWay # {})
    /\ UNCHANGED <<clock, created, resolved, deferrals, entries, lastCheck, sends, stamping,
                   announced, excused>>

(* onResolve, onDefer: nothing is marked, and the button may be pressed    *)
(* again.  "Not now" is until a day after the press.                       *)
PressItem ==
    /\ popup.kind = "ready" /\ Cardinality(sends) < InFlight
    /\ \E what \in Verbs, i \in OnShow(popup.items, popup.deferred, popup.all) :
        sends' = sends \cup {[what |-> what, item |-> i, own |-> TRUE,
                              until |-> IF what = "defer" THEN clock + DeferFor ELSE 0]}
    /\ UNCHANGED <<clock, created, resolved, deferrals, entries, lastCheck, popup, expanded, loads,
                   stamping, announced, excused, crossed>>

(* resolveFinding, deferFinding.                                           *)
Written(send) ==
    IF send.what = "resolve" THEN resolved' = resolved \cup {send.item} /\ UNCHANGED deferrals
    ELSE deferrals' = [deferrals EXCEPT ![send.item] = send.until] /\ UNCHANGED resolved

(* A write that fails is answered ok; the popup that asked reloads.        *)
WorkerAnswers(send) ==
    /\ sends' = sends \ {send}
    /\ \/ Written(send) /\ crossed' = (crossed \/ (send.own /\ UnderWay # {})
                                               \/ (~ send.own /\ popup.kind # "closed"))
       \/ crossed' = TRUE /\ UNCHANGED <<resolved, deferrals>>
    /\ IF send.own THEN Reloads ELSE UNCHANGED <<popup, loads>>
    /\ UNCHANGED <<clock, created, entries, lastCheck, expanded, stamping, announced, excused>>

(* No answer in time: the handler throws, and the popup stays as it is.    *)
SendFails(send) ==
    /\ sends' = sends \ {send} /\ crossed' = TRUE
    /\ UNCHANGED <<clock, created, resolved, deferrals, entries, lastCheck, popup, expanded, loads,
                   stamping, announced, excused>>

(* pagehide: the stamp of the look is on its way.  A popup that closes     *)
(* with nothing painted stamps like one that was read.                     *)
ClosePopup ==
    /\ popup.kind # "closed" /\ popup' = NoView /\ stamping' = TRUE
    /\ sends' = {[s EXCEPT !.own = FALSE] : s \in sends}
    /\ loads' = [l \in Loads |-> IF l \in UnderWay THEN [Unused EXCEPT !.step = "done"] ELSE loads[l]]
    /\ excused' = IF popup.kind = "ready" THEN excused ELSE excused \cup Fresh(lastCheck)
    /\ UNCHANGED <<clock, created, resolved, deferrals, entries, lastCheck, expanded, announced, crossed>>

(* put(popup:lastCheck), with the clock of that moment; or it is lost.     *)
LookStamped ==
    /\ stamping /\ stamping' = FALSE
    /\ lastCheck' \in {lastCheck, clock}
    /\ UNCHANGED <<clock, created, resolved, deferrals, entries, popup, expanded, loads, sends,
                   announced, excused, crossed>>

(* pastDeadline: the deadline itself is past.                              *)
Spent(i) == deferrals[i] # 0 /\ deferrals[i] <= clock

(* pruneExpired: a deferral goes once its time is over.                    *)
SweepDeferrals ==
    /\ \E i \in Items : Spent(i) /\ deferrals' = [deferrals EXCEPT ![i] = 0]
    /\ UNCHANGED <<clock, created, resolved, entries, lastCheck, popup, expanded, loads, sends,
                   stamping, announced, excused, crossed>>

OwnerNext ==
    \/ FindingStored \/ EntryWritten \/ Ticks \/ SweepDeferrals
    \/ OpenPopup \/ ShowAll \/ PressItem \/ ClosePopup \/ LookStamped
    \/ \E l \in Loads : ReadStore(l) \/ PaintPopup(l) \/ LoadFails(l)
    \/ \E send \in sends : WorkerAnswers(send) \/ SendFails(send)

OwnerSpec == OwnerInit /\ [][OwnerNext]_ownerVars

-----------------------------------------------------------------------------
OwnerSettled == popup.kind = "ready" /\ sends = {} /\ UnderWay = {} /\ ~ crossed

(* "It ranks last until its time is up" (rank.ts:17-19): once everything   *)
(* the person asked for is done, a thing put off is on show only when      *)
(* everything that is not was put off too.                                 *)
PutOffComesLast ==
    OwnerSettled =>
        LET shown == OnShow(popup.items, popup.deferred, popup.all) IN
        \A i \in shown : deferrals[i] > clock => popup.items \ shown \subseteq popup.deferred

(* What was dealt with from the popup is not on it once everything asked   *)
(* for is done (popup/index.ts:76-81); a failed write, two loads at once,  *)
(* or a press in an earlier popup carried out under this one are the only  *)
(* ways it stays.                                                          *)
DealtWithIsGone == OwnerSettled => popup.items \cap resolved = {}

(* "Otherwise 'what changed since last time' would be empty the moment you *)
(* looked at it" (popup/index.ts:131-135): an entry the next look will not *)
(* count was counted by an earlier one, or was written under an open popup *)
(* or before its stamp landed, or was waiting when a popup was closed with *)
(* nothing painted.                                                        *)
EveryEntryAnnounced ==
    \A e \in Entries : entries[e] # Never => e \in Fresh(lastCheck) \cup announced \cup excused

(* The popup, once what was pressed is done: what was put off comes last,  *)
(* what was dealt with is gone, and no entry goes by unannounced.          *)
QueueIsCurrent ==
    /\ OwnerTypeOK /\ PutOffComesLast /\ DealtWithIsGone
    /\ EveryEntryAnnounced
=============================================================================
