----------------------------- MODULE LeakLookup ------------------------------
(***************************************************************************)
(* "Has this address leaked": the leaks area of the owner's page           *)
(* (options/index.ts, ui/leaks), the worker that asks the two sources one  *)
(* after the other, each under its own deadline (background/leaks.ts), and *)
(* the inventory it answers with (core-leaks/merge.ts).                    *)
(*                                                                         *)
(* A source may be unconfigured, answer, refuse with a body of its own,    *)
(* fail, or say nothing.  The check button stays on the screen until the   *)
(* page is painted again, so two checks may be under way at once.          *)
(***************************************************************************)
EXTENDS Naturals, Sequences, FiniteSets

CONSTANTS
    LeakChecks          \* the presses of the button, in order

ASSUME LeakAssumption == LeakChecks \subseteq Nat

Hibp == "Have I Been Pwned"
Cavalier == "Hudson Rock Cavalier"
Sources == {Hibp, Cavalier}
Order == <<Hibp, Cavalier>>

(* What a source may come back with; a 404 of the first is "none".         *)
Replies == {"found", "none", "refused", "failed"}

VARIABLES
    typed,          \* the address field: empty, not an address, an address
    leaks,          \* the page's state: idle, needs, checking, ready, error
    leakPanel,          \* the state last painted
    lookups,        \* each check in the worker: the source it is at, statuses
    said            \* history: what each source said in time, for each check

leakVars == <<typed, leaks, leakPanel, lookups, said>>

NoInventory == [found |-> {}, silent |-> {}]
State(kind, check, inventory) == [kind |-> kind, check |-> check, inventory |-> inventory]
NeverLooked == State("idle", 0, NoInventory)
NotAsked == [step |-> "none", at |-> 1, silent |-> {}, found |-> {}, inSight |-> FALSE]

LeakTypeOK ==
    /\ typed \in {"empty", "not an address", "address"}
    /\ {leaks.kind, leakPanel.kind} \subseteq {"idle", "needs", "checking", "ready", "error"}
    /\ {leaks.check, leakPanel.check} \subseteq LeakChecks \cup {0}
    /\ \A c \in LeakChecks :
        /\ lookups[c].step \in {"none", "asking", "answered", "ended"}
        /\ lookups[c].at \in 1 .. Len(Order) + 1
        /\ lookups[c].silent \cup lookups[c].found \subseteq Sources
    /\ said \in [LeakChecks -> [Sources -> Replies \cup {"unasked", "no key", "too late"}]]

LeakInit ==
    /\ typed = "empty" /\ leaks = NeverLooked /\ leakPanel = NeverLooked
    /\ lookups = [c \in LeakChecks |-> NotAsked]
    /\ said = [c \in LeakChecks |-> [s \in Sources |-> "unasked"]]

-----------------------------------------------------------------------------
(* The field is one live node, moved between repaints: what is typed stays.*)
TypeAddress ==
    /\ typed' \in {"not an address", "address"} \ {typed}
    /\ UNCHANGED <<leaks, leakPanel, lookups, said>>

Turn(c) == lookups[c].step = "none" /\ \A d \in LeakChecks : d < c => lookups[d].step # "none"

(* renderLeaks: no button while a check is on the screen.                  *)
ButtonOffered == leakPanel.kind # "checking"

(* onCheck: a refusal to ask is said; otherwise the worker is asked.       *)
PressCheck(c) ==
    /\ Turn(c) /\ ButtonOffered
    /\ \/ /\ typed # "address"
          /\ leaks' = State("needs", 0, NoInventory)
          /\ lookups' = [lookups EXCEPT ![c].step = "ended"]
       \/ /\ typed = "address"
          /\ leaks' = State("checking", 0, NoInventory)
          /\ lookups' = [d \in LeakChecks |->
                IF d = c THEN [NotAsked EXCEPT !.step = "asking"]
                         ELSE [lookups[d] EXCEPT !.inSight = @ \/ leakPanel.kind = "checking"]]
    /\ UNCHANGED <<typed, leakPanel, said>>

(* paintCurrent: the page shows the state of the moment.                   *)
PaintLeaks == leakPanel # leaks /\ leakPanel' = leaks /\ UNCHANGED <<typed, leaks, lookups, said>>

-----------------------------------------------------------------------------
AskingOf(c) == Order[lookups[c].at]

(* The loop goes on whatever one source did.                               *)
Silent(c) == [lookups EXCEPT ![c].at = @ + 1, ![c].silent = @ \cup {AskingOf(c)}]
Heard(c, found) ==
    [lookups EXCEPT ![c].at = @ + 1, ![c].found = IF found THEN @ \cup {AskingOf(c)} ELSE @]

(* A refusal's body is not the list the first source sends, and reading it *)
(* throws; for the second it is an object without `stealers`, which reads  *)
(* as an empty list.                                                       *)
Readable(source, reply) == reply \in {"found", "none"} \/ (reply = "refused" /\ source = Cavalier)

(* lookupLeaks, one source.  The first has no key, or it was not read.     *)
SourceUnavailable(c) ==
    /\ lookups[c].step = "asking" /\ lookups[c].at <= Len(Order) /\ AskingOf(c) = Hibp
    /\ lookups' = Silent(c) /\ said' = [said EXCEPT ![c][Hibp] = "no key"]
    /\ UNCHANGED <<typed, leaks, leakPanel>>

SourceReplies(c) ==
    /\ lookups[c].step = "asking" /\ lookups[c].at <= Len(Order)
    /\ \E reply \in Replies :
        /\ lookups' = IF Readable(AskingOf(c), reply) THEN Heard(c, reply = "found") ELSE Silent(c)
        /\ said' = [said EXCEPT ![c][AskingOf(c)] = reply]
    /\ UNCHANGED <<typed, leaks, leakPanel>>

(* withDeadline: ten seconds, and what comes later is nobody's.            *)
DeadlineOf(c) == lookups[c].step = "asking" /\ lookups[c].at <= Len(Order)

SourceTimesOut(c) ==
    /\ DeadlineOf(c) /\ lookups' = Silent(c)
    /\ said' = [said EXCEPT ![c][AskingOf(c)] = "too late"]
    /\ UNCHANGED <<typed, leaks, leakPanel>>

AnySourceAnswered(silent) == silent # Sources
(* mergeLeaks: complete when no source was silent.                         *)
Complete(silent) == silent = {}

(* The inventory reaches the page.                                         *)
InventoryArrives(c) ==
    /\ lookups[c].step = "asking" /\ lookups[c].at > Len(Order)
    /\ leaks' = State("ready", c, [found |-> lookups[c].found, silent |-> lookups[c].silent])
    /\ lookups' = [lookups EXCEPT ![c].step = "ended"]
    /\ UNCHANGED <<typed, leakPanel, said>>

(* The worker refuses, is gone, or misses the page's own deadline.         *)
LookupFails(c) ==
    /\ lookups[c].step = "asking"
    /\ leaks' = State("error", 0, NoInventory)
    /\ lookups' = [lookups EXCEPT ![c].step = "ended"]
    /\ UNCHANGED <<typed, leakPanel, said>>

LeakNext ==
    \/ TypeAddress \/ PaintLeaks
    \/ \E c \in LeakChecks : \/ PressCheck(c) \/ SourceUnavailable(c) \/ SourceReplies(c)
                         \/ SourceTimesOut(c) \/ InventoryArrives(c) \/ LookupFails(c)

LeakFairness ==
    /\ WF_leakVars(PaintLeaks)
    /\ \A c \in LeakChecks : /\ WF_leakVars(SourceTimesOut(c)) /\ WF_leakVars(InventoryArrives(c))

LeakSpec == LeakInit /\ [][LeakNext]_leakVars /\ LeakFairness

-----------------------------------------------------------------------------
(* "Nothing found", checked against every source, is what every source     *)
(* said -- but for a refusal of the second, which reads as nothing         *)
(* (background/leaks.ts:56-60).                                            *)
CalmIsEarned ==
    leakPanel.kind = "ready" /\ leakPanel.inventory.found = {} /\ Complete(leakPanel.inventory.silent) =>
        \A s \in Sources : \/ said[leakPanel.check][s] = "none"
                           \/ s = Cavalier /\ said[leakPanel.check][s] = "refused"

(* The same as leaks.ts:134-135 says it: a source that failed "must not be *)
(* mistaken for that source having nothing to report".                     *)
RefusalIsNotSilence ==
    leakPanel.kind = "ready" =>
        \A s \in Sources \ leakPanel.inventory.silent : said[leakPanel.check][s] # "refused"

(* One source failing does not take the others with it, and a source that  *)
(* was too late adds nothing (background/leaks.ts:110-138).                *)
EverySourceHeard ==
    leakPanel.kind = "ready" =>
        /\ \A s \in Sources : said[leakPanel.check][s] # "unasked"
        /\ leakPanel.inventory.found = {s \in Sources : said[leakPanel.check][s] = "found"}

(* An older check's inventory stands where a newer one's stood only when   *)
(* the button was pressed again before the page showed it was checking     *)
(* (options/index.ts:152-160).                                             *)
OldAnswerOnlyByDoublePress ==
    leakPanel.kind = "ready" /\ (\E d \in LeakChecks : d > leakPanel.check /\ lookups[d].step = "ended") =>
        ~ lookups[leakPanel.check].inSight

(* A check does not hold the panel on "asking the sources" for ever        *)
(* (background/leaks.ts:19-23).                                            *)
CheckEnds == (leakPanel.kind = "checking") ~> (leakPanel.kind # "checking")

(* The panel's answer is that of every source, and of the check last asked *)
(* for.                                                                    *)
AnswerIsEverySources ==
    /\ LeakTypeOK /\ CalmIsEarned /\ EverySourceHeard
    /\ OldAnswerOnlyByDoublePress
=============================================================================
