------------------------------ MODULE AgentGate -----------------------------
(***************************************************************************)
(* One frame of a page under the agent gate: the scan that says whether    *)
(* the page carries hidden instructions (content/index.ts, scan), the      *)
(* person who can say it is fine (resolveEverything), and the gate that    *)
(* holds what no person started (content/agent-gate.ts with                *)
(* core-gate/decide.ts) and asks in one panel (ui/gate/gate.ts).           *)
(*                                                                         *)
(* A task of the frame's event loop with the microtasks behind it is one   *)
(* step: a decision taken without waiting is journalled before the next    *)
(* event.  What overlaps is what waits: the answers of the background to   *)
(* several scans, the question on screen, and the deadline of every held   *)
(* action, which nothing cancels.                                          *)
(***************************************************************************)
EXTENDS Integers, Sequences, FiniteSets

CONSTANTS
    Actions,      \* the clicks and submits the page will see
    Nobody,       \* no action: the panel's holder while no question stands
    MaxScans      \* bound: scans of this frame waiting for their answer

ASSUME AgentGateAssumption ==
    /\ IsFiniteSet(Actions)
    /\ Nobody \notin Actions
    /\ MaxScans \in Nat \ {0}

(* What the list of unresolved findings says: null, [] or some.            *)
Readings == {"unread", "clean", "flagged"}

(* What a scan finds: no candidates, candidates no detector confirms, or   *)
(* an injection.                                                           *)
Contents == {"plain", "innocent", "hostile"}

(* What describe() makes of an event: nothing the gate is about, an action *)
(* it cannot name, one it can; or it throws, and the fallback stands in.   *)
Descriptions == {"declined", "unidentified", "named", "thrown"}

Passes == {"unread", "no finding", "declined", "human", "nested"}
Decisions == {"unidentified", "unavailable", "already-asking", "timeout", "user-blocked", "user-allowed"}

VARIABLES
    driven,       \* navigator.webdriver: the browser says it is driven
    top,          \* isTopFrame: only there is a banner drawn
    content,      \* what a scan of the page would find now
    due,          \* the pacer owes the page a scan
    asked,        \* per kind of candidates: scans waiting for their answer
    unresolved,   \* the list the gate reads
    banner,       \* a panel is up whose dismissal resolves everything
    inspector,    \* the evidence panel is open
    removed,      \* the sanitiser holds text it took out of the page
    gate,         \* the handle closeGate destroys, by the action it asks about
    panels,       \* the questions in the document
    timers,       \* the deadlines still to fire, oldest first
    fate          \* per action: new, held, or how it went

pageVars == <<content, due, asked, unresolved, banner, inspector, removed>>
gateVars == <<gate, panels, timers, fate>>
vars == <<driven, top, content, due, asked, unresolved, banner, inspector, removed,
          gate, panels, timers, fate>>

TypeOK ==
    /\ driven \in BOOLEAN /\ top \in BOOLEAN
    /\ content \in Contents /\ due \in BOOLEAN
    /\ asked \in [{"innocent", "hostile"} -> 0 .. MaxScans]
    /\ unresolved \in Readings
    /\ banner \in BOOLEAN /\ inspector \in BOOLEAN /\ removed \in BOOLEAN
    /\ gate \in Actions \cup {Nobody}
    /\ panels \subseteq Actions
    /\ timers \in Seq(Actions)
    /\ fate \in [Actions -> {"new", "held"} \cup Passes \cup Decisions]

Init ==
    /\ driven \in BOOLEAN /\ top \in BOOLEAN
    /\ content \in Contents /\ due = TRUE
    /\ asked = [c \in {"innocent", "hostile"} |-> 0]
    /\ unresolved = "unread"
    /\ banner = FALSE /\ inspector = FALSE /\ removed = FALSE
    /\ gate = Nobody /\ panels = {} /\ timers = <<>>
    /\ fate = [a \in Actions |-> "new"]

-----------------------------------------------------------------------------
(* The scan.  A page with no candidates is answered here, and the list is  *)
(* left as it was: a page the sanitiser has just emptied is such a page.   *)

EmptyClears == "clean"
AfterEmptyScan == unresolved
AfterScan(found) == IF found = "hostile" THEN "flagged" ELSE unresolved

ScanPlain ==
    /\ due /\ content = "plain"
    /\ due' = FALSE
    /\ unresolved' = AfterEmptyScan
    /\ UNCHANGED <<driven, top, content, asked, banner, inspector, removed>>
    /\ UNCHANGED gateVars

AskBackground ==
    /\ due /\ content # "plain"
    /\ asked["innocent"] + asked["hostile"] < MaxScans
    /\ due' = FALSE
    /\ asked' = [asked EXCEPT ![content] = @ + 1]
    /\ UNCHANGED <<driven, top, content, unresolved, banner, inspector, removed>>
    /\ UNCHANGED gateVars

(* The verdicts arrive.  What they name and is still in the page is taken  *)
(* out of it, which is a mutation; the gate arms; the top frame shows a    *)
(* banner, or the slot refuses it.                                         *)
Answered(c) ==
    /\ asked[c] > 0
    /\ asked' = [asked EXCEPT ![c] = @ - 1]
    /\ unresolved' = AfterScan(c)
    /\ IF c = "hostile"
         THEN /\ content' \in {"plain", content}
              /\ removed' = (removed \/ content' # content)
              /\ due' = TRUE
              /\ IF top THEN banner' \in {banner, TRUE} ELSE banner' = banner
         ELSE UNCHANGED <<content, removed, due, banner>>
    /\ UNCHANGED <<driven, top, inspector>>
    /\ UNCHANGED gateVars

(* safely(scan): the worker was gone and no answer comes.                  *)
Unanswered(c) ==
    /\ asked[c] > 0
    /\ asked' = [asked EXCEPT ![c] = @ - 1]
    /\ UNCHANGED <<driven, top, content, due, unresolved, banner, inspector, removed>>
    /\ UNCHANGED gateVars

PageChanges ==
    /\ content' \in Contents
    /\ due' = TRUE
    /\ UNCHANGED <<driven, top, asked, unresolved, banner, inspector, removed>>
    /\ UNCHANGED gateVars

-----------------------------------------------------------------------------
(* The person at the banner and the evidence.                              *)

(* resolveEverything                                                       *)
Resolved ==
    /\ unresolved' = "clean"
    /\ banner' = FALSE

DismissBanner ==
    /\ banner
    /\ Resolved
    /\ inspector' \in {FALSE, inspector}
    /\ UNCHANGED <<driven, top, content, due, asked, removed>>
    /\ UNCHANGED gateVars

OpenInspector ==
    /\ ~inspector
    /\ banner \/ panels # {}
    /\ inspector' = TRUE
    /\ UNCHANGED <<driven, top, content, due, asked, unresolved, banner, removed>>
    /\ UNCHANGED gateVars

DisputeEvidence ==
    /\ inspector
    /\ inspector' = FALSE
    /\ Resolved
    /\ UNCHANGED <<driven, top, content, due, asked, removed>>
    /\ UNCHANGED gateVars

CloseInspector ==
    /\ inspector
    /\ inspector' = FALSE
    /\ UNCHANGED <<driven, top, content, due, asked, unresolved, banner, removed>>
    /\ UNCHANGED gateVars

(* The text goes back where the page left room for it; the panel stays     *)
(* open over what could not go back.  The gate stays on either way.        *)
RestoreText ==
    /\ inspector /\ removed
    /\ \E done \in BOOLEAN :
           /\ inspector' = ~done
           /\ removed' \in {FALSE, ~done}
           /\ content' \in {"hostile", content}
           /\ due' = (due \/ content' # content)
    /\ UNCHANGED <<driven, top, asked, unresolved, banner>>
    /\ UNCHANGED gateVars

(* The password, frame, credential and other warnings claim and release    *)
(* the same panel; the first two resolve everything when dismissed.        *)
OtherWarning ==
    /\ top
    /\ banner' = ~banner
    /\ UNCHANGED <<driven, top, content, due, asked, unresolved, inspector, removed>>
    /\ UNCHANGED gateVars

-----------------------------------------------------------------------------
(* The gate.                                                               *)

(* The fallback for a description that threw cannot name the action, and   *)
(* takes the browser for a driven one when it cannot tell.                 *)
Described(d) == IF d = "thrown" THEN "unidentified" ELSE d

(* assessAction, on a flagged page                                         *)
Assessed(d, trusted, automated) ==
    IF d # "declined" /\ trusted /\ ~automated THEN "human" ELSE Described(d)

PassesBy(a, how) ==
    /\ fate' = [fate EXCEPT ![a] = how]
    /\ UNCHANGED <<gate, panels, timers>>

(* Held: expiry() is called for every held action, the question or its     *)
(* refusal coming after it.                                                *)
OneDeadline(a) == IF timers = <<>> THEN <<a>> ELSE timers
DeadlineOf(a) == Append(timers, a)

HeldAs(a, how) ==
    /\ timers' = DeadlineOf(a)
    /\ fate' = [fate EXCEPT ![a] = how]

(* askTheUser: one question at a time, and a panel that cannot be mounted  *)
(* is a block.                                                             *)
AskOver == TRUE
MayAsk == gate = Nobody

AskTheUser(a) ==
    IF MayAsk
      THEN \/ /\ gate' = a
              /\ panels' = panels \cup {a}
              /\ HeldAs(a, "held")
           \/ /\ HeldAs(a, "unavailable")
              /\ UNCHANGED <<gate, panels>>
      ELSE /\ HeldAs(a, "already-asking")
           /\ UNCHANGED <<gate, panels>>

Weigh(a, verdict) ==
    \/ verdict \in {"human", "declined"} /\ PassesBy(a, verdict)
    \/ verdict = "unidentified" /\ HeldAs(a, verdict) /\ UNCHANGED <<gate, panels>>
    \/ verdict = "named" /\ AskTheUser(a)

(* #intercept: what has not been read passes and is noted, what is clean   *)
(* passes, the rest is weighed.                                            *)
Intercept(a) ==
    /\ fate[a] = "new"
    /\ \E d \in Descriptions, trusted, unsure \in BOOLEAN :
           /\ unsure => d = "thrown"
           /\ \/ /\ unresolved = "unread"
                 /\ PassesBy(a, IF d = "declined" THEN d ELSE "unread")
              \/ /\ unresolved = "clean"
                 /\ PassesBy(a, "no finding")
              \/ /\ unresolved = "flagged"
                 /\ Weigh(a, Assessed(d, trusted, driven \/ unsure))
    /\ UNCHANGED <<driven, top>>
    /\ UNCHANGED pageVars

(* closeGate: the handle's panel, whichever action it asks about           *)
CloseGate ==
    /\ gate' = Nobody
    /\ panels' = panels \ {gate}

Block(a) ==
    /\ a \in panels /\ fate[a] = "held"
    /\ CloseGate
    /\ fate' = [fate EXCEPT ![a] = "user-blocked"]
    /\ UNCHANGED <<driven, top, timers>>
    /\ UNCHANGED pageVars

(* Allowed once, and replayed: while the page runs its own handlers inside *)
(* the replay, what they dispatch passes too.                              *)
AllowOnce(a) ==
    /\ a \in panels /\ fate[a] = "held"
    /\ CloseGate
    /\ \E inside \in {{}} \cup {{b} : b \in {c \in Actions : fate[c] = "new"}} :
           fate' = [b \in Actions |-> IF b = a THEN "user-allowed"
                                      ELSE IF b \in inside THEN "nested" ELSE fate[b]]
    /\ UNCHANGED <<driven, top, timers>>
    /\ UNCHANGED pageVars

(* The oldest deadline: it takes down whatever panel is up, and blocks its *)
(* own action if that still waits.                                         *)
Expire ==
    /\ timers # <<>>
    /\ timers' = Tail(timers)
    /\ CloseGate
    /\ fate' = [fate EXCEPT ![Head(timers)] = IF @ = "held" THEN "timeout" ELSE @]
    /\ UNCHANGED <<driven, top>>
    /\ UNCHANGED pageVars

-----------------------------------------------------------------------------
Next ==
    \/ ScanPlain \/ AskBackground
    \/ \E c \in {"innocent", "hostile"} : Answered(c) \/ Unanswered(c)
    \/ PageChanges
    \/ DismissBanner \/ OpenInspector \/ DisputeEvidence \/ CloseInspector
    \/ RestoreText \/ OtherWarning
    \/ \E a \in Actions : Intercept(a) \/ Block(a) \/ AllowOnce(a)
    \/ Expire

(* setTimeout fires; nothing else is owed: the page may stay as it is and  *)
(* the person may never come back.                                         *)
Spec == Init /\ [][Next]_vars /\ WF_vars(Expire)

-----------------------------------------------------------------------------
(* Every question on screen is the one closeGate can reach, and asks about *)
(* an action that is still held: no second panel covers the first, and no  *)
(* panel outlives the decision it asks for (askTheUser; GATE_TIMEOUT_MS:   *)
(* "A modal left standing after the action was already blocked is a page   *)
(* the user cannot use").                                                  *)
PanelAsksOfTheHeld ==
    /\ panels \subseteq {gate}
    /\ \A a \in panels : fate[a] = "held"

(* No action is held without a deadline of its own ahead of it, whichever  *)
(* panel another deadline or answer has taken down meanwhile (expiry).     *)
HeldHasDeadline ==
    \A a \in Actions : fate[a] = "held" => \E i \in 1 .. Len(timers) : timers[i] = a

(* Once the list names a finding it goes on naming one until a person      *)
(* closes the banner or the evidence over it: the sanitiser emptying the   *)
(* page, the page taking its text out, a scan that finds nothing or a late *)
(* answer never stand the gate down (scan, resolveEverything).             *)
FlagStandsUntilResolved ==
    [][unresolved = "flagged" /\ unresolved' # "flagged"
         => (banner /\ ~banner') \/ (inspector /\ ~inspector')]_vars

(* Every held action comes to a decision, answered or not ("Running out    *)
(* blocks", GATE_TIMEOUT_MS).                                              *)
HeldIsDecided == \A a \in Actions : fate[a] = "held" ~> fate[a] # "held"

(* A question stands over a held action, and no action is held without an  *)
(* end.                                                                    *)
QuestionsAreOfTheHeld == PanelAsksOfTheHeld /\ HeldHasDeadline
=============================================================================
