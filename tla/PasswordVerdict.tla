--------------------------- MODULE PasswordVerdict --------------------------
(***************************************************************************)
(* A leak verdict on a submitted password, in one tab: the background's    *)
(* check (background/index.ts, handlePasswordCheck), the record it holds   *)
(* for the tab (background/pending-password.ts), and the documents that    *)
(* follow one another there, each of which may draw it and say so          *)
(* (content/index.ts).                                                     *)
(*                                                                         *)
(* The submission navigates, so the document that asked may be gone when   *)
(* the answer comes.  Three ways lead to a document: the answer itself, a  *)
(* push to whatever document the tab has, and the question each document   *)
(* asks as it starts.  A receipt, sent when a banner has stood for a       *)
(* moment, ends it.  Whatever awaits in the background may be overtaken,   *)
(* and the worker may be stopped at any await.                             *)
(***************************************************************************)
EXTENDS Integers, FiniteSets

CONSTANTS
    Verdicts,     \* the submissions whose password is in a breach
    Marks,        \* what a document tells verdicts apart by: host and code
    MarkOf,       \* the mark of each verdict
    None,
    MaxDocs       \* bound: documents the tab goes through

ASSUME PasswordVerdictAssumption ==
    /\ IsFiniteSet(Verdicts)
    /\ MarkOf \in [Verdicts -> Marks]
    /\ None \notin Verdicts \cup Marks
    /\ MaxDocs \in Nat \ {0}

Docs == 1 .. MaxDocs

(* Where the check of a verdict stands, await by await.                    *)
Stages == {"new", "checking", "hold", "held", "sent", "unchecked", "lost"}

(* A document's question: not asked, in the background, found too old and  *)
(* about to be removed, answered with nothing, or unanswered.              *)
NoVerdict == {"no", "asked", "expired", "nothing", "failed"}

VARIABLES
    stage,        \* per verdict
    waiting,      \* verdicts this document has submitted and not heard of
    held,         \* the tab's record in storage.local
    old,          \* that record is past PENDING_TTL_MS
    pushes,       \* verdicts pushed and not yet delivered
    answers,      \* answers on their way to the document that asked
    question,     \* per document
    doc,          \* the tab's document
    started,      \* its content script runs
    shownVerdict, \* the mark it last showed
    panel,        \* its one panel: see Panels
    drawn,        \* the mark of the banner that panel is, if it is ours
    own,          \* the dwell of that banner still runs
    behind,       \* dwells started since, of claims that panel refused
    dwells,       \* other dwells that still run in it
    receipts,     \* password/shown on its way
    told,         \* history: marks this document has claimed a panel for
    crowded,      \* history: a banner was refused the panel or lost it early
    seen          \* history: marks whose banner stood, or was pressed

workerVars == <<stage, waiting, held, old>>
wireVars == <<pushes, answers, question>>
slotVars == <<panel, drawn, own, behind, dwells>>
pageVars == <<shownVerdict, slotVars, told, crowded>>
vars == <<workerVars, wireVars, doc, started, pageVars, receipts, seen>>

(* The panel is free for a leak (a lesser warning gives way to it), a leak *)
(* banner, or held by a warning as bad, or by a banner the page took down. *)
Panels == {"free", "ours", "other"}

TypeOK ==
    /\ stage \in [Verdicts -> Stages]
    /\ waiting \subseteq Verdicts
    /\ held \in Verdicts \cup {None} /\ old \in BOOLEAN
    /\ pushes \subseteq Verdicts /\ answers \subseteq Verdicts
    /\ question \in [Docs -> NoVerdict \cup Verdicts]
    /\ doc \in Docs /\ started \in BOOLEAN
    /\ shownVerdict \in Marks \cup {None}
    /\ panel \in Panels /\ drawn \in Marks \cup {None}
    /\ own \in BOOLEAN /\ behind \in Nat /\ dwells \in Nat
    /\ receipts \in Nat
    /\ told \subseteq Marks /\ crowded \in BOOLEAN /\ seen \subseteq Marks

Init ==
    /\ stage = [v \in Verdicts |-> "new"]
    /\ waiting = {}
    /\ held = None /\ old = FALSE
    /\ pushes = {} /\ answers = {}
    /\ question = [d \in Docs |-> "no"]
    /\ doc = 1 /\ started = FALSE
    /\ shownVerdict = None /\ panel = "free" /\ drawn = None
    /\ own = FALSE /\ behind = 0 /\ dwells = 0
    /\ receipts = 0
    /\ told = {} /\ crowded = FALSE /\ seen = {}

-----------------------------------------------------------------------------
(* handlePasswordCheck, for a password that turns out compromised.         *)

Submit(v) ==
    /\ started /\ stage[v] = "new"
    /\ stage' = [stage EXCEPT ![v] = "checking"]
    /\ waiting' = waiting \cup {v}
    /\ UNCHANGED <<held, old, wireVars, doc, started, pageVars, receipts, seen>>

(* The range, the reuse index and the journal have answered; a failure of  *)
(* the journal is swallowed.                                               *)
Advance(v, from, to) ==
    /\ stage[v] = from
    /\ stage' = [stage EXCEPT ![v] = to]
    /\ UNCHANGED <<waiting, held, old, wireVars, doc, started, pageVars, receipts, seen>>

Journalled(v) == Advance(v, "checking", "hold")

(* The check throws: the document that asked notes it.                     *)
CheckFails(v) == Advance(v, "checking", "unchecked")

(* holdVerdict: one record for the tab, replaced by the later one.         *)
HoldVerdict(v) ==
    /\ stage[v] = "hold"
    /\ stage' = [stage EXCEPT ![v] = "held"]
    /\ held' = v /\ old' = FALSE
    /\ UNCHANGED <<waiting, wireVars, doc, started, pageVars, receipts, seen>>

(* The push, which nothing waits for, and the answer behind it, which a    *)
(* document that is gone does not hear.                                    *)
PushAndAnswer(v) ==
    /\ stage[v] = "held"
    /\ stage' = [stage EXCEPT ![v] = "sent"]
    /\ pushes' = pushes \cup {v}
    /\ answers' = answers \cup ({v} \cap waiting)
    /\ UNCHANGED <<waiting, held, old, question, doc, started, pageVars, receipts, seen>>

(* A minute passes.                                                        *)
Ages ==
    /\ held # None /\ ~old
    /\ old' = TRUE
    /\ UNCHANGED <<stage, waiting, held, wireVars, doc, started, pageVars, receipts, seen>>

-----------------------------------------------------------------------------
(* takeVerdict and releaseVerdict.  Answering consumes nothing.            *)

Ask(d, q) == question' = [question EXCEPT ![d] = q]

TakeConsumes(d) ==
    /\ question[d] = "asked"
    /\ Ask(d, IF held = None \/ old THEN "nothing" ELSE held)
    /\ held' = None /\ old' = FALSE
    /\ UNCHANGED <<stage, waiting, pushes, answers, doc, started, pageVars, receipts, seen>>

TakeReads(d) ==
    /\ question[d] = "asked"
    /\ Ask(d, IF held = None THEN "nothing" ELSE IF old THEN "expired" ELSE held)
    /\ UNCHANGED <<workerVars, pushes, answers, doc, started, pageVars, receipts, seen>>

(* The record is removed in a call of its own, whatever it holds by then.  *)
TakeRemoves(d) ==
    /\ question[d] = "expired"
    /\ Ask(d, "nothing")
    /\ held' = None /\ old' = FALSE
    /\ UNCHANGED <<stage, waiting, pushes, answers, doc, started, pageVars, receipts, seen>>

(* A receipt names the tab it comes from and no verdict.                   *)
ReceiptArrives ==
    /\ receipts > 0
    /\ receipts' = receipts - 1
    /\ held' = None /\ old' = FALSE
    /\ UNCHANGED <<stage, waiting, wireVars, doc, started, pageVars, seen>>

(* The browser stops the worker: what it was doing is lost, and the        *)
(* questions it had not answered fail.  Receipts may be lost with it.      *)
Stop ==
    /\ \/ \E v \in Verdicts : stage[v] \in {"checking", "hold", "held"}
       \/ \E d \in Docs : question[d] \in {"asked", "expired"}
       \/ receipts > 0
    /\ stage' = [v \in Verdicts |->
           IF stage[v] \in {"checking", "hold"} THEN "unchecked"
           ELSE IF stage[v] = "held" THEN "lost" ELSE stage[v]]
    /\ question' = [d \in Docs |->
           IF question[d] \in {"asked", "expired"} THEN "failed" ELSE question[d]]
    /\ receipts' \in {0, receipts}
    /\ UNCHANGED <<waiting, held, old, pushes, answers, doc, started, pageVars, seen>>

-----------------------------------------------------------------------------
(* claimPasswordBanner: the dwell is set first, and runs whatever becomes  *)
(* of the claim.  The slot gives the panel if it is free; a banner refused *)
(* for another warning leaves a line on the panel that is up.              *)
ClaimPasswordBanner(v) ==
    /\ told' = told \cup {MarkOf[v]}
    /\ \/ /\ panel = "free"
          /\ panel' = "ours" /\ drawn' = MarkOf[v] /\ own' = TRUE
          /\ UNCHANGED <<behind, dwells, crowded>>
       \/ /\ panel # "free"
          /\ behind' = IF own THEN behind + 1 ELSE behind
          /\ dwells' = IF own THEN dwells ELSE dwells + 1
          /\ crowded' = (crowded \/ drawn # MarkOf[v])
          /\ UNCHANGED <<panel, drawn, own>>

(* showPasswordVerdict: once for each mark in a row.                       *)
ShowPasswordVerdict(v) ==
    IF MarkOf[v] = shownVerdict
      THEN UNCHANGED pageVars
      ELSE /\ shownVerdict' = MarkOf[v]
           /\ ClaimPasswordBanner(v)

(* A push finds the tab's document listening, or nobody.                   *)
PushArrives(v) ==
    /\ v \in pushes
    /\ pushes' = pushes \ {v}
    /\ IF started THEN ShowPasswordVerdict(v) ELSE UNCHANGED pageVars
    /\ UNCHANGED <<workerVars, answers, question, doc, started, receipts, seen>>

(* The answer is drawn without the mark that would keep a push away.       *)
AnswerArrives(v) ==
    /\ v \in answers
    /\ answers' = answers \ {v}
    /\ waiting' = waiting \ {v}
    /\ ClaimPasswordBanner(v) /\ UNCHANGED shownVerdict
    /\ UNCHANGED <<stage, held, old, pushes, question, doc, started, receipts, seen>>

FoundArrives(d) ==
    /\ question[d] \in Verdicts
    /\ Ask(d, "nothing")
    /\ IF d = doc THEN ShowPasswordVerdict(question[d]) ELSE UNCHANGED pageVars
    /\ UNCHANGED <<workerVars, pushes, answers, doc, started, receipts, seen>>

(* receipt: by the dwell of any claim, the refused ones included, or at    *)
(* once by a control.  It does not look whether its banner is still up.    *)
Receipt == receipts' = receipts + 1

(* The dwell of the banner that is up is over, whatever ended it; those    *)
(* behind it run on.  Dwells are of one length and end as they began.      *)
OwnOver == own' = FALSE /\ behind' = 0

DwellEnds ==
    /\ \/ /\ own /\ dwells = 0 /\ OwnOver
          /\ dwells' = behind
          /\ seen' = seen \cup {drawn}
       \/ /\ dwells > 0 /\ dwells' = dwells - 1
          /\ UNCHANGED <<own, behind, seen>>
    /\ Receipt
    /\ UNCHANGED <<workerVars, wireVars, doc, started, shownVerdict, panel, drawn,
                   told, crowded>>

(* A control of the banner; all but the primary one close it.              *)
Press ==
    /\ panel = "ours"
    /\ \/ UNCHANGED <<panel, drawn>>
       \/ panel' = "free" /\ drawn' = None
    /\ OwnOver
    /\ dwells' = dwells + behind
    /\ seen' = seen \cup {drawn}
    /\ IF own THEN Receipt ELSE UNCHANGED receipts
    /\ UNCHANGED <<workerVars, wireVars, doc, started, shownVerdict, told, crowded>>

(* A worse warning takes the panel over, the page takes it down for good,  *)
(* or an answer given elsewhere resolves everything: the dwell of what was *)
(* displaced runs on.                                                      *)
Displaced ==
    /\ panel = "ours"
    /\ panel' \in {"other", "free"} /\ drawn' = None
    /\ OwnOver
    /\ dwells' = dwells + behind + (IF own THEN 1 ELSE 0)
    /\ crowded' = (crowded \/ own)
    /\ UNCHANGED <<workerVars, wireVars, doc, started, shownVerdict, receipts, told, seen>>

OtherWarning ==
    /\ started /\ panel = "free"
    /\ panel' = "other"
    /\ UNCHANGED <<workerVars, wireVars, doc, started, shownVerdict, drawn, own, behind,
                   dwells, receipts, told, crowded, seen>>

OtherCloses ==
    /\ panel = "other"
    /\ panel' = "free"
    /\ UNCHANGED <<workerVars, wireVars, doc, started, shownVerdict, drawn, own, behind,
                   dwells, receipts, told, crowded, seen>>

-----------------------------------------------------------------------------
(* The tab.                                                                *)

(* pagehide: no dwell outlives the document it runs in, nor does the       *)
(* promise of an answer.                                                   *)
DwellsLeft == dwells + behind + (IF own THEN 1 ELSE 0)
DwellsKept == 0

Navigate ==
    /\ doc < MaxDocs
    /\ doc' = doc + 1 /\ started' = FALSE
    /\ shownVerdict' = None /\ panel' = "free" /\ drawn' = None
    /\ OwnOver /\ dwells' = DwellsKept
    /\ told' = {}
    /\ waiting' = {} /\ answers' = {}
    /\ UNCHANGED <<stage, held, old, pushes, question, receipts, crowded, seen>>

(* The content script listens before it asks.                              *)
Start ==
    /\ ~started
    /\ started' = TRUE
    /\ Ask(doc, "asked")
    /\ UNCHANGED <<workerVars, pushes, answers, doc, pageVars, receipts, seen>>

-----------------------------------------------------------------------------

Worker(v) == Journalled(v) \/ HoldVerdict(v) \/ PushAndAnswer(v)
Arrives(v) == PushArrives(v) \/ AnswerArrives(v)
Questioned(d) == TakeReads(d) \/ TakeRemoves(d) \/ FoundArrives(d)

Next ==
    \/ \E v \in Verdicts : Submit(v) \/ Worker(v) \/ CheckFails(v) \/ Arrives(v)
    \/ \E d \in Docs : Questioned(d)
    \/ ReceiptArrives \/ DwellEnds \/ Press
    \/ Displaced \/ OtherWarning \/ OtherCloses
    \/ Navigate \/ Start
    \/ Ages \/ Stop

Spec == Init /\ [][Next]_vars

(* What is sent arrives, what is awaited is answered, a document that      *)
(* stays starts its script and its timers run out: as long as something of *)
(* the kind is under way, some of it happens, and there is only so much.   *)
(* Nothing is owed by the person, and nothing keeps the worker from being  *)
(* stopped.                                                                *)
Progress ==
    \/ \E v \in Verdicts : Worker(v) \/ Arrives(v)
    \/ \E d \in Docs : Questioned(d)
    \/ Start \/ DwellEnds

LiveSpec == Spec /\ WF_vars(Progress)

-----------------------------------------------------------------------------
(* Safety.                                                                 *)

(* A verdict that is still fresh leaves the tab's record only to a newer   *)
(* one, once some banner of the tab has stood for its dwell or was         *)
(* pressed, by the hand of a question that found its predecessor too old,  *)
(* or where the slot refused a banner or it lost its panel before its      *)
(* dwell ended: the receipt waits for the moment and not, as its comment   *)
(* says, for the panel (content/index.ts:568).  Navigating away loses      *)
(* nothing (B-82).                                                         *)
FreshLeavesOnlySeen ==
    [][held # None /\ ~old /\ held' = None =>
           \/ seen # {} \/ crowded
           \/ \E d \in Docs : question[d] = "expired"]_vars

-----------------------------------------------------------------------------
(* Liveness.                                                               *)

(* The hand-over was cut by a stop of the worker.                          *)
Interrupted(v) == stage[v] = "lost" \/ question[doc] = "failed"

(* However the documents of the tab follow one another, a verdict held for *)
(* it comes to the document that stays.                                    *)
ReachesTheDocument ==
    \A v \in Verdicts :
        (held = v) ~> (MarkOf[v] \in told \/ held # v \/ old \/ Interrupted(v))

(* The banner of the only verdict of a tab stands for its dwell or is      *)
(* pressed, unless it was refused the panel or lost it early, or the       *)
(* record grows old.  (With two, a receipt for the one releases the        *)
(* other.)                                                                 *)
OnlyVerdictIsSeen ==
    \A v \in Verdicts :
        (held = v) ~> (\/ MarkOf[v] \in seen \/ crowded \/ old \/ Interrupted(v)
                       \/ \E w \in Verdicts \ {v} : stage[w] # "new")

(* A verdict comes to the document that stays, and the banner of a tab's   *)
(* only one stands there long enough to be read unless it was crowded out. *)
VerdictIsSeen == ReachesTheDocument /\ OnlyVerdictIsSeen
=============================================================================
