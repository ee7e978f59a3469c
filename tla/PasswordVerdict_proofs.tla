----------------------- MODULE PasswordVerdict_proofs -----------------------
(***************************************************************************)
(* What holds of the verdicts of a tab for any submissions, any marks and  *)
(* any number of documents.                                                *)
(***************************************************************************)
EXTENDS PasswordVerdict, TLAPS

(* The type, by who owns the variables; the flags apart.                   *)
WorkerTyped ==
    /\ stage \in [Verdicts -> Stages]
    /\ waiting \subseteq Verdicts
    /\ held \in Verdicts \cup {None}
WireTyped ==
    /\ pushes \subseteq Verdicts /\ answers \subseteq Verdicts
    /\ question \in [Docs -> NoVerdict \cup Verdicts]
PageTyped ==
    /\ shownVerdict \in Marks \cup {None}
    /\ panel \in Panels
    /\ drawn \in Marks \cup {None}
    /\ behind \in Nat /\ dwells \in Nat
    /\ told \subseteq Marks
TabTyped ==
    /\ doc \in Docs
    /\ receipts \in Nat /\ seen \subseteq Marks
Flags == /\ old \in BOOLEAN /\ started \in BOOLEAN
         /\ own \in BOOLEAN /\ crowded \in BOOLEAN

(* Some banner of the tab stood or was pressed, or one was crowded out.    *)
Told == seen # {} \/ crowded

(* The banner that is up has a mark, and once its dwell is over it was     *)
(* seen; dwells are behind it only while its own runs, and any other one   *)
(* was set for a banner that was seen or crowded out, as was the one whose *)
(* receipt is on its way.                                                  *)
PanelDrawn == panel = "ours" <=> drawn # None
OwnPanel == own => panel = "ours"
BehindOwn == behind > 0 => own
PanelSeen == panel = "ours" /\ ~own => seen # {}
DwellTold == dwells > 0 => Told
ReceiptTold == receipts > 0 => Told
Slot == PanelDrawn /\ OwnPanel /\ BehindOwn /\ PanelSeen /\ DwellTold

Inv == /\ WorkerTyped /\ WireTyped /\ PageTyped /\ TabTyped /\ Flags
       /\ Slot /\ ReceiptTold

LEMMA InvTyped == Inv => TypeOK
BY DEF Inv, TypeOK, WorkerTyped, WireTyped, PageTyped, TabTyped, Flags

LEMMA InitInv == Init => Inv
<1> SUFFICES ASSUME Init PROVE Inv
  OBVIOUS
<1>1. WorkerTyped /\ WireTyped /\ PageTyped
  BY DEF Init, WorkerTyped, WireTyped, PageTyped, Stages, NoVerdict, Panels
<1>2. TabTyped
  BY PasswordVerdictAssumption DEF Init, TabTyped, Docs
<1>3. Flags
  BY DEF Init, Flags
<1>4. Slot /\ ReceiptTold
  BY DEF Init, Slot, PanelDrawn, OwnPanel, BehindOwn, PanelSeen, DwellTold, ReceiptTold
<1> QED BY <1>1, <1>2, <1>3, <1>4 DEF Inv

-----------------------------------------------------------------------------
(* What a step leaves alone stays true.                                    *)

LEMMA WorkerStays ==
    ASSUME WorkerTyped, UNCHANGED <<stage, waiting, held>> PROVE WorkerTyped'
BY DEF WorkerTyped
LEMMA WireStays ==
    ASSUME WireTyped, UNCHANGED <<pushes, answers, question>> PROVE WireTyped'
BY DEF WireTyped
LEMMA SlotStays ==
    ASSUME PageTyped, Slot, UNCHANGED <<pageVars, seen>>
    PROVE  PageTyped' /\ Slot' /\ Told' = Told
BY DEF PageTyped, Slot, PanelDrawn, OwnPanel, BehindOwn, PanelSeen, DwellTold, Told, pageVars,
       slotVars
LEMMA TabStays ==
    ASSUME TabTyped, UNCHANGED <<doc, receipts, seen>>
    PROVE  TabTyped'
BY DEF TabTyped
LEMMA ReceiptStays ==
    ASSUME ReceiptTold, receipts' = receipts, Told => Told'
    PROVE  ReceiptTold'
BY DEF ReceiptTold

-----------------------------------------------------------------------------
(* The background.  Its steps touch neither the page nor, but for a        *)
(* receipt, what the tab has seen.                                         *)

LEMMA WorkerKeeps ==
    ASSUME Inv, NEW v \in Verdicts, Submit(v) \/ Worker(v) \/ CheckFails(v)
    PROVE  Inv'
<1> USE DEF Inv
<1>1. UNCHANGED <<pageVars, doc, question, receipts, seen, started>>
  BY DEF Submit, Worker, CheckFails, Journalled, HoldVerdict, PushAndAnswer, Advance, wireVars
<1>2. PageTyped' /\ Slot' /\ Told' = Told
  BY <1>1, SlotStays
<1>3. TabTyped' /\ ReceiptTold'
  BY <1>1, <1>2, TabStays, ReceiptStays
<1>4. Flags'
  <2>1. old' = old \/ old' = FALSE
    BY DEF Submit, Worker, CheckFails, Journalled, HoldVerdict, PushAndAnswer, Advance
  <2> QED BY <1>1, <2>1 DEF Flags, pageVars, slotVars
<1>5. WorkerTyped' /\ WireTyped'
  <2>1. CASE Submit(v)
    BY <2>1 DEF Submit, WorkerTyped, WireTyped, wireVars, Stages
  <2>2. CASE Journalled(v) \/ CheckFails(v)
    BY <2>2 DEF Journalled, CheckFails, Advance, WorkerTyped, WireTyped, wireVars, Stages
  <2>3. CASE HoldVerdict(v)
    BY <2>3 DEF HoldVerdict, WorkerTyped, WireTyped, wireVars, Stages
  <2>4. CASE PushAndAnswer(v)
    BY <2>4 DEF PushAndAnswer, WorkerTyped, WireTyped, Stages
  <2> QED BY <2>1, <2>2, <2>3, <2>4 DEF Worker
<1> QED BY <1>2, <1>3, <1>4, <1>5

LEMMA QuestionStays ==
    ASSUME WireTyped, NEW d \in Docs, NEW q \in NoVerdict \cup Verdicts, Ask(d, q),
           UNCHANGED <<pushes, answers>>
    PROVE  WireTyped'
BY DEF WireTyped, Ask

LEMMA TakeKeeps ==
    ASSUME Inv, NEW d \in Docs, TakeReads(d) \/ TakeRemoves(d)
    PROVE  Inv'
<1> USE DEF Inv
<1>1. UNCHANGED <<stage, waiting, pushes, answers, doc, started, pageVars, receipts, seen>>
  BY DEF TakeReads, TakeRemoves, workerVars
<1>2. held' \in Verdicts \cup {None}
  BY DEF TakeReads, TakeRemoves, workerVars, WorkerTyped
<1>3. WorkerTyped'
  BY <1>1, <1>2 DEF WorkerTyped
<1>4. WireTyped'
  <2>1. CASE TakeReads(d)
    <3>1. PICK q \in NoVerdict \cup Verdicts : Ask(d, q)
      BY <2>1 DEF TakeReads, WorkerTyped, NoVerdict
    <3> QED BY <1>1, <3>1, QuestionStays
  <2>2. CASE TakeRemoves(d)
    <3>1. Ask(d, "nothing") /\ "nothing" \in NoVerdict \cup Verdicts
      BY <2>2 DEF TakeRemoves, NoVerdict
    <3> QED BY <1>1, <3>1, QuestionStays
  <2> QED BY <2>1, <2>2
<1>5. PageTyped' /\ Slot' /\ Told' = Told
  BY <1>1, SlotStays
<1>6. TabTyped' /\ ReceiptTold'
  BY <1>1, <1>5, TabStays, ReceiptStays
<1>7. Flags'
  <2>1. old' = old \/ old' = FALSE
    BY DEF TakeReads, TakeRemoves, workerVars
  <2> QED BY <1>1, <2>1 DEF Flags, pageVars, slotVars
<1> QED BY <1>3, <1>4, <1>5, <1>6, <1>7

LEMMA ReceiptKeeps ==
    ASSUME Inv, ReceiptArrives
    PROVE  Inv'
<1> USE DEF Inv
<1>1. UNCHANGED <<stage, waiting, wireVars, doc, started, pageVars, seen>>
  BY DEF ReceiptArrives
<1>2. WorkerTyped'
  BY <1>1 DEF ReceiptArrives, WorkerTyped
<1>3. WireTyped'
  BY <1>1, WireStays DEF wireVars
<1>4. PageTyped' /\ Slot' /\ Told' = Told
  BY <1>1, SlotStays
<1>5. TabTyped' /\ ReceiptTold'
  BY <1>1, <1>4 DEF ReceiptArrives, TabTyped, ReceiptTold
<1>6. Flags'
  BY <1>1 DEF ReceiptArrives, Flags, pageVars, slotVars
<1> QED BY <1>2, <1>3, <1>4, <1>5, <1>6

LEMMA StopKeeps ==
    ASSUME Inv, Stop
    PROVE  Inv'
<1> USE DEF Inv
<1>1. UNCHANGED <<waiting, held, old, pushes, answers, doc, started, pageVars, seen>>
  BY DEF Stop
<1>2. stage' \in [Verdicts -> Stages]
  BY DEF Stop, WorkerTyped, Stages
<1>3. question' \in [Docs -> NoVerdict \cup Verdicts]
  BY DEF Stop, WireTyped, NoVerdict
<1>4. receipts' = 0 \/ receipts' = receipts
  BY DEF Stop
<1>5. WorkerTyped' /\ WireTyped'
  BY <1>1, <1>2, <1>3 DEF WorkerTyped, WireTyped
<1>6. PageTyped' /\ Slot' /\ Told' = Told
  BY <1>1, SlotStays
<1>7. TabTyped' /\ ReceiptTold' /\ Flags'
  BY <1>1, <1>4, <1>6 DEF TabTyped, ReceiptTold, Flags, pageVars, slotVars
<1> QED BY <1>5, <1>6, <1>7

LEMMA AgesKeeps ==
    ASSUME Inv, Ages
    PROVE  Inv'
<1> USE DEF Inv
<1>1. UNCHANGED <<stage, waiting, held, wireVars, doc, started, pageVars, receipts, seen>>
  BY DEF Ages
<1>2. WorkerTyped' /\ WireTyped'
  BY <1>1, WorkerStays, WireStays DEF wireVars
<1>3. PageTyped' /\ Slot' /\ Told' = Told
  BY <1>1, SlotStays
<1>4. TabTyped' /\ ReceiptTold'
  BY <1>1, <1>3, TabStays, ReceiptStays
<1>5. Flags'
  BY <1>1 DEF Ages, Flags, pageVars, slotVars
<1> QED BY <1>2, <1>3, <1>4, <1>5

-----------------------------------------------------------------------------
(* The documents.                                                          *)

(* What a claim does to the page, and a repeat does not.                   *)
LEMMA ClaimKeeps ==
    ASSUME Inv, NEW v \in Verdicts, ClaimPasswordBanner(v), seen' = seen,
           shownVerdict' \in Marks \cup {None}, UNCHANGED <<started, old>>
    PROVE  PageTyped' /\ Flags' /\ Slot' /\ (Told => Told')
<1> USE DEF Inv
<1>1. MarkOf[v] \in Marks /\ MarkOf[v] # None
  BY PasswordVerdictAssumption
<1>2. CASE panel = "free"
  <2>1. /\ panel' = "ours" /\ drawn' = MarkOf[v] /\ own' = TRUE
        /\ UNCHANGED <<behind, dwells, crowded>> /\ told' = told \cup {MarkOf[v]}
    BY <1>2 DEF ClaimPasswordBanner
  <2>2. PageTyped'
    BY <1>1, <2>1 DEF PageTyped, Panels
  <2>3. Flags'
    BY <2>1 DEF Flags
  <2>4. Slot' /\ (Told => Told')
    BY <1>1, <2>1 DEF Slot, PanelDrawn, OwnPanel, BehindOwn, PanelSeen, DwellTold, Told
  <2> QED BY <2>2, <2>3, <2>4
<1>3. CASE panel # "free"
  <2>1. /\ told' = told \cup {MarkOf[v]}
        /\ behind' = IF own THEN behind + 1 ELSE behind
        /\ dwells' = IF own THEN dwells ELSE dwells + 1
        /\ crowded' = (crowded \/ drawn # MarkOf[v])
        /\ UNCHANGED <<panel, drawn, own>>
    BY <1>3, Zenon DEF ClaimPasswordBanner
  <2>2. PageTyped'
    BY <1>1, <2>1 DEF PageTyped
  <2>3. Flags'
    BY <2>1 DEF Flags
  <2>4. Told => Told'
    BY <2>1, Zenon DEF Told
  <2>5. DwellTold'
    <3>1. CASE own
      BY <2>1, <2>4, <3>1 DEF Slot, DwellTold
    <3>2. CASE ~own /\ panel = "ours"
      BY <2>1, <3>2 DEF Slot, PanelSeen, DwellTold, Told
    <3>3. CASE panel # "ours"
      <4>1. drawn # MarkOf[v]
        BY <1>1, <3>3 DEF Slot, PanelDrawn
      <4> QED BY <2>1, <4>1, Zenon DEF DwellTold, Told
    <3> QED BY <3>1, <3>2, <3>3
  <2>6. PanelDrawn' /\ OwnPanel' /\ BehindOwn' /\ PanelSeen'
    <3>1. behind' = behind \/ own
      BY <2>1
    <3> QED BY <2>1, <3>1 DEF Slot, PanelDrawn, OwnPanel, BehindOwn, PanelSeen
  <2> QED BY <2>2, <2>3, <2>4, <2>5, <2>6 DEF Slot
<1> QED BY <1>2, <1>3

LEMMA ShowKeeps ==
    ASSUME Inv, NEW v \in Verdicts, UNCHANGED <<started, old, seen>>,
           ShowPasswordVerdict(v) \/ UNCHANGED pageVars
    PROVE  PageTyped' /\ Flags' /\ Slot' /\ (Told => Told')
<1>1. CASE UNCHANGED pageVars
  <2>1. PageTyped' /\ Slot' /\ Told' = Told
    BY <1>1, SlotStays DEF Inv
  <2> QED BY <1>1, <2>1 DEF Inv, Flags, pageVars, slotVars
<1>2. CASE ClaimPasswordBanner(v) /\ shownVerdict' = MarkOf[v]
  <2>1. MarkOf[v] \in Marks
    BY PasswordVerdictAssumption
  <2> QED BY <1>2, <2>1, ClaimKeeps
<1> QED BY <1>1, <1>2 DEF ShowPasswordVerdict

LEMMA ArrivesKeeps ==
    ASSUME Inv, NEW v \in Verdicts, Arrives(v)
    PROVE  Inv'
<1> USE DEF Inv
<1>1. UNCHANGED <<stage, held, old, question, doc, started, receipts, seen>>
  BY DEF Arrives, PushArrives, AnswerArrives, workerVars
<1>3. WorkerTyped' /\ WireTyped'
  <2>1. /\ pushes' \subseteq pushes /\ answers' \subseteq answers /\ waiting' \subseteq waiting
    BY DEF Arrives, PushArrives, AnswerArrives, workerVars
  <2> QED BY <1>1, <2>1 DEF WorkerTyped, WireTyped
<1>4. PageTyped' /\ Flags' /\ Slot' /\ (Told => Told')
  <2>1. CASE PushArrives(v)
    <3>1. ShowPasswordVerdict(v) \/ UNCHANGED pageVars
      BY <2>1 DEF PushArrives
    <3> QED BY <1>1, <3>1, ShowKeeps
  <2>2. CASE AnswerArrives(v)
    <3>1. ClaimPasswordBanner(v) /\ shownVerdict' \in Marks \cup {None}
      BY <2>2 DEF AnswerArrives, PageTyped
    <3> QED BY <1>1, <3>1, ClaimKeeps
  <2> QED BY <2>1, <2>2 DEF Arrives
<1>5. TabTyped' /\ ReceiptTold'
  BY <1>1, <1>4, TabStays, ReceiptStays
<1> QED BY <1>3, <1>4, <1>5

LEMMA FoundKeeps ==
    ASSUME Inv, NEW d \in Docs, FoundArrives(d)
    PROVE  Inv'
<1> USE DEF Inv
<1>1. UNCHANGED <<workerVars, pushes, answers, doc, started, receipts, seen>>
  BY DEF FoundArrives
<1>2. WorkerTyped' /\ TabTyped'
  BY <1>1, WorkerStays, TabStays DEF workerVars
<1>3. WireTyped'
  <2>1. Ask(d, "nothing") /\ "nothing" \in NoVerdict \cup Verdicts
    BY DEF FoundArrives, NoVerdict
  <2> QED BY <1>1, <2>1, QuestionStays
<1>4. PICK v \in Verdicts : ShowPasswordVerdict(v) \/ UNCHANGED pageVars
  BY DEF FoundArrives
<1>5. PageTyped' /\ Flags' /\ Slot' /\ (Told => Told')
  BY <1>1, <1>4, ShowKeeps DEF workerVars
<1>6. ReceiptTold'
  BY <1>1, <1>5, ReceiptStays
<1> QED BY <1>2, <1>3, <1>5, <1>6

(* The dwells and the controls of the banner that is up.                   *)
LEMMA BannerKeeps ==
    ASSUME Inv, DwellEnds \/ Press \/ Displaced
    PROVE  Inv'
<1> USE DEF Inv
<1>1. UNCHANGED <<workerVars, wireVars, doc, started, shownVerdict, told>>
  BY DEF DwellEnds, Press, Displaced
<1>2. WorkerTyped' /\ WireTyped'
  BY <1>1, WorkerStays, WireStays DEF workerVars, wireVars
<1>3. own' \in BOOLEAN /\ crowded' \in BOOLEAN /\ seen' \in {seen, seen \cup {drawn}}
  BY DEF DwellEnds, Press, Displaced, OwnOver, Flags
<1>4. Flags'
  BY <1>1, <1>3 DEF Flags, workerVars
<1>5. CASE DwellEnds
  <2>1. CASE own /\ dwells = 0
    <3>1. /\ OwnOver /\ dwells' = behind /\ seen' = seen \cup {drawn}
          /\ receipts' = receipts + 1 /\ UNCHANGED <<panel, drawn, crowded>>
      BY <1>5, <2>1, ~(0 > 0), Zenon DEF DwellEnds, Receipt
    <3>2. drawn \in Marks
      BY <2>1 DEF Slot, OwnPanel, PanelDrawn, PageTyped
    <3>3. PageTyped' /\ TabTyped'
      BY <1>1, <3>1, <3>2 DEF PageTyped, TabTyped, OwnOver
    <3>4. Slot' /\ ReceiptTold'
      BY <3>1 DEF Slot, PanelDrawn, OwnPanel, BehindOwn, PanelSeen, DwellTold, Told,
                  ReceiptTold, OwnOver
    <3> QED BY <1>2, <1>4, <3>3, <3>4
  <2>2. CASE dwells > 0 /\ dwells' = dwells - 1
    <3>1. UNCHANGED <<own, behind, seen, panel, drawn, crowded>> /\ receipts' = receipts + 1
      BY <1>5, <2>2 DEF DwellEnds, Receipt, PageTyped
    <3>2. PageTyped' /\ TabTyped'
      BY <1>1, <2>2, <3>1 DEF PageTyped, TabTyped
    <3>3. Slot' /\ ReceiptTold'
      BY <2>2, <3>1 DEF Slot, PanelDrawn, OwnPanel, BehindOwn, PanelSeen, DwellTold, Told,
                  ReceiptTold
    <3> QED BY <1>2, <1>4, <3>2, <3>3
  <2> QED BY <1>5, <2>1, <2>2, Zenon DEF DwellEnds
<1>6. CASE Press
  <2>1. /\ OwnOver /\ dwells' = dwells + behind /\ seen' = seen \cup {drawn}
        /\ receipts' \in {receipts, receipts + 1} /\ UNCHANGED crowded
        /\ \/ UNCHANGED <<panel, drawn>>
           \/ panel' = "free" /\ drawn' = None
    BY <1>6, Zenon DEF Press, Receipt
  <2>2. drawn \in Marks
    BY <1>6 DEF Press, Slot, PanelDrawn, PageTyped
  <2>3. PageTyped' /\ TabTyped'
    BY <1>1, <2>1, <2>2 DEF PageTyped, TabTyped, OwnOver, Panels
  <2>4. Slot' /\ ReceiptTold'
    BY <2>1 DEF Slot, PanelDrawn, OwnPanel, BehindOwn, PanelSeen, DwellTold, Told,
                ReceiptTold, OwnOver
  <2> QED BY <1>2, <1>4, <2>3, <2>4
<1>7. CASE Displaced
  <2>1. /\ panel = "ours" /\ panel' \in {"other", "free"} /\ drawn' = None /\ OwnOver
        /\ crowded' = (crowded \/ own) /\ UNCHANGED <<receipts, seen>>
    BY <1>7 DEF Displaced
  <2>2. dwells' \in Nat
    BY <1>7 DEF Displaced, PageTyped
  <2>3. PageTyped' /\ TabTyped'
    BY <1>1, <2>1, <2>2 DEF PageTyped, TabTyped, OwnOver, Panels
  <2>4. Told'
    BY <2>1, Zenon DEF Slot, PanelSeen, Told
  <2>5. Slot' /\ ReceiptTold'
    BY <2>1, <2>4 DEF Slot, PanelDrawn, OwnPanel, BehindOwn, PanelSeen, DwellTold,
                ReceiptTold, OwnOver
  <2> QED BY <1>2, <1>4, <2>3, <2>5
<1> QED BY <1>5, <1>6, <1>7

LEMMA OtherKeeps ==
    ASSUME Inv, OtherWarning \/ OtherCloses
    PROVE  Inv'
<1> USE DEF Inv
<1>1. /\ UNCHANGED <<workerVars, wireVars, doc, started, shownVerdict, told, drawn, own,
                     behind, dwells, receipts, crowded, seen>>
      /\ panel # "ours" /\ panel' \in {"free", "other"}
  BY DEF OtherWarning, OtherCloses
<1>2. WorkerTyped' /\ WireTyped' /\ TabTyped'
  BY <1>1, WorkerStays, WireStays, TabStays DEF workerVars, wireVars
<1>3. PageTyped' /\ Flags'
  BY <1>1 DEF PageTyped, Flags, Panels, workerVars
<1>4. Slot' /\ ReceiptTold'
  BY <1>1 DEF Slot, PanelDrawn, OwnPanel, BehindOwn, PanelSeen, DwellTold, Told, ReceiptTold
<1> QED BY <1>2, <1>3, <1>4

LEMMA TabKeeps ==
    ASSUME Inv, Navigate \/ Start
    PROVE  Inv'
<1> USE DEF Inv
<1>1. CASE Navigate
  <2>1. UNCHANGED <<stage, held, old, pushes, question, receipts, crowded, seen>>
    BY <1>1 DEF Navigate
  <2>2. doc' \in Docs
    BY <1>1, PasswordVerdictAssumption DEF Navigate, TabTyped, Docs
  <2>3. TabTyped' /\ ReceiptTold'
    BY <2>1, <2>2 DEF TabTyped, ReceiptTold, Told
  <2>4. WorkerTyped' /\ WireTyped'
    BY <1>1, <2>1 DEF Navigate, WorkerTyped, WireTyped
  <2>5. PageTyped' /\ Slot'
    BY <1>1 DEF Navigate, DwellsKept, OwnOver, PageTyped, Panels, Slot, PanelDrawn, OwnPanel,
                BehindOwn, PanelSeen, DwellTold
  <2>6. Flags'
    BY <1>1, <2>1 DEF Navigate, OwnOver, Flags
  <2> QED BY <2>3, <2>4, <2>5, <2>6
<1>2. CASE Start
  <2>1. UNCHANGED <<workerVars, pushes, answers, doc, pageVars, receipts, seen>>
    BY <1>2 DEF Start
  <2>2. WorkerTyped' /\ TabTyped'
    BY <2>1, WorkerStays, TabStays DEF workerVars
  <2>3. WireTyped'
    <3>1. Ask(doc, "asked") /\ "asked" \in NoVerdict \cup Verdicts /\ doc \in Docs
      BY <1>2 DEF Start, NoVerdict, TabTyped
    <3> QED BY <2>1, <3>1, QuestionStays
  <2>4. PageTyped' /\ Slot' /\ ReceiptTold'
    BY <2>1, SlotStays, ReceiptStays
  <2>5. Flags'
    BY <1>2, <2>1 DEF Start, Flags, workerVars, pageVars, slotVars
  <2> QED BY <2>2, <2>3, <2>4, <2>5
<1> QED BY <1>1, <1>2

-----------------------------------------------------------------------------
LEMMA StepKeeps == Inv /\ [Next]_vars => Inv'
<1> SUFFICES ASSUME Inv, [Next]_vars PROVE Inv'
  OBVIOUS
<1>1. ASSUME NEW v \in Verdicts, Submit(v) \/ Worker(v) \/ CheckFails(v) \/ Arrives(v)
      PROVE  Inv'
  BY <1>1, WorkerKeeps, ArrivesKeeps
<1>2. ASSUME NEW d \in Docs, Questioned(d)
      PROVE  Inv'
  BY <1>2, TakeKeeps, FoundKeeps DEF Questioned
<1>3. CASE DwellEnds \/ Press \/ Displaced \/ OtherWarning \/ OtherCloses
  BY <1>3, BannerKeeps, OtherKeeps
<1>4. CASE ReceiptArrives \/ Stop \/ Ages
  BY <1>4, ReceiptKeeps, StopKeeps, AgesKeeps
<1>5. CASE Navigate \/ Start
  BY <1>5, TabKeeps
<1>6. CASE UNCHANGED vars
  <2>1. WorkerTyped' /\ WireTyped' /\ TabTyped'
    BY <1>6, WorkerStays, WireStays, TabStays DEF vars, workerVars, wireVars, Inv
  <2>2. PageTyped' /\ Slot' /\ ReceiptTold'
    BY <1>6, SlotStays, ReceiptStays DEF vars, Inv
  <2>3. Flags'
    BY <1>6 DEF vars, workerVars, pageVars, slotVars, Flags, Inv
  <2> QED BY <2>1, <2>2, <2>3 DEF Inv
<1> QED BY <1>1, <1>2, <1>3, <1>4, <1>5, <1>6 DEF Next

LEMMA Always == Spec => []Inv
BY InitInv, StepKeeps, PTL DEF Spec

(* The state of a tab and of the checks for it keeps its type.             *)
THEOREM TypeCorrect == Spec => []TypeOK
BY InvTyped, Always, PTL

(* The record is emptied only by a receipt, which the dwell of a banner or *)
(* a press has sent, and by a question that had read it as too old.        *)
LEMMA EmptiedByReceiptOrAge ==
    ASSUME Inv, [Next]_vars, held # None, held' = None
    PROVE  Told \/ \E d \in Docs : question[d] = "expired"
<1>1. CASE ReceiptArrives
  BY <1>1 DEF ReceiptArrives, Inv, ReceiptTold
<1>2. ASSUME NEW d \in Docs, TakeRemoves(d)
      PROVE  \E e \in Docs : question[e] = "expired"
  BY <1>2 DEF TakeRemoves
<1>3. ASSUME NEW v \in Verdicts, HoldVerdict(v)
      PROVE  FALSE
  BY <1>3, PasswordVerdictAssumption DEF HoldVerdict
<1>4. ASSUME NEW v \in Verdicts,
             Submit(v) \/ Journalled(v) \/ PushAndAnswer(v) \/ CheckFails(v) \/ Arrives(v)
      PROVE  FALSE
  BY <1>4 DEF Submit, Journalled, PushAndAnswer, CheckFails, Advance, Arrives, PushArrives,
              AnswerArrives, workerVars
<1>5. ASSUME NEW d \in Docs, TakeReads(d) \/ FoundArrives(d)
      PROVE  FALSE
  BY <1>5 DEF TakeReads, FoundArrives, workerVars
<1>6. CASE DwellEnds \/ Press \/ Displaced \/ OtherWarning \/ OtherCloses
  BY <1>6 DEF DwellEnds, Press, Displaced, OtherWarning, OtherCloses, workerVars
<1>7. CASE Navigate \/ Start \/ Ages \/ Stop \/ UNCHANGED vars
  BY <1>7 DEF Navigate, Start, Ages, Stop, vars, workerVars
<1> QED BY <1>1, <1>2, <1>3, <1>4, <1>5, <1>6, <1>7 DEF Next, Worker, Questioned

(* Nothing but a banner that stood, was pressed or was crowded out, a      *)
(* newer verdict or its age takes a verdict from the tab: leaving a page   *)
(* loses nothing.                                                          *)
THEOREM LeavingLosesNothing == Spec => FreshLeavesOnlySeen
<1>1. Inv /\ [Next]_vars =>
          [held # None /\ ~old /\ held' = None =>
              \/ seen # {} \/ crowded
              \/ \E d \in Docs : question[d] = "expired"]_vars
  BY EmptiedByReceiptOrAge DEF Told
<1> QED BY <1>1, Always, PTL DEF Spec, FreshLeavesOnlySeen
=============================================================================
