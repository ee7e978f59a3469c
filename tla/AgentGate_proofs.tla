-------------------------- MODULE AgentGate_proofs --------------------------
(***************************************************************************)
(* For any number of actions and of overlapping scans: the frame's state   *)
(* keeps its type, every question on screen asks about a held action and   *)
(* can be taken down, every held action has a deadline ahead of it, and    *)
(* only a person stands the gate down.                                     *)
(*                                                                         *)
(* The inductive invariant is the conjunction of the three; the panels and *)
(* the deadlines need each other only through the type of `timers', whose  *)
(* head is the action a deadline decides.                                  *)
(***************************************************************************)
EXTENDS AgentGate, TLAPS

Inv == TypeOK /\ PanelAsksOfTheHeld /\ HeldHasDeadline

-----------------------------------------------------------------------------
(* A deadline appended behind the others leaves each of them where it was  *)
(* and stands last itself.                                                 *)
LEMMA Appended ==
    ASSUME NEW s \in Seq(Actions), NEW a \in Actions
    PROVE  /\ Append(s, a) \in Seq(Actions)
           /\ \E i \in 1 .. Len(Append(s, a)) : Append(s, a)[i] = a
           /\ \A b : (\E i \in 1 .. Len(s) : s[i] = b)
                  => \E i \in 1 .. Len(Append(s, a)) : Append(s, a)[i] = b
<1>1. /\ Append(s, a) \in Seq(Actions)
      /\ Len(Append(s, a)) = Len(s) + 1
      /\ Append(s, a)[Len(s) + 1] = a
      /\ \A i \in 1 .. Len(s) : Append(s, a)[i] = s[i]
      /\ Len(s) \in Nat
  OBVIOUS
<1>2. Len(s) + 1 \in 1 .. Len(Append(s, a))
  BY <1>1
<1>3. \A i \in 1 .. Len(s) : i \in 1 .. Len(Append(s, a))
  BY <1>1
<1> QED BY <1>1, <1>2, <1>3

(* When the oldest deadline has fired, every other is still to come.       *)
LEMMA Fired ==
    ASSUME NEW s \in Seq(Actions), s # <<>>
    PROVE  /\ Tail(s) \in Seq(Actions)
           /\ Head(s) \in Actions
           /\ \A b : (\E i \in 1 .. Len(s) : s[i] = b) /\ b # Head(s)
                  => \E i \in 1 .. Len(Tail(s)) : Tail(s)[i] = b
<1>1. /\ Tail(s) \in Seq(Actions)
      /\ Head(s) \in Actions
      /\ Head(s) = s[1]
      /\ Len(Tail(s)) = Len(s) - 1
      /\ Len(s) \in Nat
      /\ \A i \in 1 .. Len(s) - 1 : Tail(s)[i] = s[i + 1]
  OBVIOUS
<1>2. ASSUME NEW b, NEW i \in 1 .. Len(s), s[i] = b, b # Head(s)
      PROVE  \E j \in 1 .. Len(Tail(s)) : Tail(s)[j] = b
  <2>1. i # 1
    BY <1>1, <1>2
  <2>2. i - 1 \in 1 .. Len(s) - 1 /\ (i - 1) + 1 = i
    BY <1>1, <2>1
  <2>3. Tail(s)[i - 1] = b
    BY <1>1, <1>2, <2>2
  <2> QED BY <1>1, <2>2, <2>3
<1> QED BY <1>1, <1>2

-----------------------------------------------------------------------------
LEMMA InitInv == Init => Inv
<1> SUFFICES ASSUME Init PROVE Inv
  OBVIOUS
<1>1. 0 \in 0 .. MaxScans /\ <<>> \in Seq(Actions)
  BY AgentGateAssumption
<1>2. asked \in [{"innocent", "hostile"} -> 0 .. MaxScans]
  BY <1>1 DEF Init
<1>3. driven \in BOOLEAN /\ top \in BOOLEAN
  BY Zenon DEF Init
<1>4. TypeOK
  BY <1>1, <1>2, <1>3 DEF Init, TypeOK, Contents, Readings
<1>5. PanelAsksOfTheHeld /\ HeldHasDeadline
  BY DEF Init, PanelAsksOfTheHeld, HeldHasDeadline
<1> QED BY <1>4, <1>5 DEF Inv

(* The scans, the page and the person at the banner touch nothing of the   *)
(* gate.                                                                   *)
LEMMA PageSteps ==
    ASSUME Inv, UNCHANGED gateVars, TypeOK'
    PROVE  Inv'
BY DEF Inv, gateVars, PanelAsksOfTheHeld, HeldHasDeadline

LEMMA ScanKeepsType ==
    ASSUME TypeOK,
           \/ ScanPlain \/ AskBackground
           \/ \E c \in {"innocent", "hostile"} : Answered(c) \/ Unanswered(c)
           \/ PageChanges
    PROVE  TypeOK'
<1> USE AgentGateAssumption DEF TypeOK, gateVars, Contents, Readings
<1>1. CASE ScanPlain
  BY <1>1 DEF ScanPlain, AfterEmptyScan
<1>2. CASE AskBackground
  <2>1. /\ content \in {"innocent", "hostile"}
        /\ asked \in [{"innocent", "hostile"} -> 0 .. MaxScans]
        /\ MaxScans \in Nat
        /\ asked["innocent"] + asked["hostile"] < MaxScans
        /\ asked' = [asked EXCEPT ![content] = @ + 1]
    BY <1>2 DEF AskBackground
  <2>2. asked["innocent"] \in Nat /\ asked["hostile"] \in Nat /\ asked[content] < MaxScans
    BY <2>1
  <2>3. asked[content] + 1 \in 0 .. MaxScans
    BY <2>1, <2>2
  <2>4. asked' \in [{"innocent", "hostile"} -> 0 .. MaxScans]
    BY <2>1, <2>3
  <2> QED BY <1>2, <2>4 DEF AskBackground
<1>3. ASSUME NEW c \in {"innocent", "hostile"}, Answered(c)
      PROVE  TypeOK'
  <2>1. asked' \in [{"innocent", "hostile"} -> 0 .. MaxScans]
    BY <1>3 DEF Answered
  <2>2. /\ content' \in Contents /\ due' \in BOOLEAN /\ banner' \in BOOLEAN
        /\ removed' \in BOOLEAN /\ unresolved' \in Readings
    BY <1>3, Zenon DEF Answered, AfterScan
  <2> QED BY <1>3, <2>1, <2>2 DEF Answered
<1>4. ASSUME NEW c \in {"innocent", "hostile"}, Unanswered(c)
      PROVE  TypeOK'
  BY <1>4 DEF Unanswered
<1>5. CASE PageChanges
  BY <1>5 DEF PageChanges
<1> QED BY <1>1, <1>2, <1>3, <1>4, <1>5

LEMMA PersonKeepsType ==
    ASSUME TypeOK,
           \/ DismissBanner \/ OpenInspector \/ DisputeEvidence \/ CloseInspector
           \/ RestoreText \/ OtherWarning
    PROVE  TypeOK'
<1>1. content' \in Contents /\ unresolved' \in Readings
  BY DEF TypeOK, Contents, Readings, Resolved, DismissBanner, OpenInspector,
         DisputeEvidence, CloseInspector, RestoreText, OtherWarning
<1>2. due' \in BOOLEAN /\ banner' \in BOOLEAN /\ inspector' \in BOOLEAN /\ removed' \in BOOLEAN
  <2>1. CASE DismissBanner
    BY <2>1, Zenon DEF TypeOK, Resolved, DismissBanner
  <2>2. CASE OpenInspector
    BY <2>2, Zenon DEF TypeOK, OpenInspector
  <2>3. CASE DisputeEvidence
    BY <2>3, Zenon DEF TypeOK, Resolved, DisputeEvidence
  <2>4. CASE CloseInspector
    BY <2>4, Zenon DEF TypeOK, CloseInspector
  <2>5. CASE RestoreText
    BY <2>5, Zenon DEF TypeOK, RestoreText
  <2>6. CASE OtherWarning
    BY <2>6, Zenon DEF TypeOK, OtherWarning
  <2> QED BY <2>1, <2>2, <2>3, <2>4, <2>5, <2>6
<1>3. UNCHANGED <<driven, top, asked>> /\ UNCHANGED gateVars
  BY DEF DismissBanner, OpenInspector, DisputeEvidence, CloseInspector, RestoreText, OtherWarning
<1> QED BY <1>1, <1>2, <1>3 DEF TypeOK, gateVars

-----------------------------------------------------------------------------
(* A step of the gate for one action: what it adds to the deadlines covers *)
(* what it holds.                                                          *)
LEMMA HeldKeepsInv ==
    ASSUME Inv, NEW a \in Actions, fate[a] = "new",
           NEW how \in {"held", "unidentified", "unavailable", "already-asking"},
           HeldAs(a, how),
           \/ how # "held" /\ UNCHANGED <<gate, panels>>
           \/ how = "held" /\ gate = Nobody /\ gate' = a /\ panels' = panels \cup {a},
           UNCHANGED <<driven, top>>, UNCHANGED pageVars
    PROVE  Inv'
<1>1. /\ timers' \in Seq(Actions)
      /\ \E i \in 1 .. Len(timers') : timers'[i] = a
      /\ \A b : (\E i \in 1 .. Len(timers) : timers[i] = b)
             => \E i \in 1 .. Len(timers') : timers'[i] = b
  BY Appended DEF HeldAs, DeadlineOf, Inv, TypeOK
<1>2. fate' = [fate EXCEPT ![a] = how] /\ fate \in [Actions -> {"new", "held"} \cup Passes \cup Decisions]
  BY DEF HeldAs, Inv, TypeOK
<1>3. how \in {"new", "held"} \cup Passes \cup Decisions
  BY DEF Decisions
<1>4. gate' \in Actions \cup {Nobody} /\ panels' \subseteq Actions
  BY DEF Inv, TypeOK
<1>5. TypeOK'
  BY <1>1, <1>2, <1>3, <1>4 DEF Inv, TypeOK, pageVars
<1>6. a \notin panels
  BY DEF Inv, PanelAsksOfTheHeld
<1>7. PanelAsksOfTheHeld'
  <2>1. CASE how # "held"
    BY <1>2, <1>6, <2>1 DEF Inv, TypeOK, PanelAsksOfTheHeld
  <2>2. CASE how = "held"
    <3>1. panels = {}
      BY <2>2, AgentGateAssumption DEF Inv, TypeOK, PanelAsksOfTheHeld
    <3> QED BY <1>2, <2>2, <3>1 DEF PanelAsksOfTheHeld
  <2> QED BY <2>1, <2>2
<1>8. HeldHasDeadline'
  BY <1>1, <1>2 DEF Inv, HeldHasDeadline
<1> QED BY <1>5, <1>7, <1>8 DEF Inv

LEMMA PassKeepsInv ==
    ASSUME Inv, NEW a \in Actions, fate[a] = "new", NEW how \in Passes, PassesBy(a, how),
           UNCHANGED <<driven, top>>, UNCHANGED pageVars
    PROVE  Inv'
<1>1. how # "held"
  BY DEF Passes
<1>2. TypeOK'
  BY DEF Inv, TypeOK, PassesBy, pageVars
<1>3. PanelAsksOfTheHeld'
  BY DEF Inv, TypeOK, PanelAsksOfTheHeld, PassesBy
<1>4. HeldHasDeadline'
  BY <1>1 DEF Inv, TypeOK, HeldHasDeadline, PassesBy
<1> QED BY <1>2, <1>3, <1>4 DEF Inv

LEMMA InterceptKeepsInv ==
    ASSUME Inv, NEW a \in Actions, Intercept(a)
    PROVE  Inv'
<1>1. fate[a] = "new" /\ UNCHANGED <<driven, top>> /\ UNCHANGED pageVars
  BY DEF Intercept
<1>2. PICK d \in Descriptions, trusted \in BOOLEAN, unsure \in BOOLEAN :
          \/ PassesBy(a, IF d = "declined" THEN d ELSE "unread")
          \/ PassesBy(a, "no finding")
          \/ Weigh(a, Assessed(d, trusted, driven \/ unsure))
  BY Zenon DEF Intercept
<1>3. CASE PassesBy(a, IF d = "declined" THEN d ELSE "unread")
  <2> DEFINE how == IF d = "declined" THEN d ELSE "unread"
  <2>1. how \in Passes
    BY DEF Passes
  <2>2. PassesBy(a, how)
    BY <1>3
  <2> HIDE DEF how
  <2> QED BY <1>1, <2>1, <2>2, PassKeepsInv
<1>4. CASE PassesBy(a, "no finding")
  BY <1>1, <1>4, PassKeepsInv DEF Passes
<1>5. CASE Weigh(a, Assessed(d, trusted, driven \/ unsure))
  <2> DEFINE verdict == Assessed(d, trusted, driven \/ unsure)
  <2> HIDE DEF verdict
  <2>1. \/ verdict \in {"human", "declined"} /\ PassesBy(a, verdict)
        \/ verdict = "unidentified" /\ HeldAs(a, verdict) /\ UNCHANGED <<gate, panels>>
        \/ AskTheUser(a)
    BY <1>5 DEF Weigh, verdict
  <2>2. CASE verdict \in {"human", "declined"} /\ PassesBy(a, verdict)
    BY <1>1, <2>2, PassKeepsInv DEF Passes
  <2>3. CASE verdict = "unidentified" /\ HeldAs(a, verdict) /\ UNCHANGED <<gate, panels>>
    BY <1>1, <2>3, HeldKeepsInv
  <2>4. CASE AskTheUser(a)
    <3>1. \/ /\ gate = Nobody /\ gate' = a /\ panels' = panels \cup {a}
             /\ HeldAs(a, "held")
          \/ HeldAs(a, "unavailable") /\ UNCHANGED <<gate, panels>>
          \/ HeldAs(a, "already-asking") /\ UNCHANGED <<gate, panels>>
      BY <2>4 DEF AskTheUser, MayAsk
    <3> QED BY <1>1, <3>1, HeldKeepsInv
  <2> QED BY <2>1, <2>2, <2>3, <2>4
<1> QED BY <1>2, <1>3, <1>4, <1>5

(* An answer takes down the panel it was given on, which is the one panel  *)
(* there is.                                                               *)
LEMMA AnswerKeepsInv ==
    ASSUME Inv, NEW a \in panels, CloseGate,
           fate' \in [Actions -> {"new", "held"} \cup Passes \cup Decisions],
           \A b \in Actions : fate'[b] = "held" => fate[b] = "held",
           UNCHANGED <<driven, top, timers>>, UNCHANGED pageVars
    PROVE  Inv'
<1>1. panels' = {} /\ gate' = Nobody
  BY DEF CloseGate, Inv, PanelAsksOfTheHeld
<1>2. TypeOK'
  BY <1>1 DEF Inv, TypeOK, pageVars
<1>3. PanelAsksOfTheHeld' /\ HeldHasDeadline'
  BY <1>1 DEF Inv, PanelAsksOfTheHeld, HeldHasDeadline
<1> QED BY <1>2, <1>3 DEF Inv

LEMMA BlockKeepsInv ==
    ASSUME Inv, NEW a \in Actions, Block(a)
    PROVE  Inv'
<1>1. /\ fate' \in [Actions -> {"new", "held"} \cup Passes \cup Decisions]
      /\ \A b \in Actions : fate'[b] = "held" => fate[b] = "held"
  BY DEF Block, Inv, TypeOK, Decisions
<1> QED BY <1>1, AnswerKeepsInv DEF Block

LEMMA AllowKeepsInv ==
    ASSUME Inv, NEW a \in Actions, AllowOnce(a)
    PROVE  Inv'
<1>1. PICK inside : fate' = [b \in Actions |-> IF b = a THEN "user-allowed"
                               ELSE IF b \in inside THEN "nested" ELSE fate[b]]
  BY DEF AllowOnce
<1>2. /\ fate' \in [Actions -> {"new", "held"} \cup Passes \cup Decisions]
      /\ \A b \in Actions : fate'[b] = "held" => fate[b] = "held"
  BY <1>1 DEF Inv, TypeOK, Passes, Decisions
<1> QED BY <1>2, AnswerKeepsInv DEF AllowOnce

LEMMA ExpireKeepsInv ==
    ASSUME Inv, Expire
    PROVE  Inv'
<1>1. /\ timers \in Seq(Actions) /\ timers # <<>> /\ timers' = Tail(timers)
      /\ fate \in [Actions -> {"new", "held"} \cup Passes \cup Decisions]
      /\ fate' = [fate EXCEPT ![Head(timers)] = IF @ = "held" THEN "timeout" ELSE @]
      /\ UNCHANGED <<driven, top>> /\ UNCHANGED pageVars
  BY DEF Expire, Inv, TypeOK
<1>2. /\ timers' \in Seq(Actions) /\ Head(timers) \in Actions
      /\ \A b : (\E i \in 1 .. Len(timers) : timers[i] = b) /\ b # Head(timers)
             => \E i \in 1 .. Len(timers') : timers'[i] = b
  BY <1>1, Fired
<1>3. /\ fate' \in [Actions -> {"new", "held"} \cup Passes \cup Decisions]
      /\ fate'[Head(timers)] # "held"
      /\ \A b \in Actions : fate'[b] = "held" => fate[b] = "held" /\ b # Head(timers)
  BY <1>1, <1>2 DEF Decisions
<1>4. panels' = {} /\ gate' = Nobody
  BY DEF Expire, CloseGate, Inv, PanelAsksOfTheHeld
<1>5. TypeOK'
  BY <1>1, <1>2, <1>3, <1>4 DEF Inv, TypeOK, pageVars
<1>6. PanelAsksOfTheHeld'
  BY <1>4 DEF PanelAsksOfTheHeld
<1>7. HeldHasDeadline'
  BY <1>2, <1>3 DEF Inv, HeldHasDeadline
<1> QED BY <1>5, <1>6, <1>7 DEF Inv

-----------------------------------------------------------------------------
LEMMA NextInv == Inv /\ [Next]_vars => Inv'
<1> SUFFICES ASSUME Inv, [Next]_vars PROVE Inv'
  OBVIOUS
<1>1. CASE \/ ScanPlain \/ AskBackground
           \/ \E c \in {"innocent", "hostile"} : Answered(c) \/ Unanswered(c)
           \/ PageChanges
  <2>1. TypeOK'
    BY <1>1, ScanKeepsType DEF Inv
  <2>2. UNCHANGED gateVars
    BY <1>1 DEF ScanPlain, AskBackground, Answered, Unanswered, PageChanges
  <2> QED BY <2>1, <2>2, PageSteps
<1>2. CASE \/ DismissBanner \/ OpenInspector \/ DisputeEvidence \/ CloseInspector
           \/ RestoreText \/ OtherWarning
  <2>1. TypeOK'
    BY <1>2, PersonKeepsType DEF Inv
  <2>2. UNCHANGED gateVars
    BY <1>2 DEF DismissBanner, OpenInspector, DisputeEvidence, CloseInspector,
                RestoreText, OtherWarning
  <2> QED BY <2>1, <2>2, PageSteps
<1>3. ASSUME NEW a \in Actions, Intercept(a) \/ Block(a) \/ AllowOnce(a)
      PROVE  Inv'
  BY <1>3, InterceptKeepsInv, BlockKeepsInv, AllowKeepsInv
<1>4. CASE Expire
  BY <1>4, ExpireKeepsInv
<1>5. CASE UNCHANGED vars
  BY <1>5 DEF vars, Inv, TypeOK, PanelAsksOfTheHeld, HeldHasDeadline
<1> QED BY <1>1, <1>2, <1>3, <1>4, <1>5 DEF Next

LEMMA Invariance == Spec => []Inv
BY InitInv, NextInv, PTL DEF Spec

(* The state of a frame keeps its type for any actions and any number of   *)
(* overlapping scans.                                                      *)
THEOREM TypeCorrect == Spec => []TypeOK
<1>1. Inv => TypeOK
  BY DEF Inv
<1> QED BY <1>1, Invariance, PTL

(* However many actions are held and in whatever order their deadlines and *)
(* answers come, the one question on screen is the one closeGate can take  *)
(* down and its action is still to be decided.                             *)
THEOREM QuestionsAreLive == Spec => []PanelAsksOfTheHeld
<1>1. Inv => PanelAsksOfTheHeld
  BY DEF Inv
<1> QED BY <1>1, Invariance, PTL

(* No action waits without a deadline ahead of it, also when the deadline  *)
(* of another has taken its panel down.                                    *)
THEOREM NothingWaitsForever == Spec => []HeldHasDeadline
<1>1. Inv => HeldHasDeadline
  BY DEF Inv
<1> QED BY <1>1, Invariance, PTL

(* Whatever the page, the sanitiser and late answers do, only a person     *)
(* stands the gate down once it is up.                                     *)
THEOREM OnlyAPersonStandsDown == Spec => FlagStandsUntilResolved
<1>1. TypeOK /\ [Next]_vars =>
        [unresolved = "flagged" /\ unresolved' # "flagged"
           => (banner /\ ~banner') \/ (inspector /\ ~inspector')]_vars
  <2> SUFFICES ASSUME TypeOK, Next, unresolved = "flagged", unresolved' # "flagged"
               PROVE  (banner /\ ~banner') \/ (inspector /\ ~inspector')
    BY DEF vars
  <2>1. \/ ScanPlain \/ AskBackground
        \/ \E c \in {"innocent", "hostile"} : Answered(c) \/ Unanswered(c)
        \/ PageChanges
        \/ OpenInspector \/ CloseInspector \/ RestoreText \/ OtherWarning
        \/ \E a \in Actions : Intercept(a) \/ Block(a) \/ AllowOnce(a)
        \/ Expire
        => unresolved' = "flagged"
    BY DEF ScanPlain, AfterEmptyScan, AskBackground, Answered, AfterScan, Unanswered,
           PageChanges, OpenInspector, CloseInspector, RestoreText, OtherWarning,
           Intercept, Block, AllowOnce, Expire, pageVars
  <2>2. DismissBanner \/ DisputeEvidence
    BY <2>1 DEF Next
  <2> QED BY <2>2 DEF DismissBanner, DisputeEvidence, Resolved
<1> QED BY <1>1, TypeCorrect, PTL DEF Spec, FlagStandsUntilResolved

(* A question is of a held action, and a held action has an end ahead of   *)
(* it (agent-gate.ts).                                                     *)
THEOREM QuestionsStayOfTheHeld == Spec => []QuestionsAreOfTheHeld
<1>1. PanelAsksOfTheHeld /\ HeldHasDeadline => QuestionsAreOfTheHeld
  BY DEF QuestionsAreOfTheHeld
<1>2. QED
  BY <1>1, QuestionsAreLive, NothingWaitsForever, PTL
=============================================================================
