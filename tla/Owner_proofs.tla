------------------------------ MODULE Owner_proofs ------------------------
(***************************************************************************)
(* What the owner's screens and the project's own services promise, for    *)
(* every value of their constants. One section a part: its inductive       *)
(* invariant, a lemma for each of its steps that can disturb it, and the   *)
(* theorems.                                                               *)
(***************************************************************************)
EXTENDS OwnerScreens, FiniteSetTheorems, TLAPS

-----------------------------------------------------------------------------
(***************************************************************************)
(* WipeControls, for any number of wipes and exports, sections and writes: *)
(* nothing is cleared without a "yes", a wipe that says it is done cleared *)
(* every store, and a section holds one answer of each kind.               *)
(***************************************************************************)
WipeOutcomes == {"none", "opening", "clearing", "unavailable", "partial", "ok"}
Wipe == [at : Nat, on : Nat, failed : SUBSET StoreNames, cleared : SUBSET StoreNames, outcome : WipeOutcomes]

ExportOK(e) == e = [at |-> e.at, on |-> e.on, outcome |-> e.outcome]

Note == [said : {"unavailable", "partial", "failed"}, stores : SUBSET StoreNames]
Section == [number : Nat, asking : BOOLEAN, wipeNotes : SUBSET Note, exportNotes : SUBSET Note, retry : BOOLEAN]
AtMostOne(notes) == notes = {} \/ \E note : notes = {note}
SectionOK ==
    /\ section \in Section
    /\ AtMostOne(section.wipeNotes) /\ AtMostOne(section.exportNotes)
    /\ section.retry <=> section.wipeNotes # {}
    /\ section.retry => section.number \in confirmed

(* The stores a wipe has been through, whatever became of them.            *)
Passed(at) == {StoreOrder[i] : i \in 1 .. (at - 1)}

WipeInv(r) ==
    /\ wipes[r].on <= section.number
    /\ wipes[r].outcome = "none" => wipes[r] = NoWipe
    /\ wipes[r].outcome # "none" => wipes[r].on \in confirmed
    /\ wipes[r].outcome \in {"none", "opening", "unavailable"} => wipes[r].cleared = {} /\ wipes[r].failed = {}
    /\ wipes[r].outcome = "clearing" =>
        /\ wipes[r].at \in 1 .. 3
        /\ wipes[r].cleared \cup wipes[r].failed = Passed(wipes[r].at)
    /\ wipes[r].outcome = "ok" => wipes[r].cleared = StoreNames
    /\ wipes[r].outcome \in {"partial", "unavailable"} /\ wipes[r].on = section.number =>
        section.wipeNotes # {} \/ \E q \in Runs \ {r} : wipes[q].outcome = "ok" /\ wipes[q].on = section.number

SectionsInv ==
    /\ wipes \in [Runs -> Wipe] /\ DOMAIN exports = Exports
    /\ \A e \in Exports : ExportOK(exports[e])
    /\ SectionOK
    /\ \A r \in Runs : WipeInv(r)

LEMMA TwoStores ==
    /\ Len(StoreOrder) = 2 /\ StoreOrder[1] = "settings" /\ StoreOrder[2] = "reuse"
    /\ StoreNames = {"settings", "reuse"}
    /\ Passed(1) = {} /\ Passed(2) = {"settings"} /\ Passed(3) = StoreNames
<1>1. Len(StoreOrder) = 2 /\ StoreOrder[1] = "settings" /\ StoreOrder[2] = "reuse"
  BY DEF StoreOrder
<1>2. 1 .. 2 = {1, 2} /\ 1 .. 1 = {1} /\ 1 .. 0 = {}
  OBVIOUS
<1>3. StoreNames = {"settings", "reuse"}
  BY <1>1, <1>2 DEF StoreNames
<1>4. Passed(1) = {} /\ Passed(2) = {"settings"} /\ Passed(3) = StoreNames
  BY <1>1, <1>2, <1>3 DEF Passed
<1>5. QED
  BY <1>1, <1>3, <1>4

LEMMA SectionsInvInit == WipeInit => SectionsInv
<1> SUFFICES ASSUME WipeInit PROVE SectionsInv
  OBVIOUS
<1>1. SectionOK
  BY DEF WipeInit, SectionOK, Section, Drawn, AtMostOne
<1>2. wipes \in [Runs -> Wipe] /\ \A r \in Runs : WipeInv(r)
  BY DEF WipeInit, Wipe, WipeOutcomes, NoWipe, WipeInv, Drawn
<1>3. DOMAIN exports = Exports /\ \A e \in Exports : ExportOK(exports[e])
  BY DEF WipeInit, NoExport, ExportOK
<1>4. QED
  BY <1>1, <1>2, <1>3 DEF SectionsInv

-----------------------------------------------------------------------------
(* What only the section and its note of a "yes" are about.                *)
LEMMA SectionKeeps ==
    ASSUME SectionsInv, UNCHANGED wipes, UNCHANGED exports,
           section'.number >= section.number,
           SectionOK', confirmed \subseteq confirmed',
           section'.number = section.number =>
               section'.wipeNotes = section.wipeNotes \/ section'.wipeNotes # {}
    PROVE  SectionsInv'
<1>1. ASSUME NEW r \in Runs PROVE WipeInv(r)'
  <2>1. wipes[r] \in Wipe /\ WipeInv(r) /\ SectionOK
    BY DEF SectionsInv
  <2>2. wipes[r].on \in Nat /\ section.number \in Nat /\ section'.number \in Nat
    BY <2>1 DEF Wipe, SectionOK, Section
  <2>3. wipes[r].on = section'.number => section'.number = section.number
    BY <2>1, <2>2 DEF WipeInv
  <2>4. wipes'[r].on <= section'.number
    BY <2>1, <2>2 DEF WipeInv
  <2>5. wipes'[r].outcome \in {"partial", "unavailable"} /\ wipes'[r].on = section'.number =>
            section'.wipeNotes # {} \/ \E q \in Runs \ {r} : wipes'[q].outcome = "ok" /\ wipes'[q].on = section'.number
    BY <2>1, <2>3 DEF WipeInv
  <2>6. QED
    BY <2>1, <2>4, <2>5 DEF WipeInv
<1>2. QED
  BY <1>1 DEF SectionsInv

LEMMA PageKeeps ==
    ASSUME SectionsInv, WorkerWrites \/ DrawAgain \/ AskFirst \/ AnswerNo
    PROVE  SectionsInv'
<1>1. SectionOK
  BY DEF SectionsInv
<1>2. CASE WorkerWrites
  <2>1. section' = section /\ confirmed' = confirmed /\ wipes' = wipes /\ exports' = exports
    BY <1>2 DEF WorkerWrites
  <2>2. SectionOK'
    BY <1>1, <2>1, Zenon DEF SectionOK, AtMostOne
  <2>a. section.number \in Nat
    BY <1>1 DEF SectionOK, Section
  <2>b. section'.number >= section.number
    BY <2>1, <2>a
  <2>3. QED
    BY <2>1, <2>2, <2>b, SectionKeeps
<1>3. CASE DrawAgain
  <2>1. SectionOK'
    BY <1>1, <1>3 DEF DrawAgain, Drawn, SectionOK, Section, AtMostOne
  <2>2. section'.number = section.number + 1 /\ section.number \in Nat
    BY <1>1, <1>3 DEF DrawAgain, Drawn, SectionOK, Section
  <2>3. section'.number >= section.number /\ section'.number # section.number
    BY <2>2
  <2>4. QED
    BY <1>3, <2>1, <2>3, SectionKeeps DEF DrawAgain
<1>4. CASE AskFirst \/ AnswerNo
  <2>1. /\ section'.number = section.number /\ section'.wipeNotes = section.wipeNotes
        /\ section' \in Section /\ section'.exportNotes = section.exportNotes /\ section'.retry = section.retry
    BY <1>1, <1>4 DEF AskFirst, AnswerNo, SectionOK, Section
  <2>2. SectionOK'
    BY <1>1, <1>4, <2>1 DEF SectionOK, AtMostOne, AskFirst, AnswerNo
  <2>3. QED
    BY <1>1, <1>4, <2>1, <2>2, SectionKeeps DEF SectionOK, Section, AskFirst, AnswerNo
<1>5. QED
  BY <1>2, <1>3, <1>4

(* A step of one wipe: the others keep what they have, and hold on to what *)
(* is on screen unless this one ends well there.                           *)
LEMMA WipeStepKeeps ==
    ASSUME SectionsInv, NEW r \in Runs, UNCHANGED exports,
           wipes' \in [Runs -> Wipe], WipeInv(r)', SectionOK',
           \A q \in Runs \ {r} : wipes'[q] = wipes[q],
           wipes[r].outcome # "ok", confirmed \subseteq confirmed',
           section'.number = section.number,
           \/ section'.wipeNotes = section.wipeNotes \/ section'.wipeNotes # {}
           \/ wipes'[r].outcome = "ok" /\ wipes'[r].on = section.number
    PROVE  SectionsInv'
<1>1. ASSUME NEW s \in Runs, s # r PROVE WipeInv(s)'
  <2>1. wipes'[s] = wipes[s] /\ WipeInv(s)
    BY <1>1 DEF SectionsInv
  <2>2. \A q \in Runs : wipes[q].outcome = "ok" => wipes'[q] = wipes[q]
    OBVIOUS
  <2>3. wipes'[s].outcome \in {"partial", "unavailable"} /\ wipes'[s].on = section'.number =>
            section'.wipeNotes # {} \/ \E q \in Runs \ {s} : wipes'[q].outcome = "ok" /\ wipes'[q].on = section'.number
    BY <1>1, <2>1, <2>2 DEF WipeInv
  <2>4. QED
    BY <2>1, <2>3 DEF WipeInv
<1>2. QED
  BY <1>1 DEF SectionsInv

LEMMA StartKeeps ==
    ASSUME SectionsInv, NEW r \in Runs, AnswerYes(r) \/ PressRetry(r)
    PROVE  SectionsInv' /\ wipes'[r].cleared = wipes[r].cleared
<1>1. /\ wipes[r] = NoWipe /\ SectionOK
      /\ wipes'[r] = [NoWipe EXCEPT !.outcome = "opening", !.on = section.number]
  BY DEF SectionsInv, AnswerYes, PressRetry, RunStarts, WipeInv
<1>2. section'.number = section.number /\ section'.wipeNotes = section.wipeNotes /\ section' \in Section
      /\ section'.exportNotes = section.exportNotes /\ section'.retry = section.retry
  BY <1>1 DEF SectionOK, Section, AnswerYes, PressRetry, RunStarts
<1>3. confirmed \subseteq confirmed' /\ section.number \in confirmed'
  BY <1>1 DEF AnswerYes, PressRetry, SectionOK
<1>4. SectionOK'
  BY <1>1, <1>2, <1>3 DEF SectionOK, AtMostOne
<1>5. wipes' \in [Runs -> Wipe]
  <2>1. [NoWipe EXCEPT !.outcome = "opening", !.on = section.number] \in Wipe
    BY <1>1 DEF Wipe, WipeOutcomes, NoWipe, SectionOK, Section
  <2>2. QED
    BY <2>1 DEF SectionsInv, AnswerYes, PressRetry, RunStarts
<1>6. WipeInv(r)'
  BY <1>1, <1>2, <1>3 DEF WipeInv, NoWipe, SectionOK, Section
<1>7. \A q \in Runs \ {r} : wipes'[q] = wipes[q]
  BY DEF SectionsInv, AnswerYes, PressRetry, RunStarts
<1>8. QED
  BY <1>1, <1>2, <1>3, <1>4, <1>5, <1>6, <1>7, WipeStepKeeps DEF AnswerYes, PressRetry, RunStarts, NoWipe

LEMMA OpenFailsKeeps == ASSUME SectionsInv, NEW r \in Runs, OpenFails(r) PROVE SectionsInv'
<1> DEFINE note == [said |-> "unavailable", stores |-> {}]
<1>1. wipes[r] \in Wipe /\ WipeInv(r) /\ SectionOK /\ wipes[r].outcome = "opening"
  BY DEF OpenFails, SectionsInv
<1>2. section' = IF wipes[r].on = section.number
                 THEN [section EXCEPT !.wipeNotes = {note}, !.retry = TRUE] ELSE section
  BY DEF OpenFails, OnScreen, Slot
<1>3. section'.number = section.number /\ (section'.wipeNotes = section.wipeNotes \/ section'.wipeNotes = {note})
  BY <1>1, <1>2 DEF SectionOK, Section
<1>4. SectionOK'
  <2>1. CASE wipes[r].on = section.number
    <3>0. {note} \in SUBSET Note
      BY DEF Note
    <3>1. section' \in Section /\ section'.wipeNotes = {note} /\ section'.retry = TRUE
          /\ section'.exportNotes = section.exportNotes
      <4> HIDE DEF note
      <4>1. QED
        BY <1>1, <1>2, <2>1, <3>0 DEF SectionOK, Section
    <3>2. section'.number \in confirmed'
      BY <1>1, <1>3, <2>1 DEF WipeInv, OpenFails
    <3>3. QED
      BY <1>1, <3>1, <3>2 DEF SectionOK, AtMostOne
  <2>2. CASE wipes[r].on # section.number
    BY <1>1, <1>2, <2>2 DEF SectionOK, AtMostOne, OpenFails
  <2>3. QED
    BY <2>1, <2>2
<1>5. wipes' = [wipes EXCEPT ![r].outcome = "unavailable"] /\ wipes' \in [Runs -> Wipe]
  BY DEF OpenFails, SectionsInv, Wipe, WipeOutcomes
<1>6. wipes'[r] = [wipes[r] EXCEPT !.outcome = "unavailable"] /\ \A q \in Runs \ {r} : wipes'[q] = wipes[q]
  BY <1>5 DEF SectionsInv
<1>7. WipeInv(r)'
  <2>1. wipes'[r].outcome = "unavailable" /\ wipes'[r].on = wipes[r].on /\ wipes'[r].cleared = wipes[r].cleared
        /\ wipes'[r].failed = wipes[r].failed
    BY <1>1, <1>6 DEF Wipe
  <2>2. wipes[r].on = section.number => section'.wipeNotes # {}
    BY <1>1, <1>2 DEF SectionOK, Section
  <2>3. QED
    BY <1>1, <1>3, <2>1, <2>2 DEF WipeInv, OpenFails
<1>8. QED
  BY <1>1, <1>3, <1>4, <1>5, <1>6, <1>7, WipeStepKeeps DEF OpenFails

LEMMA OpensKeeps == ASSUME SectionsInv, NEW r \in Runs, Opens(r) PROVE SectionsInv'
<1>1. wipes[r] \in Wipe /\ WipeInv(r) /\ SectionOK /\ wipes[r].outcome = "opening"
  BY DEF Opens, SectionsInv
<1>2. wipes'[r] = [wipes[r] EXCEPT !.outcome = "clearing", !.at = 1] /\ wipes' \in [Runs -> Wipe]
      /\ \A q \in Runs \ {r} : wipes'[q] = wipes[q]
  BY DEF Opens, SectionsInv, Wipe, WipeOutcomes
<1>3. wipes'[r].outcome = "clearing" /\ wipes'[r].at = 1 /\ wipes'[r].on = wipes[r].on
      /\ wipes'[r].cleared = wipes[r].cleared /\ wipes'[r].failed = wipes[r].failed
  BY <1>1, <1>2 DEF Wipe
<1>4. WipeInv(r)'
  <2>1. wipes'[r].cleared \cup wipes'[r].failed = {} /\ wipes[r].on \in confirmed /\ wipes[r].on <= section.number
    BY <1>1, <1>3 DEF WipeInv
  <2>2. Passed(wipes'[r].at) = {}
    BY <1>3, TwoStores
  <2>3. wipes'[r].at \in 1 .. 3 /\ section' = section /\ confirmed' = confirmed
    BY <1>3 DEF Opens
  <2> HIDE DEF Passed
  <2>4. QED
    BY <1>3, <2>1, <2>2, <2>3, SMT DEF WipeInv
<1>5. SectionOK'
  BY <1>1 DEF SectionOK, AtMostOne, Opens
<1>6. QED
  BY <1>1, <1>2, <1>4, <1>5, WipeStepKeeps DEF Opens

(* A store is cleared, or cannot be and is noted.                          *)
LEMMA ClearKeeps == ASSUME SectionsInv, NEW r \in Runs, ClearStore(r) PROVE SectionsInv'
<1> DEFINE s == StoreOrder[wipes[r].at]
<1>1. wipes[r] \in Wipe /\ WipeInv(r) /\ SectionOK /\ wipes[r].outcome = "clearing"
  BY DEF ClearStore, SectionsInv
<1>2. wipes[r].at \in {1, 2} /\ wipes[r].cleared \cup wipes[r].failed = Passed(wipes[r].at)
  BY <1>1, TwoStores DEF WipeInv, ClearStore, Wipe
<1>3. s \in StoreNames /\ Passed(wipes[r].at) \cup {s} = Passed(wipes[r].at + 1)
  BY <1>2, TwoStores
<1> HIDE DEF s
<1>4. \/ wipes' = [wipes EXCEPT ![r].at = @ + 1, ![r].cleared = @ \cup {s}]
      \/ wipes' = [wipes EXCEPT ![r].at = @ + 1, ![r].failed = @ \cup {s}]
  BY DEF ClearStore, Collected, s
<1>5. /\ wipes' \in [Runs -> Wipe] /\ \A q \in Runs \ {r} : wipes'[q] = wipes[q]
      /\ wipes'[r].on = wipes[r].on /\ wipes'[r].outcome = "clearing" /\ wipes'[r].at = wipes[r].at + 1
      /\ wipes'[r].cleared \cup wipes'[r].failed = (wipes[r].cleared \cup wipes[r].failed) \cup {s}
  BY <1>1, <1>3, <1>4 DEF SectionsInv, Wipe, WipeOutcomes
<1>6. section' = section /\ confirmed' = confirmed /\ exports' = exports
  BY DEF ClearStore
<1>7. WipeInv(r)'
  <2>1. wipes'[r].at \in 1 .. 3 /\ wipes'[r].cleared \cup wipes'[r].failed = Passed(wipes'[r].at)
    BY <1>2, <1>3, <1>5
  <2>2. wipes[r].on <= section.number /\ wipes[r].on \in confirmed
    BY <1>1 DEF WipeInv
  <2>3. QED
    BY <1>5, <1>6, <2>1, <2>2, SMT DEF WipeInv
<1>8. SectionOK'
  BY <1>1, <1>6 DEF SectionOK, AtMostOne
<1>9. QED
  BY <1>1, <1>5, <1>6, <1>7, <1>8, WipeStepKeeps

(* A wipe that has been through every store says what became of it.        *)
LEMMA EndKeeps == ASSUME SectionsInv, NEW r \in Runs, WipeEnds(r) PROVE SectionsInv'
<1>1. wipes[r] \in Wipe /\ WipeInv(r) /\ SectionOK /\ wipes[r].outcome = "clearing"
  BY DEF WipeEnds, SectionsInv
<1>2. wipes[r].cleared \cup wipes[r].failed = StoreNames
  <2>1. wipes[r].at = 3
    BY <1>1, TwoStores DEF WipeInv, WipeEnds, Wipe
  <2>2. QED
    BY <1>1, <2>1, TwoStores DEF WipeInv
<1>3. wipes[r].on <= section.number /\ wipes[r].on \in confirmed
  BY <1>1 DEF WipeInv
<1>4. confirmed' = confirmed /\ exports' = exports
  BY DEF WipeEnds
<1>5. CASE wipes[r].failed = {}
  <2>1. wipes' = [wipes EXCEPT ![r].outcome = "ok"]
        /\ section' = IF wipes[r].on = section.number
                      THEN [section EXCEPT !.wipeNotes = {}, !.retry = FALSE] ELSE section
    BY <1>5 DEF WipeEnds, OnScreen
  <2>2. wipes' \in [Runs -> Wipe] /\ (\A q \in Runs \ {r} : wipes'[q] = wipes[q])
        /\ wipes'[r].outcome = "ok" /\ wipes'[r].on = wipes[r].on /\ wipes'[r].cleared = StoreNames
    BY <1>1, <1>2, <1>5, <2>1 DEF SectionsInv, Wipe, WipeOutcomes
  <2>3. section' \in Section /\ section'.number = section.number /\ section'.exportNotes = section.exportNotes
        /\ \/ wipes[r].on = section.number /\ section'.wipeNotes = {} /\ section'.retry = FALSE
           \/ section'.wipeNotes = section.wipeNotes /\ section'.retry = section.retry
    BY <1>1, <2>1 DEF SectionOK, Section
  <2>4. SectionOK'
    BY <1>1, <1>4, <2>3 DEF SectionOK, AtMostOne
  <2>5. WipeInv(r)'
    BY <1>3, <1>4, <2>2, <2>3 DEF WipeInv
  <2>6. QED
    BY <1>1, <1>4, <2>2, <2>3, <2>4, <2>5, WipeStepKeeps
<1>6. CASE wipes[r].failed # {}
  <2> DEFINE note == [said |-> "partial", stores |-> wipes[r].failed]
  <2>1. wipes' = [wipes EXCEPT ![r].outcome = "partial"]
        /\ section' = IF wipes[r].on = section.number
                      THEN [section EXCEPT !.retry = TRUE, !.wipeNotes = {note}] ELSE section
    BY <1>6 DEF WipeEnds, OnScreen, Slot
  <2>2. {note} \in SUBSET Note
    BY <1>1 DEF Note, Wipe
  <2>3. wipes' \in [Runs -> Wipe] /\ (\A q \in Runs \ {r} : wipes'[q] = wipes[q])
        /\ wipes'[r].outcome = "partial" /\ wipes'[r].on = wipes[r].on
    BY <1>1, <2>1 DEF SectionsInv, Wipe, WipeOutcomes
  <2> HIDE DEF note
  <2>4. section' \in Section /\ section'.number = section.number /\ section'.exportNotes = section.exportNotes
        /\ \/ wipes[r].on = section.number /\ section'.wipeNotes = {note} /\ section'.retry = TRUE
           \/ wipes[r].on # section.number /\ section'.wipeNotes = section.wipeNotes /\ section'.retry = section.retry
    BY <1>1, <2>1, <2>2 DEF SectionOK, Section
  <2>5. SectionOK'
    BY <1>1, <1>3, <1>4, <2>4 DEF SectionOK, AtMostOne
  <2>6. WipeInv(r)'
    BY <1>3, <1>4, <2>3, <2>4 DEF WipeInv
  <2>7. QED
    BY <1>1, <1>4, <2>3, <2>4, <2>5, <2>6, WipeStepKeeps
<1>7. QED
  BY <1>5, <1>6

-----------------------------------------------------------------------------
(* What an export does to itself and, if it is on screen, to the section's *)
(* other note.                                                             *)
LEMMA ExportKeeps ==
    ASSUME SectionsInv, NEW e \in Exports, PressExport(e) \/ ReadNext(e) \/ ExportEnds(e) \/ ExportFails(e)
    PROVE  SectionsInv'
<1>1. SectionOK /\ ExportOK(exports[e]) /\ DOMAIN exports = Exports /\ wipes' = wipes /\ confirmed' = confirmed
  BY DEF SectionsInv, PressExport, ReadNext, ExportEnds, ExportFails
<1>2. DOMAIN exports' = Exports /\ \A d \in Exports \ {e} : exports'[d] = exports[d]
  BY <1>1 DEF PressExport, ReadNext, ExportEnds, ExportFails
<1>3. ExportOK(exports'[e])
  <2> DEFINE x == exports[e]
  <2>1. x = [at |-> x.at, on |-> x.on, outcome |-> x.outcome]
    BY <1>1 DEF ExportOK
  <2>2. CASE PressExport(e)
    BY <1>1, <2>2 DEF PressExport, NoExport, ExportOK
  <2>3. CASE ReadNext(e)
    <3>1. exports' = [exports EXCEPT ![e] = [x EXCEPT !.outcome = "reading", !.at = @ + 1]]
      BY <2>3, Zenon DEF ReadNext
    <3>2. exports'[e] = [at |-> x.at + 1, on |-> x.on, outcome |-> "reading"]
      BY <1>1, <2>1, <3>1
    <3>3. QED
      BY <3>2 DEF ExportOK
  <2>4. CASE ExportEnds(e)
    <3>1. exports'[e] = [at |-> x.at, on |-> x.on, outcome |-> "saved"]
      BY <1>1, <2>1, <2>4 DEF ExportEnds
    <3>2. QED
      BY <1>1, <3>1 DEF ExportOK
  <2>5. CASE ExportFails(e)
    <3>1. exports'[e] = [at |-> x.at, on |-> x.on, outcome |-> "failed"]
      BY <1>1, <2>1, <2>5 DEF ExportFails
    <3>2. QED
      BY <3>1 DEF ExportOK
  <2>6. QED
    BY <2>2, <2>3, <2>4, <2>5
<1>4. SectionOK' /\ section'.number = section.number /\ section'.wipeNotes = section.wipeNotes
  <2>1. CASE PressExport(e) \/ ReadNext(e)
    BY <1>1, <2>1 DEF PressExport, ReadNext, SectionOK, AtMostOne
  <2>2. CASE ExportEnds(e) \/ ExportFails(e)
    <3> DEFINE note == [said |-> "failed", stores |-> {}]
    <3>1. {note} \in SUBSET Note
      BY DEF Note
    <3>2. section' = section \/ section' = [section EXCEPT !.exportNotes = {}]
          \/ section' = [section EXCEPT !.exportNotes = {note}]
      BY <2>2 DEF ExportEnds, ExportFails, OnScreen, Slot
    <3> HIDE DEF note
    <3>3. section' \in Section /\ section'.number = section.number /\ section'.wipeNotes = section.wipeNotes
          /\ section'.retry = section.retry
          /\ \/ section'.exportNotes = section.exportNotes
             \/ section'.exportNotes = {}
             \/ section'.exportNotes = {note}
      BY <1>1, <3>1, <3>2 DEF SectionOK, Section
    <3>4. QED
      BY <1>1, <3>3 DEF SectionOK, AtMostOne
  <2>3. QED
    BY <2>1, <2>2
<1>5. ASSUME NEW r \in Runs PROVE WipeInv(r)'
  BY <1>1, <1>4 DEF SectionsInv, WipeInv
<1>6. QED
  BY <1>1, <1>2, <1>3, <1>4, <1>5 DEF SectionsInv

-----------------------------------------------------------------------------
LEMMA SectionsInvStep == SectionsInv /\ [WipeNext]_wipeVars => SectionsInv'
<1> SUFFICES ASSUME SectionsInv, [WipeNext]_wipeVars PROVE SectionsInv'
  OBVIOUS
<1>1. CASE UNCHANGED wipeVars
  <2>1. section' = section /\ confirmed' = confirmed /\ wipes' = wipes /\ exports' = exports
    BY <1>1 DEF wipeVars
  <2>2. SectionOK' /\ section.number \in Nat
    BY <2>1 DEF SectionsInv, SectionOK, Section, AtMostOne
  <2>3. section'.number >= section.number
    BY <2>1, <2>2
  <2>4. QED
    BY <2>1, <2>2, <2>3, SectionKeeps
<1>2. CASE WipeNext
  BY <1>2, PageKeeps, StartKeeps, OpenFailsKeeps, OpensKeeps, ClearKeeps, EndKeeps, ExportKeeps DEF WipeNext
<1>3. QED
  BY <1>1, <1>2

LEMMA SectionsInvAlways == WipeSpec => []SectionsInv
BY SectionsInvInit, SectionsInvStep, PTL DEF WipeSpec

(* A wipe that says "done" cleared every store, and one that is not done   *)
(* does not end in silence on the screen it was asked from (export.ts).    *)
THEOREM DoneAlwaysMeansGone == WipeSpec => []DoneMeansGone
<1>1. SectionsInv => DoneMeansGone
  BY DEF SectionsInv, WipeInv, DoneMeansGone
<1>2. QED
  BY <1>1, SectionsInvAlways, PTL

(* However often it is pressed, the section holds one answer of each kind, *)
(* with the retry under it (data-controls.ts).                             *)
THEOREM OneAnswerAlways == WipeSpec => []OneAnswer
<1>1. SectionsInv => OneAnswer
  <2> SUFFICES ASSUME SectionsInv PROVE OneAnswer
    OBVIOUS
  <2>1. ASSUME NEW notes, AtMostOne(notes) PROVE Cardinality(notes) <= 1
    <3>1. CASE notes = {}
      BY <3>1, FS_EmptySet
    <3>2. CASE notes # {}
      <4>1. PICK note : notes = {note}
        BY <2>1, <3>2 DEF AtMostOne
      <4>2. Cardinality({note}) = 1
        BY FS_Singleton
      <4>3. QED
        BY <4>1, <4>2
    <3>3. QED
      BY <3>1, <3>2
  <2>2. QED
    BY <2>1 DEF SectionsInv, SectionOK, OneAnswer
<1>2. QED
  BY <1>1, SectionsInvAlways, PTL

(* Nothing is cleared from a section whose question was not answered "yes" *)
(* (data-controls.ts), retries included.                                   *)
LEMMA ClearedStep ==
    ASSUME SectionsInv, [WipeNext]_wipeVars, NEW r \in Runs, wipes'[r].cleared # wipes[r].cleared
    PROVE  wipes[r].on \in confirmed
<1>1. WipeInv(r) /\ wipes[r] \in Wipe
  BY DEF SectionsInv
<1>2. wipes' # wipes
  OBVIOUS
<1>3. PICK q \in Runs : AnswerYes(q) \/ PressRetry(q) \/ OpenFails(q) \/ Opens(q) \/ ClearStore(q) \/ WipeEnds(q)
  BY <1>2 DEF WipeNext, wipeVars, WorkerWrites, DrawAgain, AskFirst, AnswerNo, PressExport, ReadNext, ExportEnds, ExportFails
<1>4. q = r
  <2>1. ASSUME q # r PROVE wipes'[r] = wipes[r]
    BY <1>3, <2>1 DEF SectionsInv, AnswerYes, PressRetry, RunStarts, OpenFails, Opens, ClearStore, WipeEnds
  <2>2. QED
    BY <2>1
<1>5. wipes[r].outcome # "none"
  <2>1. ~ (AnswerYes(r) \/ PressRetry(r))
    BY StartKeeps
  <2>2. QED
    BY <1>3, <1>4, <2>1 DEF OpenFails, Opens, ClearStore, WipeEnds
<1>6. QED
  BY <1>1, <1>5 DEF WipeInv

(* A store is cleared only for a wipe that began in a section whose       *)
(* question was answered yes, a retry included (data-controls.ts).         *)
THEOREM ClearedOnlyAfterYes == WipeSpec => ClearedAfterYes
<1>1. SectionsInv /\ [WipeNext]_wipeVars =>
        [\A r \in Runs : wipes'[r].cleared # wipes[r].cleared => wipes[r].on \in confirmed]_wipeVars
  BY ClearedStep
<1>2. QED
  BY <1>1, SectionsInvAlways, PTL DEF WipeSpec, ClearedAfterYes

(* What WipeTypeOK needs beside the invariant: the stores are the two.     *)
SectionsAllTyped == WipeTypeOK /\ DOMAIN stores = StoreNames

LEMMA AllTypedInit == WipeInit => SectionsAllTyped
<1> SUFFICES ASSUME WipeInit PROVE SectionsAllTyped
  OBVIOUS
<1>1. DOMAIN stores = StoreNames
  BY TwoStores DEF WipeInit, RowsOf
<1>2. QED
  BY <1>1, WipeAssumption DEF WipeInit, SectionsAllTyped, WipeTypeOK, Drawn, NoWipe, NoExport

(* The stores hold rows of theirs, whether written or cleared.             *)
LEMMA StoresTyped ==
    ASSUME SectionsAllTyped, [WipeNext]_wipeVars
    PROVE  DOMAIN stores' = StoreNames /\ \A s \in StoreNames : stores'[s] \subseteq RowsOf[s]
<1>1. CASE stores' = stores
  BY <1>1 DEF SectionsAllTyped, WipeTypeOK
<1>2. CASE WorkerWrites
  BY <1>2 DEF WorkerWrites, SectionsAllTyped, WipeTypeOK
<1>3. ASSUME NEW r \in Runs, ClearStore(r) PROVE DOMAIN stores' = StoreNames /\ \A s \in StoreNames : stores'[s] \subseteq RowsOf[s]
  BY <1>3 DEF ClearStore, SectionsAllTyped, WipeTypeOK
<1>4. stores' = stores \/ WorkerWrites \/ \E r \in Runs : ClearStore(r)
  BY DEF WipeNext, wipeVars, DrawAgain, AskFirst, AnswerNo, AnswerYes, PressRetry, RunStarts,
         OpenFails, Opens, WipeEnds, PressExport, ReadNext, ExportEnds, ExportFails
<1>5. QED
  BY <1>1, <1>2, <1>3, <1>4

(* A section is drawn up to the bound, and only those drawn are confirmed. *)
LEMMA SectionsTyped ==
    ASSUME SectionsInv, SectionsAllTyped, [WipeNext]_wipeVars
    PROVE  /\ writes' \in 0 .. MaxWrites /\ section'.number \in 1 .. MaxSections
           /\ repaints' \subseteq 1 .. MaxSections /\ confirmed' \subseteq 1 .. MaxSections
<1> USE WipeAssumption DEF SectionsAllTyped, WipeTypeOK
<1>1. section \in Section
  BY DEF SectionsInv, SectionOK
<1>2. writes' \in 0 .. MaxWrites
  <2>1. CASE WorkerWrites
    BY <2>1 DEF WorkerWrites
  <2>2. writes' = writes \/ WorkerWrites
    BY DEF WipeNext, wipeVars, DrawAgain, AskFirst, AnswerNo, AnswerYes, PressRetry, RunStarts,
         OpenFails, Opens, ClearStore, WipeEnds, PressExport, ReadNext, ExportEnds, ExportFails
  <2>3. QED
    BY <2>1, <2>2
<1>3. section'.number \in 1 .. MaxSections
  <2>1. CASE DrawAgain
    BY <2>1 DEF DrawAgain, Drawn
  <2>2. CASE AskFirst \/ AnswerNo \/ \E r \in Runs : AnswerYes(r) \/ PressRetry(r)
    <3>1. section'.number = section.number
      BY <1>1, <2>2 DEF AskFirst, AnswerNo, AnswerYes, PressRetry, RunStarts, Section
    <3>2. QED
      BY <3>1
  <2>3. CASE \E r \in Runs : OpenFails(r) \/ WipeEnds(r)
    <3>1. section'.number = section.number
      BY <1>1, <2>3 DEF OpenFails, WipeEnds, OnScreen, Section
    <3>2. QED
      BY <3>1
  <2>4. CASE \E e \in Exports : ExportEnds(e) \/ ExportFails(e)
    <3>1. section'.number = section.number
      BY <1>1, <2>4 DEF ExportEnds, ExportFails, OnScreen, Section
    <3>2. QED
      BY <3>1
  <2>5. CASE \/ WorkerWrites \/ (\E r \in Runs : Opens(r) \/ ClearStore(r))
             \/ (\E e \in Exports : PressExport(e) \/ ReadNext(e)) \/ UNCHANGED wipeVars
    <3>1. section' = section
      BY <2>5 DEF WorkerWrites, Opens, ClearStore, PressExport, ReadNext, wipeVars
    <3>2. QED
      BY <3>1
  <2>6. QED
    BY <2>1, <2>2, <2>3, <2>4, <2>5 DEF WipeNext
<1>4. confirmed' \subseteq 1 .. MaxSections
  BY DEF WipeNext, wipeVars, WorkerWrites, DrawAgain, AskFirst, AnswerNo, AnswerYes, PressRetry, RunStarts,
         OpenFails, Opens, ClearStore, WipeEnds, PressExport, ReadNext, ExportEnds, ExportFails
<1>5. repaints' \subseteq 1 .. MaxSections
  <2>1. ASSUME NEW r \in Runs, WipeEnds(r) PROVE repaints' \subseteq repaints \cup {wipes[r].on} /\ wipes[r].on \in confirmed
    <3>1. wipes[r].outcome # "none"
      BY <2>1 DEF WipeEnds
    <3>2. wipes[r].on \in confirmed
      BY <3>1 DEF SectionsInv, WipeInv
    <3>3. QED
      BY <2>1, <3>2 DEF WipeEnds
  <2>2. repaints' \subseteq repaints \/ \E r \in Runs : WipeEnds(r)
    BY DEF WipeNext, wipeVars, WorkerWrites, DrawAgain, AskFirst, AnswerNo, AnswerYes, PressRetry, RunStarts,
         OpenFails, Opens, ClearStore, PressExport, ReadNext, ExportEnds, ExportFails
  <2>3. QED
    BY <2>1, <2>2
<1>6. QED
  BY <1>2, <1>3, <1>4, <1>5

LEMMA ExportsTyped ==
    ASSUME SectionsInv, SectionsAllTyped, [WipeNext]_wipeVars, NEW e \in Exports
    PROVE  exports'[e].outcome \in {"none", "opening", "reading", "failed", "saved"}
<1>1. DOMAIN exports = Exports /\ exports[e].outcome \in {"none", "opening", "reading", "failed", "saved"}
  BY DEF SectionsInv, SectionsAllTyped, WipeTypeOK
<1>2. exports[e] = [at |-> exports[e].at, on |-> exports[e].on, outcome |-> exports[e].outcome]
  BY DEF SectionsInv, ExportOK
<1>3. CASE exports' = exports
  BY <1>1, <1>3
<1>4. ASSUME NEW d \in Exports, PressExport(d) \/ ReadNext(d) \/ ExportEnds(d) \/ ExportFails(d)
      PROVE  exports'[e].outcome \in {"none", "opening", "reading", "failed", "saved"}
  <2>1. CASE d = e
    <3>1. CASE PressExport(e)
      <4>1. exports'[e] = [NoExport EXCEPT !.outcome = "opening", !.on = section.number]
        BY <1>1, <3>1 DEF PressExport
      <4>2. QED
        BY <4>1 DEF NoExport
    <3>2. CASE ReadNext(e)
      <4>1. exports'[e].outcome = "reading"
        BY <1>1, <1>2, <3>2 DEF ReadNext
      <4>2. QED
        BY <4>1
    <3>3. CASE ExportEnds(e)
      <4>1. exports'[e] = [exports[e] EXCEPT !.outcome = "saved"]
        BY <1>1, <3>3 DEF ExportEnds
      <4>2. QED
        BY <1>2, <4>1
    <3>4. CASE ExportFails(e)
      <4>1. exports'[e] = [exports[e] EXCEPT !.outcome = "failed"]
        BY <1>1, <3>4 DEF ExportFails
      <4>2. QED
        BY <1>2, <4>1
    <3>5. QED
      BY <1>4, <2>1, <3>1, <3>2, <3>3, <3>4
  <2>2. CASE d # e
    BY <1>1, <1>4, <2>2 DEF PressExport, ReadNext, ExportEnds, ExportFails
  <2>3. QED
    BY <2>1, <2>2
<1>5. exports' = exports \/ \E d \in Exports : PressExport(d) \/ ReadNext(d) \/ ExportEnds(d) \/ ExportFails(d)
  BY DEF WipeNext, wipeVars, WorkerWrites, DrawAgain, AskFirst, AnswerNo, AnswerYes, PressRetry, RunStarts,
         OpenFails, Opens, ClearStore, WipeEnds
<1>6. QED
  BY <1>3, <1>4, <1>5

LEMMA AllTypedStep == SectionsInv /\ SectionsInv' /\ SectionsAllTyped /\ [WipeNext]_wipeVars => SectionsAllTyped'
<1> SUFFICES ASSUME SectionsInv, SectionsInv', SectionsAllTyped, [WipeNext]_wipeVars PROVE SectionsAllTyped'
  OBVIOUS
<1>1. ASSUME NEW r \in Runs
      PROVE  wipes'[r].outcome \in {"none", "opening", "clearing", "unavailable", "partial", "ok"}
  BY DEF SectionsInv, Wipe, WipeOutcomes
<1>2. QED
  BY <1>1, StoresTyped, SectionsTyped, ExportsTyped DEF SectionsAllTyped, WipeTypeOK

(* The state of the controls, the wipes and the exports keeps its type.    *)
THEOREM SectionsStayTyped == WipeSpec => []WipeTypeOK
<1>1. SectionsAllTyped => WipeTypeOK
  BY DEF SectionsAllTyped
<1>2. QED
  BY <1>1, SectionsInvAlways, AllTypedInit, AllTypedStep, PTL DEF WipeSpec

(* What the controls say is what was done, and they say it once            *)
(* (data-controls.ts, export.ts).                                          *)
THEOREM SaysWhatItDid == WipeSpec => []WipeSaysWhatItDid
<1>1. WipeTypeOK /\ DoneMeansGone /\ OneAnswer => WipeSaysWhatItDid
  BY DEF WipeSaysWhatItDid
<1>2. QED
  BY <1>1, SectionsStayTyped, DoneAlwaysMeansGone, OneAnswerAlways, PTL

-----------------------------------------------------------------------------
(***************************************************************************)
(* Appeals, for any number of requests and domains: while no request       *)
(* overtook another, a domain has its budget and no more, and one appeal   *)
(* has one row.                                                            *)
(***************************************************************************)
AppealHandler == [step : {"idle", "count", "find", "insert", "done"}, asked : Submissions \cup {Nothing},
           counted : Nat \cup {Unknown}, reply : Replies, reference : Nat, blind : BOOLEAN]

Answered == {r \in Requests : handler[r].step = "done"}
AppealsSince(d, t) == {a \in appeals : a.domain = d /\ a.at > t}

(* A request that was not overtaken still knows what it read: there is     *)
(* room in its domain's hour, and nobody has said the same.                *)
HandlerInv(r) ==
    /\ handler[r].reference \in 0 .. drawn
    /\ handler[r].reference # NoReference <=> handler[r].reply \in {"filed", "already filed"}
    /\ handler[r].step # "done" => handler[r].reply = "none"
    /\ handler[r].step \in {"find", "insert"} /\ ~ handler[r].blind =>
           Cardinality(Recent(handler[r].asked.domain)) < AppealsPerDomain
    /\ handler[r].step = "insert" /\ ~ handler[r].blind =>
           \A a \in appeals : ~ SameAppeal(a, handler[r].asked)
    /\ handler[r].reference # NoReference =>
           \/ \E a \in appeals : a.reference = handler[r].reference /\ SameAppeal(a, handler[r].asked)
           \/ appealHour > KeptFor

(* The budget is not inductive for the last hour alone: what is passed     *)
(* blindly must stay in sight for as long as what it was added to, so it   *)
(* is said of every later beginning of the hour.                           *)
BudgetInv ==
    \A d \in {a.domain : a \in appeals}, t \in Int :
        t >= appealHour - AppealWindow /\ Cardinality(AppealsSince(d, t)) > AppealsPerDomain =>
            \E a \in AppealsSince(d, t) : handler[a.by].blind

TableInv ==
    /\ IsFiniteSet(appeals)
    /\ \A a \in appeals :
        /\ a.at \in 0 .. appealHour /\ a.reference \in 1 .. drawn /\ a.by \in Requests
        /\ handler[a.by].step = "done" /\ handler[a.by].reply = "filed"
    /\ BudgetInv /\ RepeatOnlyBlind

AppealsInv ==
    /\ handler \in [Requests -> AppealHandler] /\ appealHour \in Nat
    /\ drawn \in Nat /\ drawn <= Cardinality(Answered)
    /\ \A r \in Requests : HandlerInv(r)
    /\ TableInv

LEMMA AppealsInvInit == AppealsInit => AppealsInv
<1> SUFFICES ASSUME AppealsInit PROVE AppealsInv
  OBVIOUS
<1>1. handler \in [Requests -> AppealHandler]
  BY DEF AppealsInit, AppealHandler, Replies, NoReference
<1>2. Answered = {}
  BY DEF AppealsInit, Answered
<1>3. Cardinality(Answered) = 0 /\ IsFiniteSet({})
  BY <1>2, FS_EmptySet
<1>4. ASSUME NEW r \in Requests PROVE HandlerInv(r)
  <2>1. /\ handler[r].step = "idle" /\ handler[r].reply = "none"
        /\ handler[r].reference = 0 /\ drawn = 0
    BY DEF AppealsInit, NoReference
  <2>2. 0 \in 0 .. drawn
    BY <2>1
  <2>3. QED
    BY <2>1, <2>2 DEF HandlerInv, NoReference
<1>5. TableInv
  BY <1>3 DEF AppealsInit, TableInv, BudgetInv, RepeatOnlyBlind
<1>6. QED
  <2>1. appealHour = 0 /\ drawn = 0
    BY DEF AppealsInit
  <2>2. QED
    BY <1>1, <1>3, <1>4, <1>5, <2>1 DEF AppealsInv

(* Who has answered stays so, and the references drawn stay below them.    *)
LEMMA AnsweredGrows ==
    ASSUME AppealsInv, \A q \in Requests : handler[q].step = "done" => handler'[q].step = "done"
    PROVE  drawn <= Cardinality(Answered') /\ IsFiniteSet(Answered') /\ IsFiniteSet(Answered)
<1>1. Answered \subseteq Answered' /\ Answered' \subseteq Requests
  BY DEF Answered
<1>2. IsFiniteSet(Answered')
  BY <1>1, AppealsAssumption, FS_Subset
<1>3. Cardinality(Answered) <= Cardinality(Answered') /\ IsFiniteSet(Answered)
  BY <1>1, <1>2, FS_Subset
<1>4. Cardinality(Answered) \in Nat /\ Cardinality(Answered') \in Nat
  BY <1>2, <1>3, FS_CardinalityType
<1>5. QED
  BY <1>2, <1>3, <1>4 DEF AppealsInv

LEMMA OneMoreAppeal ==
    ASSUME NEW S, IsFiniteSet(S), NEW x
    PROVE  /\ IsFiniteSet(S \cup {x}) /\ Cardinality(S) \in Nat /\ Cardinality(S \cup {x}) \in Nat
           /\ Cardinality(S \cup {x}) <= Cardinality(S) + 1
           /\ x \notin S => Cardinality(S \cup {x}) = Cardinality(S) + 1
<1>1. IsFiniteSet(S \cup {x})
  BY FS_AddElement
<1>2. Cardinality(S \cup {x}) = Cardinality(S) \/ Cardinality(S \cup {x}) = Cardinality(S) + 1
  BY FS_AddElement
<1>3. x \notin S => Cardinality(S \cup {x}) = Cardinality(S) + 1
  BY FS_AddElement
<1>4. Cardinality(S) \in Nat /\ Cardinality(S \cup {x}) \in Nat
  BY <1>1, FS_CardinalityType
<1>5. QED
  BY <1>1, <1>2, <1>3, <1>4

LEMMA RecentSize ==
    ASSUME TableInv, NEW d, NEW t
    PROVE  /\ IsFiniteSet(Recent(d)) /\ Cardinality(Recent(d)) \in Nat
           /\ IsFiniteSet(AppealsSince(d, t)) /\ Cardinality(AppealsSince(d, t)) \in Nat
<1>1. Recent(d) \subseteq appeals /\ AppealsSince(d, t) \subseteq appeals
  BY DEF Recent, AppealsSince
<1>2. QED
  BY <1>1, FS_Subset, FS_CardinalityType DEF TableInv

(* A step of one request that writes nothing.                              *)
LEMMA ReadingKeeps ==
    ASSUME AppealsInv, NEW r \in Requests, UNCHANGED <<appeals, appealHour, drawn>>,
           handler' \in [Requests -> AppealHandler], handler[r].step # "done",
           \A q \in Requests \ {r} : handler'[q] = handler[q], HandlerInv(r)'
    PROVE  AppealsInv'
<1>1. drawn' <= Cardinality(Answered')
  BY AnsweredGrows
<1>2. ASSUME NEW q \in Requests PROVE HandlerInv(q)'
  <2>1. CASE q = r
    BY <2>1
  <2>2. CASE q # r
    <3>1. handler'[q] = handler[q] /\ HandlerInv(q)
      BY <2>2 DEF AppealsInv
    <3>2. Recent(handler[q].asked.domain)' = Recent(handler[q].asked.domain)
      BY <3>1 DEF Recent
    <3>3. QED
      BY <3>1, <3>2 DEF HandlerInv, SameAppeal
  <2>3. QED
    BY <2>1, <2>2
<1>3. \A a \in appeals : a.by \in Requests \ {r} /\ handler'[a.by] = handler[a.by]
  BY DEF AppealsInv, TableInv
<1>4. TableInv'
  BY <1>3 DEF AppealsInv, TableInv, BudgetInv, RepeatOnlyBlind, AppealsSince
<1>5. QED
  BY <1>1, <1>2, <1>4 DEF AppealsInv

LEMMA ArriveKeeps == ASSUME AppealsInv, NEW r \in Requests, Arrive(r) PROVE AppealsInv'
<1>1. PICK s \in Submissions :
        handler' = LET asking == [handler EXCEPT ![r].asked = s, ![r].step = "count"]
                   IN  IF Acceptable(s) THEN asking ELSE Replied(asking, r, "refused", NoReference)
  BY DEF Arrive
<1>2. handler[r] \in AppealHandler /\ HandlerInv(r) /\ handler[r].step = "idle"
  BY DEF AppealsInv, Arrive
<1>3. /\ handler' \in [Requests -> AppealHandler]
      /\ \A q \in Requests \ {r} : handler'[q] = handler[q]
  BY <1>1, <1>2 DEF AppealsInv, AppealHandler, Replied, Replies, NoReference
<1>4. HandlerInv(r)'
  <2>1. \/ handler'[r].step = "count" /\ handler'[r].reply = "none" /\ handler'[r].reference = 0
        \/ handler'[r].step = "done" /\ handler'[r].reply = "refused" /\ handler'[r].reference = 0
    <3>1. handler[r].reply = "none" /\ handler[r].reference = 0
      BY <1>2 DEF HandlerInv, NoReference, AppealHandler
    <3>2. CASE Acceptable(s)
      BY <1>1, <1>2, <3>1, <3>2 DEF AppealsInv, AppealHandler
    <3>3. CASE ~ Acceptable(s)
      BY <1>1, <1>2, <3>3 DEF AppealsInv, AppealHandler, Replied, NoReference
    <3>4. QED
      BY <3>2, <3>3
  <2>2. drawn' = drawn /\ drawn \in Nat
    BY DEF Arrive, AppealsInv
  <2>3. 0 \in 0 .. drawn'
    BY <2>2
  <2>4. handler'[r].reference \in 0 .. drawn' /\ handler'[r].reference = 0
    BY <2>1, <2>3, Zenon
  <2>5. /\ handler'[r].step \notin {"find", "insert"} /\ handler'[r].reply \notin {"filed", "already filed"}
        /\ handler'[r].step # "done" => handler'[r].reply = "none"
    BY <2>1
  <2>6. QED
    BY <2>4, <2>5 DEF HandlerInv, NoReference
<1>5. QED
  BY <1>2, <1>3, <1>4, ReadingKeeps DEF Arrive

LEMMA CountKeeps == ASSUME AppealsInv, NEW r \in Requests, CountAppeals(r) PROVE AppealsInv'
<1> DEFINE n == Cardinality(Recent(handler[r].asked.domain))
<1>1. n \in Nat
  BY RecentSize DEF AppealsInv
<1>2. handler[r] \in AppealHandler /\ HandlerInv(r) /\ handler[r].step = "count"
  BY DEF AppealsInv, CountAppeals
<1>3. UNCHANGED <<appeals, appealHour, drawn>>
  BY DEF CountAppeals
<1>4. CASE n < AppealsPerDomain /\ handler' = [Moved(r, "find") EXCEPT ![r].counted = n]
  <2>1. handler' \in [Requests -> AppealHandler] /\ \A q \in Requests \ {r} : handler'[q] = handler[q]
    BY <1>1, <1>2, <1>4 DEF AppealsInv, AppealHandler, Moved
  <2>2. /\ handler'[r].asked = handler[r].asked /\ handler'[r].step = "find"
        /\ handler'[r].reply = handler[r].reply /\ handler'[r].reference = handler[r].reference
    BY <1>2, <1>4 DEF AppealsInv, AppealHandler, Moved
  <2>3. HandlerInv(r)'
    BY <1>2, <1>3, <1>4, <2>2 DEF HandlerInv, Recent, SameAppeal
  <2>4. QED
    BY <1>2, <1>3, <2>1, <2>3, ReadingKeeps
<1>5. CASE handler' = Replied(handler, r, "over budget", NoReference)
  <2>1. handler' \in [Requests -> AppealHandler] /\ \A q \in Requests \ {r} : handler'[q] = handler[q]
    BY <1>2, <1>5 DEF AppealsInv, AppealHandler, Replied, Replies, NoReference
  <2>2. handler'[r].step = "done" /\ handler'[r].reply = "over budget" /\ handler'[r].reference = 0
    BY <1>2, <1>5 DEF AppealsInv, AppealHandler, Replied, NoReference
  <2>3. HandlerInv(r)'
    <3>1. drawn' = drawn /\ drawn \in Nat
      BY <1>3 DEF AppealsInv
    <3>2. QED
      <4>0. 0 \in 0 .. drawn'
        BY <3>1
      <4>1. handler'[r].reference \in 0 .. drawn'
        BY <2>2, <4>0, Zenon
      <4>2. QED
        BY <2>2, <4>1, Zenon DEF HandlerInv, NoReference
  <2>4. QED
    BY <1>2, <1>3, <2>1, <2>3, ReadingKeeps
<1>6. CASE handler' = [Moved(r, "find") EXCEPT ![r].counted = Unknown, ![r].blind = TRUE]
  <2>1. handler' \in [Requests -> AppealHandler] /\ \A q \in Requests \ {r} : handler'[q] = handler[q]
    BY <1>2, <1>6 DEF AppealsInv, AppealHandler, Moved
  <2>2. /\ handler'[r].blind /\ handler'[r].step = "find"
        /\ handler'[r].reply = handler[r].reply /\ handler'[r].reference = handler[r].reference
    BY <1>2, <1>6 DEF AppealsInv, AppealHandler, Moved
  <2>3. HandlerInv(r)'
    BY <1>2, <1>3, <2>2 DEF HandlerInv, NoReference
  <2>4. QED
    BY <1>2, <1>3, <2>1, <2>3, ReadingKeeps
<1>7. QED
  BY <1>4, <1>5, <1>6 DEF CountAppeals, UnderBudget

LEMMA FindKeeps == ASSUME AppealsInv, NEW r \in Requests, FindAppeal(r) PROVE AppealsInv'
<1> DEFINE already == {a \in appeals : SameAppeal(a, handler[r].asked)}
<1>2. handler[r] \in AppealHandler /\ HandlerInv(r) /\ handler[r].step = "find"
  BY DEF AppealsInv, FindAppeal
<1>3. UNCHANGED <<appeals, appealHour, drawn>>
  BY DEF FindAppeal
<1>4. CASE already = {} /\ handler' = Moved(r, "insert")
  <2>1. handler' \in [Requests -> AppealHandler] /\ \A q \in Requests \ {r} : handler'[q] = handler[q]
    BY <1>2, <1>4 DEF AppealsInv, AppealHandler, Moved
  <2>2. /\ handler'[r].asked = handler[r].asked /\ handler'[r].step = "insert"
        /\ handler'[r].reply = handler[r].reply /\ handler'[r].reference = handler[r].reference
        /\ handler'[r].blind = handler[r].blind
    BY <1>2, <1>4 DEF AppealsInv, AppealHandler, Moved
  <2>3. HandlerInv(r)'
    BY <1>2, <1>3, <1>4, <2>2 DEF HandlerInv, Recent, SameAppeal
  <2>4. QED
    BY <1>2, <1>3, <2>1, <2>3, ReadingKeeps
<1>5. CASE \E a \in already : handler' = Replied(handler, r, "already filed", a.reference)
  <2>1. PICK a \in already : handler' = Replied(handler, r, "already filed", a.reference)
    BY <1>5
  <2>2. a \in appeals /\ SameAppeal(a, handler[r].asked) /\ a.reference \in 1 .. drawn
    BY DEF AppealsInv, TableInv
  <2>3. handler' \in [Requests -> AppealHandler] /\ \A q \in Requests \ {r} : handler'[q] = handler[q]
    <3>1. a.reference \in Nat
      BY <2>2 DEF AppealsInv
    <3>2. QED
      BY <1>2, <2>1, <3>1 DEF AppealsInv, AppealHandler, Replied, Replies
  <2>4. /\ handler'[r].step = "done" /\ handler'[r].reply = "already filed"
        /\ handler'[r].reference = a.reference /\ handler'[r].asked = handler[r].asked
    BY <1>2, <2>1 DEF AppealsInv, AppealHandler, Replied
  <2>5. HandlerInv(r)'
    <3>1. drawn' = drawn /\ drawn \in Nat /\ appeals' = appeals
      BY <1>3 DEF AppealsInv
    <3>2. a.reference \in 0 .. drawn /\ a.reference # 0
      BY <2>2, <3>1
    <3>3. QED
      BY <2>2, <2>4, <3>1, <3>2 DEF HandlerInv, NoReference, SameAppeal
  <2>6. QED
    BY <1>2, <1>3, <2>3, <2>5, ReadingKeeps
<1>6. CASE handler' = [Moved(r, "insert") EXCEPT ![r].blind = TRUE]
  <2>1. handler' \in [Requests -> AppealHandler] /\ \A q \in Requests \ {r} : handler'[q] = handler[q]
    BY <1>2, <1>6 DEF AppealsInv, AppealHandler, Moved
  <2>2. /\ handler'[r].blind /\ handler'[r].step = "insert"
        /\ handler'[r].reply = handler[r].reply /\ handler'[r].reference = handler[r].reference
    BY <1>2, <1>6 DEF AppealsInv, AppealHandler, Moved
  <2>3. HandlerInv(r)'
    BY <1>2, <1>3, <2>2 DEF HandlerInv, NoReference
  <2>4. QED
    BY <1>2, <1>3, <2>1, <2>3, ReadingKeeps
<1>7. QED
  BY <1>4, <1>5, <1>6 DEF FindAppeal

(* The handler that writes: whoever read the domain's rows is overtaken.   *)
LEMMA InsertHandlers ==
    ASSUME AppealsInv, NEW r \in Requests, handler[r].step = "insert", NEW written \in BOOLEAN,
           NEW reply \in Replies, NEW reference \in Nat,
           handler' = Replied(IF written THEN Overtaken(handler, r) ELSE handler, r, reply, reference)
    PROVE  /\ handler' \in [Requests -> AppealHandler]
           /\ handler'[r].step = "done" /\ handler'[r].reply = reply /\ handler'[r].reference = reference
           /\ handler'[r].asked = handler[r].asked /\ handler'[r].blind = handler[r].blind
           /\ \A q \in Requests \ {r} :
                /\ handler'[q].step = handler[q].step /\ handler'[q].asked = handler[q].asked
                /\ handler'[q].reply = handler[q].reply /\ handler'[q].reference = handler[q].reference
                /\ handler[q].blind => handler'[q].blind
                /\ handler[q].step \notin {"find", "insert"} => handler'[q].blind = handler[q].blind
                /\ written /\ handler[q].step \in {"find", "insert"}
                     /\ handler[q].asked.domain = handler[r].asked.domain => handler'[q].blind
<1> DEFINE h == IF written THEN Overtaken(handler, r) ELSE handler
<1>1. \A q \in Requests : handler[q] \in AppealHandler
  BY DEF AppealsInv
<1>2. h \in [Requests -> AppealHandler] /\ h[r].asked = handler[r].asked /\ h[r].blind = handler[r].blind
  BY <1>1 DEF Overtaken, AppealHandler, AppealsInv
<1>3. ASSUME NEW q \in Requests \ {r}
      PROVE  /\ h[q].step = handler[q].step /\ h[q].asked = handler[q].asked
             /\ h[q].reply = handler[q].reply /\ h[q].reference = handler[q].reference
             /\ handler[q].blind => h[q].blind
             /\ handler[q].step \notin {"find", "insert"} => h[q].blind = handler[q].blind
             /\ written /\ handler[q].step \in {"find", "insert"}
                  /\ handler[q].asked.domain = handler[r].asked.domain => h[q].blind
  BY <1>1 DEF Overtaken, AppealHandler
<1> HIDE DEF h
<1>4. handler' = [h EXCEPT ![r].step = "done", ![r].reply = reply, ![r].reference = reference]
  BY DEF h, Replied
<1>5. handler' \in [Requests -> AppealHandler]
  BY <1>2, <1>4 DEF AppealHandler
<1>6. /\ handler'[r].step = "done" /\ handler'[r].reply = reply /\ handler'[r].reference = reference
      /\ handler'[r].asked = handler[r].asked /\ handler'[r].blind = handler[r].blind
  BY <1>2, <1>4 DEF AppealHandler
<1>7. \A q \in Requests \ {r} : handler'[q] = h[q]
  BY <1>2, <1>4
<1>8. QED
  BY <1>3, <1>5, <1>6, <1>7

(* The new row, and what it does to the counts of its domain's hour.       *)
LEMMA InsertTable ==
    ASSUME AppealsInv, NEW r \in Requests, handler[r].step = "insert",
           NEW row, row.domain = handler[r].asked.domain, row.words = handler[r].asked.words,
           row.at = appealHour, row.by = r, row.reference = drawn + 1,
           appeals' = appeals \cup {row}, appealHour' = appealHour, drawn' = drawn + 1,
           handler'[r].step = "done", handler'[r].reply = "filed",
           handler'[r].blind = handler[r].blind,
           \A q \in Requests \ {r} :
               handler[q].step = "done" => /\ handler'[q].step = "done"
                                           /\ handler'[q].reply = handler[q].reply
                                           /\ handler'[q].blind = handler[q].blind
    PROVE  TableInv'
<1> USE DEF TableInv
<1>1. IsFiniteSet(appeals) /\ IsFiniteSet(appeals')
  BY FS_AddElement DEF AppealsInv
<1>2. \A a \in appeals : /\ a.by \in Requests \ {r} /\ handler'[a.by].step = "done"
                         /\ handler'[a.by].reply = "filed" /\ handler'[a.by].blind = handler[a.by].blind
  BY DEF AppealsInv
<1>3. ASSUME NEW a \in appeals'
      PROVE  /\ a.at \in 0 .. appealHour' /\ a.reference \in 1 .. drawn' /\ a.by \in Requests
             /\ handler'[a.by].step = "done" /\ handler'[a.by].reply = "filed"
  <2>1. CASE a \in appeals
    BY <1>2, <2>1 DEF AppealsInv
  <2>2. CASE a = row
    BY <2>2 DEF AppealsInv
  <2>3. QED
    BY <2>1, <2>2
<1>4. BudgetInv'
  <2> SUFFICES ASSUME NEW d, NEW t \in Int, t >= appealHour - AppealWindow,
                      Cardinality(AppealsSince(d, t)') > AppealsPerDomain
               PROVE  \E a \in AppealsSince(d, t)' : handler'[a.by].blind
    BY DEF BudgetInv
  <2> DEFINE new == AppealsSince(d, t)'
  <2>a. new = {a \in appeals' : a.domain = d /\ a.at > t}
    BY DEF AppealsSince
  <2>b. IsFiniteSet(new) /\ Cardinality(new) \in Nat /\ Cardinality(new) > AppealsPerDomain
    BY <1>1, <2>a, FS_Subset, FS_CardinalityType
  <2> HIDE DEF new
  <2>1. CASE row \notin new
    <3>1. new = AppealsSince(d, t)
      BY <2>1, <2>a DEF AppealsSince
    <3>2. new # {}
      BY <2>b, FS_EmptySet, AppealsAssumption
    <3>3. d \in {a.domain : a \in appeals}
      BY <3>1, <3>2 DEF AppealsSince
    <3>a. Cardinality(AppealsSince(d, t)) > AppealsPerDomain
      BY <2>b, <3>1
    <3>4. PICK a \in AppealsSince(d, t) : handler[a.by].blind
      BY <3>a, <3>3, Zenon DEF AppealsInv, BudgetInv
    <3>5. QED
      BY <1>2, <3>1, <3>4 DEF AppealsSince, new
  <2>2. CASE row \in new /\ handler[r].blind
    BY <2>2 DEF new
  <2>3. CASE row \in new /\ ~ handler[r].blind
    <3>1. AppealsSince(d, t) \subseteq Recent(d) /\ d = handler[r].asked.domain
      BY <2>3, <2>a, AppealsAssumption DEF AppealsSince, Recent, AppealsInv
    <3>2. Cardinality(Recent(d)) < AppealsPerDomain
      BY <2>3, <3>1 DEF AppealsInv, HandlerInv
    <3>3. /\ Cardinality(AppealsSince(d, t)) <= Cardinality(Recent(d))
          /\ IsFiniteSet(AppealsSince(d, t)) /\ Cardinality(AppealsSince(d, t)) \in Nat
          /\ Cardinality(Recent(d)) \in Nat
      BY <3>1, FS_Subset, RecentSize DEF AppealsInv
    <3>4. new = AppealsSince(d, t) \cup {row}
      BY <2>3, <2>a DEF AppealsSince
    <3>5. Cardinality(new) <= Cardinality(AppealsSince(d, t)) + 1
      <4> DEFINE S == AppealsSince(d, t)
      <4>1. IsFiniteSet(S) /\ new = S \cup {row}
        BY <3>3, <3>4
      <4> HIDE DEF S
      <4>2. Cardinality(new) <= Cardinality(S) + 1
        BY <4>1, OneMoreAppeal
      <4>3. QED
        BY <4>2 DEF S
    <3>6. QED
      BY <2>b, <3>2, <3>3, <3>5, AppealsAssumption
  <2>4. QED
    BY <2>1, <2>2, <2>3
<1>5. RepeatOnlyBlind'
  <2> SUFFICES ASSUME NEW a \in appeals', NEW b \in appeals', a # b, a.domain = b.domain, a.words = b.words
               PROVE  handler'[a.by].blind \/ handler'[b.by].blind
    BY DEF RepeatOnlyBlind
  <2>1. CASE a \in appeals /\ b \in appeals
    BY <1>2, <2>1 DEF AppealsInv, RepeatOnlyBlind
  <2>2. CASE a = row \/ b = row
    <3>1. ASSUME ~ handler[r].blind PROVE \A c \in appeals : ~ SameAppeal(c, handler[r].asked)
      BY <3>1 DEF AppealsInv, HandlerInv
    <3>2. handler[r].blind
      BY <2>2, <3>1 DEF SameAppeal
    <3>3. QED
      BY <2>2, <3>2
  <2>3. QED
    BY <2>1, <2>2
<1>6. QED
  BY <1>1, <1>3, <1>4, <1>5

LEMMA InsertKeeps == ASSUME AppealsInv, NEW r \in Requests, Insert(r) PROVE AppealsInv'
<1>1. PICK written \in BOOLEAN :
        /\ appeals' = IF written THEN appeals \cup {Row(r, drawn')} ELSE appeals
        /\ handler' = Replied(IF written THEN Overtaken(handler, r) ELSE handler, r,
                              IF written THEN "filed" ELSE "not saved",
                              WhenWritten(written, drawn'))
  BY DEF Insert
<1>2. /\ handler[r].step = "insert" /\ drawn \in Nat /\ drawn' = drawn + 1
      /\ appealHour' = appealHour /\ appealHour \in Nat
  BY DEF Insert, AppealsInv
<1> DEFINE reply == IF written THEN "filed" ELSE "not saved"
           reference == WhenWritten(written, drawn')
<1>3. reply \in Replies /\ reference \in Nat
  BY <1>2 DEF Replies, WhenWritten, NoReference
<1> HIDE DEF reply, reference
<1>4. handler' = Replied(IF written THEN Overtaken(handler, r) ELSE handler, r, reply, reference)
  BY <1>1 DEF reply, reference
<1>5. /\ handler' \in [Requests -> AppealHandler]
      /\ handler'[r].step = "done" /\ handler'[r].reply = reply /\ handler'[r].reference = reference
      /\ handler'[r].asked = handler[r].asked /\ handler'[r].blind = handler[r].blind
      /\ \A q \in Requests \ {r} :
           /\ handler'[q].step = handler[q].step /\ handler'[q].asked = handler[q].asked
           /\ handler'[q].reply = handler[q].reply /\ handler'[q].reference = handler[q].reference
           /\ handler[q].blind => handler'[q].blind
           /\ handler[q].step \notin {"find", "insert"} => handler'[q].blind = handler[q].blind
           /\ written /\ handler[q].step \in {"find", "insert"}
                /\ handler[q].asked.domain = handler[r].asked.domain => handler'[q].blind
  BY <1>2, <1>3, <1>4, InsertHandlers
<1>6. drawn' <= Cardinality(Answered')
  <2>1. Answered' = Answered \cup {r} /\ r \notin Answered
    BY <1>2, <1>5 DEF Answered
  <2>2. IsFiniteSet(Answered) /\ drawn <= Cardinality(Answered)
    BY <1>2, <1>5, AnsweredGrows DEF AppealsInv
  <2>3. Cardinality(Answered \cup {r}) = Cardinality(Answered) + 1 /\ Cardinality(Answered) \in Nat
    <3> DEFINE S == Answered
    <3>1. IsFiniteSet(S) /\ r \notin S
      BY <2>1, <2>2
    <3> HIDE DEF S
    <3>2. Cardinality(S \cup {r}) = Cardinality(S) + 1 /\ Cardinality(S) \in Nat
      BY <3>1, OneMoreAppeal
    <3>3. QED
      BY <3>2 DEF S
  <2>4. QED
    BY <1>2, <2>1, <2>2, <2>3
<1>7. TableInv'
  <2>1. CASE written
    <3> DEFINE row == Row(r, drawn')
    <3>1. /\ row.domain = handler[r].asked.domain /\ row.words = handler[r].asked.words
          /\ row.at = appealHour /\ row.by = r /\ row.reference = drawn + 1
      BY <1>2 DEF Row
    <3>2. appeals' = appeals \cup {row} /\ reply = "filed"
      BY <1>1, <2>1 DEF reply
    <3> HIDE DEF row
    <3>3. \A q \in Requests \ {r} :
            handler[q].step = "done" => /\ handler'[q].step = "done"
                                        /\ handler'[q].reply = handler[q].reply
                                        /\ handler'[q].blind = handler[q].blind
      BY <1>5
    <3>4. QED
      BY <1>2, <1>5, <3>1, <3>2, <3>3, InsertTable
  <2>2. CASE ~ written
    <3>1. appeals' = appeals
      BY <1>1, <2>2
    <3>2. \A a \in appeals : /\ a.by \in Requests \ {r} /\ handler'[a.by].step = "done"
                             /\ handler'[a.by].reply = "filed" /\ handler'[a.by].blind = handler[a.by].blind
      BY <1>2, <1>5 DEF AppealsInv, TableInv
    <3>3. RepeatOnlyBlind'
      BY <3>1, <3>2 DEF AppealsInv, TableInv, RepeatOnlyBlind
    <3>4. BudgetInv'
      <4>1. \A d, t : AppealsSince(d, t)' = AppealsSince(d, t)
        BY <3>1 DEF AppealsSince
      <4>2. QED
        BY <1>2, <3>1, <3>2, <4>1 DEF AppealsInv, TableInv, BudgetInv, AppealsSince
    <3>5. QED
      BY <1>2, <3>1, <3>2, <3>3, <3>4 DEF AppealsInv, TableInv
  <2>3. QED
    BY <2>1, <2>2
<1>8. ASSUME NEW q \in Requests PROVE HandlerInv(q)'
  <2>1. CASE q = r
    <3>1. CASE written
      <4>1. handler'[r].reference = drawn' /\ handler'[r].reply = "filed" /\ Row(r, drawn') \in appeals'
        BY <1>1, <1>5, <3>1 DEF reply, reference, WhenWritten
      <4>2. /\ Row(r, drawn').reference = handler'[r].reference
            /\ SameAppeal(Row(r, drawn'), handler'[r].asked)
        BY <1>5, <4>1 DEF Row, SameAppeal
      <4>3. handler'[r].reference \in 0 .. drawn' /\ handler'[r].reference # 0
        BY <1>2, <4>1
      <4>4. QED
        BY <1>5, <2>1, <4>1, <4>2, <4>3 DEF HandlerInv, NoReference, SameAppeal
    <3>2. CASE ~ written
      <4>1. handler'[r].reference = 0 /\ handler'[r].reply = "not saved"
        BY <1>1, <1>5, <3>2 DEF reply, reference, WhenWritten, NoReference
      <4>2. 0 \in 0 .. drawn'
        BY <1>2
      <4>3. handler'[r].reference \in 0 .. drawn'
        BY <4>1, <4>2, Zenon
      <4>4. QED
        BY <1>5, <2>1, <4>1, <4>3, Zenon DEF HandlerInv, NoReference
    <3>3. QED
      BY <3>1, <3>2
  <2>2. CASE q # r
    <3> DEFINE row == Row(r, drawn')
    <3>a. row.domain = handler[r].asked.domain /\ row.words = handler[r].asked.words
      BY DEF Row
    <3>b. (appeals' = appeals \cup {row} /\ written) \/ appeals' = appeals
      BY <1>1
    <3> HIDE DEF row
    <3>1. /\ handler'[q].step = handler[q].step /\ handler'[q].asked = handler[q].asked
          /\ handler'[q].reply = handler[q].reply /\ handler'[q].reference = handler[q].reference
          /\ handler[q].blind => handler'[q].blind
      BY <1>5, <2>2
    <3>c. HandlerInv(q)
      BY DEF AppealsInv
    <3>2. handler'[q].reference \in 0 .. drawn'
      <4>1. handler[q].reference \in 0 .. drawn
        BY <3>c DEF HandlerInv
      <4>2. 0 .. drawn \subseteq 0 .. drawn'
        BY <1>2
      <4>3. QED
        BY <3>1, <4>1, <4>2, Zenon
    <3>3. \A a \in appeals : a \in appeals'
      BY <3>b
    <3>7. handler'[q].reference # NoReference =>
            \/ \E a \in appeals' : a.reference = handler'[q].reference /\ SameAppeal(a, handler'[q].asked)
            \/ appealHour' > KeptFor
      BY <1>2, <3>1, <3>c, <3>3 DEF HandlerInv
    <3>8. /\ handler'[q].reference # NoReference <=> handler'[q].reply \in {"filed", "already filed"}
          /\ handler'[q].step # "done" => handler'[q].reply = "none"
      BY <3>1, <3>c DEF HandlerInv
    <3>4. CASE handler'[q].step \in {"find", "insert"} /\ ~ handler'[q].blind
      <4>1. ~ handler[q].blind /\ (written => handler[q].asked.domain # handler[r].asked.domain)
        BY <1>5, <2>2, <3>1, <3>4
      <4>a. \A a \in appeals' : a \in appeals \/ a.domain # handler[q].asked.domain
        BY <3>a, <3>b, <4>1
      <4>2. Recent(handler[q].asked.domain)' = Recent(handler[q].asked.domain)
        <5> DEFINE D == handler[q].asked.domain
        <5>1. handler'[q].asked.domain = D
          BY <3>1
        <5>2. \A a : a \in appeals' /\ a.domain = D <=> a \in appeals /\ a.domain = D
          BY <3>3, <4>a
        <5> HIDE DEF D
        <5>3. {a \in appeals' : a.domain = D /\ a.at > appealHour - AppealWindow}
                = {a \in appeals : a.domain = D /\ a.at > appealHour - AppealWindow}
          BY <5>2
        <5>4. QED
          BY <1>2, <5>1, <5>3 DEF Recent, D
      <4>3. \A a \in appeals' : a \in appeals \/ ~ SameAppeal(a, handler[q].asked)
        BY <4>a DEF SameAppeal
      <4>4. /\ Cardinality(Recent(handler[q].asked.domain)) < AppealsPerDomain
            /\ handler[q].step = "insert" => \A a \in appeals : ~ SameAppeal(a, handler[q].asked)
        BY <3>1, <3>4, <4>1, <3>c, Zenon DEF HandlerInv
      <4>5. /\ Cardinality(Recent(handler[q].asked.domain)') < AppealsPerDomain
            /\ handler'[q].step = "insert" => \A a \in appeals' : ~ SameAppeal(a, handler[q].asked)
        BY <3>1, <4>2, <4>3, <4>4, Zenon
      <4>6. QED
        <5>1. /\ handler'[q].step \in {"find", "insert"} /\ ~ handler'[q].blind =>
                     Cardinality(Recent(handler[q].asked.domain)') < AppealsPerDomain
              /\ handler'[q].step = "insert" /\ ~ handler'[q].blind =>
                     \A a \in appeals' : ~ SameAppeal(a, handler'[q].asked)
          BY <3>1, <4>5, Zenon
        <5>2. QED
          BY <3>2, <3>7, <3>8, <5>1, Zenon DEF HandlerInv, SameAppeal
    <3>5. CASE ~ (handler'[q].step \in {"find", "insert"} /\ ~ handler'[q].blind)
      BY <3>2, <3>5, <3>7, <3>8, Zenon DEF HandlerInv, SameAppeal
    <3>6. QED
      BY <3>4, <3>5
  <2>3. QED
    BY <2>1, <2>2
<1>9. QED
  BY <1>2, <1>5, <1>6, <1>7, <1>8 DEF AppealsInv

(* The clock only leaves rows behind: an hour that begins later is an hour *)
(* the invariant already speaks of.                                        *)
LEMMA HourKeeps == ASSUME AppealsInv, HourPasses PROVE AppealsInv'
<1>1. /\ UNCHANGED <<appeals, handler, drawn>> /\ appealHour' = appealHour + 1
      /\ appealHour \in Nat /\ TableInv
  BY DEF HourPasses, AppealsInv
<1>2. drawn' <= Cardinality(Answered')
  BY <1>1, AnsweredGrows
<1>3. ASSUME NEW q \in Requests PROVE HandlerInv(q)'
  <2>1. HandlerInv(q) /\ handler'[q] = handler[q]
    BY <1>1 DEF AppealsInv
  <2> DEFINE R == Recent(handler[q].asked.domain)
             RR == Recent(handler[q].asked.domain)'
  <2>2. RR \subseteq R
    BY <1>1, AppealsAssumption DEF Recent, TableInv
  <2>3. IsFiniteSet(R) /\ Cardinality(R) \in Nat
    BY <1>1, RecentSize
  <2> HIDE DEF R, RR
  <2>4. Cardinality(RR) <= Cardinality(R) /\ Cardinality(RR) \in Nat
    BY <2>2, <2>3, FS_Subset, FS_CardinalityType
  <2>5. /\ Recent(handler[q].asked.domain)' = RR /\ R = Recent(handler[q].asked.domain)
    BY DEF R, RR
  <2>6. Cardinality(Recent(handler[q].asked.domain)) < AppealsPerDomain =>
        Cardinality(Recent(handler[q].asked.domain)') < AppealsPerDomain
    BY <2>3, <2>4, <2>5, AppealsAssumption
  <2>7. appealHour > KeptFor => appealHour' > KeptFor
    BY <1>1, AppealsAssumption
  <2>8. QED
    BY <1>1, <2>1, <2>6, <2>7 DEF HandlerInv, SameAppeal
<1>4. BudgetInv'
  <2> SUFFICES ASSUME NEW d \in {a.domain : a \in appeals}, NEW t \in Int,
                      t >= appealHour' - AppealWindow, Cardinality(AppealsSince(d, t)') > AppealsPerDomain
               PROVE  \E a \in AppealsSince(d, t)' : handler'[a.by].blind
    BY <1>1 DEF BudgetInv
  <2>1. AppealsSince(d, t)' = AppealsSince(d, t)
    BY <1>1 DEF AppealsSince
  <2>2. t >= appealHour - AppealWindow
    BY <1>1, AppealsAssumption
  <2>3. \E a \in AppealsSince(d, t) : handler[a.by].blind
    BY <1>1, <2>1, <2>2 DEF TableInv, BudgetInv
  <2>4. QED
    BY <1>1, <2>1, <2>3
<1>5. TableInv'
  BY <1>1, <1>4 DEF TableInv, RepeatOnlyBlind
<1>6. QED
  BY <1>1, <1>2, <1>3, <1>5 DEF AppealsInv

(* The sweep takes only what is out of sight of every count it could       *)
(* spoil, or the very rows a passed budget was passed by.                  *)
LEMMA SweepKeeps == ASSUME AppealsInv, SweepAppeals PROVE AppealsInv'
<1>1. /\ UNCHANGED <<handler, appealHour, drawn>> /\ appealHour \in Nat /\ TableInv
      /\ appeals' = {a \in appeals : ~ SweptWhenOlder(a)}
  BY DEF SweepAppeals, AppealsInv
<1>2. drawn' <= Cardinality(Answered')
  BY <1>1, AnsweredGrows
<1>3. appeals' \subseteq appeals /\ IsFiniteSet(appeals')
  BY <1>1, FS_Subset DEF TableInv
<1>4. \A a \in appeals : a.at \in 0 .. appealHour
  BY <1>1 DEF TableInv
<1>5. ASSUME NEW q \in Requests PROVE HandlerInv(q)'
  <2>1. HandlerInv(q) /\ handler'[q] = handler[q]
    BY <1>1 DEF AppealsInv
  <2> DEFINE R == Recent(handler[q].asked.domain)
             RR == Recent(handler[q].asked.domain)'
  <2>2. RR \subseteq R
    BY <1>1 DEF Recent
  <2>3. IsFiniteSet(R) /\ Cardinality(R) \in Nat
    BY <1>1, RecentSize
  <2> HIDE DEF R, RR
  <2>4. Cardinality(RR) <= Cardinality(R) /\ Cardinality(RR) \in Nat
    BY <2>2, <2>3, FS_Subset, FS_CardinalityType
  <2>5. /\ Recent(handler[q].asked.domain)' = RR /\ R = Recent(handler[q].asked.domain)
    BY DEF R, RR
  <2>6. Cardinality(Recent(handler[q].asked.domain)) < AppealsPerDomain =>
        Cardinality(Recent(handler[q].asked.domain)') < AppealsPerDomain
    BY <2>3, <2>4, <2>5, AppealsAssumption
  <2>7. \A a \in appeals : a \in appeals' \/ appealHour > KeptFor
    BY <1>1, <1>4, AppealsAssumption DEF SweptWhenOlder
  <2>8. handler[q].reference # NoReference =>
          \/ \E a \in appeals' : a.reference = handler[q].reference /\ SameAppeal(a, handler[q].asked)
          \/ appealHour > KeptFor
    BY <2>1, <2>7 DEF HandlerInv
  <2>9. QED
    BY <1>1, <1>3, <2>1, <2>6, <2>8 DEF HandlerInv, SameAppeal
<1>6. BudgetInv'
  <2> SUFFICES ASSUME NEW d \in {a.domain : a \in appeals'}, NEW t \in Int,
                      t >= appealHour - AppealWindow, Cardinality(AppealsSince(d, t)') > AppealsPerDomain
               PROVE  \E a \in AppealsSince(d, t)' : handler[a.by].blind
    BY <1>1 DEF BudgetInv
  <2> DEFINE u == IF t >= appealHour - KeptFor - 1 THEN t ELSE appealHour - KeptFor - 1
  <2>1. u \in Int /\ u >= appealHour - AppealWindow
    BY <1>1, AppealsAssumption
  <2>2. \A a \in appeals : a.at > u <=> a.at > t /\ ~ SweptWhenOlder(a)
    BY <1>1, <1>4, AppealsAssumption DEF SweptWhenOlder
  <2> HIDE DEF u
  <2>3. AppealsSince(d, t)' = AppealsSince(d, u)
    BY <1>1, <2>2 DEF AppealsSince
  <2>4. d \in {a.domain : a \in appeals} /\ Cardinality(AppealsSince(d, u)) > AppealsPerDomain
    BY <1>3, <2>3
  <2>5. \E a \in AppealsSince(d, u) : handler[a.by].blind
    BY <1>1, <2>1, <2>4, Zenon DEF TableInv, BudgetInv
  <2>6. QED
    BY <2>3, <2>5
<1>7. TableInv'
  BY <1>1, <1>3, <1>6 DEF TableInv, RepeatOnlyBlind
<1>8. QED
  BY <1>1, <1>2, <1>5, <1>7 DEF AppealsInv

LEMMA AppealsInvStep == AppealsInv /\ [AppealsNext]_appealVars => AppealsInv'
<1> SUFFICES ASSUME AppealsInv, [AppealsNext]_appealVars PROVE AppealsInv'
  OBVIOUS
<1>1. CASE HourPasses
  BY <1>1, HourKeeps
<1>2. CASE SweepAppeals
  BY <1>2, SweepKeeps
<1>3. ASSUME NEW r \in Requests, Arrive(r) PROVE AppealsInv'
  BY <1>3, ArriveKeeps
<1>4. ASSUME NEW r \in Requests, CountAppeals(r) PROVE AppealsInv'
  BY <1>4, CountKeeps
<1>5. ASSUME NEW r \in Requests, FindAppeal(r) PROVE AppealsInv'
  BY <1>5, FindKeeps
<1>6. ASSUME NEW r \in Requests, Insert(r) PROVE AppealsInv'
  BY <1>6, InsertKeeps
<1>7. CASE UNCHANGED appealVars
  <2>1. UNCHANGED <<appeals, handler, appealHour, drawn>>
    BY <1>7 DEF appealVars
  <2>2. Answered' = Answered /\ TableInv' = TableInv
    BY <2>1 DEF Answered, TableInv, BudgetInv, RepeatOnlyBlind, AppealsSince
  <2>3. \A r \in Requests : HandlerInv(r)' = HandlerInv(r)
    BY <2>1 DEF HandlerInv, Recent, SameAppeal
  <2>4. QED
    BY <2>1, <2>2, <2>3 DEF AppealsInv
<1>8. QED
  BY <1>1, <1>2, <1>3, <1>4, <1>5, <1>6, <1>7 DEF AppealsNext

(* What every handler and the table keep, whoever overtakes whom between   *)
(* the awaits of appeal (router.ts).                                       *)
THEOREM AppealsInvAlways == AppealsSpec => []AppealsInv
<1>1. QED
  BY AppealsInvInit, AppealsInvStep, PTL DEF AppealsSpec

LEMMA AppealsInvSuffices == AppealsInv => AppealsAreOnFile
<1> SUFFICES ASSUME AppealsInv PROVE AppealsAreOnFile
  OBVIOUS
<1>1. AppealsTypeOK
  <2>1. drawn <= Cardinality(Requests)
    <3>1. Answered \subseteq Requests
      BY DEF Answered
    <3>2. IsFiniteSet(Answered) /\ Cardinality(Answered) <= Cardinality(Requests)
      BY <3>1, AppealsAssumption, FS_Subset
    <3>3. Cardinality(Answered) \in Nat /\ Cardinality(Requests) \in Nat
      BY <3>2, AppealsAssumption, FS_CardinalityType
    <3>4. QED
      BY <3>2, <3>3 DEF AppealsInv
  <2>2. \A r \in Requests : handler[r] \in AppealHandler /\ HandlerInv(r)
    BY DEF AppealsInv
  <2>3. \A a \in appeals : a.at \in 0 .. appealHour /\ a.reference \in 1 .. drawn /\ a.by \in Requests
    BY DEF AppealsInv, TableInv
  <2>4. \A r \in Requests :
          /\ handler[r].reference \in 0 .. drawn
          /\ handler[r].reference # NoReference <=> handler[r].reply \in {"filed", "already filed"}
    BY <2>2 DEF HandlerInv
  <2>5. QED
    BY <2>1, <2>2, <2>3, <2>4 DEF AppealsTypeOK, AppealHandler
<1>2. BudgetPassedOnlyBlind
  <2> SUFFICES ASSUME NEW d \in {a.domain : a \in appeals}, Cardinality(Recent(d)) > AppealsPerDomain
               PROVE  \E a \in Recent(d) : handler[a.by].blind
    BY DEF BudgetPassedOnlyBlind
  <2> DEFINE t == appealHour - AppealWindow
  <2>1. t \in Int /\ t >= appealHour - AppealWindow
    BY AppealsAssumption DEF AppealsInv
  <2>2. Recent(d) = AppealsSince(d, t)
    BY DEF Recent, AppealsSince
  <2> HIDE DEF t
  <2>3. QED
    BY <2>1, <2>2, Zenon DEF AppealsInv, TableInv, BudgetInv
<1>3. RepeatOnlyBlind
  BY DEF AppealsInv, TableInv
<1>4. ReferenceStands
  <2>1. ASSUME NEW r \in Requests, handler[r].reference # NoReference
        PROVE  \/ \E a \in appeals : /\ a.reference = handler[r].reference
                                     /\ a.domain = handler[r].asked.domain
                                     /\ a.words = handler[r].asked.words
               \/ appealHour > KeptFor
    BY <2>1 DEF AppealsInv, HandlerInv, SameAppeal
  <2>2. ASSUME NEW r \in Requests, handler[r].reply \in {"refused", "over budget", "not saved"}
        PROVE  \A a \in appeals : a.by # r
    BY <2>2 DEF AppealsInv, TableInv
  <2>3. QED
    BY <2>1, <2>2 DEF ReferenceStands
<1>5. QED
  BY <1>1, <1>2, <1>3, <1>4 DEF AppealsAreOnFile

(* An appeal is on file once, within its domain's hourly budget, and under *)
(* the reference its owner was given, but where one request overtook       *)
(* another: appeal, countAppeals and findAppeal of router.ts, for any      *)
(* number of requests, any window, and any time the rows are kept.         *)
THEOREM AppealsFiled == AppealsSpec => []AppealsAreOnFile
<1>1. QED
  BY AppealsInvAlways, AppealsInvSuffices, PTL

(* An appeal leaves the table only once its 180 days are over: no handler  *)
(* takes a row away, and the sweep of apps/proxy/src/index.ts takes none   *)
(* before its time.                                                        *)
THEOREM AppealsKeptTheirTime == AppealsSpec => KeptItsTime
<1>1. AppealsInv /\ [AppealsNext]_appealVars
        => [\A a \in appeals \ appeals' : appealHour - a.at > KeptFor]_appealVars
  <2> SUFFICES ASSUME AppealsInv, AppealsNext, NEW a \in appeals, a \notin appeals'
               PROVE  appealHour - a.at > KeptFor
    OBVIOUS
  <2>1. CASE HourPasses
    BY <2>1 DEF HourPasses
  <2>2. CASE SweepAppeals
    BY <2>2, AppealsAssumption DEF SweepAppeals, SweptWhenOlder, AppealsInv, TableInv
  <2>3. ASSUME NEW r \in Requests, Arrive(r) \/ CountAppeals(r) \/ FindAppeal(r) \/ Insert(r)
        PROVE  FALSE
    BY <2>3 DEF Arrive, CountAppeals, FindAppeal, Insert
  <2>4. QED
    BY <2>1, <2>2, <2>3 DEF AppealsNext
<1>2. QED
  BY <1>1, AppealsInvAlways, PTL DEF AppealsSpec, KeptItsTime

-----------------------------------------------------------------------------
(***************************************************************************)
(* OwnerQueue, for any items, loads and entries: once what was pressed is  *)
(* done the popup shows what was put off last, nothing dealt with, and no  *)
(* entry goes by unannounced.                                              *)
(***************************************************************************)
LoadRecord == [step : {"none", "reading", "read", "done"}, items : SUBSET Items,
               held : [Items -> Nat], changed : SUBSET Entries]

OwnerTyped ==
    /\ OwnerTypeOK /\ loads \in [Loads -> LoadRecord] /\ popup.deferred \subseteq Items
    /\ lastCheck <= clock /\ \A e \in Entries : entries[e] <= clock

(* A closed popup loads nothing; and while nothing has crossed, one load   *)
(* is under way at most, and none under a view that is painted.            *)
OneView ==
    /\ popup.kind = "closed" => UnderWay = {}
    /\ crossed \/ /\ popup.kind \in {"ready", "error"} => UnderWay = {}
                  /\ \A k, l \in UnderWay : k = l

(* While nothing has crossed, what a load has read, and what is painted,   *)
(* is still so, but for the deferrals whose time is over.                  *)
StillSo ==
    crossed \/
        /\ \A l \in Loads : loads[l].step = "read" =>
               /\ loads[l].items \cap resolved = {}
               /\ \A i \in Items : deferrals[i] = 0 \/ deferrals[i] = loads[l].held[i]
        /\ popup.kind = "ready" =>
               /\ popup.items \cap resolved = {}
               /\ \A i \in Items : deferrals[i] > clock => i \in popup.deferred

Accounted == announced \cup excused
AnnouncedInTime ==
    /\ EveryEntryAnnounced
    /\ \A l \in Loads : loads[l].step = "read" => Fresh(lastCheck) \subseteq loads[l].changed \cup Accounted
    /\ popup.kind = "ready" \/ stamping => Fresh(lastCheck) \subseteq Accounted

OwnerInv == OwnerTyped /\ OneView /\ StillSo /\ AnnouncedInTime

(* buildQueue: nothing that was not put off is pushed out by what was.     *)
LEMMA PutOffRanksLast ==
    ASSUME NEW items \in SUBSET Items, NEW held, NEW i \in TopOf(items, held), i \in held,
           NEW j \in items \ TopOf(items, held)
    PROVE  j \in held
<1> SUFFICES ASSUME j \notin held PROVE FALSE
  OBVIOUS
<1> DEFINE Ahead(x) == {k \in items : Before(items, held, k, x)}
<1>1. Ahead(j) \subseteq Ahead(i)
  BY DEF Before
<1>2. IsFiniteSet(Ahead(i))
  <2>1. Ahead(i) \subseteq Items /\ IsFiniteSet(Items)
    BY OwnerAssumption
  <2> HIDE DEF Ahead
  <2>2. QED
    BY <2>1, FS_Subset
<1>3. Cardinality(Ahead(i)) < Shown /\ ~ (Cardinality(Ahead(j)) < Shown)
  BY DEF TopOf
<1> HIDE DEF Ahead
<1>4. Cardinality(Ahead(j)) <= Cardinality(Ahead(i))
  BY <1>1, <1>2, FS_Subset
<1>5. Cardinality(Ahead(j)) \in Nat /\ Cardinality(Ahead(i)) \in Nat /\ Shown \in Nat
  BY <1>1, <1>2, FS_Subset, FS_CardinalityType, OwnerAssumption
<1>6. QED
  BY <1>3, <1>4, <1>5

(* diffSince: a later look leaves less to count.                           *)
LEMMA LaterLookLeavesLess ==
    ASSUME OwnerTyped, NEW now \in Int, lastCheck <= now
    PROVE  Fresh(now) \subseteq Fresh(lastCheck)
<1>1. lastCheck \in Int /\ -1 <= lastCheck /\ entries \in [Entries -> Int]
  <2>1. lastCheck \in {Never} \cup 0 .. MaxClock /\ entries \in [Entries -> Int]
    BY DEF OwnerTyped, OwnerTypeOK
  <2>2. QED
    BY <2>1, OwnerAssumption DEF Never
<1>2. ASSUME NEW e \in Fresh(now) PROVE e \in Fresh(lastCheck)
  <2>1. e \in Entries /\ entries[e] \in Int /\ entries[e] # Never /\ (now = -1 \/ entries[e] > now)
    BY <1>1, <1>2 DEF Fresh, Never
  <2>2. lastCheck = -1 \/ entries[e] > lastCheck
    BY <1>1, <2>1
  <2>3. QED
    BY <2>1, <2>2 DEF Fresh, Never
<1>3. QED
  BY <1>2

LEMMA OwnerInvInit == OwnerInit => OwnerInv
<1> SUFFICES ASSUME OwnerInit PROVE OwnerInv
  OBVIOUS
<1>1. Unused \in LoadRecord /\ Unused.step = "none"
  BY DEF Unused, LoadRecord
<1>2. \A l \in Loads : loads[l].step = "none"
  BY <1>1 DEF OwnerInit
<1>3. UnderWay = {}
  BY <1>2 DEF UnderWay
<1>4. popup.kind = "closed" /\ popup.items = {} /\ popup.deferred = {}
  BY DEF OwnerInit, NoView
<1>5. loads \in [Loads -> LoadRecord]
  BY <1>1 DEF OwnerInit
<1>6. /\ clock = 0 /\ lastCheck = -1 /\ \A e \in Entries : entries[e] = -1
      /\ crossed = FALSE /\ stamping = FALSE /\ expanded = FALSE /\ sends = {} /\ resolved = {}
      /\ created \in [Items -> Int] /\ deferrals \in [Items -> Nat] /\ entries \in [Entries -> Int]
  BY DEF OwnerInit, Never
<1>7. OwnerTypeOK
  <2>1. clock \in 0 .. MaxClock /\ lastCheck \in {Never} \cup 0 .. MaxClock
    BY <1>6, OwnerAssumption DEF Never
  <2>2. stamping \in BOOLEAN /\ expanded \in BOOLEAN /\ crossed \in BOOLEAN
    BY <1>6
  <2>3. sends \subseteq [what : Verbs, item : Items, until : Nat, own : BOOLEAN]
    BY <1>6
  <2>4. QED
    BY <1>2, <1>4, <1>6, <2>1, <2>2, <2>3, Zenon DEF OwnerTypeOK
<1>8. OwnerTyped
  BY <1>4, <1>5, <1>6, <1>7 DEF OwnerTyped
<1>9. OneView /\ StillSo
  BY <1>2, <1>3, <1>4, <1>6 DEF OneView, StillSo
<1>10. AnnouncedInTime
  BY <1>2, <1>4, <1>6 DEF AnnouncedInTime, EveryEntryAnnounced, Never
<1>11. QED
  BY <1>8, <1>9, <1>10 DEF OwnerInv

(* reload: one more load is under way, and the view says so.               *)
LEMMA ReloadBecomes ==
    ASSUME OwnerTyped, Reloads
    PROVE  /\ popup'.kind = "loading" /\ popup'.items = {} /\ popup'.deferred = {}
           /\ loads' \in [Loads -> LoadRecord]
           /\ \E l \in Loads : /\ loads[l].step = "none" /\ loads'[l].step = "reading"
                               /\ \A k \in Loads \ {l} : loads'[k] = loads[k]
                               /\ UnderWay' = UnderWay \cup {l}
<1>1. popup'.kind = "loading" /\ popup'.items = {} /\ popup'.deferred = {}
  BY DEF Reloads, NoView
<1>2. PICK l \in Loads : NextLoad(l) /\ loads' = [loads EXCEPT ![l].step = "reading"]
  BY DEF Reloads
<1>3. loads \in [Loads -> LoadRecord]
  BY DEF OwnerTyped
<1>4. loads[l].step = "none" /\ loads'[l].step = "reading" /\ \A k \in Loads \ {l} : loads'[k] = loads[k]
  BY <1>2, <1>3 DEF NextLoad, LoadRecord
<1>5. loads' \in [Loads -> LoadRecord]
  BY <1>2, <1>3 DEF LoadRecord
<1>6. UnderWay' = UnderWay \cup {l}
  BY <1>4 DEF UnderWay
<1>7. QED
  BY <1>1, <1>4, <1>5, <1>6

(* A load that has read, painted or failed.                                *)
LoadBecomes(l, to) ==
    /\ loads' \in [Loads -> LoadRecord] /\ loads'[l] = to
    /\ \A k \in Loads \ {l} : loads'[k] = loads[k]

LEMMA LoadSteps ==
    ASSUME OwnerTyped, NEW l \in Loads
    PROVE  /\ ReadStore(l) => LoadBecomes(l, [step |-> "read", items |-> Waiting, held |-> deferrals,
                                              changed |-> Fresh(lastCheck)])
           /\ PaintPopup(l) => LoadBecomes(l, [Unused EXCEPT !.step = "done"])
           /\ LoadFails(l) => LoadBecomes(l, [loads[l] EXCEPT !.step = "done"])
<1>1. loads \in [Loads -> LoadRecord] /\ deferrals \in [Items -> Nat]
  BY DEF OwnerTyped, OwnerTypeOK
<1>2. [step |-> "read", items |-> Waiting, held |-> deferrals, changed |-> Fresh(lastCheck)] \in LoadRecord
  <2>1. Waiting \in SUBSET Items /\ Fresh(lastCheck) \in SUBSET Entries
    BY DEF Waiting, Fresh
  <2>2. QED
    BY <1>1, <2>1 DEF LoadRecord
<1>3. [Unused EXCEPT !.step = "done"] \in LoadRecord
  BY DEF Unused, LoadRecord
<1>4. [loads[l] EXCEPT !.step = "done"] \in LoadRecord
  BY <1>1 DEF LoadRecord
<1>5. ASSUME NEW to \in LoadRecord, loads' = [loads EXCEPT ![l] = to] PROVE LoadBecomes(l, to)
  BY <1>1, <1>5 DEF LoadBecomes
<1>6. LoadFails(l) => loads' = [loads EXCEPT ![l] = [loads[l] EXCEPT !.step = "done"]]
  BY <1>1 DEF LoadFails
<1>7. QED
  BY <1>2, <1>3, <1>4, <1>5, <1>6 DEF ReadStore, PaintPopup

LEMMA DoneIsDone ==
    ASSUME NEW l \in Loads, NEW to, LoadBecomes(l, to), to.step = "done"
    PROVE  UnderWay' = UnderWay \ {l} /\ loads'[l].step = "done"
  BY DEF LoadBecomes, UnderWay

LEMMA ClosingBecomes ==
    ASSUME OwnerTyped, ClosePopup
    PROVE  /\ loads' \in [Loads -> LoadRecord] /\ UnderWay' = {}
           /\ \A l \in Loads : loads'[l].step # "read"
           /\ popup'.kind = "closed" /\ popup'.items = {} /\ popup'.deferred = {}
<1>1. loads \in [Loads -> LoadRecord]
  BY DEF OwnerTyped
<1> DEFINE done == [Unused EXCEPT !.step = "done"]
<1>2. done \in LoadRecord /\ done.step = "done"
  BY DEF Unused, LoadRecord
<1>3. loads' = [l \in Loads |-> IF l \in UnderWay THEN done ELSE loads[l]]
  BY DEF ClosePopup
<1> HIDE DEF done
<1>4. loads' \in [Loads -> LoadRecord]
  BY <1>1, <1>2, <1>3
<1>5. \A l \in Loads : loads'[l].step \notin {"reading", "read"}
  BY <1>2, <1>3 DEF UnderWay
<1>6. QED
  BY <1>4, <1>5 DEF UnderWay, ClosePopup, NoView

LEMMA OwnerTypedStep == OwnerInv /\ [OwnerNext]_ownerVars => OwnerTyped'
<1> SUFFICES ASSUME OwnerInv, [OwnerNext]_ownerVars PROVE OwnerTyped'
  OBVIOUS
<1> DEFINE Sends == [what : Verbs, item : Items, until : Nat, own : BOOLEAN]
           ViewTyped == /\ popup.kind \in {"closed", "loading", "ready", "error"}
                        /\ popup.items \subseteq Items /\ popup.deferred \subseteq Items
           LoadsTyped == loads \in [Loads -> LoadRecord]
           FlagsTyped == stamping \in BOOLEAN /\ expanded \in BOOLEAN /\ crossed \in BOOLEAN
           SendsTyped == sends \subseteq Sends
           StoreTyped == created \in [Items -> Int] /\ resolved \subseteq Items /\ deferrals \in [Items -> Nat]
           TimesTyped == /\ clock \in 0 .. MaxClock /\ entries \in [Entries -> Int]
                         /\ lastCheck \in {Never} \cup 0 .. MaxClock
                         /\ lastCheck <= clock /\ \A e \in Entries : entries[e] <= clock
<1>0. OwnerTyped
  BY DEF OwnerInv
<1>a. ViewTyped /\ LoadsTyped /\ FlagsTyped /\ SendsTyped /\ StoreTyped /\ TimesTyped
  BY <1>0, Zenon DEF OwnerTyped, OwnerTypeOK
<1>b. ASSUME ViewTyped', LoadsTyped', FlagsTyped', SendsTyped', StoreTyped', TimesTyped' PROVE OwnerTyped'
  <2>1. \A l \in Loads : loads'[l].step \in {"none", "reading", "read", "done"}
    BY <1>b DEF LoadRecord
  <2>2. QED
    BY <1>b, <2>1, Zenon DEF OwnerTyped, OwnerTypeOK
<1>c. ASSUME UNCHANGED <<clock, entries, lastCheck>> PROVE TimesTyped'
  BY <1>a, <1>c
<1>d. ASSUME UNCHANGED <<created, resolved, deferrals>> PROVE StoreTyped'
  BY <1>a, <1>d
<1>m. MaxClock \in Nat /\ DeferFor \in Nat
  BY OwnerAssumption
<1>1. CASE FindingStored
  <2>1. PICK i \in Items : created' = [created EXCEPT ![i] = clock]
    BY <1>1 DEF FindingStored
  <2>2. clock \in Int
    BY <1>a
  <2>3. StoreTyped'
    BY <1>1, <1>a, <2>1, <2>2 DEF FindingStored
  <2>4. QED
    BY <1>1, <1>a, <1>b, <1>c, <2>3 DEF FindingStored
<1>2. CASE EntryWritten
  <2>1. PICK e \in Entries : entries' = [entries EXCEPT ![e] = clock]
    BY <1>2 DEF EntryWritten
  <2>2. clock \in Int /\ clock <= clock
    BY <1>a
  <2>3. TimesTyped'
    BY <1>2, <1>a, <2>1, <2>2 DEF EntryWritten
  <2>4. QED
    BY <1>2, <1>a, <1>b, <1>d, <2>3 DEF EntryWritten
<1>3. CASE Ticks
  <2>1. clock + 1 \in 0 .. MaxClock
    BY <1>3, <1>a, <1>m DEF Ticks
  <2>2. lastCheck \in Int
    BY <1>a, <1>m DEF Never
  <2>3. lastCheck <= clock + 1 /\ \A e \in Entries : entries[e] <= clock + 1
    BY <1>a, <1>m, <2>2
  <2>4. TimesTyped'
    BY <1>3, <1>a, <2>1, <2>3 DEF Ticks
  <2>5. QED
    BY <1>3, <1>a, <1>b, <1>d, <2>4 DEF Ticks
<1>4. CASE OpenPopup
  <2>1. ViewTyped' /\ LoadsTyped'
    BY <1>0, <1>4, ReloadBecomes DEF OpenPopup
  <2>2. QED
    BY <1>4, <1>a, <1>b, <1>c, <1>d, <2>1 DEF OpenPopup
<1>5. CASE ShowAll
  <2>1. ViewTyped' /\ LoadsTyped'
    BY <1>0, <1>5, ReloadBecomes DEF ShowAll
  <2>2. FlagsTyped'
    BY <1>5, <1>a, Zenon DEF ShowAll
  <2>3. QED
    BY <1>5, <1>a, <1>b, <1>c, <1>d, <2>1, <2>2 DEF ShowAll
<1>6. CASE PressItem
  <2>1. PICK what \in Verbs, i \in OnShow(popup.items, popup.deferred, popup.all) :
        sends' = sends \cup {[what |-> what, item |-> i, own |-> TRUE,
                              until |-> IF what = "defer" THEN clock + DeferFor ELSE 0]}
    BY <1>6 DEF PressItem
  <2> DEFINE until == IF what = "defer" THEN clock + DeferFor ELSE 0
             send == [what |-> what, item |-> i, own |-> TRUE, until |-> until]
  <2>2. i \in Items
    BY <1>a DEF OnShow, TopOf
  <2>3. until \in Nat
    BY <1>a, <1>m
  <2>4. sends' = sends \cup {send}
    BY <2>1
  <2> HIDE DEF until
  <2>5. send \in Sends
    BY <2>2, <2>3
  <2> HIDE DEF send
  <2>6. SendsTyped'
    BY <1>a, <2>4, <2>5
  <2>7. QED
    BY <1>6, <1>a, <1>b, <1>c, <1>d, <2>6 DEF PressItem
<1>7. CASE ClosePopup
  <2>1. ViewTyped' /\ LoadsTyped'
    BY <1>0, <1>7, ClosingBecomes
  <2>2. \A x \in Sends : [x EXCEPT !.own = FALSE] \in Sends
    OBVIOUS
  <2>3. sends' = {[x EXCEPT !.own = FALSE] : x \in sends}
    BY <1>7 DEF ClosePopup
  <2> HIDE DEF Sends
  <2>4. SendsTyped'
    BY <1>a, <2>2, <2>3
  <2>5. stamping' \in BOOLEAN
    BY <1>7 DEF ClosePopup
  <2>6. FlagsTyped'
    BY <1>7, <1>a, <2>5 DEF ClosePopup
  <2>7. QED
    BY <1>7, <1>b, <1>c, <1>d, <2>1, <2>4, <2>6 DEF ClosePopup
<1>8. CASE LookStamped
  <2>1. lastCheck' \in {lastCheck, clock} /\ clock \in Int /\ UNCHANGED <<clock, entries>>
    BY <1>8, <1>a DEF LookStamped
  <2>2. TimesTyped'
    BY <1>a, <2>1
  <2>3. FlagsTyped'
    BY <1>8, <1>a DEF LookStamped
  <2>4. QED
    BY <1>8, <1>a, <1>b, <1>d, <2>2, <2>3 DEF LookStamped
<1>9. CASE SweepDeferrals
  <2>1. PICK i \in Items : deferrals' = [deferrals EXCEPT ![i] = 0]
    BY <1>9 DEF SweepDeferrals
  <2>2. StoreTyped'
    BY <1>9, <1>a, <2>1 DEF SweepDeferrals
  <2>3. QED
    BY <1>9, <1>a, <1>b, <1>c, <2>2 DEF SweepDeferrals
<1>10. ASSUME NEW l \in Loads, ReadStore(l) PROVE OwnerTyped'
  <2>1. LoadsTyped'
    BY <1>0, <1>10, LoadSteps DEF LoadBecomes
  <2>2. QED
    BY <1>10, <1>a, <1>b, <1>c, <1>d, <2>1 DEF ReadStore
<1>11. ASSUME NEW l \in Loads, PaintPopup(l) PROVE OwnerTyped'
  <2>1. LoadsTyped'
    BY <1>0, <1>11, LoadSteps DEF LoadBecomes
  <2>2. loads[l].items \subseteq Items
    BY <1>a DEF LoadRecord
  <2>3. ViewTyped'
    BY <1>11, <2>2 DEF PaintPopup, DeferredAt
  <2>4. QED
    BY <1>11, <1>a, <1>b, <1>c, <1>d, <2>1, <2>3 DEF PaintPopup
<1>12. ASSUME NEW l \in Loads, LoadFails(l) PROVE OwnerTyped'
  <2>1. LoadsTyped'
    BY <1>0, <1>12, LoadSteps DEF LoadBecomes
  <2>2. ViewTyped'
    BY <1>12 DEF LoadFails, NoView
  <2>3. QED
    BY <1>12, <1>a, <1>b, <1>c, <1>d, <2>1, <2>2 DEF LoadFails
<1>13. ASSUME NEW send \in sends, WorkerAnswers(send) PROVE OwnerTyped'
  <2>1. ViewTyped' /\ LoadsTyped'
    <3>1. CASE send.own
      BY <1>0, <1>13, <3>1, ReloadBecomes DEF WorkerAnswers
    <3>2. CASE ~ send.own
      BY <1>13, <1>a, <3>2 DEF WorkerAnswers
    <3>3. QED
      BY <3>1, <3>2
  <2>2. send.item \in Items /\ send.until \in Nat
    BY <1>13, <1>a
  <2>3. StoreTyped'
    BY <1>13, <1>a, <2>2 DEF WorkerAnswers, Written
  <2>4. SendsTyped'
    BY <1>13, <1>a DEF WorkerAnswers
  <2>5. crossed' \in BOOLEAN
    BY <1>13, <1>a, Zenon DEF WorkerAnswers
  <2>6. FlagsTyped'
    BY <1>13, <1>a, <2>5 DEF WorkerAnswers
  <2>7. QED
    BY <1>13, <1>b, <1>c, <2>1, <2>3, <2>4, <2>6 DEF WorkerAnswers
<1>14. ASSUME NEW send \in sends, SendFails(send) PROVE OwnerTyped'
  <2>1. SendsTyped' /\ FlagsTyped'
    BY <1>14, <1>a DEF SendFails
  <2>2. QED
    BY <1>14, <1>a, <1>b, <1>c, <1>d, <2>1 DEF SendFails
<1>15. CASE UNCHANGED ownerVars
  BY <1>15, <1>a, <1>b, <1>c, <1>d DEF ownerVars
<1>16. QED
  BY <1>1, <1>2, <1>3, <1>4, <1>5, <1>6, <1>7, <1>8, <1>9, <1>10, <1>11, <1>12, <1>13, <1>14, <1>15
     DEF OwnerNext

LEMMA OneViewStep == OwnerInv /\ [OwnerNext]_ownerVars => OneView'
<1> SUFFICES ASSUME OwnerInv, [OwnerNext]_ownerVars PROVE OneView'
  OBVIOUS
<1>0. OwnerTyped /\ OneView
  BY DEF OwnerInv
<1>a. ASSUME UNCHANGED <<popup, loads>>, crossed => crossed' PROVE OneView'
  BY <1>0, <1>a DEF OneView, UnderWay
<1>b. ASSUME Reloads, crossed' \/ UnderWay = {} PROVE OneView'
  BY <1>0, <1>b, ReloadBecomes DEF OneView
<1>c. ASSUME NEW l \in Loads, l \in UnderWay, UnderWay' = UnderWay \ {l}, crossed' = crossed,
             popup'.kind # "closed"
      PROVE  OneView'
  BY <1>0, <1>c DEF OneView
<1>1. CASE FindingStored \/ EntryWritten \/ Ticks \/ SweepDeferrals \/ PressItem \/ LookStamped
  BY <1>1, <1>a DEF FindingStored, EntryWritten, Ticks, SweepDeferrals, PressItem, LookStamped
<1>2. CASE OpenPopup
  BY <1>0, <1>2, <1>b DEF OpenPopup, OneView
<1>3. CASE ShowAll
  BY <1>3, <1>b DEF ShowAll
<1>4. CASE ClosePopup
  BY <1>0, <1>4, ClosingBecomes DEF OneView
<1>5. ASSUME NEW l \in Loads, ReadStore(l) PROVE OneView'
  <2>1. LoadBecomes(l, [step |-> "read", items |-> Waiting, held |-> deferrals, changed |-> Fresh(lastCheck)])
        /\ loads[l].step = "reading" /\ UNCHANGED <<popup, crossed>>
    BY <1>0, <1>5, LoadSteps DEF ReadStore
  <2>2. loads'[l].step = "read" /\ \A k \in Loads \ {l} : loads'[k] = loads[k]
    BY <2>1 DEF LoadBecomes
  <2>3. UnderWay' = UnderWay
    BY <2>1, <2>2 DEF UnderWay
  <2>4. QED
    BY <1>0, <2>1, <2>3 DEF OneView
<1>6. ASSUME NEW l \in Loads, PaintPopup(l) PROVE OneView'
  <2>1. [Unused EXCEPT !.step = "done"].step = "done"
    BY DEF Unused
  <2>2. UnderWay' = UnderWay \ {l} /\ l \in UnderWay
    BY <1>0, <1>6, <2>1, LoadSteps, DoneIsDone DEF PaintPopup, UnderWay
  <2>3. popup'.kind = "ready" /\ crossed' = crossed
    BY <1>6 DEF PaintPopup
  <2>4. QED
    BY <1>c, <2>2, <2>3
<1>7. ASSUME NEW l \in Loads, LoadFails(l) PROVE OneView'
  <2>1. [loads[l] EXCEPT !.step = "done"].step = "done"
    BY <1>0 DEF OwnerTyped, LoadRecord
  <2>2. UnderWay' = UnderWay \ {l} /\ l \in UnderWay
    BY <1>0, <1>7, <2>1, LoadSteps, DoneIsDone DEF LoadFails, UnderWay
  <2>3. popup'.kind = "error" /\ crossed' = crossed
    BY <1>7 DEF LoadFails, NoView
  <2>4. QED
    BY <1>c, <2>2, <2>3
<1>8. ASSUME NEW send \in sends, WorkerAnswers(send) PROVE OneView'
  <2>1. CASE send.own
    BY <1>8, <1>b, <2>1 DEF WorkerAnswers
  <2>2. CASE ~ send.own
    BY <1>8, <1>a, <2>2 DEF WorkerAnswers
  <2>3. QED
    BY <2>1, <2>2
<1>9. ASSUME NEW send \in sends, SendFails(send) PROVE OneView'
  BY <1>9, <1>a DEF SendFails
<1>10. CASE UNCHANGED ownerVars
  BY <1>10, <1>a DEF ownerVars
<1>11. QED
  BY <1>1, <1>2, <1>3, <1>4, <1>5, <1>6, <1>7, <1>8, <1>9, <1>10 DEF OwnerNext

LEMMA StillSoStep == OwnerInv /\ [OwnerNext]_ownerVars => StillSo'
<1> SUFFICES ASSUME OwnerInv, [OwnerNext]_ownerVars, ~ crossed' PROVE StillSo'
  BY DEF StillSo
<1> DEFINE LoadsSo == \A l \in Loads : loads[l].step = "read" =>
                          /\ loads[l].items \cap resolved = {}
                          /\ \A i \in Items : deferrals[i] = 0 \/ deferrals[i] = loads[l].held[i]
           ViewSo == popup.kind = "ready" =>
                          /\ popup.items \cap resolved = {}
                          /\ \A i \in Items : deferrals[i] > clock => i \in popup.deferred
<1>0. OwnerTyped /\ OneView /\ deferrals \in [Items -> Nat] /\ clock \in Nat
  <2>1. clock \in 0 .. MaxClock /\ MaxClock \in Nat
    BY OwnerAssumption DEF OwnerInv, OwnerTyped, OwnerTypeOK
  <2>2. clock \in Nat
    BY <2>1
  <2>3. QED
    BY <2>2 DEF OwnerInv, OwnerTyped, OwnerTypeOK
<1>a. ~ crossed => LoadsSo /\ ViewSo
  BY DEF OwnerInv, StillSo
<1>b. ASSUME LoadsSo', ViewSo' PROVE StillSo'
  BY <1>b DEF StillSo
<1>c. ASSUME UNCHANGED <<popup, loads, resolved, deferrals, clock, crossed>> PROVE StillSo'
  BY <1>a, <1>b, <1>c
<1>d. ASSUME Reloads, UnderWay = {} PROVE StillSo'
  <2>1. \A l \in Loads : loads'[l].step # "read"
    BY <1>0, <1>d, ReloadBecomes DEF UnderWay
  <2>2. popup'.kind = "loading"
    BY <1>0, <1>d, ReloadBecomes
  <2>3. QED
    BY <1>b, <2>1, <2>2
<1>1. CASE FindingStored \/ EntryWritten \/ PressItem \/ LookStamped
  BY <1>1, <1>c DEF FindingStored, EntryWritten, PressItem, LookStamped
<1>2. CASE Ticks
  <2>1. /\ clock' = clock + 1 /\ UNCHANGED <<popup, loads, resolved, deferrals, crossed>>
    BY <1>2 DEF Ticks
  <2>2. \A i \in Items : deferrals[i] > clock + 1 => deferrals[i] > clock
    BY <1>0
  <2>3. QED
    BY <1>a, <1>b, <2>1, <2>2
<1>3. CASE SweepDeferrals
  <2>1. PICK i \in Items : deferrals' = [deferrals EXCEPT ![i] = 0]
    BY <1>3 DEF SweepDeferrals
  <2>2. \A k \in Items : deferrals'[k] = deferrals[k] \/ deferrals'[k] = 0
    BY <1>0, <2>1
  <2>3. UNCHANGED <<popup, loads, resolved, clock, crossed>>
    BY <1>3 DEF SweepDeferrals
  <2>4. ~ (0 > clock)
    BY <1>0
  <2>5. QED
    BY <1>a, <1>b, <2>2, <2>3, <2>4
<1>4. CASE OpenPopup
  BY <1>0, <1>4, <1>d DEF OpenPopup, OneView
<1>5. CASE ShowAll
  BY <1>5, <1>d DEF ShowAll
<1>6. CASE ClosePopup
  BY <1>0, <1>6, <1>b, ClosingBecomes
<1>7. ASSUME NEW l \in Loads, ReadStore(l) PROVE StillSo'
  <2>1. LoadBecomes(l, [step |-> "read", items |-> Waiting, held |-> deferrals, changed |-> Fresh(lastCheck)])
        /\ UNCHANGED <<popup, crossed, resolved, deferrals, clock>>
    BY <1>0, <1>7, LoadSteps DEF ReadStore
  <2>2. loads'[l].items = Waiting /\ loads'[l].held = deferrals /\ \A k \in Loads \ {l} : loads'[k] = loads[k]
    BY <2>1 DEF LoadBecomes
  <2>3. Waiting \cap resolved = {}
    BY DEF Waiting
  <2>4. LoadsSo'
    BY <1>a, <2>1, <2>2, <2>3
  <2>5. QED
    BY <1>a, <1>b, <2>1, <2>4
<1>8. ASSUME NEW l \in Loads, PaintPopup(l) PROVE StillSo'
  <2>1. [Unused EXCEPT !.step = "done"].step = "done"
    BY DEF Unused
  <2>2. loads'[l].step = "done" /\ \A k \in Loads \ {l} : loads'[k] = loads[k]
    BY <1>0, <1>8, <2>1, LoadSteps, DoneIsDone DEF LoadBecomes
  <2>3. /\ loads[l].step = "read" /\ popup'.items = loads[l].items
        /\ popup'.deferred = {i \in Items : loads[l].held[i] > clock}
        /\ UNCHANGED <<resolved, deferrals, clock, crossed>>
    BY <1>8 DEF PaintPopup, DeferredAt
  <2>4. ~ (0 > clock)
    BY <1>0
  <2>5. ViewSo'
    BY <1>a, <2>3, <2>4
  <2>6. LoadsSo'
    BY <1>a, <2>2, <2>3
  <2>7. QED
    BY <1>b, <2>5, <2>6
<1>9. ASSUME NEW l \in Loads, LoadFails(l) PROVE StillSo'
  <2>1. [loads[l] EXCEPT !.step = "done"].step = "done"
    BY <1>0 DEF OwnerTyped, LoadRecord
  <2>2. loads'[l].step = "done" /\ \A k \in Loads \ {l} : loads'[k] = loads[k]
    BY <1>0, <1>9, <2>1, LoadSteps, DoneIsDone DEF LoadBecomes
  <2>3. popup'.kind = "error" /\ UNCHANGED <<resolved, deferrals, clock, crossed>>
    BY <1>9 DEF LoadFails, NoView
  <2>4. QED
    BY <1>a, <1>b, <2>2, <2>3
<1>10. ASSUME NEW send \in sends, WorkerAnswers(send) PROVE StillSo'
  <2>1. CASE send.own
    BY <1>10, <1>d, <2>1 DEF WorkerAnswers
  <2>2. CASE ~ send.own
    <3>1. popup.kind = "closed" /\ UNCHANGED <<popup, loads>>
      BY <1>10, <2>2 DEF WorkerAnswers
    <3>2. \A l \in Loads : loads[l].step # "read"
      BY <1>0, <3>1 DEF OneView, UnderWay
    <3>3. QED
      BY <1>b, <3>1, <3>2
  <2>3. QED
    BY <2>1, <2>2
<1>11. ASSUME NEW send \in sends, SendFails(send) PROVE StillSo'
  BY <1>11 DEF SendFails
<1>12. CASE UNCHANGED ownerVars
  BY <1>12, <1>c DEF ownerVars
<1>13. QED
  BY <1>1, <1>2, <1>3, <1>4, <1>5, <1>6, <1>7, <1>8, <1>9, <1>10, <1>11, <1>12 DEF OwnerNext

LEMMA AnnouncedStep == OwnerInv /\ [OwnerNext]_ownerVars => AnnouncedInTime'
<1> SUFFICES ASSUME OwnerInv, [OwnerNext]_ownerVars PROVE AnnouncedInTime'
  OBVIOUS
<1> DEFINE Noted(e) == entries[e] # Never => e \in Fresh(lastCheck) \cup Accounted
           LoadsKnow == \A l \in Loads : loads[l].step = "read" =>
                            Fresh(lastCheck) \subseteq loads[l].changed \cup Accounted
           Looked == popup.kind = "ready" \/ stamping => Fresh(lastCheck) \subseteq Accounted
<1>0. OwnerTyped /\ OneView
  BY DEF OwnerInv
<1>a. (\A e \in Entries : Noted(e)) /\ LoadsKnow /\ Looked
  BY DEF OwnerInv, AnnouncedInTime, EveryEntryAnnounced, Accounted
<1>b. ASSUME \A e \in Entries : Noted(e)', LoadsKnow', Looked' PROVE AnnouncedInTime'
  BY <1>b DEF AnnouncedInTime, EveryEntryAnnounced, Accounted
<1>c. ASSUME UNCHANGED <<popup, loads, entries, lastCheck, stamping, announced, excused>> PROVE AnnouncedInTime'
  BY <1>a, <1>b, <1>c DEF Fresh, Accounted
<1>d. ASSUME Reloads, UNCHANGED <<entries, lastCheck, stamping, announced, excused>> PROVE AnnouncedInTime'
  <2>1. Fresh(lastCheck)' = Fresh(lastCheck) /\ Accounted' = Accounted
    BY <1>d DEF Fresh, Accounted
  <2>2. /\ popup'.kind = "loading"
        /\ \A l \in Loads : loads'[l].step = "read" => loads[l].step = "read" /\ loads'[l] = loads[l]
    BY <1>0, <1>d, ReloadBecomes
  <2>3. QED
    BY <1>a, <1>b, <1>d, <2>1, <2>2
<1>1. CASE FindingStored \/ Ticks \/ SweepDeferrals \/ PressItem
  BY <1>1, <1>c DEF FindingStored, Ticks, SweepDeferrals, PressItem
<1>2. CASE EntryWritten
  <2>1. PICK e \in Entries :
          /\ entries' = [entries EXCEPT ![e] = clock]
          /\ excused' = IF popup.kind # "closed" \/ stamping \/ lastCheck = clock
                        THEN excused \cup {e} ELSE excused
    BY <1>2 DEF EntryWritten
  <2>2. UNCHANGED <<popup, loads, lastCheck, stamping, announced>>
    BY <1>2 DEF EntryWritten
  <2>3. clock \in Int /\ lastCheck \in Int /\ lastCheck <= clock /\ entries \in [Entries -> Int]
    <3>1. clock \in 0 .. MaxClock /\ lastCheck \in {Never} \cup 0 .. MaxClock /\ lastCheck <= clock
          /\ entries \in [Entries -> Int]
      BY <1>0 DEF OwnerTyped, OwnerTypeOK
    <3>2. QED
      BY <3>1, OwnerAssumption DEF Never
  <2>4. Fresh(lastCheck)' \subseteq Fresh(lastCheck) \cup {e} /\ Fresh(lastCheck) \subseteq Fresh(lastCheck)' \cup {e}
    BY <2>1, <2>2, <2>3 DEF Fresh
  <2>5. CASE popup.kind # "closed" \/ stamping \/ lastCheck = clock
    <3>1. Accounted' = Accounted \cup {e}
      BY <2>1, <2>2, <2>5 DEF Accounted
    <3>2. \A x \in Entries \ {e} : entries'[x] = entries[x]
      BY <2>1, <2>3
    <3>3. \A x \in Entries : Noted(x)'
      BY <1>a, <2>4, <3>1, <3>2
    <3>4. QED
      BY <1>a, <1>b, <2>2, <2>4, <3>1, <3>3
  <2>6. CASE ~ (popup.kind # "closed" \/ stamping \/ lastCheck = clock)
    <3>1. Accounted' = Accounted
      BY <2>1, <2>2, <2>6 DEF Accounted
    <3>2. \A l \in Loads : loads[l].step # "read"
      BY <1>0, <2>6 DEF OneView, UnderWay
    <3>3. clock # Never
      <4>1. clock \in 0 .. MaxClock /\ MaxClock \in Nat
        BY <1>0, OwnerAssumption DEF OwnerTyped, OwnerTypeOK
      <4>2. QED
        BY <4>1 DEF Never
    <3>4. e \in Fresh(lastCheck)'
      BY <2>1, <2>2, <2>3, <2>6, <3>3 DEF Fresh
    <3>5. \A x \in Entries \ {e} : entries'[x] = entries[x]
      BY <2>1, <2>3
    <3>6. \A x \in Entries : Noted(x)'
      BY <1>a, <2>4, <3>1, <3>4, <3>5
    <3>7. QED
      BY <1>b, <2>2, <2>6, <3>2, <3>6
  <2>7. QED
    BY <2>5, <2>6
<1>3. CASE OpenPopup
  BY <1>3, <1>d DEF OpenPopup
<1>4. CASE ShowAll
  BY <1>4, <1>d DEF ShowAll
<1>5. CASE ClosePopup
  <2>1. /\ UNCHANGED <<entries, lastCheck, announced>>
        /\ excused' = IF popup.kind = "ready" THEN excused ELSE excused \cup Fresh(lastCheck)
    BY <1>5 DEF ClosePopup
  <2>2. Fresh(lastCheck)' = Fresh(lastCheck) /\ Accounted \subseteq Accounted'
    BY <2>1 DEF Fresh, Accounted
  <2>3. Fresh(lastCheck) \subseteq Accounted'
    BY <1>a, <2>1, <2>2 DEF Accounted
  <2>4. \A l \in Loads : loads'[l].step # "read"
    BY <1>0, <1>5, ClosingBecomes
  <2>5. QED
    BY <1>a, <1>b, <2>1, <2>2, <2>3, <2>4
<1>6. CASE LookStamped
  <2>1. /\ stamping /\ ~ stamping' /\ lastCheck' \in {lastCheck, clock}
        /\ UNCHANGED <<popup, loads, entries, announced, excused>>
    BY <1>6 DEF LookStamped
  <2>2. clock \in Int /\ lastCheck \in Int /\ lastCheck <= clock
    <3>1. clock \in 0 .. MaxClock /\ lastCheck \in {Never} \cup 0 .. MaxClock /\ lastCheck <= clock
      BY <1>0 DEF OwnerTyped, OwnerTypeOK
    <3>2. QED
      BY <3>1, OwnerAssumption DEF Never
  <2>3. Fresh(lastCheck)' = Fresh(lastCheck') /\ Accounted' = Accounted
    BY <2>1 DEF Fresh, Accounted
  <2>4. Fresh(lastCheck') \subseteq Fresh(lastCheck)
    <3>1. lastCheck' \in Int /\ lastCheck <= lastCheck'
      BY <2>1, <2>2
    <3>2. QED
      BY <1>0, <3>1, LaterLookLeavesLess
  <2>5. \A e \in Entries : Noted(e)'
    BY <1>a, <2>1, <2>3
  <2>6. LoadsKnow' /\ Looked'
    BY <1>a, <2>1, <2>3, <2>4
  <2>7. QED
    BY <1>b, <2>5, <2>6
<1>7. ASSUME NEW l \in Loads, ReadStore(l) PROVE AnnouncedInTime'
  <2>1. LoadBecomes(l, [step |-> "read", items |-> Waiting, held |-> deferrals, changed |-> Fresh(lastCheck)])
        /\ UNCHANGED <<popup, entries, lastCheck, stamping, announced, excused>>
    BY <1>0, <1>7, LoadSteps DEF ReadStore
  <2>2. loads'[l].changed = Fresh(lastCheck) /\ \A k \in Loads \ {l} : loads'[k] = loads[k]
    BY <2>1 DEF LoadBecomes
  <2>3. Fresh(lastCheck)' = Fresh(lastCheck) /\ Accounted' = Accounted
    BY <2>1 DEF Fresh, Accounted
  <2>4. LoadsKnow'
    BY <1>a, <2>1, <2>2, <2>3
  <2>5. QED
    BY <1>a, <1>b, <2>1, <2>3, <2>4
<1>8. ASSUME NEW l \in Loads, PaintPopup(l) PROVE AnnouncedInTime'
  <2>1. [Unused EXCEPT !.step = "done"].step = "done"
    BY DEF Unused
  <2>2. loads'[l].step = "done" /\ \A k \in Loads \ {l} : loads'[k] = loads[k]
    BY <1>0, <1>8, <2>1, LoadSteps, DoneIsDone DEF LoadBecomes
  <2>3. /\ loads[l].step = "read" /\ announced' = announced \cup loads[l].changed
        /\ UNCHANGED <<entries, lastCheck, stamping, excused>>
    BY <1>8 DEF PaintPopup
  <2>4. Fresh(lastCheck)' = Fresh(lastCheck) /\ Accounted' = Accounted \cup loads[l].changed
    BY <2>3 DEF Fresh, Accounted
  <2>5. Fresh(lastCheck) \subseteq Accounted'
    BY <1>a, <2>3, <2>4
  <2>6. LoadsKnow'
    BY <2>4, <2>5
  <2>7. QED
    BY <1>a, <1>b, <2>3, <2>4, <2>5, <2>6
<1>9. ASSUME NEW l \in Loads, LoadFails(l) PROVE AnnouncedInTime'
  <2>1. [loads[l] EXCEPT !.step = "done"].step = "done"
    BY <1>0 DEF OwnerTyped, LoadRecord
  <2>2. loads'[l].step = "done" /\ \A k \in Loads \ {l} : loads'[k] = loads[k]
    BY <1>0, <1>9, <2>1, LoadSteps, DoneIsDone DEF LoadBecomes
  <2>3. popup'.kind = "error" /\ UNCHANGED <<entries, lastCheck, stamping, announced, excused>>
    BY <1>9 DEF LoadFails, NoView
  <2>4. Fresh(lastCheck)' = Fresh(lastCheck) /\ Accounted' = Accounted
    BY <2>3 DEF Fresh, Accounted
  <2>5. QED
    BY <1>a, <1>b, <2>2, <2>3, <2>4
<1>10. ASSUME NEW send \in sends, WorkerAnswers(send) PROVE AnnouncedInTime'
  <2>1. CASE send.own
    BY <1>10, <1>d, <2>1 DEF WorkerAnswers
  <2>2. CASE ~ send.own
    BY <1>10, <1>c, <2>2 DEF WorkerAnswers
  <2>3. QED
    BY <2>1, <2>2
<1>11. ASSUME NEW send \in sends, SendFails(send) PROVE AnnouncedInTime'
  BY <1>11, <1>c DEF SendFails
<1>12. CASE UNCHANGED ownerVars
  BY <1>12, <1>c DEF ownerVars
<1>13. QED
  BY <1>1, <1>2, <1>3, <1>4, <1>5, <1>6, <1>7, <1>8, <1>9, <1>10, <1>11, <1>12 DEF OwnerNext

(* What the popup keeps through loads that overlap, messages that fail,    *)
(* openings and closings (popup/index.ts, popup/state.ts).                 *)
THEOREM OwnerInvAlways == OwnerSpec => []OwnerInv
<1>1. OwnerInv /\ [OwnerNext]_ownerVars => OwnerInv'
  BY OwnerTypedStep, OneViewStep, StillSoStep, AnnouncedStep DEF OwnerInv
<1>2. QED
  BY <1>1, OwnerInvInit, PTL DEF OwnerSpec

(* Once what was pressed is done, the popup shows what was put off last    *)
(* (buildQueue of core-queue/rank.ts), nothing that was dealt with, and no *)
(* entry of the journal goes by unannounced (core-queue/diff.ts): for any  *)
(* findings, severities, entries and loads.                                *)
THEOREM QueueStaysCurrent == OwnerSpec => []QueueIsCurrent
<1>1. OwnerInv => QueueIsCurrent
  <2> SUFFICES ASSUME OwnerInv PROVE QueueIsCurrent
    OBVIOUS
  <2>1. DealtWithIsGone
    BY DEF OwnerInv, StillSo, DealtWithIsGone, OwnerSettled
  <2>2. PutOffComesLast
    <3> DEFINE shown == OnShow(popup.items, popup.deferred, popup.all)
    <3> SUFFICES ASSUME OwnerSettled, NEW i \in shown, deferrals[i] > clock, NEW j \in popup.items \ shown
                 PROVE  j \in popup.deferred
      BY DEF PutOffComesLast
    <3>1. shown = TopOf(popup.items, popup.deferred)
      BY DEF OnShow
    <3>2. popup.items \in SUBSET Items
      BY DEF OwnerInv, OwnerTyped, OwnerTypeOK
    <3> HIDE DEF shown
    <3>3. i \in TopOf(popup.items, popup.deferred) /\ j \in popup.items \ TopOf(popup.items, popup.deferred)
      BY <3>1
    <3>4. i \in Items
      BY <3>2, <3>3 DEF TopOf
    <3>5. i \in popup.deferred
      BY <3>4 DEF OwnerInv, StillSo, OwnerSettled
    <3>6. QED
      BY <3>2, <3>3, <3>5, PutOffRanksLast
  <2>3. EveryEntryAnnounced /\ OwnerTypeOK
    BY DEF OwnerInv, AnnouncedInTime, OwnerTyped
  <2>4. QED
    BY <2>1, <2>2, <2>3 DEF QueueIsCurrent
<1>2. QED
  BY <1>1, OwnerInvAlways, PTL

-----------------------------------------------------------------------------
(***************************************************************************)
(* SiteGuard, for any hosts, brands and visits: trust silences what it was *)
(* given for, no country domain is an imitation, only a young site is      *)
(* called new, and a first day stands.                                     *)
(***************************************************************************)
LEMMA PairFacts ==
    ASSUME NEW h \in VisitedHosts, NEW t \in VisitedHosts \cup Watched
    PROVE  /\ <<h, t>> \in GenuinePairs <=> Genuine(LabelsOf[h], NameLabels[t])
           /\ <<h, t>> \in WearingPairs <=> WearsBrand(LabelsOf[h], NameLabels[t])
           /\ <<h, t>> \in PassingPairs <=> Passes(LabelsOf[h], NameLabels[t])
           /\ <<h, t>> \in ResemblingPairs <=>
                 \/ TldSwap(LabelsOf[h], NameLabels[t]) \/ UnderLoginWord(LabelsOf[h], NameLabels[t])
                 \/ Homograph(LabelsOf[h], NameLabels[t]) \/ Typo(LabelsOf[h], NameLabels[t])
<1>1. <<h, t>> \in Pairs /\ <<h, t>>[1] = h /\ <<h, t>>[2] = t
  BY DEF Pairs
<1>2. QED
  BY <1>1 DEF GenuinePairs, WearingPairs, PassingPairs, ResemblingPairs, PairsWhere

(* checkLookalike, by what it comes to.                                    *)
JudgedAs(h, names, pairs) == \E t \in names : <<h, t>> \in pairs
LEMMA VerdictFacts ==
    ASSUME NEW h, NEW names
    PROVE  /\ Verdict(h, names) \in {"none", "brand-subdomain", "resembles"}
           /\ Verdict(h, names) = "none" <=>
                 \/ JudgedAs(h, names, GenuinePairs)
                 \/ ~ JudgedAs(h, names, WearingPairs) /\ ~ JudgedAs(h, names, ResemblingPairs)
<1> DEFINE a == JudgedAs(h, names, GenuinePairs)
           b == JudgedAs(h, names, WearingPairs)
           c == JudgedAs(h, names, ResemblingPairs)
<1>1. Verdict(h, names) =
        CASE a -> "none" [] ~ a /\ b -> "brand-subdomain" [] ~ a /\ ~ b -> IF c THEN "resembles" ELSE "none"
  BY Zenon DEF Verdict, JudgedAs
<1> HIDE DEF a, b, c
<1>2. CASE a
  BY <1>1, <1>2 DEF a
<1>3. CASE ~ a /\ b
  BY <1>1, <1>3 DEF a, b
<1>4. CASE ~ a /\ ~ b
  BY <1>1, <1>4 DEF a, b, c
<1>5. QED
  BY <1>2, <1>3, <1>4

(* A domain exception lifts the verdict of its own site and of what        *)
(* renders as beneath it, and of no other.                                 *)
LEMMA ExceptionsAreNarrow ==
    ASSUME NEW h \in VisitedHosts, NEW names \in SUBSET VisitedHosts, Verdict(h, Watched) # "none"
    PROVE  Warning(h, names) = "none" <=> \E t \in names : h = t \/ Under(LabelsOf[h], NameLabels[t])
<1>1. ~ JudgedAs(h, Watched, GenuinePairs) /\ (JudgedAs(h, Watched, WearingPairs) \/ JudgedAs(h, Watched, ResemblingPairs))
  BY VerdictFacts
<1>2. JudgedAs(h, Watched \cup names, WearingPairs) \/ JudgedAs(h, Watched \cup names, ResemblingPairs)
  BY <1>1 DEF JudgedAs
<1>3. Verdict(h, Watched \cup names) = "none" <=> JudgedAs(h, Watched \cup names, GenuinePairs)
  BY <1>2, VerdictFacts
<1>4. JudgedAs(h, Watched \cup names, GenuinePairs) <=> \E t \in names : <<h, t>> \in GenuinePairs
  BY <1>1 DEF JudgedAs
<1>5. \A t \in names : <<h, t>> \in GenuinePairs <=>
                        LabelsOf[h] = NameLabels[t] \/ Under(LabelsOf[h], NameLabels[t])
  BY PairFacts DEF Genuine
<1>6. \A t \in names : LabelsOf[h] = NameLabels[t] => h = t
  BY SiteAssumption
<1>7. CASE h \in names
  BY <1>7 DEF Warning
<1>8. CASE h \notin names
  BY <1>3, <1>4, <1>5, <1>6, <1>8 DEF Warning
<1>9. QED
  BY <1>7, <1>8

LEMMA CountryPasses ==
    ASSUME NEW h \in VisitedHosts, NEW names \in SUBSET (VisitedHosts \cup Watched),
           LabelsAbove(LabelsOf[h]) = <<>>, \A t \in names : <<h, t>> \in PassingPairs
    PROVE  Verdict(h, names) = "none"
<1>1. ASSUME NEW t \in names
      PROVE  <<h, t>> \notin WearingPairs /\ <<h, t>> \notin ResemblingPairs
  <2>1. Passes(LabelsOf[h], NameLabels[t])
    BY PairFacts
  <2>2. Len(NameLabels[t]) \in Nat /\ Len(NameLabels[t]) > 0
    <3>1. NameLabels[t] \in Seq(DOMAIN Look) /\ NameLabels[t] # <<>>
      BY SiteAssumption
    <3>2. QED
      BY <3>1
  <2>3. ~ WearsBrand(LabelsOf[h], NameLabels[t])
    BY <2>2 DEF WearsBrand
  <2>a. ASSUME NEW a, NEW b, {a, b} \in NearLabels PROVE a # b
    BY <2>a, SiteAssumption
  <2>4. /\ ~ TldSwap(LabelsOf[h], NameLabels[t]) /\ ~ UnderLoginWord(LabelsOf[h], NameLabels[t])
        /\ ~ Homograph(LabelsOf[h], NameLabels[t]) /\ ~ Typo(LabelsOf[h], NameLabels[t])
    BY <2>1, <2>a DEF Passes, TldSwap, UnderLoginWord, Homograph, Typo
  <2>5. QED
    BY <2>3, <2>4, PairFacts
<1>2. QED
  BY <1>1, VerdictFacts DEF JudgedAs

JudgedOn == Forms \cup {"imitates", "young", "how-long-unknown", "when-registered-unknown"}
VisitRecord ==
    [host : VisitedHosts \cup {Nowhere}, look : {"none", "brand-subdomain", "resembles"},
     step : {"away", "open", "facts", "put", "answered", "done", "gone"}, trust : BOOLEAN,
     since : Unseen .. MaxSiteDay, at : 0 .. MaxSiteDay, guard : SUBSET JudgedOn]

(* A document that is not open has nothing to show.                        *)
NotVisiting(v) == visits[v].step \in {"away", "gone"}

SiteTyped ==
    /\ day \in 0 .. MaxSiteDay /\ trusted \subseteq VisitedHosts /\ doubled \subseteq VisitedHosts
    /\ firstSeen \in [VisitedHosts -> Unseen .. MaxSiteDay] /\ met \in [VisitedHosts -> Unseen .. MaxSiteDay]
    /\ \A h \in VisitedHosts : firstSeen[h] <= day /\ met[h] <= day
    /\ visits \in [Visits -> VisitRecord]
    /\ \A v \in Visits :
        /\ IF NotVisiting(v) THEN visits[v].look = "none" /\ visits[v].guard = {}
                        ELSE visits[v].host \in VisitedHosts
        /\ visits[v].step \in {"away", "open", "facts", "put"} => visits[v].since = Unseen
        /\ visits[v].since <= day /\ visits[v].at <= day

(* A host asked about by one document at a time has the one first day: who *)
(* is about to write it found no row, and who has read it knows it, unless *)
(* it was swept since and begun again.                                     *)
DayIsOne(h) ==
    \/ h \in doubled
    \/ /\ firstSeen[h] = met[h]
       /\ \A u, v \in Asking(h) : u = v
       /\ \A v \in Visits : visits[v].host = h =>
            /\ visits[v].step = "put" => firstSeen[h] = Unseen
            /\ visits[v].step = "answered" /\ visits[v].since # Unseen
                   => met[h] = Unseen \/ met[h] >= visits[v].since
            /\ visits[v].step = "done" /\ "young" \in visits[v].guard
                   => met[h] = Unseen \/ visits[v].at - met[h] < Established

SiteInv == SiteTyped /\ \A h \in VisitedHosts : DayIsOne(h)

(* What one step makes of a document; the others stay as they are.         *)
VisitBecomes(v, host, look, step, since, at, guard) ==
    /\ visits' \in [Visits -> VisitRecord]
    /\ visits'[v].host = host /\ visits'[v].look = look /\ visits'[v].step = step
    /\ visits'[v].since = since /\ visits'[v].at = at /\ visits'[v].guard = guard
    /\ \A u \in Visits \ {v} : visits'[u] = visits[u]

LEMMA SetBecomes ==
    ASSUME SiteTyped, NEW v \in Visits, NEW f \in VisitRecord, Set(v, f)
    PROVE  VisitBecomes(v, f.host, f.look, f.step, f.since, f.at, f.guard)
<1>1. visits \in [Visits -> VisitRecord] /\ visits' = [visits EXCEPT ![v] = f]
  BY DEF SiteTyped, Set
<1>2. visits' \in [Visits -> VisitRecord] /\ visits'[v] = f /\ \A u \in Visits \ {v} : visits'[u] = visits[u]
  BY <1>1
<1>3. QED
  BY <1>2 DEF VisitBecomes

LEMMA VisitRecords ==
    /\ Away \in VisitRecord
    /\ \A x \in VisitRecord :
         /\ [x EXCEPT !.look = "none", !.guard = {}] \in VisitRecord
         /\ \A step \in {"facts", "answered", "gone"} : [x EXCEPT !.step = step] \in VisitRecord
         /\ [x EXCEPT !.step = "answered", !.trust = FALSE, !.since = Unseen] \in VisitRecord
         /\ \A b \in BOOLEAN, d \in Unseen .. MaxSiteDay, step \in {"put", "answered"} :
              [x EXCEPT !.trust = b, !.since = d, !.step = step] \in VisitRecord
         /\ \A d \in 0 .. MaxSiteDay, guard \in SUBSET JudgedOn :
              [x EXCEPT !.step = "done", !.at = d, !.trust = FALSE, !.since = Unseen, !.guard = guard]
                  \in VisitRecord
         /\ \A host \in VisitedHosts, look \in {"none", "brand-subdomain", "resembles"} :
              [x EXCEPT !.host = host, !.step = "open", !.look = look] \in VisitRecord
<1>1. Unseen \in Unseen .. MaxSiteDay /\ 0 \in 0 .. MaxSiteDay
  BY SiteAssumption DEF Unseen
<1>2. Away \in VisitRecord
  BY <1>1 DEF VisitRecord, Away
<1>3. ASSUME NEW x \in VisitRecord
      PROVE  /\ [x EXCEPT !.look = "none", !.guard = {}] \in VisitRecord
             /\ \A step \in {"facts", "answered", "gone"} : [x EXCEPT !.step = step] \in VisitRecord
  BY <1>3 DEF VisitRecord
<1>4. ASSUME NEW x \in VisitRecord
      PROVE  [x EXCEPT !.step = "answered", !.trust = FALSE, !.since = Unseen] \in VisitRecord
  BY <1>1, <1>4 DEF VisitRecord
<1>5. ASSUME NEW x \in VisitRecord, NEW b \in BOOLEAN, NEW d \in Unseen .. MaxSiteDay,
             NEW step \in {"put", "answered"}
      PROVE  [x EXCEPT !.trust = b, !.since = d, !.step = step] \in VisitRecord
  BY <1>5 DEF VisitRecord
<1>6. ASSUME NEW x \in VisitRecord, NEW d \in 0 .. MaxSiteDay, NEW guard \in SUBSET JudgedOn
      PROVE  [x EXCEPT !.step = "done", !.at = d, !.trust = FALSE, !.since = Unseen, !.guard = guard]
                 \in VisitRecord
  BY <1>1, <1>6 DEF VisitRecord
<1>7. ASSUME NEW x \in VisitRecord, NEW host \in VisitedHosts,
             NEW look \in {"none", "brand-subdomain", "resembles"}
      PROVE  [x EXCEPT !.host = host, !.step = "open", !.look = look] \in VisitRecord
  BY <1>7 DEF VisitRecord
<1>8. QED
  BY <1>2, <1>3, <1>4, <1>5, <1>6, <1>7

(* guardCredentialEntry: "young" is only said of a date that was read.     *)
LEMMA GuardFacts ==
    ASSUME NEW trust, NEW since, NEW look, NEW form \in SUBSET Forms
    PROVE  /\ GuardOf(trust, since, look, form) \subseteq JudgedOn
           /\ "young" \in GuardOf(trust, since, look, form) => since # Unseen /\ day - since < Established
<1> DEFINE facts == form \cup (IF look # "none" THEN {"imitates"} ELSE {})
                    \cup (IF since # Unseen /\ Young(day - since) THEN {"young"} ELSE {})
<1>1. GuardOf(trust, since, look, form) \subseteq
        facts \cup (IF since = Unseen THEN {"how-long-unknown"} ELSE {"when-registered-unknown"})
  BY DEF GuardOf
<1>2. form \subseteq {"not-encrypted", "posts-elsewhere"}
  BY SiteAssumption
<1>3. facts \subseteq JudgedOn /\ ("young" \in facts => since # Unseen /\ day - since < Established)
  BY <1>2 DEF JudgedOn, Young
<1> HIDE DEF facts
<1>4. QED
  BY <1>1, <1>3 DEF JudgedOn

LEMMA VisitSteps ==
    ASSUME SiteTyped, NEW v \in Visits
    PROVE  /\ Visit(v) => \E h \in VisitedHosts, look \in {"none", "brand-subdomain", "resembles"} :
                            VisitBecomes(v, h, look, "open", Unseen, 0, {})
           /\ FocusField(v) => VisitBecomes(v, visits[v].host, visits[v].look, "facts", visits[v].since,
                                            visits[v].at, visits[v].guard)
           /\ SiteFacts(v) =>
                \E step \in {"put", "answered"}, since \in {Unseen, firstSeen[visits[v].host]} :
                    /\ VisitBecomes(v, visits[v].host, visits[v].look, step, since, visits[v].at, visits[v].guard)
                    /\ step = "put" => since = Unseen /\ Unmet(visits[v].host)
           /\ NoteSeen(v) => VisitBecomes(v, visits[v].host, visits[v].look, "answered", Unseen,
                                          visits[v].at, visits[v].guard)
           /\ Warn(v) => \E guard \in SUBSET JudgedOn :
                /\ VisitBecomes(v, visits[v].host, visits[v].look, "done", Unseen, day, guard)
                /\ "young" \in guard => visits[v].since # Unseen /\ day - visits[v].since < Established
           /\ TrustSite(v) => VisitBecomes(v, visits[v].host, "none", visits[v].step, visits[v].since,
                                           visits[v].at, {})
           /\ Leave(v) => VisitBecomes(v, Nowhere, "none", "gone", Unseen, 0, {})
<1>0. visits[v] \in VisitRecord /\ day \in 0 .. MaxSiteDay /\ firstSeen \in [VisitedHosts -> Unseen .. MaxSiteDay]
  BY DEF SiteTyped
<1>1. ASSUME Visit(v)
      PROVE  \E h \in VisitedHosts, look \in {"none", "brand-subdomain", "resembles"} :
                 VisitBecomes(v, h, look, "open", Unseen, 0, {})
  <2>1. PICK h \in VisitedHosts, known \in {trusted, {}}, look \in {"none", "judged"} :
          Set(v, [Away EXCEPT !.host = h, !.step = "open",
                     !.look = IF look = "none" THEN "none" ELSE Warning(h, known)])
    BY <1>1 DEF Visit
  <2> DEFINE judged == IF look = "none" THEN "none" ELSE Warning(h, known)
             new == [Away EXCEPT !.host = h, !.step = "open", !.look = judged]
  <2>2. judged \in {"none", "brand-subdomain", "resembles"} /\ Set(v, new)
    BY <2>1, VerdictFacts DEF Warning
  <2> HIDE DEF judged
  <2>3. new \in VisitRecord
    BY <2>2, VisitRecords
  <2>4. new.host = h /\ new.look = judged /\ new.step = "open" /\ new.since = Unseen /\ new.at = 0 /\ new.guard = {}
    BY DEF Away
  <2> HIDE DEF new
  <2>5. VisitBecomes(v, h, judged, "open", Unseen, 0, {})
    <3>1. VisitBecomes(v, new.host, new.look, new.step, new.since, new.at, new.guard)
      BY <2>2, <2>3, SetBecomes
    <3>2. QED
      BY <2>4, <3>1
  <2>6. QED
    BY <2>2, <2>5
<1>2. ASSUME FocusField(v)
      PROVE  VisitBecomes(v, visits[v].host, visits[v].look, "facts", visits[v].since, visits[v].at, visits[v].guard)
  <2> DEFINE new == [visits[v] EXCEPT !.step = "facts"]
  <2>1. new \in VisitRecord /\ Set(v, new)
    BY <1>0, <1>2, VisitRecords DEF FocusField
  <2>2. /\ new.host = visits[v].host /\ new.look = visits[v].look /\ new.step = "facts"
        /\ new.since = visits[v].since /\ new.at = visits[v].at /\ new.guard = visits[v].guard
    BY <1>0 DEF VisitRecord
  <2> HIDE DEF new
  <2>3. VisitBecomes(v, new.host, new.look, new.step, new.since, new.at, new.guard)
    BY <2>1, SetBecomes
  <2>4. QED
    BY <2>2, <2>3
<1>a. ASSUME visits[v].step \in {"facts", "put"}
      PROVE  visits[v].host \in VisitedHosts /\ visits[v].since = Unseen
  BY <1>a DEF SiteTyped, NotVisiting
<1>3. ASSUME SiteFacts(v)
      PROVE  \E step \in {"put", "answered"}, since \in {Unseen, firstSeen[visits[v].host]} :
                    /\ VisitBecomes(v, visits[v].host, visits[v].look, step, since, visits[v].at, visits[v].guard)
                    /\ step = "put" => since = Unseen /\ Unmet(visits[v].host)
  <2> DEFINE h == visits[v].host
             told == firstSeen[h]
             next == IF Unmet(h) THEN "put" ELSE "answered"
             b == h \in trusted
             new == [visits[v] EXCEPT !.trust = b, !.since = told, !.step = next]
             lost == [visits[v] EXCEPT !.step = "answered"]
  <2>0. h \in VisitedHosts /\ visits[v].since = Unseen
    BY <1>3, <1>a DEF SiteFacts
  <2>1. Set(v, new) \/ Set(v, lost)
    BY <1>3 DEF SiteFacts
  <2>2. b \in BOOLEAN /\ told \in Unseen .. MaxSiteDay /\ next \in {"put", "answered"}
        /\ (next = "put" => told = Unseen /\ Unmet(h))
    BY <1>0, <2>0 DEF Unmet
  <2> HIDE DEF told, next, b
  <2>3. new \in VisitRecord /\ lost \in VisitRecord
    BY <1>0, <2>2, VisitRecords
  <2>4. /\ new.host = h /\ new.look = visits[v].look /\ new.step = next
        /\ new.since = told /\ new.at = visits[v].at /\ new.guard = visits[v].guard
        /\ lost.host = h /\ lost.look = visits[v].look /\ lost.step = "answered"
        /\ lost.since = Unseen /\ lost.at = visits[v].at /\ lost.guard = visits[v].guard
    BY <1>0, <2>0 DEF VisitRecord
  <2> HIDE DEF new, lost
  <2>5. \/ VisitBecomes(v, new.host, new.look, new.step, new.since, new.at, new.guard)
        \/ VisitBecomes(v, lost.host, lost.look, lost.step, lost.since, lost.at, lost.guard)
    BY <2>1, <2>3, SetBecomes
  <2>6. \/ VisitBecomes(v, h, visits[v].look, next, told, visits[v].at, visits[v].guard)
        \/ VisitBecomes(v, h, visits[v].look, "answered", Unseen, visits[v].at, visits[v].guard)
    BY <2>4, <2>5
  <2>7. told = firstSeen[h]
    BY DEF told
  <2>8. QED
    BY <2>2, <2>6, <2>7
<1>4. ASSUME NoteSeen(v)
      PROVE  VisitBecomes(v, visits[v].host, visits[v].look, "answered", Unseen, visits[v].at, visits[v].guard)
  <2> DEFINE new == [visits[v] EXCEPT !.step = "answered"]
             lost == [visits[v] EXCEPT !.step = "answered", !.trust = FALSE, !.since = Unseen]
  <2>0. visits[v].since = Unseen
    BY <1>4, <1>a DEF NoteSeen
  <2>1. Set(v, new) \/ Set(v, lost)
    BY <1>4 DEF NoteSeen
  <2>2. new \in VisitRecord /\ lost \in VisitRecord
    BY <1>0, VisitRecords
  <2>3. /\ new.host = visits[v].host /\ new.look = visits[v].look /\ new.step = "answered"
        /\ new.since = Unseen /\ new.at = visits[v].at /\ new.guard = visits[v].guard
        /\ lost.host = visits[v].host /\ lost.look = visits[v].look /\ lost.step = "answered"
        /\ lost.since = Unseen /\ lost.at = visits[v].at /\ lost.guard = visits[v].guard
    BY <1>0, <2>0 DEF VisitRecord
  <2> HIDE DEF new, lost
  <2>4. \/ VisitBecomes(v, new.host, new.look, new.step, new.since, new.at, new.guard)
        \/ VisitBecomes(v, lost.host, lost.look, lost.step, lost.since, lost.at, lost.guard)
    BY <2>1, <2>2, SetBecomes
  <2>5. QED
    BY <2>3, <2>4
<1>5. ASSUME Warn(v)
      PROVE  \E guard \in SUBSET JudgedOn :
                /\ VisitBecomes(v, visits[v].host, visits[v].look, "done", Unseen, day, guard)
                /\ "young" \in guard => visits[v].since # Unseen /\ day - visits[v].since < Established
  <2> DEFINE Done(g) == [visits[v] EXCEPT !.step = "done", !.at = day, !.trust = FALSE, !.since = Unseen, !.guard = g]
  <2>1. \E guard \in SUBSET JudgedOn :
            /\ Set(v, Done(guard))
            /\ "young" \in guard => visits[v].since # Unseen /\ day - visits[v].since < Established
    <3>1. CASE Set(v, Done({}))
      <4>1. {} \in SUBSET JudgedOn /\ "young" \notin {}
        OBVIOUS
      <4>2. QED
        BY <3>1, <4>1, Zenon
    <3>2. CASE \E known \in {trusted, {}}, form \in SUBSET Forms :
                Set(v, Done(GuardOf(visits[v].trust, visits[v].since,
                                    Verdict(visits[v].host, Watched \cup known), form)))
      BY <3>2, GuardFacts
    <3>3. QED
      BY <1>5, <3>1, <3>2 DEF Warn
  <2>2. PICK guard \in SUBSET JudgedOn :
            /\ Set(v, Done(guard))
            /\ "young" \in guard => visits[v].since # Unseen /\ day - visits[v].since < Established
    BY <2>1
  <2> DEFINE new == Done(guard)
  <2>3. new \in VisitRecord
    BY <1>0, VisitRecords
  <2>4. /\ new.host = visits[v].host /\ new.look = visits[v].look /\ new.step = "done"
        /\ new.since = Unseen /\ new.at = day /\ new.guard = guard
    BY <1>0 DEF VisitRecord
  <2>5. Set(v, new)
    BY <2>2
  <2> HIDE DEF new
  <2>6. VisitBecomes(v, new.host, new.look, new.step, new.since, new.at, new.guard)
    BY <2>3, <2>5, SetBecomes
  <2>7. QED
    BY <2>2, <2>4, <2>6
<1>6. ASSUME TrustSite(v)
      PROVE  VisitBecomes(v, visits[v].host, "none", visits[v].step, visits[v].since, visits[v].at, {})
  <2> DEFINE new == [visits[v] EXCEPT !.look = "none", !.guard = {}]
  <2>1. new \in VisitRecord /\ Set(v, new)
    BY <1>0, <1>6, VisitRecords DEF TrustSite
  <2>2. /\ new.host = visits[v].host /\ new.look = "none" /\ new.step = visits[v].step
        /\ new.since = visits[v].since /\ new.at = visits[v].at /\ new.guard = {}
    BY <1>0 DEF VisitRecord
  <2> HIDE DEF new
  <2>3. VisitBecomes(v, new.host, new.look, new.step, new.since, new.at, new.guard)
    BY <2>1, SetBecomes
  <2>4. QED
    BY <2>2, <2>3
<1>7. ASSUME Leave(v) PROVE VisitBecomes(v, Nowhere, "none", "gone", Unseen, 0, {})
  <2> DEFINE new == [Away EXCEPT !.step = "gone"]
  <2>1. new \in VisitRecord /\ Set(v, new)
    BY <1>7, VisitRecords DEF Leave
  <2>2. new.host = Nowhere /\ new.look = "none" /\ new.step = "gone" /\ new.since = Unseen /\ new.at = 0 /\ new.guard = {}
    BY DEF Away
  <2> HIDE DEF new
  <2>3. VisitBecomes(v, new.host, new.look, new.step, new.since, new.at, new.guard)
    BY <2>1, SetBecomes
  <2>4. QED
    BY <2>2, <2>3
<1>8. QED
  BY <1>1, <1>2, <1>3, <1>4, <1>5, <1>6, <1>7

LEMMA SiteInvInit == SiteInit => SiteInv
<1> SUFFICES ASSUME SiteInit PROVE SiteInv
  OBVIOUS
<1>1. Away \in VisitRecord /\ Away.step = "away" /\ Away.look = "none" /\ Away.guard = {}
      /\ Away.since = Unseen /\ Away.at = 0
  BY VisitRecords DEF Away
<1>2. visits \in [Visits -> VisitRecord] /\ \A v \in Visits : visits[v] = Away
  BY <1>1 DEF SiteInit
<1>3. Unseen \in Unseen .. MaxSiteDay /\ 0 \in 0 .. MaxSiteDay /\ Unseen <= 0
  BY SiteAssumption DEF Unseen
<1>4. SiteTyped
  BY <1>1, <1>2, <1>3 DEF SiteInit, SiteTyped, NotVisiting
<1>5. \A h \in VisitedHosts : Asking(h) = {}
  BY <1>1, <1>2 DEF Asking
<1>6. \A h \in VisitedHosts : DayIsOne(h)
  BY <1>1, <1>2, <1>5 DEF DayIsOne, SiteInit
<1>7. QED
  BY <1>4, <1>6 DEF SiteInv

LEMMA SiteTypedStep == SiteInv /\ [SiteNext]_siteVars => SiteTyped'
<1> SUFFICES ASSUME SiteInv, [SiteNext]_siteVars PROVE SiteTyped'
  OBVIOUS
<1> DEFINE Days(d, seen, known) ==
               /\ d \in 0 .. MaxSiteDay
               /\ seen \in [VisitedHosts -> Unseen .. MaxSiteDay] /\ known \in [VisitedHosts -> Unseen .. MaxSiteDay]
               /\ \A h \in VisitedHosts : seen[h] <= d /\ known[h] <= d
           Sound(v) == /\ IF NotVisiting(v) THEN visits[v].look = "none" /\ visits[v].guard = {}
                                       ELSE visits[v].host \in VisitedHosts
                       /\ visits[v].step \in {"away", "open", "facts", "put"} => visits[v].since = Unseen
                       /\ visits[v].since <= day /\ visits[v].at <= day
           Documents == visits \in [Visits -> VisitRecord] /\ \A v \in Visits : Sound(v)
           Sets == trusted \subseteq VisitedHosts /\ doubled \subseteq VisitedHosts
<1>0. SiteTyped
  BY DEF SiteInv
<1>a. Days(day, firstSeen, met) /\ Documents /\ Sets /\ day \in Int
  BY <1>0 DEF SiteTyped
<1>b. ASSUME Days(day', firstSeen', met'), Documents', Sets' PROVE SiteTyped'
  BY <1>b, Zenon DEF SiteTyped
<1>c. ASSUME NEW v \in Visits, NEW host, NEW look, NEW step, NEW since, NEW at, NEW guard,
             VisitBecomes(v, host, look, step, since, at, guard), day' = day,
             IF step \in {"away", "gone"} THEN look = "none" /\ guard = {} ELSE host \in VisitedHosts,
             step \in {"away", "open", "facts", "put"} => since = Unseen, since <= day, at <= day
      PROVE  Documents'
  <2>1. Sound(v)'
    BY <1>c DEF VisitBecomes, NotVisiting
  <2>2. \A u \in Visits \ {v} : Sound(u)'
    BY <1>a, <1>c DEF VisitBecomes, NotVisiting
  <2>3. QED
    BY <1>c, <2>1, <2>2 DEF VisitBecomes
<1>d. Unseen <= day /\ 0 <= day /\ day <= day
  BY <1>a DEF Unseen
<1>e. ASSUME NEW v \in Visits
      PROVE  /\ visits[v].since <= day /\ visits[v].at <= day
             /\ IF NotVisiting(v) THEN visits[v].look = "none" /\ visits[v].guard = {}
                             ELSE visits[v].host \in VisitedHosts
             /\ visits[v].step \in {"away", "open", "facts", "put"} => visits[v].since = Unseen
  BY <1>a
<1>1. ASSUME NEW v \in Visits, Visit(v) PROVE SiteTyped'
  <2>1. UNCHANGED <<day, trusted, firstSeen, met, doubled>>
    BY <1>1 DEF Visit
  <2>2. Documents'
    <3>1. PICK h \in VisitedHosts, look \in {"none", "brand-subdomain", "resembles"} :
             VisitBecomes(v, h, look, "open", Unseen, 0, {})
      BY <1>0, <1>1, VisitSteps
    <3>2. QED
      BY <1>c, <1>d, <2>1, <3>1
  <2>3. QED
    BY <1>a, <1>b, <2>1, <2>2
<1>2. ASSUME NEW v \in Visits, FocusField(v) PROVE SiteTyped'
  <2>1. UNCHANGED <<day, trusted, firstSeen, met>> /\ visits[v].step = "open"
    BY <1>2 DEF FocusField
  <2>2. visits[v].host \in VisitedHosts /\ visits[v].since = Unseen
    BY <1>e, <2>1 DEF NotVisiting
  <2>3. doubled' \subseteq VisitedHosts
    BY <1>2, <1>a, <2>2 DEF FocusField
  <2>4. VisitBecomes(v, visits[v].host, visits[v].look, "facts", visits[v].since, visits[v].at, visits[v].guard)
    BY <1>0, <1>2, VisitSteps
  <2>5. Documents'
    BY <1>c, <1>e, <2>1, <2>2, <2>4
  <2>6. QED
    BY <1>a, <1>b, <2>1, <2>3, <2>5
<1>3. ASSUME NEW v \in Visits, SiteFacts(v) PROVE SiteTyped'
  <2>1. UNCHANGED <<day, trusted, firstSeen, met, doubled>> /\ visits[v].step = "facts"
    BY <1>3 DEF SiteFacts
  <2>2. visits[v].host \in VisitedHosts
    BY <1>e, <2>1 DEF NotVisiting
  <2>3. PICK step \in {"put", "answered"}, since \in {Unseen, firstSeen[visits[v].host]} :
              /\ VisitBecomes(v, visits[v].host, visits[v].look, step, since, visits[v].at, visits[v].guard)
              /\ step = "put" => since = Unseen
    BY <1>0, <1>3, VisitSteps
  <2>4. since <= day
    BY <1>a, <1>d, <2>2
  <2>5. Documents'
    BY <1>c, <1>e, <2>1, <2>2, <2>3, <2>4
  <2>6. QED
    BY <1>a, <1>b, <2>1, <2>5
<1>4. ASSUME NEW v \in Visits, NoteSeen(v) PROVE SiteTyped'
  <2>1. UNCHANGED <<day, trusted, doubled>> /\ visits[v].step = "put"
    BY <1>4 DEF NoteSeen
  <2>2. visits[v].host \in VisitedHosts
    BY <1>e, <2>1 DEF NotVisiting
  <2>3. VisitBecomes(v, visits[v].host, visits[v].look, "answered", Unseen, visits[v].at, visits[v].guard)
    BY <1>0, <1>4, VisitSteps
  <2>4. Documents'
    BY <1>c, <1>d, <1>e, <2>1, <2>2, <2>3
  <2>5. Days(day', firstSeen', met')
    <3> DEFINE h == visits[v].host
    <3>1. CASE UNCHANGED <<firstSeen, met>>
      BY <1>a, <2>1, <3>1
    <3>2. CASE /\ firstSeen' = [firstSeen EXCEPT ![h] = day]
               /\ met' = [met EXCEPT ![h] = IF @ = Unseen THEN day ELSE @]
      <4>1. day \in Unseen .. MaxSiteDay
        BY <1>a DEF Unseen
      <4>2. QED
        BY <1>a, <1>d, <2>1, <2>2, <3>2, <4>1
    <3>3. QED
      BY <1>4, <3>1, <3>2 DEF NoteSeen
  <2>6. QED
    BY <1>a, <1>b, <2>1, <2>4, <2>5
<1>5. ASSUME NEW v \in Visits, Warn(v) PROVE SiteTyped'
  <2>1. UNCHANGED <<day, trusted, firstSeen, met, doubled>> /\ visits[v].step = "answered"
    BY <1>5 DEF Warn
  <2>2. visits[v].host \in VisitedHosts
    BY <1>e, <2>1 DEF NotVisiting
  <2>3. PICK guard \in SUBSET JudgedOn : VisitBecomes(v, visits[v].host, visits[v].look, "done", Unseen, day, guard)
    BY <1>0, <1>5, VisitSteps
  <2>4. Documents'
    BY <1>c, <1>d, <2>1, <2>2, <2>3
  <2>5. QED
    BY <1>a, <1>b, <2>1, <2>4
<1>6. ASSUME NEW v \in Visits, TrustSite(v) PROVE SiteTyped'
  <2>1. /\ UNCHANGED <<day, firstSeen, met, doubled>> /\ (visits[v].look # "none" \/ visits[v].guard # {})
        /\ trusted' = trusted \cup {visits[v].host} \/ trusted' = trusted
    BY <1>6 DEF TrustSite
  <2>2. ~ NotVisiting(v) /\ visits[v].host \in VisitedHosts
    BY <1>e, <2>1
  <2>3. VisitBecomes(v, visits[v].host, "none", visits[v].step, visits[v].since, visits[v].at, {})
    BY <1>0, <1>6, VisitSteps
  <2>4. day' = day
    BY <1>6 DEF TrustSite
  <2>5. Documents'
    BY <1>c, <1>e, <2>2, <2>3, <2>4
  <2>6. QED
    BY <1>6, <1>a, <1>b, <2>1, <2>2, <2>5 DEF TrustSite
<1>7. ASSUME NEW v \in Visits, Leave(v) PROVE SiteTyped'
  <2>1. UNCHANGED <<day, trusted, firstSeen, met, doubled>>
    BY <1>7 DEF Leave
  <2>2. Documents'
    BY <1>0, <1>7, <1>c, <1>d, <2>1, VisitSteps
  <2>3. QED
    BY <1>a, <1>b, <2>1, <2>2
<1>f. ASSUME UNCHANGED <<visits, day>> PROVE Documents'
  BY <1>a, <1>f DEF NotVisiting
<1>8. CASE RevokeSite
  <2>1. trusted' \subseteq trusted /\ UNCHANGED <<day, firstSeen, visits, met, doubled>>
    BY <1>8 DEF RevokeSite
  <2>2. QED
    BY <1>a, <1>b, <1>f, <2>1
<1>9. CASE SweepSeen
  <2>1. PICK h \in VisitedHosts : firstSeen' = [firstSeen EXCEPT ![h] = Unseen] /\ met' = [met EXCEPT ![h] = Unseen]
    BY <1>9 DEF SweepSeen
  <2>2. UNCHANGED <<day, trusted, visits, doubled>>
    BY <1>9 DEF SweepSeen
  <2>3. Unseen \in Unseen .. MaxSiteDay
    BY SiteAssumption DEF Unseen
  <2>4. Days(day', firstSeen', met')
    BY <1>a, <1>d, <2>1, <2>2, <2>3
  <2>5. QED
    BY <1>a, <1>b, <1>f, <2>2, <2>4
<1>10. CASE SiteDayPasses
  <2>1. day' = day + 1 /\ day < MaxSiteDay /\ UNCHANGED <<trusted, firstSeen, visits, met, doubled>>
    BY <1>10 DEF SiteDayPasses
  <2>2. day' \in 0 .. MaxSiteDay
    BY <1>a, <2>1, SiteAssumption
  <2>3. \A x \in Int : x <= day => x <= day'
    BY <1>a, <2>1
  <2>4. \A x \in Unseen .. MaxSiteDay : x \in Int
    OBVIOUS
  <2>5. \A v \in Visits : visits[v].since \in Int /\ visits[v].at \in Int
    BY <1>a DEF VisitRecord
  <2>6. Documents'
    BY <1>a, <2>1, <2>3, <2>5 DEF NotVisiting
  <2>7. Days(day', firstSeen', met')
    BY <1>a, <2>1, <2>2, <2>3, <2>4
  <2>8. QED
    BY <1>a, <1>b, <2>1, <2>6, <2>7
<1>11. CASE UNCHANGED siteVars
  BY <1>11, <1>a, <1>b, <1>f DEF siteVars
<1>12. QED
  BY <1>1, <1>2, <1>3, <1>4, <1>5, <1>6, <1>7, <1>8, <1>9, <1>10, <1>11 DEF SiteNext

LEMMA DayIsOneStep == SiteInv /\ [SiteNext]_siteVars => \A h \in VisitedHosts : DayIsOne(h)'
<1> SUFFICES ASSUME SiteInv, [SiteNext]_siteVars, NEW h \in VisitedHosts, h \notin doubled' PROVE DayIsOne(h)'
  BY DEF DayIsOne
<1> DEFINE Known(v) == visits[v].host = h =>
               /\ visits[v].step = "put" => firstSeen[h] = Unseen
               /\ visits[v].step = "answered" /\ visits[v].since # Unseen
                     => met[h] = Unseen \/ met[h] >= visits[v].since
               /\ visits[v].step = "done" /\ "young" \in visits[v].guard
                     => met[h] = Unseen \/ visits[v].at - met[h] < Established
           One == \A u, v \in Asking(h) : u = v
<1>0. SiteTyped /\ (h \notin doubled => firstSeen[h] = met[h] /\ One /\ \A v \in Visits : Known(v))
  BY DEF SiteInv, DayIsOne
<1>a. ASSUME firstSeen'[h] = met'[h], One', \A v \in Visits : Known(v)' PROVE DayIsOne(h)'
  BY <1>a DEF DayIsOne
<1>b. \A v \in Visits : v \in Asking(h) <=> visits[v].host = h /\ visits[v].step \in {"facts", "put"}
  BY DEF Asking
<1>c. \A v \in Visits : v \in Asking(h)' <=> visits'[v].host = h /\ visits'[v].step \in {"facts", "put"}
  BY DEF Asking
<1>d. Asking(h) \subseteq Visits /\ Asking(h)' \subseteq Visits
  BY DEF Asking
<1>i. /\ day \in Int /\ firstSeen[h] \in Int /\ met[h] \in Int /\ Established \in Nat /\ 0 < Established
      /\ met[h] <= day
      /\ \A v \in Visits : /\ visits[v].since \in Int /\ visits[v].at \in Int
                           /\ visits[v].since <= day /\ visits[v].at <= day
  <2>1. day \in 0 .. MaxSiteDay /\ firstSeen[h] \in Unseen .. MaxSiteDay /\ met[h] \in Unseen .. MaxSiteDay /\ met[h] <= day
    BY <1>0 DEF SiteTyped
  <2>2. \A v \in Visits : /\ visits[v].since \in Int /\ visits[v].at \in Int
                          /\ visits[v].since <= day /\ visits[v].at <= day
    BY <1>0 DEF SiteTyped, VisitRecord
  <2>3. QED
    BY <2>1, <2>2, SiteAssumption
<1>e. ASSUME NEW v \in Visits, NEW host, NEW look, NEW step, NEW since, NEW at, NEW guard,
             VisitBecomes(v, host, look, step, since, at, guard), doubled' = doubled,
             firstSeen'[h] = firstSeen[h], met'[h] = met[h],
             host = h /\ step \in {"facts", "put"} => v \in Asking(h),
             host = h /\ h \notin doubled =>
               /\ step = "put" => firstSeen[h] = Unseen
               /\ step = "answered" /\ since # Unseen => met[h] = Unseen \/ met[h] >= since
               /\ step = "done" /\ "young" \in guard => met[h] = Unseen \/ at - met[h] < Established
      PROVE  DayIsOne(h)'
  <2>0. h \notin doubled
    BY <1>e
  <2>1. Known(v)'
    BY <1>e, <2>0 DEF VisitBecomes
  <2>2. \A u \in Visits \ {v} : Known(u)'
    BY <1>0, <1>e, <2>0 DEF VisitBecomes
  <2>3. Asking(h)' \subseteq Asking(h)
    BY <1>b, <1>c, <1>d, <1>e DEF VisitBecomes
  <2>4. QED
    BY <1>0, <1>a, <1>e, <2>0, <2>1, <2>2, <2>3
<1>f. ASSUME UNCHANGED <<visits, doubled>>, firstSeen'[h] = firstSeen[h], met'[h] = met[h] PROVE DayIsOne(h)'
  BY <1>0, <1>a, <1>f DEF Asking
<1>1. ASSUME NEW v \in Visits, Visit(v) PROVE DayIsOne(h)'
  <2>1. UNCHANGED <<firstSeen, met, doubled>>
    BY <1>1 DEF Visit
  <2>2. PICK k \in VisitedHosts, look \in {"none", "brand-subdomain", "resembles"} :
             VisitBecomes(v, k, look, "open", Unseen, 0, {})
    BY <1>0, <1>1, VisitSteps
  <2>3. QED
    BY <1>e, <2>1, <2>2
<1>2. ASSUME NEW v \in Visits, FocusField(v) PROVE DayIsOne(h)'
  <2>1. /\ UNCHANGED <<firstSeen, met>>
        /\ doubled' = IF Asking(visits[v].host) # {} THEN doubled \cup {visits[v].host} ELSE doubled
    BY <1>2 DEF FocusField
  <2>2. VisitBecomes(v, visits[v].host, visits[v].look, "facts", visits[v].since, visits[v].at, visits[v].guard)
    BY <1>0, <1>2, VisitSteps
  <2>3. h \notin doubled /\ (visits[v].host = h => Asking(h) = {})
    BY <2>1
  <2>4. \A u \in Visits : Known(u)'
    BY <1>0, <2>1, <2>2, <2>3 DEF VisitBecomes
  <2>5. One'
    <3>1. CASE visits[v].host = h
      <4>1. Asking(h)' \subseteq {v}
        BY <1>b, <1>c, <1>d, <2>2, <2>3, <3>1 DEF VisitBecomes
      <4>2. QED
        BY <4>1
    <3>2. CASE visits[v].host # h
      <4>1. Asking(h)' \subseteq Asking(h)
        BY <1>b, <1>c, <1>d, <2>2, <3>2 DEF VisitBecomes
      <4>2. QED
        BY <1>0, <2>3, <4>1
    <3>3. QED
      BY <3>1, <3>2
  <2>6. QED
    BY <1>0, <1>a, <2>1, <2>3, <2>4, <2>5
<1>3. ASSUME NEW v \in Visits, SiteFacts(v) PROVE DayIsOne(h)'
  <2>1. UNCHANGED <<firstSeen, met, doubled>> /\ visits[v].step = "facts"
    BY <1>3 DEF SiteFacts
  <2>2. PICK step \in {"put", "answered"}, since \in {Unseen, firstSeen[visits[v].host]} :
              /\ VisitBecomes(v, visits[v].host, visits[v].look, step, since, visits[v].at, visits[v].guard)
              /\ step = "put" => since = Unseen /\ Unmet(visits[v].host)
    BY <1>0, <1>3, VisitSteps
  <2>3. visits[v].host = h => v \in Asking(h)
    BY <1>b, <2>1
  <2>4. visits[v].host = h /\ h \notin doubled =>
               /\ step = "put" => firstSeen[h] = Unseen
               /\ step = "answered" /\ since # Unseen => met[h] = Unseen \/ met[h] >= since
    BY <1>0, <1>i, <2>2 DEF Unmet
  <2>5. QED
    BY <1>e, <2>1, <2>2, <2>3, <2>4
<1>4. ASSUME NEW v \in Visits, NoteSeen(v) PROVE DayIsOne(h)'
  <2>1. doubled' = doubled /\ visits[v].step = "put"
    BY <1>4 DEF NoteSeen
  <2>2. VisitBecomes(v, visits[v].host, visits[v].look, "answered", Unseen, visits[v].at, visits[v].guard)
    BY <1>0, <1>4, VisitSteps
  <2>3. firstSeen \in [VisitedHosts -> Unseen .. MaxSiteDay] /\ met \in [VisitedHosts -> Unseen .. MaxSiteDay]
    BY <1>0 DEF SiteTyped
  <2>4. CASE UNCHANGED <<firstSeen, met>> \/ visits[v].host # h
    <3>1. firstSeen'[h] = firstSeen[h] /\ met'[h] = met[h]
      BY <1>4, <2>3, <2>4 DEF NoteSeen
    <3>2. QED
      BY <1>e, <2>1, <2>2, <3>1
  <2>5. CASE visits[v].host = h /\ ~ UNCHANGED <<firstSeen, met>>
    <3>1. firstSeen[h] = Unseen /\ met[h] = Unseen /\ h \notin doubled
      BY <1>0, <2>1, <2>5
    <3>2. firstSeen'[h] = day /\ met'[h] = day
      BY <1>4, <2>3, <2>5, <3>1 DEF NoteSeen
    <3>3. \A u \in Visits \ {v} : visits[u].host = h => visits[u].step \notin {"facts", "put"}
      BY <1>0, <1>b, <2>1, <2>5, <3>1
    <3>4. Known(v)'
      BY <2>2, <3>2 DEF VisitBecomes
    <3>5. ASSUME NEW u \in Visits \ {v} PROVE Known(u)'
      <4>1. visits'[u] = visits[u]
        BY <2>2 DEF VisitBecomes
      <4>2. day >= visits[u].since /\ visits[u].at - day < Established
        BY <1>i
      <4>3. QED
        BY <3>2, <3>3, <4>1, <4>2
    <3>6. Asking(h)' \subseteq Asking(h)
      BY <1>b, <1>c, <1>d, <2>2 DEF VisitBecomes
    <3>7. QED
      BY <1>0, <1>a, <3>1, <3>2, <3>4, <3>5, <3>6
  <2>6. QED
    BY <2>4, <2>5
<1>5. ASSUME NEW v \in Visits, Warn(v) PROVE DayIsOne(h)'
  <2>1. UNCHANGED <<firstSeen, met, doubled>> /\ visits[v].step = "answered"
    BY <1>5 DEF Warn
  <2>2. PICK guard \in SUBSET JudgedOn :
              /\ VisitBecomes(v, visits[v].host, visits[v].look, "done", Unseen, day, guard)
              /\ "young" \in guard => visits[v].since # Unseen /\ day - visits[v].since < Established
    BY <1>0, <1>5, VisitSteps
  <2>3. visits[v].host = h /\ h \notin doubled /\ "young" \in guard => met[h] = Unseen \/ day - met[h] < Established
    BY <1>0, <1>i, <2>1, <2>2
  <2>4. QED
    BY <1>e, <2>1, <2>2, <2>3
<1>6. ASSUME NEW v \in Visits, TrustSite(v) PROVE DayIsOne(h)'
  <2>1. UNCHANGED <<firstSeen, met, doubled>>
    BY <1>6 DEF TrustSite
  <2>2. VisitBecomes(v, visits[v].host, "none", visits[v].step, visits[v].since, visits[v].at, {})
    BY <1>0, <1>6, VisitSteps
  <2>3. visits[v].host = h /\ visits[v].step \in {"facts", "put"} => v \in Asking(h)
    BY <1>b
  <2>4. QED
    BY <1>0, <1>e, <2>1, <2>2, <2>3
<1>7. ASSUME NEW v \in Visits, Leave(v) PROVE DayIsOne(h)'
  <2>1. UNCHANGED <<firstSeen, met, doubled>>
    BY <1>7 DEF Leave
  <2>2. QED
    BY <1>0, <1>7, <1>e, <2>1, VisitSteps
<1>8. CASE RevokeSite \/ SiteDayPasses
  BY <1>8, <1>f DEF RevokeSite, SiteDayPasses
<1>9. CASE SweepSeen
  <2>1. PICK k \in VisitedHosts : firstSeen' = [firstSeen EXCEPT ![k] = Unseen] /\ met' = [met EXCEPT ![k] = Unseen]
    BY <1>9 DEF SweepSeen
  <2>2. UNCHANGED <<visits, doubled>>
    BY <1>9 DEF SweepSeen
  <2>3. firstSeen \in [VisitedHosts -> Unseen .. MaxSiteDay] /\ met \in [VisitedHosts -> Unseen .. MaxSiteDay]
    BY <1>0 DEF SiteTyped
  <2>4. CASE k = h
    <3>1. firstSeen'[h] = Unseen /\ met'[h] = Unseen
      BY <2>1, <2>3, <2>4
    <3>2. \A v \in Visits : Known(v)'
      BY <2>2, <3>1
    <3>3. One'
      BY <1>0, <2>2 DEF Asking
    <3>4. QED
      BY <1>a, <3>1, <3>2, <3>3
  <2>5. CASE k # h
    BY <1>f, <2>1, <2>2, <2>3, <2>5
  <2>6. QED
    BY <2>4, <2>5
<1>10. CASE UNCHANGED siteVars
  BY <1>10, <1>f DEF siteVars
<1>11. QED
  BY <1>1, <1>2, <1>3, <1>4, <1>5, <1>6, <1>7, <1>8, <1>9, <1>10 DEF SiteNext

(* What the device remembers of a site, through documents that ask at      *)
(* once, questions refused and sweeps (background/index.ts, siteFacts).    *)
THEOREM SiteInvAlways == SiteSpec => []SiteInv
<1>1. SiteInv /\ [SiteNext]_siteVars => SiteInv'
  BY SiteTypedStep, DayIsOneStep DEF SiteInv
<1>2. QED
  BY <1>1, SiteInvInit, PTL DEF SiteSpec

(* Of the sites the shipped names accuse, trust silences the one it was    *)
(* given for and what renders as beneath its name, and no other; a name of *)
(* the watched one's own label under a country's ending is nobody's        *)
(* imitation (core-lookalike/check.ts); and only a site first met within   *)
(* the limit is called new (core-credential, siteFacts): for any hosts,    *)
(* labels, suffixes and documents.                                         *)
THEOREM SitesJudgedFairly == SiteSpec => []SitesAreJudgedFairly
<1>1. SiteInv => SitesAreJudgedFairly
  <2> SUFFICES ASSUME SiteInv PROVE SitesAreJudgedFairly
    OBVIOUS
  <2>0. SiteTyped /\ trusted \in SUBSET VisitedHosts
    BY DEF SiteInv, SiteTyped
  <2>1. SiteTypeOK
    <3>1. \A v \in Visits : visits[v] \in VisitRecord
      BY <2>0 DEF SiteTyped
    <3>2. \A v \in Visits :
            /\ visits[v].host \in VisitedHosts \cup {Nowhere} /\ visits[v].since \in Unseen .. MaxSiteDay
            /\ visits[v].at \in 0 .. MaxSiteDay
            /\ visits[v].step \in {"away", "open", "facts", "put", "answered", "done", "gone"}
      BY <3>1 DEF VisitRecord
    <3>3. QED
      BY <2>0, <3>2 DEF SiteTyped, SiteTypeOK
  <2>2. TrustSilencesOnlyItself
    BY <2>0, ExceptionsAreNarrow DEF TrustSilencesOnlyItself
  <2>3. CountryDomainPasses
    BY <2>0, CountryPasses DEF CountryDomainPasses
  <2>4. YoungIsYoung
    <3>1. \A v \in Visits : visits[v].step = "done" => visits[v].host \in VisitedHosts
      BY <2>0 DEF SiteTyped, NotVisiting
    <3>2. QED
      BY <3>1 DEF YoungIsYoung, SiteInv, DayIsOne
  <2>5. QED
    BY <2>1, <2>2, <2>3, <2>4 DEF SitesAreJudgedFairly
<1>2. QED
  BY <1>1, SiteInvAlways, PTL

(* The first day of a site stands until the sweep takes it, unless two     *)
(* documents asked about it at once (noteSeen, background/index.ts).       *)
THEOREM SiteDatesStand == SiteSpec => FirstDayStands
<1> DEFINE Stands == \A h \in VisitedHosts :
               firstSeen[h] # Unseen /\ h \notin doubled => firstSeen'[h] \in {firstSeen[h], Unseen}
<1>1. SiteInv /\ [SiteNext]_siteVars => Stands
  <2> SUFFICES ASSUME SiteInv, [SiteNext]_siteVars, NEW h \in VisitedHosts, firstSeen[h] # Unseen, h \notin doubled
               PROVE  firstSeen'[h] \in {firstSeen[h], Unseen}
    OBVIOUS
  <2>0. firstSeen \in [VisitedHosts -> Unseen .. MaxSiteDay] /\ DayIsOne(h)
    BY DEF SiteInv, SiteTyped
  <2>1. ASSUME NEW v \in Visits, NoteSeen(v) PROVE firstSeen'[h] = firstSeen[h]
    <3>1. visits[v].host # h
      BY <2>0, <2>1 DEF DayIsOne, NoteSeen
    <3>2. QED
      BY <2>0, <2>1, <3>1 DEF NoteSeen
  <2>2. CASE SweepSeen
    BY <2>0, <2>2 DEF SweepSeen
  <2>3. CASE UNCHANGED firstSeen
    BY <2>3
  <2>4. QED
    BY <2>1, <2>2, <2>3 DEF SiteNext, siteVars, Visit, FocusField, SiteFacts, Warn, TrustSite, Leave,
                            RevokeSite, SiteDayPasses
<1> HIDE DEF Stands
<1>2. SiteInv /\ [SiteNext]_siteVars => [Stands]_siteVars
  BY <1>1
<1>3. []SiteInv /\ [][SiteNext]_siteVars => [][Stands]_siteVars
  BY <1>2, PTL
<1>4. SiteSpec => [][Stands]_siteVars
  BY <1>3, SiteInvAlways, PTL DEF SiteSpec
<1>5. QED
  BY <1>4 DEF Stands, FirstDayStands

-----------------------------------------------------------------------------
(***************************************************************************)
(* Publishing, for any feed, source and delta: an owner is told of a       *)
(* listed host what browsers do with it, its date stands, and the snapshot *)
(* of the file itself takes at most a third of the list after at most one  *)
(* ingest.                                                                 *)
(***************************************************************************)
FeedUpdates(kinds) ==
    [kind : kinds, version : 0 .. MaxVersion, entries : SUBSET FeedEntries,
     added : SUBSET FeedEntries, removed : SUBSET FeedEntries]
EntryLists == [version : 0 .. MaxVersion, entries : SUBSET FeedEntries]

PublishingTyped ==
    /\ listFile \in EntryLists /\ follower \in EntryLists
    /\ publishStep \in {"idle", "signed", "uploaded"}
    /\ input \in FeedUpdates({"none", "snapshot", "delta"})
    /\ feedRow \in FeedUpdates({"none", "snapshot", "delta"})
    /\ publishStep # "idle" => input.kind # "none"
    /\ listings \in [Hosts -> Unlisted .. MaxDay] /\ publishDay \in 0 .. MaxDay
    /\ shipped \subseteq FeedEntries
    /\ unpublished \in Nat /\ unpublished <= listFile.version
    /\ unhealed \subseteq {"narrowed", "refused"}

(* The two tables: one update drifts from the other in one direction, and  *)
(* only where the history says so.                                         *)
ListedHosts == {h \in Hosts : listings[h] # Unlisted}
TablesAgree ==
    /\ "refused" \notin unhealed => ListedHosts \subseteq HostsOf(follower.entries)
    /\ unhealed = {} =>
         /\ ListedHosts = HostsOf(follower.entries)
         /\ feedRow.kind = "snapshot" => feedRow.entries = follower.entries

(* What one unpublished ingest may have dropped from what was shipped.     *)
FileIsNear ==
    /\ unpublished = 0 => listFile.entries = shipped
    /\ unpublished = 1 => ~ ShrankTooFar(shipped, listFile.entries)

PublishingInv == PublishingTyped /\ TablesAgree /\ FileIsNear

-----------------------------------------------------------------------------
LEMMA HostsAreHosts ==
    ASSUME NEW S \in SUBSET FeedEntries
    PROVE  HostsOf(S) \subseteq Hosts
  BY DEF HostsOf, Hosts

LEMMA SnapshotIsOfTheFeed ==
    ASSUME NEW text \in Seq(FeedEntries)
    PROVE  Snapshot(text) \subseteq FeedEntries
  <1>1. \A i \in 1 .. Len(text) : text[i] \in FeedEntries
    OBVIOUS
  <1>2. Guarded(text) \subseteq 1 .. Len(text)
    BY DEF Guarded
  <1> QED  BY <1>1, <1>2 DEF Snapshot

(* Which rows stand after an update: those it inserts, and those it does   *)
(* not drop.                                                               *)
LEMMA RowsAfter ==
    ASSUME PublishingTyped, NEW u
    PROVE  /\ ListingSql(u) \in [Hosts -> Unlisted .. MaxDay]
           /\ \A h \in Hosts : ListingSql(u)[h] # Unlisted <=>
                h \in Inserted(u) \/ (h \notin Dropped(u) /\ listings[h] # Unlisted)
  <1>1. listings \in [Hosts -> Unlisted .. MaxDay] /\ publishDay \in 0 .. MaxDay /\ MaxDay \in Nat
    BY PublishingAssumption DEF PublishingTyped
  <1>2. \A h \in Hosts : /\ Remaining(u)[h] \in Unlisted .. MaxDay
                         /\ Remaining(u)[h] # Unlisted <=> h \notin Dropped(u) /\ listings[h] # Unlisted
    BY <1>1 DEF Remaining, Unlisted
  <1>3. \A d \in Unlisted .. MaxDay : DatedOnce(d) \in Unlisted .. MaxDay /\ DatedOnce(d) # Unlisted
    BY <1>1 DEF DatedOnce, Unlisted
  <1> HIDE DEF Remaining, DatedOnce
  <1>4. \A h \in Hosts : ListingSql(u)[h] =
            IF h \in Inserted(u) THEN DatedOnce(Remaining(u)[h]) ELSE Remaining(u)[h]
    BY DEF ListingSql
  <1>5. \A h \in Hosts : ListingSql(u)[h] \in Unlisted .. MaxDay
    BY <1>2, <1>3, <1>4
  <1>6. ListingSql(u) \in [Hosts -> Unlisted .. MaxDay]
    <2>1. ListingSql(u) = [h \in Hosts |-> ListingSql(u)[h]]
      BY DEF ListingSql
    <2> QED  BY <2>1, <1>5
  <1> QED  BY <1>2, <1>3, <1>4, <1>6

LEMMA PublishingInvInit == PublishingInit => PublishingInv
  <1> SUFFICES ASSUME PublishingInit PROVE PublishingInv
    OBVIOUS
  <1>1. MaxVersion \in Nat /\ MaxDay \in Nat
    BY PublishingAssumption
  <1>2. PublishingTyped
    BY <1>1 DEF PublishingTyped, PublishingInit, FeedUpdates, EntryLists, NeverPublished, Unlisted
  <1>3. TablesAgree
    BY DEF PublishingInit, TablesAgree, ListedHosts, HostsOf, NeverPublished
  <1>4. FileIsNear
    BY DEF PublishingInit, FileIsNear
  <1> QED  BY <1>2, <1>3, <1>4 DEF PublishingInv

LEMMA IngestKeeps == PublishingInv /\ Ingest => PublishingInv'
  <1> SUFFICES ASSUME PublishingInv, Ingest PROVE PublishingInv'
    OBVIOUS
  <1>1. PICK text \in SourceTexts :
            /\ ~ ShrankTooFar(listFile.entries, Snapshot(text))
            /\ listFile' = [version |-> listFile.version + 1, entries |-> Snapshot(text)]
    BY DEF Ingest
  <1>2. /\ listFile.version < MaxVersion /\ unpublished' = unpublished + 1
        /\ UNCHANGED <<input, publishStep, feedRow, listings, follower, publishDay, shipped, unhealed>>
    BY DEF Ingest
  <1>3. Snapshot(text) \subseteq FeedEntries
    BY PublishingAssumption, SnapshotIsOfTheFeed
  <1>4. listFile.version \in 0 .. MaxVersion /\ MaxVersion \in Nat
    BY PublishingAssumption DEF PublishingInv, PublishingTyped, EntryLists
  <1>5. listFile'.version = listFile.version + 1 /\ listFile'.entries = Snapshot(text)
    BY <1>1
  <1>6. listFile' \in EntryLists
    BY <1>1, <1>2, <1>3, <1>4 DEF EntryLists
  <1>7. PublishingTyped'
    BY <1>2, <1>4, <1>5, <1>6 DEF PublishingInv, PublishingTyped
  <1>8. TablesAgree'
    BY <1>2 DEF PublishingInv, TablesAgree, ListedHosts
  <1>9. FileIsNear'
    <2>1. unpublished \in Nat
      BY DEF PublishingInv, PublishingTyped
    <2>2. unpublished' # 0 /\ (unpublished' = 1 => unpublished = 0)
      BY <1>2, <2>1
    <2>3. unpublished = 0 => listFile.entries = shipped
      BY DEF PublishingInv, FileIsNear
    <2> QED  BY <1>1, <1>2, <1>5, <2>2, <2>3 DEF FileIsNear
  <1> QED  BY <1>7, <1>8, <1>9 DEF PublishingInv

LEMMA SignKeeps == PublishingInv /\ Sign => PublishingInv'
  <1> SUFFICES ASSUME PublishingInv, Sign PROVE PublishingInv'
    OBVIOUS
  <1>1. /\ publishStep' = "signed"
        /\ UNCHANGED <<listFile, feedRow, listings, follower, publishDay, shipped, unpublished, unhealed>>
    BY DEF Sign
  <1>2. MaxVersion \in Nat /\ listFile \in EntryLists /\ feedRow \in FeedUpdates({"none", "snapshot", "delta"})
    BY PublishingAssumption DEF PublishingInv, PublishingTyped
  <1>3. input' \in FeedUpdates({"snapshot", "delta"})
    <2>1. CASE input' = FromFile
      <3>1. listFile.version \in 0 .. MaxVersion /\ listFile.entries \subseteq FeedEntries
        BY <1>2 DEF EntryLists
      <3>2. NeverPublished \in [kind : {"none", "snapshot"}, version : Nat, entries : SUBSET FeedEntries,
                               added : SUBSET FeedEntries, removed : SUBSET FeedEntries]
        BY DEF NeverPublished
      <3> QED  BY <2>1, <3>1, <3>2 DEF FromFile, FeedUpdates
    <2>2. CASE \E u \in HandUpdates : feedRow.version < MaxVersion /\ input' = ByHand(u)
      <3>1. PICK u \in HandUpdates : feedRow.version < MaxVersion /\ input' = ByHand(u)
        BY <2>2
      <3>2. feedRow.version + 1 \in 0 .. MaxVersion
        BY <1>2, <3>1 DEF FeedUpdates
      <3>3. u \in [kind : {"snapshot", "delta"}, version : Nat, entries : SUBSET FeedEntries,
                   added : SUBSET FeedEntries, removed : SUBSET FeedEntries]
        BY PublishingAssumption
      <3> QED  BY <3>1, <3>2, <3>3 DEF ByHand, FeedUpdates
    <2> QED  BY <2>1, <2>2 DEF Sign
  <1>4. input' \in FeedUpdates({"none", "snapshot", "delta"}) /\ input'.kind # "none"
    BY <1>3 DEF FeedUpdates
  <1>5. PublishingTyped'
    BY <1>1, <1>4 DEF PublishingInv, PublishingTyped
  <1> QED  BY <1>1, <1>5 DEF PublishingInv, TablesAgree, ListedHosts, FileIsNear

-----------------------------------------------------------------------------
(* The publication itself: what a browser that takes the update then holds *)
(* against the rows.                                                       *)
LEMMA UploadAgrees == PublishingInv /\ Upload => TablesAgree'
  <1> SUFFICES ASSUME PublishingInv, Upload PROVE TablesAgree'
    OBVIOUS
  <1> DEFINE F == follower.entries
             G == follower'.entries
  <1>1. /\ publishStep = "signed" /\ feedRow' = input /\ listings' = ListingSql(input)
        /\ follower' = IF FollowerAccepts(input) THEN FollowerApplies(input) ELSE follower
        /\ unhealed' =
             CASE ~ FollowerAccepts(input) -> unhealed \cup {"refused"}
               [] FollowerAccepts(input) /\ input.kind = "snapshot" -> {}
               [] OTHER -> unhealed \cup (IF Narrowed(input) THEN {"narrowed"} ELSE {})
    BY DEF Upload
  <1>2. /\ input.kind \in {"snapshot", "delta"}
        /\ input.entries \subseteq FeedEntries /\ input.added \subseteq FeedEntries
        /\ input.removed \subseteq FeedEntries /\ follower.entries \subseteq FeedEntries
    BY <1>1 DEF PublishingInv, PublishingTyped, FeedUpdates, EntryLists
  <1>3. ListedHosts' = {h \in Hosts : h \in Inserted(input)
                                        \/ (h \notin Dropped(input) /\ h \in ListedHosts)}
    BY <1>1, RowsAfter DEF PublishingInv, ListedHosts
  <1>4. CASE ~ FollowerAccepts(input)
    BY <1>1, <1>4 DEF TablesAgree
  <1>5. CASE FollowerAccepts(input) /\ input.kind = "snapshot"
    <2>1. G = input.entries
      BY <1>1, <1>5 DEF FollowerApplies
    <2>2. HostsOf(input.entries) \subseteq Hosts
      BY <1>2, HostsAreHosts
    <2>3. ListedHosts' = HostsOf(input.entries)
      BY <1>3, <1>5, <2>2 DEF Inserted, Dropped
    <2> QED  BY <1>1, <2>1, <2>3 DEF TablesAgree
  <1>6. CASE FollowerAccepts(input) /\ input.kind = "delta"
    <2>1. G = (F \ input.removed) \cup input.added
      BY <1>1, <1>6 DEF FollowerApplies
    <2>2. unhealed' = unhealed \cup (IF Narrowed(input) THEN {"narrowed"} ELSE {})
      BY <1>1, <1>6
    <2>3. Narrowed(input) <=> (HostsOf(input.removed) \cap HostsOf(G)) \ HostsOf(input.added) # {}
      BY <1>1, <1>6 DEF Narrowed
    <2>4. Inserted(input) = HostsOf(input.added) /\ Dropped(input) = HostsOf(input.removed)
      BY <1>6 DEF Inserted, Dropped
    <2>5. HostsOf(G) \subseteq Hosts /\ HostsOf(input.added) \subseteq Hosts
      BY <1>2, <2>1, HostsAreHosts
    <2>6. HostsOf(input.added) \subseteq HostsOf(G)
      BY <2>1 DEF HostsOf
    <2>7. HostsOf(F) \ HostsOf(input.removed) \subseteq HostsOf(G)
      BY <2>1 DEF HostsOf
    <2>8. HostsOf(G) \subseteq HostsOf(F) \cup HostsOf(input.added)
      BY <2>1 DEF HostsOf
    <2>9. "refused" \notin unhealed => ListedHosts \subseteq HostsOf(F)
      BY DEF PublishingInv, TablesAgree
    <2>10. "refused" \notin unhealed' => ListedHosts' \subseteq HostsOf(G)
      BY <1>3, <2>2, <2>4, <2>6, <2>7, <2>9
    <2>11. ASSUME unhealed' = {} PROVE ListedHosts' = HostsOf(G)
      <3>1. unhealed = {} /\ ~ Narrowed(input)
        BY <2>2, <2>11
      <3>2. ListedHosts = HostsOf(F)
        BY <3>1 DEF PublishingInv, TablesAgree
      <3> QED  BY <1>3, <2>3, <2>4, <2>5, <2>6, <2>7, <2>8, <3>1, <3>2
    <2>12. feedRow'.kind # "snapshot"
      BY <1>1, <1>6
    <2> HIDE DEF F, G
    <2> QED  BY <2>10, <2>11, <2>12 DEF TablesAgree, G
  <1> QED  BY <1>2, <1>4, <1>5, <1>6

LEMMA UploadKeeps == PublishingInv /\ Upload => PublishingInv'
  <1> SUFFICES ASSUME PublishingInv, Upload PROVE PublishingInv'
    OBVIOUS
  <1>1. /\ publishStep = "signed" /\ publishStep' = "uploaded"
        /\ feedRow' = input /\ listings' = ListingSql(input)
        /\ follower' = IF FollowerAccepts(input) THEN FollowerApplies(input) ELSE follower
        /\ UNCHANGED <<listFile, input, publishDay>>
    BY DEF Upload
  <1>2. /\ input.kind \in {"snapshot", "delta"} /\ input.version \in 0 .. MaxVersion
        /\ input.entries \subseteq FeedEntries /\ input.added \subseteq FeedEntries
        /\ input.removed \subseteq FeedEntries
        /\ follower.entries \subseteq FeedEntries /\ listFile.version \in Nat
    BY <1>1, PublishingAssumption DEF PublishingInv, PublishingTyped, FeedUpdates, EntryLists
  <1>3. follower' \in EntryLists
    <2>1. FollowerApplies(input) \in EntryLists
      BY <1>2 DEF FollowerApplies, EntryLists
    <2> QED  BY <1>1, <2>1 DEF PublishingInv, PublishingTyped
  <1>4. listings' \in [Hosts -> Unlisted .. MaxDay]
    BY <1>1, RowsAfter DEF PublishingInv
  <1>5. unhealed' \subseteq {"narrowed", "refused"}
    BY <1>2 DEF Upload, PublishingInv, PublishingTyped
  <1>6. \/ /\ input = FromFile /\ unpublished' = 0 /\ shipped' = input.entries
        \/ UNCHANGED <<unpublished, shipped>>
    BY DEF Upload
  <1>7. FromFile.entries = listFile.entries
    BY DEF FromFile, NeverPublished
  <1>8. shipped' \subseteq FeedEntries /\ unpublished' \in Nat /\ unpublished' <= listFile.version
    BY <1>2, <1>6 DEF PublishingInv, PublishingTyped
  <1>9. PublishingTyped'
    BY <1>1, <1>2, <1>3, <1>4, <1>5, <1>8 DEF PublishingInv, PublishingTyped
  <1>10. FileIsNear'
    BY <1>1, <1>6, <1>7 DEF PublishingInv, FileIsNear
  <1> QED  BY <1>9, <1>10, UploadAgrees DEF PublishingInv

LEMMA PublishingInvStep == PublishingInv /\ [PublishingNext]_publishVars => PublishingInv'
  <1> SUFFICES ASSUME PublishingInv, [PublishingNext]_publishVars PROVE PublishingInv'
    OBVIOUS
  <1>1. CASE Smoke
    BY <1>1 DEF Smoke, PublishingInv, PublishingTyped, TablesAgree, ListedHosts, FileIsNear
  <1>2. CASE NextDay
    <2>1. publishDay' \in 0 .. MaxDay
      BY <1>2, PublishingAssumption DEF NextDay, PublishingInv, PublishingTyped
    <2> QED  BY <1>2, <2>1 DEF NextDay, PublishingInv, PublishingTyped, TablesAgree, ListedHosts, FileIsNear
  <1>3. CASE UNCHANGED publishVars
    BY <1>3 DEF publishVars, PublishingInv, PublishingTyped, TablesAgree, ListedHosts, FileIsNear
  <1> QED  BY <1>1, <1>2, <1>3, IngestKeeps, SignKeeps, UploadKeeps DEF PublishingNext

(* The invariant of publishing: every update in hand is well formed, the   *)
(* status table drifts from the browsers only as the history records, and  *)
(* the file is near what was last shipped from it.                         *)
THEOREM PublishingInvAlways == PublishingSpec => []PublishingInv
  BY PublishingInvInit, PublishingInvStep, PTL DEF PublishingSpec

(* The status page tells an owner of a listed host what browsers do with   *)
(* it, never "listed" of an open one, and "not listed" of a blocked one    *)
(* only beneath a listed host or after an update that lets the two part    *)
(* (publish-feed.mjs, listings.mjs, apply.ts and the proxy's router).      *)
THEOREM StatusAlwaysTrue == PublishingSpec => []StatusIsTrue
  <1>1. PublishingInv => StatusIsTrue
    <2> SUFFICES ASSUME PublishingInv PROVE StatusIsTrue
      OBVIOUS
    <2>1. PublishingTypeOK
      <3>1. listFile.version \in 0 .. MaxVersion /\ unpublished \in 0 .. MaxVersion
        BY PublishingAssumption DEF PublishingInv, PublishingTyped, EntryLists
      <3> QED  BY <3>1 DEF PublishingInv, PublishingTyped, PublishingTypeOK, EntryLists, FeedUpdates
    <2>2. StatusFollowsTheFeed
      <3> SUFFICES ASSUME unhealed = {} PROVE StatusFollowsTheFeed
        BY DEF StatusFollowsTheFeed
      <3>1. /\ ListedHosts = HostsOf(follower.entries)
            /\ feedRow.kind = "snapshot" => feedRow.entries = follower.entries
        BY DEF PublishingInv, TablesAgree
      <3>2. HostsOf(follower.entries) \subseteq Hosts /\ Hosts \subseteq AskedHosts
        BY PublishingAssumption, HostsAreHosts DEF PublishingInv, PublishingTyped, EntryLists, Hosts
      <3>3. \A h : DatedRow(h) <=> h \in HostsOf(follower.entries)
        BY <3>1, <3>2 DEF ListedHosts, DatedRow
      <3>4. \A h, found : SaidClean(h, found) => ~ DatedRow(h)
        BY DEF SaidClean, DomainStatus, StatusPage
      <3>5. ASSUME NEW host \in BlockedHosts, NEW found \in BOOLEAN, SaidClean(host, found)
            PROVE  \E above \in AtOrBeneath[host] \ {host} : DomainStatus(above, TRUE) = "listed"
        <4>1. PICK above \in AtOrBeneath[host] : above \in HostsOf(follower.entries)
          BY DEF BlockedHosts
        <4>2. above # host /\ DatedRow(above)
          BY <3>3, <3>4, <3>5, <4>1
        <4> QED  BY <4>1, <4>2 DEF DomainStatus
      <3>6. \A host \in AskedHosts :
              /\ DomainStatus(host, TRUE) = "listed" <=> host \in HostsOf(follower.entries)
              /\ StatusPage(host, TRUE) = "not listed" <=> host \notin HostsOf(follower.entries)
        BY <3>3 DEF DomainStatus, StatusPage
      <3> QED  BY <3>1, <3>5, <3>6 DEF StatusFollowsTheFeed, ServedFeed
    <2>3. NeverListedWhenOpen
      <3> SUFFICES ASSUME "refused" \notin unhealed, NEW host \in AskedHosts, NEW found \in BOOLEAN,
                          DomainStatus(host, found) = "listed"
                   PROVE  host \in BlockedHosts
        BY DEF NeverListedWhenOpen
      <3>1. host \in Hosts /\ host \in HostsOf(follower.entries)
        BY DEF PublishingInv, TablesAgree, ListedHosts, DomainStatus, DatedRow
      <3>2. host \in AtOrBeneath[host]
        BY <3>1, PublishingAssumption DEF Hosts
      <3> QED  BY <3>1, <3>2 DEF BlockedHosts
    <2> QED  BY <2>1, <2>2, <2>3 DEF StatusIsTrue
  <1> QED  BY <1>1, PublishingInvAlways, PTL

(* No publication moves the date of a host that stays listed, but one that *)
(* swaps an entry of the host for another (listingSql).                    *)
THEOREM DatesStand == PublishingSpec => DateStands
  <1> DEFINE Moves == \A h \in Hosts : listings[h] # Unlisted /\ listings'[h] # Unlisted =>
                          listings'[h] = listings[h] \/ h \in Renamed(input)
  <1>1. PublishingInv /\ [PublishingNext]_publishVars => [Moves]_publishVars
    <2> SUFFICES ASSUME PublishingInv, [PublishingNext]_publishVars PROVE Moves
      OBVIOUS
    <2>1. CASE UNCHANGED listings
      BY <2>1
    <2>2. CASE Upload
      <3>1. listings' = ListingSql(input) /\ publishStep = "signed"
        BY <2>2 DEF Upload
      <3>2. input.kind \in {"snapshot", "delta"}
        BY <3>1 DEF PublishingInv, PublishingTyped, FeedUpdates
      <3> SUFFICES ASSUME NEW h \in Hosts, listings[h] # Unlisted, listings'[h] # Unlisted
                   PROVE  listings'[h] = listings[h] \/ h \in Renamed(input)
        OBVIOUS
      <3>3. CASE h \notin Dropped(input)
        <4>1. Remaining(input)[h] = listings[h]
          BY <3>3 DEF Remaining
        <4> QED  BY <3>1, <4>1 DEF ListingSql, DatedOnce
      <3>4. CASE h \in Dropped(input)
        <4>1. Remaining(input)[h] = Unlisted
          BY <3>4 DEF Remaining
        <4>2. h \in Inserted(input)
          BY <3>1, <4>1 DEF ListingSql
        <4>3. input.kind = "delta"
          BY <3>2, <3>4, <4>2 DEF Dropped, Inserted
        <4> QED  BY <3>4, <4>2, <4>3 DEF Dropped, Inserted, Renamed
      <3> QED  BY <3>3, <3>4
    <2> QED  BY <2>1, <2>2 DEF PublishingNext, Ingest, Sign, Smoke, NextDay, publishVars
  <1> HIDE DEF Moves
  <1>2. PublishingSpec => [][Moves]_publishVars
    BY <1>1, PublishingInvAlways, PTL DEF PublishingSpec
  <1> QED  BY <1>2 DEF DateStands, Moves

(* A truncated answer of the source cannot unblock most of the list: what  *)
(* the file's own snapshot takes from a browser that holds what was last   *)
(* shipped is at most a third, after at most one ingest (ingest.mjs,       *)
(* MAX_SHRINK).                                                            *)
THEOREM BulkStands == PublishingSpec => LosesAtMostAThird
  <1> DEFINE Holds ==
        publishStep = "signed" /\ input = FromFile /\ unpublished <= 1 /\ follower.entries = shipped =>
            3 * (Cardinality(follower.entries) - Cardinality(follower'.entries))
                <= Cardinality(follower.entries)
  <1>1. PublishingInv /\ [PublishingNext]_publishVars => [Holds]_publishVars
    <2> SUFFICES ASSUME PublishingInv, [PublishingNext]_publishVars,
                        publishStep = "signed", input = FromFile, unpublished <= 1,
                        follower.entries = shipped
                 PROVE  3 * (Cardinality(follower.entries) - Cardinality(follower'.entries))
                            <= Cardinality(follower.entries)
      OBVIOUS
    <2>1. /\ follower.entries \subseteq FeedEntries /\ listFile.entries \subseteq FeedEntries
          /\ IsFiniteSet(FeedEntries)
      BY PublishingAssumption DEF PublishingInv, PublishingTyped, EntryLists
    <2>2. IsFiniteSet(follower.entries) /\ IsFiniteSet(listFile.entries)
      BY <2>1, FS_Subset
    <2>3. Cardinality(follower.entries) \in Nat /\ Cardinality(listFile.entries) \in Nat
      BY <2>2, FS_CardinalityType
    <2>4. CASE follower'.entries = follower.entries
      BY <2>3, <2>4
    <2>5. CASE follower'.entries = listFile.entries
      <3>1. unpublished \in Nat
        BY DEF PublishingInv, PublishingTyped
      <3>2. CASE unpublished = 0
        <4>1. listFile.entries = follower.entries
          BY <3>2 DEF PublishingInv, FileIsNear
        <4> QED  BY <2>3, <2>5, <4>1
      <3>3. CASE unpublished = 1
        <4>1. ~ ShrankTooFar(follower.entries, listFile.entries)
          BY <3>3 DEF PublishingInv, FileIsNear
        <4>2. ~ (3 * (Cardinality(follower.entries) - Cardinality(listFile.entries))
                    > Cardinality(follower.entries))
          BY <4>1 DEF ShrankTooFar
        <4> QED  BY <2>3, <2>5, <4>2
      <3> QED  BY <3>1, <3>2, <3>3
    <2>6. CASE Upload
      <3>1. FromFile.kind = "snapshot" /\ FromFile.entries = listFile.entries
        BY DEF FromFile, NeverPublished
      <3>2. FollowerAccepts(input) => follower'.entries = listFile.entries
        BY <2>6, <3>1 DEF Upload, FollowerApplies
      <3>3. ~ FollowerAccepts(input) => follower' = follower
        BY <2>6 DEF Upload
      <3> QED  BY <2>4, <2>5, <3>2, <3>3
    <2>7. CASE UNCHANGED follower
      BY <2>4, <2>7
    <2> QED  BY <2>6, <2>7 DEF PublishingNext, Ingest, Sign, Smoke, NextDay, publishVars
  <1> HIDE DEF Holds
  <1>2. PublishingSpec => [][Holds]_publishVars
    BY <1>1, PublishingInvAlways, PTL DEF PublishingSpec
  <1> QED  BY <1>2 DEF LosesAtMostAThird, Holds

-----------------------------------------------------------------------------
(* What is kept goes only when its time or somebody's yes has come: the    *)
(* first day of a site, an appeal, the date of a listing, whatever a wipe  *)
(* clears; and the list's own snapshot, at most one ingest after the last  *)
(* publication, lets go of no more than a third of it.                     *)
THEOREM NothingEverGoesEarly ==
    WipeSpec /\ SiteSpec /\ AppealsSpec /\ PublishingSpec => NothingGoesEarly
<1>1. WipeSpec => ClearedAfterYes
  BY ClearedOnlyAfterYes
<1>2. SiteSpec => FirstDayStands
  BY SiteDatesStand
<1>3. AppealsSpec => KeptItsTime
  BY AppealsKeptTheirTime
<1>4. PublishingSpec => DateStands /\ LosesAtMostAThird
  BY DatesStand, BulkStands
<1>5. QED
  BY <1>1, <1>2, <1>3, <1>4 DEF NothingGoesEarly

=============================================================================
