---------------------------- MODULE WipeControls ----------------------------
(***************************************************************************)
(* Exporting and wiping from the owner's page: renderDataControls of       *)
(* ui/settings/data-controls.ts, dataSection and download of               *)
(* options/index.ts, over exportAll and wipeAll of storage/export.ts.      *)
(*                                                                         *)
(* Every store is read or cleared by an await of its own while the worker  *)
(* goes on writing.  Going elsewhere and back replaces the section, and    *)
(* what a run still has to say is then said on one nobody sees.            *)
(***************************************************************************)
EXTENDS Integers, Sequences, FiniteSets

CONSTANTS
    Runs,           \* the wipes to come
    Exports,        \* the exports to come
    MaxSections,    \* bounds how often the section is drawn
    MaxWrites       \* bounds the worker's writes

ASSUME WipeAssumption ==
    IsFiniteSet(Runs) /\ IsFiniteSet(Exports) /\ MaxSections \in Nat \ {0} /\ MaxWrites \in Nat

(* Two of the nine stores, in the order of STORES, and what each holds.    *)
StoreOrder == <<"settings", "reuse">>
StoreNames == {StoreOrder[i] : i \in 1 .. Len(StoreOrder)}
RowsOf == [settings |-> {"reuse:key", "hibp:apiKey", "seen"}, reuse |-> {"tag"}]

VARIABLES
    stores,         \* what each store holds
    writes,         \* how often the worker wrote
    section,        \* the section on screen: its number, confirmation, notes and retry button
    wipes,          \* each wipe
    exports,        \* each export: how far it has read, and how it ended
    repaints,       \* the sections whose wipe succeeded, to be drawn anew
    confirmed       \* history: the sections whose question was answered "yes"

wipeVars == <<stores, writes, section, wipes, exports, repaints, confirmed>>

Drawn(n) == [number |-> n, asking |-> FALSE, wipeNotes |-> {}, exportNotes |-> {}, retry |-> FALSE]
NoWipe == [at |-> 0, on |-> 0, failed |-> {}, cleared |-> {}, outcome |-> "none"]
NoExport == [at |-> 0, on |-> 0, outcome |-> "none"]

WipeTypeOK ==
    /\ \A s \in StoreNames : stores[s] \subseteq RowsOf[s]
    /\ writes \in 0 .. MaxWrites /\ section.number \in 1 .. MaxSections
    /\ \A r \in Runs : wipes[r].outcome \in {"none", "opening", "clearing", "unavailable", "partial", "ok"}
    /\ \A e \in Exports : exports[e].outcome \in {"none", "opening", "reading", "failed", "saved"}
    /\ repaints \subseteq 1 .. MaxSections /\ confirmed \subseteq 1 .. MaxSections

WipeInit ==
    /\ stores = RowsOf /\ writes = 0 /\ section = Drawn(1) /\ wipes = [r \in Runs |-> NoWipe]
    /\ exports = [e \in Exports |-> NoExport] /\ repaints = {} /\ confirmed = {}

-----------------------------------------------------------------------------
(* What a section is told, if it is still the one on screen.               *)
OnScreen(on, told) == section' = IF on = section.number THEN told ELSE section

(* The worker writes a row.                                                *)
WorkerWrites ==
    /\ writes < MaxWrites /\ writes' = writes + 1
    /\ \E s \in StoreNames : \E row \in RowsOf[s] \ stores[s] :
        stores' = [stores EXCEPT ![s] = @ \cup {row}]
    /\ UNCHANGED <<section, wipes, exports, repaints, confirmed>>

(* The section is left and drawn again; or its wipe's reload draws it.     *)
DrawAgain ==
    /\ section.number < MaxSections /\ section' = Drawn(section.number + 1)
    /\ repaints' = repaints \ {section.number}
    /\ UNCHANGED <<stores, writes, wipes, exports, confirmed>>

(* askFirst: one question at a time; "no" takes it away.                   *)
AskFirst ==
    /\ ~ section.asking /\ section' = [section EXCEPT !.asking = TRUE]
    /\ UNCHANGED <<stores, writes, wipes, exports, repaints, confirmed>>

AnswerNo ==
    /\ section.asking /\ section' = [section EXCEPT !.asking = FALSE]
    /\ UNCHANGED <<stores, writes, wipes, exports, repaints, confirmed>>

(* run: the question goes, and the database is opened.                     *)
RunStarts(r) ==
    /\ wipes[r].outcome = "none"
    /\ wipes' = [wipes EXCEPT ![r] = [NoWipe EXCEPT !.outcome = "opening", !.on = section.number]]
    /\ section' = [section EXCEPT !.asking = FALSE]
    /\ UNCHANGED <<stores, writes, exports, repaints>>

AnswerYes(r) == section.asking /\ RunStarts(r) /\ confirmed' = confirmed \cup {section.number}
RetryAlways(r) == RunStarts(r) /\ UNCHANGED confirmed
PressRetry(r) == section.retry /\ RunStarts(r) /\ UNCHANGED confirmed

Appended(notes, note) == notes \cup {note}
(* note: one slot per role, replaced once the answer is known.             *)
Slot(notes, note) == {note}

(* A wipe that never began names no store, and is not a partial one.       *)
OpenFails(r) ==
    /\ wipes[r].outcome = "opening"
    /\ wipes' = [wipes EXCEPT ![r].outcome = "unavailable"]
    /\ OnScreen(wipes[r].on,
                [section EXCEPT !.wipeNotes = Slot(@, [said |-> "unavailable", stores |-> {}]), !.retry = TRUE])
    /\ UNCHANGED <<stores, writes, exports, repaints, confirmed>>

Opens(r) ==
    /\ wipes[r].outcome = "opening"
    /\ wipes' = [wipes EXCEPT ![r].outcome = "clearing", ![r].at = 1]
    /\ UNCHANGED <<stores, writes, section, exports, repaints, confirmed>>

SaidNothing(failed, store) == failed
(* The catch of wipeAll: the failure is collected.                         *)
Collected(failed, store) == failed \cup {store}

(* wipeAll: each store on its own, whatever became of the others.          *)
ClearStore(r) ==
    /\ wipes[r].outcome = "clearing" /\ wipes[r].at <= Len(StoreOrder)
    /\ LET s == StoreOrder[wipes[r].at] IN
        \/ /\ stores' = [stores EXCEPT ![s] = {}]
           /\ wipes' = [wipes EXCEPT ![r].at = @ + 1, ![r].cleared = @ \cup {s}]
        \/ /\ UNCHANGED stores
           /\ wipes' = [wipes EXCEPT ![r].at = @ + 1, ![r].failed = Collected(@, s)]
    /\ UNCHANGED <<writes, section, exports, repaints, confirmed>>

WipeEnds(r) ==
    /\ wipes[r].outcome = "clearing" /\ wipes[r].at > Len(StoreOrder)
    /\ IF wipes[r].failed = {}
       THEN /\ wipes' = [wipes EXCEPT ![r].outcome = "ok"]
            /\ OnScreen(wipes[r].on, [section EXCEPT !.wipeNotes = {}, !.retry = FALSE])
            /\ repaints' = repaints \cup {wipes[r].on}
       ELSE /\ wipes' = [wipes EXCEPT ![r].outcome = "partial"]
            /\ OnScreen(wipes[r].on,
                 [section EXCEPT !.retry = TRUE,
                                 !.wipeNotes = Slot(@, [said |-> "partial", stores |-> wipes[r].failed])])
            /\ UNCHANGED repaints
    /\ UNCHANGED <<stores, writes, exports, confirmed>>

-----------------------------------------------------------------------------
PressExport(e) ==
    /\ exports[e].outcome = "none"
    /\ exports' = [exports EXCEPT ![e] = [NoExport EXCEPT !.outcome = "opening", !.on = section.number]]
    /\ UNCHANGED <<stores, writes, section, wipes, repaints, confirmed>>

(* exportAll: store after store, whatever is written between two reads.    *)
ReadNext(e) ==
    /\ \/ exports[e].outcome = "opening"
       \/ exports[e].outcome = "reading" /\ exports[e].at < Len(StoreOrder)
    /\ exports' = [exports EXCEPT ![e] = [exports[e] EXCEPT !.outcome = "reading", !.at = @ + 1]]
    /\ UNCHANGED <<stores, writes, section, wipes, repaints, confirmed>>

ExportEnds(e) ==
    /\ exports[e].outcome = "reading" /\ exports[e].at = Len(StoreOrder)
    /\ exports' = [exports EXCEPT ![e].outcome = "saved"]
    /\ OnScreen(exports[e].on, [section EXCEPT !.exportNotes = {}])
    /\ UNCHANGED <<stores, writes, wipes, repaints, confirmed>>

(* Whatever went wrong, the person is owed the sentence.                   *)
ExportFails(e) ==
    /\ exports[e].outcome \in {"opening", "reading"}
    /\ exports' = [exports EXCEPT ![e].outcome = "failed"]
    /\ OnScreen(exports[e].on, [section EXCEPT !.exportNotes = Slot(@, [said |-> "failed", stores |-> {}])])
    /\ UNCHANGED <<stores, writes, wipes, repaints, confirmed>>

WipeNext ==
    \/ WorkerWrites \/ DrawAgain \/ AskFirst \/ AnswerNo
    \/ \E r \in Runs : AnswerYes(r) \/ PressRetry(r) \/ OpenFails(r) \/ Opens(r) \/ ClearStore(r) \/ WipeEnds(r)
    \/ \E e \in Exports : PressExport(e) \/ ReadNext(e) \/ ExportEnds(e) \/ ExportFails(e)

WipeSpec == WipeInit /\ [][WipeNext]_wipeVars

-----------------------------------------------------------------------------
(* "A wipe that half-worked and returned success is worse than one that    *)
(* failed outright" (export.ts:99-101): one that says it is done cleared   *)
(* every store, and on the screen it was asked from one that is not done   *)
(* never ends in silence, unless another there succeeded meanwhile.        *)
DoneMeansGone ==
    \A r \in Runs :
        /\ wipes[r].outcome = "ok" => wipes[r].cleared = StoreNames
        /\ wipes[r].outcome \in {"partial", "unavailable"} /\ wipes[r].on = section.number =>
               section.wipeNotes # {} \/ \E q \in Runs \ {r} : wipes[q].outcome = "ok" /\ wipes[q].on = section.number

(* "They will double-click, and the screen must hold one answer"           *)
(* (data-controls.ts:118-126), with the retry offered exactly under it.    *)
OneAnswer ==
    /\ Cardinality(section.wipeNotes) <= 1 /\ Cardinality(section.exportNotes) <= 1
    /\ section.retry <=> section.wipeNotes # {}

(* "Wiping asks once" (data-controls.ts:6-8): nothing is cleared from a    *)
(* section where the question was not answered "yes".                      *)
ClearedAfterYes ==
    [][\A r \in Runs : wipes'[r].cleared # wipes[r].cleared => wipes[r].on \in confirmed]_wipeVars

(* What the controls say is what was done, once.                           *)
WipeSaysWhatItDid == WipeTypeOK /\ DoneMeansGone /\ OneAnswer
=============================================================================
