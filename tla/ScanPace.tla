------------------------------ MODULE ScanPace ------------------------------
(***************************************************************************)
(* How often a page is scanned, and what becomes of a scan: createPacer of *)
(* content/pace.ts, the scans it runs (scan of content/index.ts), failOpen *)
(* and createJournalOnce.                                                  *)
(*                                                                         *)
(* Time runs in ticks of one debounce, RESCAN_DEBOUNCE_MS; a timer may     *)
(* fire late.  Several scans may be with the worker at once, and their     *)
(* answers come in any order, or not as an answer.                         *)
(***************************************************************************)
EXTENDS Integers, Sequences, SequencesExt, FiniteSets

CONSTANTS
    Window,        \* WINDOW_MS, in ticks
    MaxRescans,    \* MAX_RESCANS_PER_SECOND
    Causes,        \* what a failed scan may say went wrong
    MaxChanges     \* bound: changes of the page

NoTimer == -1
Debounce == 1
Finds == {"nothing", "blinded", "something"}
Facts == Causes \cup {"blinded"}

ASSUME ScanPaceAssumption ==
    /\ Window \in Nat \ {0} /\ MaxRescans \in Nat \ {0} /\ MaxChanges \in Nat
    /\ "blinded" \notin Causes

VARIABLES
    domVersion,   \* how often the page has changed
    hides,        \* what a walk of it would find now
    armedIn,      \* ticks until the pacer's timer is due, or NoTimer
    recent,       \* how long ago each remembered run was, oldest first
    ranAges,      \* history: the same of every run of the window
    lastRun,      \* history: the version the last scan walked
    asking,       \* versions whose scan waits for the worker
    shownVersion,        \* the version the page's verdicts are about, or -1
    newest,       \* history: the newest version whose verdicts have come
    overtaken,    \* history: an older scan has answered after a newer one
    recording,    \* facts on their way to the journal
    remembered,   \* the facts journal-once holds to be written
    factRows,     \* rows of the journal, per fact
    excused       \* history: facts recorded twice at once, or whose answer was lost

paceVars == <<domVersion, hides, armedIn, recent, ranAges, lastRun, asking, shownVersion, newest,
              overtaken, recording, remembered, factRows, excused>>
journalVars == <<recording, remembered, factRows, excused>>

ScanPaceTypeOK ==
    /\ domVersion \in 0 .. MaxChanges /\ hides \in Finds
    /\ armedIn \in {NoTimer} \cup 0 .. Window
    /\ Len(recent) <= MaxRescans /\ \A i \in 1 .. Len(recent) : recent[i] \in 0 .. Window
    /\ asking \subseteq 0 .. MaxChanges
    /\ lastRun \in 0 .. MaxChanges /\ shownVersion \in -1 .. MaxChanges /\ newest \in -1 .. MaxChanges /\ overtaken \in BOOLEAN
    /\ \A i \in 1 .. Len(recording) : recording[i] \in Facts
    /\ remembered \subseteq Facts /\ excused \subseteq Facts
    /\ factRows \in [Facts -> Nat]

-----------------------------------------------------------------------------
(* journal.record: written once, remembered only when it was.              *)

RecordsOf(fact) == Cardinality({i \in 1 .. Len(recording) : recording[i] = fact})

Record(fact) ==
    IF fact \in remembered THEN UNCHANGED journalVars
    ELSE /\ recording' = Append(recording, fact)
         /\ excused' = IF RecordsOf(fact) > 0 THEN excused \cup {fact} ELSE excused
         /\ UNCHANGED <<remembered, factRows>>

Remembered(fact, ends) == IF ends = "written" THEN remembered \cup {fact} ELSE remembered

(* The worker writes the row and says so, or writes it and the answer is   *)
(* lost, or does not write it.                                             *)
RecordEnds(i) ==
    /\ i \in 1 .. Len(recording)
    /\ \E ends \in {"written", "unanswered", "refused"} :
           LET fact == recording[i] IN
           /\ factRows' = IF ends = "refused" THEN factRows ELSE [factRows EXCEPT ![fact] = @ + 1]
           /\ remembered' = Remembered(fact, ends)
           /\ excused' = IF ends = "unanswered" THEN excused \cup {fact} ELSE excused
    /\ recording' = RemoveAt(recording, i)
    /\ UNCHANGED <<domVersion, hides, armedIn, recent, ranAges, lastRun, asking, shownVersion, newest, overtaken>>

-----------------------------------------------------------------------------
(* scan: the walk is one step; a page that hides something is asked about, *)
(* one that stopped the walk is noted, and an empty one leaves the last    *)
(* verdicts standing.                                                      *)
RunScan ==
    /\ lastRun' = domVersion
    /\ asking' = IF hides = "something" THEN asking \cup {domVersion} ELSE asking
    /\ IF hides = "blinded" THEN Record("blinded") ELSE UNCHANGED journalVars

ScanPaceInit ==
    /\ domVersion = 0 /\ hides = "something"
    /\ armedIn = NoTimer /\ recent = <<>> /\ ranAges = <<>>
    /\ lastRun = 0 /\ asking = {0}
    /\ shownVersion = -1 /\ newest = -1 /\ overtaken = FALSE
    /\ recording = <<>> /\ remembered = {} /\ excused = {}
    /\ factRows = [fact \in Facts |-> 0]

Verdicts(version) == version

(* Whichever answer comes last is what the page shows.                     *)
Answered(version) ==
    /\ version \in asking
    /\ asking' = asking \ {version}
    /\ \/ /\ shownVersion' = Verdicts(version)
          /\ newest' = IF version > newest THEN version ELSE newest
          /\ overtaken' = (overtaken \/ version < newest)
       \/ UNCHANGED <<shownVersion, newest, overtaken>>            \* no verdict
    /\ UNCHANGED <<domVersion, hides, armedIn, recent, ranAges, lastRun, journalVars>>

(* failOpen: swallowed, and put on record once per cause.                  *)
ScanFails(version) ==
    /\ version \in asking
    /\ asking' = asking \ {version}
    /\ \E cause \in Causes : Record(cause)
    /\ UNCHANGED <<domVersion, hides, armedIn, recent, ranAges, lastRun, shownVersion, newest, overtaken>>

-----------------------------------------------------------------------------
(* createPacer.                                                            *)

Armed(delay) == IF armedIn = NoTimer THEN delay ELSE armedIn

(* request, by the mutation observer.                                      *)
PageChanges ==
    /\ domVersion < MaxChanges
    /\ domVersion' = domVersion + 1
    /\ hides' \in Finds
    /\ armedIn' = Armed(Debounce)
    /\ UNCHANGED <<recent, ranAges, lastRun, asking, shownVersion, newest, overtaken, journalVars>>

(* The oldest come first, so what has left the window is a beginning.      *)
InWindow(ages) ==
    SubSeq(ages, Cardinality({i \in 1 .. Len(ages) : ages[i] >= Window}) + 1, Len(ages))

Dropped(ages) == NoTimer
WhenAffordable(ages) == Window - Head(ages)

Fire ==
    /\ armedIn = 0
    /\ LET kept == InWindow(recent) IN
       IF Len(kept) >= MaxRescans
         THEN /\ armedIn' = WhenAffordable(kept) /\ recent' = kept
              /\ UNCHANGED <<ranAges, lastRun, asking, journalVars>>
         ELSE /\ armedIn' = NoTimer /\ recent' = Append(kept, 0)
              /\ ranAges' = Append(ranAges, 0)
              /\ RunScan
    /\ UNCHANGED <<domVersion, hides, shownVersion, newest, overtaken>>

Older(ages) == [i \in 1 .. Len(ages) |-> IF ages[i] < Window THEN ages[i] + 1 ELSE Window]

Tick ==
    /\ armedIn > 0 \/ \E i \in 1 .. Len(recent) : recent[i] < Window
    /\ armedIn' = IF armedIn > 0 THEN armedIn - 1 ELSE armedIn
    /\ recent' = Older(recent)
    /\ ranAges' = InWindow(Older(ranAges))
    /\ UNCHANGED <<domVersion, hides, lastRun, asking, shownVersion, newest, overtaken, journalVars>>

ScanPaceNext ==
    \/ PageChanges \/ Fire \/ Tick
    \/ \E version \in asking : Answered(version) \/ ScanFails(version)
    \/ \E i \in 1 .. Len(recording) : RecordEnds(i)

(* Time passes and a due timer is run; the worker need not answer.         *)
ScanPaceFairness == WF_paceVars(Tick) /\ WF_paceVars(Fire)

ScanPaceSpec == ScanPaceInit /\ [][ScanPaceNext]_paceVars /\ ScanPaceFairness

-----------------------------------------------------------------------------
(* The pace: no window of one second holds more than MaxRescans scans,     *)
(* however the changes fall and however late the timers are.               *)
PaceKept == Len(ranAges) <= MaxRescans

(* Deferred, never dropped: a change that has not been walked has a timer  *)
(* armed for it (pace.ts:11-16, the version that dropped it).              *)
ChangeIsOwed == lastRun < domVersion => armedIn # NoTimer

(* ... and the page's final state is examined.                             *)
FinalStateExamined == []<>(lastRun = domVersion)

(* The page shows the newest verdicts that have come, unless an older scan *)
(* answered after them: nothing orders the answers.                        *)
StaleOnlyByOvertaking == shownVersion = newest \/ overtaken

(* A fact is on record once, unless two scans recorded it at once or the   *)
(* worker's answer was lost; and what is remembered as written is there    *)
(* (journal-once.ts:20-23, "Remembered on success only").                  *)
OneRowPerFact == \A fact \in Facts : factRows[fact] > 1 => fact \in excused
RememberedIsWritten == \A fact \in remembered : factRows[fact] > 0

(* Between a change of the page and its line in the journal nothing is     *)
(* dropped, doubled or put behind something older, but for the overtaking  *)
(* and the lost answers nothing orders.                                    *)
ChangesAreExamined ==
    /\ ScanPaceTypeOK /\ PaceKept /\ ChangeIsOwed /\ StaleOnlyByOvertaking
    /\ OneRowPerFact /\ RememberedIsWritten
=============================================================================
