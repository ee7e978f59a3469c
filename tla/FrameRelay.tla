----------------------------- MODULE FrameRelay -----------------------------
(***************************************************************************)
(* An embedded frame telling the page that embeds it what it found:        *)
(* reportToEmbeddingPage of content/report-frame.ts, the worker's relay    *)
(* (relayFrameFinding of background/index.ts) and the listener of the top  *)
(* frame.  The page may not have loaded yet, and either hop may fail.      *)
(***************************************************************************)
EXTENDS Integers, Sequences

CONSTANTS
    Attempts,      \* REPORT_ATTEMPTS
    MaxReloads     \* bound: reloads of the embedding page

ASSUME FrameRelayAssumption == Attempts \in Nat \ {0} /\ MaxReloads \in Nat

VARIABLES
    listening,    \* the top frame's content script has started
    reporting,    \* quiet, asking, giving-up, answering, waiting, over
    attempt,      \* how many reports the frame has sent
    carried,      \* what the worker will answer: delivered or not
    told,         \* how often the top frame was told
    gaveUp,       \* the note: none, written, refused
    believed,     \* what the frame took for the outcome
    reloads,
    answersLost   \* history: answers that told of a delivery and were lost

frameVars == <<listening, reporting, attempt, carried, told, gaveUp, believed, reloads,
               answersLost>>

FrameRelayTypeOK ==
    /\ listening \in BOOLEAN /\ carried \in BOOLEAN /\ believed \in {"unknown", "told", "unheard"}
    /\ reporting \in {"quiet", "asking", "giving-up", "answering", "waiting", "over"}
    /\ attempt \in 0 .. Attempts /\ told \in 0 .. Attempts
    /\ gaveUp \in {"none", "written", "refused"} /\ reloads \in 0 .. MaxReloads
    /\ answersLost \in 0 .. Attempts

FrameRelayInit ==
    /\ listening = FALSE /\ reporting = "quiet" /\ attempt = 0 /\ carried = FALSE
    /\ told = 0 /\ gaveUp = "none" /\ believed = "unknown" /\ reloads = 0
    /\ answersLost = 0

(* The embedding page loads, and may be reloaded.                          *)
ParentStarts ==
    /\ ~ listening
    /\ listening' = TRUE
    /\ UNCHANGED <<reporting, attempt, carried, told, gaveUp, believed, reloads, answersLost>>

ParentReloads ==
    /\ listening /\ reloads < MaxReloads
    /\ listening' = FALSE /\ reloads' = reloads + 1
    /\ UNCHANGED <<reporting, attempt, carried, told, gaveUp, believed, answersLost>>

Report ==
    /\ reporting \in {"quiet", "waiting"}
    /\ attempt < Attempts
    /\ attempt' = attempt + 1
    /\ reporting' = "asking"
    /\ UNCHANGED <<listening, carried, told, gaveUp, believed, reloads, answersLost>>

(* relayFrameFinding: the worker may be unreachable, which relay swallows; *)
(* the top frame hears it only if it listens.                              *)
Relay ==
    /\ reporting = "asking"
    /\ \/ /\ told' = IF listening THEN told + 1 ELSE told
          /\ carried' = listening
          /\ reporting' = "answering"
       \/ UNCHANGED told /\ carried' = FALSE /\ reporting' = "answering"
    /\ UNCHANGED <<listening, attempt, gaveUp, believed, reloads, answersLost>>

(* The answer reaches the frame, or is lost and counts as undelivered.     *)
AnyAnswer(heard) == TRUE
Delivered(heard) == heard /\ carried

AfterFailure == IF attempt < Attempts THEN "waiting" ELSE "giving-up"

Answer ==
    /\ reporting = "answering"
    /\ \E heard \in BOOLEAN :
           /\ answersLost' = IF carried /\ ~ heard THEN answersLost + 1 ELSE answersLost
           /\ IF Delivered(heard)
                THEN reporting' = "over" /\ believed' = "told"
                ELSE reporting' = AfterFailure /\ UNCHANGED believed
    /\ UNCHANGED <<listening, attempt, carried, told, gaveUp, reloads>>

(* giveUp: one note; where it is refused too, nobody is told.              *)
GiveUp ==
    /\ reporting = "giving-up"
    /\ gaveUp' \in {"written", "refused"}
    /\ reporting' = "over" /\ believed' = "unheard"
    /\ UNCHANGED <<listening, attempt, carried, told, reloads, answersLost>>

FrameRelayNext ==
    ParentStarts \/ ParentReloads \/ Report \/ Relay \/ Answer \/ GiveUp

FrameRelayFairness ==
    WF_frameVars(Report) /\ WF_frameVars(Relay) /\ WF_frameVars(Answer) /\ WF_frameVars(GiveUp)

FrameRelaySpec == FrameRelayInit /\ [][FrameRelayNext]_frameVars /\ FrameRelayFairness

-----------------------------------------------------------------------------
(* A frame stops unheard and silent in one case: every attempt went        *)
(* unheard, and the note that says so was refused as well, which nobody    *)
(* hears of (report-frame.ts:40, 74-75).  What it believes is what         *)
(* happened, but that answers which told of a delivery may be lost: then   *)
(* it takes itself for unheard, and each time the page was told is one.    *)
Mute == told = 0 /\ gaveUp # "written"

HeardOrSaidSo ==
    reporting = "over" =>
        /\ believed = "told" => told > 0
        /\ believed = "unheard" => attempt = Attempts /\ gaveUp # "none" /\ told = answersLost
        /\ Mute => attempt = Attempts /\ gaveUp = "refused"

(* The page is told twice of one finding only when an answer was lost.     *)
ToldOncePerAnswer == told <= 1 + answersLost

(* The report always ends: a frame that will never be heard keeps no timer *)
(* for the life of the tab (report-frame.ts:55-57).                        *)
ReportEnds == (reporting = "asking") ~> (reporting = "over")

(* A frame that stops was heard by the page, or its note is in the         *)
(* journal, or that note was refused after every attempt; and the page is  *)
(* told again only where an answer was lost.                               *)
ReportsAreHeard == FrameRelayTypeOK /\ HeardOrSaidSo /\ ToldOncePerAnswer
=============================================================================
