----------------------------- MODULE Collector -----------------------------
(***************************************************************************)
(* The walk that collects what a page hides: collect of content/collect.ts *)
(* and the part of scan (content/index.ts) that decides what an empty      *)
(* collection means.                                                       *)
(*                                                                         *)
(* A page is the number of its comments that say something, and the        *)
(* elements in document order, each a sequence of carriers in the order    *)
(* the walk reads them.  Two walks share one node budget and one candidate *)
(* ceiling; the clock may end either at any node.                          *)
(***************************************************************************)
EXTENDS Integers, Sequences, SequencesExt, FiniteSets

CONSTANTS
    Pages,          \* [comments, elements]
    MaxNodes, MaxCandidates

Carriers == {"attribute", "meta", "data-attr", "template", "json-ld", "text-node"}

ASSUME CollectorAssumption ==
    /\ MaxNodes \in Nat /\ MaxCandidates \in Nat
    /\ \A p \in Pages : p.comments \in Nat /\ p.elements \in Seq(Seq(Carriers))

NoPage == [comments |-> 0, elements |-> <<>>]

VARIABLES
    scanned,        \* the page under the walk
    collectWalk,    \* before, comments, elements, done
    passed,         \* how many comments, or elements, the walk has come to
    carriersRead,   \* how many carriers of the last of these elements were read
    nodeCount, found, truncated,
    outOfTime,      \* history: the clock ended a walk
    commentsCut     \* history: the comments were not read to their end

collectorVars == <<scanned, collectWalk, passed, carriersRead, nodeCount, found, truncated,
                   outOfTime, commentsCut>>

Candidate(carrier, where) == [carrier |-> carrier, where |-> where]

CollectorTypeOK ==
    /\ scanned \in Pages \cup {NoPage}
    /\ collectWalk \in {"before", "comments", "elements", "done"}
    /\ passed \in Nat /\ carriersRead \in Nat
    /\ nodeCount \in 0 .. MaxNodes + 2
    /\ Len(found) <= MaxCandidates
    /\ \A i \in 1 .. Len(found) : found[i].carrier \in Carriers \cup {"html-comment"}
    /\ truncated \in BOOLEAN /\ outOfTime \in BOOLEAN /\ commentsCut \in BOOLEAN

CollectorInit ==
    /\ scanned = NoPage /\ collectWalk = "before" /\ passed = 0 /\ carriersRead = 0
    /\ nodeCount = 0 /\ found = <<>> /\ truncated = FALSE
    /\ outOfTime = FALSE /\ commentsCut = FALSE

-----------------------------------------------------------------------------
RefusedSilently(state, carrier, where) ==
    IF Len(state.found) >= MaxCandidates THEN state
    ELSE [state EXCEPT !.found = Append(@, Candidate(carrier, where))]

(* add: a candidate, or a refusal that says the scan was cut short.        *)
AddCandidate(state, carrier, where) ==
    IF Len(state.found) >= MaxCandidates THEN [state EXCEPT !.truncated = TRUE]
    ELSE [state EXCEPT !.found = Append(@, Candidate(carrier, where))]

(* The data attributes are not read once the scan is cut short.            *)
Skipped(state, carrier) == carrier = "data-attr" /\ state.truncated

Examine(state, carrier, where) ==
    IF Skipped(state, carrier) THEN state ELSE AddCandidate(state, carrier, where)

HalfShare(limit) == limit \div 2

OutOfBudget(nodes, nodeLimit, candidateLimit) ==
    nodes >= nodeLimit \/ Len(found) >= candidateLimit

Collected == [found |-> found, truncated |-> truncated]
CollectedBecomes(state) == found' = state.found /\ truncated' = state.truncated

StartWalk ==
    /\ collectWalk = "before"
    /\ collectWalk' = "comments"
    /\ scanned' \in Pages
    /\ UNCHANGED <<passed, carriersRead, nodeCount, found, truncated, outOfTime, commentsCut>>

(* Empty comments are passed without counting, so none is in the page.     *)
VisitComment ==
    /\ collectWalk = "comments" /\ passed < scanned.comments
    /\ nodeCount' = nodeCount + 1
    /\ ~ OutOfBudget(nodeCount', HalfShare(MaxNodes), HalfShare(MaxCandidates))
    /\ passed' = passed + 1
    /\ CollectedBecomes(AddCandidate(Collected, "html-comment", passed'))
    /\ UNCHANGED <<scanned, collectWalk, carriersRead, outOfTime, commentsCut>>

LeaveComments ==
    /\ collectWalk = "comments"
    /\ \/ /\ passed = scanned.comments
          /\ UNCHANGED <<nodeCount, truncated, outOfTime, commentsCut>>
       \/ (* Over its share, or over its time.                             *)
          /\ passed < scanned.comments
          /\ nodeCount' = nodeCount + 1 /\ truncated' = TRUE /\ commentsCut' = TRUE
          /\ outOfTime' = ~ OutOfBudget(nodeCount', HalfShare(MaxNodes), HalfShare(MaxCandidates))
    /\ collectWalk' = "elements" /\ passed' = 0
    /\ UNCHANGED <<scanned, carriersRead, found>>

ElementRead == passed # 0 => carriersRead = Len(scanned.elements[passed])

VisitElement ==
    /\ collectWalk = "elements" /\ ElementRead /\ passed < Len(scanned.elements)
    /\ nodeCount' = nodeCount + 1
    /\ ~ OutOfBudget(nodeCount', MaxNodes, MaxCandidates)
    /\ passed' = passed + 1 /\ carriersRead' = 0
    /\ UNCHANGED <<scanned, collectWalk, found, truncated, outOfTime, commentsCut>>

(* The carriers of an element one by one; no clock is read between them.   *)
ReadCarrier ==
    /\ collectWalk = "elements" /\ ~ ElementRead
    /\ carriersRead' = carriersRead + 1
    /\ CollectedBecomes(Examine(Collected, scanned.elements[passed][carriersRead'], passed))
    /\ UNCHANGED <<scanned, collectWalk, passed, nodeCount, outOfTime, commentsCut>>

LeaveElements ==
    /\ collectWalk = "elements" /\ ElementRead
    /\ \/ /\ passed = Len(scanned.elements)
          /\ UNCHANGED <<nodeCount, truncated, outOfTime>>
       \/ /\ passed < Len(scanned.elements)
          /\ nodeCount' = nodeCount + 1 /\ truncated' = TRUE
          /\ outOfTime' = (outOfTime \/ ~ OutOfBudget(nodeCount', MaxNodes, MaxCandidates))
    /\ collectWalk' = "done"
    /\ UNCHANGED <<scanned, passed, carriersRead, found, commentsCut>>

CollectorNext ==
    \/ StartWalk \/ VisitComment \/ LeaveComments
    \/ VisitElement \/ ReadCarrier \/ LeaveElements

CollectorSpec == CollectorInit /\ [][CollectorNext]_collectorVars

(* What the scan does with it: ask the worker, note that it was blinded,   *)
(* or nothing.                                                             *)
ScanOutcome == CASE found # <<>>              -> "asks"
             [] found = <<>> /\ truncated -> "blinded"
             [] OTHER                     -> "nothing"

-----------------------------------------------------------------------------
CarriedByThePage ==
    {Candidate("html-comment", i) : i \in 1 .. scanned.comments}
        \cup UNION {{Candidate(scanned.elements[i][j], i) : j \in 1 .. Len(scanned.elements[i])} :
                        i \in 1 .. Len(scanned.elements)}

(* A scan that does not say it was cut short has missed nothing: every     *)
(* carrier of the page is among the candidates, so "nothing" is only said  *)
(* of a page that hides nothing (collect.ts:115-118).                      *)
CompleteUnlessTruncated ==
    collectWalk = "done" /\ ~ truncated =>
        /\ ToSet(found) = CarriedByThePage
        /\ ScanOutcome = "nothing" <=> CarriedByThePage = {}

(* What the comments may spend of the others' allowance.  However many     *)
(* there are, an element within half the node budget whose carriers, with  *)
(* those before it, fit in half the candidate ceiling is read, unless the  *)
(* clock ran out: all but its data attributes, which nobody reads once the *)
(* comments were cut short (collect.ts:187), where collect.ts:97-99 says   *)
(* that no kind of carrier may spend what is meant for the others.         *)
CarriersOf(i) == {<<i, j>> : j \in 1 .. Len(scanned.elements[i])}
CarriersUpTo(i) == Cardinality(UNION {CarriersOf(k) : k \in 1 .. i})

Affordable(i) ==
    /\ i < MaxNodes - MaxNodes \div 2
    /\ CarriersUpTo(i) <= MaxCandidates - MaxCandidates \div 2

SparedCarriers(i) == ToSet(scanned.elements[i]) \ (IF commentsCut THEN {"data-attr"} ELSE {})

ElementsNotStarved ==
    collectWalk = "done" =>
        /\ ~ outOfTime =>
               \A i \in 1 .. Len(scanned.elements) : Affordable(i) =>
                   \A c \in SparedCarriers(i) : Candidate(c, i) \in ToSet(found)
        /\ commentsCut => \A c \in ToSet(found) : c.carrier # "data-attr"

(* What a scan says of a page: "nothing", or less than all, never without  *)
(* saying so; and what the comments may keep from being read.              *)
ScanMissesNothing ==
    /\ CollectorTypeOK /\ CompleteUnlessTruncated /\ ElementsNotStarved
=============================================================================
