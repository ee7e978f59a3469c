----------------------------- MODULE Sanitiser -----------------------------
(***************************************************************************)
(* Emptying what a page hides, reversibly: Sanitiser of content/sanitize.ts,*)
(* planSanitisation of core-sanitizer, and the locators of collect.ts that *)
(* name the elements between the two.                                      *)
(*                                                                         *)
(* A scan names elements by where they stood; the answer comes back to a   *)
(* page that may have moved them, removed them, put others in their place, *)
(* or written into what was emptied.  The elements are siblings of one tag;*)
(* what an element holds is the set of the pieces the page wrote into it.  *)
(***************************************************************************)
EXTENDS Integers, Sequences, SequencesExt, FiniteSets

CONSTANTS
    Nodes,        \* elements of the page, attached or not
    IdOf,         \* their id attributes, NoId for none
    NoId,
    FirstPage,    \* the elements attached when the page was loaded
    Hiding,       \* the elements whose first text is a hidden instruction
    MaxMoves,     \* bound: what the page does to its elements
    MaxPlans,     \* bound: scans
    MaxRestores   \* bound: presses of Restore

ASSUME SanitiserAssumption ==
    /\ IsFiniteSet(Nodes) /\ FirstPage \in Seq(Nodes) /\ IsInjective(FirstPage)
    /\ Hiding \subseteq Nodes /\ NoId \notin Nodes /\ DOMAIN IdOf = Nodes
    /\ MaxMoves \in Nat /\ MaxPlans \in Nat /\ MaxRestores \in Nat

VARIABLES
    attached,    \* the elements of the document, in order
    text,        \* per element: the pieces it holds, by when they were written
    owed,        \* history: the pieces the page wrote and has not removed itself
    held,        \* per element: "nothing", or the pieces taken out of it
    marked,      \* the elements that carry the marker
    plans,       \* scans whose answers have not come: [locators, moves]
    moves, scansMade, restores,
    applied,     \* the count the last apply returned, and what it was about
    refusal,     \* what the last restore answered: [restored, gone, changed]
    strays       \* history: elements emptied for another, and the page's moves since

sanitiserVars == <<attached, text, owed, held, marked, plans, moves, scansMade, restores,
                   applied, refusal, strays>>

NotHeld == {-1}
Pieces == 0 .. MaxMoves
NoCount == [count |-> 0, emptied |-> 0, drifted |-> FALSE]
NoAnswerYet == [restored |-> 0, gone |-> 0, changed |-> 0]
HeldNodes == {n \in Nodes : held[n] # NotHeld}
Attached(n) == n \in ToSet(attached)

SanitiserTypeOK ==
    /\ attached \in Seq(Nodes) /\ IsInjective(attached)
    /\ \A n \in Nodes : text[n] \subseteq Pieces /\ owed[n] \subseteq Pieces
    /\ \A n \in Nodes : held[n] \subseteq Pieces \/ held[n] = NotHeld
    /\ marked \subseteq Nodes
    /\ moves \in 0 .. MaxMoves /\ scansMade \in 0 .. MaxPlans /\ restores \in 0 .. MaxRestores
    /\ refusal.restored + refusal.gone + refusal.changed <= Cardinality(Nodes)

SanitiserInit ==
    /\ attached = FirstPage
    /\ text = [n \in Nodes |-> IF n \in Hiding THEN {0} ELSE {}]
    /\ owed = text
    /\ held = [n \in Nodes |-> NotHeld] /\ marked = {} /\ plans = <<>>
    /\ moves = 0 /\ scansMade = 0 /\ restores = 0
    /\ applied = NoCount /\ refusal = NoAnswerYet /\ strays = {}

-----------------------------------------------------------------------------
(* locatorFor: an id that names one element, or the place among siblings.  *)

WithId(id) == {n \in ToSet(attached) : IdOf[n] = id}
NamesOneElement(n) == IdOf[n] # NoId /\ WithId(IdOf[n]) = {n}
PlaceOf(n) == CHOOSE i \in 1 .. Len(attached) : attached[i] = n

Locator(by, name) == [by |-> by, name |-> name]

LocatorFor(n) ==
    IF NamesOneElement(n) THEN Locator("id", IdOf[n]) ELSE Locator("place", PlaceOf(n))

(* #find: the one element the locator names now, or none.                  *)
Matches(locator) ==
    {n \in ToSet(attached) :
        \/ locator.by = "id" /\ IdOf[n] = locator.name
        \/ locator.by = "place" /\ PlaceOf(n) = locator.name}
Find(locator) == IF Cardinality(Matches(locator)) = 1 THEN Matches(locator) ELSE {}

(* collect and planSanitisation: each locator of a hidden instruction once. *)
Scan ==
    /\ scansMade < MaxPlans
    /\ scansMade' = scansMade + 1
    /\ LET hiding == {n \in ToSet(attached) \cap Hiding : text[n] # {}} IN
           plans' = Append(plans, [targets |-> {<<LocatorFor(n), n>> : n \in hiding},
                                   moves |-> moves])
    /\ UNCHANGED <<attached, text, owed, held, marked, moves, restores, applied, refusal, strays>>

-----------------------------------------------------------------------------
(* apply, on what the answer of the i-th scan names now.  An element that  *)
(* is held and has been written into is not touched and not counted.       *)

Targets(plan) == UNION {Find(target[1]) : target \in plan.targets}

Counted(plan) == {n \in Targets(plan) : n \notin HeldNodes \/ text[n] = {}}

Recaptured(plan) == Targets(plan)
Captured(plan) == Targets(plan) \ HeldNodes

CountOf(plan) ==
    Cardinality({target \in plan.targets : Find(target[1]) \cap Counted(plan) # {}})

Apply(i) ==
    /\ i \in 1 .. Len(plans)
    /\ LET plan == plans[i] IN
       /\ held' = [n \in Nodes |-> IF n \in Captured(plan) THEN text[n] ELSE held[n]]
       /\ text' = [n \in Nodes |-> IF n \in Captured(plan) THEN {} ELSE text[n]]
       /\ marked' = marked \cup Counted(plan)
       /\ applied' = [count |-> CountOf(plan), emptied |-> Cardinality(Counted(plan)),
                      drifted |-> plan.moves # moves]
       /\ strays' = strays \cup
              {<<n, plan.moves # moves>> : n \in {m \in Captured(plan) : \A target \in plan.targets : target[2] # m}}
    /\ plans' = RemoveAt(plans, i)
    /\ UNCHANGED <<attached, owed, moves, scansMade, restores, refusal>>

-----------------------------------------------------------------------------
(* restore: gone and restored elements are finished with; one the page has *)
(* written into stays held, and every press says so again.                 *)

Gone == {n \in HeldNodes : ~ Attached(n)}
AnyAttached == HeldNodes \ Gone
Refillable == {n \in HeldNodes \ Gone : text[n] = {}}
Changed == HeldNodes \ (Gone \cup Refillable)

Finished == Gone \cup Refillable

Restore ==
    /\ restores < MaxRestores
    /\ restores' = restores + 1
    /\ text' = [n \in Nodes |-> IF n \in Refillable THEN text[n] \cup held[n] ELSE text[n]]
    /\ marked' = marked \ Refillable
    /\ held' = [n \in Nodes |-> IF n \in Finished THEN NotHeld ELSE held[n]]
    /\ refusal' = [restored |-> Cardinality(Refillable), gone |-> Cardinality(Gone),
                   changed |-> Cardinality(Changed)]
    (* What is dropped with a detached element can never be put back.      *)
    /\ owed' = [n \in Nodes |-> IF n \in Gone THEN owed[n] \ held[n] ELSE owed[n]]
    /\ UNCHANGED <<attached, plans, moves, scansMade, applied, strays>>

-----------------------------------------------------------------------------
(* The page's own scripts.                                                 *)

PageMoves(new) ==
    /\ moves < MaxMoves
    /\ moves' = moves + 1
    /\ attached' = new
    /\ UNCHANGED <<text, owed, held, marked, plans, scansMade, restores, applied, refusal, strays>>

PageRemoves == \E i \in 1 .. Len(attached) : PageMoves(RemoveAt(attached, i))
PageInserts ==
    \E n \in Nodes \ ToSet(attached), i \in 1 .. Len(attached) + 1 : PageMoves(InsertAt(attached, i, n))

PageWrites(n, pieces, removed) ==
    /\ moves < MaxMoves
    /\ moves' = moves + 1
    /\ text' = [text EXCEPT ![n] = pieces]
    /\ owed' = [owed EXCEPT ![n] = (@ \ removed) \cup pieces]
    /\ UNCHANGED <<attached, held, marked, plans, scansMade, restores, applied, refusal, strays>>

PageAppends(n) == PageWrites(n, text[n] \cup {moves'}, {})
PageClears(n) == text[n] # {} /\ PageWrites(n, {}, text[n])

SanitiserNext ==
    \/ Scan \/ Restore \/ PageRemoves \/ PageInserts
    \/ \E i \in 1 .. MaxPlans : Apply(i)
    \/ \E n \in Nodes : PageAppends(n) \/ PageClears(n)

SanitiserSpec == SanitiserInit /\ [][SanitiserNext]_sanitiserVars

-----------------------------------------------------------------------------
(* Nothing the page wrote is destroyed: what it has not removed itself is  *)
(* in its element or held for it, until a press of Restore finds the       *)
(* element detached and lets go of it (sanitize.ts:12-14).                 *)
NothingDestroyed == \A n \in Nodes : owed[n] \subseteq text[n] \cup held[n]

(* A restore never splices: an element it fills was empty and in the       *)
(* document, so what was taken out never ends up beside what the page      *)
(* wrote since (sanitize.ts:100-105).                                      *)
NeverSpliced ==
    [][\A n \in Nodes : restores' # restores /\ text'[n] # text[n] => text[n] = {} /\ Attached(n)]_sanitiserVars

(* An answer that refuses nothing means what it says, at the first press   *)
(* and at every later one: each element holds all the page wrote into it   *)
(* (sanitize.ts:138-146, a second press "retracted" the refusal).          *)
RefusalStands ==
    [][restores' # restores /\ refusal'.gone + refusal'.changed = 0
          => \A n \in Nodes : owed'[n] \subseteq text'[n]]_sanitiserVars

(* An element is emptied in the place of another only if the page changed  *)
(* between the scan and its answer; the number reported is the number of   *)
(* elements that are empty now, under the same condition.                  *)
StrayOnlyIfMoved == \A stray \in strays : stray[2]
CountIsTrue == applied.drifted \/ applied.count = applied.emptied

(* What the page wrote is in it, held for it, or let go of at a press;     *)
(* what was emptied is what was named, and as many as was said.            *)
NothingIsLost ==
    /\ SanitiserTypeOK /\ NothingDestroyed /\ StrayOnlyIfMoved /\ CountIsTrue

(* Undoing the edit: never beside new writing, and never claimed where it  *)
(* did not happen.                                                         *)
RestoreIsHonest == NeverSpliced /\ RefusalStands
=============================================================================
