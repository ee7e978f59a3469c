---------------------------- MODULE SurfaceSlot ----------------------------
(***************************************************************************)
(* The one warning panel of a page (content/surface-slot.ts), the sources  *)
(* that ask for it (content/index.ts, credential.ts, download.ts,          *)
(* lookalike.ts, traps.ts), and the watch that puts a panel back when the  *)
(* page takes it out of the document (content/keep-surface.ts).            *)
(*                                                                         *)
(* A handler of the frame is one step, and the mutation callbacks it       *)
(* causes belong to it: they run before the next task.  What overlaps is   *)
(* the quarter of a second a watch waits before it mounts its panel again  *)
(* with everything that can happen to the panel meanwhile.                 *)
(***************************************************************************)
EXTENDS Integers, Sequences, FiniteSets

CONSTANTS
    Kinds,        \* the kinds of warning this page raises
    None,         \* no kind: the holder of a free slot
    MaxPanels     \* bound: panels mounted in the life of the page

(* Four of the kinds close their panel through resolveEverything, which    *)
(* releases the slot; the others destroy the handle the slot gave them.    *)
Resolving == {"injection", "frame", "frame-credential", "password"}
SelfClosing == {"lookalike", "trap", "credential", "download"}

ASSUME SurfaceSlotAssumption ==
    /\ Kinds \subseteq Resolving \cup SelfClosing
    /\ None \notin Resolving \cup SelfClosing
    /\ MaxPanels \in Nat

(* SEVERITY_ORDER                                                          *)
Severities == 0 .. 3
Critical == 3
Major == 2
Minor == 1

(* The severity a source claims with: the verdict's own, or the one its    *)
(* mount was made with, whatever the panel it shows says.                  *)
Registered(k) ==
    CASE k = "injection" -> {Minor, Major}
      [] k = "frame-credential" -> {Minor, Major, Critical}
      [] k = "trap" -> {Critical}
      [] OTHER -> {Major}

(* Raised at most once in a document.                                      *)
Single == {"lookalike", "credential"}

REMOUNT_ATTEMPTS == 3
Panels == 1 .. MaxPanels

VARIABLES
    mounted,      \* panels mounted so far; a panel is its number
    holder,       \* held.kind, None when the slot is free
    severity,     \* held.severity
    panel,        \* held.handle
    alsoHere,     \* kinds standing behind the panel
    line,         \* what the panel says of them: how many
    body,         \* the document has a body to mount in
    shown,        \* panels in the document
    stopped,      \* panels whose watch has been stopped
    busy,         \* panels whose watch waits out a gap
    removals,     \* per panel: times its watch saw it gone
    escalated,    \* panels the watch gave up on, aloud
    handles,      \* panels whose own buttons still find a handle to destroy
    banner,       \* traps.ts: the handle it holds, 0 for null
    spent,        \* kinds raised that are raised once
    evidence,     \* the inspector is open
    claimed,      \* history: kinds claimed since the slot was last free
    worst,        \* history: the worst severity among those claims
    dismissed     \* history: the panel a person closed last, 0 for none

slotVars == <<mounted, holder, severity, panel, alsoHere, line, claimed, worst>>
watchVars == <<shown, stopped, busy, removals, escalated>>
sourceVars == <<handles, banner, spent>>
vars == <<slotVars, watchVars, sourceVars, body, evidence, dismissed>>

TypeOK ==
    /\ mounted \in 0 .. MaxPanels
    /\ holder \in Kinds \cup {None}
    /\ severity \in Severities
    /\ panel \in 0 .. mounted
    /\ alsoHere \in Seq(Kinds)
    /\ line \in Nat
    /\ body \in BOOLEAN /\ evidence \in BOOLEAN
    /\ shown \subseteq Panels /\ stopped \subseteq Panels
    /\ busy \subseteq Panels /\ escalated \subseteq Panels
    /\ removals \in [Panels -> 0 .. REMOUNT_ATTEMPTS + 1]
    /\ handles \subseteq Panels /\ dismissed \in 0 .. MaxPanels
    /\ banner \in 0 .. MaxPanels
    /\ spent \subseteq Single
    /\ claimed \subseteq Kinds /\ worst \in Severities

Init ==
    /\ mounted = 0 /\ holder = None /\ severity = 0 /\ panel = 0
    /\ alsoHere = <<>> /\ line = 0 /\ claimed = {} /\ worst = 0
    /\ body \in BOOLEAN
    /\ shown = {} /\ stopped = {} /\ busy = {} /\ escalated = {}
    /\ removals = [p \in Panels |-> 0]
    /\ handles = {} /\ banner = 0 /\ spent = {}
    /\ evidence = FALSE /\ dismissed = 0

-----------------------------------------------------------------------------
(* keepSurfaceMounted                                                      *)

NeverSpent(n) == FALSE
Spent(n) == n > REMOUNT_ATTEMPTS

(* Bound: past the budget a count says no more.                            *)
OneMore(n) == IF n > REMOUNT_ATTEMPTS THEN n ELSE n + 1

(* react: the panels in gone have left the document, and each watch that   *)
(* is neither stopped nor waiting sees it.                                 *)
Seen(gone) == {p \in gone : p \notin stopped /\ p \notin busy}

React(gone) ==
    LET seen == Seen(gone)
        lost == {p \in seen : Spent(OneMore(removals[p]))}
    IN  /\ shown' = shown \ gone
        /\ removals' = [p \in Panels |->
               IF p \in seen THEN OneMore(removals[p]) ELSE removals[p]]
        /\ stopped' = stopped \cup lost
        /\ escalated' = escalated \cup lost
        /\ busy' = busy \cup (seen \ lost)

AlwaysRemounts(p) == TRUE
Remounts(p) == p \notin stopped

(* The gap is over: the panel is mounted again unless the watch has been   *)
(* stopped meanwhile; a panel that cannot be mounted is told of.           *)
GapOver(p) ==
    /\ p \in busy
    /\ busy' = busy \ {p}
    /\ IF Remounts(p)
         THEN IF body
                THEN /\ shown' = shown \cup {p}
                     /\ UNCHANGED <<stopped, escalated>>
                ELSE /\ stopped' = stopped \cup {p}
                     /\ escalated' = escalated \cup {p}
                     /\ UNCHANGED shown
         ELSE UNCHANGED <<shown, stopped, escalated>>
    /\ UNCHANGED <<slotVars, sourceVars, removals, body, evidence, dismissed>>

-----------------------------------------------------------------------------
(* createSurfaceSlot                                                       *)

(* What is left of a panel the slot itself stops watching and destroys.    *)
Stopped(p) == stopped \cup {p}

TakenDown(p) ==
    /\ stopped' = Stopped(p)
    /\ shown' = shown \ {p}

(* alsoHere.includes, and the two ways it changes: push, splice(indexOf)   *)
Listed(s, k) == \E i \in 1 .. Len(s) : s[i] = k

Without(s, k) ==
    IF Listed(s, k)
      THEN LET at == CHOOSE i \in 1 .. Len(s) : s[i] = k
           IN  SubSeq(s, 1, at - 1) \o SubSeq(s, at + 1, Len(s))
      ELSE s

Behind(k) == IF Listed(alsoHere, k) THEN alsoHere ELSE Append(alsoHere, k)

(* mountBanner and watchOver: the next panel, on screen and watched.       *)
Mount(k, s) ==
    /\ mounted < MaxPanels
    /\ mounted' = mounted + 1
    /\ panel' = mounted + 1
    /\ holder' = k /\ severity' = s
    /\ UNCHANGED <<removals, busy, escalated>>

ClaimFree(k, s) ==
    /\ holder = None
    /\ body
    /\ Mount(k, s)
    /\ shown' = shown \cup {mounted + 1}
    /\ line' = Len(alsoHere)
    /\ claimed' = {k} /\ worst' = s
    /\ UNCHANGED <<alsoHere, stopped>>

(* Not worse than what is up: a line on that panel instead.                *)
Worse(s) == s > severity

ClaimRefused(k, s) ==
    /\ holder # None /\ ~Worse(s)
    /\ alsoHere' = IF k = holder THEN alsoHere ELSE Behind(k)
    /\ line' = Len(alsoHere')
    /\ claimed' = claimed \cup {k}
    /\ worst' = IF s > worst THEN s ELSE worst
    /\ UNCHANGED <<mounted, holder, severity, panel>>
    /\ UNCHANGED watchVars

ClaimWorse(k, s) ==
    /\ holder # None /\ Worse(s)
    /\ body
    /\ Mount(k, s)
    /\ stopped' = Stopped(panel)
    /\ shown' = (shown \ {panel}) \cup {mounted + 1}
    /\ alsoHere' = Without(Behind(holder), k)
    /\ line' = Len(alsoHere')
    /\ claimed' = claimed \cup {k}
    /\ worst' = IF s > worst THEN s ELSE worst

(* Without a body the mount throws.  The panel it was to replace is        *)
(* already gone by then, and stays the one the slot believes it holds.     *)
ClaimThrows(k, s) ==
    /\ ~body
    /\ holder = None \/ Worse(s)
    /\ IF holder = None
         THEN UNCHANGED <<alsoHere, stopped, shown>>
         ELSE /\ TakenDown(panel)
              /\ alsoHere' = Behind(holder)
    /\ UNCHANGED <<mounted, holder, severity, panel, line, claimed, worst>>
    /\ UNCHANGED <<removals, busy, escalated>>

Release ==
    IF holder = None
      THEN UNCHANGED <<slotVars, watchVars>>
      ELSE /\ TakenDown(panel)
           /\ holder' = None
           /\ severity' = 0 /\ panel' = 0 /\ line' = 0
           /\ alsoHere' = <<>>
           /\ claimed' = {} /\ worst' = 0
           /\ UNCHANGED <<mounted, busy, removals, escalated>>

-----------------------------------------------------------------------------
(* The sources.                                                            *)

(* A claim returns a handle: the new panel's, or the one that was up.      *)
Claim(k, s) == ClaimFree(k, s) \/ ClaimRefused(k, s) \/ ClaimWorse(k, s)

(* A verdict of this kind reaches the page.  The module remembers the      *)
(* handle its claim returned; only the panel it drew has its buttons.      *)
Raise(k) ==
    /\ k \notin spent
    /\ spent' = spent \cup ({k} \cap Single)
    /\ \E s \in Registered(k) :
           \/ /\ Claim(k, s)
              /\ handles' = IF k \in SelfClosing /\ panel' # panel
                              THEN handles \cup {panel'} ELSE handles
           \/ /\ ClaimThrows(k, s)
              /\ UNCHANGED handles
    /\ UNCHANGED <<banner, body, evidence, dismissed>>

(* check in traps.ts: nothing while the module believes a panel is up.     *)
RaiseTrap ==
    /\ banner = 0
    /\ \/ Claim("trap", Critical) /\ banner' = panel'
       \/ ClaimThrows("trap", Critical) /\ UNCHANGED banner
    /\ UNCHANGED <<handles, spent, body, evidence, dismissed>>

(* dismiss: the module destroys what it holds and forgets it.  The slot is *)
(* not told, and the watch takes the press for the page's doing.           *)
DismissSelf ==
    /\ panel \in shown /\ holder \in SelfClosing
    /\ IF holder = "trap"
         THEN /\ banner # 0
              /\ React({banner} \cap shown)
              /\ banner' = 0 /\ UNCHANGED handles
         ELSE /\ panel \in handles
              /\ React({panel})
              /\ handles' = handles \ {panel} /\ UNCHANGED banner
    /\ dismissed' = panel
    /\ UNCHANGED <<slotVars, spent, body, evidence>>

(* resolveEverything: through the slot, watch first.  Only the injection   *)
(* panel's own dismiss closes the evidence with it, its dispute does not.  *)
DismissResolving ==
    /\ panel \in shown /\ holder \in Resolving
    /\ Release
    /\ dismissed' = panel
    /\ evidence' \in IF holder = "injection" THEN {FALSE, evidence} ELSE {evidence}
    /\ UNCHANGED <<sourceVars, body>>

OpenEvidence ==
    /\ panel \in shown /\ holder = "injection" /\ ~evidence
    /\ evidence' = TRUE
    /\ UNCHANGED <<slotVars, watchVars, sourceVars, body, dismissed>>

(* The evidence outlives the panel it was opened from; a dispute of it     *)
(* releases whatever is up by then.                                        *)
DisputeEvidence ==
    /\ evidence
    /\ evidence' = FALSE
    /\ Release
    /\ UNCHANGED <<sourceVars, body, dismissed>>

CloseEvidence ==
    /\ evidence
    /\ evidence' = FALSE
    /\ UNCHANGED <<slotVars, watchVars, sourceVars, body, dismissed>>

-----------------------------------------------------------------------------
(* The page.  It takes panels out, with or without its body; it is not     *)
(* modelled to put back itself what it has taken.                          *)

PageTakes ==
    /\ shown # {}
    /\ React(shown)
    /\ UNCHANGED <<slotVars, sourceVars, body, evidence, dismissed>>

PageDropsBody ==
    /\ body
    /\ body' = FALSE
    /\ React(shown)
    /\ UNCHANGED <<slotVars, sourceVars, evidence, dismissed>>

PageBringsBody ==
    /\ ~body
    /\ body' = TRUE
    /\ UNCHANGED <<slotVars, watchVars, sourceVars, evidence, dismissed>>

-----------------------------------------------------------------------------

Next ==
    \/ \E k \in Kinds \ {"trap"} : Raise(k)
    \/ "trap" \in Kinds /\ RaiseTrap
    \/ DismissSelf \/ DismissResolving
    \/ OpenEvidence \/ DisputeEvidence \/ CloseEvidence
    \/ PageTakes \/ PageDropsBody \/ PageBringsBody
    \/ \E p \in Panels : GapOver(p)

Spec == Init /\ [][Next]_vars

(* A timer that has been set fires.                                        *)
LiveSpec == Spec /\ \A p \in Panels : WF_vars(GapOver(p))

-----------------------------------------------------------------------------
(* Safety.                                                                 *)

(* B-69: never two panels on one another.  Whatever a watch puts back, and *)
(* whenever, the only panel in the document is the holder's, and it is     *)
(* watched: a panel displaced or released during a gap does not return.    *)
OnlyTheHolderIsDrawn ==
    /\ shown \subseteq (IF holder = None THEN {} ELSE {panel})
    /\ shown \cap stopped = {}

(* The panel holds the worst of what has been claimed since the slot was   *)
(* last free, by the severity the sources claim with.                      *)
PanelHoldsTheWorst == worst <= severity

(* Not drawn is not lost: while the panel is up, every kind claimed since  *)
(* the slot was free holds it or stands behind it, each once, and the line *)
(* on the panel counts them.                                               *)
EveryClaimIsTold ==
    panel \in shown =>
        LET behind == claimed \ {holder}
        IN  /\ {alsoHere[i] : i \in 1 .. Len(alsoHere)} = behind
            /\ line = Cardinality(behind)

(* What a person has closed stays closed.  Violated: dismissed_returns.     *)
DismissedStaysDown == dismissed \notin shown

-----------------------------------------------------------------------------
(* Liveness.                                                               *)

(* A panel taken while it is watched is put back, or its loss is told, or  *)
(* the slot has done with it.                                              *)
PutBackOrTold ==
    \A p \in Panels :
        (panel = p /\ p \notin shown /\ p \notin stopped)
            ~> (p \in shown \/ p \in stopped)

(* No page, however stubborn, keeps the watch busy for ever.               *)
TheWarEnds == \A p \in Panels : <>[](p \notin busy)

(* One panel is in the document, it is the worst claimed, and the others   *)
(* stand on it as a line.                                                  *)
OnePanelTellsAll ==
    /\ OnlyTheHolderIsDrawn /\ PanelHoldsTheWorst /\ EveryClaimIsTold

(* A removal by the page is answered or told, and the contest over it      *)
(* ends.                                                                   *)
RemovalIsAnswered == PutBackOrTold /\ TheWarEnds
=============================================================================
