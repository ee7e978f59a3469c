------------------------- MODULE SurfaceSlot_proofs -------------------------
(***************************************************************************)
(* For any kinds of warning and any number of panels: the slot keeps its   *)
(* type, the only panel in the document is the holder's and is watched,    *)
(* the panel holds the worst of what was claimed, and every claim is told  *)
(* of on it.                                                               *)
(*                                                                         *)
(* The first needs to know which watches are alive: only the holder's, so  *)
(* that a gap which ends for any other panel finds its watch stopped.      *)
(* The last needs to know what stands behind a panel that is no longer     *)
(* drawn, because the next panel inherits it.                              *)
(***************************************************************************)
EXTENDS SurfaceSlot, FiniteSetTheorems, SequenceTheorems, TLAPS

(* Panels are numbered as they are mounted, a watch that is not stopped is *)
(* the watch of the panel that is held, and a panel waited for is absent.  *)
OneWatch ==
    /\ holder # None => panel \in 1 .. mounted
    /\ \A p \in Panels : p <= mounted /\ p \notin stopped => holder # None /\ p = panel
    /\ \A p \in Panels : p > mounted => p \notin shown /\ p \notin stopped /\ p \notin busy
    /\ busy \cap shown = {}

Elements(s) == {s[i] : i \in 1 .. Len(s)}
Distinct(s) == \A i, j \in 1 .. Len(s) : s[i] = s[j] => i = j

-----------------------------------------------------------------------------
(* alsoHere: what pushing and splicing do to a list without repetitions.   *)

LEMMA Pushed ==
    ASSUME alsoHere \in Seq(Kinds), Distinct(alsoHere), NEW k \in Kinds
    PROVE  /\ Behind(k) \in Seq(Kinds)
           /\ Distinct(Behind(k))
           /\ Elements(Behind(k)) = Elements(alsoHere) \cup {k}
<1>1. CASE Listed(alsoHere, k)
  BY <1>1 DEF Behind, Listed, Elements
<1>2. CASE ~Listed(alsoHere, k)
  <2> DEFINE t == Append(alsoHere, k)
  <2>1. /\ t \in Seq(Kinds)
        /\ Len(alsoHere) \in Nat
        /\ Len(t) = Len(alsoHere) + 1
        /\ t[Len(alsoHere) + 1] = k
        /\ \A i \in 1 .. Len(alsoHere) : t[i] = alsoHere[i]
    OBVIOUS
  <2>2. Behind(k) = t
    BY <1>2 DEF Behind
  <2>3. \A i \in 1 .. Len(alsoHere) : alsoHere[i] # k
    BY <1>2 DEF Listed
  <2>4. 1 .. Len(t) = 1 .. Len(alsoHere) \cup {Len(alsoHere) + 1}
    BY <2>1
  <2> HIDE DEF t
  <2>5. Distinct(t)
    BY <2>1, <2>3, <2>4 DEF Distinct
  <2>6. Elements(t) = Elements(alsoHere) \cup {k}
    BY <2>1, <2>4 DEF Elements
  <2> QED BY <2>1, <2>2, <2>5, <2>6
<1> QED BY <1>1, <1>2

LEMMA Spliced ==
    ASSUME NEW s \in Seq(Kinds), Distinct(s), NEW k \in Kinds
    PROVE  /\ Without(s, k) \in Seq(Kinds)
           /\ Distinct(Without(s, k))
           /\ Elements(Without(s, k)) = Elements(s) \ {k}
<1>1. CASE ~Listed(s, k)
  BY <1>1 DEF Without, Listed, Elements
<1>2. CASE Listed(s, k)
  <2> DEFINE at == CHOOSE i \in 1 .. Len(s) : s[i] = k
             u == SubSeq(s, 1, at - 1)
             v == SubSeq(s, at + 1, Len(s))
             t == u \o v
  <2>1. at \in 1 .. Len(s) /\ s[at] = k
    BY <1>2 DEF Listed
  <2>2. Without(s, k) = t
    BY <1>2 DEF Without
  <2> HIDE DEF at
  <2>3. /\ u \in Seq(Kinds)
        /\ Len(u) = at - 1
        /\ \A i \in 1 .. at - 1 : u[i] = s[i]
    BY <2>1
  <2>4. /\ v \in Seq(Kinds)
        /\ Len(v) = Len(s) - at
        /\ \A i \in 1 .. Len(s) - at : v[i] = s[i + at]
    BY <2>1
  <2> HIDE DEF u, v
  <2>5. /\ t \in Seq(Kinds)
        /\ Len(t) = Len(s) - 1
        /\ \A i \in 1 .. Len(t) : t[i] = IF i < at THEN s[i] ELSE s[i + 1]
    <3>1. /\ t \in Seq(Kinds)
          /\ Len(t) = Len(u) + Len(v)
          /\ \A i \in 1 .. Len(t) : t[i] = IF i <= Len(u) THEN u[i] ELSE v[i - Len(u)]
      <4>1. /\ u \o v \in Seq(Kinds)
            /\ Len(u \o v) = Len(u) + Len(v)
            /\ \A i \in 1 .. Len(u) + Len(v) :
                  (u \o v)[i] = IF i <= Len(u) THEN u[i] ELSE v[i - Len(u)]
        <5>1. u \in Seq(Kinds) /\ v \in Seq(Kinds)
          BY <2>3, <2>4
        <5> QED BY <5>1, ConcatProperties
      <4> QED BY <4>1
    <3>2. ASSUME NEW i \in 1 .. Len(t), i >= at
          PROVE  t[i] = s[i + 1]
      <4>1. i - Len(u) \in 1 .. Len(s) - at /\ (i - Len(u)) + at = i + 1
        BY <2>1, <2>3, <2>4, <3>1, <3>2
      <4>2. t[i] = v[i - Len(u)]
        BY <2>1, <2>3, <3>1, <3>2
      <4> QED BY <2>4, <4>1, <4>2
    <3>3. ASSUME NEW i \in 1 .. Len(t), i < at
          PROVE  t[i] = s[i]
      BY <2>1, <2>3, <3>1, <3>3
    <3> HIDE DEF t
    <3> QED BY <2>1, <2>3, <2>4, <3>1, <3>2, <3>3
  <2> HIDE DEF t
  <2>6. Len(s) \in Nat
    OBVIOUS
  <2>7. Distinct(t)
    BY <2>1, <2>5, <2>6 DEF Distinct
  <2>8. \A i \in 1 .. Len(t) : t[i] # k /\ t[i] \in Elements(s)
    BY <2>1, <2>5, <2>6 DEF Distinct, Elements
  <2>9. ASSUME NEW i \in 1 .. Len(s), s[i] # k
        PROVE  \E j \in 1 .. Len(t) : t[j] = s[i]
    <3>1. CASE i < at
      <4>1. i \in 1 .. Len(t) /\ t[i] = s[i]
        BY <2>1, <2>5, <2>6, <3>1
      <4> QED BY <4>1
    <3>2. CASE i > at
      <4>1. i - 1 \in 1 .. Len(t) /\ t[i - 1] = s[i]
        BY <2>1, <2>5, <2>6, <3>2
      <4> QED BY <4>1
    <3> QED BY <2>1, <2>9, <3>1, <3>2
  <2>10. Elements(t) = Elements(s) \ {k}
    <3>1. \A e \in Elements(t) : e \in Elements(s) /\ e # k
      BY <2>8 DEF Elements
    <3>2. \A e \in Elements(s) : e # k => e \in Elements(t)
      BY <2>9 DEF Elements
    <3> QED BY <3>1, <3>2
  <2> QED BY <2>2, <2>5, <2>7, <2>10
<1> QED BY <1>1, <1>2

LEMMA Counted ==
    ASSUME NEW s \in Seq(Kinds), Distinct(s)
    PROVE  Len(s) = Cardinality(Elements(s))
<1> DEFINE f == [i \in 1 .. Len(s) |-> s[i]]
<1>1. Len(s) \in Nat
  OBVIOUS
<1>2. f \in Bijection(1 .. Len(s), Elements(s))
  <2>1. f \in [1 .. Len(s) -> Elements(s)]
    BY DEF Elements
  <2>2. \A i, j \in 1 .. Len(s) : f[i] = f[j] => i = j
    BY DEF Distinct
  <2>3. \A e \in Elements(s) : \E i \in 1 .. Len(s) : f[i] = e
    BY DEF Elements
  <2> HIDE DEF f
  <2> DEFINE D == 1 .. Len(s)
             E == Elements(s)
  <2>4. /\ f \in [D -> E]
        /\ \A i, j \in D : f[i] = f[j] => i = j
        /\ \A e \in E : \E i \in D : f[i] = e
    BY <2>1, <2>2, <2>3
  <2> HIDE DEF D, E
  <2>5. f \in Injection(D, E)
    BY <2>4 DEF Injection, IsInjective
  <2>6. f \in Surjection(D, E)
    BY <2>4 DEF Surjection
  <2>7. f \in Bijection(D, E)
    BY <2>5, <2>6 DEF Bijection
  <2> QED BY <2>7 DEF D, E
<1>3. IsFiniteSet(1 .. Len(s)) /\ Cardinality(1 .. Len(s)) = Len(s)
  <2>1. 1 \in Int /\ Len(s) \in Int
    BY <1>1
  <2>2. /\ IsFiniteSet(1 .. Len(s))
        /\ Cardinality(1 .. Len(s)) = IF 1 > Len(s) THEN 0 ELSE Len(s) - 1 + 1
    BY <2>1, FS_Interval, Zenon
  <2> QED BY <1>1, <2>2
<1>4. ExistsBijection(1 .. Len(s), Elements(s))
  BY <1>2 DEF ExistsBijection
<1> HIDE DEF f
<1>5. Cardinality(Elements(s)) = Cardinality(1 .. Len(s))
  <2> DEFINE D == 1 .. Len(s)
             E == Elements(s)
  <2>1. IsFiniteSet(D) /\ ExistsBijection(D, E)
    BY <1>3, <1>4
  <2> HIDE DEF D, E
  <2>2. Cardinality(E) = Cardinality(D)
    BY <2>1, FS_Bijection
  <2> QED BY <2>2 DEF D, E
<1> QED BY <1>3, <1>5

-----------------------------------------------------------------------------
(* The steps, by what they are made of.                                    *)

(* The type, by who owns the variables.                                    *)
SourceTyped ==
    /\ handles \subseteq Panels /\ dismissed \in 0 .. MaxPanels
    /\ banner \in 0 .. MaxPanels
    /\ spent \subseteq Single
    /\ body \in BOOLEAN /\ evidence \in BOOLEAN
SlotTyped ==
    /\ mounted \in 0 .. MaxPanels
    /\ holder \in Kinds \cup {None}
    /\ severity \in Severities
    /\ panel \in 0 .. mounted
    /\ alsoHere \in Seq(Kinds)
    /\ line \in Nat
    /\ claimed \subseteq Kinds /\ worst \in Severities
WatchTyped ==
    /\ shown \subseteq Panels /\ stopped \subseteq Panels
    /\ busy \subseteq Panels /\ escalated \subseteq Panels
    /\ removals \in [Panels -> 0 .. REMOUNT_ATTEMPTS + 1]

LEMMA TypeParts == TypeOK <=> SlotTyped /\ WatchTyped /\ SourceTyped
BY DEF TypeOK, SlotTyped, WatchTyped, SourceTyped

(* Told, but of the panel as a list rather than on the screen: what stands *)
(* behind the holder is everything else that was claimed, and as long as   *)
(* the panel is watched the holder is not among it and the line is right.  *)
Told ==
    /\ Distinct(alsoHere)
    /\ holder = None => alsoHere = <<>>
    /\ holder # None =>
           /\ holder \in claimed
           /\ Elements(alsoHere) \ {holder} = claimed \ {holder}
           /\ panel \notin stopped =>
                  holder \notin Elements(alsoHere) /\ line = Len(alsoHere)

SlotInv == SlotTyped /\ WatchTyped /\ OneWatch /\ OnlyTheHolderIsDrawn /\ PanelHoldsTheWorst /\ Told

LEMMA NoneIsNoKind == None \notin Kinds
BY SurfaceSlotAssumption

LEMMA EmptyList == /\ <<>> \in Seq(Kinds) /\ Len(<<>>) = 0
                   /\ Distinct(<<>>) /\ Elements(<<>>) = {}
BY DEF Distinct, Elements

LEMMA Primed == (Distinct(alsoHere)' <=> Distinct(alsoHere')) /\ Elements(alsoHere)' = Elements(alsoHere')
BY DEF Distinct, Elements

LEMMA FreeKeeps ==
    ASSUME SlotInv, NEW k \in Kinds, NEW s \in Severities, ClaimFree(k, s)
    PROVE  SlotInv' /\ (panel' # panel => panel' \in Panels) /\ panel' \in 0 .. MaxPanels
<1> USE DEF ClaimFree, Mount, SlotInv
<1>1. /\ mounted \in Nat /\ mounted + 1 \in Panels
      /\ \A p \in Panels : p <= mounted + 1 <=> p <= mounted \/ p = mounted + 1
  BY SurfaceSlotAssumption DEF SlotTyped, Panels
<1>2. /\ holder' = k /\ panel' = mounted + 1 /\ mounted' = mounted + 1
      /\ shown' = shown \cup {mounted + 1} /\ stopped' = stopped /\ busy' = busy
      /\ k # None
  BY NoneIsNoKind
<1>3. SlotTyped' /\ WatchTyped'
  BY <1>1, <1>2, SurfaceSlotAssumption DEF SlotTyped, WatchTyped, Panels
<1>4. OneWatch'
  <2>1. panel' \in 1 .. mounted'
    BY <1>1, <1>2
  <2>2. ASSUME NEW p \in Panels, p <= mounted', p \notin stopped'
        PROVE  p = panel'
    BY <1>1, <1>2, <2>2 DEF OneWatch
  <2>3. ASSUME NEW p \in Panels, p > mounted'
        PROVE  p \notin shown' /\ p \notin stopped' /\ p \notin busy'
    <3>1. p > mounted /\ p # mounted + 1
      BY <1>1, <1>2, <2>3 DEF Panels
    <3> QED BY <1>2, <3>1 DEF OneWatch
  <2>4. busy' \cap shown' = {}
    BY <1>1, <1>2 DEF OneWatch
  <2> QED BY <1>2, <2>1, <2>2, <2>3, <2>4 DEF OneWatch
<1>5. OnlyTheHolderIsDrawn'
  BY <1>1, <1>2 DEF OnlyTheHolderIsDrawn, OneWatch
<1>6. PanelHoldsTheWorst'
  BY DEF PanelHoldsTheWorst, Severities
<1>7. Told'
  BY <1>2, EmptyList DEF Told
<1>8. panel' \in Panels /\ panel' \in 0 .. MaxPanels
  BY <1>1, <1>2 DEF Panels
<1> QED BY <1>3, <1>4, <1>5, <1>6, <1>7, <1>8

LEMMA RefusedKeeps ==
    ASSUME SlotInv, NEW k \in Kinds, NEW s \in Severities, ClaimRefused(k, s)
    PROVE  SlotInv' /\ panel' = panel /\ panel' \in 0 .. MaxPanels
<1> USE DEF ClaimRefused, watchVars, SlotInv
<1>0. alsoHere \in Seq(Kinds) /\ Distinct(alsoHere)
  BY DEF SlotTyped, Told
<1>1. /\ alsoHere' \in Seq(Kinds) /\ Distinct(alsoHere')
      /\ Elements(alsoHere') = IF k = holder THEN Elements(alsoHere)
                               ELSE Elements(alsoHere) \cup {k}
  BY <1>0, Pushed
<1>2. Len(alsoHere') \in Nat
  BY <1>1
<1>3. SlotTyped' /\ WatchTyped'
  BY <1>1, <1>2 DEF SlotTyped, WatchTyped
<1>4. OneWatch' /\ OnlyTheHolderIsDrawn'
  BY DEF OneWatch, OnlyTheHolderIsDrawn
<1>5. PanelHoldsTheWorst'
  BY DEF PanelHoldsTheWorst, Worse, SlotTyped, Severities
<1>6. Told'
  BY <1>1, Primed DEF Told
<1>7. panel' = panel /\ panel' \in 0 .. MaxPanels
  BY SurfaceSlotAssumption DEF SlotTyped
<1> QED BY <1>3, <1>4, <1>5, <1>6, <1>7

LEMMA WorseKeeps ==
    ASSUME SlotInv, NEW k \in Kinds, NEW s \in Severities, ClaimWorse(k, s)
    PROVE  SlotInv' /\ panel' \in Panels /\ panel' \in 0 .. MaxPanels
<1> USE DEF ClaimWorse, Mount, SlotInv
<1>1. /\ mounted \in Nat /\ mounted + 1 \in Panels
      /\ \A p \in Panels : p <= mounted + 1 <=> p <= mounted \/ p = mounted + 1
      /\ panel \in 1 .. mounted /\ panel \in Panels /\ panel # mounted + 1
  BY SurfaceSlotAssumption DEF SlotTyped, Panels, OneWatch
<1>2. /\ holder' = k /\ panel' = mounted + 1 /\ mounted' = mounted + 1
      /\ stopped' = stopped \cup {panel} /\ busy' = busy
      /\ shown' = (shown \ {panel}) \cup {mounted + 1}
      /\ k # None /\ holder \in Kinds
  BY NoneIsNoKind DEF Stopped, SlotTyped
<1>3. /\ Behind(holder) \in Seq(Kinds) /\ Distinct(Behind(holder))
      /\ Elements(Behind(holder)) = Elements(alsoHere) \cup {holder}
  BY <1>2, Pushed DEF SlotTyped, Told
<1>4. /\ alsoHere' \in Seq(Kinds) /\ Distinct(alsoHere')
      /\ Elements(alsoHere') = (Elements(alsoHere) \cup {holder}) \ {k}
  BY <1>3, Spliced
<1>5. Len(alsoHere') \in Nat
  BY <1>4
<1>6. SlotTyped' /\ WatchTyped'
  BY <1>1, <1>2, <1>4, <1>5, SurfaceSlotAssumption DEF SlotTyped, WatchTyped, Panels
<1>7. OneWatch'
  BY <1>1, <1>2 DEF OneWatch
<1>8. OnlyTheHolderIsDrawn'
  BY <1>1, <1>2 DEF OnlyTheHolderIsDrawn, OneWatch
<1>9. PanelHoldsTheWorst'
  BY DEF PanelHoldsTheWorst, Worse, SlotTyped, Severities
<1>10. Told'
  BY <1>2, <1>4, Primed DEF Told
<1>11. panel' \in Panels /\ panel' \in 0 .. MaxPanels
  BY <1>1, <1>2 DEF Panels
<1> QED BY <1>6, <1>7, <1>8, <1>9, <1>10, <1>11

LEMMA ThrowKeeps ==
    ASSUME SlotInv, NEW k \in Kinds, NEW s \in Severities, ClaimThrows(k, s)
    PROVE  SlotInv'
<1> USE DEF ClaimThrows, SlotInv
<1>1. CASE holder = None
  BY <1>1 DEF SlotTyped, WatchTyped, OneWatch, OnlyTheHolderIsDrawn, PanelHoldsTheWorst, Told,
              Distinct, Elements
<1>2. CASE holder # None
  <2>1. /\ stopped' = stopped \cup {panel} /\ shown' = shown \ {panel}
        /\ alsoHere' = Behind(holder) /\ holder \in Kinds
        /\ panel \in 1 .. mounted /\ panel \in Panels
        /\ \A p \in Panels : p > mounted => p # panel
    BY <1>2, SurfaceSlotAssumption DEF TakenDown, Stopped, SlotTyped, OneWatch, Panels
  <2>0. alsoHere \in Seq(Kinds) /\ Distinct(alsoHere)
    BY DEF SlotTyped, Told
  <2>2. /\ alsoHere' \in Seq(Kinds) /\ Distinct(alsoHere')
        /\ Elements(alsoHere') = Elements(alsoHere) \cup {holder}
    BY <2>0, <2>1, Pushed
  <2>3. SlotTyped' /\ WatchTyped'
    BY <2>1, <2>2 DEF SlotTyped, WatchTyped
  <2>4. OneWatch' /\ OnlyTheHolderIsDrawn' /\ PanelHoldsTheWorst'
    <3>1. OneWatch'
      BY <1>2, <2>1 DEF OneWatch
    <3>2. OnlyTheHolderIsDrawn'
      BY <1>2, <2>1 DEF OnlyTheHolderIsDrawn
    <3>3. PanelHoldsTheWorst'
      BY <1>2 DEF PanelHoldsTheWorst
    <3> QED BY <3>1, <3>2, <3>3
  <2>5. Told'
    BY <1>2, <2>1, <2>2, Primed DEF Told
  <2> QED BY <2>3, <2>4, <2>5
<1> QED BY <1>1, <1>2

LEMMA ReleaseKeeps ==
    ASSUME SlotInv, Release
    PROVE  SlotInv'
<1> USE DEF Release, SlotInv
<1>1. CASE holder = None
  BY <1>1 DEF SlotTyped, WatchTyped, OneWatch, OnlyTheHolderIsDrawn, PanelHoldsTheWorst, Told,
              Distinct, Elements, slotVars, watchVars
<1>2. CASE holder # None
  <2>1. /\ stopped' = stopped \cup {panel} /\ shown' = shown \ {panel}
        /\ panel \in 1 .. mounted /\ panel \in Panels
        /\ \A p \in Panels : p > mounted => p # panel
    BY <1>2, SurfaceSlotAssumption DEF TakenDown, Stopped, SlotTyped, OneWatch, Panels
  <2>2. SlotTyped' /\ WatchTyped'
    <3>1. /\ holder' = None /\ severity' = 0 /\ panel' = 0 /\ line' = 0
          /\ alsoHere' = <<>> /\ claimed' = {} /\ worst' = 0
          /\ UNCHANGED <<mounted, busy, removals, escalated>>
      BY <1>2
    <3>2. 0 \in 0 .. mounted
      BY DEF SlotTyped
    <3> QED BY <2>1, <3>1, <3>2, EmptyList DEF SlotTyped, WatchTyped, Severities
  <2>3. OneWatch' /\ OnlyTheHolderIsDrawn' /\ PanelHoldsTheWorst'
    <3>1. /\ holder' = None /\ severity' = 0 /\ worst' = 0
          /\ UNCHANGED <<mounted, busy>>
      BY <1>2
    <3>2. OneWatch'
      BY <1>2, <2>1, <3>1 DEF OneWatch
    <3>3. OnlyTheHolderIsDrawn'
      BY <1>2, <2>1, <3>1 DEF OnlyTheHolderIsDrawn
    <3>4. PanelHoldsTheWorst'
      BY <3>1 DEF PanelHoldsTheWorst
    <3> QED BY <3>2, <3>3, <3>4
  <2>4. Told'
    BY <1>2, EmptyList DEF Told
  <2> QED BY <2>2, <2>3, <2>4
<1> QED BY <1>1, <1>2

LEMMA ReactKeeps ==
    ASSUME SlotInv, NEW gone \in SUBSET shown, React(gone), UNCHANGED slotVars
    PROVE  SlotInv'
<1> USE DEF React, slotVars, SlotInv
<1>1. PICK lost \in SUBSET Seen(gone) :
          /\ shown' = shown \ gone
          /\ stopped' = stopped \cup lost
          /\ escalated' = escalated \cup lost
          /\ busy' = busy \cup (Seen(gone) \ lost)
  OBVIOUS
<1>2. Seen(gone) \subseteq gone /\ gone \subseteq shown /\ lost \subseteq gone /\ shown \subseteq Panels
  BY <1>1 DEF Seen, WatchTyped
<1>3. removals' \in [Panels -> 0 .. REMOUNT_ATTEMPTS + 1]
  BY DEF WatchTyped, OneMore, REMOUNT_ATTEMPTS
<1>4. SlotTyped' /\ WatchTyped'
  BY <1>1, <1>2, <1>3 DEF SlotTyped, WatchTyped
<1>5. OneWatch' /\ OnlyTheHolderIsDrawn' /\ PanelHoldsTheWorst'
  <2>1. OneWatch'
    BY <1>1, <1>2 DEF OneWatch
  <2>2. OnlyTheHolderIsDrawn'
    BY <1>1, <1>2 DEF OnlyTheHolderIsDrawn
  <2> QED BY <2>1, <2>2 DEF PanelHoldsTheWorst
<1>6. Told'
  BY <1>1 DEF Told, Distinct, Elements
<1> QED BY <1>4, <1>5, <1>6

LEMMA GapKeeps ==
    ASSUME SlotInv, NEW p \in Panels, GapOver(p)
    PROVE  SlotInv'
<1> USE DEF GapOver, slotVars, SlotInv
<1>1. /\ shown' \in {shown, shown \cup {p}} /\ stopped' \in {stopped, stopped \cup {p}}
      /\ shown' # shown => stopped' = stopped /\ p \notin stopped
      /\ busy' = busy \ {p}
      /\ escalated' \in {escalated, escalated \cup {p}}
  BY DEF Remounts
<1>2. p <= mounted
  BY DEF OneWatch, SlotTyped, Panels
<1>3. SlotTyped' /\ WatchTyped'
  BY <1>1 DEF SlotTyped, WatchTyped
<1>4. OneWatch' /\ PanelHoldsTheWorst'
  BY <1>1, <1>2 DEF OneWatch, PanelHoldsTheWorst
<1>5. OnlyTheHolderIsDrawn'
  <2>1. p \notin stopped => holder # None /\ p = panel
    BY <1>2 DEF OneWatch
  <2>2. shown' = shown \/ (shown' = shown \cup {p} /\ stopped' = stopped /\ p \notin stopped)
    BY <1>1
  <2>3. stopped' = stopped \/ (stopped' = stopped \cup {p} /\ shown' = shown /\ p \notin shown)
    BY <1>1 DEF OneWatch
  <2> QED BY <2>1, <2>2, <2>3 DEF OnlyTheHolderIsDrawn
<1>6. Told'
  BY <1>1 DEF Told, Distinct, Elements
<1> QED BY <1>3, <1>4, <1>5, <1>6

-----------------------------------------------------------------------------
(* Every step, and the theorems.                                           *)

StepInv == SlotInv /\ SourceTyped

LEMMA RegisteredTyped == \A k \in Kinds : Registered(k) \subseteq Severities
BY DEF Registered, Severities, Minor, Major, Critical

LEMMA ClaimKeeps ==
    ASSUME SlotInv, NEW k \in Kinds, NEW s \in Severities, Claim(k, s)
    PROVE  SlotInv' /\ (panel' # panel => panel' \in Panels) /\ panel' \in 0 .. MaxPanels
BY FreeKeeps, RefusedKeeps, WorseKeeps DEF Claim

LEMMA RaiseKeeps ==
    ASSUME StepInv, NEW k \in Kinds, Raise(k)
    PROVE  StepInv'
<1>1. PICK s \in Registered(k) :
          \/ /\ Claim(k, s)
             /\ handles' = IF k \in SelfClosing /\ panel' # panel
                             THEN handles \cup {panel'} ELSE handles
          \/ ClaimThrows(k, s) /\ UNCHANGED handles
  BY DEF Raise
<1>2. s \in Severities
  BY RegisteredTyped
<1>3. SlotInv'
  BY <1>1, <1>2, ClaimKeeps, ThrowKeeps DEF StepInv
<1>4. handles' \subseteq Panels
  BY <1>1, <1>2, ClaimKeeps DEF StepInv, SourceTyped
<1>5. SourceTyped'
  BY <1>4 DEF Raise, StepInv, SourceTyped
<1> QED BY <1>3, <1>5 DEF StepInv

LEMMA RaiseTrapKeeps ==
    ASSUME StepInv, "trap" \in Kinds, RaiseTrap
    PROVE  StepInv'
<1>1. Critical \in Severities
  BY DEF Critical, Severities
<1>2. SlotInv' /\ banner' \in 0 .. MaxPanels
  BY <1>1, ClaimKeeps, ThrowKeeps DEF RaiseTrap, StepInv, SourceTyped
<1> QED BY <1>2 DEF RaiseTrap, StepInv, SourceTyped

LEMMA DismissSelfKeeps ==
    ASSUME StepInv, DismissSelf
    PROVE  StepInv'
<1>1. PICK gone \in SUBSET shown : React(gone) /\ UNCHANGED slotVars
  BY DEF DismissSelf
<1>2. SlotInv'
  BY <1>1, ReactKeeps DEF StepInv
<1>3. panel \in Panels
  BY DEF DismissSelf, StepInv, SlotInv, WatchTyped
<1>4. panel \in 0 .. MaxPanels /\ 0 \in 0 .. MaxPanels
  BY <1>3, SurfaceSlotAssumption DEF Panels
<1>5. SourceTyped'
  BY <1>4 DEF DismissSelf, StepInv, SourceTyped
<1> QED BY <1>2, <1>5 DEF StepInv

LEMMA DismissResolvingKeeps ==
    ASSUME StepInv, DismissResolving
    PROVE  StepInv'
<1>1. SlotInv'
  BY ReleaseKeeps DEF DismissResolving, StepInv
<1>2. panel \in 0 .. MaxPanels
  <2>1. panel \in Panels
    BY DEF DismissResolving, StepInv, SlotInv, WatchTyped
  <2> QED BY <2>1 DEF Panels
<1>3. evidence' \in BOOLEAN
  BY DEF DismissResolving, StepInv, SourceTyped
<1> QED BY <1>1, <1>2, <1>3 DEF DismissResolving, StepInv, SourceTyped, sourceVars

LEMMA StepKeeps == StepInv /\ [Next]_vars => StepInv'
<1> SUFFICES ASSUME StepInv, [Next]_vars PROVE StepInv'
  OBVIOUS
<1>1. ASSUME NEW k \in Kinds \ {"trap"}, Raise(k)
      PROVE  StepInv'
  BY <1>1, RaiseKeeps
<1>2. CASE "trap" \in Kinds /\ RaiseTrap
  BY <1>2, RaiseTrapKeeps
<1>3. CASE DismissSelf
  BY <1>3, DismissSelfKeeps
<1>4. CASE DismissResolving
  BY <1>4, DismissResolvingKeeps
<1>5. CASE DisputeEvidence
  BY <1>5, ReleaseKeeps DEF DisputeEvidence, StepInv, SourceTyped, sourceVars
<1>6. CASE PageTakes
  BY <1>6, ReactKeeps DEF PageTakes, StepInv, SourceTyped, sourceVars
<1>7. CASE PageDropsBody
  BY <1>7, ReactKeeps DEF PageDropsBody, StepInv, SourceTyped, sourceVars
<1>8. ASSUME NEW p \in Panels, GapOver(p)
      PROVE  StepInv'
  BY <1>8, GapKeeps DEF GapOver, StepInv, SourceTyped, sourceVars
<1>9. CASE OpenEvidence \/ CloseEvidence \/ PageBringsBody \/ UNCHANGED vars
  <2>1. UNCHANGED slotVars /\ UNCHANGED watchVars
    BY <1>9 DEF OpenEvidence, CloseEvidence, PageBringsBody, vars
  <2>2. SlotInv'
    BY <2>1 DEF slotVars, watchVars, StepInv, SlotInv, SlotTyped, WatchTyped, OneWatch,
                OnlyTheHolderIsDrawn, PanelHoldsTheWorst, Told, Distinct, Elements
  <2>3. SourceTyped'
    BY <1>9 DEF OpenEvidence, CloseEvidence, PageBringsBody, vars, sourceVars, StepInv, SourceTyped
  <2> QED BY <2>2, <2>3 DEF StepInv
<1> QED BY <1>1, <1>2, <1>3, <1>4, <1>5, <1>6, <1>7, <1>8, <1>9 DEF Next

LEMMA InitInv == Init => StepInv
<1> SUFFICES ASSUME Init PROVE StepInv
  OBVIOUS
<1>1. SlotTyped
  BY SurfaceSlotAssumption, EmptyList DEF Init, SlotTyped, Severities
<1>2. WatchTyped
  BY DEF Init, WatchTyped, REMOUNT_ATTEMPTS
<1>3. OneWatch
  BY DEF Init, OneWatch, Panels
<1>4. OnlyTheHolderIsDrawn /\ PanelHoldsTheWorst
  BY DEF Init, OnlyTheHolderIsDrawn, PanelHoldsTheWorst
<1>5. Told
  BY EmptyList DEF Init, Told
<1>6. SourceTyped
  <2>1. body \in BOOLEAN /\ evidence \in BOOLEAN /\ handles = {} /\ spent = {}
    BY DEF Init
  <2>2. banner \in 0 .. MaxPanels /\ dismissed \in 0 .. MaxPanels
    BY SurfaceSlotAssumption DEF Init
  <2> QED BY <2>1, <2>2 DEF SourceTyped
<1> QED BY <1>1, <1>2, <1>3, <1>4, <1>5, <1>6 DEF StepInv, SlotInv

LEMMA Always == Spec => []StepInv
BY InitInv, StepKeeps, PTL DEF Spec

(* The state of the slot, its watches and its sources keeps its type.      *)
THEOREM TypeCorrect == Spec => []TypeOK
<1>1. StepInv => TypeOK
  BY TypeParts DEF StepInv, SlotInv
<1> QED BY <1>1, Always, PTL

(* Whatever the page removes and whenever a gap ends: no panel but the     *)
(* holder's is in the document, and none without its watch.                *)
THEOREM OnePanel == Spec => []OnlyTheHolderIsDrawn
<1>1. StepInv => OnlyTheHolderIsDrawn
  BY DEF StepInv, SlotInv
<1> QED BY <1>1, Always, PTL

(* The slot's severity is the worst claimed with since it was free.        *)
THEOREM WorstHolds == Spec => []PanelHoldsTheWorst
<1>1. StepInv => PanelHoldsTheWorst
  BY DEF StepInv, SlotInv
<1> QED BY <1>1, Always, PTL

(* A panel on screen tells of every kind that has asked for its place.     *)
THEOREM EveryClaimTold == Spec => []EveryClaimIsTold
<1>1. StepInv => EveryClaimIsTold
  <2> SUFFICES ASSUME StepInv, panel \in shown
               PROVE  LET behind == claimed \ {holder}
                      IN  /\ Elements(alsoHere) = behind
                          /\ line = Cardinality(behind)
    BY DEF EveryClaimIsTold, Elements
  <2>1. holder # None /\ panel \notin stopped
    BY DEF StepInv, SlotInv, OnlyTheHolderIsDrawn
  <2>2. alsoHere \in Seq(Kinds) /\ Distinct(alsoHere)
    BY DEF StepInv, SlotInv, SlotTyped, Told
  <2>3. holder \notin Elements(alsoHere) /\ line = Len(alsoHere)
    BY <2>1 DEF StepInv, SlotInv, Told
  <2>4. Elements(alsoHere) = claimed \ {holder}
    BY <2>1, <2>3 DEF StepInv, SlotInv, Told
  <2> QED BY <2>2, <2>3, <2>4, Counted
<1> QED BY <1>1, Always, PTL

(* One panel, the worst, with a line for every other (surface-slot.ts).    *)
THEOREM OnePanelAlwaysTellsAll == Spec => []OnePanelTellsAll
<1>1. OnlyTheHolderIsDrawn /\ PanelHoldsTheWorst /\ EveryClaimIsTold => OnePanelTellsAll
  BY DEF OnePanelTellsAll
<1>2. QED
  BY <1>1, OnePanel, WorstHolds, EveryClaimTold, PTL
=============================================================================
