------------------------------ MODULE SiteGuard -----------------------------
(***************************************************************************)
(* Judging a site by its name and by what this device remembers of it:     *)
(* checkLookalike of core-lookalike (check.ts, suffix.ts, confusables.ts), *)
(* guardCredentialEntry of core-credential, the two warnings of the page   *)
(* (content/lookalike.ts, content/credential.ts), and the worker's         *)
(* site/facts, trust/list, trust/add and trust/revoke.                     *)
(*                                                                         *)
(* A host has a name and the sequence of its labels: as it renders, when   *)
(* it is the one visited, and as the browser holds it (punycode included)  *)
(* when it is one of the names compared with, for only the former is       *)
(* decoded.  Which labels look alike is given by constants.                *)
(***************************************************************************)
EXTENDS Integers, Sequences, FiniteSets

CONSTANTS
    VisitedHosts,   \* the hosts that are visited
    Watched,        \* the names that ship with the extension
    LabelsOf,       \* the labels of each visited host, decoded
    NameLabels,     \* the labels of each of both, as the browser holds them
    PublicSuffixes, \* the public suffixes of more than one label
    Look,           \* the skeleton of each label
    NearLabels,     \* the pairs of skeletons one edit apart
    NearEndings,    \* the pairs of suffixes one edit apart
    Short,          \* the labels of fewer than five letters
    Generic,        \* the brand labels that name a service
    LoginWords,     \* the endings that say "sign in here"
    Forms,          \* what the form itself tells: {"not-encrypted", "posts-elsewhere"} or a part of it
    Visits,         \* the documents to come
    Established,    \* the days after which a site is known
    SeenKept,       \* the days a "seen" row is kept
    MaxSiteDay      \* bounds the days

ASSUME SiteAssumption ==
    /\ \A h \in VisitedHosts : LabelsOf[h] \in Seq(DOMAIN Look) /\ LabelsOf[h] # <<>>
    /\ \A t \in Watched \cup VisitedHosts : NameLabels[t] \in Seq(DOMAIN Look) /\ NameLabels[t] # <<>>
    \* what decodes to another name is not a host a browser holds
    /\ \A h, t \in VisitedHosts : LabelsOf[h] = NameLabels[t] => h = t
    /\ \A near \in NearLabels : \E a, b \in near : a # b
    /\ Forms \subseteq {"not-encrypted", "posts-elsewhere"}
    /\ {Established, SeenKept, MaxSiteDay} \subseteq Nat /\ 0 < Established /\ Established <= SeenKept

Unseen == -1

VARIABLES
    day,
    trusted,        \* the domain exceptions
    firstSeen,      \* seen:<host>: the day, or Unseen where there is no row
    visits,         \* per document: its host, where each question is, what was shown
    met,            \* history: the first day a row of the host was written, since its last sweep
    doubled         \* history: hosts asked about twice at once

siteVars == <<day, trusted, firstSeen, visits, met, doubled>>

Nowhere == "none"
Away == [host |-> Nowhere, look |-> "none", step |-> "away", trust |-> FALSE, since |-> Unseen, at |-> 0, guard |-> {}]

SiteTypeOK ==
    /\ day \in 0 .. MaxSiteDay /\ trusted \subseteq VisitedHosts /\ firstSeen \in [VisitedHosts -> Unseen .. MaxSiteDay]
    /\ met \in [VisitedHosts -> Unseen .. MaxSiteDay] /\ doubled \subseteq VisitedHosts
    /\ \A v \in Visits :
        /\ visits[v].host \in VisitedHosts \cup {Nowhere} /\ visits[v].since \in Unseen .. MaxSiteDay /\ visits[v].at \in 0 .. MaxSiteDay
        /\ visits[v].step \in {"away", "open", "facts", "put", "answered", "done", "gone"}

SiteInit ==
    /\ day = 0 /\ trusted = {} /\ firstSeen = [h \in VisitedHosts |-> Unseen]
    /\ visits = [v \in Visits |-> Away] /\ met = firstSeen /\ doubled = {}

-----------------------------------------------------------------------------
LastOf(h, n) == SubSeq(h, Len(h) - n + 1, Len(h))

(* publicSuffixOf: the longest that is tabulated, else the last label.     *)
PublicSuffix(h) ==
    IF Len(h) >= 3 /\ LastOf(h, 3) \in PublicSuffixes THEN LastOf(h, 3)
    ELSE IF Len(h) >= 2 /\ LastOf(h, 2) \in PublicSuffixes THEN LastOf(h, 2) ELSE LastOf(h, 1)

(* registrableDomain: one label more; the whole host when there is none.   *)
Registrable(h) ==
    LET n == Len(PublicSuffix(h)) IN IF Len(h) <= n THEN h ELSE LastOf(h, n + 1)
OwnLabel(h) == Registrable(h)[1]
LabelsAbove(h) == SubSeq(h, 1, Len(h) - Len(Registrable(h)))

Under(h, t) == Len(h) > Len(t) /\ LastOf(h, Len(t)) = t
SameLabel(h, t) == OwnLabel(h) = OwnLabel(t)
(* The genuine article and anything beneath it.                            *)
Genuine(h, t) == h = t \/ Under(h, t)

(* wearsBrandAsLabel: among the labels in front of somebody's own domain.  *)
WearsBrand(h, t) ==
    LET above == LabelsAbove(h) IN
    \/ \E at \in 0 .. Len(above) - Len(t) : SubSeq(above, at + 1, at + Len(t)) = t
    \/ OwnLabel(t) \notin Generic /\ \E i \in 1 .. Len(above) : above[i] = OwnLabel(t)

TldSwap(h, t) == OwnLabel(h) = OwnLabel(t) /\ {PublicSuffix(h), PublicSuffix(t)} \in NearEndings

(* brandUnderLoginWord: a single-label ending that is about accounts.      *)
UnderLoginWord(h, t) ==
    /\ OwnLabel(h) = OwnLabel(t) /\ Len(PublicSuffix(h)) = 1
    /\ PublicSuffix(h)[1] \in LoginWords /\ PublicSuffix(h) # PublicSuffix(t)

(* Characters that differ and look the same; one label is no look-alike of *)
(* itself.                                                                 *)
Homograph(h, t) == Look[OwnLabel(h)] = Look[OwnLabel(t)] /\ OwnLabel(h) # OwnLabel(t)

Typo(h, t) == {Look[OwnLabel(h)], Look[OwnLabel(t)]} \in NearLabels /\ OwnLabel(t) \notin Short

(* The pairs of each kind: constants, worked out once.                     *)
Pairs == {<<h, t>> : h \in VisitedHosts, t \in VisitedHosts \cup Watched}
PairsWhere(Test(_, _)) == {p \in Pairs : Test(LabelsOf[p[1]], NameLabels[p[2]])}
GenuinePairs == PairsWhere(Genuine)
WearingPairs == PairsWhere(WearsBrand)
ResemblingPairs ==
    PairsWhere(TldSwap) \cup PairsWhere(UnderLoginWord) \cup PairsWhere(Homograph) \cup PairsWhere(Typo)

(* checkLookalike; which of the names it resembles is left open.           *)
Verdict(h, names) ==
    LET Is(pairs) == \E t \in names : <<h, t>> \in pairs IN
    CASE Is(GenuinePairs) -> "none"
      [] ~ Is(GenuinePairs) /\ Is(WearingPairs) -> "brand-subdomain"
      [] ~ Is(GenuinePairs) /\ ~ Is(WearingPairs) -> IF Is(ResemblingPairs) THEN "resembles" ELSE "none"

-----------------------------------------------------------------------------
Open(v) == visits[v].step \notin {"away", "gone"}
Set(v, f) == visits' = [visits EXCEPT ![v] = f]

(* warnIfLookalike: the site itself by its name as the browser holds it,   *)
(* then the verdict.                                                       *)
Warning(h, known) == IF h \in known THEN "none" ELSE Verdict(h, Watched \cup known)

(* A document; warnIfLookalike asks for the trusted domains, is answered   *)
(* none when the list cannot be read, and shows nothing when refused.      *)
Visit(v) ==
    /\ visits[v].step = "away"
    /\ \E h \in VisitedHosts, known \in {trusted, {}}, look \in {"none", "judged"} :
        Set(v, [Away EXCEPT !.host = h, !.step = "open",
                            !.look = IF look = "none" THEN "none" ELSE Warning(h, known)])
    /\ UNCHANGED <<day, trusted, firstSeen, met, doubled>>

Asking(h) == {v \in Visits : visits[v].host = h /\ visits[v].step \in {"facts", "put"}}

(* watchCredentialFields: a sensitive field is focused, once per document. *)
FocusField(v) ==
    /\ visits[v].step = "open"
    /\ Set(v, [visits[v] EXCEPT !.step = "facts"])
    /\ doubled' = IF Asking(visits[v].host) # {} THEN doubled \cup {visits[v].host} ELSE doubled
    /\ UNCHANGED <<day, trusted, firstSeen, met>>

(* A row is written for a host that has none.                              *)
Unmet(h) == firstSeen[h] = Unseen

(* siteFacts: the exception and the date; an unknown host is noted.        *)
SiteFacts(v) ==
    /\ visits[v].step = "facts"
    /\ LET h == visits[v].host IN
        \/ Set(v, [visits[v] EXCEPT !.trust = h \in trusted, !.since = firstSeen[h],
                                    !.step = IF Unmet(h) THEN "put" ELSE "answered"])
        \/ Set(v, [visits[v] EXCEPT !.step = "answered"])
    /\ UNCHANGED <<day, trusted, firstSeen, met, doubled>>

(* The day, not the instant; a failure answers that nothing is known.      *)
NoteSeen(v) ==
    /\ visits[v].step = "put"
    /\ LET h == visits[v].host IN
        \/ /\ firstSeen' = [firstSeen EXCEPT ![h] = day]
           /\ met' = [met EXCEPT ![h] = IF @ = Unseen THEN day ELSE @]
           /\ Set(v, [visits[v] EXCEPT !.step = "answered"])
        \/ /\ Set(v, [visits[v] EXCEPT !.step = "answered", !.trust = FALSE, !.since = Unseen])
           /\ UNCHANGED <<firstSeen, met>>
    /\ UNCHANGED <<day, trusted, doubled>>

Young(age) == age < Established

(* guardCredentialEntry: what is known against it; nothing when it is      *)
(* trusted, or established with nothing against it.  An age that is not    *)
(* known is said to be unknown, never "new".                               *)
GuardOf(trust, since, look, form) ==
    LET age == day - since
        facts == form \cup (IF look # "none" THEN {"imitates"} ELSE {})
                 \cup (IF since # Unseen /\ Young(age) THEN {"young"} ELSE {})
    IN IF trust \/ (facts = {} /\ since # Unseen) THEN {}
       ELSE facts \cup (IF since = Unseen THEN {"how-long-unknown"} ELSE {"when-registered-unknown"})

(* warn: trust/list again for the names to compare with, then the guard;   *)
(* silent where either question was refused.                               *)
Warn(v) ==
    /\ visits[v].step = "answered"
    /\ LET Done(guard) == [visits[v] EXCEPT !.step = "done", !.at = day, !.trust = FALSE,
                                            !.since = Unseen, !.guard = guard]
       IN \/ Set(v, Done({}))
          \/ \E known \in {trusted, {}}, form \in SUBSET Forms :
                Set(v, Done(GuardOf(visits[v].trust, visits[v].since,
                                    Verdict(visits[v].host, Watched \cup known), form)))
    /\ UNCHANGED <<day, trusted, firstSeen, met, doubled>>

(* onDispute of either warning: trust/add, and the warning goes.  (The     *)
(* block rules it refreshes are the blocking feed's.)                      *)
TrustSite(v) ==
    /\ visits[v].look # "none" \/ visits[v].guard # {}
    /\ Set(v, [visits[v] EXCEPT !.look = "none", !.guard = {}])
    /\ trusted' = trusted \cup {visits[v].host} \/ UNCHANGED trusted
    /\ UNCHANGED <<day, firstSeen, met, doubled>>

RevokeSite ==
    /\ \E h \in trusted : trusted' = trusted \ {h}
    /\ UNCHANGED <<day, firstSeen, visits, met, doubled>>

(* No document is loaded twice: Visits bounds them.                        *)
Leave(v) == Open(v) /\ Set(v, [Away EXCEPT !.step = "gone"]) /\ UNCHANGED <<day, trusted, firstSeen, met, doubled>>

Outlived(h) == firstSeen[h] # Unseen /\ day - firstSeen[h] > SeenKept
(* pruneExpired: the row keeps the first day, however often it was asked.  *)
SweepSeen ==
    /\ \E h \in VisitedHosts :
        /\ Outlived(h) /\ firstSeen' = [firstSeen EXCEPT ![h] = Unseen] /\ met' = [met EXCEPT ![h] = Unseen]
    /\ UNCHANGED <<day, trusted, visits, doubled>>

SiteDayPasses ==
    /\ day < MaxSiteDay /\ day' = day + 1
    /\ UNCHANGED <<trusted, firstSeen, visits, met, doubled>>

SiteNext ==
    \/ \E v \in Visits : \/ Visit(v) \/ FocusField(v) \/ SiteFacts(v) \/ NoteSeen(v) \/ Warn(v)
                         \/ TrustSite(v) \/ Leave(v)
    \/ RevokeSite \/ SweepSeen \/ SiteDayPasses

SiteSpec == SiteInit /\ [][SiteNext]_siteVars

-----------------------------------------------------------------------------
(* Trusting a site makes its name a watched one.  Of the sites the shipped *)
(* names accuse it silences that site, and what renders as a name beneath  *)
(* the one the browser holds, and no other; a site beneath a trusted name  *)
(* that is not its own rendering is therefore accused still (check.ts:     *)
(* 42-48 decodes the visited host alone; content/lookalike.ts:67-70).      *)
TrustSilencesOnlyItself ==
    \A h \in VisitedHosts : Verdict(h, Watched) # "none" =>
        (Warning(h, trusted) = "none" <=> \E t \in trusted : h = t \/ Under(LabelsOf[h], NameLabels[t]))

Passes(h, t) ==
    \/ OwnLabel(h) = OwnLabel(t) /\ ~ TldSwap(h, t) /\ ~ UnderLoginWord(h, t)
    \/ Look[OwnLabel(h)] # Look[OwnLabel(t)] /\ {Look[OwnLabel(h)], Look[OwnLabel(t)]} \notin NearLabels
PassingPairs == PairsWhere(Passes)

(* "That case has just been judged above on the one ground the device can  *)
(* judge it" (check.ts:91-99): a watched name's own label under an ending  *)
(* that is neither a mistyping nor a word about accounts is not reported   *)
(* on account of that name.                                                *)
CountryDomainPasses ==
    \A h \in VisitedHosts :
        LabelsAbove(LabelsOf[h]) = <<>> /\ (\A t \in Watched \cup trusted : <<h, t>> \in PassingPairs)
            => Verdict(h, Watched \cup trusted) = "none"

(* "A person mid-login on a site they use daily does not need a lecture"   *)
(* (guard.test.ts:23-26): a site is called new only within the limit of    *)
(* the day it was first noted, unless two documents asked about it at once *)
(* and the later one moved the date.                                       *)
YoungIsYoung ==
    \A v \in Visits : visits[v].step = "done" /\ "young" \in visits[v].guard =>
        LET h == visits[v].host IN
        h \in doubled \/ met[h] = Unseen \/ visits[v].at - met[h] < Established

(* "Have I met this host before" (background/index.ts:908-911): the first  *)
(* day stands, until the sweep takes it; only two documents that asked at  *)
(* once move it.                                                           *)
FirstDayStands ==
    [][\A h \in VisitedHosts : firstSeen[h] # Unseen /\ h \notin doubled => firstSeen'[h] \in {firstSeen[h], Unseen}]_siteVars

(* Trust silences what it was given for and no more, a country's own       *)
(* domain is nobody's imitation, and a site met before is not new.         *)
SitesAreJudgedFairly ==
    /\ SiteTypeOK /\ TrustSilencesOnlyItself /\ CountryDomainPasses
    /\ YoungIsYoung
=============================================================================
