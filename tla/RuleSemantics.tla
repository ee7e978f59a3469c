---------------------------- MODULE RuleSemantics ---------------------------
(***************************************************************************)
(* What the rules of BlockRules stop, against what the feed names.         *)
(*                                                                         *)
(* Two pieces of code answer whether a listing covers an address: the      *)
(* browser, from the urlFilter buildRules writes, and matchUrl, which the  *)
(* block screen and the download check ask.  The state is what the rules   *)
(* are built from; each decision is taken together with its refresh        *)
(* (BlockingFeed has the awaits between the two).                          *)
(***************************************************************************)
EXTENDS BlockRules

CONSTANTS
    Listings       \* the entries a feed can carry

VARIABLES
    entries,       \* the feed in force
    excused        \* the hosts the user trusts

vars == <<entries, excused>>

ASSUME SemanticsAssumption ==
    /\ Listings \subseteq Entry
    /\ IsFiniteSet(Listings)
    /\ Rank \in [Listings -> Nat]
    /\ \A l, m \in Listings : Rank[l] = Rank[m] => l = m

Rules == BuildRules(entries, excused)

TypeOK ==
    /\ entries \subseteq Listings
    /\ excused \subseteq Hosts
    /\ Rules \subseteq [id : 1 .. RuleLimit, listing : Listings, excused : SUBSET Hosts]

-----------------------------------------------------------------------------
Blocked(a) == \E r \in Rules : Blocks(r, a)

MatchUrl(a) == \E l \in entries : Matches(l, a)

-----------------------------------------------------------------------------
Init == entries = {} /\ excused = {}

AcceptUpdate ==
    /\ entries' \in SUBSET Listings
    /\ UNCHANGED excused

Trust(h) ==
    /\ excused' = excused \cup {h}
    /\ UNCHANGED entries

Revoke(h) ==
    /\ excused' = excused \ {h}
    /\ UNCHANGED entries

Next == AcceptUpdate \/ \E h \in Hosts : Trust(h) \/ Revoke(h)

Spec == Init /\ [][Next]_vars

-----------------------------------------------------------------------------
(* Properties *)

(* No two rules of a set share an id, for which the browser would refuse   *)
(* the whole set: the ids number what is kept, not what was read           *)
(* (rules.ts:77-84, adapter.ts:288-291).                                   *)
NumberedApart == \A r, s \in Rules : r.id = s.id => r = s

Dropped == {l \in Wanted(entries, excused) : Position(l, Wanted(entries, excused)) > RuleLimit}

(* What the feed names on the listing's own host or below it is stopped,   *)
(* unless the ceiling left something out or the user trusts a host at or   *)
(* under the listing: trusting a parent never excuses a listing on its     *)
(* subdomain (rules.ts:135-137, subdomain takeover).  matchUrl names an    *)
(* address whatever its port, the browser stops one with a port for a bare *)
(* host only, and one with a trailing dot not at all (rules.ts:90,         *)
(* lookup.ts:20-31).                                                       *)
ListedIsStopped ==
    Dropped = {} =>
        \A l \in entries, a \in Address :
            /\ Matches(l, a)
            /\ Within(a.host, l.host)
            /\ a.spelt = "plain" \/ (a.spelt = "with port" /\ l.path = NoPath)
            /\ ~ \E h \in excused : Within(a.host, h) /\ Within(h, l.host)
            => Blocked(a)

(* The screen can name the list for every address the browser stopped,     *)
(* except where a listing with a path stopped a subdomain or a longer name.*)
StoppedIsNamed ==
    \A a \in Address :
        Blocked(a) => MatchUrl(a) \/ \E l \in entries : l.path # NoPath /\ Within(a.host, l.host)

(* A site the user trusts is not stopped by a listing of a bare host.      *)
BareTrustHonoured ==
    \A r \in Rules, a \in Address :
        a.host \in excused /\ r.listing.path = NoPath => ~Blocks(r, a)

(* Trusting one host reopens nothing outside it, however full the ceiling  *)
(* was and whatever the change of numbering.                               *)
TrustIsLocal ==
    [][\A h \in Hosts : Trust(h) =>
        \A a \in Address : Blocked(a) /\ ~Blocked(a)' => Within(a.host, h)]_vars

(* What is stopped is what is listed and not trusted, by rules numbered    *)
(* apart, and what the screen can name.                                    *)
RulesMeanTheFeed == NumberedApart /\ ListedIsStopped /\ StoppedIsNamed /\ BareTrustHonoured
=============================================================================
