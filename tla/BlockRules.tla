----------------------------- MODULE BlockRules -----------------------------
(***************************************************************************)
(* packages/core-feeds/src/{rules,lookup}.ts: a feed and the user's        *)
(* exceptions become declarativeNetRequest rules.                          *)
(*                                                                         *)
(* normaliseEntry reduces an entry and a URL to the same form, a host and  *)
(* an optional path: an Entry.  What the browser compares with a rule is   *)
(* the Address as it was spelt, with its port or a trailing dot.  The      *)
(* string relations between hosts and between paths are constants.         *)
(***************************************************************************)
EXTENDS Integers, FiniteSets

CONSTANTS
    Hosts,
    Paths,         \* the paths an entry can carry; NoPath is the bare host
    NoPath,
    SubdomainOf,   \* <<h, p>>: h ends with "." + p
    PathPrefix,    \* <<q, p>>: the text of q begins with that of p, q # p
    PathBelow,     \* <<q, p>>: q begins with p + "/"
    PathEnding,    \* <<q, h>>: the text of q ends with "." + h
    Rank,          \* the publisher's arrangement of the entries
    RuleLimit      \* RULE_LIMIT: how many rules an extension may install

Entry == [host : Hosts, path : Paths]

(* "with port": one that is not the scheme's own, which a URL keeps;       *)
(* "with dot": the host ends in one, with a port or without.               *)
Spellings == {"plain", "with port", "with dot"}
Address == [host : Hosts, path : Paths, spelt : Spellings]

(* normaliseEntry: no trailing dot, no port.                               *)
Reduced(a) == [host |-> a.host, path |-> a.path]

ASSUME RulesAssumption ==
    /\ NoPath \in Paths
    /\ SubdomainOf \subseteq Hosts \X Hosts
    /\ PathBelow \subseteq PathPrefix
    /\ PathPrefix \subseteq Paths \X Paths
    /\ PathEnding \subseteq Paths \X Hosts
    /\ RuleLimit \in Nat

Within(h, p) == h = p \/ <<h, p>> \in SubdomainOf

-----------------------------------------------------------------------------
(* buildRules *)

(* Mutations: trust reaches down to a listing under the trusted host, or   *)
(* up to one above it.                                                     *)
TrustReachesDown(entries, excused) == {l \in entries : \A h \in excused : ~Within(l.host, h)}
TrustReachesUp(entries, excused) == {l \in entries : \A h \in excused : ~Within(h, l.host)}

(* An exception on the listing's host drops the listing, path or not. *)
Wanted(entries, excused) == {l \in entries : l.host \notin excused}

(* trustedUnder: the excused hosts a bare listing would otherwise stop. *)
TrustedUnder(l, excused) ==
    {h \in excused : l.path = NoPath /\ <<h, l.host>> \in SubdomainOf}

Position(l, wanted) == Cardinality({m \in wanted : Rank[m] <= Rank[l]})

BuildRules(entries, excused) ==
    LET wanted == Wanted(entries, excused)
    IN  {[id |-> Position(l, wanted), listing |-> l, excused |-> TrustedUnder(l, excused)] :
            l \in {m \in wanted : Position(m, wanted) <= RuleLimit}}

Ids(rules) == {r.id : r \in rules}

-----------------------------------------------------------------------------
(* What a rule stops, and what an entry names. *)

(* "^" stands for a separator, which ":" and "/" are and "." is not; a     *)
(* path is compared with what follows the host.                            *)
ReachesSpelling(l, a) == a.spelt = "plain" \/ (a.spelt = "with port" /\ l.path = NoPath)

(* The browser: "||entry^" covers the host and its subdomains, "||entry"   *)
(* whatever begins with the entry at a label, and excludedRequestDomains   *)
(* spares a host and its subdomains.                                       *)
Blocks(r, a) ==
    /\ Within(a.host, r.listing.host)
    /\ ReachesSpelling(r.listing, a)
    /\ r.listing.path \in {NoPath, a.path} \/ <<a.path, r.listing.path>> \in PathPrefix
    /\ \A h \in r.excused : ~Within(a.host, h)

(* matchUrl *)
Matches(l, a) ==
    \/ Reduced(a) = l
    \/ l.path # NoPath /\ a.host = l.host /\ <<a.path, l.path>> \in PathBelow
    \/ l.path = NoPath /\ (Within(a.host, l.host) \/ <<a.path, l.host>> \in PathEnding)
=============================================================================
