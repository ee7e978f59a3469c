----------------------------- MODULE FeedUpdate -----------------------------
(***************************************************************************)
(* packages/core-feeds/src/apply.ts: what the publisher signs, and which   *)
(* update the extension takes.                                             *)
(*                                                                         *)
(* A feed is a version and a set of entries.  Published[v] is what the     *)
(* publisher put under version v, so a snapshot of v carries Published[v]  *)
(* and a delta from b to v carries the difference of the two.  Unusable    *)
(* stands for every version isUsableVersion refuses (NaN, negative, not    *)
(* whole, past 2^53): such a version orders against nothing and equals no  *)
(* delta's base.  The order of entries is abstracted to the publisher's    *)
(* ranking of BlockRules; feeds of another name live in another row.       *)
(***************************************************************************)
EXTENDS Integers

CONSTANTS
    Listings,      \* the entries a feed can carry
    MaxVersion,    \* bound: the highest version the publisher has signed
    Published,     \* version -> the entries published under it
    Unusable,      \* a version no comparison can order
    NoFeed         \* no row in the store

Versions == 1 .. MaxVersion

ASSUME FeedAssumption ==
    /\ MaxVersion \in Nat \ {0}
    /\ Unusable \notin Int
    /\ Published \in [Versions \cup {Unusable} -> SUBSET Listings]
    /\ NoFeed \notin [version : Versions \cup {Unusable}, entries : SUBSET Listings]

Feed == [version : Versions \cup {Unusable}, entries : SUBSET Listings]

-----------------------------------------------------------------------------
(* What can arrive. *)

Snapshot(v) ==
    [kind |-> "snapshot", version |-> v, base |-> v, signed |-> TRUE,
     entries |-> Published[v], removed |-> {}, added |-> {}]

Delta(b, v) ==
    [kind |-> "delta", version |-> v, base |-> b, signed |-> TRUE, entries |-> {},
     removed |-> Published[b] \ Published[v], added |-> Published[v] \ Published[b]]

(* Someone in the middle without the key: the opposite of what was signed. *)
Forged == [Snapshot(MaxVersion) EXCEPT !.signed = FALSE,
                                       !.entries = Listings \ Published[MaxVersion]]

Updates ==
    {Snapshot(v) : v \in Versions \cup {Unusable}}
        \cup {Delta(e[1], e[2]) : e \in {p \in Versions \X Versions : p[1] < p[2]}}
        \cup {Forged}

-----------------------------------------------------------------------------
(* applyUpdate, in the order of its refusals. *)

IsUsableVersion(v) == v # Unusable

VersionOf(f) == IF f = NoFeed \/ ~IsUsableVersion(f.version) THEN 0 ELSE f.version

(* Mutations of applyUpdate: a replay, a gap or a forgery gets through.    *)
ReplayIgnored(current, u) == TRUE
GapIgnored(current, u) == current # NoFeed

(* not-newer: a row an earlier build stored under an unusable version      *)
(* orders against nothing, so the comparison is skipped for it.            *)
NotReplayed(current, u) ==
    (current # NoFeed /\ IsUsableVersion(current.version)) => u.version > current.version

(* no-current and wrong-base *)
BuiltAgainst(current, u) == current # NoFeed /\ u.base = current.version

Accepts(current, u) ==
    /\ u.signed
    /\ IsUsableVersion(u.version)
    /\ NotReplayed(current, u)
    /\ u.kind = "delta" => BuiltAgainst(current, u)

ApplyUpdate(current, u) ==
    [version |-> u.version,
     entries |-> IF u.kind = "snapshot"
                 THEN u.entries
                 ELSE (current.entries \ u.removed) \cup u.added]

(* The row holds what the publisher put under its version: the statement   *)
(* "a delta applied across a gap produces a feed nobody has ever tested".  *)
AsPublished(f) == f # NoFeed => f.entries = Published[f.version]
=============================================================================
