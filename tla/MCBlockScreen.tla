---------------------------- MODULE MCBlockScreen ---------------------------
(* A listed domain, which also has a listing with a path, and a subdomain  *)
(* listed on its own: an exception drops that listing, so that the number  *)
(* of rules changes.  Of the two pages of the subdomain an exception opens *)
(* one, and the listing with the path stops the other all the same.        *)
EXTENDS BlockScreen, TLC

MCSubdomainOf == {<<"www", "shop">>}
MCNone == {}

At(h, p) == [host |-> h, path |-> p]
Plain(e) == [host |-> e.host, path |-> e.path, spelt |-> "plain"]

MCListed == {At("www", "/"), At("shop", "/"), At("shop", "pay")}
MCRank == [l \in MCListed |-> IF l.host = "www" THEN 1 ELSE IF l.path = "pay" THEN 2 ELSE 3]
MCVisited == {Plain(At("www", "pay")), Plain(At("www", "/"))}

(* Bound: two things under way at once, of navigations to note, questions  *)
(* asked again, grants and refreshes from elsewhere.                       *)
UnderWay ==
    Cardinality(noting) + Cardinality({t \in Tabs : phase[t] = "asking"})
    + Cardinality({t \in Tabs : grant[t] # NoGrant}) + Cardinality({o \in Others : refresh[o] # Idle})
TwoAtOnce == UnderWay <= 2

TabSymmetry == Permutations(Tabs)
=============================================================================
