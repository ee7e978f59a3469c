-------------------------- MODULE MCRuleSemantics ---------------------------
(* A domain with two levels below it and a stranger; a path, a path below  *)
(* it, a longer name ("paydesk") and a file named after a domain.          *)
EXTENDS RuleSemantics

MCSubdomainOf == {<<"www", "shop">>, <<"id", "shop">>, <<"id", "www">>}
MCPathBelow == {<<"pay/2", "pay">>}
MCPathPrefix == MCPathBelow \cup {<<"paydesk", "pay">>}
MCPathEnding == {<<"x.shop", "shop">>}

Bare(h) == [host |-> h, path |-> "/"]
Pay(h)  == [host |-> h, path |-> "pay"]

MCListings == {Bare("shop"), Bare("www"), Pay("shop"), Pay("www"), Bare("else")}
MCRank == [l \in MCListings |->
    CASE l = Pay("shop") -> 1 [] l = Bare("www") -> 2 [] l = Bare("shop") -> 3
      [] l = Bare("else") -> 4 [] l = Pay("www") -> 5]
=============================================================================
