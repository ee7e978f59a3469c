--------------------------- MODULE MCBlockingFeed ---------------------------
(* An instance of BlockingFeed: a host and its subdomain, a listing with a *)
(* path, and a listing ("bank") no version ever carries.                   *)
EXTENDS FeedConvergence

MCSubdomainOf == {<<"www", "shop">>}
MCPathPrefix == {}

Shop == [host |-> "shop", path |-> "/"]
Pay  == [host |-> "shop", path |-> "pay"]
Www  == [host |-> "www", path |-> "/"]
Bank == [host |-> "bank", path |-> "/"]

MCListings == {Shop, Pay, Www, Bank}
MCRank == [l \in MCListings |->
    CASE l = Shop -> 1 [] l = Pay -> 2 [] l = Www -> 3 [] l = Bank -> 4]

(* Version 2 removes an entry of version 1 and adds another. *)
MCPublished == [v \in {1, 2, Unusable} |->
    CASE v = 1 -> {Shop, Www} [] v = 2 -> {Shop, Pay} [] OTHER -> {Pay}]

(* Bound: two jobs interleave at any await, or one runs while two others   *)
(* still stand at their first.                                             *)
FewUnderWay ==
    LET exist == {j \in Jobs : pc[j] # "idle"}
        past  == {j \in exist : pc[j] \notin {"due", "rules"}}
    IN  Cardinality(exist) + Cardinality(past) <= 4 /\ Cardinality(past) <= 2

(* The calm: two hosts, one of them under the other; version 2 adds the    *)
(* second.                                                                 *)
CalmListings == {[host |-> h, path |-> "/"] : h \in Hosts}
CalmRank == [l \in CalmListings |-> IF l.host = "shop" THEN 1 ELSE 2]
CalmPublished == [v \in Versions \cup {Unusable} |-> IF v = 1 THEN {Shop} ELSE CalmListings]
=============================================================================
