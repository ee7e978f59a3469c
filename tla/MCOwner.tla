------------------------------ MODULE MCOwner -------------------------------
(* The sets over which the owner's screens and the project's own services  *)
(* are examined.                                                           *)
EXTENDS OwnerScreens, TLC

(* OwnerQueue: the heavier item is no easier than the other.               *)
WeightValue == 1 :> 2 @@ 2 :> 1
EaseValue == 1 :> 2 @@ 2 :> 2

(* SiteGuard: a name under a country's ending, one in front of somebody's  *)
(* own domain and a host beneath it, under an ending mistyped, under a     *)
(* word about accounts, one edit away, and one that renders as another     *)
(* and a host beneath it.                                                  *)
LabelsOfValue ==
    "worn" :> <<"paypal", "com", "evil", "test">> @@ "mail worn" :> <<"mail", "paypal", "com", "evil", "test">>
    @@ "country" :> <<"paypal", "co", "uk">> @@ "squat" :> <<"paypal", "co">> @@ "help" :> <<"paypal", "help">>
    @@ "typo" :> <<"paypol", "com">> @@ "idn" :> <<"p.ypal", "com">> @@ "mail idn" :> <<"mail", "p.ypal", "com">>
NameLabelsValue ==
    "paypal" :> <<"paypal", "com">> @@ "mail" :> <<"mail", "ru">>
    @@ "idn" :> <<"xn--", "com">> @@ "mail idn" :> <<"mail", "xn--", "com">> @@ LabelsOfValue
SuffixesValue == {<<"co", "uk">>}
Labels == UNION {{f[h][i] : i \in DOMAIN f[h]} : <<f, h>> \in
                 ({LabelsOfValue} \X DOMAIN LabelsOfValue) \cup ({NameLabelsValue} \X DOMAIN NameLabelsValue)}
LookValue == [l \in Labels |-> IF l = "p.ypal" THEN "paypal" ELSE l]
NearLabelsValue == {{"paypal", "paypol"}}
NearEndingsValue == {{<<"com">>, <<"co">>}}
VisitSymmetry == Permutations(Visits)

(* Appeals: one asked twice, in other words and from another site.         *)
Submission(from, words) == [site |-> from, body |-> "read", domain |-> "d1", words |-> words]
MCSubmissions ==
    {Submission("own", "w1"), Submission("absent", "w2"), Submission("other", "w1")}

(* Publishing: hosts, two paths of one of them, an entry a source refuses  *)
(* and one that is none.                                                   *)
EntriesValue == {"a", "b", "c", "s", "a/1", "a/2", "bad"}
MCHostOf == [e \in EntriesValue |-> CASE e \in {"a/1", "a/2"} -> "a" [] e = "bad" -> "none" [] OTHER -> e]
MCAsked == {MCHostOf[e] : e \in EntriesValue} \cup {"www.a"}
MCAtOrBeneath == [host \in MCAsked |-> IF host = "www.a" THEN {"a"} ELSE {host}]
MCTexts == {<<>>, <<"a", "b", "c">>, <<"b", "s", "a">>, <<"c", "a">>, <<"b">>, <<"s">>}
Handed(kind, whole, plus, minus) ==
    [kind |-> kind, version |-> 0, entries |-> whole, added |-> plus, removed |-> minus]
MCHand ==
    {Handed("snapshot", {"a/1", "a/2"}, {}, {}), Handed("delta", {}, {}, {"a/1"}),
     Handed("delta", {}, {"a/2"}, {"b"}), Handed("delta", {}, {"a/1"}, {"a"}),
     Handed("delta", {}, {"bad"}, {}), Handed("delta", {}, {"c"}, {})}
=============================================================================
