------------------------------- MODULE MCPage -------------------------------
(* The parts of the extension that stand in a page, one that is visited or *)
(* its own, side by side: they share no state, and in one behaviour one of *)
(* them moves.  The sets below are the inputs each is examined over.       *)
EXTENDS Collector, Sanitiser, ScanPace, FrameRelay, PageWatch,
        Injection, OptionsPage, FiniteSetsExt, TLC

(* Collector: pages of up to three elements.                               *)
Elements ==
    {<<>>, <<"text-node">>, <<"attribute", "data-attr", "text-node">>,
     <<"data-attr", "data-attr", "data-attr">>, <<"meta", "template">>}
UpTo(n, S) == UNION {[1 .. k -> S] : k \in 0 .. n}
MCPages == [comments : {0, 1, 3, 7}, elements : UpTo(3, Elements)]

(* Sanitiser: two nodes hide something, one of them without an id.         *)
MCIdOf == ("n1" :> "x") @@ ("n2" :> "x") @@ ("n3" :> "none")
MCFirst == <<"n1", "n3">>

(* Injection, of the characters: every short text, the runs and sequences  *)
(* that need more, and honest writing joined from whole units.             *)
Joined == {FlattenSeq(s) : s \in UpTo(3, HonestUnits)}
MCTexts ==
    UpTo(3, Characters) \cup UpTo(5, {"override", "isolate", "pdf", "pdi"})
    \cup UpTo(5, {"flag", "tag", "tag-end", "letter"})
    \cup Joined \cup {<<"bom">> \o s : s \in Joined}

(* Injection, of the patterns: one place with every consistent set of up   *)
(* to four of them, and two or three places with a few.                    *)
Hidden(place, matched, likely) == [place |-> place, matched |-> matched, likely |-> likely]
Few == {Hidden(place, matched, likely) :
            place \in {"comment()", "p1"}, likely \in BOOLEAN,
            matched \in {{}, {"sensitive"}, {"anomaly"}, {"override"}}}
Alone == {matched \in UNION {kSubset(k, Patterns) : k \in 0 .. 4} : Consistent(matched)}
MCHiddenPages ==
    {<<Hidden("p1", matched, FALSE)>> : matched \in Alone} \cup [1 .. 2 -> Few]
    \cup {<<a, Hidden("comment()", {}, TRUE), c>> :
               a \in Few, c \in {Hidden("p2", {}, TRUE), Hidden("p1", {"override"}, TRUE)}}

VARIABLE part   \* the one that moves

PageVars == <<part, collectorVars, sanitiserVars, paceVars, frameVars,
              watchVars, invisibleVars, injectionVars, optionsVars>>

(* The options page where it does not move: its first reload could not     *)
(* read what it asked for, and says so.                                    *)
OptionsRests == OptionsStarts(NoRoute, 0, Body(RouteFor(""), "problem", NothingRead))

PageInit ==
    /\ part \in {"collector", "sanitiser", "scan pace", "frame relay",
                "page watch", "invisible text", "injection", "options page"}
    /\ CollectorInit /\ SanitiserInit /\ ScanPaceInit
    /\ FrameRelayInit /\ PageWatchInit /\ InvisibleTextInit
    /\ InjectionInit
    /\ IF part = "options page" THEN OptionsInit ELSE OptionsRests

PageNext ==
    /\ UNCHANGED part
    /\ \/ part = "collector" /\ CollectorNext
       \/ part = "sanitiser" /\ SanitiserNext
       \/ part = "scan pace" /\ ScanPaceNext
       \/ part = "frame relay" /\ FrameRelayNext
       \/ part = "page watch" /\ PageWatchNext
       \/ part = "invisible text" /\ InvisibleTextNext
       \/ part = "injection" /\ InjectionNext
       \/ part = "options page" /\ OptionsNext
    /\ part # "collector" => UNCHANGED collectorVars
    /\ part # "sanitiser" => UNCHANGED sanitiserVars
    /\ part # "scan pace" => UNCHANGED paceVars
    /\ part # "frame relay" => UNCHANGED frameVars
    /\ part # "page watch" => UNCHANGED watchVars
    /\ part # "invisible text" => UNCHANGED invisibleVars
    /\ part # "injection" => UNCHANGED injectionVars
    /\ part # "options page" => UNCHANGED optionsVars

(* ScanPaceFairness and FrameRelayFairness where their part is the one     *)
(* that moves; what OptionsFairness asks for is disabled where the page    *)
(* rests.                                                                  *)
PaceFairness == WF_paceVars(part = "scan pace" /\ Tick) /\ WF_paceVars(part = "scan pace" /\ Fire)
RelayFairness ==
    /\ WF_frameVars(part = "frame relay" /\ Report) /\ WF_frameVars(part = "frame relay" /\ Relay)
    /\ WF_frameVars(part = "frame relay" /\ Answer) /\ WF_frameVars(part = "frame relay" /\ GiveUp)

PageSpec ==
    /\ PageInit /\ [][PageNext]_PageVars
    /\ PaceFairness /\ RelayFairness /\ OptionsFairness

(* Whatever a page does, what was begun ends: its final state is examined, *)
(* a frame's report is over, and the options page is painted.              *)
PageSettles == FinalStateExamined /\ ReportEnds /\ PaintsInTheEnd
=============================================================================
