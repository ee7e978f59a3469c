----------------------------- MODULE Injection -----------------------------
(***************************************************************************)
(* Judging what a page hides: anomaliesOf of core-injection/chars.ts, and  *)
(* from there analyse of signals.ts, the rules of stage1.ts, decideAction  *)
(* of contracts/policy.ts, the classifier of stage3.ts, and the worker's   *)
(* handleCandidates.                                                       *)
(***************************************************************************)
EXTENDS Integers, Sequences, SequencesExt, FiniteSets

-----------------------------------------------------------------------------
(***************************************************************************)
(* What the invisible characters of a text are doing.                      *)
(*                                                                         *)
(* A character is what the rules tell apart: a letter of a script that     *)
(* separates words with spaces, any other visible character, a black flag, *)
(* a zero-width character, the openers of directional runs and their two   *)
(* closers, a tag character and the one that ends a flag, an invisible     *)
(* operator, a byte-order mark.                                            *)
(***************************************************************************)
CONSTANT Texts     \* sequences of characters

Characters ==
    {"letter", "other", "flag", "zero-width", "override", "embedding", "isolate",
     "pdf", "pdi", "tag", "tag-end", "operator", "bom"}

ASSUME InvisibleTextAssumption == Texts \subseteq Seq(Characters)

VARIABLES chars,      \* the text that is read
          seenThere   \* the anomalies it was found to have, or Unjudged

invisibleVars == <<chars, seenThere>>

Unjudged == {"unjudged"}
Anomalies ==
    {"word-splitter", "bidi-override", "bidi-unbalanced", "tag-sequence", "invisible-operator"}

-----------------------------------------------------------------------------
CharAt(text, i) == IF i \in 1 .. Len(text) THEN text[i] ELSE "none"

SplitsWord(text, i) == CharAt(text, i - 1) = "letter" /\ CharAt(text, i + 1) = "letter"

TagAt(text, i) == CharAt(text, i) \in {"tag", "tag-end"}

(* inFlagSequence: the run of tags around i follows a black flag and ends  *)
(* with the terminator.                                                    *)
TagRun(text, i) ==
    CHOOSE run \in (1 .. i) \X (i .. Len(text)) :
        /\ \A k \in run[1] .. run[2] : TagAt(text, k)
        /\ ~ TagAt(text, run[1] - 1) /\ ~ TagAt(text, run[2] + 1)

OpensOnly(text, i) == LET run == TagRun(text, i) IN CharAt(text, run[1] - 1) = "flag"
TerminatesOnly(text, i) == LET run == TagRun(text, i) IN text[run[2]] = "tag-end"
InFlagSequence(text, i) == OpensOnly(text, i) /\ TerminatesOnly(text, i)

Closer == [override |-> "pdf", embedding |-> "pdf", isolate |-> "pdi"]

NoneRead == [found |-> {}, open |-> <<>>]
Flagged(state, anomaly) == [state EXCEPT !.found = @ \cup {anomaly}]
OpenRun(state, closer) == [state EXCEPT !.open = Append(@, closer)]

CloseRun(state, point) ==
    IF state.open # <<>> /\ Last(state.open) = point THEN [state EXCEPT !.open = Front(@)]
    ELSE Flagged(state, "bidi-unbalanced")

ReadChar(text, state, i) ==
    CASE text[i] = "zero-width"              -> IF SplitsWord(text, i) THEN Flagged(state, "word-splitter") ELSE state
      [] text[i] = "override"                -> OpenRun(Flagged(state, "bidi-override"), "pdf")
      [] text[i] \in {"embedding", "isolate"} -> OpenRun(state, Closer[text[i]])
      [] text[i] \in {"pdf", "pdi"}          -> CloseRun(state, text[i])
      [] TagAt(text, i)                      -> IF InFlagSequence(text, i) THEN state ELSE Flagged(state, "tag-sequence")
      [] text[i] = "operator" \/ (text[i] = "bom" /\ i # 1) -> Flagged(state, "invisible-operator")
      [] OTHER                               -> state

(* What was read after each character.                                     *)
Reading(text) ==
    LET read[i \in 0 .. Len(text)] == IF i = 0 THEN NoneRead ELSE ReadChar(text, read[i - 1], i)
    IN read

AnomaliesOf(text) ==
    LET end == Reading(text)[Len(text)]
    IN end.found \cup (IF end.open # <<>> THEN {"bidi-unbalanced"} ELSE {})

InvisibleTextTypeOK ==
    /\ chars \in Texts \cup {<<>>}
    /\ seenThere \subseteq Anomalies \/ seenThere = Unjudged

InvisibleTextInit == chars = <<>> /\ seenThere = Unjudged

AnalyseText ==
    /\ seenThere = Unjudged
    /\ \E text \in Texts : chars' = text /\ seenThere' = AnomaliesOf(text)

InvisibleTextNext == AnalyseText

InvisibleTextSpec == InvisibleTextInit /\ [][InvisibleTextNext]_invisibleVars

-----------------------------------------------------------------------------
(* A run leaks exactly when the openers and closers do not pair up: each   *)
(* opener with a closer of its own after it, and what stands between the   *)
(* two with each other (chars.ts:37-38).                                   *)
Openers == DOMAIN Closer
Directional(text) == {i \in 1 .. Len(text) : text[i] \in Openers \cup {"pdf", "pdi"}}

PairedBy(text, partner) ==
    \A i \in Directional(text) :
        /\ partner[partner[i]] = i
        /\ IF text[i] \in Openers
             THEN /\ partner[i] > i /\ text[partner[i]] = Closer[text[i]]
                  /\ \A k \in Directional(text) :
                         i < k /\ k < partner[i] => i < partner[k] /\ partner[k] < partner[i]
             ELSE partner[i] < i

Nested(text) == \E partner \in [Directional(text) -> Directional(text)] : PairedBy(text, partner)

LeaksUnlessNested ==
    seenThere # Unjudged => ("bidi-unbalanced" \in seenThere <=> ~ Nested(chars))

(* Honest writing is not reported: flags, emoji joined by a zero-width     *)
(* character, isolates around a word or a number, and a byte-order mark at *)
(* the start, in any order (chars.ts:4-10, "five writing systems").        *)
HonestUnits ==
    {<<"letter">>, <<"other", "zero-width", "other">>, <<"flag", "tag", "tag-end">>,
     <<"isolate", "letter", "pdi">>}

AfterMark(text) == IF text # <<>> /\ text[1] = "bom" THEN 1 ELSE 0

(* The text can be cut so that at each cut but the last a unit begins that *)
(* ends at another.                                                        *)
Honest(text) ==
    \E cuts \in SUBSET (AfterMark(text) .. Len(text)) :
        /\ {AfterMark(text), Len(text)} \subseteq cuts
        /\ \A c \in cuts \ {Len(text)} : \E unit \in HonestUnits :
               c + Len(unit) \in cuts /\ \A k \in 1 .. Len(unit) : text[c + k] = unit[k]

HonestWritingIsSilent == seenThere # Unjudged /\ Honest(chars) => seenThere = {}

(* What a matcher would be led past is reported: outside those units no    *)
(* operator, tag or override passes.                                       *)
NoChannelPasses ==
    seenThere = {} =>
        \A i \in 1 .. Len(chars) :
            /\ chars[i] \notin {"operator", "override"}
            /\ TagAt(chars, i) => \E k \in 1 .. i - 1 : chars[k] = "flag" /\ \A j \in k + 1 .. i : TagAt(chars, j)

(* Invisible characters are reported where they carry or hide something,   *)
(* and only there.                                                         *)
InvisibleIsWeighed ==
    /\ InvisibleTextTypeOK /\ LeaksUnlessNested /\ HonestWritingIsSilent
    /\ NoChannelPasses

-----------------------------------------------------------------------------
(***************************************************************************)
(* What is made of it: the signals, the verdict, the action.               *)
(*                                                                         *)
(* A text is the set of the patterns it matches.  A candidate is a text at *)
(* a place; several candidates may share one, as all comments do.          *)
(***************************************************************************)
CONSTANTS
    HiddenPages,   \* sequences of candidates: [place, matched, likely]
    MaxScored      \* DEFAULTS.maxCandidates

Patterns ==
    {"override", "role", "vocative-ai", "vocative-label", "imperative", "second-person",
     "said-to-label", "secrecy", "conditional", "tool-own", "tool-noun", "system-prompt",
     "sensitive", "hand-over-strong", "hand-over-weak", "anomaly", "deceptive"}

(* What a text can match: the last pattern of each pair needs the first.   *)
Consistent(matched) ==
    /\ "said-to-label" \in matched =>
           "vocative-label" \in matched /\ matched \cap {"imperative", "second-person"} # {}
    /\ "deceptive" \in matched => "anomaly" \in matched

ASSUME InjectionAssumption ==
    /\ MaxScored \in Nat
    /\ \A page \in HiddenPages :
        /\ Len(page) \in Nat
        /\ \A i \in 1 .. Len(page) :
               page[i].matched \subseteq Patterns /\ Consistent(page[i].matched)

VARIABLES
    hiding,        \* the page's candidates
    judging,       \* unasked, ruling, preparing, scoring, storing, answered
    verdicts,      \* <<candidate, stage>> in the order they were reached
    toScore,       \* the candidates the classifier still has to see
    scored,        \* history: those it was given
    ready,         \* the classifier's host, as it was prepared
    stored,        \* how many of the verdicts are in the store
    storeFailed

injectionVars == <<hiding, judging, verdicts, toScore, scored, ready, stored, storeFailed>>

InjectionTypeOK ==
    /\ \A i \in 1 .. Len(hiding) : Consistent(hiding[i].matched)
    /\ judging \in {"unasked", "ruling", "preparing", "scoring", "storing", "answered"}
    /\ \A i \in 1 .. Len(verdicts) : verdicts[i] \in (1 .. Len(hiding)) \X {"rules", "model"}
    /\ Len(toScore) <= MaxScored /\ scored \subseteq 1 .. Len(hiding)
    /\ ready \in BOOLEAN /\ storeFailed \in BOOLEAN /\ stored \in 0 .. Len(verdicts)

InjectionInit ==
    /\ hiding = <<>> /\ judging = "unasked" /\ verdicts = <<>> /\ toScore = <<>>
    /\ scored = {} /\ ready = FALSE /\ stored = 0 /\ storeFailed = FALSE

-----------------------------------------------------------------------------
(* analyse: the signals of a text, and those matched in a form nothing     *)
(* innocent produces.                                                      *)

Addressed(matched) == matched \cap {"imperative", "second-person"} # {}

Vocative(matched) ==
    \/ "vocative-ai" \in matched /\ Addressed(matched)
    \/ "said-to-label" \in matched
HandedOver(matched) ==
    "sensitive" \in matched /\ matched \cap {"hand-over-strong", "hand-over-weak"} # {}

Signals(matched) ==
    (matched \cap {"override", "secrecy"})
    \cup (IF "role" \in matched THEN {"role-assignment"} ELSE {})
    \cup (IF Vocative(matched) THEN {"vocative"} ELSE {})
    \cup (IF "conditional" \in matched THEN {"conditional-identity"} ELSE {})
    \cup (IF matched \cap {"tool-own", "tool-noun"} # {} THEN {"tool-invocation"} ELSE {})
    \cup (matched \cap {"system-prompt"})
    \cup (IF HandedOver(matched) THEN {"sensitive-target"} ELSE {})
    \cup (IF "anomaly" \in matched THEN {"char-anomaly"} ELSE {})

Strong(matched) ==
    (IF {"vocative-ai", "imperative"} \subseteq matched THEN {"vocative"} ELSE {})
    \cup (IF "tool-own" \in matched THEN {"tool-invocation"} ELSE {})
    \cup (IF {"sensitive", "hand-over-strong"} \subseteq matched THEN {"sensitive-target"} ELSE {})
    \cup (IF "deceptive" \in matched THEN {"char-anomaly"} ELSE {})

-----------------------------------------------------------------------------
(* detectHidden and decideAction.                                          *)

StandsAlone == {"override", "role-assignment", "secrecy", "conditional-identity", "system-prompt"}
Corroborating == {"vocative", "tool-invocation", "sensitive-target", "char-anomaly"}
Decisive(matched) == Signals(matched) \cap (StandsAlone \cup Corroborating)

Confidence(matched) ==
    IF \/ Decisive(matched) \cap StandsAlone # {}
       \/ Strong(matched) # {}
       \/ Cardinality(Decisive(matched)) >= 2
    THEN "high" ELSE "medium"

(* A classifier's evidence cannot be checked by a reader: it never acts.   *)
DecideAction(confidence, stage) ==
    CASE stage = "model"                               -> "inform"
      [] stage = "rules" /\ confidence = "high"         -> "sanitize"
      [] OTHER                                         -> "inform"

RulesAction(matched) ==
    IF Decisive(matched) = {} THEN "silent" ELSE DecideAction(Confidence(matched), "rules")

(* On reading the text by the rules alone.                                 *)
AskTheWorker ==
    /\ judging = "unasked"
    /\ judging' = "ruling"
    /\ hiding' \in HiddenPages
    /\ UNCHANGED <<verdicts, toScore, scored, ready, stored, storeFailed>>

(* Some of the candidates, one after another as the page holds them.       *)
InPageOrder(some) ==
    CHOOSE list \in [1 .. Cardinality(some) -> some] :
        \A i, j \in 1 .. Cardinality(some) : i < j => list[i] < list[j]

Ruled == InPageOrder({i \in 1 .. Len(hiding) : Decisive(hiding[i].matched) # {}})

DetectHidden ==
    /\ judging = "ruling"
    /\ judging' = "preparing"
    /\ verdicts' = [i \in 1 .. Len(Ruled) |-> <<Ruled[i], "rules">>]
    /\ UNCHANGED <<hiding, toScore, scored, ready, stored, storeFailed>>

-----------------------------------------------------------------------------
(* classifyUndecided: what no rule decided, by place, as far as the page's *)
(* allowance goes.                                                         *)

DecidedPlaces == {hiding[verdicts[i][1]].place : i \in 1 .. Len(verdicts)}
FirstOf(list) == SubSeq(list, 1, IF Len(list) < MaxScored THEN Len(list) ELSE MaxScored)
LeftUndecided == {i \in 1 .. Len(hiding) : hiding[i].place \notin DecidedPlaces}

CutFirst == InPageOrder({i \in LeftUndecided : i <= MaxScored})
Undecided == FirstOf(InPageOrder(LeftUndecided))

AwaitPrepared ==
    /\ judging = "preparing"
    /\ ready' \in BOOLEAN
    /\ toScore' = IF ready' THEN Undecided ELSE <<>>
    /\ judging' = "scoring"
    /\ UNCHANGED <<hiding, verdicts, scored, stored, storeFailed>>

(* scoreWithin: a score, or silence when the host fails or is too slow.    *)
WhatWasReached == verdicts

Score ==
    /\ judging = "scoring" /\ toScore # <<>>
    /\ \E answer \in {"score", "silence"} :
           verdicts' = IF answer = "silence" THEN WhatWasReached
                       ELSE IF hiding[Head(toScore)].likely
                              THEN Append(verdicts, <<Head(toScore), "model">>) ELSE verdicts
    /\ scored' = scored \cup {Head(toScore)}
    /\ toScore' = Tail(toScore)
    /\ UNCHANGED <<hiding, judging, ready, stored, storeFailed>>

Scored ==
    /\ judging = "scoring" /\ toScore = <<>>
    /\ judging' = "storing"
    /\ UNCHANGED <<hiding, verdicts, toScore, scored, ready, stored, storeFailed>>

(* One finding after another; the first that fails ends the storing only.  *)
StoreFinding ==
    /\ judging = "storing" /\ stored < Len(verdicts) /\ ~ storeFailed
    /\ \/ stored' = stored + 1 /\ UNCHANGED storeFailed
       \/ storeFailed' = TRUE /\ UNCHANGED stored
    /\ UNCHANGED <<hiding, judging, verdicts, toScore, scored, ready>>

AnswerThePage ==
    /\ judging = "storing" /\ (stored = Len(verdicts) \/ storeFailed)
    /\ judging' = "answered"
    /\ UNCHANGED <<hiding, verdicts, toScore, scored, ready, stored, storeFailed>>

InjectionNext ==
    AskTheWorker \/ DetectHidden \/ AwaitPrepared \/ Score \/ Scored \/ StoreFinding \/ AnswerThePage

InjectionSpec == InjectionInit /\ [][InjectionNext]_injectionVars

-----------------------------------------------------------------------------
(* A page is edited only on what no innocent text says: a pattern that     *)
(* stands alone, one in its strong form, or two of different families      *)
(* (stage1.ts:30-36, "one of those is a banner; two is an edit").          *)
Families ==
    {{"vocative-ai", "said-to-label"}, {"tool-noun"}, {"sensitive"}, {"anomaly"}}
LoneReasons ==
    {"override", "role", "secrecy", "conditional", "system-prompt", "tool-own", "deceptive"}

EditNeedsEvidence ==
    judging = "ruling" => \A i \in 1 .. Len(hiding) :
        LET matched == hiding[i].matched IN
        RulesAction(matched) = "sanitize" =>
            \/ matched \cap LoneReasons # {}
            \/ {"vocative-ai", "imperative"} \subseteq matched
            \/ {"sensitive", "hand-over-strong"} \subseteq matched
            \/ Cardinality({family \in Families : family \cap matched # {}}) >= 2

(* Saying more never helps: a text that matches a further pattern is       *)
(* judged no more mildly.                                                  *)
Mildness(action) == CASE action = "silent" -> 3 [] action = "inform" -> 2 [] OTHER -> 1

MoreIsNoMilder ==
    judging = "ruling" => \A i \in 1 .. Len(hiding), p \in Patterns :
        LET matched == hiding[i].matched IN
        Consistent(matched \cup {p}) =>
            Mildness(RulesAction(matched \cup {p})) <= Mildness(RulesAction(matched))

(* The classifier only adds: whatever becomes of it, the page is answered  *)
(* with every verdict the rules reached, in their order, and its own are   *)
(* about texts no rule decided, and inform (stage3.ts:88-92).              *)
ClassifierOnlyAdds ==
    judging = "answered" =>
        /\ \A k \in 1 .. Len(Ruled) : k <= Len(verdicts) /\ verdicts[k] = <<Ruled[k], "rules">>
        /\ \A k \in Len(Ruled) + 1 .. Len(verdicts) :
               verdicts[k][2] = "model" /\ Decisive(hiding[verdicts[k][1]].matched) = {}

(* A text no rule decided is put to a ready classifier, unless eight       *)
(* undecided ones come before it, or a decided text shares its place: the  *)
(* comments of a page all have one, so one decided comment hides the rest. *)
UndecidedIsScored ==
    judging = "answered" /\ ready =>
        \A i \in 1 .. Len(hiding) :
            \/ i \in scored
            \/ \E j \in 1 .. Len(hiding) :
                   hiding[j].place = hiding[i].place /\ Decisive(hiding[j].matched) # {}
            \/ Cardinality({j \in 1 .. i - 1 : Decisive(hiding[j].matched) = {}}) >= MaxScored

(* A verdict rests on what the page hides: the page is edited on evidence  *)
(* only, hiding more is not judged milder, and the classifier is asked     *)
(* about what no rule decided and only adds.                               *)
VerdictsAreEarned ==
    /\ InjectionTypeOK /\ EditNeedsEvidence /\ MoreIsNoMilder
    /\ ClassifierOnlyAdds /\ UndecidedIsScored

(* Both steps of the judgement, the characters and the patterns.           *)
DetectionIsEarned == InvisibleIsWeighed /\ VerdictsAreEarned
=============================================================================
