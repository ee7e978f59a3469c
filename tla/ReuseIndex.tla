----------------------------- MODULE ReuseIndex -----------------------------
(***************************************************************************)
(* What the worker answers about a submitted password: checkPassword of    *)
(* core-credential (the built-in list, then the range query), and the      *)
(* index of where else the password was used, tagged with a key kept on    *)
(* the device: reuseKey, reuseTag and handlePasswordCheck of               *)
(* background/index.ts, reuseOf of core-credential/reuse.ts, and the wipe  *)
(* of storage/export.ts, which clears the key's store before the index's.  *)
(***************************************************************************)
EXTENDS Integers, FiniteSets

CONSTANTS
    Submissions,   \* the submissions that may be under way at once
    Passwords, Hosts,
    Common,        \* passwords of the built-in list
    Breached,      \* passwords the range service has found in breaches
    MaxWipes, MaxPwStops, MaxSubmitted

NoKey == 0

ASSUME ReuseAssumption ==
    /\ Common \subseteq Passwords /\ Breached \subseteq Passwords
    /\ MaxWipes \in Nat /\ MaxPwStops \in Nat /\ MaxSubmitted \in Nat

VARIABLES
    sub,          \* per submission: where it stands and what it has read
    storedKey,    \* settings' reuse:key
    reuse,        \* rows of the index: [key, pwd, host]; key and pwd are the tag
    keysMade,     \* how many keys were ever generated
    wiping,       \* the wipe under way: idle, settings cleared
    reuseWipes, pwStops, submitted,
    rangeAsked,        \* history: passwords of which a prefix left the device
    usedAt,       \* history: <<password, host>> ever submitted
    mingled       \* history: two submissions, or one and a wipe, ran at once,
                  \* or a wipe was left half done

reuseVars == <<sub, storedKey, reuse, keysMade, wiping, reuseWipes, pwStops, submitted,
               rangeAsked, usedAt, mingled>>

Explanations == {"in-common-list", "unreachable", "unreadable", "absent", "found"}
Unanswered == "none"
Resting == [at |-> "idle", pwd |-> "", host |-> "", explain |-> Unanswered, key |-> NoKey,
            elsewhere |-> {}, unknown |-> TRUE]
Busy(s) == sub[s].at \notin {"idle", "answered"}

ReuseTypeOK ==
    /\ \A s \in Submissions :
           /\ sub[s].at \in {"idle", "checking", "asking", "keyless", "keying",
                             "tagged", "recording", "answered"}
           /\ sub[s].explain \in Explanations \cup {Unanswered}
           /\ sub[s].key \in 0 .. keysMade
           /\ sub[s].elsewhere \subseteq Hosts /\ sub[s].unknown \in BOOLEAN
    /\ storedKey \in 0 .. keysMade
    /\ reuse \subseteq [key : 1 .. keysMade, pwd : Passwords, host : Hosts]
    /\ keysMade \in Nat /\ wiping \in {"no", "settings cleared"}
    /\ reuseWipes \in 0 .. MaxWipes /\ pwStops \in 0 .. MaxPwStops /\ submitted \in 0 .. MaxSubmitted
    /\ rangeAsked \subseteq Passwords /\ usedAt \subseteq Passwords \X Hosts /\ mingled \in BOOLEAN

ReuseInit ==
    /\ sub = [s \in Submissions |-> Resting]
    /\ storedKey = NoKey /\ reuse = {} /\ keysMade = 0
    /\ wiping = "no" /\ reuseWipes = 0 /\ pwStops = 0 /\ submitted = 0
    /\ rangeAsked = {} /\ usedAt = {} /\ mingled = FALSE

(* A content script hands over the digest and the host.                    *)
Submits(s) ==
    /\ ~ Busy(s) /\ submitted < MaxSubmitted
    /\ submitted' = submitted + 1
    /\ \E pwd \in Passwords, host \in Hosts :
           /\ sub' = [sub EXCEPT ![s] = [Resting EXCEPT !.at = "checking", !.pwd = pwd, !.host = host]]
           /\ usedAt' = usedAt \cup {<<pwd, host>>}
    /\ mingled' = (mingled \/ wiping # "no" \/ \E other \in Submissions \ {s} : Busy(other))
    /\ UNCHANGED <<storedKey, reuse, keysMade, wiping, reuseWipes, pwStops, rangeAsked>>

-----------------------------------------------------------------------------
(* checkPassword: the list answers first and ends the question.            *)
InList(pwd) == pwd \in Common

Judged(s, explain) == [sub EXCEPT ![s].explain = explain, ![s].at = "keyless"]

CheckList(s) ==
    /\ sub[s].at = "checking"
    /\ IF InList(sub[s].pwd)
         THEN sub' = Judged(s, "in-common-list") /\ UNCHANGED rangeAsked
         ELSE /\ sub' = [sub EXCEPT ![s].at = "asking"]
              /\ rangeAsked' = rangeAsked \cup {sub[s].pwd}
    /\ UNCHANGED <<storedKey, reuse, keysMade, wiping, reuseWipes, pwStops, submitted, usedAt, mingled>>

(* countIn, of the bucket the service sends, padded with suffixes of count *)
(* zero: a padding line is no breach, a line that does not parse no answer. *)
Bucket(pwd) == IF pwd \in Breached THEN {"counted", "garbled"} ELSE {"none", "zero", "garbled"}
CountIn(line) ==
    CASE line = "counted"         -> "found"
      [] line \in {"none", "zero"} -> "absent"
      [] OTHER                    -> "unreadable"

RangeAnswers(s) ==
    /\ sub[s].at = "asking"
    /\ \/ \E line \in Bucket(sub[s].pwd) : sub' = Judged(s, CountIn(line))
       \/ sub' = Judged(s, "unreachable")
    /\ UNCHANGED <<storedKey, reuse, keysMade, wiping, reuseWipes, pwStops, submitted, rangeAsked, usedAt,
                   mingled>>

-----------------------------------------------------------------------------
(* reuseKey: the stored key, or a new one and then a write.                *)
ReadKey(s) ==
    /\ sub[s].at = "keyless"
    /\ IF storedKey # NoKey
         THEN /\ sub' = [sub EXCEPT ![s].key = storedKey, ![s].at = "tagged"]
              /\ UNCHANGED keysMade
         ELSE /\ keysMade' = keysMade + 1
              /\ sub' = [sub EXCEPT ![s].key = keysMade', ![s].at = "keying"]
    /\ UNCHANGED <<storedKey, reuse, wiping, reuseWipes, pwStops, submitted, rangeAsked, usedAt, mingled>>

KeyKeptInMemory(key) == storedKey
KeyWritten(key) == key

PutKey(s) ==
    /\ sub[s].at = "keying"
    /\ storedKey' = KeyWritten(sub[s].key)
    /\ sub' = [sub EXCEPT ![s].at = "tagged"]
    /\ UNCHANGED <<reuse, keysMade, wiping, reuseWipes, pwStops, submitted, rangeAsked, usedAt, mingled>>

(* reuseOf: the rows of this tag, and whether there are any.               *)
OfThisTag(row, s) == row.key = sub[s].key /\ row.pwd = sub[s].pwd

ReadIndex(s) ==
    /\ sub[s].at = "tagged"
    /\ LET matching == {row \in reuse : OfThisTag(row, s)}
           here == \E row \in matching : row.host = sub[s].host
       IN sub' = [sub EXCEPT ![s].elsewhere = {row.host : row \in matching} \ {sub[s].host},
                             ![s].unknown = matching = {},
                             ![s].at = IF here THEN "answered" ELSE "recording"]
    /\ UNCHANGED <<storedKey, reuse, keysMade, wiping, reuseWipes, pwStops, submitted, rangeAsked, usedAt,
                   mingled>>

RecordUse(s) ==
    /\ sub[s].at = "recording"
    /\ reuse' = reuse \cup {[key |-> sub[s].key, pwd |-> sub[s].pwd, host |-> sub[s].host]}
    /\ sub' = [sub EXCEPT ![s].at = "answered"]
    /\ UNCHANGED <<storedKey, keysMade, wiping, reuseWipes, pwStops, submitted, rangeAsked, usedAt, mingled>>

(* No key or no index: the reuse half is unknown, never "nowhere else".    *)
IndexFails(s) ==
    /\ sub[s].at \in {"keyless", "keying", "tagged", "recording"}
    /\ sub' = [sub EXCEPT ![s].elsewhere = {}, ![s].unknown = TRUE, ![s].at = "answered"]
    /\ UNCHANGED <<storedKey, reuse, keysMade, wiping, reuseWipes, pwStops, submitted, rangeAsked, usedAt,
                   mingled>>

-----------------------------------------------------------------------------
(* wipeAll, in the order of STORES: settings, and later reuse; a store     *)
(* that cannot be cleared is named and the next one is tried.              *)
WipeKey ==
    /\ wiping = "no" /\ reuseWipes < MaxWipes
    /\ reuseWipes' = reuseWipes + 1
    /\ wiping' = "settings cleared"
    /\ storedKey' \in {NoKey, storedKey}
    /\ mingled' = (mingled \/ \E s \in Submissions : Busy(s))
    /\ UNCHANGED <<sub, reuse, keysMade, pwStops, submitted, rangeAsked, usedAt>>

WipeReuse ==
    /\ wiping # "no"
    /\ wiping' = "no"
    /\ \/ reuse' = {} /\ UNCHANGED mingled
       \/ reuse' = reuse /\ mingled' = TRUE
    /\ UNCHANGED <<sub, storedKey, keysMade, reuseWipes, pwStops, submitted, rangeAsked, usedAt>>

ReuseStop ==
    /\ pwStops < MaxPwStops /\ \E s \in Submissions : Busy(s)
    /\ pwStops' = pwStops + 1
    /\ sub' = [s \in Submissions |-> IF Busy(s) THEN Resting ELSE sub[s]]
    /\ UNCHANGED <<storedKey, reuse, keysMade, wiping, reuseWipes, submitted, rangeAsked, usedAt, mingled>>

ReuseNext ==
    \/ \E s \in Submissions :
           \/ Submits(s) \/ CheckList(s) \/ RangeAnswers(s) \/ ReadKey(s) \/ PutKey(s)
           \/ ReadIndex(s) \/ RecordUse(s) \/ IndexFails(s)
    \/ WipeKey \/ WipeReuse \/ ReuseStop

ReuseSpec == ReuseInit /\ [][ReuseNext]_reuseVars

-----------------------------------------------------------------------------
(* A password of the built-in list costs no request: not even its prefix   *)
(* leaves the device (password.ts:10-14, the order is the guarantee).      *)
CommonNeverAsked == rangeAsked \cap Common = {}

(* A clean bill is the service's: "absent" is only said of a password that *)
(* was asked about and is in no breach; and no password is called          *)
(* breached that neither the list nor the service names.                   *)
NoVerdictUnearned ==
    \A s \in Submissions :
        /\ sub[s].explain = "absent" => sub[s].pwd \in rangeAsked \ Breached
        /\ sub[s].explain = "found" => sub[s].pwd \in Breached

(* The index accuses nobody falsely: a host is named only where this very  *)
(* password was submitted.                                                 *)
NoFalseReuse ==
    \A s \in Submissions : \A host \in sub[s].elsewhere : <<sub[s].pwd, host>> \in usedAt

(* What was recorded can be found again: every row is tagged with the key  *)
(* the next submission will use, unless submissions or a wipe overlapped,  *)
(* or a wipe is under way or could not clear the rows.                     *)
OrphanOnlyByOverlap == mingled \/ wiping # "no" \/ \A row \in reuse : row.key = storedKey

(* Neither the range service nor the index is asked more, says more, or    *)
(* forgets more than it may.                                               *)
IndexIsHonest ==
    /\ ReuseTypeOK /\ CommonNeverAsked /\ NoVerdictUnearned /\ NoFalseReuse
    /\ OrphanOnlyByOverlap
=============================================================================
