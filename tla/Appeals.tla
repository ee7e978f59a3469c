------------------------------ MODULE Appeals ------------------------------
(***************************************************************************)
(* The one thing the service stores: appeal, countAppeals and findAppeal   *)
(* of apps/proxy/src/router.ts, and the sweep of index.ts.                 *)
(*                                                                         *)
(* Each request is a handler of its own over one table; every query is an  *)
(* await between two steps of it, and may fail.  A submission is told      *)
(* apart by where it came from, whether its body fits and reads, whose     *)
(* domain it names and what it says (message and contact together).        *)
(* References are 64 random bits: none is drawn twice.                     *)
(***************************************************************************)
EXTENDS Integers, FiniteSets, FiniteSetsExt

CONSTANTS
    Requests,           \* the requests, numbered in the order they arrive
    Submissions,        \* [site, body, domain, words]
    AppealsPerDomain,   \* APPEALS_PER_DOMAIN
    AppealWindow,       \* APPEAL_WINDOW_MS
    KeptFor,            \* the 180 days of the sweep
    MaxHour             \* bounds the clock

ASSUME AppealsAssumption ==
    /\ Requests \subseteq Nat /\ IsFiniteSet(Requests)
    /\ AppealsPerDomain \in Nat \ {0} /\ AppealWindow \in Nat \ {0}
    /\ KeptFor \in Nat \ {0} /\ MaxHour \in Nat

Nothing == [site |-> "none", body |-> "none", domain |-> "none", words |-> "none"]
Unknown == -1
NoReference == 0

Replies == {"none", "refused", "over budget", "filed", "already filed", "not saved"}

VARIABLES
    appeals,        \* the table: [reference, domain, words, at, by], by a history field
    handler,        \* each request's: step, asked, counted, reply, reference,
                    \* and whether its reads were overtaken or failed (history)
    appealHour,     \* the clock
    drawn           \* how many references have been drawn

appealVars == <<appeals, handler, appealHour, drawn>>

AppealsTypeOK ==
    /\ \A a \in appeals : a.at \in 0 .. appealHour /\ a.reference \in 1 .. drawn /\ a.by \in Requests
    /\ \A r \in Requests :
        /\ handler[r].step \in {"idle", "count", "find", "insert", "done"}
        /\ handler[r].asked \in Submissions \cup {Nothing}
        /\ handler[r].counted \in Nat \cup {Unknown}
        /\ handler[r].reply \in Replies
        /\ handler[r].reference \in 0 .. drawn
        /\ handler[r].reference # NoReference <=> handler[r].reply \in {"filed", "already filed"}
        /\ handler[r].blind \in BOOLEAN
    /\ drawn <= Cardinality(Requests)

AppealsInit ==
    /\ appeals = {} /\ appealHour = 0 /\ drawn = 0
    /\ handler = [r \in Requests |-> [step |-> "idle", asked |-> Nothing, counted |-> 0,
                                      reply |-> "none", reference |-> NoReference, blind |-> FALSE]]

-----------------------------------------------------------------------------
(* fromAnAllowedOrigin: no header at all is not a browser.                 *)
FromAnAllowedOrigin(s) == s.site \in {"own", "absent"}

(* What is refused before the database is asked anything: another site's   *)
(* form, a body over the limit, one that is not JSON, or no public domain. *)
Acceptable(s) == FromAnAllowedOrigin(s) /\ s.body = "read" /\ s.domain # "none"

Moved(r, step) == [handler EXCEPT ![r].step = step]
Replied(h, r, reply, reference) ==
    [h EXCEPT ![r].step = "done", ![r].reply = reply, ![r].reference = reference]

(* Later submissions wait for the earlier to have arrived: their numbers.  *)
Arrive(r) ==
    /\ handler[r].step = "idle"
    /\ \A q \in Requests : q < r => handler[q].step # "idle"
    /\ \E s \in Submissions :
        LET asking == [handler EXCEPT ![r].asked = s, ![r].step = "count"] IN
        handler' = IF Acceptable(s) THEN asking
                   ELSE Replied(asking, r, "refused", NoReference)
    /\ UNCHANGED <<appeals, appealHour, drawn>>

Recent(domain) == {a \in appeals : a.domain = domain /\ a.at > appealHour - AppealWindow}

UnderBudget(n) == n < AppealsPerDomain

(* A database that cannot be counted does not refuse the appeal.           *)
CountAppeals(r) ==
    /\ handler[r].step = "count"
    /\ LET n == Cardinality(Recent(handler[r].asked.domain)) IN
       \/ handler' = IF UnderBudget(n) THEN [Moved(r, "find") EXCEPT ![r].counted = n]
                     ELSE Replied(handler, r, "over budget", NoReference)
       \/ handler' = [Moved(r, "find") EXCEPT ![r].counted = Unknown, ![r].blind = TRUE]
    /\ UNCHANGED <<appeals, appealHour, drawn>>

SameThisHour(a, s) == a.domain = s.domain /\ a.words = s.words /\ a.at > appealHour - AppealWindow
SameAppeal(a, s) == a.domain = s.domain /\ a.words = s.words

FindAppeal(r) ==
    /\ handler[r].step = "find"
    /\ LET already == {a \in appeals : SameAppeal(a, handler[r].asked)} IN
       \/ /\ already = {} /\ handler' = Moved(r, "insert")
       \/ \E a \in already : handler' = Replied(handler, r, "already filed", a.reference)
       \/ handler' = [Moved(r, "insert") EXCEPT ![r].blind = TRUE]
    /\ UNCHANGED <<appeals, appealHour, drawn>>

Row(r, reference) == [reference |-> reference, domain |-> handler[r].asked.domain,
                      words |-> handler[r].asked.words, at |-> appealHour, by |-> r]

(* Whoever has read this domain's rows and not answered has read too soon. *)
Overtaken(h, r) ==
    [q \in Requests |->
        [h[q] EXCEPT !.blind = @ \/ (/\ q # r /\ h[q].step \in {"find", "insert"}
                                     /\ h[q].asked.domain = h[r].asked.domain)]]

WhenWritten(written, reference) == IF written THEN reference ELSE NoReference

(* The key conflict the code expects here needs a reference drawn twice.   *)
Insert(r) ==
    /\ handler[r].step = "insert"
    /\ drawn' = drawn + 1
    /\ \E written \in BOOLEAN :
        /\ appeals' = IF written THEN appeals \cup {Row(r, drawn')} ELSE appeals
        /\ handler' = Replied(IF written THEN Overtaken(handler, r) ELSE handler, r,
                              IF written THEN "filed" ELSE "not saved",
                              WhenWritten(written, drawn'))
    /\ UNCHANGED appealHour

HourPasses ==
    /\ appealHour < MaxHour
    /\ appealHour' = appealHour + 1
    /\ UNCHANGED <<appeals, handler, drawn>>

SweptWhenOlder(a) == a.at < appealHour - KeptFor

SweepAppeals ==
    /\ \E a \in appeals : SweptWhenOlder(a)
    /\ appeals' = {a \in appeals : ~ SweptWhenOlder(a)}
    /\ UNCHANGED <<handler, appealHour, drawn>>

AppealsNext ==
    \/ HourPasses \/ SweepAppeals
    \/ \E r \in Requests : Arrive(r) \/ CountAppeals(r) \/ FindAppeal(r) \/ Insert(r)

AppealsSpec == AppealsInit /\ [][AppealsNext]_appealVars

-----------------------------------------------------------------------------
(* The hourly budget of a domain (router.ts:634-651) is passed only by a   *)
(* request whose count another one overtook, or that could not count.      *)
BudgetPassedOnlyBlind ==
    \A d \in {a.domain : a \in appeals} :
        Cardinality(Recent(d)) > AppealsPerDomain =>
            \E a \in Recent(d) : handler[a.by].blind

(* The same appeal is on file twice only when the second request was       *)
(* overtaken between its lookup and its insert, or could not look.         *)
RepeatOnlyBlind ==
    \A a, b \in appeals :
        a # b /\ a.domain = b.domain /\ a.words = b.words => handler[a.by].blind \/ handler[b.by].blind

(* The owner quoting a reference has an appeal behind it: a reply naming   *)
(* one was given for a row of that reference with the very words asked,    *)
(* until the sweep removes it; and a request told nothing was saved has    *)
(* left no row.                                                            *)
ReferenceStands ==
    \A r \in Requests :
        /\ handler[r].reference # NoReference =>
             \/ \E a \in appeals : /\ a.reference = handler[r].reference
                                   /\ a.domain = handler[r].asked.domain
                                   /\ a.words = handler[r].asked.words
             \/ appealHour > KeptFor
        /\ handler[r].reply \in {"refused", "over budget", "not saved"} =>
             \A a \in appeals : a.by # r

(* An appeal leaves the table only once its 180 days are over              *)
(* (apps/proxy/src/index.ts:16-20).                                        *)
KeptItsTime ==
    [][\A a \in appeals \ appeals' : appealHour - a.at > KeptFor]_appealVars

(* An appeal is on file once, within the budget, and under the reference   *)
(* its owner was given, but where one request overtook another.            *)
AppealsAreOnFile ==
    /\ AppealsTypeOK /\ BudgetPassedOnlyBlind /\ RepeatOnlyBlind
    /\ ReferenceStands
=============================================================================
