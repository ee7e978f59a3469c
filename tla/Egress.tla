------------------------------- MODULE Egress -------------------------------
(***************************************************************************)
(* The single way out: packages/net/src/request.ts with the audit write    *)
(* the background gives it (auditDeps, spaceAwareWrite, pruneExpired).     *)
(*                                                                         *)
(* "Order is the whole design": the audit row is written first and a       *)
(* failure to write it cancels the request.  Requests run concurrently     *)
(* over one device of bounded room; a write that finds no room sweeps the  *)
(* expired rows once and tries once more.  The worker can stop anywhere,   *)
(* and the user can wipe the log at any time.                              *)
(***************************************************************************)
EXTENDS Integers, FiniteSets

CONSTANTS
    Requests,     \* the calls of request() there will be
    Relics,       \* rows an earlier life of the extension left in the log
    Room          \* how many rows the device holds

Outcomes == {"sent", "blocked", "failed"}
Row == [of : Requests \cup Relics, outcome : Outcomes]
RowOf(r, outcome) == [of |-> r, outcome |-> outcome]

ASSUME EgressAssumption ==
    /\ Requests \cap Relics = {}
    /\ IsFiniteSet(Requests) /\ IsFiniteSet(Relics)
    /\ Room \in Nat /\ Cardinality(Relics) <= Room

(* What a caller can hand over: findForbiddenContent and                   *)
(* allowedDestination look at the request, they change nothing.            *)
RequestKinds == {"clean", "unknown purpose", "malformed url", "forbidden content", "foreign host"}

VARIABLES
    kind,         \* per request: what the caller handed over
    pc,           \* per request: the await it stands at, or how it ended
    writing,      \* per request: the outcome of the row it is writing
    log,          \* the outbound_log store
    aged,         \* the rows whose ninety days are over
    other,        \* rows' worth of room the other stores take
    left,         \* history: the requests handed to the network
    cleared       \* history: the rows a sweep or the user removed

requestVars == <<kind, pc, writing>>
egressVars == <<kind, pc, writing, log, aged, other, left, cleared>>

Ended == {"refused", "unsent", "answered", "failed", "lost"}

EgressTypeOK ==
    /\ kind \in [Requests -> RequestKinds]
    /\ pc \in [Requests -> {"new", "write", "sweep", "rewrite", "send", "wait"} \cup Ended]
    /\ writing \in [Requests -> Outcomes]
    /\ log \subseteq Row
    /\ aged \subseteq log
    /\ other \in 0 .. Room
    /\ left \subseteq Requests
    /\ cleared \subseteq Row

EgressInit ==
    /\ kind \in [Requests -> RequestKinds]
    /\ pc = [r \in Requests |-> "new"]
    /\ writing = [r \in Requests |-> "sent"]
    /\ log = {RowOf(r, "sent") : r \in Relics}
    /\ aged = {}
    /\ other = 0
    /\ left = {}
    /\ cleared = {}

Free == Room - other - Cardinality(log)

Move(r, here, there) ==
    /\ pc[r] = here
    /\ pc' = [pc EXCEPT ![r] = there]

-----------------------------------------------------------------------------
(* request(): the refusals that never reach the log, then those that do.   *)

RefuseUnlogged(r) ==
    /\ kind[r] \in {"unknown purpose", "malformed url"}
    /\ Move(r, "new", "refused")
    /\ UNCHANGED <<kind, writing, log, aged, other, left, cleared>>

Audit(r) ==
    /\ kind[r] \in {"clean", "forbidden content", "foreign host"}
    /\ Move(r, "new", "write")
    /\ writing' = [writing EXCEPT ![r] = IF kind[r] = "clean" THEN "sent" ELSE "blocked"]
    /\ UNCHANGED <<kind, log, aged, other, left, cleared>>

(* Where request() goes on once the row is in. *)
Onward(outcome) ==
    CASE outcome = "sent" -> "send" [] outcome = "blocked" -> "refused" [] OTHER -> "failed"

(* Mutation: a row that cannot be written does not stop the request. *)
Shrugged(outcome) == Onward(outcome)

(* Where it ends when the row could not be written: AuditWriteError in     *)
(* place of sending, the store's error in place of the refusal, or in      *)
(* place of the network's error.                                           *)
Thrown(outcome) == IF outcome = "failed" THEN "failed" ELSE "unsent"

(* The first write. *)
Write(r) ==
    /\ Free > 0
    /\ Move(r, "write", Onward(writing[r]))
    /\ log' = log \cup {RowOf(r, writing[r])}
    /\ UNCHANGED <<kind, writing, aged, other, left, cleared>>

FindNoRoom(r) ==
    /\ Free <= 0
    /\ Move(r, "write", "sweep")
    /\ UNCHANGED <<kind, writing, log, aged, other, left, cleared>>

(* pruneExpired, which may fail half way: that is caught and warned of.    *)
RowsSwept ==
    \E gone \in SUBSET aged :
        /\ log' = log \ gone
        /\ aged' = aged \ gone
        /\ cleared' = cleared \cup gone

Sweep(r) ==
    /\ Move(r, "sweep", "rewrite")
    /\ RowsSwept
    /\ UNCHANGED <<kind, writing, other, left>>

(* The second and last write, and the journal row that reports it, which   *)
(* takes room itself if there is any.                                      *)
Rewrite(r) ==
    /\ Free > 0
    /\ Move(r, "rewrite", Onward(writing[r]))
    /\ log' = log \cup {RowOf(r, writing[r])}
    /\ other' \in {other} \cup IF Free > 1 THEN {other + 1} ELSE {}
    /\ UNCHANGED <<kind, writing, aged, left, cleared>>

StillFull(r) ==
    /\ Free <= 0
    /\ Move(r, "rewrite", Thrown(writing[r]))
    /\ UNCHANGED <<kind, writing, log, aged, other, left, cleared>>

(* The store refuses for a reason of its own. *)
WriteFails(r) ==
    /\ pc[r] \in {"write", "rewrite"}
    /\ pc' = [pc EXCEPT ![r] = Thrown(writing[r])]
    /\ UNCHANGED <<kind, writing, log, aged, other, left, cleared>>

Send(r) ==
    /\ Move(r, "send", "wait")
    /\ left' = left \cup {r}
    /\ UNCHANGED <<kind, writing, log, aged, other, cleared>>

Reply(r) ==
    /\ Move(r, "wait", "answered")
    /\ UNCHANGED <<kind, writing, log, aged, other, left, cleared>>

TransportFails(r) ==
    /\ Move(r, "wait", "write")
    /\ writing' = [writing EXCEPT ![r] = "failed"]
    /\ UNCHANGED <<kind, log, aged, other, left, cleared>>

Step(r) ==
    \/ RefuseUnlogged(r) \/ Audit(r) \/ Write(r) \/ FindNoRoom(r) \/ Sweep(r) \/ Rewrite(r)
    \/ StillFull(r) \/ WriteFails(r) \/ Send(r) \/ Reply(r) \/ TransportFails(r)

-----------------------------------------------------------------------------
(* The device around it *)

(* Ninety days, or a clock set forward. *)
RowAges ==
    /\ \E row \in log \ aged : aged' = aged \cup {row}
    /\ UNCHANGED <<requestVars, log, other, left, cleared>>

(* The scheduled sweep (sweepIfDue). *)
ScheduledSweep ==
    /\ aged # {}
    /\ RowsSwept
    /\ UNCHANGED <<requestVars, other, left>>

OtherStores ==
    /\ other' \in {other - 1, other + 1} \cap 0 .. (Room - Cardinality(log))
    /\ UNCHANGED <<requestVars, log, aged, left, cleared>>

WipeLog ==
    /\ log # {}
    /\ log' = {}
    /\ aged' = {}
    /\ cleared' = cleared \cup log
    /\ UNCHANGED <<requestVars, other, left>>

Stop ==
    /\ \E r \in Requests : pc[r] \notin Ended \cup {"new"}
    /\ pc' = [r \in Requests |-> IF pc[r] \in Ended \cup {"new"} THEN pc[r] ELSE "lost"]
    /\ UNCHANGED <<kind, writing, log, aged, other, left, cleared>>

EgressNext ==
    \/ \E r \in Requests : Step(r)
    \/ RowAges \/ ScheduledSweep \/ OtherStores \/ WipeLog \/ Stop

EgressSpec == EgressInit /\ [][EgressNext]_egressVars

-----------------------------------------------------------------------------
(* Properties *)

(* Whatever reaches the network has its row: nothing but retention or the  *)
(* user removes it, and no crash, full device or second request comes      *)
(* between the two (request.ts, "the thing that permits it").              *)
LoggedBeforeSent == \A r \in left : RowOf(r, "sent") \in log \cup cleared

(* A refusal and a sending exclude each other, in the log and in fact: a   *)
(* "blocked" row stands for a request that never left, and only clean ones *)
(* leave.                                                                  *)
BlockedNeverLeft ==
    \A r \in Requests :
        /\ RowOf(r, "blocked") \in log \cup cleared => r \notin left
        /\ r \in left => kind[r] = "clean"

(* A "failed" row is the second of its request: it left, and was logged so *)
(* before.                                                                 *)
FailedWasSent ==
    \A r \in Requests :
        RowOf(r, "failed") \in log \cup cleared =>
            r \in left /\ RowOf(r, "sent") \in log \cup cleared

(* The rows that were ever written and the network calls that were ever    *)
(* made, read as the story of each request: every step of the many that    *)
(* write, sweep, fail, wipe and stop is one turn of it or none.            *)
Logged(r, outcome) == RowOf(r, outcome) \in log \cup cleared
StoryOfRequest(r) ==
    IF Logged(r, "failed") THEN "failed"
    ELSE IF r \in left THEN "left"
    ELSE IF Logged(r, "blocked") THEN "blocked"
    ELSE IF Logged(r, "sent") THEN "recorded" ELSE "none"

Stories == [r \in Requests |-> StoryOfRequest(r)]

Ledger == INSTANCE OutboundLedger WITH story <- Stories

(* One request, one story, in the ledger's order.                          *)
KeepsTheLedger == Ledger!LedgerSpec

(* The log and the network agree, request by request, at every moment.     *)
OutboundInOrder ==
    /\ EgressTypeOK /\ LoggedBeforeSent /\ BlockedNeverLeft /\ FailedWasSent
=============================================================================
