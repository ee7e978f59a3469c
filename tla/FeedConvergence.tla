--------------------------- MODULE FeedConvergence --------------------------
(***************************************************************************)
(* What BlockingFeed's races leave behind once the environment is calm.    *)
(* Nothing locks the store or the rules, so a refresh that read the old    *)
(* feed or the old exceptions can install last; the code's only remedy is  *)
(* the refreshBlockRules of the worker's next start.                       *)
(*                                                                         *)
(* A behaviour starts with the worker down and whatever rules an earlier   *)
(* race, crash, wipe or refused write left.  From there the user decides   *)
(* nothing, nothing is wiped or fails, and the browser stops the worker    *)
(* only when it has nothing to do; pulls, alarms and the races between the *)
(* launched jobs go on.                                                    *)
(***************************************************************************)
EXTENDS BlockingFeed

PublishedFeeds == {[version |-> v, entries |-> Published[v]] : v \in Versions \cup {Unusable}}

LeftBehind ==
    {{}} \cup {BuildRules(f.entries, excused) : f \in PublishedFeeds, excused \in SUBSET Sites}

CalmInit ==
    /\ feed \in PublishedFeeds \cup {NoFeed}
    /\ exceptions \in SUBSET Sites
    /\ attempted \in BOOLEAN
    /\ installed \in LeftBehind
    /\ worker = FALSE
    /\ alarm \in BOOLEAN
    /\ pc = [j \in Jobs |-> "idle"]
    /\ upd = [j \in Jobs |-> Nothing]
    /\ base = [j \in Jobs |-> Nothing]
    /\ rules = [j \in Jobs |-> {}]
    /\ seen = [j \in Jobs |-> {}]
    /\ fetches = 0
    /\ settled = VersionOf(feed)

CalmNext ==
    \/ \E j \in Jobs : Work(j)
    \/ StopIdle \/ Start \/ StartByAlarm \/ AlarmFires
    \/ SixHoursPass

(* An await that is answered lets its job run on; the next page starts the *)
(* worker; thirty seconds with nothing to do stop it, even if an alarm     *)
(* keeps it busy now and then.                                             *)
CalmFairness ==
    /\ \A j \in Jobs : WF_vars(Work(j))
    /\ WF_vars(Start)
    /\ SF_vars(StopIdle)

CalmSpec == CalmInit /\ [][CalmNext]_vars /\ CalmFairness

-----------------------------------------------------------------------------
(* The browser enforces the row in force with the exceptions in force.     *)
InForce == feed = NoFeed \/ installed = BuildRules(feed.entries, exceptions)

(* Whatever the races left, the rules come to match the store and stay so: *)
(* a revoked site is blocked again, a trusted one is not (index.ts:1089,   *)
(* the refresh at the worker's start).                                     *)
RulesComeIntoForce == <>[]InForce

(* The pulls stop overturning one another: the row stops changing, though  *)
(* each of two racing pulls can undo the other's version.                  *)
FeedSettles == \E f \in PublishedFeeds \cup {NoFeed} : <>[](feed = f)

(* In the calm, the row stops changing and the browser comes to enforce    *)
(* it.                                                                     *)
FeedConverges == RulesComeIntoForce /\ FeedSettles
=============================================================================
