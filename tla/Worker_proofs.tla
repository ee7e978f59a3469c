------------------------------ MODULE Worker_proofs -----------------------
(***************************************************************************)
(* What the parts of the background worker promise, for every value of     *)
(* their constants. One section a part: its inductive invariant, a lemma   *)
(* for each of its steps that can disturb it, and the theorems.            *)
(***************************************************************************)
EXTENDS Messages, Egress, ModelStore, ReuseIndex, LeakLookup, Downloads, Inventory,
        Database, FiniteSetTheorems, TLAPS

-----------------------------------------------------------------------------
(***************************************************************************)
(* Messages, for any number of calls and wants: what a page was answered   *)
(* is done, and no deadline outlives the wait it was set for.              *)
(***************************************************************************)
Caller == [step : Steps, kind : MessageKinds \cup {"none"}, want : Wants \cup {"none"}]

(* AnsweredIsDone is not inductive: an answer on its way must be true      *)
(* already, and nothing of a call may move again once it was answered.     *)
CallInv(c) ==
    /\ callers[c].step # "none" => callers[c].want \in Wants
    /\ handlers[c].at \in {"wire", "working"} => callers[c].step # "none"
    /\ handlers[c].at = "over" => callers[c].step # "none" /\ handlers[c].answer # "none"
    /\ handlers[c].at = "over" /\ handlers[c].answer = "result" /\ callers[c].kind = "acts" =>
           c \in doneFor[callers[c].want]
    /\ callers[c].step = "answered" =>
        /\ handlers[c].at = "none" /\ handlers[c].answer = "result"
        /\ callers[c].kind = "acts" => c \in doneFor[callers[c].want]
    /\ c \in timers => callers[c].step = "waiting"

MessageInv ==
    /\ callers \in [Calls -> Caller] /\ MessageTypeOK
    /\ \A c \in Calls : CallInv(c)

LEMMA MessageInvInit == MessageInit => MessageInv
BY DEF MessageInit, MessageInv, MessageTypeOK, CallInv, Caller, Steps, MessageKinds, NotCalling, NoHandler

-----------------------------------------------------------------------------
(* Most steps are about one call; the others keep what they have.          *)
LEMMA OtherCallsStand ==
    ASSUME MessageInv, NEW c \in Calls, NEW d \in Calls, d # c,
           callers'[d] = callers[d], handlers'[d] = handlers[d], timers' \ {c} = timers \ {c},
           \A w \in Wants : d \in doneFor[w] => d \in doneFor'[w]
    PROVE  CallInv(d)'
BY DEF MessageInv, CallInv

LEMMA SendKeeps == ASSUME MessageInv, NEW c \in Calls, SendMessage(c) PROVE MessageInv'
<1>1. PICK k \in MessageKinds, w \in Wants :
        callers' = [callers EXCEPT ![c] = [step |-> "waiting", kind |-> k, want |-> w]]
  BY DEF SendMessage
<1>2. callers' \in [Calls -> Caller] /\ MessageTypeOK'
  BY <1>1 DEF SendMessage, Armed, MessageInv, MessageTypeOK, Caller, Steps
<1>3. CallInv(c)'
  BY <1>1 DEF SendMessage, NextCall, MessageInv, CallInv, MessageTypeOK
<1>4. ASSUME NEW d \in Calls, d # c PROVE CallInv(d)'
  BY <1>1, <1>4, OtherCallsStand DEF SendMessage, Armed, MessageInv, MessageTypeOK
<1>5. QED
  BY <1>2, <1>3, <1>4 DEF MessageInv

(* A step of the worker's side of one call.                                *)
LEMMA HandlerKeeps ==
    ASSUME MessageInv, NEW c \in Calls, Receive(c) \/ HandlerEnds(c) \/ Dropped(c)
    PROVE  MessageInv'
<1>1. handlers' \in [Calls -> [at : {"none", "wire", "working", "over", "lost"},
                               answer : {"none", "result", "failed", "unsupported"}]]
  BY DEF Receive, HandlerEnds, Dropped, MessageInv, MessageTypeOK
<1>2. callers' \in [Calls -> Caller] /\ MessageTypeOK'
  BY <1>1 DEF Receive, HandlerEnds, Dropped, MessageInv, MessageTypeOK
<1>3. CallInv(c)'
  <2>1. CASE Receive(c)
    BY <2>1 DEF Receive, MessageInv, CallInv, MessageTypeOK
  <2>2. CASE HandlerEnds(c)
    BY <2>2 DEF HandlerEnds, MessageInv, CallInv, MessageTypeOK
  <2>3. CASE Dropped(c)
    BY <2>3 DEF Dropped, MessageInv, CallInv, MessageTypeOK
  <2>4. QED
    BY <2>1, <2>2, <2>3
<1>4. ASSUME NEW d \in Calls, d # c PROVE CallInv(d)'
  BY <1>4, OtherCallsStand DEF Receive, HandlerEnds, Dropped, MessageInv, MessageTypeOK
<1>5. QED
  BY <1>2, <1>3, <1>4 DEF MessageInv

LEMMA WriteAnswerKeeps == ASSUME MessageInv, NEW c \in Calls, HandlerWrites(c) PROVE MessageInv'
<1>1. callers[c].want \in Wants
  BY DEF HandlerWrites, MessageInv, CallInv
<1>2. callers' \in [Calls -> Caller] /\ MessageTypeOK'
  BY <1>1 DEF HandlerWrites, MessageInv, MessageTypeOK
<1>3. \A d \in Calls, w \in Wants : d \in doneFor[w] => d \in doneFor'[w]
  BY <1>1 DEF HandlerWrites, MessageInv, MessageTypeOK
<1>4. ASSUME NEW d \in Calls PROVE CallInv(d)'
  BY <1>3, <1>4 DEF HandlerWrites, MessageInv, CallInv
<1>5. QED
  BY <1>2, <1>4 DEF MessageInv

LEMMA ReplyKeeps == ASSUME MessageInv, NEW c \in Calls, ReplyArrives(c) PROVE MessageInv'
<1>1. callers' \in [Calls -> Caller] /\ MessageTypeOK'
  BY DEF ReplyArrives, Stopped, MessageInv, MessageTypeOK, Caller, Steps
<1>2. CallInv(c)'
  BY DEF ReplyArrives, Stopped, IsErrorAnswer, MessageInv, CallInv, MessageTypeOK, Caller, Steps
<1>3. ASSUME NEW d \in Calls, d # c PROVE CallInv(d)'
  BY <1>3, OtherCallsStand DEF ReplyArrives, Stopped, MessageInv, MessageTypeOK
<1>4. QED
  BY <1>1, <1>2, <1>3 DEF MessageInv

LEMMA DeadlineKeeps == ASSUME MessageInv, NEW c \in Calls, DeadlinePasses(c) PROVE MessageInv'
<1>1. callers' \in [Calls -> Caller] /\ MessageTypeOK'
  BY DEF DeadlinePasses, MessageInv, MessageTypeOK, Caller, Steps
<1>2. CallInv(c)'
  BY DEF DeadlinePasses, MessageInv, CallInv, MessageTypeOK, Caller, Steps
<1>3. ASSUME NEW d \in Calls, d # c PROVE CallInv(d)'
  BY <1>3, OtherCallsStand DEF DeadlinePasses, MessageInv, MessageTypeOK
<1>4. QED
  BY <1>1, <1>2, <1>3 DEF MessageInv

LEMMA StopKeeps == ASSUME MessageInv, WorkerStops PROVE MessageInv'
<1>1. callers' \in [Calls -> Caller] /\ MessageTypeOK'
  BY DEF WorkerStops, MessageInv, MessageTypeOK
<1>2. ASSUME NEW d \in Calls PROVE CallInv(d)'
  BY <1>2 DEF WorkerStops, MessageInv, CallInv, MessageTypeOK
<1>3. QED
  BY <1>1, <1>2 DEF MessageInv

LEMMA MessageInvStep == MessageInv /\ [MessageNext]_messageVars => MessageInv'
<1> SUFFICES ASSUME MessageInv, [MessageNext]_messageVars PROVE MessageInv'
  OBVIOUS
<1>1. CASE UNCHANGED messageVars
  BY <1>1 DEF messageVars, MessageInv, MessageTypeOK, CallInv
<1>2. CASE MessageNext
  BY <1>2, SendKeeps, HandlerKeeps, WriteAnswerKeeps, ReplyKeeps, DeadlineKeeps, StopKeeps DEF MessageNext
<1>3. QED
  BY <1>1, <1>2

LEMMA MessageInvAlways == MessageSpec => []MessageInv
BY MessageInvInit, MessageInvStep, PTL DEF MessageSpec

(* A page that holds an answer to what it wanted done can rely on it       *)
(* (adapter.ts: an error answer is a failure, not a result).               *)
THEOREM AnswersHold == MessageSpec => []AnsweredIsDone
<1>1. MessageInv => AnsweredIsDone
  BY DEF MessageInv, CallInv, AnsweredIsDone
<1>2. QED
  BY <1>1, MessageInvAlways, PTL

(* No deadline runs on behind a call that has ended (withDeadline's        *)
(* finally).                                                               *)
THEOREM TimersEnd == MessageSpec => []NoTimerLeft
<1>1. MessageInv => NoTimerLeft
  BY DEF MessageInv, CallInv, MessageTypeOK, NoTimerLeft
<1>2. QED
  BY <1>1, MessageInvAlways, PTL

-----------------------------------------------------------------------------
(***************************************************************************)
(* Egress, for any number of requests on a device of any size: nothing     *)
(* reaches the network without its row, and the rows of one request tell   *)
(* one story.                                                              *)
(***************************************************************************)
(* LoggedBeforeSent is not inductive: a request about to be sent must have *)
(* its row already, one that is writing its second row must have left, and *)
(* what is written must be what the kind of the request calls for.         *)
StoryOf(r) ==
    /\ r \in left => kind[r] = "clean" /\ Logged(r, "sent")
    /\ pc[r] = "send" => kind[r] = "clean" /\ Logged(r, "sent")
    /\ pc[r] = "wait" => r \in left
    /\ pc[r] = "new" => r \notin left
    /\ pc[r] \in {"write", "sweep", "rewrite"} =>
        /\ writing[r] = "sent" => kind[r] = "clean" /\ r \notin left
        /\ writing[r] = "blocked" => kind[r] # "clean"
        /\ writing[r] = "failed" => r \in left
    /\ Logged(r, "sent") => kind[r] = "clean"
    /\ Logged(r, "blocked") => kind[r] # "clean"
    /\ Logged(r, "failed") => r \in left

EgressInv == EgressTypeOK /\ \A r \in Requests : StoryOf(r)

LEMMA RowsDiffer ==
    ASSUME NEW r, NEW s, NEW o, NEW p, RowOf(r, o) = RowOf(s, p)
    PROVE  r = s /\ o = p
BY DEF RowOf

(* There are finitely many rows, so the log has a size.                    *)
LEMMA LogHasSize ==
    ASSUME log \subseteq Row
    PROVE  Cardinality(log) \in Nat
<1> DEFINE Pairs == (Requests \cup Relics) \X Outcomes
           make == [p \in Pairs |-> RowOf(p[1], p[2])]
<1>1. IsFiniteSet(Outcomes)
  <2>1. Outcomes = {"sent", "blocked"} \cup {"failed"} /\ {"sent", "blocked"} = {"sent"} \cup {"blocked"}
    BY DEF Outcomes
  <2>2. QED
    BY <2>1, FS_Singleton, FS_Union
<1>2. IsFiniteSet(Pairs)
  BY <1>1, EgressAssumption, FS_Union, FS_Product
<1>3. make \in Surjection(Pairs, Row)
  <2>1. \A p \in Pairs : make[p] \in Row
    BY DEF Row, RowOf
  <2>2. ASSUME NEW row \in Row PROVE \E p \in Pairs : make[p] = row
    <3>1. <<row.of, row.outcome>> \in Pairs
      BY <2>2 DEF Row
    <3>2. make[<<row.of, row.outcome>>] = row
      BY <2>2, <3>1 DEF Row, RowOf
    <3>3. QED
      BY <3>1, <3>2
  <2>3. QED
    BY <2>1, <2>2 DEF Surjection
<1>4. IsFiniteSet(Row)
  BY <1>2, <1>3, FS_Surjection
<1>5. QED
  BY <1>4, FS_Subset, FS_CardinalityType

LEMMA EgressInvInit == EgressInit => EgressInv
<1> SUFFICES ASSUME EgressInit PROVE EgressInv
  OBVIOUS
<1>1. EgressTypeOK
  BY EgressAssumption DEF EgressInit, EgressTypeOK, Row, RowOf, Outcomes
<1>2. ASSUME NEW r \in Requests PROVE StoryOf(r)
  <2>1. \A outcome \in Outcomes : ~Logged(r, outcome)
    BY EgressAssumption, RowsDiffer DEF EgressInit, Logged, RowOf
  <2>2. QED
    BY <2>1 DEF EgressInit, StoryOf, Outcomes
<1>3. QED
  BY <1>1, <1>2 DEF EgressInv

-----------------------------------------------------------------------------
(* One row written: the log holds it and everything it held.               *)
LEMMA WrittenKeepsStory ==
    ASSUME EgressInv, NEW r \in Requests, pc[r] \in {"write", "rewrite"},
           pc' = [pc EXCEPT ![r] = Onward(writing[r])],
           log' = log \cup {RowOf(r, writing[r])},
           other' \in 0 .. Room, UNCHANGED <<kind, writing, aged, left, cleared>>
    PROVE  EgressInv'
<1>1. writing[r] \in Outcomes /\ RowOf(r, writing[r]) \in Row
  BY DEF EgressInv, EgressTypeOK, RowOf, Row
<1>2. Onward(writing[r]) \in {"send", "refused", "failed"}
  BY DEF Onward
<1>3. EgressTypeOK'
  BY <1>1, <1>2 DEF EgressInv, EgressTypeOK, Ended
<1>4. ASSUME NEW s \in Requests, s # r PROVE StoryOf(s)'
  <2>1. \A o : RowOf(s, o) # RowOf(r, writing[r])
    BY <1>4 DEF RowOf
  <2>2. \A o \in Outcomes : Logged(s, o)' <=> Logged(s, o)
    BY <2>1 DEF Logged
  <2>3. pc'[s] = pc[s] /\ StoryOf(s)
    BY <1>4 DEF EgressInv, EgressTypeOK
  <2>4. QED
    BY <2>2, <2>3 DEF StoryOf, Outcomes
<1>5. StoryOf(r)'
  <2>1. \A o \in Outcomes : Logged(r, o)' <=> Logged(r, o) \/ o = writing[r]
    BY RowsDiffer DEF Logged
  <2>2. pc'[r] = Onward(writing[r]) /\ StoryOf(r)
    BY DEF EgressInv, EgressTypeOK
  <2>3. CASE writing[r] = "sent"
    BY <2>1, <2>2, <2>3 DEF StoryOf, Outcomes, Onward
  <2>4. CASE writing[r] = "blocked"
    BY <2>1, <2>2, <2>4 DEF StoryOf, Outcomes, Onward
  <2>5. CASE writing[r] = "failed"
    BY <2>1, <2>2, <2>5 DEF StoryOf, Outcomes, Onward
  <2>6. QED
    BY <1>1, <2>3, <2>4, <2>5 DEF Outcomes
<1>6. QED
  BY <1>3, <1>4, <1>5 DEF EgressInv

(* Rows that leave the log are remembered as cleared.                      *)
LEMMA ClearedKeepsStory ==
    ASSUME EgressInv, log' \cup cleared' = log \cup cleared, log' \subseteq log,
           aged' \subseteq log', UNCHANGED <<kind, writing, left>>,
           other' \in 0 .. Room,
           \/ pc' = pc
           \/ \E r \in Requests : Move(r, "sweep", "rewrite")
    PROVE  EgressInv'
<1>1. EgressTypeOK'
  BY DEF EgressInv, EgressTypeOK, Move
<1>2. ASSUME NEW s \in Requests PROVE StoryOf(s)'
  <2>1. \A o \in Outcomes : Logged(s, o)' <=> Logged(s, o)
    BY DEF Logged
  <2>2. pc'[s] = pc[s] \/ (pc[s] = "sweep" /\ pc'[s] = "rewrite")
    BY DEF EgressInv, EgressTypeOK, Move
  <2>3. QED
    BY <2>1, <2>2 DEF EgressInv, StoryOf, Outcomes
<1>3. QED
  BY <1>1, <1>2 DEF EgressInv

(* A request moves and nothing is written.                                 *)
LEMMA MovedKeepsStory ==
    ASSUME EgressInv, NEW r \in Requests, UNCHANGED <<kind, log, aged, other, cleared>>,
           pc' \in [Requests -> {"new", "write", "sweep", "rewrite", "send", "wait"} \cup Ended],
           writing' \in [Requests -> Outcomes], left' \subseteq Requests,
           \A s \in Requests \ {r} :
               pc'[s] = pc[s] /\ writing'[s] = writing[s] /\ (s \in left' <=> s \in left),
           StoryOf(r)'
    PROVE  EgressInv'
<1>1. EgressTypeOK'
  BY DEF EgressInv, EgressTypeOK
<1>2. ASSUME NEW s \in Requests, s # r PROVE StoryOf(s)'
  BY <1>2 DEF EgressInv, StoryOf, Logged
<1>3. QED
  BY <1>1, <1>2 DEF EgressInv

LEMMA StepKeepsStory ==
    ASSUME EgressInv, NEW r \in Requests, Step(r)
    PROVE  EgressInv'
<1>1. StoryOf(r) /\ writing[r] \in Outcomes /\ kind[r] \in RequestKinds
  BY DEF EgressInv, EgressTypeOK
<1>2. CASE RefuseUnlogged(r)
  <2>1. StoryOf(r)'
    BY <1>1, <1>2 DEF EgressInv, EgressTypeOK, RefuseUnlogged, Move, StoryOf, Logged
  <2>2. QED
    BY <1>2, <2>1, MovedKeepsStory DEF EgressInv, EgressTypeOK, RefuseUnlogged, Move, Ended
<1>3. CASE Audit(r)
  <2>1. writing'[r] \in Outcomes
    BY <1>3 DEF EgressInv, EgressTypeOK, Audit, Outcomes
  <2>2. StoryOf(r)'
    BY <1>1, <1>3 DEF EgressInv, EgressTypeOK, Audit, Move, StoryOf, Logged
  <2>3. QED
    BY <1>3, <2>1, <2>2, MovedKeepsStory DEF EgressInv, EgressTypeOK, Audit, Move
<1>4. CASE Write(r)
  BY <1>4, WrittenKeepsStory DEF Write, Move, EgressInv, EgressTypeOK
<1>5. CASE FindNoRoom(r)
  <2>1. StoryOf(r)'
    BY <1>1, <1>5 DEF EgressInv, EgressTypeOK, FindNoRoom, Move, StoryOf, Logged
  <2>2. QED
    BY <1>5, <2>1, MovedKeepsStory DEF EgressInv, EgressTypeOK, FindNoRoom, Move
<1>6. CASE Sweep(r)
  BY <1>6, ClearedKeepsStory DEF Sweep, RowsSwept, EgressInv, EgressTypeOK
<1>7. CASE Rewrite(r)
  <2>1. other' \in 0 .. Room
    <3>1. CASE other' = other
      BY <3>1 DEF EgressInv, EgressTypeOK
    <3>2. CASE Free > 1 /\ other' = other + 1
      <4>1. other + 1 <= Room
        BY <3>2, LogHasSize, EgressAssumption DEF Free, EgressInv, EgressTypeOK
      <4>2. QED
        BY <3>2, <4>1, EgressAssumption DEF EgressInv, EgressTypeOK
    <3>3. QED
      BY <1>7, <3>1, <3>2 DEF Rewrite
  <2>2. QED
    BY <1>7, <2>1, WrittenKeepsStory DEF Rewrite, Move
<1>8. CASE StillFull(r) \/ WriteFails(r)
  <2>1. /\ pc[r] \in {"write", "rewrite"}
        /\ pc' = [pc EXCEPT ![r] = Thrown(writing[r])]
        /\ UNCHANGED <<kind, writing, log, aged, other, left, cleared>>
    BY <1>8 DEF StillFull, WriteFails, Move
  <2>2. Thrown(writing[r]) \in {"failed", "unsent"}
    BY DEF Thrown
  <2>3. StoryOf(r)'
    BY <1>1, <2>1, <2>2 DEF EgressInv, EgressTypeOK, StoryOf, Logged
  <2>4. QED
    BY <2>1, <2>2, <2>3, MovedKeepsStory DEF EgressInv, EgressTypeOK, Ended
<1>9. CASE Send(r)
  <2>1. StoryOf(r)'
    BY <1>1, <1>9 DEF EgressInv, EgressTypeOK, Send, Move, StoryOf, Logged
  <2>2. QED
    BY <1>9, <2>1, MovedKeepsStory DEF EgressInv, EgressTypeOK, Send, Move
<1>10. CASE Reply(r)
  <2>1. StoryOf(r)'
    BY <1>1, <1>10 DEF EgressInv, EgressTypeOK, Reply, Move, StoryOf, Logged
  <2>2. QED
    BY <1>10, <2>1, MovedKeepsStory DEF EgressInv, EgressTypeOK, Reply, Move, Ended
<1>11. CASE TransportFails(r)
  <2>1. StoryOf(r)'
    BY <1>1, <1>11 DEF EgressInv, EgressTypeOK, TransportFails, Move, StoryOf, Logged
  <2>2. QED
    BY <1>11, <2>1, MovedKeepsStory DEF EgressInv, EgressTypeOK, TransportFails, Move, Outcomes
<1>12. QED
  BY <1>2, <1>3, <1>4, <1>5, <1>6, <1>7, <1>8, <1>9, <1>10, <1>11 DEF Step

LEMMA EgressInvStep == EgressInv /\ [EgressNext]_egressVars => EgressInv'
<1> SUFFICES ASSUME EgressInv, [EgressNext]_egressVars PROVE EgressInv'
  OBVIOUS
<1>1. ASSUME NEW r \in Requests, Step(r) PROVE EgressInv'
  BY <1>1, StepKeepsStory
<1>2. CASE RowAges \/ ScheduledSweep \/ WipeLog
  BY <1>2, ClearedKeepsStory DEF RowAges, ScheduledSweep, WipeLog, RowsSwept, requestVars, EgressInv, EgressTypeOK
<1>3. CASE OtherStores
  <2>1. other' \in 0 .. Room
    BY <1>3, LogHasSize, EgressAssumption DEF OtherStores, EgressInv, EgressTypeOK
  <2>2. QED
    BY <1>3, <2>1, ClearedKeepsStory DEF OtherStores, requestVars, EgressInv, EgressTypeOK
<1>4. CASE Stop
  <2>1. EgressTypeOK'
    BY <1>4 DEF Stop, EgressInv, EgressTypeOK, Ended
  <2>2. ASSUME NEW s \in Requests PROVE StoryOf(s)'
    <3>1. pc'[s] = pc[s] \/ pc'[s] = "lost"
      BY <1>4 DEF Stop
    <3>2. QED
      BY <1>4, <3>1 DEF Stop, EgressInv, StoryOf, Logged
  <2>3. QED
    BY <2>1, <2>2 DEF EgressInv
<1>5. CASE UNCHANGED egressVars
  <2>1. EgressTypeOK'
    BY <1>5 DEF egressVars, EgressInv, EgressTypeOK
  <2>2. \A s \in Requests : StoryOf(s)'
    BY <1>5 DEF egressVars, EgressInv, StoryOf, Logged
  <2>3. QED
    BY <2>1, <2>2 DEF EgressInv
<1>6. QED
  BY <1>1, <1>2, <1>3, <1>4, <1>5 DEF EgressNext

LEMMA EgressInvAlways == EgressSpec => []EgressInv
BY EgressInvInit, EgressInvStep, PTL DEF EgressSpec

LEMMA EgressInvImplies == EgressInv => LoggedBeforeSent /\ BlockedNeverLeft /\ FailedWasSent
<1> SUFFICES ASSUME EgressInv PROVE LoggedBeforeSent /\ BlockedNeverLeft /\ FailedWasSent
  OBVIOUS
<1>1. LoggedBeforeSent
  BY DEF EgressInv, EgressTypeOK, StoryOf, Logged, LoggedBeforeSent
<1>2. BlockedNeverLeft
  BY DEF EgressInv, StoryOf, Logged, BlockedNeverLeft
<1>3. FailedWasSent
  BY DEF EgressInv, StoryOf, Logged, FailedWasSent
<1>4. QED
  BY <1>1, <1>2, <1>3

(* The privacy promise: no request leaves the device unlogged.             *)
THEOREM NothingLeavesUnlogged == EgressSpec => []LoggedBeforeSent
BY EgressInvAlways, EgressInvImplies, PTL

(* What the log calls blocked never left.                                  *)
THEOREM BlockedAlwaysStayed == EgressSpec => []BlockedNeverLeft
BY EgressInvAlways, EgressInvImplies, PTL

(* A "failed" row is never the only word on its request.                   *)
THEOREM FailedAlwaysSent == EgressSpec => []FailedWasSent
BY EgressInvAlways, EgressInvImplies, PTL

(* The state of the log keeps its type, for any requests and any room.     *)
THEOREM LogStaysTyped == EgressSpec => []EgressTypeOK
BY EgressInvAlways, PTL DEF EgressInv

-----------------------------------------------------------------------------
(* The ledger: what one step does to the story of a request is read off    *)
(* the rows and the network calls it made.                                 *)
(* No row and no network call of a request: its story stands.              *)
LEMMA StoryStands ==
    ASSUME NEW s \in Requests, left' = left \/ (s \in left' <=> s \in left),
           \A o \in Outcomes : Logged(s, o)' <=> Logged(s, o)
    PROVE  StoryOfRequest(s)' = StoryOfRequest(s)
BY DEF StoryOfRequest, Outcomes

LEMMA AllStoriesStand ==
    ASSUME left' = left, log' \cup cleared' = log \cup cleared
    PROVE  Stories' = Stories
<1>1. ASSUME NEW s \in Requests PROVE StoryOfRequest(s)' = StoryOfRequest(s)
  BY StoryStands DEF Logged
<1>2. QED
  BY <1>1 DEF Stories

(* The turns a story may take, of one request while the others stand.      *)
LEMMA OneTurns ==
    ASSUME NEW r \in Requests,
           \A s \in Requests \ {r} : StoryOfRequest(s)' = StoryOfRequest(s),
           \/ StoryOfRequest(r) = "none" /\ StoryOfRequest(r)' = "recorded"
           \/ StoryOfRequest(r) = "none" /\ StoryOfRequest(r)' = "blocked"
           \/ StoryOfRequest(r) = "recorded" /\ StoryOfRequest(r)' = "left"
           \/ StoryOfRequest(r) = "left" /\ StoryOfRequest(r)' = "failed"
           \/ StoryOfRequest(r)' = StoryOfRequest(r)
    PROVE  [Ledger!LedgerNext]_Stories
<1>1. Stories' = [Stories EXCEPT ![r] = StoryOfRequest(r)']
  BY DEF Stories
<1>2. CASE StoryOfRequest(r)' = StoryOfRequest(r)
  BY <1>2 DEF Stories
<1>3. CASE StoryOfRequest(r)' # StoryOfRequest(r)
  BY <1>1, <1>3 DEF Stories, Ledger!LedgerNext, Ledger!Record, Ledger!Leave, Ledger!Fail, Ledger!Block, Ledger!Turn
<1>4. QED
  BY <1>2, <1>3

(* A row is written: a turn, or the row the story already holds.           *)
LEMMA RowTurns ==
    ASSUME EgressInv, NEW r \in Requests, pc[r] \in {"write", "rewrite"},
           log' = log \cup {RowOf(r, writing[r])}, UNCHANGED <<left, cleared>>
    PROVE  [Ledger!LedgerNext]_Stories
<1>1. \A s \in Requests \ {r} : StoryOfRequest(s)' = StoryOfRequest(s)
  <2>1. ASSUME NEW s \in Requests \ {r}, NEW o \in Outcomes PROVE Logged(s, o)' <=> Logged(s, o)
    BY RowsDiffer DEF Logged
  <2>2. QED
    BY <2>1, StoryStands
<1>2. \A o \in Outcomes : Logged(r, o)' <=> Logged(r, o) \/ o = writing[r]
  BY RowsDiffer DEF Logged
<1>3. StoryOf(r) /\ writing[r] \in Outcomes
  BY DEF EgressInv, EgressTypeOK
<1>4. CASE writing[r] = "sent"
  BY <1>1, <1>2, <1>3, <1>4, OneTurns DEF StoryOf, StoryOfRequest, Outcomes
<1>5. CASE writing[r] = "blocked"
  BY <1>1, <1>2, <1>3, <1>5, OneTurns DEF StoryOf, StoryOfRequest, Outcomes
<1>6. CASE writing[r] = "failed"
  BY <1>1, <1>2, <1>3, <1>6, OneTurns DEF StoryOf, StoryOfRequest, Outcomes
<1>7. QED
  BY <1>3, <1>4, <1>5, <1>6 DEF Outcomes

LEMMA SendTurns ==
    ASSUME EgressInv, NEW r \in Requests, Send(r)
    PROVE  [Ledger!LedgerNext]_Stories
<1>1. \A s \in Requests, o \in Outcomes : Logged(s, o)' <=> Logged(s, o)
  BY DEF Send, Logged
<1>2. \A s \in Requests \ {r} : StoryOfRequest(s)' = StoryOfRequest(s)
  BY <1>1, StoryStands DEF Send
<1>3. StoryOf(r) /\ pc[r] = "send" /\ r \in left'
  BY DEF Send, Move, EgressInv
<1>4. QED
  BY <1>1, <1>2, <1>3, OneTurns DEF StoryOf, StoryOfRequest, Outcomes

LEMMA LedgerStep == EgressInv /\ [EgressNext]_egressVars => [Ledger!LedgerNext]_Stories
<1> SUFFICES ASSUME EgressInv, [EgressNext]_egressVars PROVE [Ledger!LedgerNext]_Stories
  OBVIOUS
<1>1. ASSUME NEW r \in Requests, Write(r) \/ Rewrite(r) PROVE [Ledger!LedgerNext]_Stories
  BY <1>1, RowTurns DEF Write, Rewrite, Move
<1>2. ASSUME NEW r \in Requests, Send(r) PROVE [Ledger!LedgerNext]_Stories
  BY <1>2, SendTurns
<1>3. ASSUME NEW r \in Requests, Step(r), ~ Write(r), ~ Rewrite(r), ~ Send(r) PROVE Stories' = Stories
  <2>1. left' = left /\ log' \cup cleared' = log \cup cleared
    <3>1. CASE Sweep(r)
      BY <3>1 DEF Sweep, RowsSwept, EgressInv, EgressTypeOK
    <3>2. CASE ~ Sweep(r)
      BY <1>3, <3>2 DEF Step, RefuseUnlogged, Audit, FindNoRoom, StillFull, WriteFails, Reply, TransportFails
    <3>3. QED
      BY <3>1, <3>2
  <2>2. QED
    BY <2>1, AllStoriesStand
<1>4. CASE RowAges \/ ScheduledSweep \/ OtherStores \/ WipeLog \/ Stop \/ UNCHANGED egressVars
  <2>1. left' = left /\ log' \cup cleared' = log \cup cleared
    BY <1>4 DEF RowAges, ScheduledSweep, RowsSwept, OtherStores, WipeLog, Stop, requestVars, egressVars, EgressInv, EgressTypeOK
  <2>2. QED
    BY <2>1, AllStoriesStand
<1>5. QED
  BY <1>1, <1>2, <1>3, <1>4 DEF EgressNext

LEMMA LedgerStarts == EgressInit => Ledger!LedgerInit
<1> SUFFICES ASSUME EgressInit PROVE Ledger!LedgerInit
  OBVIOUS
<1>1. ASSUME NEW r \in Requests PROVE StoryOfRequest(r) = "none"
  <2>1. \A o \in Outcomes : ~Logged(r, o)
    BY EgressAssumption, RowsDiffer DEF EgressInit, Logged, RowOf
  <2>2. QED
    BY <2>1 DEF EgressInit, StoryOfRequest, Outcomes
<1>2. QED
  BY <1>1 DEF Ledger!LedgerInit, Stories

(* Writing, sweeping, failing, wiping and stopping implement the ledger:   *)
(* the record of a request is one story, told in one order.                *)
THEOREM LedgerKept == EgressSpec => KeepsTheLedger
BY EgressInvAlways, LedgerStarts, LedgerStep, PTL DEF EgressSpec, KeepsTheLedger, Ledger!LedgerSpec

(* The log and the network agree at every moment (request.ts).             *)
THEOREM OutboundAlwaysInOrder == EgressSpec => []OutboundInOrder
<1>1. EgressTypeOK /\ LoggedBeforeSent /\ BlockedNeverLeft /\ FailedWasSent => OutboundInOrder
  BY DEF OutboundInOrder
<1>2. QED
  BY <1>1, LogStaysTyped, NothingLeavesUnlogged, BlockedAlwaysStayed, FailedAlwaysSent, PTL

-----------------------------------------------------------------------------
(***************************************************************************)
(* ModelStore, for any managers, versions and backends: a model is fetched *)
(* by consent and on record, and kept and run only as pinned.              *)
(***************************************************************************)
ModelRows == [version : ModelVersions, digest : {Pinned, BadBytes}]
ManagerRecord ==
    [version : ModelVersions \cup {"none"},
     at : {"idle", "reading", "keys", "clearing", "consent", "audit", "request", "failing",
           "digest", "write", "done", "threw"},
     state : {"absent", "declined", "downloading", "ready", "failed"},
     read : SUBSET ModelRows, digest : {"none", Pinned, BadBytes}]

ModelTyped ==
    /\ managers \in [Managers -> ManagerRecord] /\ cache \subseteq ModelRows
    /\ audit \subseteq Managers \X {"sent", "failed"}
    /\ downloadAsked \subseteq Managers /\ consented \subseteq Managers
    /\ \A m \in Managers : managers[m].at \in {"idle"} \/ managers[m].version \in ModelVersions

(* What a fetch has behind it at each of its steps.                        *)
FetchIsAgreed ==
    /\ \A m \in Managers :
        /\ managers[m].at \in {"audit", "request", "failing", "digest", "write"} => m \in consented
        /\ managers[m].at \in {"request", "digest", "write"} => <<m, "sent">> \in audit
        /\ managers[m].at = "write" => managers[m].digest = Pinned
    /\ \A row \in cache : row.digest = Pinned
    /\ AskedOnRecord

(* Alone, a fetch has emptied the cache by the time it writes.             *)
FetchedAlone ==
    ensuredTwice \/
        /\ \A m, n \in Fetching : m = n
        /\ \A m \in Fetching :
            /\ managers[m].at = "clearing" =>
                   {row.version : row \in cache} \subseteq {k.version : k \in managers[m].read}
            /\ managers[m].at \notin {"reading", "keys", "clearing"} => cache = {}
        /\ \A a, b \in cache : a.version = b.version

HostIsHonest ==
    /\ host.status \in {"not-prepared", "ready", "no-host", "no-weights", "no-runtime", "no-backend"}
    /\ host.weights \in {"none", Pinned}
    /\ ReadyHasSomewhere

ModelInv == ModelTyped /\ FetchIsAgreed /\ FetchedAlone /\ HostIsHonest

LEMMA ModelInvInit == ModelInit => ModelInv
<1> SUFFICES ASSUME ModelInit PROVE ModelInv
  OBVIOUS
<1>1. \A m \in Managers : managers[m] = NewManager
  BY DEF ModelInit
<1>2. ModelTyped
  BY <1>1 DEF ModelInit, ModelTyped, NewManager, ManagerRecord
<1>3. FetchIsAgreed /\ Fetching = {}
  BY <1>1 DEF ModelInit, FetchIsAgreed, NewManager, AskedOnRecord, Fetching
<1>4. FetchedAlone /\ HostIsHonest
  BY <1>3 DEF ModelInit, FetchedAlone, HostIsHonest, ReadyHasSomewhere, Unprepared
<1>5. QED
  BY <1>2, <1>3, <1>4 DEF ModelInv

LEMMA ManagersMove ==
    ASSUME NEW x \in ManagerRecord
    PROVE  /\ \A v \in ModelVersions : [x EXCEPT !.at = "reading", !.version = v] \in ManagerRecord
           /\ \A some \in SUBSET ModelRows : [x EXCEPT !.at = "clearing", !.read = some] \in ManagerRecord
  BY DEF ManagerRecord

LEMMA ModelTypedStep == ModelInv /\ [ModelNext]_modelVars => ModelTyped'
<1> SUFFICES ASSUME ModelInv, [ModelNext]_modelVars PROVE ModelTyped'
  OBVIOUS
<1> USE DEF ModelInv, ModelTyped, ManagerRecord, FetchOnly, Go, Settle
<1>1. ASSUME NEW m \in Managers, EnsureStarts(m) PROVE ModelTyped'
  <2>1. PICK v \in ModelVersions : managers' = [managers EXCEPT ![m].at = "reading", ![m].version = v]
    BY <1>1 DEF EnsureStarts
  <2>2. /\ managers'[m] = [managers[m] EXCEPT !.at = "reading", !.version = v]
        /\ \A n \in Managers \ {m} : managers'[n] = managers[n]
    BY <2>1
  <2>b. managers[m] \in ManagerRecord
    OBVIOUS
  <2>a. managers'[m] \in ManagerRecord
    <3> HIDE DEF ModelTyped, ManagerRecord, ModelInv
    <3>1. QED
      BY <2>1, <2>2, <2>b, ManagersMove
  <2>3. managers' \in [Managers -> ManagerRecord]
    BY <2>1, <2>2, <2>a
  <2>4. QED
    BY <1>1, <2>2, <2>3 DEF EnsureStarts
<1>2. ASSUME NEW m \in Managers, ReadsCache(m) PROVE ModelTyped'
  BY <1>2 DEF ReadsCache
<1>3. ASSUME NEW m \in Managers, ReadsKeys(m) PROVE ModelTyped'
  <2>1. managers' = [managers EXCEPT ![m].at = "clearing", ![m].read = cache] /\ cache \in SUBSET ModelRows
    BY <1>3 DEF ReadsKeys, KeysOf
  <2>2. /\ managers'[m] = [managers[m] EXCEPT !.at = "clearing", !.read = cache]
        /\ \A n \in Managers \ {m} : managers'[n] = managers[n]
    BY <2>1
  <2>b. managers[m] \in ManagerRecord
    OBVIOUS
  <2>a. managers'[m] \in ManagerRecord
    <3> HIDE DEF ModelTyped, ManagerRecord, ModelInv
    <3>1. QED
      BY <2>1, <2>2, <2>b, ManagersMove
  <2>3. managers' \in [Managers -> ManagerRecord]
    BY <2>1, <2>2, <2>a
  <2>4. QED
    BY <1>3, <2>2, <2>3 DEF ReadsKeys
<1>4. ASSUME NEW m \in Managers, Clears(m) PROVE ModelTyped'
  BY <1>4 DEF Clears
<1>5. ASSUME NEW m \in Managers, Consents(m) PROVE ModelTyped'
  BY <1>5 DEF Consents
<1>6. ASSUME NEW m \in Managers, WritesSent(m) PROVE ModelTyped'
  BY <1>6 DEF WritesSent, WithoutAudit
<1>7. ASSUME NEW m \in Managers, ModelRequests(m) PROVE ModelTyped'
  BY <1>7 DEF ModelRequests
<1>8. ASSUME NEW m \in Managers, WritesFailed(m) PROVE ModelTyped'
  BY <1>8 DEF WritesFailed
<1>9. ASSUME NEW m \in Managers, ChecksDigest(m) PROVE ModelTyped'
  BY <1>9 DEF ChecksDigest
<1>10. ASSUME NEW m \in Managers, WritesCache(m) PROVE ModelTyped'
  <2>1. managers[m].version \in ModelVersions /\ managers[m].digest \in {Pinned, BadBytes}
    BY <1>10 DEF WritesCache, FetchIsAgreed
  <2>2. cache' \subseteq ModelRows
    BY <1>10, <2>1 DEF WritesCache, ModelRows
  <2>3. QED
    BY <1>10, <2>2 DEF WritesCache
<1>11. CASE ModelsWiped \/ WorkerPrepares \/ WorkerGoes \/ Scores \/ UNCHANGED modelVars
  BY <1>11 DEF ModelsWiped, WorkerPrepares, WorkerGoes, Scores, modelVars
<1>12. QED
  BY <1>1, <1>2, <1>3, <1>4, <1>5, <1>6, <1>7, <1>8, <1>9, <1>10, <1>11 DEF ModelNext

(* Consent comes before the row, the row before the request, the digest    *)
(* before the write.                                                       *)
LEMMA FetchIsAgreedStep == ModelInv /\ [ModelNext]_modelVars => FetchIsAgreed'
<1> SUFFICES ASSUME ModelInv, [ModelNext]_modelVars PROVE FetchIsAgreed'
  OBVIOUS
<1> USE DEF ModelInv, ModelTyped, ManagerRecord, FetchIsAgreed, AskedOnRecord, FetchOnly, Go, Settle
<1>1. ASSUME NEW m \in Managers, EnsureStarts(m) PROVE FetchIsAgreed'
  BY <1>1 DEF EnsureStarts
<1>2. ASSUME NEW m \in Managers, ReadsCache(m) PROVE FetchIsAgreed'
  BY <1>2 DEF ReadsCache
<1>3. ASSUME NEW m \in Managers, ReadsKeys(m) PROVE FetchIsAgreed'
  BY <1>3 DEF ReadsKeys
<1>4. ASSUME NEW m \in Managers, Clears(m) PROVE FetchIsAgreed'
  BY <1>4 DEF Clears
<1>5. ASSUME NEW m \in Managers, Consents(m) PROVE FetchIsAgreed'
  BY <1>5 DEF Consents
<1>6. ASSUME NEW m \in Managers, WritesSent(m) PROVE FetchIsAgreed'
  BY <1>6 DEF WritesSent, WithoutAudit
<1>7. ASSUME NEW m \in Managers, ModelRequests(m) PROVE FetchIsAgreed'
  BY <1>7 DEF ModelRequests
<1>8. ASSUME NEW m \in Managers, WritesFailed(m) PROVE FetchIsAgreed'
  BY <1>8 DEF WritesFailed
<1>9. ASSUME NEW m \in Managers, ChecksDigest(m) PROVE FetchIsAgreed'
  BY <1>9 DEF ChecksDigest, Matches
<1>10. ASSUME NEW m \in Managers, WritesCache(m) PROVE FetchIsAgreed'
  <2>1. managers[m].at = "write" /\ managers[m].digest = Pinned
    BY <1>10 DEF WritesCache
  <2>2. \A row \in cache' : row.digest = Pinned
    BY <1>10, <2>1 DEF WritesCache
  <2>3. /\ managers'[m].at \in {"done", "threw"}
        /\ \A n \in Managers \ {m} : managers'[n] = managers[n]
    BY <1>10 DEF WritesCache
  <2>4. UNCHANGED <<audit, downloadAsked, consented>>
    BY <1>10 DEF WritesCache
  <2>5. QED
    BY <2>2, <2>3, <2>4
<1>11. CASE ModelsWiped \/ WorkerPrepares \/ WorkerGoes \/ Scores \/ UNCHANGED modelVars
  BY <1>11 DEF ModelsWiped, WorkerPrepares, WorkerGoes, Scores, modelVars
<1>12. QED
  BY <1>1, <1>2, <1>3, <1>4, <1>5, <1>6, <1>7, <1>8, <1>9, <1>10, <1>11 DEF ModelNext

LEMMA FetchedAloneStep == ModelInv /\ [ModelNext]_modelVars => FetchedAlone'
<1> SUFFICES ASSUME ModelInv, [ModelNext]_modelVars, ~ ensuredTwice' PROVE FetchedAlone'
  BY DEF FetchedAlone
<1> USE DEF FetchedAlone, Fetching, FetchOnly, Go, Settle
<1>b. ensuredTwice' = ensuredTwice \/ \E m \in Managers : EnsureStarts(m)
  BY DEF ModelNext, ReadsCache, ReadsKeys, Clears, Consents, WritesSent, ModelRequests, WritesFailed,
         ChecksDigest, WritesCache, ModelsWiped, WorkerPrepares, WorkerGoes, Scores, modelVars
<1>c. (\E m \in Managers : EnsureStarts(m)) => ~ ensuredTwice
  BY Zenon DEF EnsureStarts
<1>0. ~ ensuredTwice /\ managers \in [Managers -> ManagerRecord]
  <2>1. ~ ensuredTwice
    BY <1>b, <1>c
  <2>2. QED
    BY <2>1 DEF ModelInv, ModelTyped
<1>a. FetchedAlone
  BY DEF ModelInv
<1> USE DEF ManagerRecord
<1>1. ASSUME NEW m \in Managers, EnsureStarts(m) PROVE FetchedAlone'
  <2>1. PICK v \in ModelVersions : managers' = [managers EXCEPT ![m].at = "reading", ![m].version = v]
    BY <1>1 DEF EnsureStarts
  <2>2. managers'[m].at = "reading" /\ \A n \in Managers \ {m} : managers'[n] = managers[n]
    BY <1>0, <2>1
  <2>3. Fetching = {} /\ cache' = cache
    BY <1>1 DEF EnsureStarts
  <2>4. Fetching' = {m}
    BY <2>2, <2>3
  <2>5. QED
    BY <1>0, <1>a, <2>2, <2>3, <2>4
<1>2. ASSUME NEW m \in Managers, ReadsCache(m) PROVE FetchedAlone'
  BY <1>0, <1>a, <1>2 DEF ReadsCache
<1>3. ASSUME NEW m \in Managers, ReadsKeys(m) PROVE FetchedAlone'
  BY <1>0, <1>a, <1>3 DEF ReadsKeys, KeysOf
<1>4. ASSUME NEW m \in Managers, Clears(m) PROVE FetchedAlone'
  <2>1. cache' = {}
    BY <1>0, <1>a, <1>4 DEF Clears
  <2>2. QED
    BY <1>0, <1>a, <1>4, <2>1 DEF Clears
<1>5. ASSUME NEW m \in Managers, Consents(m) PROVE FetchedAlone'
  BY <1>0, <1>a, <1>5 DEF Consents
<1>6. ASSUME NEW m \in Managers, WritesSent(m) PROVE FetchedAlone'
  BY <1>0, <1>a, <1>6 DEF WritesSent, WithoutAudit
<1>7. ASSUME NEW m \in Managers, ModelRequests(m) PROVE FetchedAlone'
  BY <1>0, <1>a, <1>7 DEF ModelRequests
<1>8. ASSUME NEW m \in Managers, WritesFailed(m) PROVE FetchedAlone'
  BY <1>0, <1>a, <1>8 DEF WritesFailed
<1>9. ASSUME NEW m \in Managers, ChecksDigest(m) PROVE FetchedAlone'
  BY <1>0, <1>a, <1>9 DEF ChecksDigest, Matches
<1>10. ASSUME NEW m \in Managers, WritesCache(m) PROVE FetchedAlone'
  BY <1>0, <1>a, <1>10 DEF WritesCache
<1>11. CASE ModelsWiped \/ WorkerPrepares \/ WorkerGoes \/ Scores \/ UNCHANGED modelVars
  BY <1>0, <1>a, <1>11 DEF ModelsWiped, WorkerPrepares, WorkerGoes, Scores, modelVars
<1>12. QED
  BY <1>1, <1>2, <1>3, <1>4, <1>5, <1>6, <1>7, <1>8, <1>9, <1>10, <1>11 DEF ModelNext

(* prepare looks for a host, the weights, a runtime and a backend, and is  *)
(* ready only when none is missing.                                        *)
LEMMA HostIsHonestStep == ModelInv /\ [ModelNext]_modelVars => HostIsHonest'
<1> SUFFICES ASSUME ModelInv, [ModelNext]_modelVars PROVE HostIsHonest'
  OBVIOUS
<1>a. HostIsHonest /\ \A row \in cache : row.digest = Pinned
  BY DEF ModelInv, FetchIsAgreed
<1>1. CASE WorkerPrepares
  <2>1. PICK where \in HostKind, v \in ModelVersions, runtime \in BOOLEAN, started \in Backends :
          host' = [status |-> StatusOf(where, v, runtime, started), last |-> "none",
                   backend |-> IF StatusOf(where, v, runtime, started) # "ready" THEN "none"
                               ELSE IF where = "offscreen" THEN "remote" ELSE Opened(started),
                   weights |-> IF StatusOf(where, v, runtime, started) = "ready" /\ where = "background"
                               THEN (CHOOSE row \in CacheRead(v) : TRUE).digest ELSE "none"]
    BY <1>1 DEF WorkerPrepares
  <2>2. where \in {"none", "offscreen", "background"}
    BY ModelAssumption
  <2> DEFINE status == StatusOf(where, v, runtime, started)
             row == CHOOSE row \in CacheRead(v) : TRUE
  <2>3. CacheRead(v) # {} => row \in cache
    BY DEF CacheRead
  <2>4. CacheRead(v) # {} => row.digest = Pinned
    BY <1>a, <2>3
  <2>5. CASE where = "none"
    <3>1. status = "no-host"
      BY <2>5 DEF StatusOf
    <3>2. QED
      BY <2>1, <2>5, <3>1 DEF HostIsHonest, ReadyHasSomewhere
  <2>6. CASE where = "offscreen"
    <3>1. status = "ready"
      BY <2>6 DEF StatusOf
    <3>2. QED
      BY <2>1, <2>6, <3>1 DEF HostIsHonest, ReadyHasSomewhere
  <2>7. CASE where = "background"
    <3>1. \/ status \in {"no-weights", "no-runtime", "no-backend"}
          \/ status = "ready" /\ CacheRead(v) # {} /\ Opened(started) \in {"webgpu", "wasm"}
      BY <2>7 DEF StatusOf, Opened
    <3>2. QED
      BY <2>1, <2>4, <2>7, <3>1 DEF HostIsHonest, ReadyHasSomewhere
  <2>8. QED
    BY <2>2, <2>5, <2>6, <2>7
<1>2. CASE WorkerGoes
  BY <1>2 DEF WorkerGoes, HostIsHonest, ReadyHasSomewhere, Unprepared
<1>3. CASE Scores
  BY <1>a, <1>3 DEF Scores, HostIsHonest, ReadyHasSomewhere
<1>4. CASE UNCHANGED host
  BY <1>a, <1>4 DEF HostIsHonest, ReadyHasSomewhere
<1>5. QED
  BY <1>1, <1>2, <1>3, <1>4
  DEF ModelNext, EnsureStarts, ReadsCache, ReadsKeys, Clears, Consents, WritesSent, ModelRequests,
      WritesFailed, ChecksDigest, WritesCache, ModelsWiped, FetchOnly, modelVars

(* What every fetch, the cache and the host keep, whichever two overlap.   *)
THEOREM ModelInvAlways == ModelSpec => []ModelInv
<1>1. ModelInv /\ [ModelNext]_modelVars => ModelInv'
  BY ModelTypedStep, FetchIsAgreedStep, FetchedAloneStep, HostIsHonestStep DEF ModelInv
<1>2. QED
  BY <1>1, ModelInvInit, PTL DEF ModelSpec

(* A model is fetched on record and by consent and runs only as pinned,    *)
(* and two versions are cached only when two fetches overlapped: ensure of *)
(* model/manager.ts and createInferenceHost of background/inference.ts,    *)
(* for any number of fetches and versions.                                 *)
THEOREM ModelsAreAgreed == ModelSpec => []OnlyAgreedModels
<1>1. ModelInv => OnlyAgreedModels
  <2> SUFFICES ASSUME ModelInv PROVE OnlyAgreedModels
    OBVIOUS
  <2>1. ModelTypeOK
    BY DEF ModelInv, ModelTyped, ManagerRecord, ModelRows, HostIsHonest, ModelTypeOK
  <2>2. TwoOnlyByOverlap
    <3> SUFFICES ASSUME ~ ensuredTwice PROVE ~ (Cardinality({row.version : row \in cache}) > 1)
      BY DEF TwoOnlyByOverlap
    <3>1. \A a, b \in cache : a.version = b.version
      BY DEF ModelInv, FetchedAlone
    <3>2. CASE cache = {}
      <4>1. {row.version : row \in cache} = {}
        BY <3>2
      <4>2. QED
        BY <4>1, FS_EmptySet
    <3>3. CASE cache # {}
      <4>1. PICK a \in cache : TRUE
        BY <3>3
      <4> DEFINE v == a.version
      <4>2. {row.version : row \in cache} = {v}
        BY <3>1, <4>1
      <4> HIDE DEF v
      <4>3. Cardinality({v}) = 1
        BY FS_Singleton
      <4>4. QED
        BY <4>2, <4>3
    <3>4. QED
      BY <3>2, <3>3
  <2>3. QED
    BY <2>1, <2>2 DEF ModelInv, FetchIsAgreed, HostIsHonest, OnlyPinnedRuns, OnlyAgreedModels
<1>2. QED
  BY <1>1, ModelInvAlways, PTL

-----------------------------------------------------------------------------
(***************************************************************************)
(* ReuseIndex, for any passwords, hosts and submissions: nobody is asked   *)
(* more, told more, or forgotten more than may be; two keys only where two *)
(* submissions overlapped.                                                 *)
(***************************************************************************)
SubRecord ==
    [at : {"idle", "checking", "asking", "keyless", "keying", "tagged", "recording", "answered"},
     pwd : Passwords \cup {""}, host : Hosts \cup {""}, explain : Explanations \cup {Unanswered},
     key : Nat, elsewhere : SUBSET Hosts, unknown : BOOLEAN]

ReuseTyped ==
    /\ sub \in [Submissions -> SubRecord]
    /\ \A s \in Submissions :
        /\ sub[s].key <= keysMade
        /\ sub[s].at # "idle" => sub[s].pwd \in Passwords /\ sub[s].host \in Hosts
        /\ sub[s].at \in {"keying", "tagged", "recording"} => sub[s].key # NoKey
    /\ keysMade \in Nat /\ storedKey \in 0 .. keysMade
    /\ reuse \subseteq [key : 1 .. keysMade, pwd : Passwords, host : Hosts]
    /\ wiping \in {"no", "settings cleared"}
    /\ reuseWipes \in 0 .. MaxWipes /\ pwStops \in 0 .. MaxPwStops /\ submitted \in 0 .. MaxSubmitted
    /\ rangeAsked \subseteq Passwords /\ usedAt \subseteq Passwords \X Hosts /\ mingled \in BOOLEAN

(* A verdict has a question behind it, and the question the list.          *)
VerdictsEarned ==
    /\ CommonNeverAsked /\ NoVerdictUnearned
    /\ \A s \in Submissions :
        /\ sub[s].at = "asking" => sub[s].pwd \in rangeAsked
        /\ sub[s].at \in {"idle", "checking", "asking"} => sub[s].explain = Unanswered

(* What is stored and what is read of it are submissions that were made.   *)
RowsWereUsed ==
    /\ \A s \in Submissions : sub[s].at # "idle" => <<sub[s].pwd, sub[s].host>> \in usedAt
    /\ \A row \in reuse : <<row.pwd, row.host>> \in usedAt
    /\ NoFalseReuse

(* Alone, a submission tags with the key that is stored, or makes the      *)
(* first there is.                                                         *)
KeyAlone ==
    mingled \/
        /\ \A s, t \in Submissions : Busy(s) /\ Busy(t) => s = t
        /\ wiping # "no" => \A s \in Submissions : ~ Busy(s)
        /\ wiping = "no" => \A row \in reuse : row.key = storedKey
        /\ \A s \in Submissions :
            /\ sub[s].at = "keying" => storedKey = NoKey
            /\ sub[s].at \in {"tagged", "recording"} => sub[s].key = storedKey

ReuseInv == ReuseTyped /\ VerdictsEarned /\ RowsWereUsed /\ KeyAlone

LEMMA ReuseInvInit == ReuseInit => ReuseInv
<1> SUFFICES ASSUME ReuseInit PROVE ReuseInv
  OBVIOUS
<1> USE DEF ReuseInit, NoKey, Unanswered
<1>1. \A s \in Submissions : sub[s] = Resting
  OBVIOUS
<1>2. Resting \in SubRecord /\ Resting.at = "idle" /\ Resting.key = 0 /\ Resting.elsewhere = {}
      /\ Resting.explain = "none"
  BY DEF Resting, SubRecord, Explanations
<1>3. ReuseTyped
  <2>1. sub \in [Submissions -> SubRecord]
    BY <1>2
  <2>2. 0 \in 0 .. MaxWipes /\ 0 \in 0 .. MaxPwStops /\ 0 \in 0 .. MaxSubmitted
    BY ReuseAssumption
  <2>3. storedKey \in 0 .. keysMade /\ keysMade \in Nat
    OBVIOUS
  <2>4. QED
    <3>1. \A s \in Submissions : sub[s].key = keysMade /\ sub[s].at = "idle"
      BY <1>1, <1>2
    <3>2. keysMade <= keysMade
      BY <2>3
    <3>3. /\ wiping = "no" /\ reuseWipes = 0 /\ pwStops = 0 /\ submitted = 0 /\ reuse = {}
          /\ rangeAsked = {} /\ usedAt = {} /\ mingled = FALSE
      OBVIOUS
    <3> HIDE DEF ReuseInit
    <3>4. QED
      BY <2>1, <2>2, <2>3, <3>1, <3>2, <3>3 DEF ReuseTyped
<1>4. VerdictsEarned
  BY <1>1, <1>2 DEF VerdictsEarned, CommonNeverAsked, NoVerdictUnearned
<1>5. RowsWereUsed
  BY <1>1, <1>2 DEF RowsWereUsed, NoFalseReuse
<1>6. KeyAlone
  BY <1>1, <1>2 DEF KeyAlone, Busy
<1>7. QED
  BY <1>3, <1>4, <1>5, <1>6 DEF ReuseInv

(* What one step of a submission makes of it; the others stay as they are. *)
SubBecomes(s, at, explain, key) ==
    /\ sub' \in [Submissions -> SubRecord]
    /\ sub'[s].at = at /\ sub'[s].pwd = sub[s].pwd /\ sub'[s].host = sub[s].host
    /\ sub'[s].explain = explain /\ sub'[s].key = key
    /\ \A t \in Submissions \ {s} : sub'[t] = sub[t]

LEMMA SubmitBecomes ==
    ASSUME ReuseTyped, NEW s \in Submissions, Submits(s)
    PROVE  \E pwd \in Passwords, where \in Hosts :
              /\ sub' \in [Submissions -> SubRecord]
              /\ sub'[s].at = "checking" /\ sub'[s].pwd = pwd /\ sub'[s].host = where
              /\ sub'[s].explain = Unanswered /\ sub'[s].key = 0 /\ sub'[s].elsewhere = {}
              /\ \A t \in Submissions \ {s} : sub'[t] = sub[t]
              /\ usedAt' = usedAt \cup {<<pwd, where>>}
<1>1. PICK pwd \in Passwords, where \in Hosts :
        /\ sub' = [sub EXCEPT ![s] = [Resting EXCEPT !.at = "checking", !.pwd = pwd, !.host = where]]
        /\ usedAt' = usedAt \cup {<<pwd, where>>}
  BY DEF Submits
<1> DEFINE new == [Resting EXCEPT !.at = "checking", !.pwd = pwd, !.host = where]
<1>2. /\ new \in SubRecord /\ new.at = "checking" /\ new.pwd = pwd /\ new.host = where
      /\ new.explain = Unanswered /\ new.key = 0 /\ new.elsewhere = {}
  BY DEF Resting, SubRecord, Explanations, Unanswered, NoKey
<1> HIDE DEF new
<1>3. sub' = [sub EXCEPT ![s] = new] /\ sub \in [Submissions -> SubRecord]
  BY <1>1 DEF new, ReuseTyped
<1>4. sub' \in [Submissions -> SubRecord] /\ sub'[s] = new /\ \A t \in Submissions \ {s} : sub'[t] = sub[t]
  BY <1>2, <1>3
<1>5. QED
  BY <1>1, <1>2, <1>4, Zenon

LEMMA AskBecomes ==
    ASSUME ReuseTyped, NEW s \in Submissions
    PROVE  /\ CheckList(s) => /\ sub[s].at = "checking"
                              /\ sub'[s].elsewhere = sub[s].elsewhere
                              /\ \/ SubBecomes(s, "keyless", "in-common-list", sub[s].key) /\ rangeAsked' = rangeAsked
                                 \/ /\ SubBecomes(s, "asking", sub[s].explain, sub[s].key) /\ sub[s].pwd \notin Common
                                    /\ rangeAsked' = rangeAsked \cup {sub[s].pwd}
           /\ RangeAnswers(s) => /\ sub[s].at = "asking"
                                 /\ sub'[s].elsewhere = sub[s].elsewhere
                                 /\ \E e \in Explanations :
                                      /\ SubBecomes(s, "keyless", e, sub[s].key)
                                      /\ e = "absent" => sub[s].pwd \notin Breached
                                      /\ e = "found" => sub[s].pwd \in Breached
<1>0. sub \in [Submissions -> SubRecord] /\ sub[s] \in SubRecord
  BY DEF ReuseTyped
<1>1. ASSUME NEW e \in Explanations, sub' = Judged(s, e)
      PROVE  SubBecomes(s, "keyless", e, sub[s].key) /\ sub'[s].elsewhere = sub[s].elsewhere
  BY <1>0, <1>1 DEF Judged, SubBecomes, SubRecord
<1>2. ASSUME sub' = [sub EXCEPT ![s].at = "asking"]
      PROVE  SubBecomes(s, "asking", sub[s].explain, sub[s].key) /\ sub'[s].elsewhere = sub[s].elsewhere
  BY <1>0, <1>2 DEF SubBecomes, SubRecord
<1>3. ASSUME CheckList(s)
      PROVE  /\ sub[s].at = "checking"
             /\ sub'[s].elsewhere = sub[s].elsewhere
             /\ \/ SubBecomes(s, "keyless", "in-common-list", sub[s].key) /\ rangeAsked' = rangeAsked
                \/ /\ SubBecomes(s, "asking", sub[s].explain, sub[s].key) /\ sub[s].pwd \notin Common
                   /\ rangeAsked' = rangeAsked \cup {sub[s].pwd}
  BY <1>1, <1>2, <1>3 DEF CheckList, InList, Explanations
<1>4. ASSUME NEW line \in Bucket(sub[s].pwd)
      PROVE  /\ CountIn(line) \in Explanations
             /\ CountIn(line) = "absent" => sub[s].pwd \notin Breached
             /\ CountIn(line) = "found" => sub[s].pwd \in Breached
  BY DEF Bucket, CountIn, Explanations
<1>5. ASSUME RangeAnswers(s)
      PROVE  /\ sub[s].at = "asking"
             /\ sub'[s].elsewhere = sub[s].elsewhere
             /\ \E e \in Explanations :
                  /\ SubBecomes(s, "keyless", e, sub[s].key)
                  /\ e = "absent" => sub[s].pwd \notin Breached
                  /\ e = "found" => sub[s].pwd \in Breached
  <2>1. CASE \E line \in Bucket(sub[s].pwd) : sub' = Judged(s, CountIn(line))
    BY <1>1, <1>4, <1>5, <2>1 DEF RangeAnswers
  <2>2. CASE sub' = Judged(s, "unreachable")
    BY <1>1, <1>5, <2>2 DEF RangeAnswers, Explanations
  <2>3. QED
    BY <1>5, <2>1, <2>2 DEF RangeAnswers
<1>6. QED
  BY <1>3, <1>5

LEMMA KeyBecomes ==
    ASSUME ReuseTyped, NEW s \in Submissions
    PROVE  /\ ReadKey(s) => /\ sub'[s].elsewhere = sub[s].elsewhere
                            /\ \/ /\ SubBecomes(s, "tagged", sub[s].explain, storedKey) /\ storedKey # NoKey
                                  /\ keysMade' = keysMade
                               \/ /\ SubBecomes(s, "keying", sub[s].explain, keysMade + 1) /\ storedKey = NoKey
                                  /\ keysMade' = keysMade + 1
           /\ PutKey(s) => /\ sub'[s].elsewhere = sub[s].elsewhere
                           /\ SubBecomes(s, "tagged", sub[s].explain, sub[s].key)
           /\ ReadIndex(s) =>
                /\ \E at \in {"answered", "recording"} : SubBecomes(s, at, sub[s].explain, sub[s].key)
                /\ sub'[s].elsewhere = {row.host : row \in {row \in reuse : OfThisTag(row, s)}} \ {sub[s].host}
           /\ RecordUse(s) => /\ sub'[s].elsewhere = sub[s].elsewhere
                              /\ SubBecomes(s, "answered", sub[s].explain, sub[s].key)
           /\ IndexFails(s) => /\ sub'[s].elsewhere = {}
                               /\ SubBecomes(s, "answered", sub[s].explain, sub[s].key)
<1>a. keysMade \in Nat /\ storedKey \in 0 .. keysMade /\ sub \in [Submissions -> SubRecord]
  BY Zenon DEF ReuseTyped
<1>0. sub \in [Submissions -> SubRecord] /\ sub[s] \in SubRecord /\ keysMade \in Nat /\ storedKey \in Nat
  BY <1>a
<1>1. ASSUME ReadKey(s), storedKey # NoKey
      PROVE  /\ sub'[s].elsewhere = sub[s].elsewhere /\ keysMade' = keysMade
             /\ SubBecomes(s, "tagged", sub[s].explain, storedKey)
  <2>1. keysMade' = keysMade /\ sub' = [sub EXCEPT ![s].key = storedKey, ![s].at = "tagged"]
    BY <1>1 DEF ReadKey
  <2>2. sub' \in [Submissions -> SubRecord]
    BY <1>0, <2>1 DEF SubRecord
  <2>3. QED
    BY <1>0, <2>1, <2>2 DEF SubBecomes, SubRecord
<1>2. ASSUME ReadKey(s), storedKey = NoKey
      PROVE  /\ sub'[s].elsewhere = sub[s].elsewhere /\ keysMade' = keysMade + 1
             /\ SubBecomes(s, "keying", sub[s].explain, keysMade + 1)
  <2>1. keysMade' = keysMade + 1 /\ sub' = [sub EXCEPT ![s].key = keysMade + 1, ![s].at = "keying"]
    BY <1>2 DEF ReadKey
  <2> DEFINE k == keysMade + 1
  <2>a. k \in Nat
    BY <1>0
  <2>2. sub' = [sub EXCEPT ![s].key = k, ![s].at = "keying"]
    BY <2>1
  <2> HIDE DEF k
  <2>3. sub' \in [Submissions -> SubRecord]
    BY <1>0, <2>a, <2>2 DEF SubRecord
  <2>4. sub'[s].elsewhere = sub[s].elsewhere /\ SubBecomes(s, "keying", sub[s].explain, k)
    BY <1>0, <2>2, <2>3 DEF SubBecomes, SubRecord
  <2>5. QED
    BY <2>1, <2>4 DEF k
<1>3. ASSUME PutKey(s)
      PROVE  sub'[s].elsewhere = sub[s].elsewhere /\ SubBecomes(s, "tagged", sub[s].explain, sub[s].key)
  BY <1>0, <1>3 DEF PutKey, SubBecomes, SubRecord
<1>4. ASSUME ReadIndex(s)
      PROVE  /\ \E at \in {"answered", "recording"} : SubBecomes(s, at, sub[s].explain, sub[s].key)
             /\ sub'[s].elsewhere = {row.host : row \in {row \in reuse : OfThisTag(row, s)}} \ {sub[s].host}
  <2> DEFINE matching == {row \in reuse : OfThisTag(row, s)}
             new == {row.host : row \in matching} \ {sub[s].host}
  <2>1. new \in SUBSET Hosts
    BY DEF ReuseTyped
  <2>2. PICK at \in {"answered", "recording"}, b \in BOOLEAN :
          sub' = [sub EXCEPT ![s].elsewhere = new, ![s].unknown = b, ![s].at = at]
    BY <1>4 DEF ReadIndex
  <2> HIDE DEF new, matching
  <2>3. sub'[s].elsewhere = new /\ SubBecomes(s, at, sub[s].explain, sub[s].key)
    BY <1>0, <2>1, <2>2 DEF SubBecomes, SubRecord
  <2>4. QED
    BY <2>3 DEF new, matching
<1>5. ASSUME RecordUse(s)
      PROVE  sub'[s].elsewhere = sub[s].elsewhere /\ SubBecomes(s, "answered", sub[s].explain, sub[s].key)
  BY <1>0, <1>5 DEF RecordUse, SubBecomes, SubRecord
<1>6. ASSUME IndexFails(s)
      PROVE  sub'[s].elsewhere = {} /\ SubBecomes(s, "answered", sub[s].explain, sub[s].key)
  BY <1>0, <1>6 DEF IndexFails, SubBecomes, SubRecord
<1>7. QED
  BY <1>1, <1>2, <1>3, <1>4, <1>5, <1>6

LEMMA OneKeyUp == \A M \in Nat : \A x \in 0 .. M : x < M => x + 1 \in 0 .. M
  OBVIOUS

LEMMA ReuseTypedStep == ReuseInv /\ [ReuseNext]_reuseVars => ReuseTyped'
<1> SUFFICES ASSUME ReuseInv, [ReuseNext]_reuseVars PROVE ReuseTyped'
  OBVIOUS
<1>0. ReuseTyped
  BY DEF ReuseInv
<1> DEFINE RowsAt(n) == [key : 1 .. n, pwd : Passwords, host : Hosts]
           Subs(n) == /\ sub' \in [Submissions -> SubRecord]
                      /\ \A s \in Submissions :
                          /\ sub'[s].key <= n
                          /\ sub'[s].at # "idle" => sub'[s].pwd \in Passwords /\ sub'[s].host \in Hosts
                          /\ sub'[s].at \in {"keying", "tagged", "recording"} => sub'[s].key # NoKey
           Rest == /\ storedKey' = storedKey /\ reuse' = reuse /\ wiping' = wiping
                   /\ reuseWipes' = reuseWipes /\ pwStops' = pwStops /\ submitted' = submitted
                   /\ rangeAsked' = rangeAsked /\ usedAt' = usedAt /\ mingled' = mingled
<1>a. keysMade \in Nat /\ storedKey \in 0 .. keysMade /\ \A s \in Submissions : sub[s] \in SubRecord
  BY <1>0, Zenon DEF ReuseTyped
<1>e. /\ wiping \in {"no", "settings cleared"} /\ reuseWipes \in 0 .. MaxWipes
      /\ pwStops \in 0 .. MaxPwStops /\ submitted \in 0 .. MaxSubmitted
  BY <1>0, Zenon DEF ReuseTyped
<1>h. usedAt \subseteq Passwords \X Hosts
  BY <1>0, Zenon DEF ReuseTyped
<1>i. mingled \in BOOLEAN
  BY <1>0, Zenon DEF ReuseTyped
<1>m. MaxWipes \in Nat /\ MaxPwStops \in Nat /\ MaxSubmitted \in Nat
  BY ReuseAssumption
<1>f. \A s \in Submissions :
        /\ sub[s].at # "idle" => sub[s].pwd \in Passwords /\ sub[s].host \in Hosts
        /\ sub[s].at \in {"keying", "tagged", "recording"} => sub[s].key # NoKey
  BY <1>0, Zenon DEF ReuseTyped
<1>g. reuse \subseteq RowsAt(keysMade)
  BY <1>0, Zenon DEF ReuseTyped
<1>b. \A s \in Submissions : sub[s].key \in Nat /\ sub[s].key <= keysMade
  BY <1>0, <1>a DEF ReuseTyped, SubRecord
<1>c. ASSUME NEW s \in Submissions, NEW at, NEW e, NEW k, SubBecomes(s, at, e, k), sub[s].at # "idle",
             k \in Nat, k <= keysMade, at \in {"keying", "tagged", "recording"} => k # NoKey
      PROVE  Subs(keysMade)
  <2>1. ASSUME NEW t \in Submissions
        PROVE  /\ sub'[t].key <= keysMade
               /\ sub'[t].at # "idle" => sub'[t].pwd \in Passwords /\ sub'[t].host \in Hosts
               /\ sub'[t].at \in {"keying", "tagged", "recording"} => sub'[t].key # NoKey
    <3>1. CASE t = s
      BY <1>0, <1>c, <3>1 DEF SubBecomes, ReuseTyped
    <3>2. CASE t # s
      BY <1>0, <1>c, <3>2 DEF SubBecomes, ReuseTyped
    <3>3. QED
      BY <3>1, <3>2
  <2>2. QED
    BY <1>c, <2>1 DEF SubBecomes
<1>d. ASSUME Subs(keysMade), keysMade' = keysMade, Rest PROVE ReuseTyped'
  BY <1>0, <1>d DEF ReuseTyped
<1>1. ASSUME NEW s \in Submissions, Submits(s) PROVE ReuseTyped'
  <2>1. PICK pwd \in Passwords, where \in Hosts :
              /\ sub' \in [Submissions -> SubRecord]
              /\ sub'[s].at = "checking" /\ sub'[s].pwd = pwd /\ sub'[s].host = where
              /\ sub'[s].explain = Unanswered /\ sub'[s].key = 0 /\ sub'[s].elsewhere = {}
              /\ \A t \in Submissions \ {s} : sub'[t] = sub[t]
              /\ usedAt' = usedAt \cup {<<pwd, where>>}
    BY <1>0, <1>1, SubmitBecomes
  <2>2. ASSUME NEW t \in Submissions
        PROVE  /\ sub'[t].key <= keysMade
               /\ sub'[t].at # "idle" => sub'[t].pwd \in Passwords /\ sub'[t].host \in Hosts
               /\ sub'[t].at \in {"keying", "tagged", "recording"} => sub'[t].key # NoKey
    <3>1. CASE t = s
      BY <1>a, <2>1, <3>1
    <3>2. CASE t # s
      BY <1>0, <2>1, <3>2 DEF ReuseTyped
    <3>3. QED
      BY <3>1, <3>2
  <2>3. submitted' \in 0 .. MaxSubmitted
    <3>1. submitted' = submitted + 1 /\ submitted < MaxSubmitted
      BY <1>1 DEF Submits
    <3>2. submitted + 1 \in 0 .. MaxSubmitted
      BY <1>e, <1>m, <3>1, OneKeyUp, Zenon
    <3>3. QED
      BY <3>1, <3>2, Zenon
  <2>4. usedAt' \subseteq Passwords \X Hosts /\ mingled' \in BOOLEAN
    <3>1. usedAt' \subseteq Passwords \X Hosts
      BY <1>h, <2>1
    <3>2. mingled' \in BOOLEAN
      BY <1>1, Zenon DEF Submits
    <3>3. QED
      BY <3>1, <3>2
  <2>5. UNCHANGED <<storedKey, reuse, keysMade, wiping, reuseWipes, pwStops, rangeAsked>>
    BY <1>1 DEF Submits
  <2>6. QED
    BY <1>0, <2>1, <2>2, <2>3, <2>4, <2>5, Zenon DEF ReuseTyped
<1>2. ASSUME NEW s \in Submissions, CheckList(s) \/ RangeAnswers(s) PROVE ReuseTyped'
  <2>1. sub[s].at # "idle" /\ \E e, at : SubBecomes(s, at, e, sub[s].key) /\ at \in {"keyless", "asking"}
    BY <1>0, <1>2, AskBecomes
  <2>2. Subs(keysMade)
    BY <1>b, <1>c, <2>1
  <2>3. rangeAsked' \subseteq Passwords
    <3>1. sub[s].pwd \in Passwords /\ rangeAsked \subseteq Passwords
      BY <1>0, <2>1 DEF ReuseTyped
    <3>2. rangeAsked' \subseteq rangeAsked \cup {sub[s].pwd}
      BY <1>2 DEF CheckList, RangeAnswers
    <3>3. QED
      BY <3>1, <3>2
  <2>4. UNCHANGED <<storedKey, reuse, keysMade, wiping, reuseWipes, pwStops, submitted, usedAt, mingled>>
    BY <1>2 DEF CheckList, RangeAnswers
  <2>5. QED
    BY <1>0, <2>2, <2>3, <2>4, Zenon DEF ReuseTyped
<1>3. ASSUME NEW s \in Submissions, ReadKey(s) PROVE ReuseTyped'
  <2>1. CASE SubBecomes(s, "tagged", sub[s].explain, storedKey) /\ storedKey # NoKey /\ keysMade' = keysMade
    <3>1. Subs(keysMade)
      BY <1>a, <1>c, <1>3, <2>1 DEF ReadKey
    <3>2. QED
      BY <1>d, <1>3, <2>1, <3>1 DEF ReadKey
  <2>2. CASE SubBecomes(s, "keying", sub[s].explain, keysMade + 1) /\ storedKey = NoKey /\ keysMade' = keysMade + 1
    <3>1. keysMade' \in Nat /\ storedKey \in 0 .. keysMade' /\ 1 .. keysMade \subseteq 1 .. keysMade'
      BY <1>a, <2>2
    <3>2. reuse \subseteq RowsAt(keysMade')
      BY <1>0, <3>1 DEF ReuseTyped
    <3>3. ASSUME NEW t \in Submissions
          PROVE  /\ sub'[t].key <= keysMade'
                 /\ sub'[t].at # "idle" => sub'[t].pwd \in Passwords /\ sub'[t].host \in Hosts
                 /\ sub'[t].at \in {"keying", "tagged", "recording"} => sub'[t].key # NoKey
      <4>1. CASE t = s
        <5>1. sub'[s].key = keysMade + 1 /\ sub'[s].pwd = sub[s].pwd /\ sub'[s].host = sub[s].host
          BY <2>2 DEF SubBecomes
        <5>2. sub[s].at # "idle"
          BY <1>3 DEF ReadKey
        <5>3. keysMade + 1 # NoKey /\ sub'[s].key <= keysMade'
          BY <1>a, <2>2, <5>1 DEF NoKey
        <5>4. QED
          BY <1>f, <4>1, <5>1, <5>2, <5>3, Zenon
      <4>2. CASE t # s
        <5>1. sub'[t] = sub[t] /\ sub[t].key \in Nat /\ sub[t].key <= keysMade
          BY <1>b, <2>2, <4>2 DEF SubBecomes
        <5>2. sub'[t].key <= keysMade'
          BY <1>a, <2>2, <5>1
        <5>3. QED
          BY <1>0, <5>1, <5>2, Zenon DEF ReuseTyped
      <4>3. QED
        BY <4>1, <4>2
    <3>4. Rest /\ sub' \in [Submissions -> SubRecord]
      BY <1>3, <2>2 DEF ReadKey, SubBecomes
    <3>5. QED
      BY <1>0, <3>1, <3>2, <3>3, <3>4, Zenon DEF ReuseTyped
  <2>3. QED
    BY <1>0, <1>3, <2>1, <2>2, KeyBecomes
<1>4. ASSUME NEW s \in Submissions, PutKey(s) PROVE ReuseTyped'
  <2>1. SubBecomes(s, "tagged", sub[s].explain, sub[s].key) /\ sub[s].at = "keying"
    BY <1>0, <1>4, KeyBecomes DEF PutKey
  <2>2. Subs(keysMade)
    BY <1>0, <1>b, <1>c, <2>1 DEF ReuseTyped
  <2>3. storedKey' \in 0 .. keysMade
    BY <1>a, <1>b, <1>4 DEF PutKey, KeyWritten
  <2>4. UNCHANGED <<reuse, keysMade, wiping, reuseWipes, pwStops, submitted, rangeAsked, usedAt, mingled>>
    BY <1>4 DEF PutKey
  <2>5. QED
    BY <1>0, <2>2, <2>3, <2>4, Zenon DEF ReuseTyped
<1>5. ASSUME NEW s \in Submissions, ReadIndex(s) \/ IndexFails(s) PROVE ReuseTyped'
  <2>1. \E at \in {"answered", "recording"} :
          SubBecomes(s, at, sub[s].explain, sub[s].key) /\ (at = "recording" => sub[s].at = "tagged")
    BY <1>0, <1>5, KeyBecomes DEF ReadIndex
  <2>2. Subs(keysMade)
    BY <1>0, <1>b, <1>c, <1>5, <2>1 DEF ReuseTyped, ReadIndex, IndexFails
  <2>3. QED
    BY <1>d, <1>5, <2>2 DEF ReadIndex, IndexFails
<1>7. ASSUME NEW s \in Submissions, RecordUse(s) PROVE ReuseTyped'
  <2>1. SubBecomes(s, "answered", sub[s].explain, sub[s].key) /\ sub[s].at = "recording"
    BY <1>0, <1>7, KeyBecomes DEF RecordUse
  <2>2. Subs(keysMade)
    BY <1>b, <1>c, <2>1
  <2>3. reuse' \subseteq RowsAt(keysMade)
    <3>1. sub[s].key \in 1 .. keysMade /\ sub[s].pwd \in Passwords /\ sub[s].host \in Hosts
      <4>1. sub[s].key # 0 /\ sub[s].key \in Nat /\ sub[s].key <= keysMade
        BY <1>b, <1>f, <2>1 DEF NoKey
      <4>2. QED
        BY <1>a, <1>f, <2>1, <4>1
    <3>2. reuse \subseteq RowsAt(keysMade)
      BY <1>0 DEF ReuseTyped
    <3>3. QED
      BY <1>7, <3>1, <3>2 DEF RecordUse
  <2>4. UNCHANGED <<storedKey, keysMade, wiping, reuseWipes, pwStops, submitted, rangeAsked, usedAt, mingled>>
    BY <1>7 DEF RecordUse
  <2>5. QED
    BY <1>0, <2>2, <2>3, <2>4, Zenon DEF ReuseTyped
<1>9. CASE WipeKey \/ WipeReuse
  <2>1. storedKey' \in 0 .. keysMade /\ reuse' \subseteq RowsAt(keysMade) /\ mingled' \in BOOLEAN
    <3>1. storedKey' \in {0, storedKey} /\ reuse' \in {{}, reuse}
      BY <1>9 DEF WipeKey, WipeReuse, NoKey
    <3>2. mingled' \in BOOLEAN
      BY <1>9, <1>i, Zenon DEF WipeKey, WipeReuse
    <3>3. storedKey' \in 0 .. keysMade
      BY <1>a, <3>1
    <3>4. QED
      BY <1>g, <3>1, <3>2, <3>3
  <2>2. wiping' \in {"no", "settings cleared"} /\ reuseWipes' \in 0 .. MaxWipes
    <3>1. \/ wiping' = "settings cleared" /\ reuseWipes' = reuseWipes + 1 /\ reuseWipes < MaxWipes
          \/ wiping' = "no" /\ reuseWipes' = reuseWipes
      BY <1>9 DEF WipeKey, WipeReuse
    <3>2. reuseWipes < MaxWipes => reuseWipes + 1 \in 0 .. MaxWipes
      BY <1>e, <1>m, OneKeyUp, Zenon
    <3>3. QED
      BY <1>e, <3>1, <3>2, Zenon
  <2>3. UNCHANGED <<sub, keysMade, pwStops, submitted, rangeAsked, usedAt>>
    BY <1>9 DEF WipeKey, WipeReuse
  <2>4. QED
    BY <1>0, <2>1, <2>2, <2>3, Zenon DEF ReuseTyped
<1>10. CASE ReuseStop
  <2>1. \A s \in Submissions : sub'[s] = Resting \/ sub'[s] = sub[s]
    BY <1>10 DEF ReuseStop
  <2>2. Resting \in SubRecord /\ Resting.at = "idle" /\ Resting.key = 0
    BY DEF Resting, SubRecord, Explanations, Unanswered, NoKey
  <2>3. Subs(keysMade)
    <3>1. sub' \in [Submissions -> SubRecord]
      BY <1>a, <1>10, <2>2 DEF ReuseStop
    <3>2. QED
      <4>1. ASSUME NEW s \in Submissions
            PROVE  /\ sub'[s].key <= keysMade
                   /\ sub'[s].at # "idle" => sub'[s].pwd \in Passwords /\ sub'[s].host \in Hosts
                   /\ sub'[s].at \in {"keying", "tagged", "recording"} => sub'[s].key # NoKey
        <5>1. CASE sub'[s] = Resting
          BY <1>a, <2>2, <5>1
        <5>2. CASE sub'[s] = sub[s]
          BY <1>b, <1>f, <5>2
        <5>3. QED
          BY <2>1, <5>1, <5>2
      <4>2. QED
        BY <3>1, <4>1
  <2>4. pwStops' \in 0 .. MaxPwStops
    <3>1. pwStops' = pwStops + 1 /\ pwStops < MaxPwStops
      BY <1>10 DEF ReuseStop
    <3>2. pwStops + 1 \in 0 .. MaxPwStops
      BY <1>e, <1>m, <3>1, OneKeyUp, Zenon
    <3>3. QED
      BY <3>1, <3>2, Zenon
  <2>5. UNCHANGED <<storedKey, reuse, keysMade, wiping, reuseWipes, submitted, rangeAsked, usedAt, mingled>>
    BY <1>10 DEF ReuseStop
  <2>6. QED
    BY <1>0, <2>3, <2>4, <2>5, Zenon DEF ReuseTyped
<1>11. CASE UNCHANGED reuseVars
  BY <1>0, <1>11 DEF reuseVars, ReuseTyped
<1>12. QED
  BY <1>1, <1>2, <1>3, <1>4, <1>5, <1>7, <1>9, <1>10, <1>11 DEF ReuseNext

(* Of a submission, only what the verdict and the rows are read from.      *)
LEMMA OneSubMoves ==
    ASSUME ReuseInv, [ReuseNext]_reuseVars
    PROVE  \/ \E s \in Submissions : Submits(s)
           \/ \E s \in Submissions : CheckList(s) \/ RangeAnswers(s)
           \/ \E s \in Submissions : \E at, k :
                 /\ SubBecomes(s, at, sub[s].explain, k) /\ sub[s].at \notin {"idle", "checking", "asking"}
                 /\ at \in {"keying", "tagged", "recording", "answered"} /\ UNCHANGED <<rangeAsked, usedAt>>
                 /\ ReadKey(s) \/ PutKey(s) \/ ReadIndex(s) \/ RecordUse(s) \/ IndexFails(s)
           \/ /\ \A s \in Submissions : sub'[s] = sub[s] \/ sub'[s] = Resting
              /\ UNCHANGED <<rangeAsked, usedAt>> /\ reuse' \in {{}, reuse}
              /\ WipeKey \/ WipeReuse \/ ReuseStop \/ UNCHANGED reuseVars
<1>1. ReuseTyped
  BY DEF ReuseInv
<1>2. ASSUME NEW s \in Submissions, ReadKey(s) \/ PutKey(s) \/ ReadIndex(s) \/ RecordUse(s) \/ IndexFails(s)
      PROVE  \E at, k :
                 /\ SubBecomes(s, at, sub[s].explain, k) /\ sub[s].at \notin {"idle", "checking", "asking"}
                 /\ at \in {"keying", "tagged", "recording", "answered"} /\ UNCHANGED <<rangeAsked, usedAt>>
  <2>1. sub[s].at \notin {"idle", "checking", "asking"} /\ UNCHANGED <<rangeAsked, usedAt>>
    BY <1>2 DEF ReadKey, PutKey, ReadIndex, RecordUse, IndexFails
  <2>2. \E at, k : /\ SubBecomes(s, at, sub[s].explain, k)
                   /\ at \in {"keying", "tagged", "recording", "answered"}
    BY <1>1, <1>2, KeyBecomes
  <2>3. QED
    BY <2>1, <2>2
<1>3. ASSUME WipeKey \/ WipeReuse \/ ReuseStop \/ UNCHANGED reuseVars
      PROVE  /\ \A s \in Submissions : sub'[s] = sub[s] \/ sub'[s] = Resting
             /\ UNCHANGED <<rangeAsked, usedAt>> /\ reuse' \in {{}, reuse}
  BY <1>3 DEF WipeKey, WipeReuse, ReuseStop, reuseVars
<1>4. QED
  BY <1>2, <1>3 DEF ReuseNext

LEMMA VerdictsEarnedStep == ReuseInv /\ [ReuseNext]_reuseVars => VerdictsEarned'
<1> SUFFICES ASSUME ReuseInv, [ReuseNext]_reuseVars PROVE VerdictsEarned'
  OBVIOUS
<1>0. ReuseTyped /\ VerdictsEarned
  BY DEF ReuseInv
<1> DEFINE Backed(s) == /\ sub[s].explain = "absent" => sub[s].pwd \in rangeAsked /\ sub[s].pwd \notin Breached
                        /\ sub[s].explain = "found" => sub[s].pwd \in Breached
                        /\ sub[s].at = "asking" => sub[s].pwd \in rangeAsked
                        /\ sub[s].at \in {"idle", "checking", "asking"} => sub[s].explain = Unanswered
<1>1. rangeAsked \cap Common = {} /\ \A s \in Submissions : Backed(s)
  BY <1>0 DEF VerdictsEarned, CommonNeverAsked, NoVerdictUnearned
<1>2. ASSUME rangeAsked' \cap Common = {}, rangeAsked \subseteq rangeAsked',
             \A s \in Submissions : sub'[s] = sub[s] \/ Backed(s)'
      PROVE  VerdictsEarned'
  BY <1>1, <1>2 DEF VerdictsEarned, CommonNeverAsked, NoVerdictUnearned
<1>3. ASSUME NEW s \in Submissions, Submits(s) PROVE VerdictsEarned'
  <2>1. /\ sub'[s].explain = Unanswered /\ sub'[s].at = "checking" /\ rangeAsked' = rangeAsked
        /\ \A t \in Submissions \ {s} : sub'[t] = sub[t]
    BY <1>0, <1>3, SubmitBecomes DEF Submits
  <2>2. QED
    BY <1>1, <1>2, <2>1 DEF Unanswered
<1>4. ASSUME NEW s \in Submissions, CheckList(s) \/ RangeAnswers(s) PROVE VerdictsEarned'
  <2>1. CASE CheckList(s)
    <3>1. \A t \in Submissions \ {s} : sub'[t] = sub[t]
      BY <1>0, <2>1, AskBecomes DEF SubBecomes
    <3>2. sub[s].explain = Unanswered
      BY <1>1, <2>1 DEF CheckList
    <3>3. \/ sub'[s].at = "keyless" /\ sub'[s].explain = "in-common-list" /\ rangeAsked' = rangeAsked
          \/ /\ sub'[s].at = "asking" /\ sub'[s].explain = Unanswered /\ sub'[s].pwd \in rangeAsked'
             /\ rangeAsked' = rangeAsked \cup {sub[s].pwd} /\ sub[s].pwd \notin Common
      BY <1>0, <2>1, <3>2, AskBecomes DEF SubBecomes
    <3>4. QED
      BY <1>1, <1>2, <3>1, <3>3 DEF Unanswered
  <2>2. CASE RangeAnswers(s)
    <3>1. \A t \in Submissions \ {s} : sub'[t] = sub[t]
      BY <1>0, <2>2, AskBecomes DEF SubBecomes
    <3>2. /\ sub[s].pwd \in rangeAsked /\ sub'[s].pwd = sub[s].pwd /\ sub'[s].at = "keyless"
          /\ rangeAsked' = rangeAsked
          /\ sub'[s].explain = "absent" => sub[s].pwd \notin Breached
          /\ sub'[s].explain = "found" => sub[s].pwd \in Breached
      BY <1>0, <1>1, <2>2, AskBecomes DEF SubBecomes, RangeAnswers
    <3>3. QED
      BY <1>1, <1>2, <3>1, <3>2
  <2>3. QED
    BY <1>4, <2>1, <2>2
<1>5. ASSUME NEW s \in Submissions, NEW at, NEW k, SubBecomes(s, at, sub[s].explain, k),
             at \in {"keying", "tagged", "recording", "answered"}, UNCHANGED <<rangeAsked, usedAt>>
      PROVE VerdictsEarned'
  <2>1. /\ sub'[s].explain = sub[s].explain /\ sub'[s].pwd = sub[s].pwd /\ sub'[s].at = at
        /\ \A t \in Submissions \ {s} : sub'[t] = sub[t]
    BY <1>5 DEF SubBecomes
  <2>2. Backed(s)'
    BY <1>1, <1>5, <2>1
  <2>3. QED
    BY <1>1, <1>2, <1>5, <2>1, <2>2
<1>6. ASSUME \A s \in Submissions : sub'[s] = sub[s] \/ sub'[s] = Resting, UNCHANGED rangeAsked
      PROVE VerdictsEarned'
  <2>1. Resting.explain = "none" /\ Resting.at = "idle"
    BY DEF Resting, Unanswered
  <2>2. \A s \in Submissions : sub'[s] = sub[s] \/ Backed(s)'
    BY <1>6, <2>1 DEF Unanswered
  <2>3. QED
    BY <1>1, <1>2, <1>6, <2>2
<1>7. QED
  BY <1>3, <1>4, <1>5, <1>6, OneSubMoves

LEMMA NewIndexRow ==
    ASSUME NEW s \in Submissions, RecordUse(s)
    PROVE  \A row \in reuse' : \/ row \in reuse
                               \/ row.pwd = sub[s].pwd /\ row.host = sub[s].host /\ row.key = sub[s].key
<1> DEFINE new == [key |-> sub[s].key, pwd |-> sub[s].pwd, host |-> sub[s].host]
<1>1. new.pwd = sub[s].pwd /\ new.host = sub[s].host /\ new.key = sub[s].key
  OBVIOUS
<1>2. reuse' = reuse \cup {new}
  BY DEF RecordUse
<1> HIDE DEF new
<1>3. QED
  BY <1>1, <1>2

LEMMA RowsWereUsedStep == ReuseInv /\ [ReuseNext]_reuseVars => RowsWereUsed'
<1> SUFFICES ASSUME ReuseInv, [ReuseNext]_reuseVars PROVE RowsWereUsed'
  OBVIOUS
<1>0. ReuseTyped /\ RowsWereUsed
  BY DEF ReuseInv
<1> DEFINE Used(s) == /\ sub[s].at # "idle" => <<sub[s].pwd, sub[s].host>> \in usedAt
                      /\ \A where \in sub[s].elsewhere : <<sub[s].pwd, where>> \in usedAt
<1>1. /\ \A s \in Submissions : Used(s)
      /\ \A row \in reuse : <<row.pwd, row.host>> \in usedAt
  BY <1>0, Zenon DEF RowsWereUsed, NoFalseReuse
<1>2. ASSUME usedAt \subseteq usedAt', \A row \in reuse' : row \in reuse \/ <<row.pwd, row.host>> \in usedAt',
             \A s \in Submissions : sub'[s] = sub[s] \/ Used(s)'
      PROVE  RowsWereUsed'
  <2>1. \A row \in reuse' : <<row.pwd, row.host>> \in usedAt'
    BY <1>1, <1>2
  <2>2. \A s \in Submissions : Used(s)'
    BY <1>1, <1>2
  <2>3. QED
    BY <2>1, <2>2, Zenon DEF RowsWereUsed, NoFalseReuse
<1>3. ASSUME NEW s \in Submissions, Submits(s) PROVE RowsWereUsed'
  <2>1. /\ <<sub'[s].pwd, sub'[s].host>> \in usedAt' /\ usedAt \subseteq usedAt'
        /\ sub'[s].elsewhere = {} /\ \A t \in Submissions \ {s} : sub'[t] = sub[t]
    BY <1>0, <1>3, SubmitBecomes
  <2>2. reuse' = reuse
    BY <1>3 DEF Submits
  <2>3. QED
    BY <1>2, <2>1, <2>2
<1>4. ASSUME NEW s \in Submissions, NEW at, NEW e, NEW k, SubBecomes(s, at, e, k), sub[s].at # "idle",
             \A where \in sub'[s].elsewhere : <<sub[s].pwd, where>> \in usedAt,
             usedAt' = usedAt, \A row \in reuse' : row \in reuse \/ <<row.pwd, row.host>> \in usedAt
      PROVE  RowsWereUsed'
  <2>1. /\ sub'[s].pwd = sub[s].pwd /\ sub'[s].host = sub[s].host
        /\ \A t \in Submissions \ {s} : sub'[t] = sub[t]
    BY <1>4 DEF SubBecomes
  <2>2. Used(s)'
    BY <1>1, <1>4, <2>1
  <2>3. QED
    BY <1>2, <1>4, <2>1, <2>2
<1>5. ASSUME NEW s \in Submissions, CheckList(s) \/ RangeAnswers(s) PROVE RowsWereUsed'
  <2>1. /\ sub[s].at # "idle" /\ sub'[s].elsewhere = sub[s].elsewhere
        /\ \E at, e, k : SubBecomes(s, at, e, k)
    BY <1>0, <1>5, AskBecomes
  <2>2. usedAt' = usedAt /\ reuse' = reuse
    BY <1>5 DEF CheckList, RangeAnswers
  <2>3. QED
    BY <1>1, <1>4, <2>1, <2>2
<1>6. ASSUME NEW s \in Submissions, ReadKey(s) \/ PutKey(s) \/ ReadIndex(s) \/ RecordUse(s) \/ IndexFails(s)
      PROVE  RowsWereUsed'
  <2>1. sub[s].at # "idle" /\ usedAt' = usedAt
    BY <1>6 DEF ReadKey, PutKey, ReadIndex, RecordUse, IndexFails
  <2>2. \E at, e, k : SubBecomes(s, at, e, k)
    BY <1>0, <1>6, KeyBecomes
  <2>3. \A where \in sub'[s].elsewhere : <<sub[s].pwd, where>> \in usedAt
    <3>1. CASE ReadIndex(s)
      <4>1. sub'[s].elsewhere = {row.host : row \in {row \in reuse : OfThisTag(row, s)}} \ {sub[s].host}
        BY <1>0, <3>1, KeyBecomes
      <4>2. QED
        BY <1>1, <4>1 DEF OfThisTag
    <3>2. CASE ~ ReadIndex(s)
      <4>1. sub'[s].elsewhere = sub[s].elsewhere \/ sub'[s].elsewhere = {}
        BY <1>0, <1>6, <3>2, KeyBecomes
      <4>2. QED
        BY <1>1, <4>1
    <3>3. QED
      BY <3>1, <3>2
  <2>4. \A row \in reuse' : row \in reuse \/ <<row.pwd, row.host>> \in usedAt
    <3>1. <<sub[s].pwd, sub[s].host>> \in usedAt
      BY <1>1, <2>1
    <3>2. QED
      BY <1>6, <3>1, NewIndexRow DEF ReadKey, PutKey, ReadIndex, IndexFails
  <2>5. QED
    BY <1>4, <2>1, <2>2, <2>3, <2>4
<1>7. ASSUME \A s \in Submissions : sub'[s] = sub[s] \/ sub'[s] = Resting, UNCHANGED usedAt,
             reuse' \in {{}, reuse}
      PROVE  RowsWereUsed'
  <2>1. Resting.at = "idle" /\ Resting.elsewhere = {}
    BY DEF Resting
  <2>2. \A s \in Submissions : sub'[s] = sub[s] \/ Used(s)'
    BY <1>7, <2>1
  <2>3. QED
    BY <1>2, <1>7, <2>2
<1>8. QED
  BY <1>3, <1>5, <1>6, <1>7, OneSubMoves

LEMMA KeyAloneStep == ReuseInv /\ [ReuseNext]_reuseVars => KeyAlone'
<1> SUFFICES ASSUME ReuseInv, [ReuseNext]_reuseVars, ~ mingled' PROVE KeyAlone'
  BY DEF KeyAlone
<1>0. ReuseTyped /\ KeyAlone
  BY DEF ReuseInv
<1>a. mingled => mingled'
  <2>1. CASE UNCHANGED mingled
    BY <2>1, Zenon
  <2>2. ASSUME NEW s \in Submissions, Submits(s) PROVE mingled => mingled'
    BY <2>2, Zenon DEF Submits
  <2>3. CASE WipeKey \/ WipeReuse
    BY <2>3, Zenon DEF WipeKey, WipeReuse
  <2>4. QED
    BY <2>1, <2>2, <2>3
    DEF ReuseNext, CheckList, RangeAnswers, ReadKey, PutKey, ReadIndex, RecordUse, IndexFails, ReuseStop, reuseVars
<1>1. /\ \A s, t \in Submissions : Busy(s) /\ Busy(t) => s = t
      /\ wiping # "no" => \A s \in Submissions : ~ Busy(s)
      /\ wiping = "no" => \A row \in reuse : row.key = storedKey
      /\ \A s \in Submissions :
          /\ sub[s].at = "keying" => storedKey = NoKey
          /\ sub[s].at \in {"tagged", "recording"} => sub[s].key = storedKey
  BY <1>0, <1>a, Zenon DEF KeyAlone
<1>2. ASSUME NEW s \in Submissions, Submits(s) PROVE KeyAlone'
  <2>1. wiping = "no" /\ (\A q \in Submissions \ {s} : ~ Busy(q)) /\ ~ Busy(s)
    BY <1>2, Zenon DEF Submits
  <2>2. sub'[s].at = "checking" /\ \A t \in Submissions \ {s} : sub'[t] = sub[t]
    BY <1>0, <1>2, SubmitBecomes
  <2>3. UNCHANGED <<storedKey, reuse, wiping>>
    BY <1>2 DEF Submits
  <2>4. QED
    BY <1>1, <2>1, <2>2, <2>3 DEF KeyAlone, Busy
<1>3. ASSUME NEW s \in Submissions, NEW at, NEW e, NEW k, SubBecomes(s, at, e, k), Busy(s), wiping' = wiping,
             wiping = "no" => \A row \in reuse' : row.key = storedKey',
             at = "keying" => storedKey' = NoKey,
             at \in {"tagged", "recording"} => k = storedKey'
      PROVE  KeyAlone'
  <2>1. wiping = "no" /\ \A t \in Submissions \ {s} : ~ Busy(t)
    BY <1>1, <1>3
  <2>2. sub'[s].at = at /\ sub'[s].key = k /\ \A t \in Submissions \ {s} : sub'[t] = sub[t]
    BY <1>3 DEF SubBecomes
  <2>3. QED
    BY <1>1, <1>3, <2>1, <2>2 DEF KeyAlone, Busy
<1>4. ASSUME NEW s \in Submissions, CheckList(s) \/ RangeAnswers(s) PROVE KeyAlone'
  <2>1. \E at, e, k : SubBecomes(s, at, e, k) /\ at \in {"keyless", "asking"}
    BY <1>0, <1>4, AskBecomes
  <2>2. Busy(s) /\ UNCHANGED <<wiping, reuse, storedKey>>
    BY <1>4 DEF CheckList, RangeAnswers, Busy
  <2>3. QED
    BY <1>1, <1>3, <2>1, <2>2
<1>5. ASSUME NEW s \in Submissions, ReadKey(s) PROVE KeyAlone'
  <2>1. \/ \E e : SubBecomes(s, "tagged", e, storedKey)
        \/ (\E e, k : SubBecomes(s, "keying", e, k)) /\ storedKey = NoKey
    BY <1>0, <1>5, KeyBecomes
  <2>2. Busy(s) /\ UNCHANGED <<wiping, reuse, storedKey>>
    BY <1>5 DEF ReadKey, Busy
  <2>3. QED
    BY <1>1, <1>3, <2>1, <2>2
<1>6. ASSUME NEW s \in Submissions, PutKey(s) PROVE KeyAlone'
  <2>1. SubBecomes(s, "tagged", sub[s].explain, sub[s].key)
    BY <1>0, <1>6, KeyBecomes
  <2>2. /\ Busy(s) /\ UNCHANGED <<wiping, reuse>> /\ storedKey' = sub[s].key
        /\ sub[s].at = "keying"
    BY <1>6 DEF PutKey, Busy, KeyWritten
  <2>3. wiping = "no" => reuse = {}
    <3>1. \A row \in reuse : row.key # 0
      <4>1. reuse \subseteq [key : 1 .. keysMade, pwd : Passwords, host : Hosts] /\ keysMade \in Nat
        BY <1>0, Zenon DEF ReuseTyped
      <4>2. QED
        BY <4>1
    <3>2. storedKey = 0
      BY <1>1, <2>2 DEF NoKey
    <3>3. QED
      BY <1>1, <3>1, <3>2
  <2>4. QED
    BY <1>1, <1>3, <2>1, <2>2, <2>3
<1>7. ASSUME NEW s \in Submissions, ReadIndex(s) \/ IndexFails(s) \/ RecordUse(s) PROVE KeyAlone'
  <2>1. \E at \in {"answered", "recording"} :
          SubBecomes(s, at, sub[s].explain, sub[s].key) /\ (at = "recording" => sub[s].at = "tagged")
    BY <1>0, <1>7, KeyBecomes DEF ReadIndex
  <2>2. Busy(s) /\ UNCHANGED <<wiping, storedKey>>
    BY <1>7 DEF ReadIndex, IndexFails, RecordUse, Busy
  <2>3. wiping = "no" => \A row \in reuse' : row.key = storedKey
    <3>1. CASE RecordUse(s)
      <4>1. sub[s].key = storedKey
        BY <1>1, <3>1 DEF RecordUse
      <4>2. QED
        BY <1>1, <3>1, <4>1, NewIndexRow
    <3>2. CASE reuse' = reuse
      BY <1>1, <3>2
    <3>3. QED
      BY <1>7, <3>1, <3>2 DEF ReadIndex, IndexFails
  <2>4. QED
    BY <1>1, <1>3, <2>1, <2>2, <2>3
<1>8. CASE WipeKey
  <2>1. /\ \A s \in Submissions : ~ Busy(s)
        /\ sub' = sub /\ wiping' = "settings cleared"
    BY <1>8, Zenon DEF WipeKey
  <2>2. QED
    BY <2>1 DEF KeyAlone, Busy
<1>9. CASE WipeReuse
  <2>1. reuse' = {} /\ UNCHANGED <<sub, storedKey>>
    BY <1>9, Zenon DEF WipeReuse
  <2>2. wiping' = "no"
    BY <1>9 DEF WipeReuse
  <2>3. QED
    BY <1>1, <2>1, <2>2 DEF KeyAlone, Busy
<1>10. CASE ReuseStop
  <2>1. \A s \in Submissions : sub'[s] = Resting \/ sub'[s] = sub[s]
    BY <1>10 DEF ReuseStop
  <2>2. Resting.at = "idle"
    BY DEF Resting
  <2>3. UNCHANGED <<wiping, reuse, storedKey>>
    BY <1>10 DEF ReuseStop
  <2>4. QED
    BY <1>1, <2>1, <2>2, <2>3 DEF KeyAlone, Busy
<1>11. CASE UNCHANGED reuseVars
  BY <1>1, <1>11 DEF KeyAlone, Busy, reuseVars
<1>12. QED
  BY <1>2, <1>4, <1>5, <1>6, <1>7, <1>8, <1>9, <1>10, <1>11 DEF ReuseNext

(* What every submission and the index keep, between any awaits of         *)
(* handlePasswordCheck (background/index.ts).                              *)
THEOREM ReuseInvAlways == ReuseSpec => []ReuseInv
<1>1. ReuseInv /\ [ReuseNext]_reuseVars => ReuseInv'
  BY ReuseTypedStep, VerdictsEarnedStep, RowsWereUsedStep, KeyAloneStep DEF ReuseInv
<1>2. QED
  BY <1>1, ReuseInvInit, PTL DEF ReuseSpec

(* Neither the range service nor the index is asked more, says more, or    *)
(* forgets more than it may: checkPassword of core-credential, reuseOf of  *)
(* core-credential/reuse.ts and handlePasswordCheck of                     *)
(* background/index.ts, for any submissions, passwords, hosts and wipes.   *)
THEOREM IndexStaysHonest == ReuseSpec => []IndexIsHonest
<1>1. ReuseInv => IndexIsHonest
  <2> SUFFICES ASSUME ReuseInv PROVE IndexIsHonest
    OBVIOUS
  <2>1. ReuseTypeOK
    <3>1. ReuseTyped
      BY DEF ReuseInv
    <3>2. \A s \in Submissions : sub[s] \in SubRecord /\ sub[s].key <= keysMade /\ keysMade \in Nat
      BY <3>1, Zenon DEF ReuseTyped
    <3>3. \A s \in Submissions :
           /\ sub[s].at \in {"idle", "checking", "asking", "keyless", "keying",
                             "tagged", "recording", "answered"}
           /\ sub[s].explain \in Explanations \cup {Unanswered}
           /\ sub[s].key \in 0 .. keysMade
           /\ sub[s].elsewhere \subseteq Hosts /\ sub[s].unknown \in BOOLEAN
      <4> SUFFICES ASSUME NEW s \in Submissions
                   PROVE  /\ sub[s].at \in {"idle", "checking", "asking", "keyless", "keying",
                                             "tagged", "recording", "answered"}
                          /\ sub[s].explain \in Explanations \cup {Unanswered}
                          /\ sub[s].key \in 0 .. keysMade
                          /\ sub[s].elsewhere \subseteq Hosts /\ sub[s].unknown \in BOOLEAN
        OBVIOUS
      <4>1. sub[s] \in SubRecord
        BY <3>2
      <4>2. sub[s].key \in Nat /\ sub[s].elsewhere \subseteq Hosts
        BY <4>1 DEF SubRecord
      <4>3. sub[s].unknown \in BOOLEAN
        BY <4>1, Zenon DEF SubRecord
      <4>4. /\ sub[s].explain \in Explanations \cup {Unanswered}
            /\ sub[s].at \in {"idle", "checking", "asking", "keyless", "keying",
                              "tagged", "recording", "answered"}
        BY <4>1, Zenon DEF SubRecord
      <4>5. sub[s].key \in 0 .. keysMade
        BY <3>2, <4>2
      <4>6. QED
        BY <4>2, <4>3, <4>4, <4>5
    <3>4. QED
      BY <3>1, <3>3, Zenon DEF ReuseTyped, ReuseTypeOK
  <2>2. OrphanOnlyByOverlap
    BY Zenon DEF ReuseInv, KeyAlone, OrphanOnlyByOverlap
  <2>3. QED
    BY <2>1, <2>2 DEF ReuseInv, VerdictsEarned, RowsWereUsed, IndexIsHonest
<1>2. QED
  BY <1>1, ReuseInvAlways, PTL

-----------------------------------------------------------------------------
(***************************************************************************)
(* LeakLookup, for any number of checks: the answer on the panel is that   *)
(* of every source, and of the check last asked for.                       *)
(***************************************************************************)
SourceWords == Replies \cup {"unasked", "no key", "too late"}
LookupRecord == [step : {"none", "asking", "answered", "ended"}, at : 1 .. 3, silent : SUBSET Sources,
                 found : SUBSET Sources, inSight : BOOLEAN]
LeakStates == [kind : {"idle", "needs", "checking", "ready", "error"}, check : LeakChecks \cup {0},
               inventory : [found : SUBSET Sources, silent : SUBSET Sources]]

LeakTyped ==
    /\ typed \in {"empty", "not an address", "address"}
    /\ leaks \in LeakStates /\ leakPanel \in LeakStates
    /\ \A c \in LeakChecks : ~ lookups[c].inSight
    /\ lookups \in [LeakChecks -> LookupRecord] /\ said \in [LeakChecks -> [Sources -> SourceWords]]

(* What a source may have said and not be counted silent.                  *)
CountedAs(source, word) == word \in {"found", "none"} \/ (word = "refused" /\ source = Cavalier)

(* The worker has heard of the sources before the one it is at, and adds   *)
(* up what they said.                                                      *)
AddsUp(c) ==
    /\ lookups[c].step = "none" =>
           /\ lookups[c].at = 1 /\ lookups[c].found = {}
           /\ said[c][Hibp] = "unasked" /\ said[c][Cavalier] = "unasked"
    /\ lookups[c].step = "asking" =>
           /\ lookups[c].at = 1 <=> said[c][Hibp] = "unasked"
           /\ lookups[c].at <= 2 <=> said[c][Cavalier] = "unasked"
           /\ \A s \in Sources :
                /\ s \in lookups[c].found <=> said[c][s] = "found"
                /\ s \in lookups[c].silent \/ said[c][s] = "unasked" \/ CountedAs(s, said[c][s])

(* An inventory, on its way to the panel or there, is of an ended check.   *)
Earned(state) ==
    state.kind = "ready" =>
        /\ state.check \in LeakChecks /\ lookups[state.check].step = "ended"
        /\ \A s \in Sources :
             /\ said[state.check][s] # "unasked"
             /\ s \in state.inventory.found <=> said[state.check][s] = "found"
             /\ s \in state.inventory.silent \/ CountedAs(s, said[state.check][s])

LeakInv == LeakTyped /\ (\A c \in LeakChecks : AddsUp(c)) /\ Earned(leaks) /\ Earned(leakPanel)

LEMMA OrderFacts == Len(Order) = 2 /\ Order[1] = Hibp /\ Order[2] = Cavalier /\ Hibp # Cavalier
                    /\ Sources = {Hibp, Cavalier}
  BY DEF Order, Hibp, Cavalier, Sources

LEMMA NotAskedRecord ==
    /\ NotAsked \in LookupRecord /\ NotAsked.step = "none" /\ NotAsked.at = 1
    /\ NotAsked.found = {} /\ ~ NotAsked.inSight
    /\ [NotAsked EXCEPT !.step = "asking"] \in LookupRecord
    /\ [NotAsked EXCEPT !.step = "asking"].step = "asking" /\ [NotAsked EXCEPT !.step = "asking"].at = 1
    /\ [NotAsked EXCEPT !.step = "asking"].found = {} /\ ~ [NotAsked EXCEPT !.step = "asking"].inSight
<1>1. NotAsked \in LookupRecord /\ NotAsked.step = "none"
  BY DEF NotAsked, LookupRecord
<1>2. \A x \in LookupRecord : [x EXCEPT !.step = "asking"] \in LookupRecord
  BY DEF LookupRecord
<1>3. [NotAsked EXCEPT !.step = "asking"] \in LookupRecord
  BY <1>1, <1>2, Zenon
<1>4. /\ NotAsked.at = 1 /\ NotAsked.found = {}
      /\ [NotAsked EXCEPT !.step = "asking"].step = "asking"
      /\ [NotAsked EXCEPT !.step = "asking"].at = 1 /\ [NotAsked EXCEPT !.step = "asking"].found = {}
  BY DEF NotAsked
<1>5. ~ NotAsked.inSight /\ ~ [NotAsked EXCEPT !.step = "asking"].inSight
  BY DEF NotAsked
<1>6. QED
  BY <1>1, <1>3, <1>4, <1>5

LEMMA CountedFacts ==
    \A source, word : /\ word \in {"found", "none"} => CountedAs(source, word)
                      /\ word = "refused" /\ source = Cavalier => CountedAs(source, word)
<1>1. \A source, word : word = "refused" /\ source = Cavalier => CountedAs(source, word)
  BY Zenon DEF CountedAs
<1>2. \A source, word : word \in {"found", "none"} => CountedAs(source, word)
  BY Zenon DEF CountedAs
<1>3. QED
  BY <1>1, <1>2, Zenon

LEMMA LeakInvInit == LeakInit => LeakInv
<1> SUFFICES ASSUME LeakInit PROVE LeakInv
  OBVIOUS
<1>1. \A c \in LeakChecks : lookups[c] = NotAsked /\ \A s \in Sources : said[c][s] = "unasked"
  BY DEF LeakInit
<1>2. /\ NotAsked \in LookupRecord /\ NotAsked.step = "none" /\ NotAsked.at = 1
      /\ NotAsked.found = {} /\ ~ NotAsked.inSight
  BY NotAskedRecord
<1>3. NeverLooked \in LeakStates /\ NeverLooked.kind = "idle"
  BY DEF NeverLooked, State, NoInventory, LeakStates
<1>4. LeakTyped
  BY <1>1, <1>2, <1>3 DEF LeakInit, LeakTyped, SourceWords
<1>5. \A c \in LeakChecks : AddsUp(c)
  BY <1>1, <1>2, OrderFacts DEF AddsUp
<1>6. QED
  BY <1>3, <1>4, <1>5 DEF LeakInv, LeakInit, Earned

(* A step of one check in the worker: only what is its own moves.          *)
LEMMA WorkerKeeps ==
    ASSUME LeakInv, NEW c \in LeakChecks, lookups[c].step \in {"none", "asking"},
           lookups' \in [LeakChecks -> LookupRecord], said' \in [LeakChecks -> [Sources -> SourceWords]],
           \A d \in LeakChecks : ~ lookups'[d].inSight,
           \A d \in LeakChecks \ {c} :
               /\ lookups'[d].step = lookups[d].step /\ lookups'[d].at = lookups[d].at
               /\ lookups'[d].found = lookups[d].found /\ lookups'[d].silent = lookups[d].silent
               /\ said'[d] = said[d],
           AddsUp(c)', typed' = typed, leakPanel' = leakPanel, leaks' \in LeakStates,
           leaks' = leaks \/ Earned(leaks)'
    PROVE  LeakInv'
<1>1. LeakTyped'
  BY DEF LeakInv, LeakTyped
<1>2. \A d \in LeakChecks : AddsUp(d)'
  BY DEF LeakInv, AddsUp
<1>3. ASSUME NEW state, Earned(state), state' = state PROVE Earned(state)'
  BY <1>3 DEF Earned
<1>4. Earned(leakPanel)'
  BY <1>3 DEF LeakInv
<1>5. Earned(leaks)'
  BY <1>3 DEF LeakInv
<1>6. QED
  BY <1>1, <1>2, <1>4, <1>5 DEF LeakInv

LEMMA PressKeeps == ASSUME LeakInv, NEW c \in LeakChecks, PressCheck(c) PROVE LeakInv'
<1>1. /\ lookups[c].step = "none" /\ AddsUp(c) /\ leakPanel.kind # "checking"
      /\ UNCHANGED <<typed, leakPanel, said>> /\ LeakTyped
  BY DEF PressCheck, Turn, ButtonOffered, LeakInv
<1>2. CASE /\ leaks' = State("needs", 0, NoInventory)
           /\ lookups' = [lookups EXCEPT ![c].step = "ended"]
  <2>1. leaks' \in LeakStates /\ leaks'.kind = "needs"
    BY <1>2 DEF State, NoInventory, LeakStates
  <2>2. lookups' \in [LeakChecks -> LookupRecord] /\ \A d \in LeakChecks \ {c} : lookups'[d] = lookups[d]
    BY <1>1, <1>2 DEF LeakTyped, LookupRecord
  <2>3. lookups'[c].step = "ended" /\ \A d \in LeakChecks : ~ lookups'[d].inSight
    BY <1>1, <1>2 DEF LeakTyped, LookupRecord
  <2>4. AddsUp(c)' /\ Earned(leaks)'
    BY <2>1, <2>3 DEF AddsUp, Earned
  <2>5. QED
    BY <1>1, <2>1, <2>2, <2>3, <2>4, WorkerKeeps DEF LeakTyped
<1>3. CASE /\ leaks' = State("checking", 0, NoInventory)
           /\ lookups' = [d \in LeakChecks |->
                IF d = c THEN [NotAsked EXCEPT !.step = "asking"]
                         ELSE [lookups[d] EXCEPT !.inSight = @ \/ leakPanel.kind = "checking"]]
  <2>1. leaks' \in LeakStates /\ leaks'.kind = "checking"
    BY <1>3 DEF State, NoInventory, LeakStates
  <2> DEFINE new == [NotAsked EXCEPT !.step = "asking"]
  <2>2. new \in LookupRecord /\ new.step = "asking" /\ new.at = 1 /\ new.found = {} /\ ~ new.inSight
    BY NotAskedRecord
  <2>3. \A d \in LeakChecks : lookups[d] \in LookupRecord /\ ~ lookups[d].inSight
    BY <1>1 DEF LeakTyped, LookupRecord
  <2>4. ASSUME NEW d \in LeakChecks
        PROVE  /\ [lookups[d] EXCEPT !.inSight = @ \/ leakPanel.kind = "checking"] \in LookupRecord
               /\ [lookups[d] EXCEPT !.inSight = @ \/ leakPanel.kind = "checking"] = lookups[d]
    BY <1>1, <2>3 DEF LookupRecord
  <2> HIDE DEF new
  <2>5. /\ lookups' \in [LeakChecks -> LookupRecord] /\ lookups'[c] = new
        /\ \A d \in LeakChecks \ {c} : lookups'[d] = lookups[d]
        /\ \A d \in LeakChecks : ~ lookups'[d].inSight
    BY <1>3, <2>2, <2>3, <2>4 DEF new
  <2>6. AddsUp(c)' /\ Earned(leaks)'
    BY <1>1, <2>1, <2>2, <2>5, OrderFacts DEF AddsUp, Earned
  <2>7. QED
    BY <1>1, <2>1, <2>5, <2>6, WorkerKeeps DEF LeakTyped
<1>4. QED
  BY <1>2, <1>3 DEF PressCheck

(* The source the worker is at has spoken, or will not be waited for.      *)
LEMMA SpokenKeeps ==
    ASSUME LeakInv, NEW c \in LeakChecks, lookups[c].step = "asking", lookups[c].at <= Len(Order),
           NEW word \in SourceWords \ {"unasked"},
           said' = [said EXCEPT ![c][AskingOf(c)] = word],
           \/ lookups' = Silent(c) /\ word # "found"
           \/ lookups' = Heard(c, word = "found") /\ CountedAs(AskingOf(c), word),
           UNCHANGED <<typed, leaks, leakPanel>>
    PROVE  LeakInv'
<1> DEFINE a == AskingOf(c)
<1>1. /\ LeakTyped /\ AddsUp(c) /\ lookups[c] \in LookupRecord
      /\ lookups[c].at \in 1 .. 2 /\ said[c] \in [Sources -> SourceWords]
  <2>1. LeakTyped /\ AddsUp(c)
    BY DEF LeakInv
  <2>2. lookups[c] \in LookupRecord /\ said[c] \in [Sources -> SourceWords]
    BY <2>1 DEF LeakTyped
  <2>3. lookups[c].at \in 1 .. 3 /\ lookups[c].at <= 2
    BY <2>2, OrderFacts DEF LookupRecord
  <2>4. lookups[c].at \in 1 .. 2
    BY <2>3
  <2>5. QED
    BY <2>1, <2>2, <2>4
<1>2. /\ a \in Sources /\ (lookups[c].at = 1 => a = Hibp) /\ (lookups[c].at = 2 => a = Cavalier)
  BY <1>1, OrderFacts DEF AskingOf
<1> HIDE DEF a
<1>3. /\ said' \in [LeakChecks -> [Sources -> SourceWords]] /\ \A d \in LeakChecks \ {c} : said'[d] = said[d]
      /\ said'[c][a] = word /\ \A s \in Sources \ {a} : said'[c][s] = said[c][s]
  BY <1>1, <1>2 DEF LeakTyped, a
<1>4. /\ lookups' \in [LeakChecks -> LookupRecord] /\ \A d \in LeakChecks \ {c} : lookups'[d] = lookups[d]
      /\ lookups'[c].step = "asking" /\ lookups'[c].at = lookups[c].at + 1
      /\ \A d \in LeakChecks : ~ lookups'[d].inSight
      /\ \/ lookups'[c].silent = lookups[c].silent \cup {a} /\ lookups'[c].found = lookups[c].found
            /\ word # "found"
         \/ /\ lookups'[c].silent = lookups[c].silent /\ CountedAs(a, word)
            /\ lookups'[c].found = IF word = "found" THEN lookups[c].found \cup {a} ELSE lookups[c].found
  <2> DEFINE n == lookups[c].at + 1
             silent == lookups[c].silent \cup {a}
             found == IF word = "found" THEN lookups[c].found \cup {a} ELSE lookups[c].found
  <2>1. n \in 1 .. 3 /\ silent \in SUBSET Sources /\ found \in SUBSET Sources
    <3>1. lookups[c].silent \in SUBSET Sources /\ lookups[c].found \in SUBSET Sources
      BY <1>1 DEF LookupRecord
    <3>2. n \in 1 .. 3
      BY <1>1
    <3>3. silent \in SUBSET Sources /\ found \in SUBSET Sources
      BY <1>2, <3>1
    <3>4. QED
      BY <3>2, <3>3
  <2>2. \/ lookups' = [lookups EXCEPT ![c].at = n, ![c].silent = silent] /\ word # "found"
        \/ lookups' = [lookups EXCEPT ![c].at = n, ![c].found = found] /\ CountedAs(a, word)
    BY DEF Silent, Heard, a
  <2> HIDE DEF n, silent, found
  <2>3. /\ lookups' \in [LeakChecks -> LookupRecord] /\ \A d \in LeakChecks \ {c} : lookups'[d] = lookups[d]
        /\ lookups'[c].step = "asking" /\ lookups'[c].at = n
        /\ \A d \in LeakChecks : ~ lookups'[d].inSight
        /\ \/ lookups'[c].silent = silent /\ lookups'[c].found = lookups[c].found /\ word # "found"
           \/ lookups'[c].silent = lookups[c].silent /\ lookups'[c].found = found /\ CountedAs(a, word)
    <3>1. lookups \in [LeakChecks -> LookupRecord] /\ \A d \in LeakChecks : ~ lookups[d].inSight
      BY <1>1 DEF LeakTyped
    <3>2. CASE lookups' = [lookups EXCEPT ![c].at = n, ![c].silent = silent] /\ word # "found"
      <4>1. [lookups[c] EXCEPT !.at = n, !.silent = silent] \in LookupRecord
        BY <1>1, <2>1 DEF LookupRecord
      <4>2. lookups' = [lookups EXCEPT ![c] = [lookups[c] EXCEPT !.at = n, !.silent = silent]]
        BY <3>1, <3>2
      <4>3. QED
        BY <1>1, <3>1, <3>2, <4>1, <4>2 DEF LookupRecord
    <3>3. CASE lookups' = [lookups EXCEPT ![c].at = n, ![c].found = found] /\ CountedAs(a, word)
      <4>1. [lookups[c] EXCEPT !.at = n, !.found = found] \in LookupRecord
        BY <1>1, <2>1 DEF LookupRecord
      <4>2. lookups' = [lookups EXCEPT ![c] = [lookups[c] EXCEPT !.at = n, !.found = found]]
        BY <3>1, <3>3
      <4>3. QED
        BY <1>1, <3>1, <3>3, <4>1, <4>2 DEF LookupRecord
    <3>4. QED
      BY <2>2, <3>2, <3>3
  <2>4. QED
    BY <2>3 DEF n, silent, found
<1>5. AddsUp(c)'
  <2>1. /\ lookups'[c].at = 1 <=> said'[c][Hibp] = "unasked"
        /\ lookups'[c].at <= 2 <=> said'[c][Cavalier] = "unasked"
    BY <1>1, <1>2, <1>3, <1>4, OrderFacts DEF AddsUp
  <2>2. said[c][a] = "unasked"
    BY <1>1, <1>2 DEF AddsUp
  <2>3. ASSUME NEW s \in Sources
        PROVE  /\ s \in lookups'[c].found <=> said'[c][s] = "found"
               /\ s \in lookups'[c].silent \/ said'[c][s] = "unasked" \/ CountedAs(s, said'[c][s])
    <3>1. /\ s \in lookups[c].found <=> said[c][s] = "found"
          /\ s \in lookups[c].silent \/ said[c][s] = "unasked" \/ CountedAs(s, said[c][s])
      BY <1>1 DEF AddsUp
    <3>2. CASE s = a
      BY <1>3, <1>4, <2>2, <3>1, <3>2
    <3>3. CASE s # a
      BY <1>3, <1>4, <3>1, <3>3
    <3>4. QED
      BY <3>2, <3>3
  <2>4. QED
    BY <1>4, <2>1, <2>3, Zenon DEF AddsUp
<1>6. QED
  BY <1>1, <1>3, <1>4, <1>5, WorkerKeeps DEF LeakTyped

LEMMA LeakInvStep == LeakInv /\ [LeakNext]_leakVars => LeakInv'
<1> SUFFICES ASSUME LeakInv, [LeakNext]_leakVars PROVE LeakInv'
  OBVIOUS
<1>1. CASE TypeAddress
  BY <1>1 DEF TypeAddress, LeakInv, LeakTyped, AddsUp, Earned
<1>2. CASE PaintLeaks
  BY <1>2 DEF PaintLeaks, LeakInv, LeakTyped, AddsUp, Earned
<1>3. ASSUME NEW c \in LeakChecks, PressCheck(c) PROVE LeakInv'
  BY <1>3, PressKeeps
<1>4. ASSUME NEW c \in LeakChecks, SourceUnavailable(c) PROVE LeakInv'
  BY <1>4, SpokenKeeps DEF SourceUnavailable, SourceWords
<1>5. ASSUME NEW c \in LeakChecks, SourceReplies(c) PROVE LeakInv'
  <2>1. PICK reply \in Replies :
        /\ lookups' = IF Readable(AskingOf(c), reply) THEN Heard(c, reply = "found") ELSE Silent(c)
        /\ said' = [said EXCEPT ![c][AskingOf(c)] = reply]
    BY <1>5 DEF SourceReplies
  <2>2. reply \in SourceWords \ {"unasked"}
    BY DEF SourceWords, Replies
  <2>3. /\ Readable(AskingOf(c), reply) => CountedAs(AskingOf(c), reply)
        /\ ~ Readable(AskingOf(c), reply) => reply # "found"
    <3>1. /\ reply \in {"found", "none"} => CountedAs(AskingOf(c), reply)
          /\ reply = "refused" /\ AskingOf(c) = Cavalier => CountedAs(AskingOf(c), reply)
      BY CountedFacts
    <3>2. reply = "found" => reply \in {"found", "none"}
      OBVIOUS
    <3>3. QED
      BY <3>1, <3>2, Zenon DEF Readable
  <2>4. QED
    BY <1>5, <2>1, <2>2, <2>3, SpokenKeeps DEF SourceReplies
<1>6. ASSUME NEW c \in LeakChecks, SourceTimesOut(c) PROVE LeakInv'
  BY <1>6, SpokenKeeps DEF SourceTimesOut, DeadlineOf, SourceWords
<1>7. ASSUME NEW c \in LeakChecks, InventoryArrives(c) \/ LookupFails(c) PROVE LeakInv'
  <2>0. /\ lookups[c].step = "asking" /\ AddsUp(c) /\ LeakTyped /\ UNCHANGED <<typed, leakPanel, said>>
        /\ lookups' = [lookups EXCEPT ![c].step = "ended"] /\ lookups[c] \in LookupRecord
    BY <1>7 DEF InventoryArrives, LookupFails, LeakInv, LeakTyped
  <2>1. /\ lookups' \in [LeakChecks -> LookupRecord] /\ lookups'[c].step = "ended"
        /\ \A d \in LeakChecks : ~ lookups'[d].inSight
        /\ \A d \in LeakChecks \ {c} : lookups'[d] = lookups[d]
    BY <2>0 DEF LeakTyped, LookupRecord
  <2>2. AddsUp(c)'
    BY <2>1 DEF AddsUp
  <2>3. leaks' \in LeakStates /\ Earned(leaks)'
    <3>1. CASE InventoryArrives(c)
      <4>1. leaks' = State("ready", c, [found |-> lookups[c].found, silent |-> lookups[c].silent])
            /\ lookups[c].at > 2
        BY <3>1, OrderFacts DEF InventoryArrives
      <4>2. leaks' \in LeakStates /\ leaks'.check = c
            /\ leaks'.inventory.found = lookups[c].found /\ leaks'.inventory.silent = lookups[c].silent
        BY <2>0, <4>1 DEF State, LeakStates, LookupRecord
      <4>3. \A s \in Sources : said[c][s] # "unasked"
        <5>1. lookups[c].at \in 1 .. 3
          BY <2>0 DEF LookupRecord
        <5>2. QED
          BY <2>0, <4>1, <5>1, OrderFacts DEF AddsUp
      <4>4. QED
        BY <2>0, <2>1, <4>2, <4>3 DEF AddsUp, Earned
    <3>2. CASE LookupFails(c)
      BY <3>2 DEF LookupFails, State, NoInventory, LeakStates, Earned
    <3>3. QED
      BY <1>7, <3>1, <3>2
  <2>4. QED
    BY <2>0, <2>1, <2>2, <2>3, WorkerKeeps DEF LeakTyped
<1>8. CASE UNCHANGED leakVars
  BY <1>8 DEF leakVars, LeakInv, LeakTyped, AddsUp, Earned
<1>9. QED
  BY <1>1, <1>2, <1>3, <1>4, <1>5, <1>6, <1>7, <1>8 DEF LeakNext

(* What the worker's lookups and the panel keep (background/leaks.ts,      *)
(* options/index.ts).                                                      *)
THEOREM LeakInvAlways == LeakSpec => []LeakInv
<1>1. QED
  BY LeakInvInit, LeakInvStep, PTL DEF LeakSpec

(* The panel's answer is that of every source, and of the check last asked *)
(* for: lookupLeaks (background/leaks.ts), mergeLeaks (core-leaks), and    *)
(* the leaks area of options/index.ts, for any number of checks.           *)
THEOREM AnswersAreEverySources == LeakSpec => []AnswerIsEverySources
<1>1. LeakInv => AnswerIsEverySources
  <2> SUFFICES ASSUME LeakInv PROVE AnswerIsEverySources
    OBVIOUS
  <2>1. LeakTypeOK
    <3>1. LeakTyped
      BY DEF LeakInv
    <3>2. {leaks, leakPanel} \subseteq LeakStates /\ \A c \in LeakChecks : lookups[c] \in LookupRecord
      BY <3>1 DEF LeakTyped
    <3>3. \A c \in LeakChecks : /\ lookups[c].step \in {"none", "asking", "answered", "ended"}
                              /\ lookups[c].at \in 1 .. Len(Order) + 1
                              /\ lookups[c].silent \cup lookups[c].found \subseteq Sources
      <4>1. Len(Order) + 1 = 3
        BY OrderFacts
      <4>2. QED
        BY <3>2, <4>1 DEF LookupRecord
    <3>4. /\ {leaks.kind, leakPanel.kind} \subseteq {"idle", "needs", "checking", "ready", "error"}
          /\ {leaks.check, leakPanel.check} \subseteq LeakChecks \cup {0}
      BY <3>2 DEF LeakStates
    <3>5. QED
      BY <3>1, <3>3, <3>4, Zenon DEF LeakTyped, LeakTypeOK, SourceWords
  <2>2. CalmIsEarned
    BY DEF LeakInv, Earned, CountedAs, CalmIsEarned, Complete
  <2>3. EverySourceHeard
    BY DEF LeakInv, LeakTyped, LeakStates, Earned, EverySourceHeard
  <2>4. OldAnswerOnlyByDoublePress
    BY DEF LeakInv, LeakTyped, LookupRecord, Earned, OldAnswerOnlyByDoublePress
  <2>5. QED
    BY <2>1, <2>2, <2>3, <2>4 DEF AnswerIsEverySources
<1>2. QED
  BY <1>1, LeakInvAlways, PTL

-----------------------------------------------------------------------------
(***************************************************************************)
(* Downloads, for any files and feeds: what is to be stopped is stopped    *)
(* before anybody is told of it, silence is said only of what was looked   *)
(* at, and a check that could not be made never helps a file.              *)
(***************************************************************************)
Ran(checks) == {c \in SignKinds : checks[c] # "skipped"}
NoneFailed(checks) == \A c \in SignKinds : checks[c] # "failed"

(* judgeDownload, by what it comes to.                                     *)
LEMMA JudgeFacts ==
    ASSUME NEW file, NEW checks
    PROVE  /\ ~ NoneFailed(checks) => JudgeDownload(file, checks).action = "block"
           /\ NoneFailed(checks) /\ (Ran(checks) = {} \/ Shape(file, SignKinds \ Ran(checks)) # {})
                => JudgeDownload(file, checks).action = "warn"
           /\ NoneFailed(checks) /\ Ran(checks) # {} /\ Shape(file, SignKinds \ Ran(checks)) = {}
                => JudgeDownload(file, checks).action = "inform"
<1> DEFINE shape == Shape(file, SignKinds \ Ran(checks))
           end == IF SignKinds \ Ran(checks) = {} THEN "passed-all" ELSE "passed-what-ran"
<1>1. JudgeDownload(file, checks) =
        CASE \E c \in SignKinds : checks[c] = "failed" -> Verdict("block", "blocked", {})
          [] (\A c \in SignKinds : checks[c] # "failed") /\ Ran(checks) = {} ->
                 Verdict("warn", "unchecked", shape)
          [] (\A c \in SignKinds : checks[c] # "failed") /\ Ran(checks) # {} /\ shape # {} ->
                 Verdict("warn", "needs-a-look", shape)
          [] OTHER -> Verdict("inform", end, {})
  BY Zenon DEF JudgeDownload, Ran
<1> HIDE DEF shape, end
<1>2. \A a, h, s : Verdict(a, h, s).action = a
  BY DEF Verdict
<1>3. ASSUME ~ NoneFailed(checks) PROVE JudgeDownload(file, checks) = Verdict("block", "blocked", {})
  BY <1>1, <1>3 DEF NoneFailed
<1>4. ASSUME NoneFailed(checks), Ran(checks) = {} \/ shape # {}
      PROVE  JudgeDownload(file, checks) \in {Verdict("warn", "unchecked", shape), Verdict("warn", "needs-a-look", shape)}
  BY <1>1, <1>4 DEF NoneFailed
<1>5. ASSUME NoneFailed(checks), Ran(checks) # {}, shape = {}
      PROVE  JudgeDownload(file, checks) = Verdict("inform", end, {})
  BY <1>1, <1>5 DEF NoneFailed
<1>6. /\ ~ NoneFailed(checks) => JudgeDownload(file, checks).action = "block"
      /\ NoneFailed(checks) /\ (Ran(checks) = {} \/ shape # {}) => JudgeDownload(file, checks).action = "warn"
      /\ NoneFailed(checks) /\ Ran(checks) # {} /\ shape = {} => JudgeDownload(file, checks).action = "inform"
  BY <1>2, <1>3, <1>4, <1>5
<1>7. QED
  BY <1>6 DEF shape

(* What is told of a file's name and type is told whatever was skipped,    *)
(* and its shape as soon as anything was.                                  *)
LEMMA ShapeGrows ==
    ASSUME NEW file, NEW some, NEW more, some \subseteq more, Shape(file, some) # {}
    PROVE  Shape(file, more) # {}
<1>1. CASE Telling(file) # {}
  BY <1>1 DEF Shape
<1>2. CASE Telling(file) = {}
  <2>1. some # {} /\ more # {}
    BY <1>2 DEF Shape
  <2>2. Shape(file, some) = Shape(file, more)
    BY <1>2, <2>1 DEF Shape
  <2>3. QED
    BY <2>2
<1>3. QED
  BY <1>1, <1>2

(* Knowing less is never milder: with further checks skipped, none of them *)
(* one that failed, judgeDownload weighs no less.                          *)
LEMMA SkippingIsNoMilder ==
    ASSUME NEW file, NEW checks, NEW fewer, NEW more \in SUBSET SignKinds,
           fewer = [c \in SignKinds |-> IF c \in more THEN "skipped" ELSE checks[c]],
           \A c \in more : checks[c] # "failed"
    PROVE  Weight(JudgeDownload(file, fewer)) >= Weight(JudgeDownload(file, checks))
<1> DEFINE V == JudgeDownload(file, checks)
           W == JudgeDownload(file, fewer)
<1>1. NoneFailed(fewer) <=> NoneFailed(checks)
  BY DEF NoneFailed
<1>2. Ran(fewer) \subseteq Ran(checks)
  BY DEF Ran
<1>3. SignKinds \ Ran(checks) \subseteq SignKinds \ Ran(fewer)
  BY <1>2
<1>4. Shape(file, SignKinds \ Ran(checks)) # {} => Shape(file, SignKinds \ Ran(fewer)) # {}
  BY <1>3, ShapeGrows
<1>5. \/ W.action = "block"
      \/ W.action = "warn" /\ V.action \in {"warn", "inform"}
      \/ V.action = "inform" /\ W.action = "inform"
  <2>1. CASE ~ NoneFailed(checks)
    BY <1>1, <2>1, JudgeFacts
  <2>2. CASE NoneFailed(checks) /\ (Ran(checks) = {} \/ Shape(file, SignKinds \ Ran(checks)) # {})
    <3>1. Ran(fewer) = {} \/ Shape(file, SignKinds \ Ran(fewer)) # {}
      BY <1>2, <1>4, <2>2
    <3>2. W.action = "warn" /\ V.action = "warn"
      BY <1>1, <2>2, <3>1, JudgeFacts
    <3>3. QED
      BY <3>2
  <2>3. CASE NoneFailed(checks) /\ Ran(checks) # {} /\ Shape(file, SignKinds \ Ran(checks)) = {}
    <3>1. V.action = "inform" /\ W.action \in {"warn", "inform"}
      BY <1>1, <2>3, JudgeFacts
    <3>2. QED
      BY <3>1
  <2>4. QED
    BY <2>1, <2>2, <2>3
<1> HIDE DEF V, W
<1>6. Weight(W) >= Weight(V)
  BY <1>5 DEF Weight
<1>7. QED
  BY <1>6 DEF V, W

(* A file passes without a word only when what was looked at is clean.     *)
LEMMA InformedIsClean ==
    ASSUME NEW file, NEW feed, feed = Unread \/ NoUrl \notin feed,
           JudgeDownload(file, Evidence(file, feed)).action = "inform"
    PROVE  /\ feed # Unread => {file.url, file.finalUrl} \cap feed = {}
           /\ ~ IsProgram(file.name) /\ file.name.ends # "archive"
           /\ feed = Unread => file.name.ends # "nameless"
           /\ file.name.ends = "document" => file.mime # "program"
<1> DEFINE checks == Evidence(file, feed)
<1>1. NoneFailed(checks) /\ Ran(checks) # {} /\ Shape(file, SignKinds \ Ran(checks)) = {}
  BY JudgeFacts
<1>2. "hash" \in SignKinds \ Ran(checks)
  BY DEF Evidence, Ran, SignKinds
<1>3. /\ checks["feed"] = FeedCheck(file, feed)
      /\ checks["file-type"] = IF file.name.ends = "nameless" THEN "skipped" ELSE "passed"
      /\ checks["hash"] = "skipped"
  BY DEF Evidence, SignKinds
<1> HIDE DEF checks
<1>4. feed # Unread => Addresses(file) \cap feed = {}
  BY <1>1, <1>3 DEF NoneFailed, SignKinds, FeedCheck
<1>5. feed # Unread => {file.url, file.finalUrl} \cap feed = {}
  BY <1>4 DEF Addresses
<1>6. Telling(file) = {} /\ ~ IsProgram(file.name) /\ file.name.ends # "archive"
  BY <1>1, <1>2 DEF Shape, IsProgram
<1>7. file.name.ends = "document" => file.mime # "program"
  BY <1>6 DEF Telling, MimeDisagrees, IsProgram
<1>8. feed = Unread => file.name.ends # "nameless"
  BY <1>1, <1>3 DEF Ran, SignKinds, FeedCheck
<1>9. QED
  BY <1>5, <1>6, <1>7, <1>8

Handlings == {"none", "created", "cancelling", "journalling", "announcing", "noting", "done", "lost"}
DlRows == Ids \X {"verdict", "unseen"}

DownloadsTyped ==
    /\ what \in [Ids -> Files \cup {NoFile}]
    /\ transfer \in [Ids -> {"awaited", "coming", "landed", "stopped"}]
    /\ handling \in [Ids -> Handlings] /\ shown \in [Ids -> {"none", "blocked", "look"}]
    /\ DOMAIN judged = Ids /\ judged = [d \in Ids |-> judged[d]]
    /\ rows \subseteq DlRows /\ refused \subseteq DlRows
    /\ dlFeed \in Feeds /\ read \in [Ids -> Feeds] /\ cancelAsked \subseteq Ids
    /\ feedMoves \in 0 .. MaxFeedMoves /\ dlStops \in 0 .. MaxDlStops

(* The verdict is of the file that came and of the feed its handler read;  *)
(* and what is told of it waits for the cancelling.                        *)
JudgedInOrder(d) ==
    /\ transfer[d] = "awaited" => handling[d] = "none"
    /\ handling[d] \in {"none", "created"} => judged[d] = NotJudged
    /\ handling[d] \in {"cancelling", "journalling", "announcing", "noting", "done"} => judged[d] # NotJudged
    /\ judged[d] = NotJudged => shown[d] = "none" /\ <<d, "verdict">> \notin rows
    /\ judged[d] # NotJudged => judged[d] = JudgeDownload(what[d], Evidence(what[d], read[d]))
    /\ handling[d] \in {"journalling", "announcing", "noting", "done"} /\ judged[d].action = "block"
           => d \in cancelAsked
    /\ judged[d].action = "block" /\ (shown[d] # "none" \/ <<d, "verdict">> \in rows) => d \in cancelAsked
    /\ handling[d] = "done" /\ Banner(judged[d]) # "none" /\ shown[d] = "none"
           => <<d, "unseen">> \in rows \cup refused

DownloadsInv == DownloadsTyped /\ \A d \in Ids : JudgedInOrder(d)

LEMMA VerdictsAreNews ==
    ASSUME NEW file, NEW checks
    PROVE  /\ JudgeDownload(file, checks).action \in {"inform", "warn", "block"}
           /\ NotJudged.action = "none" /\ JudgeDownload(file, checks) # NotJudged
<1>1. JudgeDownload(file, checks).action \in {"inform", "warn", "block"}
  BY JudgeFacts
<1>2. NotJudged.action = "none"
  BY DEF NotJudged, Verdict
<1>3. QED
  BY <1>1, <1>2

LEMMA DownloadsInvInit == DownloadsInit => DownloadsInv
<1> SUFFICES ASSUME DownloadsInit PROVE DownloadsInv
  OBVIOUS
<1>1. DownloadsTyped
  BY DownloadsAssumption DEF DownloadsInit, DownloadsTyped, Handlings
<1>2. \A d \in Ids : /\ handling[d] = "none" /\ judged[d] = NotJudged /\ shown[d] = "none" /\ rows = {}
  BY DEF DownloadsInit
<1>3. NotJudged.action = "none"
  BY DEF NotJudged, Verdict
<1>4. QED
  BY <1>1, <1>2, <1>3 DEF DownloadsInv, JudgedInOrder

LEMMA DownloadsTypedStep == DownloadsInv /\ [DownloadsNext]_downloadVars => DownloadsTyped'
<1> SUFFICES ASSUME DownloadsInv, [DownloadsNext]_downloadVars PROVE DownloadsTyped'
  OBVIOUS
<1>0. DownloadsTyped
  BY DEF DownloadsInv
<1> USE DEF DownloadsTyped, Handlings, DlRows
<1>1. ASSUME NEW d \in Ids, Created(d) PROVE DownloadsTyped'
  BY <1>0, <1>1 DEF Created
<1>2. ASSUME NEW d \in Ids, Lands(d) PROVE DownloadsTyped'
  BY <1>0, <1>2 DEF Lands
<1>3. ASSUME NEW d \in Ids, Judge(d) PROVE DownloadsTyped'
  <2>1. PICK feed \in {dlFeed, Unread} :
            /\ read' = [read EXCEPT ![d] = feed]
            /\ judged' = [judged EXCEPT ![d] = JudgeDownload(what[d], Evidence(what[d], feed))]
            /\ handling' = [handling EXCEPT
                   ![d] = AfterJudging(JudgeDownload(what[d], Evidence(what[d], feed)))]
    BY <1>3 DEF Judge
  <2>2. feed \in Feeds
    BY <1>0, DownloadsAssumption
  <2>3. read' \in [Ids -> Feeds]
    BY <1>0, <2>1, <2>2
  <2>4. AfterJudging(JudgeDownload(what[d], Evidence(what[d], feed))) \in {"cancelling", "journalling"}
    BY DEF AfterJudging
  <2>5. handling' \in [Ids -> Handlings]
    BY <1>0, <2>1, <2>4
  <2>6. QED
    BY <1>0, <1>3, <2>1, <2>3, <2>5 DEF Judge
<1>4. ASSUME NEW d \in Ids, Cancel(d) PROVE DownloadsTyped'
  BY <1>0, <1>4 DEF Cancel
<1>5. ASSUME NEW d \in Ids, JournalVerdict(d) PROVE DownloadsTyped'
  BY <1>0, <1>5 DEF JournalVerdict, Put
<1>6. ASSUME NEW d \in Ids, Announce(d) PROVE DownloadsTyped'
  BY <1>0, <1>6 DEF Announce, Banner, Missed
<1>7. ASSUME NEW d \in Ids, NoteUnseen(d) PROVE DownloadsTyped'
  BY <1>0, <1>7 DEF NoteUnseen, Put
<1>8. CASE FeedMoves
  <2>1. feedMoves + 1 \in 0 .. MaxFeedMoves
    BY <1>0, <1>8, DownloadsAssumption DEF FeedMoves
  <2>2. QED
    BY <1>0, <1>8, <2>1 DEF FeedMoves
<1>9. CASE DownloadsStop
  <2>1. dlStops + 1 \in 0 .. MaxDlStops
    BY <1>0, <1>9, DownloadsAssumption DEF DownloadsStop
  <2>2. QED
    BY <1>0, <1>9, <2>1 DEF DownloadsStop
<1>10. CASE UNCHANGED downloadVars
  BY <1>0, <1>10 DEF downloadVars
<1>11. QED
  BY <1>1, <1>2, <1>3, <1>4, <1>5, <1>6, <1>7, <1>8, <1>9, <1>10 DEF DownloadsNext, Handle

LEMMA JudgedInOrderStep ==
    DownloadsInv /\ [DownloadsNext]_downloadVars => \A d \in Ids : JudgedInOrder(d)'
<1> SUFFICES ASSUME DownloadsInv, [DownloadsNext]_downloadVars, NEW d \in Ids PROVE JudgedInOrder(d)'
  OBVIOUS
<1>0. DownloadsTyped /\ JudgedInOrder(d)
  BY DEF DownloadsInv
<1>a. NotJudged.action = "none"
  BY DEF NotJudged, Verdict
<1>b. ASSUME UNCHANGED <<what[d], transfer[d], handling[d], judged[d], shown[d], read[d]>>,
             <<d, "verdict">> \in rows' <=> <<d, "verdict">> \in rows,
             rows \subseteq rows', refused \subseteq refused', cancelAsked \subseteq cancelAsked'
      PROVE  JudgedInOrder(d)'
  BY <1>0, <1>b DEF JudgedInOrder
<1>1. ASSUME NEW e \in Ids, Created(e) PROVE JudgedInOrder(d)'
  <2>1. CASE e = d
    <3>1. handling[d] = "none" /\ judged[d] = NotJudged
      BY <1>0, <1>1, <2>1 DEF Created, JudgedInOrder
    <3>2. /\ handling'[d] = "created" /\ transfer'[d] = "coming"
          /\ UNCHANGED <<judged, shown, rows, refused, cancelAsked>>
      BY <1>0, <1>1, <2>1 DEF Created, DownloadsTyped
    <3>3. QED
      BY <1>0, <1>a, <3>1, <3>2 DEF JudgedInOrder
  <2>2. CASE e # d
    BY <1>0, <1>1, <1>b, <2>2 DEF Created, DownloadsTyped
  <2>3. QED
    BY <2>1, <2>2
<1>2. ASSUME NEW e \in Ids, Lands(e) PROVE JudgedInOrder(d)'
  <2>1. transfer'[d] = transfer[d] \/ (transfer'[d] = "landed" /\ transfer[d] = "coming")
    BY <1>0, <1>2 DEF Lands, DownloadsTyped
  <2>2. UNCHANGED <<what, handling, judged, shown, rows, read, cancelAsked, refused>>
    BY <1>2 DEF Lands
  <2>3. QED
    BY <1>0, <2>1, <2>2 DEF JudgedInOrder
<1>3. ASSUME NEW e \in Ids, Judge(e) PROVE JudgedInOrder(d)'
  <2>1. CASE e = d
    <3>1. /\ handling[d] = "created" /\ judged[d] = NotJudged /\ transfer[d] # "awaited"
          /\ shown[d] = "none" /\ <<d, "verdict">> \notin rows
      BY <1>0, <1>3, <2>1 DEF Judge, JudgedInOrder
    <3>2. /\ judged'[d] = JudgeDownload(what'[d], Evidence(what'[d], read'[d]))
          /\ handling'[d] = AfterJudging(judged'[d])
      BY <1>0, <1>3, <2>1 DEF Judge, DownloadsTyped
    <3>3. UNCHANGED <<transfer, shown, rows, cancelAsked, refused>>
      BY <1>3 DEF Judge
    <3>4. judged'[d] # NotJudged
      BY <3>2, VerdictsAreNews
    <3>5. \/ handling'[d] = "cancelling"
          \/ handling'[d] = "journalling" /\ judged'[d].action # "block"
      BY <3>2 DEF AfterJudging
    <3>6. QED
      BY <3>1, <3>2, <3>3, <3>4, <3>5 DEF JudgedInOrder
  <2>2. CASE e # d
    BY <1>0, <1>3, <1>b, <2>2 DEF Judge, DownloadsTyped
  <2>3. QED
    BY <2>1, <2>2
<1>4. ASSUME NEW e \in Ids, Cancel(e) PROVE JudgedInOrder(d)'
  <2>1. CASE e = d
    <3>1. /\ handling[d] = "cancelling" /\ handling'[d] = "journalling" /\ d \in cancelAsked'
          /\ transfer'[d] = "awaited" => transfer[d] = "awaited"
          /\ UNCHANGED <<what, judged, shown, rows, read, refused>>
      BY <1>0, <1>4, <2>1 DEF Cancel, DownloadsTyped
    <3>2. QED
      BY <1>0, <3>1 DEF JudgedInOrder
  <2>2. CASE e # d
    BY <1>0, <1>4, <1>b, <2>2 DEF Cancel, DownloadsTyped
  <2>3. QED
    BY <2>1, <2>2
<1>5. ASSUME NEW e \in Ids, JournalVerdict(e) PROVE JudgedInOrder(d)'
  <2>1. CASE e = d
    <3>1. /\ handling[d] = "journalling" /\ handling'[d] = "announcing"
          /\ UNCHANGED <<what, transfer, judged, shown, read, cancelAsked>>
      BY <1>0, <1>5, <2>1 DEF JournalVerdict, DownloadsTyped
    <3>2. QED
      BY <1>0, <3>1 DEF JudgedInOrder
  <2>2. CASE e # d
    <3>1. <<d, "verdict">> \in rows' <=> <<d, "verdict">> \in rows
      BY <1>5, <2>2 DEF JournalVerdict, Put
    <3>2. rows \subseteq rows' /\ refused \subseteq refused'
      BY <1>5 DEF JournalVerdict, Put
    <3>3. QED
      BY <1>0, <1>5, <1>b, <2>2, <3>1, <3>2 DEF JournalVerdict, DownloadsTyped
  <2>3. QED
    BY <2>1, <2>2
<1>6. ASSUME NEW e \in Ids, Announce(e) PROVE JudgedInOrder(d)'
  <2>1. CASE e = d
    <3>1. /\ handling[d] = "announcing"
          /\ UNCHANGED <<what, transfer, judged, rows, read, cancelAsked, refused>>
      BY <1>6, <2>1 DEF Announce
    <3>2. \/ handling'[d] = "done" /\ shown'[d] = Banner(judged[d])
          \/ handling'[d] = "noting" /\ shown'[d] = shown[d]
      BY <1>0, <1>6, <2>1 DEF Announce, DownloadsTyped, Missed
    <3>3. QED
      BY <1>0, <3>1, <3>2 DEF JudgedInOrder
  <2>2. CASE e # d
    BY <1>0, <1>6, <1>b, <2>2 DEF Announce, DownloadsTyped
  <2>3. QED
    BY <2>1, <2>2
<1>7. ASSUME NEW e \in Ids, NoteUnseen(e) PROVE JudgedInOrder(d)'
  <2>1. \/ rows' = rows \cup {<<e, "unseen">>} /\ refused' = refused
        \/ rows' = rows /\ refused' = refused \cup {<<e, "unseen">>}
    BY <1>7 DEF NoteUnseen, Put
  <2>2. <<d, "verdict">> \in rows' <=> <<d, "verdict">> \in rows
    BY <2>1
  <2>3. CASE e = d
    <3>1. /\ handling[d] = "noting" /\ handling'[d] = "done"
          /\ UNCHANGED <<what, transfer, judged, shown, read, cancelAsked>>
      BY <1>0, <1>7, <2>3 DEF NoteUnseen, DownloadsTyped
    <3>2. <<d, "unseen">> \in rows' \cup refused'
      BY <2>1, <2>3
    <3>3. QED
      BY <1>0, <2>2, <3>1, <3>2 DEF JudgedInOrder
  <2>4. CASE e # d
    BY <1>0, <1>7, <1>b, <2>1, <2>2, <2>4 DEF NoteUnseen, DownloadsTyped
  <2>5. QED
    BY <2>3, <2>4
<1>8. CASE FeedMoves
  BY <1>8, <1>b DEF FeedMoves
<1>9. CASE DownloadsStop
  <2>1. /\ handling'[d] = handling[d] \/ (handling'[d] = "lost" /\ handling[d] \notin {"none", "done"})
        /\ UNCHANGED <<what, transfer, judged, shown, rows, read, cancelAsked, refused>>
    BY <1>9 DEF DownloadsStop
  <2>2. QED
    BY <1>0, <2>1 DEF JudgedInOrder
<1>10. CASE UNCHANGED downloadVars
  BY <1>10, <1>b DEF downloadVars
<1>11. QED
  BY <1>1, <1>2, <1>3, <1>4, <1>5, <1>6, <1>7, <1>8, <1>9, <1>10 DEF DownloadsNext, Handle

(* What every handler of a download keeps, whenever the file lands, the    *)
(* feed changes, or the worker is stopped (background/downloads.ts).       *)
THEOREM DownloadsInvAlways == DownloadsSpec => []DownloadsInv
<1>1. DownloadsInv /\ [DownloadsNext]_downloadVars => DownloadsInv'
  BY DownloadsTypedStep, JudgedInOrderStep DEF DownloadsInv
<1>2. QED
  BY <1>1, DownloadsInvInit, PTL DEF DownloadsSpec

(* A file worth stopping is stopped, then told or noted; silence is only   *)
(* said of what was looked at; and with any check skipped, judgeDownload   *)
(* (core-download/judge.ts) is no milder: handleDownload of                *)
(* background/downloads.ts, for any files, feeds and downloads at once.    *)
THEOREM FilesStoppedAndTold == DownloadsSpec => []FilesAreStoppedAndTold
<1>1. DownloadsInv => FilesAreStoppedAndTold
  <2> SUFFICES ASSUME DownloadsInv PROVE FilesAreStoppedAndTold
    OBVIOUS
  <2>0. DownloadsTyped /\ (\A d \in Ids : JudgedInOrder(d)) /\ NotJudged.action = "none"
    BY DEF DownloadsInv, NotJudged, Verdict
  <2>1. \A d \in Ids : judged[d].action \in {"none", "inform", "warn", "block"}
    <3> SUFFICES ASSUME NEW d \in Ids PROVE judged[d].action \in {"none", "inform", "warn", "block"}
      OBVIOUS
    <3>1. CASE judged[d] = NotJudged
      BY <2>0, <3>1
    <3>2. CASE judged[d] # NotJudged
      <4>1. judged[d] = JudgeDownload(what[d], Evidence(what[d], read[d]))
        BY <2>0, <3>2 DEF JudgedInOrder
      <4>2. JudgeDownload(what[d], Evidence(what[d], read[d])).action \in {"inform", "warn", "block"}
        BY VerdictsAreNews
      <4>3. QED
        BY <4>1, <4>2
    <3>3. QED
      BY <3>1, <3>2
  <2>2. DownloadsTypeOK
    BY <2>0, <2>1 DEF DownloadsTyped, DownloadsTypeOK, Handlings, DlRows
  <2>3. CancelledBeforeTold /\ SeenOrNoted
    BY <2>0 DEF JudgedInOrder, CancelledBeforeTold, SeenOrNoted
  <2>4. SilenceIsEarned
    <3> SUFFICES ASSUME NEW d \in Ids, judged[d].action = "inform"
                 PROVE  /\ read[d] # Unread => {what[d].url, what[d].finalUrl} \cap read[d] = {}
                        /\ ~ IsProgram(what[d].name) /\ what[d].name.ends # "archive"
                        /\ read[d] = Unread => what[d].name.ends # "nameless"
                        /\ what[d].name.ends = "document" => what[d].mime # "program"
      BY DEF SilenceIsEarned
    <3>1. JudgeDownload(what[d], Evidence(what[d], read[d])).action = "inform"
      BY <2>0 DEF JudgedInOrder
    <3>2. read[d] = Unread \/ NoUrl \notin read[d]
      BY <2>0, DownloadsAssumption DEF DownloadsTyped
    <3>3. QED
      BY <3>1, <3>2, InformedIsClean
  <2>5. SkippingNeverHelps
    <3> SUFFICES ASSUME NEW d \in Ids, NEW more \in SUBSET SignKinds, judged[d].action # "none",
                        \A c \in more : Evidence(what[d], read[d])[c] # "failed"
                 PROVE  Weight(JudgeDownload(what[d],
                            [c \in SignKinds |-> IF c \in more THEN "skipped"
                                                 ELSE Evidence(what[d], read[d])[c]]))
                            >= Weight(judged[d])
      BY DEF SkippingNeverHelps
    <3>1. judged[d] = JudgeDownload(what[d], Evidence(what[d], read[d]))
      BY <2>0 DEF JudgedInOrder
    <3>2. QED
      BY <3>1, SkippingIsNoMilder
  <2>6. QED
    BY <2>2, <2>3, <2>4, <2>5 DEF FilesAreStoppedAndTold
<1>2. QED
  BY <1>1, DownloadsInvAlways, PTL

-----------------------------------------------------------------------------
(***************************************************************************)
(* Inventory, for any extensions and any number of overlapping readings:   *)
(* what was there before the first reading is no news, a change keeps its  *)
(* date, and what was agreed to is not reported.                           *)
(***************************************************************************)
ExtensionStates == Looks \cup {Gone}
ExtensionLists == [Extensions -> ExtensionStates]
(* Every change that a comparison can report.                              *)
Reportable == UNION {Compared(e, old, new) : e \in Extensions, old \in ExtensionStates, new \in ExtensionStates}

ReadingRecord ==
    [at : {"idle", "listed", "seeding", "journalling", "putting"}, reviews : BOOLEAN,
     list : ExtensionLists, changes : SUBSET Reportable, row : SUBSET Reportable]

ReadingsTyped ==
    /\ reading \in [Readings -> ReadingRecord]
    /\ \A r \in Readings :
        reading[r].at \in {"idle", "listed", "seeding"} => reading[r].changes = {} /\ reading[r].row = {}

InventoryTyped ==
    /\ ReadingsTyped
    /\ installed \in ExtensionLists /\ snapshots \in ExtensionLists
    /\ trusting \in [at : {"idle", "listing", "writing", "recording"},
                     id : Extensions \cup {Gone}, look : ExtensionStates]
    /\ trusting # Quiet => trusting.at # "idle" /\ trusting.id \in Extensions
    /\ reported \subseteq Reportable
    /\ DOMAIN extJournal = Rows
    /\ updates \in 0 .. MaxUpdates /\ listings \in 0 .. MaxReadings /\ stops \in 0 .. MaxStops
    /\ original \subseteq Extensions
    /\ agreed \in [Extensions -> ExtensionStates \cup {Unrecorded}]
    /\ cut \in BOOLEAN /\ readTwice \in BOOLEAN /\ redated \in BOOLEAN

(* While no two reviews have written at once, one writes, and what it is   *)
(* about to put is not what its row tells.                                 *)
ReviewAlone ==
    readTwice \/
        /\ ~ redated
        /\ \A q, r \in Readings : reading[q].at \in Writing /\ reading[r].at \in Writing => q = r
        /\ \A r \in Readings : reading[r].at = "putting" =>
               \A c \in reading[r].row : extJournal[<<c.id, c.kind>>] # c.tells

NothingReported == reported = {} /\ trusting = Quiet /\ \A r \in Readings : reading[r].changes = {}
SeedRows(r, e) == reading[r].at = "seeding" /\ reading[r].list[e] # Gone

(* Until the baseline is cut: what was here before it has a row, or one on *)
(* its way; nothing is reported before the first reading nor while it      *)
(* stores its rows; and a row keeps what the person agreed to.             *)
BaselineHolds ==
    cut \/
        /\ \A e \in original : snapshots[e] # Gone \/ \E r \in Readings : SeedRows(r, e)
        /\ snapshots = NoRows /\ agreed = NeverAgreed => NothingReported
        /\ Seeding => NothingReported /\ agreed = NeverAgreed
        /\ \A e \in Extensions : agreed[e] # Unrecorded => snapshots[e] = agreed[e]
        /\ OldIsNotNew

InventoryInv == InventoryTyped /\ ReviewAlone /\ BaselineHolds

LEMMA ComparedTells ==
    ASSUME NEW e, NEW old, NEW new, NEW c \in Compared(e, old, new)
    PROVE  /\ c.id = e /\ c.kind \in Kinds /\ old # new
           /\ c.kind = "newly-installed" => old = Gone
<1>1. \A k, t, s : Change(e, k, t, s).id = e /\ Change(e, k, t, s).kind = k
  BY DEF Change
<1>2. CASE old = Gone /\ new = Gone
  BY <1>2 DEF Compared
<1>3. CASE old = Gone /\ new # Gone
  <2>1. c = Change(e, "newly-installed", <<>>, "minor")
    BY <1>3 DEF Compared
  <2>2. QED
    BY <1>1, <1>3, <2>1 DEF Kinds
<1>4. CASE old # Gone /\ new = Gone
  <2>1. c = Change(e, "removed", <<>>, "minor")
    BY <1>4 DEF Compared
  <2>2. QED
    BY <1>1, <1>4, <2>1 DEF Kinds
<1>5. CASE old # Gone /\ new # Gone
  <2>1. c \in Updated(e, old, new)
    BY <1>5 DEF Compared
  <2>2. \/ \E t, s : c = Change(e, "publisher-changed", t, s) /\ old.publisher # new.publisher
        \/ \E t, s : c = Change(e, "permission-added", t, s) /\ Added(old, new) # {}
        \/ \E t, s : c = Change(e, "host-access-widened", t, s) /\ Widened(old, new) # {}
    BY <2>1 DEF Updated
  <2>3. old = new => Added(old, new) = {} /\ Widened(old, new) = {}
    BY DEF Added, Widened
  <2>4. QED
    BY <1>1, <2>2, <2>3 DEF Kinds
<1>6. QED
  BY <1>2, <1>3, <1>4, <1>5

LEMMA ReportableIsTyped == \A c \in Reportable : c.id \in Extensions /\ c.kind \in Kinds
  BY ComparedTells DEF Reportable

LEMMA DiffTells ==
    ASSUME NEW before \in ExtensionLists, NEW after \in ExtensionLists
    PROVE  /\ DiffInventory(before, after) \subseteq Reportable
           /\ \A c \in DiffInventory(before, after) :
                /\ before[c.id] # after[c.id]
                /\ c.kind = "newly-installed" => before[c.id] = Gone
<1>1. ASSUME NEW c \in DiffInventory(before, after)
      PROVE  /\ c \in Reportable /\ before[c.id] # after[c.id]
             /\ c.kind = "newly-installed" => before[c.id] = Gone
  <2>1. PICK e \in Extensions : c \in Compared(e, before[e], after[e])
    BY DEF DiffInventory
  <2>2. before[e] \in ExtensionStates /\ after[e] \in ExtensionStates
    BY DEF ExtensionLists
  <2>3. c \in Reportable
    BY <2>1, <2>2 DEF Reportable
  <2>4. c.id = e /\ before[e] # after[e] /\ (c.kind = "newly-installed" => before[e] = Gone)
    BY <2>1, ComparedTells
  <2>5. QED
    BY <2>3, <2>4
<1>2. QED
  BY <1>1

(* What one step makes of a reading; the others stay as they are.          *)
ReadingBecomes(r, at, list, changes, row) ==
    /\ reading' \in [Readings -> ReadingRecord]
    /\ reading'[r].at = at /\ reading'[r].list = list
    /\ reading'[r].changes = changes /\ reading'[r].row = row
    /\ \A q \in Readings \ {r} : reading'[q] = reading[q]

LEMMA ReadingRecords ==
    /\ \A x \in ReadingRecord, new \in SUBSET Reportable :
         /\ [x EXCEPT !.at = "journalling", !.changes = new] \in ReadingRecord
         /\ [x EXCEPT !.at = "journalling", !.row = new] \in ReadingRecord
    /\ \A x \in ReadingRecord : [x EXCEPT !.at = "seeding"] \in ReadingRecord
    /\ \A x \in ReadingRecord, l \in ExtensionLists : [x EXCEPT !.list = l] \in ReadingRecord
    /\ \A x \in ReadingRecord, new \in SUBSET Reportable, put \in SUBSET Reportable :
         \A at \in {"journalling", "putting"} :
             [x EXCEPT !.changes = new, !.at = at, !.row = put] \in ReadingRecord
    /\ Idle \in ReadingRecord
    /\ \A b \in BOOLEAN, l \in ExtensionLists : [Idle EXCEPT !.at = "listed", !.reviews = b, !.list = l] \in ReadingRecord
<1>1. NoRows \in ExtensionLists
  BY DEF NoRows, ExtensionLists, ExtensionStates
<1>2. QED
  BY <1>1 DEF ReadingRecord, Idle

LEMMA ListBecomes ==
    ASSUME InventoryTyped, NEW r \in Readings, List(r)
    PROVE  ReadingBecomes(r, "listed", installed, {}, {})
<1>1. PICK b \in BOOLEAN :
        reading' = [reading EXCEPT ![r] = [Idle EXCEPT !.at = "listed", !.reviews = b, !.list = installed]]
  BY DEF List
<1> DEFINE new == [Idle EXCEPT !.at = "listed", !.reviews = b, !.list = installed]
<1>2. new \in ReadingRecord
  BY ReadingRecords DEF InventoryTyped, ReadingsTyped
<1>3. new.at = "listed" /\ new.list = installed /\ new.changes = {} /\ new.row = {}
  BY DEF Idle
<1>4. reading' = [reading EXCEPT ![r] = new] /\ reading \in [Readings -> ReadingRecord]
  BY <1>1 DEF InventoryTyped, ReadingsTyped
<1> HIDE DEF new
<1>5. QED
  BY <1>2, <1>3, <1>4 DEF ReadingBecomes

LEMMA IdleBecomes ==
    ASSUME InventoryTyped, NEW r \in Readings, reading' = [reading EXCEPT ![r] = Idle]
    PROVE  ReadingBecomes(r, "idle", NoRows, {}, {})
<1>1. Idle.at = "idle" /\ Idle.list = NoRows /\ Idle.changes = {} /\ Idle.row = {} /\ Idle \in ReadingRecord
  BY ReadingRecords DEF Idle
<1>2. reading \in [Readings -> ReadingRecord]
  BY DEF InventoryTyped, ReadingsTyped
<1>3. QED
  BY <1>1, <1>2 DEF ReadingBecomes

LEMMA FoundBecomes ==
    ASSUME InventoryTyped, NEW r \in Readings, NEW changes \in SUBSET Reportable, Found(r, changes)
    PROVE  \/ /\ ReadingBecomes(r, "journalling", reading[r].list, changes, reading[r].row)
              /\ reported' = reported
              /\ readTwice' = (readTwice \/ \E q \in Readings : reading[q].at \in Writing)
           \/ /\ ReadingBecomes(r, "idle", NoRows, {}, {})
              /\ reported' = changes /\ readTwice' = readTwice
<1>1. CASE reading[r].reviews
  <2>1. reading' = [reading EXCEPT ![r].at = "journalling", ![r].changes = changes]
    BY <1>1 DEF Found
  <2> DEFINE new == [reading[r] EXCEPT !.at = "journalling", !.changes = changes]
  <2>2. reading \in [Readings -> ReadingRecord] /\ reading[r] \in ReadingRecord
    BY DEF InventoryTyped, ReadingsTyped
  <2>3. new \in ReadingRecord
    BY <2>2, ReadingRecords
  <2>4. new.at = "journalling" /\ new.list = reading[r].list /\ new.changes = changes /\ new.row = reading[r].row
    BY <2>2 DEF ReadingRecord
  <2>5. reading' = [reading EXCEPT ![r] = new]
    BY <2>1, <2>2
  <2> HIDE DEF new
  <2>6. ReadingBecomes(r, "journalling", reading[r].list, changes, reading[r].row)
    BY <2>2, <2>3, <2>4, <2>5 DEF ReadingBecomes
  <2>7. QED
    BY <1>1, <2>6 DEF Found
<1>2. CASE ~ reading[r].reviews
  BY <1>2, IdleBecomes DEF Found
<1>3. QED
  BY <1>1, <1>2

LEMMA ReadBecomes ==
    ASSUME InventoryTyped, NEW r \in Readings, ReadRows(r)
    PROVE  \/ /\ snapshots = NoRows
              /\ ReadingBecomes(r, "seeding", reading[r].list, {}, {})
              /\ original' = original \cup {e \in Extensions : reading[r].list[e] # Gone}
              /\ reported' = reported /\ readTwice' = readTwice
           \/ /\ snapshots # NoRows /\ original' = original
              /\ \/ /\ ReadingBecomes(r, "journalling", reading[r].list,
                                      DiffInventory(snapshots, reading[r].list), {})
                    /\ reported' = reported
                    /\ readTwice' = (readTwice \/ \E q \in Readings : reading[q].at \in Writing)
                 \/ /\ ReadingBecomes(r, "idle", NoRows, {}, {})
                    /\ reported' = DiffInventory(snapshots, reading[r].list) /\ readTwice' = readTwice
<1>0. /\ reading \in [Readings -> ReadingRecord] /\ reading[r] \in ReadingRecord
      /\ snapshots \in ExtensionLists
  BY DEF InventoryTyped, ReadingsTyped
<1>1. reading[r].changes = {} /\ reading[r].row = {} /\ reading[r].list \in ExtensionLists
  <2>1. reading[r].at = "listed"
    BY DEF ReadRows
  <2>2. reading[r].changes = {} /\ reading[r].row = {}
    BY <2>1 DEF InventoryTyped, ReadingsTyped
  <2>3. QED
    BY <1>0, <2>2 DEF ReadingRecord
<1>2. CASE snapshots = NoRows
  <2>1. reading' = [reading EXCEPT ![r].at = "seeding"]
    BY <1>2 DEF ReadRows
  <2> DEFINE new == [reading[r] EXCEPT !.at = "seeding"]
  <2>2. new \in ReadingRecord
    BY <1>0, ReadingRecords
  <2>3. new.at = "seeding" /\ new.list = reading[r].list /\ new.changes = {} /\ new.row = {}
    BY <1>0, <1>1 DEF ReadingRecord
  <2>4. reading' = [reading EXCEPT ![r] = new]
    BY <1>0, <2>1
  <2> HIDE DEF new
  <2>5. ReadingBecomes(r, "seeding", reading[r].list, {}, {})
    BY <1>0, <2>2, <2>3, <2>4 DEF ReadingBecomes
  <2>6. QED
    BY <1>2, <2>5 DEF ReadRows
<1>3. CASE snapshots # NoRows
  <2>1. Found(r, DiffInventory(snapshots, reading[r].list)) /\ original' = original
    BY <1>3 DEF ReadRows
  <2>2. DiffInventory(snapshots, reading[r].list) \in SUBSET Reportable
    BY <1>0, <1>1, DiffTells
  <2>3. QED
    BY <1>1, <1>3, <2>1, <2>2, FoundBecomes
<1>4. QED
  BY <1>2, <1>3

LEMMA SeedBecomes ==
    ASSUME InventoryTyped, NEW r \in Readings, Seed(r)
    PROVE  \E e \in Extensions :
              /\ reading[r].list[e] # Gone
              /\ snapshots' = [snapshots EXCEPT ![e] = reading[r].list[e]]
              /\ ReadingBecomes(r, "seeding", [reading[r].list EXCEPT ![e] = Gone], {}, {})
<1>0. reading \in [Readings -> ReadingRecord] /\ reading[r] \in ReadingRecord /\ reading[r].at = "seeding"
  BY DEF InventoryTyped, ReadingsTyped, Seed
<1>1. reading[r].changes = {} /\ reading[r].row = {}
  BY <1>0 DEF InventoryTyped, ReadingsTyped
<1>2. PICK e \in Extensions :
        /\ reading[r].list[e] # Gone
        /\ snapshots' = [snapshots EXCEPT ![e] = Stored(reading[r].list[e])]
        /\ reading' = [reading EXCEPT ![r].list[e] = Gone]
  BY DEF Seed
<1> DEFINE l == [reading[r].list EXCEPT ![e] = Gone]
           new == [reading[r] EXCEPT !.list = l]
<1>3. l \in ExtensionLists
  <2>1. reading[r].list \in ExtensionLists
    BY <1>0 DEF ReadingRecord
  <2>2. QED
    BY <2>1 DEF ExtensionLists, ExtensionStates
<1>4. reading' = [reading EXCEPT ![r] = new]
  BY <1>0, <1>2
<1> HIDE DEF l
<1>5. new \in ReadingRecord
  BY <1>0, <1>3, ReadingRecords
<1>6. new.at = "seeding" /\ new.list = l /\ new.changes = {} /\ new.row = {}
  BY <1>0, <1>1 DEF ReadingRecord
<1> HIDE DEF new
<1>7. ReadingBecomes(r, "seeding", l, {}, {})
  BY <1>0, <1>4, <1>5, <1>6 DEF ReadingBecomes
<1>8. QED
  BY <1>2, <1>7 DEF l, Stored

LEMMA JournalBecomes ==
    ASSUME InventoryTyped, NEW r \in Readings
    PROVE  /\ JournalRead(r) => \E c \in reading[r].changes :
                 ReadingBecomes(r, IF Same(c) THEN "journalling" ELSE "putting", reading[r].list,
                                reading[r].changes \ {c}, IF Same(c) THEN {} ELSE {c})
           /\ JournalPut(r) => ReadingBecomes(r, "journalling", reading[r].list, reading[r].changes, {})
<1>0. reading \in [Readings -> ReadingRecord] /\ reading[r] \in ReadingRecord
  BY DEF InventoryTyped, ReadingsTyped
<1>a. reading[r].changes \in SUBSET Reportable
  BY <1>0 DEF ReadingRecord
<1>1. ASSUME JournalRead(r)
      PROVE  \E c \in reading[r].changes :
                 ReadingBecomes(r, IF Same(c) THEN "journalling" ELSE "putting", reading[r].list,
                                reading[r].changes \ {c}, IF Same(c) THEN {} ELSE {c})
  <2>1. PICK c \in reading[r].changes :
           reading' = [reading EXCEPT ![r].changes = @ \ {c},
                                      ![r].at = IF Same(c) THEN @ ELSE "putting",
                                      ![r].row = IF Same(c) THEN {} ELSE {c}]
    BY <1>1 DEF JournalRead
  <2> DEFINE less == reading[r].changes \ {c}
             at == IF Same(c) THEN "journalling" ELSE "putting"
             put == IF Same(c) THEN {} ELSE {c}
             new == [reading[r] EXCEPT !.changes = less, !.at = at, !.row = put]
  <2>2. reading[r].at = "journalling"
    BY <1>1 DEF JournalRead
  <2>3. at \in {"journalling", "putting"}
    OBVIOUS
  <2>4. less \in SUBSET Reportable /\ put \in SUBSET Reportable
    BY <1>a
  <2>5. reading' = [reading EXCEPT ![r] = new]
    BY <1>0, <2>1, <2>2 DEF ReadingRecord
  <2> HIDE DEF less, at, put
  <2>6. new \in ReadingRecord
    BY <1>0, <2>3, <2>4, ReadingRecords
  <2>7. new.at = at /\ new.list = reading[r].list /\ new.changes = less /\ new.row = put
    BY <1>0 DEF ReadingRecord
  <2> HIDE DEF new
  <2>8. ReadingBecomes(r, at, reading[r].list, less, put)
    BY <1>0, <2>5, <2>6, <2>7 DEF ReadingBecomes
  <2>9. QED
    BY <2>8 DEF at, less, put
<1>2. ASSUME JournalPut(r)
      PROVE  ReadingBecomes(r, "journalling", reading[r].list, reading[r].changes, {})
  <2>1. reading' = [reading EXCEPT ![r].at = "journalling", ![r].row = {}]
    BY <1>2 DEF JournalPut
  <2> DEFINE new == [reading[r] EXCEPT !.at = "journalling", !.row = {}]
  <2>2. new \in ReadingRecord
    <3>1. {} \in SUBSET Reportable
      OBVIOUS
    <3>2. QED
      BY <1>0, <3>1, ReadingRecords
  <2>3. new.at = "journalling" /\ new.list = reading[r].list /\ new.changes = reading[r].changes /\ new.row = {}
    BY <1>0 DEF ReadingRecord
  <2>4. reading' = [reading EXCEPT ![r] = new]
    BY <1>0, <2>1
  <2> HIDE DEF new
  <2>5. QED
    BY <1>0, <2>2, <2>3, <2>4 DEF ReadingBecomes
<1>3. QED
  BY <1>1, <1>2

LEMMA ReadingsStayTyped ==
    ASSUME ReadingsTyped, NEW r \in Readings, NEW at, NEW list, NEW changes, NEW row,
           ReadingBecomes(r, at, list, changes, row),
           at \in {"idle", "listed", "seeding"} => changes = {} /\ row = {}
    PROVE  ReadingsTyped'
  BY DEF ReadingsTyped, ReadingBecomes

LEMMA InventoryInvInit == InventoryInit => InventoryInv
<1> SUFFICES ASSUME InventoryInit PROVE InventoryInv
  OBVIOUS
<1>1. PICK found \in Profiles : InventoryStarts(found)
  BY DEF InventoryInit
<1>2. \A r \in Readings : reading[r] = Idle
  BY <1>1 DEF InventoryStarts
<1>3. Idle.at = "idle" /\ Idle.changes = {} /\ Idle.row = {}
  BY DEF Idle
<1>4. ReadingsTyped
  <2>1. reading \in [Readings -> ReadingRecord]
    BY <1>1, ReadingRecords DEF InventoryStarts
  <2>2. QED
    BY <1>2, <1>3, <2>1 DEF ReadingsTyped
<1>5. InventoryTyped
  <2>1. trusting \in [at : {"idle", "listing", "writing", "recording"},
                      id : Extensions \cup {Gone}, look : ExtensionStates] /\ trusting = Quiet
    BY <1>1 DEF InventoryStarts, Quiet, ExtensionStates
  <2>2. installed \in ExtensionLists /\ snapshots \in ExtensionLists
    BY <1>1, InventoryAssumption DEF InventoryStarts, ExtensionLists, ExtensionStates
  <2>3. agreed \in [Extensions -> ExtensionStates \cup {Unrecorded}]
    BY <1>1 DEF InventoryStarts, NeverAgreed
  <2>4. /\ updates \in 0 .. MaxUpdates /\ listings \in 0 .. MaxReadings /\ stops \in 0 .. MaxStops
    BY <1>1, InventoryAssumption DEF InventoryStarts
  <2>5. DOMAIN extJournal = Rows /\ original \subseteq Extensions /\ reported \subseteq Reportable
    BY <1>1 DEF InventoryStarts
  <2>6. cut \in BOOLEAN /\ readTwice \in BOOLEAN /\ redated \in BOOLEAN
    BY <1>1 DEF InventoryStarts
  <2>7. QED
    BY <1>4, <2>1, <2>2, <2>3, <2>4, <2>5, <2>6 DEF InventoryTyped
<1>6. ReviewAlone
  BY <1>1, <1>2, <1>3 DEF ReviewAlone, InventoryStarts, Writing
<1>7. BaselineHolds
  <2>1. original = {} /\ reported = {} /\ trusting = Quiet /\ agreed = NeverAgreed
    BY <1>1 DEF InventoryStarts
  <2>2. NothingReported
    BY <1>2, <1>3, <2>1 DEF NothingReported
  <2>3. \A e \in Extensions : agreed[e] = Unrecorded
    BY <2>1 DEF NeverAgreed
  <2>4. OldIsNotNew
    BY <2>1 DEF OldIsNotNew
  <2>5. QED
    BY <2>1, <2>2, <2>3, <2>4 DEF BaselineHolds
<1>8. QED
  BY <1>5, <1>6, <1>7 DEF InventoryInv

LEMMA InventoryTypedStep == InventoryInv /\ [InventoryNext]_inventoryVars => InventoryTyped'
<1> SUFFICES ASSUME InventoryInv, [InventoryNext]_inventoryVars PROVE InventoryTyped'
  OBVIOUS
<1>0. InventoryTyped
  BY DEF InventoryInv
<1> DEFINE TrustRecord == [at : {"idle", "listing", "writing", "recording"},
                           id : Extensions \cup {Gone}, look : ExtensionStates]
           TrustTyped == /\ trusting \in TrustRecord
                         /\ trusting # Quiet => trusting.at # "idle" /\ trusting.id \in Extensions
           FlagsTyped == cut \in BOOLEAN /\ readTwice \in BOOLEAN /\ redated \in BOOLEAN
           CountsTyped == updates \in 0 .. MaxUpdates /\ listings \in 0 .. MaxReadings /\ stops \in 0 .. MaxStops
           StoreTyped == /\ installed \in ExtensionLists /\ snapshots \in ExtensionLists /\ reported \subseteq Reportable
                         /\ DOMAIN extJournal = Rows /\ original \subseteq Extensions
                         /\ agreed \in [Extensions -> ExtensionStates \cup {Unrecorded}]
<1>a. ReadingsTyped /\ TrustTyped /\ FlagsTyped /\ CountsTyped /\ StoreTyped
  BY <1>0, Zenon DEF InventoryTyped
<1>b. ASSUME ReadingsTyped', TrustTyped', FlagsTyped', CountsTyped', StoreTyped' PROVE InventoryTyped'
  BY <1>b, Zenon DEF InventoryTyped
<1>c. ASSUME UNCHANGED <<cut, readTwice, redated>> PROVE FlagsTyped'
  BY <1>a, <1>c
<1>d. ASSUME UNCHANGED <<updates, listings, stops>> PROVE CountsTyped'
  BY <1>a, <1>d
<1>e. ASSUME UNCHANGED trusting PROVE TrustTyped'
  BY <1>a, <1>e
<1>f. ASSUME UNCHANGED reading PROVE ReadingsTyped'
  BY <1>a, <1>f DEF ReadingsTyped
<1>g. Quiet \in TrustRecord
  BY DEF Quiet, ExtensionStates
<1>h. ASSUME trusting' = Quiet PROVE TrustTyped'
  BY <1>g, <1>h
<1>i. MaxUpdates \in Nat /\ MaxReadings \in Nat /\ MaxStops \in Nat
  BY InventoryAssumption
<1>1. ASSUME NEW e \in Extensions, Update(e) PROVE InventoryTyped'
  <2>1. CountsTyped'
    <3>1. updates + 1 \in 0 .. MaxUpdates
      BY <1>1, <1>a, <1>i DEF Update
    <3>2. QED
      BY <1>1, <1>a, <3>1 DEF Update
  <2>2. StoreTyped'
    <3>1. installed' \in ExtensionLists
      BY <1>1, <1>a DEF Update, ExtensionLists, ExtensionStates
    <3>2. QED
      BY <1>1, <1>a, <3>1 DEF Update
  <2>3. QED
    BY <1>1, <1>b, <1>c, <1>e, <1>f, <2>1, <2>2 DEF Update
<1>2. ASSUME NEW e \in Extensions, Trust(e) PROVE InventoryTyped'
  <2>1. TrustTyped'
    BY <1>2, <1>a DEF Trust, ExtensionStates
  <2>2. StoreTyped'
    BY <1>2, <1>a DEF Trust
  <2>3. QED
    BY <1>2, <1>b, <1>c, <1>d, <1>f, <2>1, <2>2 DEF Trust
<1>3. ASSUME NEW r \in Readings, List(r) PROVE InventoryTyped'
  <2>1. ReadingsTyped'
    BY <1>0, <1>3, <1>a, ListBecomes, ReadingsStayTyped
  <2>2. CountsTyped'
    <3>1. listings + 1 \in 0 .. MaxReadings
      BY <1>3, <1>a, <1>i DEF List
    <3>2. QED
      BY <1>3, <1>a, <3>1 DEF List
  <2>3. StoreTyped'
    BY <1>3, <1>a DEF List
  <2>4. QED
    BY <1>3, <1>b, <1>c, <1>e, <2>1, <2>2, <2>3 DEF List
<1>4. ASSUME NEW r \in Readings, ReadRows(r) PROVE InventoryTyped'
  <2>1. ReadingsTyped'
    BY <1>0, <1>4, <1>a, ReadBecomes, ReadingsStayTyped
  <2>2. reading[r].list \in ExtensionLists /\ snapshots \in ExtensionLists
    BY <1>a DEF ReadingsTyped, ReadingRecord
  <2>3. DiffInventory(snapshots, reading[r].list) \subseteq Reportable
    BY <2>2, DiffTells
  <2>4. StoreTyped'
    <3>1. reported' \subseteq Reportable /\ original' \subseteq Extensions
      BY <1>0, <1>4, <1>a, <2>3, ReadBecomes
    <3>2. QED
      BY <1>4, <1>a, <3>1 DEF ReadRows
  <2>5. FlagsTyped'
    <3>1. readTwice' \in BOOLEAN
      BY <1>0, <1>4, <1>a, ReadBecomes
    <3>2. cut' \in BOOLEAN /\ redated' \in BOOLEAN
      BY <1>4, <1>a, Zenon DEF ReadRows
    <3>3. QED
      BY <3>1, <3>2
  <2>6. QED
    BY <1>4, <1>b, <1>d, <1>e, <2>1, <2>4, <2>5 DEF ReadRows
<1>5. ASSUME NEW r \in Readings, Seed(r) PROVE InventoryTyped'
  <2>1. PICK e \in Extensions :
              /\ snapshots' = [snapshots EXCEPT ![e] = reading[r].list[e]]
              /\ ReadingBecomes(r, "seeding", [reading[r].list EXCEPT ![e] = Gone], {}, {})
    BY <1>0, <1>5, SeedBecomes
  <2>2. ReadingsTyped'
    BY <1>a, <2>1, ReadingsStayTyped
  <2>3. reading[r].list[e] \in ExtensionStates
    BY <1>a DEF ReadingsTyped, ReadingRecord, ExtensionLists
  <2>4. snapshots' \in ExtensionLists
    BY <1>a, <2>1, <2>3 DEF ExtensionLists
  <2>5. StoreTyped'
    BY <1>5, <1>a, <2>4 DEF Seed
  <2>6. QED
    BY <1>5, <1>b, <1>c, <1>d, <1>e, <2>2, <2>5 DEF Seed
<1>6. ASSUME NEW r \in Readings, Seeded(r) PROVE InventoryTyped'
  <2>0. reading[r].changes = {} /\ reading[r].row = {} /\ {} \in SUBSET Reportable
    BY <1>6, <1>a DEF Seeded, ReadingsTyped
  <2>1. \/ /\ ReadingBecomes(r, "journalling", reading[r].list, {}, {}) /\ reported' = reported
           /\ readTwice' = (readTwice \/ \E q \in Readings : reading[q].at \in Writing)
        \/ ReadingBecomes(r, "idle", NoRows, {}, {}) /\ reported' = {} /\ readTwice' = readTwice
    BY <1>0, <1>6, <2>0, FoundBecomes DEF Seeded, NothingNew
  <2>2. ReadingsTyped'
    BY <1>a, <2>1, ReadingsStayTyped
  <2>3. StoreTyped'
    BY <1>6, <1>a, <2>1 DEF Seeded
  <2>4. FlagsTyped'
    BY <1>6, <1>a, <2>1 DEF Seeded
  <2>5. QED
    BY <1>6, <1>b, <1>d, <1>e, <2>2, <2>3, <2>4 DEF Seeded
<1>7. ASSUME NEW r \in Readings, ReadingFails(r) PROVE InventoryTyped'
  <2>1. ReadingsTyped'
    BY <1>0, <1>7, <1>a, IdleBecomes, ReadingsStayTyped DEF ReadingFails
  <2>2. StoreTyped'
    BY <1>7, <1>a DEF ReadingFails
  <2>3. FlagsTyped'
    <3>1. cut' \in BOOLEAN
      BY <1>7, <1>a, Zenon DEF ReadingFails
    <3>2. QED
      BY <1>7, <1>a, <3>1 DEF ReadingFails
  <2>4. QED
    BY <1>7, <1>b, <1>d, <1>e, <2>1, <2>2, <2>3 DEF ReadingFails
<1>8. ASSUME NEW r \in Readings, JournalRead(r) PROVE InventoryTyped'
  <2>1. ReadingsTyped'
    BY <1>0, <1>8, <1>a, JournalBecomes, ReadingsStayTyped
  <2>2. StoreTyped'
    BY <1>8, <1>a DEF JournalRead
  <2>3. QED
    BY <1>8, <1>b, <1>c, <1>d, <1>e, <2>1, <2>2 DEF JournalRead
<1>9. ASSUME NEW r \in Readings, JournalPut(r) PROVE InventoryTyped'
  <2>1. ReadingsTyped'
    BY <1>0, <1>9, <1>a, JournalBecomes, ReadingsStayTyped
  <2>2. PICK c \in reading[r].row :
            /\ redated' = (redated \/ extJournal[<<c.id, c.kind>>] = c.tells)
            /\ extJournal' = [extJournal EXCEPT ![<<c.id, c.kind>>] = c.tells]
    BY <1>9 DEF JournalPut
  <2>3. StoreTyped'
    BY <1>9, <1>a, <2>2 DEF JournalPut
  <2>4. FlagsTyped'
    BY <1>9, <1>a, <2>2 DEF JournalPut
  <2>5. QED
    BY <1>9, <1>b, <1>d, <1>e, <2>1, <2>3, <2>4 DEF JournalPut
<1>10. ASSUME NEW r \in Readings, Reviewed(r) PROVE InventoryTyped'
  <2>1. ReadingsTyped'
    BY <1>0, <1>10, <1>a, IdleBecomes, ReadingsStayTyped DEF Reviewed
  <2>2. StoreTyped'
    BY <1>10, <1>a DEF Reviewed
  <2>3. QED
    BY <1>10, <1>b, <1>c, <1>d, <1>e, <2>1, <2>2 DEF Reviewed
<1>11. CASE TrustLists
  <2>1. TrustTyped'
    <3>1. trusting.id \in Extensions /\ installed[trusting.id] \in ExtensionStates /\ trusting \in TrustRecord
      <4>1. trusting # Quiet
        BY <1>11 DEF TrustLists, Quiet
      <4>2. QED
        BY <1>a, <4>1 DEF ExtensionLists
    <3> DEFINE look == installed[trusting.id]
    <3>2. trusting' = [trusting EXCEPT !.at = "writing", !.look = look]
      BY <1>11 DEF TrustLists
    <3> HIDE DEF look
    <3>3. look \in ExtensionStates
      BY <3>1 DEF look
    <3>4. QED
      BY <3>1, <3>2, <3>3
  <2>2. StoreTyped'
    BY <1>11, <1>a DEF TrustLists
  <2>3. QED
    BY <1>11, <1>b, <1>c, <1>d, <1>f, <2>1, <2>2 DEF TrustLists
<1>12. CASE TrustWrites
  <2>1. trusting \in TrustRecord /\ trusting.id \in Extensions
    <3>1. trusting # Quiet
      BY <1>12 DEF TrustWrites, Quiet
    <3>2. QED
      BY <1>a, <3>1
  <2>2. TrustTyped'
    BY <1>12, <2>1 DEF TrustWrites
  <2>3. trusting.look \in ExtensionStates /\ Accepted(trusting.look) \in ExtensionStates
    BY <2>1 DEF Accepted, Stored, ExtensionStates
  <2>4. snapshots' \in ExtensionLists
    <3>1. snapshots' = [snapshots EXCEPT ![trusting.id] = Accepted(trusting.look)]
      BY <1>12 DEF TrustWrites
    <3>2. QED
      BY <1>a, <2>3, <3>1 DEF ExtensionLists
  <2>5. agreed' \in [Extensions -> ExtensionStates \cup {Unrecorded}]
    BY <1>12, <1>a, <2>3 DEF TrustWrites
  <2>6. StoreTyped'
    BY <1>12, <1>a, <2>4, <2>5 DEF TrustWrites
  <2>7. QED
    BY <1>12, <1>b, <1>c, <1>d, <1>f, <2>2, <2>6 DEF TrustWrites
<1>13. CASE TrustRecords
  <2>1. StoreTyped'
    BY <1>13, <1>a DEF TrustRecords
  <2>2. QED
    BY <1>13, <1>b, <1>c, <1>d, <1>f, <1>h, <2>1 DEF TrustRecords
<1>14. CASE TrustFails
  <2>1. StoreTyped'
    BY <1>14, <1>a DEF TrustFails
  <2>2. QED
    BY <1>14, <1>b, <1>c, <1>d, <1>f, <1>h, <2>1 DEF TrustFails
<1>15. CASE InventoryStop
  <2>1. ReadingsTyped'
    <3>1. Idle.at = "idle" /\ Idle.changes = {} /\ Idle.row = {} /\ Idle \in ReadingRecord
      BY ReadingRecords DEF Idle
    <3>2. reading' = [r \in Readings |-> Idle]
      BY <1>15 DEF InventoryStop
    <3>3. QED
      BY <3>1, <3>2 DEF ReadingsTyped
  <2>2. StoreTyped'
    BY <1>15, <1>a DEF InventoryStop
  <2>3. FlagsTyped'
    <3>1. cut' \in BOOLEAN
      BY <1>15, <1>a, Zenon DEF InventoryStop
    <3>2. QED
      BY <1>15, <1>a, <3>1 DEF InventoryStop
  <2>4. CountsTyped'
    <3>1. stops + 1 \in 0 .. MaxStops
      BY <1>15, <1>a, <1>i DEF InventoryStop
    <3>2. QED
      BY <1>15, <1>a, <3>1 DEF InventoryStop
  <2>5. QED
    BY <1>15, <1>b, <1>h, <2>1, <2>2, <2>3, <2>4 DEF InventoryStop
<1>16. CASE UNCHANGED inventoryVars
  <2>1. StoreTyped'
    BY <1>16, <1>a DEF inventoryVars
  <2>2. QED
    BY <1>16, <1>b, <1>c, <1>d, <1>e, <1>f, <2>1 DEF inventoryVars
<1>17. QED
  BY <1>1, <1>2, <1>3, <1>4, <1>5, <1>6, <1>7, <1>8, <1>9, <1>10, <1>11, <1>12, <1>13, <1>14, <1>15,
     <1>16 DEF InventoryNext

LEMMA ReviewAloneStep == InventoryInv /\ [InventoryNext]_inventoryVars => ReviewAlone'
<1> SUFFICES ASSUME InventoryInv, [InventoryNext]_inventoryVars, ~ readTwice' PROVE ReviewAlone'
  BY DEF ReviewAlone
<1>0. InventoryTyped /\ ReviewAlone /\ ReadingsTyped
  BY DEF InventoryInv, InventoryTyped
<1> DEFINE Alone == \A q, r \in Readings : reading[q].at \in Writing /\ reading[r].at \in Writing => q = r
           Fresh(r) == reading[r].at = "putting" =>
                          \A c \in reading[r].row : extJournal[<<c.id, c.kind>>] # c.tells
<1>a. ASSUME ~ redated', Alone', \A r \in Readings : Fresh(r)' PROVE ReviewAlone'
  BY <1>a DEF ReviewAlone
<1>b. ASSUME ~ readTwice PROVE ~ redated /\ Alone /\ \A r \in Readings : Fresh(r)
  BY <1>0, <1>b DEF ReviewAlone
<1>c. ASSUME NEW r \in Readings, NEW at, NEW list, NEW changes, NEW row,
             ReadingBecomes(r, at, list, changes, row), UNCHANGED <<extJournal, redated, readTwice>>,
             at \in Writing => reading[r].at \in Writing,
             at = "putting" => \A c \in row : extJournal[<<c.id, c.kind>>] # c.tells
      PROVE  ReviewAlone'
  <2>1. ~ redated' /\ Alone /\ \A q \in Readings : Fresh(q)
    BY <1>b, <1>c
  <2>2. \A q \in Readings : reading'[q].at \in Writing => reading[q].at \in Writing
    BY <1>c DEF ReadingBecomes
  <2>3. Alone'
    BY <2>1, <2>2
  <2>4. \A q \in Readings : Fresh(q)'
    BY <1>c, <2>1 DEF ReadingBecomes
  <2>5. QED
    BY <1>a, <2>1, <2>3, <2>4
<1>d. ASSUME UNCHANGED <<reading, redated, readTwice>>,
             \A e \in Extensions, k \in Kinds : extJournal'[<<e, k>>] = extJournal[<<e, k>>]
      PROVE  ReviewAlone'
  <2>1. ~ redated' /\ Alone /\ \A q \in Readings : Fresh(q)
    BY <1>b, <1>d
  <2>2. \A r \in Readings : reading[r].row \subseteq Reportable
    BY <1>0 DEF ReadingsTyped, ReadingRecord
  <2>3. \A r \in Readings : Fresh(r)'
    BY <1>d, <2>1, <2>2, ReportableIsTyped
  <2>4. Alone'
    BY <1>d, <2>1
  <2>5. QED
    BY <1>a, <2>1, <2>3, <2>4
<1>e. \A r \in Readings : reading[r].at \in {"idle", "listed", "seeding"} =>
                            reading[r].changes = {} /\ reading[r].row = {} /\ reading[r].at \notin Writing
  BY <1>0 DEF ReadingsTyped, Writing
<1>f. ASSUME NEW r \in Readings, NEW list, NEW changes,
             ReadingBecomes(r, "journalling", list, changes, {}), reading[r].at \in {"listed", "seeding"},
             readTwice' = (readTwice \/ \E q \in Readings : reading[q].at \in Writing),
             UNCHANGED <<extJournal, redated>>
      PROVE  ReviewAlone'
  <2>1. ~ readTwice /\ \A q \in Readings : reading[q].at \notin Writing
    BY <1>f
  <2>2. \A q \in Readings : reading'[q].at \in Writing => q = r
    BY <1>f, <2>1 DEF ReadingBecomes
  <2>3. Alone'
    BY <2>2
  <2>4. \A q \in Readings : Fresh(q)'
    BY <1>f, <2>1, <2>2 DEF ReadingBecomes, Writing
  <2>5. QED
    BY <1>a, <1>b, <1>f, <2>1, <2>3, <2>4
<1>1. ASSUME NEW e \in Extensions, Update(e) \/ Trust(e) PROVE ReviewAlone'
  BY <1>1, <1>d DEF Update, Trust
<1>2. ASSUME NEW r \in Readings, List(r) PROVE ReviewAlone'
  BY <1>0, <1>2, <1>c, ListBecomes DEF List, Writing
<1>3. ASSUME NEW r \in Readings, ReadRows(r) PROVE ReviewAlone'
  <2>1. reading[r].at = "listed" /\ UNCHANGED <<extJournal, redated>>
    BY <1>3 DEF ReadRows
  <2>2. CASE ReadingBecomes(r, "seeding", reading[r].list, {}, {}) /\ readTwice' = readTwice
    BY <1>c, <2>1, <2>2 DEF Writing
  <2>3. CASE ReadingBecomes(r, "idle", NoRows, {}, {}) /\ readTwice' = readTwice
    BY <1>c, <2>1, <2>3 DEF Writing
  <2>4. CASE /\ ReadingBecomes(r, "journalling", reading[r].list,
                               DiffInventory(snapshots, reading[r].list), {})
             /\ readTwice' = (readTwice \/ \E q \in Readings : reading[q].at \in Writing)
    BY <1>f, <2>1, <2>4
  <2>5. QED
    BY <1>0, <1>3, <2>2, <2>3, <2>4, ReadBecomes
<1>4. ASSUME NEW r \in Readings, Seed(r) PROVE ReviewAlone'
  <2>1. UNCHANGED <<extJournal, redated, readTwice>>
    BY <1>4 DEF Seed
  <2>2. PICK e \in Extensions : ReadingBecomes(r, "seeding", [reading[r].list EXCEPT ![e] = Gone], {}, {})
    BY <1>0, <1>4, SeedBecomes
  <2>3. QED
    BY <1>c, <2>1, <2>2 DEF Writing
<1>5. ASSUME NEW r \in Readings, Seeded(r) PROVE ReviewAlone'
  <2>1. reading[r].at = "seeding" /\ UNCHANGED <<extJournal, redated>> /\ Found(r, {})
    BY <1>5 DEF Seeded, NothingNew
  <2>2. reading[r].row = {} /\ {} \in SUBSET Reportable
    BY <1>e, <2>1
  <2>3. CASE ReadingBecomes(r, "idle", NoRows, {}, {}) /\ readTwice' = readTwice
    BY <1>c, <2>1, <2>3 DEF Writing
  <2>4. CASE /\ ReadingBecomes(r, "journalling", reading[r].list, {}, {})
             /\ readTwice' = (readTwice \/ \E q \in Readings : reading[q].at \in Writing)
    BY <1>f, <2>1, <2>4
  <2>5. QED
    BY <1>0, <2>1, <2>2, <2>3, <2>4, FoundBecomes
<1>6. ASSUME NEW r \in Readings, ReadingFails(r) \/ Reviewed(r) PROVE ReviewAlone'
  <2>1. reading' = [reading EXCEPT ![r] = Idle] /\ UNCHANGED <<extJournal, redated, readTwice>>
    BY <1>6 DEF ReadingFails, Reviewed
  <2>2. ReadingBecomes(r, "idle", NoRows, {}, {})
    BY <1>0, <2>1, IdleBecomes
  <2>3. QED
    BY <1>c, <2>1, <2>2 DEF Writing
<1>7. ASSUME NEW r \in Readings, JournalRead(r) PROVE ReviewAlone'
  <2>1. PICK c \in reading[r].changes :
          ReadingBecomes(r, IF Same(c) THEN "journalling" ELSE "putting", reading[r].list,
                         reading[r].changes \ {c}, IF Same(c) THEN {} ELSE {c})
    BY <1>0, <1>7, JournalBecomes
  <2>2. reading[r].at \in Writing /\ UNCHANGED <<extJournal, redated, readTwice>>
    BY <1>7 DEF JournalRead, Writing
  <2>3. CASE Same(c)
    <3>1. ReadingBecomes(r, "journalling", reading[r].list, reading[r].changes \ {c}, {})
      BY <2>1, <2>3
    <3>2. QED
      BY <1>c, <2>2, <3>1
  <2>4. CASE ~ Same(c)
    <3>1. ReadingBecomes(r, "putting", reading[r].list, reading[r].changes \ {c}, {c})
      BY <2>1, <2>4
    <3>2. \A d \in {c} : extJournal[<<d.id, d.kind>>] # d.tells
      BY <2>4 DEF Same
    <3>3. QED
      BY <1>c, <2>2, <3>1, <3>2
  <2>5. QED
    BY <2>3, <2>4
<1>8. ASSUME NEW r \in Readings, JournalPut(r) PROVE ReviewAlone'
  <2>1. /\ ReadingBecomes(r, "journalling", reading[r].list, reading[r].changes, {})
        /\ reading[r].at = "putting" /\ readTwice' = readTwice
    BY <1>0, <1>8, JournalBecomes DEF JournalPut
  <2>2. ~ redated /\ Alone /\ \A q \in Readings : Fresh(q)
    BY <1>b, <2>1
  <2>3. ~ redated'
    BY <1>8, <2>1, <2>2 DEF JournalPut
  <2>4. \A q \in Readings : reading'[q].at \in Writing => q = r
    BY <2>1, <2>2 DEF ReadingBecomes, Writing
  <2>5. \A q \in Readings : reading'[q].at # "putting"
    BY <2>1, <2>4 DEF ReadingBecomes, Writing
  <2>6. QED
    BY <1>a, <2>3, <2>4, <2>5
<1>9. CASE TrustLists \/ TrustWrites \/ TrustFails
  BY <1>9, <1>d DEF TrustLists, TrustWrites, TrustFails
<1>10. CASE TrustRecords
  <2>1. extJournal' = [extJournal EXCEPT ![<<trusting.id, "trusted">>] = <<>>]
    BY <1>10 DEF TrustRecords
  <2>2. \A e \in Extensions, k \in Kinds : <<e, k>> \in Rows /\ k # "trusted"
    BY DEF Rows, Kinds
  <2>3. DOMAIN extJournal = Rows
    BY <1>0 DEF InventoryTyped
  <2>4. \A e \in Extensions, k \in Kinds : extJournal'[<<e, k>>] = extJournal[<<e, k>>]
    BY <2>1, <2>2, <2>3
  <2>5. QED
    BY <1>10, <1>d, <2>4 DEF TrustRecords
<1>11. CASE InventoryStop
  <2>1. \A r \in Readings : reading'[r].at = "idle"
    BY <1>11 DEF InventoryStop, Idle
  <2>2. UNCHANGED <<redated, readTwice>>
    BY <1>11 DEF InventoryStop
  <2>3. QED
    BY <1>a, <1>b, <2>1, <2>2 DEF Writing
<1>12. CASE UNCHANGED inventoryVars
  BY <1>12, <1>d DEF inventoryVars
<1>13. QED
  BY <1>1, <1>2, <1>3, <1>4, <1>5, <1>6, <1>7, <1>8, <1>9, <1>10, <1>11, <1>12 DEF InventoryNext

LEMMA BaselineStep == InventoryInv /\ [InventoryNext]_inventoryVars => BaselineHolds'
<1> SUFFICES ASSUME InventoryInv, [InventoryNext]_inventoryVars, ~ cut' PROVE BaselineHolds'
  BY DEF BaselineHolds
<1>0. InventoryTyped /\ BaselineHolds /\ ReadingsTyped
  BY DEF InventoryInv, InventoryTyped
<1> DEFINE Rowed == \A e \in original : snapshots[e] # Gone \/ \E r \in Readings : SeedRows(r, e)
           Before == snapshots = NoRows /\ agreed = NeverAgreed => NothingReported
           During == Seeding => NothingReported /\ agreed = NeverAgreed
           Kept == \A e \in Extensions : agreed[e] # Unrecorded => snapshots[e] = agreed[e]
           News == reported \cup UNION {reading[r].changes : r \in Readings}
           NoOldNews == \A c \in News : ~ (c.kind = "newly-installed" /\ c.id \in original)
<1>a. ~ cut => Rowed /\ Before /\ During /\ Kept /\ NoOldNews
  BY <1>0 DEF BaselineHolds, OldIsNotNew
<1>b. ASSUME Rowed', Before', During', Kept', NoOldNews' PROVE BaselineHolds'
  BY <1>b DEF BaselineHolds, OldIsNotNew
<1>c. ASSUME NEW r \in Readings, NEW at, NEW list, NEW changes, NEW row,
             ReadingBecomes(r, at, list, changes, row), ~ cut,
             at # "seeding", changes \subseteq reading[r].changes, reported' \subseteq reported,
             reading[r].at = "seeding" => \A e \in Extensions : reading[r].list[e] = Gone,
             UNCHANGED <<snapshots, agreed, original, trusting>>
      PROVE  BaselineHolds'
  <2>0. original \subseteq Extensions
    BY <1>0 DEF InventoryTyped
  <2>1. Rowed'
    <3> SUFFICES ASSUME NEW e \in original PROVE snapshots[e] # Gone \/ \E q \in Readings : SeedRows(q, e)'
      BY <1>c
    <3>1. CASE snapshots[e] # Gone
      BY <3>1
    <3>2. ASSUME NEW q \in Readings, SeedRows(q, e) PROVE SeedRows(q, e)'
      BY <1>c, <2>0, <3>2 DEF SeedRows, ReadingBecomes
    <3>3. QED
      BY <1>a, <1>c, <3>1, <3>2
  <2>2. NothingReported => NothingReported'
    BY <1>c DEF NothingReported, ReadingBecomes
  <2>3. Seeding' => Seeding
    BY <1>c DEF Seeding, ReadingBecomes
  <2>4. News' \subseteq News
    BY <1>c DEF ReadingBecomes
  <2>5. QED
    BY <1>a, <1>b, <1>c, <2>1, <2>2, <2>3, <2>4
<1>d. ASSUME UNCHANGED <<reading, snapshots, agreed, original>>, ~ cut, reported' \subseteq reported,
             NothingReported => trusting' = Quiet
      PROVE  BaselineHolds'
  <2>1. NothingReported => NothingReported'
    BY <1>d DEF NothingReported
  <2>2. Seeding' = Seeding /\ \A r, e : SeedRows(r, e)' = SeedRows(r, e)
    BY <1>d DEF Seeding, SeedRows
  <2>3. News' \subseteq News
    BY <1>d
  <2>4. QED
    BY <1>a, <1>b, <1>d, <2>1, <2>2, <2>3
<1>e. reading \in [Readings -> ReadingRecord] /\ snapshots \in ExtensionLists /\ original \subseteq Extensions
  BY <1>0 DEF InventoryTyped, ReadingsTyped
<1>1. ASSUME NEW e \in Extensions, Update(e) PROVE BaselineHolds'
  BY <1>1, <1>d DEF Update, NothingReported
<1>2. ASSUME NEW e \in Extensions, Trust(e) PROVE BaselineHolds'
  BY <1>2, <1>d DEF Trust, NothingReported
<1>3. ASSUME NEW r \in Readings, List(r) PROVE BaselineHolds'
  <2>1. /\ reading[r].at = "idle" /\ UNCHANGED <<snapshots, agreed, original, trusting, reported, cut>>
        /\ ReadingBecomes(r, "listed", installed, {}, {})
    BY <1>0, <1>3, ListBecomes DEF List
  <2>2. QED
    BY <1>c, <2>1
<1>4. ASSUME NEW r \in Readings, ReadRows(r) PROVE BaselineHolds'
  <2>1. /\ ~ cut /\ ~ Seeding /\ (snapshots = NoRows => agreed = NeverAgreed)
        /\ UNCHANGED <<snapshots, agreed, trusting>>
    BY <1>4 DEF ReadRows
  <2>2. \A e \in original : snapshots[e] # Gone
    BY <1>a, <2>1 DEF SeedRows, Seeding
  <2>3. CASE /\ snapshots = NoRows
             /\ ReadingBecomes(r, "seeding", reading[r].list, {}, {})
             /\ original' = original \cup {e \in Extensions : reading[r].list[e] # Gone}
             /\ reported' = reported
    <3>1. original = {}
      BY <1>e, <2>2, <2>3 DEF NoRows
    <3>2. NothingReported'
      BY <1>a, <2>1, <2>3 DEF NothingReported, ReadingBecomes
    <3>3. \A e \in original' : SeedRows(r, e)'
      BY <2>3, <3>1 DEF SeedRows, ReadingBecomes
    <3>4. Rowed'
      BY <3>3
    <3>5. News' = {}
      BY <3>2 DEF NothingReported
    <3>6. QED
      BY <1>a, <1>b, <2>1, <2>3, <3>2, <3>4, <3>5
  <2>4. CASE /\ snapshots # NoRows /\ original' = original
             /\ \/ /\ ReadingBecomes(r, "journalling", reading[r].list,
                                     DiffInventory(snapshots, reading[r].list), {})
                   /\ reported' = reported
                \/ /\ ReadingBecomes(r, "idle", NoRows, {}, {})
                   /\ reported' = DiffInventory(snapshots, reading[r].list)
    <3>1. ~ Seeding'
      BY <2>1, <2>4 DEF Seeding, ReadingBecomes
    <3>2. News' \subseteq News \cup DiffInventory(snapshots, reading[r].list)
      BY <2>4 DEF ReadingBecomes
    <3>3. reading[r].list \in ExtensionLists
      BY <1>e DEF ReadingRecord
    <3>4. \A c \in DiffInventory(snapshots, reading[r].list) :
              ~ (c.kind = "newly-installed" /\ c.id \in original)
      BY <1>e, <2>2, <3>3, DiffTells
    <3>5. NoOldNews'
      BY <1>a, <2>1, <2>4, <3>2, <3>4
    <3>6. Rowed'
      BY <2>1, <2>2, <2>4
    <3>7. QED
      BY <1>a, <1>b, <2>1, <2>4, <3>1, <3>5, <3>6
  <2>5. QED
    BY <1>0, <1>4, <2>3, <2>4, ReadBecomes
<1>5. ASSUME NEW r \in Readings, Seed(r) PROVE BaselineHolds'
  <2>1. /\ ~ cut /\ Seeding /\ UNCHANGED <<trusting, reported, original, agreed>>
    BY <1>5 DEF Seed, Seeding
  <2>2. NothingReported /\ agreed = NeverAgreed
    BY <1>a, <2>1
  <2>3. PICK e \in Extensions :
              /\ reading[r].list[e] # Gone
              /\ snapshots' = [snapshots EXCEPT ![e] = reading[r].list[e]]
              /\ ReadingBecomes(r, "seeding", [reading[r].list EXCEPT ![e] = Gone], {}, {})
    BY <1>0, <1>5, SeedBecomes
  <2>4. NothingReported'
    BY <2>1, <2>2, <2>3 DEF NothingReported, ReadingBecomes
  <2>5. Rowed'
    <3> SUFFICES ASSUME NEW x \in original PROVE snapshots'[x] # Gone \/ \E q \in Readings : SeedRows(q, x)'
      BY <2>1
    <3>0. x \in Extensions /\ reading[r].list \in ExtensionLists
      BY <1>e DEF ReadingRecord
    <3>1. snapshots[x] # Gone \/ x = e => snapshots'[x] # Gone
      BY <1>e, <2>3, <3>0 DEF ExtensionLists
    <3>2. ASSUME NEW q \in Readings, SeedRows(q, x), x # e PROVE SeedRows(q, x)'
      <4>1. CASE q = r
        BY <2>3, <3>0, <3>2, <4>1 DEF SeedRows, ReadingBecomes, ExtensionLists
      <4>2. CASE q # r
        BY <2>3, <3>2, <4>2 DEF SeedRows, ReadingBecomes
      <4>3. QED
        BY <4>1, <4>2
    <3>3. QED
      BY <1>a, <2>1, <3>1, <3>2
  <2>6. News' = {}
    BY <2>4 DEF NothingReported
  <2>7. \A x \in Extensions : agreed'[x] = Unrecorded
    BY <2>1, <2>2 DEF NeverAgreed
  <2>8. QED
    BY <1>b, <2>1, <2>2, <2>4, <2>5, <2>6, <2>7
<1>6. ASSUME NEW r \in Readings, Seeded(r) PROVE BaselineHolds'
  <2>1. /\ reading[r].at = "seeding" /\ reading[r].list = NoRows /\ Found(r, {}) /\ ~ cut
        /\ UNCHANGED <<snapshots, agreed, original, trusting>>
    BY <1>6 DEF Seeded, NothingNew
  <2>2. {} \in SUBSET Reportable /\ \A e \in Extensions : reading[r].list[e] = Gone
    BY <2>1 DEF NoRows
  <2>3. \/ ReadingBecomes(r, "journalling", reading[r].list, {}, reading[r].row) /\ reported' = reported
        \/ ReadingBecomes(r, "idle", NoRows, {}, {}) /\ reported' = {}
    BY <1>0, <2>1, <2>2, FoundBecomes
  <2>4. QED
    BY <1>c, <2>1, <2>2, <2>3
<1>7. ASSUME NEW r \in Readings, ReadingFails(r) PROVE BaselineHolds'
  <2>1. /\ reading[r].at # "seeding" /\ ~ cut /\ reported' \subseteq reported
        /\ UNCHANGED <<snapshots, agreed, original, trusting>>
    BY <1>7 DEF ReadingFails
  <2>2. ReadingBecomes(r, "idle", NoRows, {}, {})
    BY <1>0, <1>7, IdleBecomes DEF ReadingFails
  <2>3. QED
    BY <1>c, <2>1, <2>2
<1>8. ASSUME NEW r \in Readings, JournalRead(r) PROVE BaselineHolds'
  <2>1. /\ reading[r].at # "seeding" /\ ~ cut
        /\ UNCHANGED <<snapshots, agreed, original, trusting, reported>>
    BY <1>8 DEF JournalRead
  <2>2. PICK c \in reading[r].changes :
          ReadingBecomes(r, IF Same(c) THEN "journalling" ELSE "putting", reading[r].list,
                         reading[r].changes \ {c}, IF Same(c) THEN {} ELSE {c})
    BY <1>0, <1>8, JournalBecomes
  <2> DEFINE at == IF Same(c) THEN "journalling" ELSE "putting"
  <2>3. at # "seeding"
    OBVIOUS
  <2>4. QED
    BY <1>c, <2>1, <2>2, <2>3
<1>9. ASSUME NEW r \in Readings, JournalPut(r) PROVE BaselineHolds'
  <2>1. /\ reading[r].at # "seeding" /\ ~ cut
        /\ UNCHANGED <<snapshots, agreed, original, trusting, reported>>
    BY <1>9 DEF JournalPut
  <2>2. ReadingBecomes(r, "journalling", reading[r].list, reading[r].changes, {})
    BY <1>0, <1>9, JournalBecomes
  <2>3. QED
    BY <1>c, <2>1, <2>2
<1>10. ASSUME NEW r \in Readings, Reviewed(r) PROVE BaselineHolds'
  <2>1. /\ reading[r].at # "seeding" /\ ~ cut
        /\ UNCHANGED <<snapshots, agreed, original, trusting, reported>>
    BY <1>10 DEF Reviewed
  <2>2. ReadingBecomes(r, "idle", NoRows, {}, {})
    BY <1>0, <1>10, IdleBecomes DEF Reviewed
  <2>3. QED
    BY <1>c, <2>1, <2>2
<1>11. CASE TrustLists
  <2>1. trusting # Quiet
    BY <1>11 DEF TrustLists, Quiet
  <2>2. QED
    BY <1>11, <1>d, <2>1 DEF TrustLists, NothingReported
<1>12. CASE TrustWrites
  <2>1. trusting # Quiet /\ ~ cut /\ UNCHANGED <<reading, reported>>
    BY <1>12 DEF TrustWrites, Quiet
  <2>2. ~ Seeding /\ ~ Seeding'
    <3>1. ~ Seeding
      BY <1>a, <2>1 DEF NothingReported
    <3>2. QED
      BY <2>1, <3>1 DEF Seeding
  <2>3. trusting.id \in Extensions /\ trusting.look \in ExtensionStates
    BY <1>0, <2>1 DEF InventoryTyped
  <2> DEFINE id == trusting.id
             look == trusting.look
  <2>4. /\ snapshots' = [snapshots EXCEPT ![id] = look]
        /\ agreed' = [agreed EXCEPT ![id] = look]
        /\ original' \subseteq original /\ (look = Gone => id \notin original')
    BY <1>12 DEF TrustWrites, Accepted, Stored
  <2>5. id \in Extensions /\ look # Unrecorded
    BY <2>3, InventoryAssumption DEF ExtensionStates
  <2>6. agreed \in [Extensions -> ExtensionStates \cup {Unrecorded}]
    BY <1>0 DEF InventoryTyped
  <2> HIDE DEF id, look
  <2>7. agreed'[id] = look /\ agreed' # NeverAgreed
    BY <2>4, <2>5, <2>6 DEF NeverAgreed
  <2>8. \A e \in original : snapshots[e] # Gone
    BY <1>a, <2>1, <2>2 DEF SeedRows, Seeding
  <2>9. Rowed'
    BY <1>e, <2>4, <2>5, <2>8 DEF ExtensionLists
  <2>10. Kept'
    BY <1>a, <1>e, <2>1, <2>4, <2>5, <2>6 DEF ExtensionLists
  <2>11. NoOldNews'
    BY <1>a, <2>1, <2>4
  <2>12. QED
    BY <1>b, <2>2, <2>7, <2>9, <2>10, <2>11
<1>13. CASE TrustRecords \/ TrustFails
  BY <1>13, <1>d DEF TrustRecords, TrustFails
<1>14. CASE InventoryStop
  <2>1. /\ ~ cut /\ ~ Seeding /\ trusting' = Quiet
        /\ UNCHANGED <<snapshots, reported, original, agreed>>
    BY <1>14 DEF InventoryStop
  <2>2. \A r \in Readings : reading'[r].at = "idle" /\ reading'[r].changes = {}
    BY <1>14 DEF InventoryStop, Idle
  <2>3. ~ Seeding' /\ (NothingReported => NothingReported')
    BY <2>1, <2>2 DEF Seeding, NothingReported
  <2>4. Rowed'
    BY <1>a, <2>1 DEF SeedRows, Seeding
  <2>5. News' \subseteq News
    BY <2>1, <2>2
  <2>6. QED
    BY <1>a, <1>b, <2>1, <2>3, <2>4, <2>5
<1>15. CASE UNCHANGED inventoryVars
  BY <1>15, <1>d DEF inventoryVars, NothingReported
<1>16. QED
  BY <1>1, <1>2, <1>3, <1>4, <1>5, <1>6, <1>7, <1>8, <1>9, <1>10, <1>11, <1>12, <1>13, <1>14, <1>15
     DEF InventoryNext

(* What the inventory keeps through overlapping reviews, failing stores,   *)
(* trust under way and stops of the worker (background/extensions.ts).     *)
THEOREM InventoryInvAlways == InventorySpec => []InventoryInv
<1>1. InventoryInv /\ [InventoryNext]_inventoryVars => InventoryInv'
  BY InventoryTypedStep, ReviewAloneStep, BaselineStep DEF InventoryInv
<1>2. QED
  BY <1>1, InventoryInvInit, PTL DEF InventorySpec

(* What was here before the first reading is never news while that reading *)
(* stored its rows whole, and a change keeps the date it was found on      *)
(* unless two reviews wrote at once: compareInventory and journalChanges   *)
(* of background/extensions.ts, for any extensions and any readings.       *)
THEOREM InventoryToldOnce == InventorySpec => []ChangesAreToldOnce
<1>1. InventoryInv => ChangesAreToldOnce
  <2> SUFFICES ASSUME InventoryInv PROVE ChangesAreToldOnce
    OBVIOUS
  <2>0. InventoryTyped /\ ReadingsTyped
    BY DEF InventoryInv, InventoryTyped
  <2>1. RedatedOnlyByOverlap
    BY DEF InventoryInv, ReviewAlone, RedatedOnlyByOverlap
  <2>2. OldIsNotNew
    BY DEF InventoryInv, BaselineHolds, OldIsNotNew
  <2>3. ASSUME NEW r \in Readings
        PROVE  /\ reading[r].at \in {"idle", "listed", "seeding", "journalling", "putting"}
               /\ reading[r].reviews \in BOOLEAN
               /\ reading[r].list \in [Extensions -> Looks \cup {Gone}]
               /\ \A c \in reading[r].changes \cup reading[r].row : c.id \in Extensions /\ c.kind \in Kinds
    <3>1. reading[r] \in ReadingRecord
      BY <2>0 DEF ReadingsTyped
    <3>2. reading[r].changes \subseteq Reportable /\ reading[r].row \subseteq Reportable
      BY <3>1 DEF ReadingRecord
    <3>3. \A c \in reading[r].changes \cup reading[r].row : c.id \in Extensions /\ c.kind \in Kinds
      BY <3>2, ReportableIsTyped
    <3>4. reading[r].reviews \in BOOLEAN
      BY <3>1, Zenon DEF ReadingRecord
    <3>5. QED
      BY <3>1, <3>3, <3>4 DEF ReadingRecord, ExtensionLists, ExtensionStates
  <2>4. /\ installed \in [Extensions -> Looks \cup {Gone}]
        /\ snapshots \in [Extensions -> Looks \cup {Gone}]
        /\ \A c \in reported : c.id \in Extensions /\ c.kind \in Kinds
        /\ trusting.at \in {"idle", "listing", "writing", "recording"}
        /\ DOMAIN extJournal = Rows /\ original \subseteq Extensions
        /\ updates \in 0 .. MaxUpdates /\ listings \in 0 .. MaxReadings /\ stops \in 0 .. MaxStops
        /\ agreed \in [Extensions -> Looks \cup {Gone, Unrecorded}]
    BY <2>0, ReportableIsTyped DEF InventoryTyped, ExtensionLists, ExtensionStates
  <2>5. cut \in BOOLEAN /\ readTwice \in BOOLEAN /\ redated \in BOOLEAN
    BY <2>0, Zenon DEF InventoryTyped
  <2>6. InventoryTypeOK
    BY <2>3, <2>4, <2>5, Zenon DEF InventoryTypeOK
  <2>7. QED
    BY <2>1, <2>2, <2>6 DEF ChangesAreToldOnce
<1>2. QED
  BY <1>1, InventoryInvAlways, PTL

(* Trusting a change ends it: a reading that finds an extension as the     *)
(* person last agreed to it reports nothing about it                       *)
(* (acceptInventoryChange of background/extensions.ts, diffInventory of    *)
(* core-extensions/diff.ts).                                               *)
THEOREM TrustEndsAChange == InventorySpec => AgreedIsSilent
<1> DEFINE SilentOf(r, e) ==
        ReadRows(r) /\ ~ cut' /\ reading[r].list[e] = agreed[e]
            => \A c \in (reported' \ reported) \cup reading'[r].changes : c.id # e
           SilentStep == \A r \in Readings, e \in Extensions : SilentOf(r, e)
<1>1. InventoryInv => SilentStep
  <2> SUFFICES ASSUME InventoryInv, NEW r \in Readings, NEW e \in Extensions, ReadRows(r), ~ cut',
                      reading[r].list[e] = agreed[e],
                      NEW c \in (reported' \ reported) \cup reading'[r].changes
               PROVE  c.id # e
    OBVIOUS
  <2>0. InventoryTyped /\ BaselineHolds /\ ~ cut
    BY DEF InventoryInv, ReadRows
  <2>1. reading[r].list \in ExtensionLists /\ snapshots \in ExtensionLists
    BY <2>0 DEF InventoryTyped, ReadingsTyped, ReadingRecord
  <2>2. c \in DiffInventory(snapshots, reading[r].list)
    BY <2>0, ReadBecomes DEF ReadingBecomes
  <2>3. reading[r].list[e] # Unrecorded
    BY <2>1, InventoryAssumption DEF ExtensionLists, ExtensionStates
  <2>4. snapshots[e] = reading[r].list[e]
    BY <2>0, <2>3 DEF BaselineHolds
  <2>5. QED
    BY <2>1, <2>2, <2>4, DiffTells
<1>2. InventoryInv => [SilentStep]_inventoryVars
  BY <1>1
<1> HIDE DEF SilentStep
<1>3. []InventoryInv => [][SilentStep]_inventoryVars
  BY <1>2, PTL
<1>4. InventorySpec => [][SilentStep]_inventoryVars
  BY <1>3, InventoryInvAlways, PTL
<1>5. QED
  BY <1>4 DEF SilentStep, AgreedIsSilent

-----------------------------------------------------------------------------
(***************************************************************************)
(* Database, for any contexts, builds and callers: a kept handle is a live *)
(* connection to a whole profile, and none is left that nobody can close   *)
(* but by two who asked at once.                                           *)
(***************************************************************************)
Connections == [ctx : Contexts, id : 1 .. MaxOpens]
QueueRequests == [ctx : Contexts, what : {"open", "delete"}]

OpensIn(q) == {i \in 1 .. Len(q) : q[i].what = "open"}

ConnectionsTyped ==
    /\ profile \in [version : SchemaVersions, whole : BOOLEAN]
    /\ conns \subseteq Connections /\ heard \subseteq Connections
    /\ handle \in [Contexts -> Connections \cup {NoConnection}]
    /\ \A c \in Contexts : handle[c] # NoConnection => handle[c].ctx = c
    /\ queue \in Seq(QueueRequests)
    /\ opened \in 0 .. MaxOpens /\ openedTwice \subseteq Contexts /\ resetDone \in BOOLEAN
    /\ opened + Cardinality(OpensIn(queue)) <= MaxOpens

(* A context that never asked twice at once has asked at most once, and    *)
(* has no handle while it waits: its answer displaces nothing.             *)
AsksAlone(q, h, twice) ==
    \A c \in Contexts \ twice :
        /\ \A i, j \in 1 .. Len(q) : q[i] = Request(c, "open") /\ q[j] = Request(c, "open") => i = j
        /\ \A i \in 1 .. Len(q) : q[i] = Request(c, "open") => h[c] = NoConnection

HandleInv ==
    /\ ConnectionsTyped /\ AsksAlone(queue, handle, openedTwice)
    /\ HandleIsOpen /\ ServedOnlyWhole /\ LeakedOnlyByOverlap

-----------------------------------------------------------------------------
(* A queue that some requests have left: the others, in some order.        *)
LeftOf(r, q, from) ==
    /\ from \in [1 .. Len(r) -> 1 .. Len(q)]
    /\ \A i, j \in 1 .. Len(r) : from[i] = from[j] => i = j
    /\ \A i \in 1 .. Len(r) : r[i] = q[from[i]]

LEMMA OpensAreFinite ==
    ASSUME NEW q \in Seq(QueueRequests)
    PROVE  IsFiniteSet(OpensIn(q)) /\ Cardinality(OpensIn(q)) \in Nat
<1>1. IsFiniteSet(1 .. Len(q)) /\ OpensIn(q) \subseteq 1 .. Len(q)
  BY FS_Interval DEF OpensIn
<1> QED  BY <1>1, FS_Subset, FS_CardinalityType

LEMMA FewerOpens ==
    ASSUME NEW q \in Seq(QueueRequests), NEW r \in Seq(QueueRequests), NEW from, LeftOf(r, q, from),
           NEW T \in SUBSET OpensIn(q), \A i \in OpensIn(r) : from[i] \in T
    PROVE  Cardinality(OpensIn(r)) <= Cardinality(T)
<1> DEFINE map == [i \in OpensIn(r) |-> from[i]]
<1>1. IsFiniteSet(T)
  BY OpensAreFinite, FS_Subset
<1>2. OpensIn(r) \subseteq 1 .. Len(r)
  BY DEF OpensIn
<1>3. map \in [OpensIn(r) -> T]
  OBVIOUS
<1>4. \A i, j \in OpensIn(r) : map[i] = map[j] => i = j
  BY <1>2 DEF LeftOf
<1> HIDE DEF map
<1>5. map \in Injection(OpensIn(r), T)
  BY <1>3, <1>4 DEF Injection, IsInjective
<1> QED  BY <1>1, <1>5, FS_Injection

LEMMA OpensStayOpens ==
    ASSUME NEW q \in Seq(QueueRequests), NEW r \in Seq(QueueRequests), NEW from, LeftOf(r, q, from)
    PROVE  \A i \in OpensIn(r) : from[i] \in OpensIn(q)
BY DEF LeftOf, OpensIn

LEMMA AloneStays ==
    ASSUME NEW q \in Seq(QueueRequests), NEW r \in Seq(QueueRequests), NEW from, LeftOf(r, q, from),
           NEW h, NEW twice, AsksAlone(q, h, twice)
    PROVE  AsksAlone(r, h, twice)
<1>1. \A i \in 1 .. Len(r) : from[i] \in 1 .. Len(q) /\ r[i] = q[from[i]]
  BY DEF LeftOf
<1>2. \A i, j \in 1 .. Len(r) : from[i] = from[j] => i = j
  BY DEF LeftOf
<1> QED  BY <1>1, <1>2 DEF AsksAlone

LEMMA TailLeft ==
    ASSUME NEW q \in Seq(QueueRequests), q # <<>>
    PROVE  /\ Tail(q) \in Seq(QueueRequests)
           /\ Head(q) = q[1] /\ q[1] \in QueueRequests /\ 1 \in 1 .. Len(q)
           /\ LeftOf(Tail(q), q, [i \in 1 .. Len(Tail(q)) |-> i + 1])
<1>1. /\ Tail(q) \in Seq(QueueRequests) /\ Len(Tail(q)) = Len(q) - 1 /\ Len(q) \in Nat \ {0}
      /\ \A i \in 1 .. Len(q) - 1 : Tail(q)[i] = q[i + 1]
      /\ Head(q) = q[1] /\ q[1] \in QueueRequests
  OBVIOUS
<1> QED  BY <1>1 DEF LeftOf

LEMMA WaitingLeft ==
    ASSUME queue \in Seq(QueueRequests), NEW c, NEW r \in LeftWaiting(c)
    PROVE  r \in Seq(QueueRequests) /\ \E from : LeftOf(r, queue, from)
<1> DEFINE rest == {i \in 1 .. Len(queue) : queue[i].ctx # c}
<1>1. PICK from \in [1 .. Cardinality(rest) -> rest] :
         /\ \A i, j \in DOMAIN from : i < j => from[i] < from[j]
         /\ r = [i \in DOMAIN from |-> queue[from[i]]]
  BY DEF LeftWaiting
<1>2. rest \subseteq 1 .. Len(queue) /\ IsFiniteSet(1 .. Len(queue))
  BY FS_Interval
<1>3. Cardinality(rest) \in Nat
  BY <1>2, FS_Subset, FS_CardinalityType
<1> HIDE DEF rest
<1>4. DOMAIN from = 1 .. Cardinality(rest) /\ \A i \in 1 .. Cardinality(rest) : from[i] \in 1 .. Len(queue)
  BY <1>1, <1>2
<1>5. \A i \in 1 .. Cardinality(rest) : queue[from[i]] \in QueueRequests
  BY <1>4
<1>6. r \in Seq(QueueRequests) /\ Len(r) = Cardinality(rest)
  BY <1>1, <1>3, <1>4, <1>5
<1>7. \A i, j \in 1 .. Cardinality(rest) : from[i] = from[j] => i = j
  <2> SUFFICES ASSUME NEW i \in 1 .. Cardinality(rest), NEW j \in 1 .. Cardinality(rest), i # j
               PROVE  from[i] # from[j]
    OBVIOUS
  <2>1. i < j \/ j < i
    BY <1>3
  <2>2. from[i] < from[j] \/ from[j] < from[i]
    BY <1>1, <1>4, <2>1
  <2> QED  BY <1>4, <2>2
<1>8. LeftOf(r, queue, from)
  BY <1>1, <1>4, <1>6, <1>7 DEF LeftOf
<1> QED  BY <1>6, <1>8

-----------------------------------------------------------------------------
LEMMA NoConnectionIsNone == NoConnection \notin Connections
BY DatabaseAssumption DEF NoConnection, Connections

LEMMA HandleInvInit == DatabaseInit => HandleInv
<1> SUFFICES ASSUME DatabaseInit PROVE HandleInv
  OBVIOUS
<1>1. PICK found \in [version : SchemaVersions, whole : BOOLEAN] : DatabaseStarts(found)
  BY DEF DatabaseInit
<1>2. /\ profile = found /\ conns = {} /\ handle = [c \in Contexts |-> NoConnection] /\ queue = <<>>
      /\ heard = {} /\ opened = 0 /\ openedTwice = {} /\ resetDone = TRUE
  BY <1>1 DEF DatabaseStarts
<1>3. OpensIn(queue) = {} /\ Cardinality({}) = 0
  BY <1>2, FS_EmptySet DEF OpensIn
<1>4. MaxOpens \in Nat
  BY DatabaseAssumption
<1>5. ConnectionsTyped
  <2>1. opened + Cardinality(OpensIn(queue)) <= MaxOpens /\ opened \in 0 .. MaxOpens
    <3>1. Cardinality(OpensIn(queue)) = 0
      BY <1>3
    <3>2. opened = 0
      BY <1>2
    <3> QED  BY <1>4, <3>1, <3>2
  <2>2. \A c \in Contexts : handle[c] = NoConnection
    BY <1>2
  <2>3. handle \in [Contexts -> Connections \cup {NoConnection}]
    BY <1>2
  <2>4. queue \in Seq(QueueRequests)
    BY <1>2
  <2>5. conns \subseteq Connections /\ heard \subseteq Connections /\ openedTwice \subseteq Contexts
        /\ resetDone \in BOOLEAN /\ profile \in [version : SchemaVersions, whole : BOOLEAN]
    BY <1>2
  <2> QED  BY <2>1, <2>2, <2>3, <2>4, <2>5 DEF ConnectionsTyped
<1> QED  BY <1>2, <1>5 DEF HandleInv, AsksAlone, HandleIsOpen, ServedOnlyWhole, LeakedOnlyByOverlap

LEMMA OpenKeeps == ASSUME HandleInv, NEW c \in Contexts, OpenDb(c) PROVE HandleInv'
<1> DEFINE ask == Request(c, "open")
<1>1. /\ handle[c] = NoConnection /\ opened + Len(queue) < MaxOpens /\ queue' = Append(queue, ask)
      /\ openedTwice' = IF Pending(c, "open") > 0 THEN openedTwice \cup {c} ELSE openedTwice
      /\ UNCHANGED <<profile, conns, handle, heard, opened, resetDone>>
  BY DEF OpenDb
<1>2. /\ queue \in Seq(QueueRequests) /\ ask \in QueueRequests /\ opened \in Nat /\ MaxOpens \in Nat
      /\ opened + Cardinality(OpensIn(queue)) <= MaxOpens
  BY DatabaseAssumption DEF HandleInv, ConnectionsTyped, QueueRequests, Request
<1>3. /\ queue' \in Seq(QueueRequests) /\ Len(queue') = Len(queue) + 1 /\ Len(queue) \in Nat
      /\ \A i \in 1 .. Len(queue) : queue'[i] = queue[i]
      /\ queue'[Len(queue) + 1] = ask
  BY <1>1, <1>2
<1>4. Cardinality(OpensIn(queue')) <= Len(queue) + 1
  <2>1. OpensIn(queue') \subseteq 1 .. Len(queue) + 1
    BY <1>3 DEF OpensIn
  <2>2. IsFiniteSet(1 .. Len(queue) + 1) /\ Cardinality(1 .. Len(queue) + 1) = Len(queue) + 1
    <3>1. \A n \in Nat : IsFiniteSet(1 .. n) /\ Cardinality(1 .. n) = n
      BY FS_Interval
    <3> QED  BY <1>3, <3>1
  <2> QED  BY <2>1, <2>2, FS_Subset
<1>5. Cardinality(OpensIn(queue')) \in Nat
  BY <1>3, OpensAreFinite
<1>6. opened' + Cardinality(OpensIn(queue')) <= MaxOpens
  <2>1. opened' = opened
    BY <1>1
  <2> QED  BY <1>1, <1>2, <1>3, <1>4, <1>5, <2>1
<1>7. openedTwice \subseteq openedTwice' /\ openedTwice' \subseteq Contexts
  BY <1>1 DEF HandleInv, ConnectionsTyped
<1>8. ConnectionsTyped'
  BY <1>1, <1>3, <1>6, <1>7 DEF HandleInv, ConnectionsTyped
<1>9. c \notin openedTwice' => \A i \in 1 .. Len(queue) : queue[i] # ask
  <2> SUFFICES ASSUME NEW i \in 1 .. Len(queue), queue[i] = ask PROVE c \in openedTwice'
    OBVIOUS
  <2> DEFINE asked == {k \in 1 .. Len(queue) : queue[k] = ask}
  <2>1. IsFiniteSet(1 .. Len(queue)) /\ asked \subseteq 1 .. Len(queue) /\ asked # {}
    <3>1. IsFiniteSet(1 .. Len(queue))
      BY <1>3, FS_Interval
    <3>2. i \in asked
      OBVIOUS
    <3> QED  BY <3>1, <3>2
  <2>2. IsFiniteSet(asked)
    BY <2>1, FS_Subset
  <2>3. Cardinality(asked) \in Nat /\ Cardinality(asked) # 0
    BY <2>1, <2>2, FS_EmptySet, FS_CardinalityType
  <2>4. Pending(c, "open") > 0
    BY <2>3 DEF Pending
  <2> QED  BY <1>1, <2>4
<1>10. AsksAlone(queue', handle', openedTwice')
  <2> SUFFICES ASSUME NEW d \in Contexts \ openedTwice'
               PROVE  /\ \A i, j \in 1 .. Len(queue') :
                             queue'[i] = Request(d, "open") /\ queue'[j] = Request(d, "open") => i = j
                      /\ \A i \in 1 .. Len(queue') : queue'[i] = Request(d, "open") => handle'[d] = NoConnection
    BY DEF AsksAlone
  <2>1. /\ \A i, j \in 1 .. Len(queue) :
               queue[i] = Request(d, "open") /\ queue[j] = Request(d, "open") => i = j
        /\ \A i \in 1 .. Len(queue) : queue[i] = Request(d, "open") => handle[d] = NoConnection
    BY <1>7 DEF HandleInv, AsksAlone
  <2>2. \A i \in 1 .. Len(queue') : i \in 1 .. Len(queue) \/ i = Len(queue) + 1
    BY <1>3
  <2>3. CASE d = c
    BY <1>1, <1>3, <1>9, <2>1, <2>2, <2>3
  <2>4. CASE d # c
    <3>1. ask # Request(d, "open")
      BY <2>4 DEF Request
    <3> QED  BY <1>1, <1>3, <2>1, <2>2, <3>1
  <2> QED  BY <2>3, <2>4
<1>11. HandleIsOpen' /\ ServedOnlyWhole' /\ LeakedOnlyByOverlap'
  BY <1>1, <1>7 DEF HandleInv, HandleIsOpen, ServedOnlyWhole, LeakedOnlyByOverlap
<1> QED  BY <1>8, <1>10, <1>11 DEF HandleInv

(* The head of the queue is served: what waits behind it waits alone still, *)
(* and the context it was for has nothing else waiting if it asked once.   *)
LEMMA ServedLeaves ==
    ASSUME HandleInv, queue # <<>>, Served
    PROVE  /\ queue' \in Seq(QueueRequests) /\ heard' = {}
           /\ AsksAlone(queue', handle, openedTwice)
           /\ Cardinality(OpensIn(queue')) <= Cardinality(OpensIn(queue))
           /\ Asks("open") =>
                /\ Cardinality(OpensIn(queue')) + 1 <= Cardinality(OpensIn(queue))
                /\ Head(queue).ctx \notin openedTwice =>
                      /\ handle[Head(queue).ctx] = NoConnection
                      /\ \A i \in 1 .. Len(queue') : queue'[i] # Request(Head(queue).ctx, "open")
<1> DEFINE from == [i \in 1 .. Len(Tail(queue)) |-> i + 1]
<1>1. queue \in Seq(QueueRequests) /\ queue' = Tail(queue) /\ heard' = {}
  BY DEF HandleInv, ConnectionsTyped, Served
<1>2. /\ queue' \in Seq(QueueRequests) /\ LeftOf(queue', queue, from)
      /\ Head(queue) = queue[1] /\ queue[1] \in QueueRequests /\ 1 \in 1 .. Len(queue)
  BY <1>1, TailLeft
<1>3. \A i \in 1 .. Len(queue') : from[i] # 1
  BY <1>1
<1> HIDE DEF from
<1>4. \A i \in OpensIn(queue') : from[i] \in OpensIn(queue)
  BY <1>1, <1>2, OpensStayOpens
<1>5. Cardinality(OpensIn(queue')) <= Cardinality(OpensIn(queue))
  BY <1>1, <1>2, <1>4, FewerOpens
<1>6. AsksAlone(queue', handle, openedTwice)
  BY <1>1, <1>2, AloneStays DEF HandleInv
<1>7. ASSUME Asks("open")
      PROVE  /\ Cardinality(OpensIn(queue')) + 1 <= Cardinality(OpensIn(queue))
             /\ Head(queue).ctx \notin openedTwice =>
                   /\ handle[Head(queue).ctx] = NoConnection
                   /\ \A i \in 1 .. Len(queue') : queue'[i] # Request(Head(queue).ctx, "open")
  <2>1. queue[1].what = "open" /\ 1 \in OpensIn(queue)
    BY <1>2, <1>7 DEF Asks, OpensIn
  <2>2. \A i \in OpensIn(queue') : from[i] \in OpensIn(queue) \ {1}
    BY <1>3, <1>4 DEF OpensIn
  <2>3. Cardinality(OpensIn(queue')) <= Cardinality(OpensIn(queue) \ {1})
    <3>1. OpensIn(queue) \ {1} \in SUBSET OpensIn(queue)
      OBVIOUS
    <3> QED  BY <1>1, <1>2, <2>2, <3>1, FewerOpens
  <2>4. Cardinality(OpensIn(queue) \ {1}) = Cardinality(OpensIn(queue)) - 1
    BY <1>1, <2>1, OpensAreFinite, FS_RemoveElement
  <2>5. Cardinality(OpensIn(queue')) \in Nat /\ Cardinality(OpensIn(queue)) \in Nat
    BY <1>1, <1>2, OpensAreFinite
  <2>6. Cardinality(OpensIn(queue')) + 1 <= Cardinality(OpensIn(queue))
    BY <2>3, <2>4, <2>5
  <2>7. queue[1] = Request(queue[1].ctx, "open") /\ queue[1].ctx \in Contexts
    BY <1>2, <2>1 DEF QueueRequests, Request
  <2>8. ASSUME queue[1].ctx \notin openedTwice
        PROVE  /\ handle[queue[1].ctx] = NoConnection
               /\ \A i \in 1 .. Len(queue') : queue'[i] # Request(queue[1].ctx, "open")
    <3>1. queue[1].ctx \in Contexts \ openedTwice
      BY <2>7, <2>8
    <3>2. /\ \A i, j \in 1 .. Len(queue) : queue[i] = Request(queue[1].ctx, "open")
                                             /\ queue[j] = Request(queue[1].ctx, "open") => i = j
          /\ \A i \in 1 .. Len(queue) :
                 queue[i] = Request(queue[1].ctx, "open") => handle[queue[1].ctx] = NoConnection
      BY <3>1 DEF HandleInv, AsksAlone
    <3>3. handle[queue[1].ctx] = NoConnection
      BY <1>2, <2>7, <3>2
    <3>4. ASSUME NEW i \in 1 .. Len(queue'), queue'[i] = Request(queue[1].ctx, "open") PROVE FALSE
      <4>1. from[i] \in 1 .. Len(queue) /\ queue[from[i]] = Request(queue[1].ctx, "open")
        BY <1>2, <3>4 DEF LeftOf
      <4> QED  BY <1>2, <1>3, <2>7, <3>2, <4>1
    <3> QED  BY <3>3, <3>4
  <2> QED  BY <1>2, <2>6, <2>8
<1> QED  BY <1>1, <1>2, <1>5, <1>6, <1>7

LEMMA ServeOpenKeeps == HandleInv /\ ServeOpen => HandleInv'
<1> SUFFICES ASSUME HandleInv, ServeOpen PROVE HandleInv'
  OBVIOUS
<1> DEFINE c == Head(queue).ctx
           conn == [ctx |-> c, id |-> opened + 1]
<1>1. Asks("open") /\ queue # <<>> /\ Served /\ UNCHANGED <<openedTwice, resetDone>>
  BY DEF ServeOpen, Asks
<1>2. /\ queue' \in Seq(QueueRequests) /\ heard' = {} /\ AsksAlone(queue', handle, openedTwice)
      /\ Cardinality(OpensIn(queue')) + 1 <= Cardinality(OpensIn(queue))
      /\ c \notin openedTwice =>
            /\ handle[c] = NoConnection
            /\ \A i \in 1 .. Len(queue') : queue'[i] # Request(c, "open")
  BY <1>1, ServedLeaves
<1>3. /\ profile \in [version : SchemaVersions, whole : BOOLEAN]
      /\ conns \subseteq Connections
      /\ handle \in [Contexts -> Connections \cup {NoConnection}]
      /\ \A d \in Contexts : handle[d] # NoConnection => handle[d].ctx = d
      /\ queue \in Seq(QueueRequests)
      /\ opened \in Nat /\ MaxOpens \in Nat /\ openedTwice \subseteq Contexts
      /\ opened + Cardinality(OpensIn(queue)) <= MaxOpens
  BY DatabaseAssumption DEF HandleInv, ConnectionsTyped
<1>4. c \in Contexts
  BY <1>1, <1>3, TailLeft DEF QueueRequests
<1>5. Cardinality(OpensIn(queue)) \in Nat /\ Cardinality(OpensIn(queue')) \in Nat
  BY <1>2, <1>3, OpensAreFinite
<1>6. \A d \in Contexts : handle[d] # NoConnection => handle[d] \in conns /\ profile.whole
  BY DEF HandleInv, HandleIsOpen, ServedOnlyWhole
<1>7. \A k \in conns : handle[k.ctx] = k \/ k.ctx \in openedTwice
  BY DEF HandleInv, LeakedOnlyByOverlap
<1>8. \A k \in conns : k.ctx = c => c \in openedTwice
  BY <1>2, <1>3, <1>7, NoConnectionIsNone
<1>9. \A h : (\A d \in Contexts \ {c} : h[d] = handle[d]) => AsksAlone(queue', h, openedTwice)
  BY <1>2 DEF AsksAlone
<1> HIDE DEF c
<1>10. ASSUME handle' = [handle EXCEPT ![c] = NoConnection], UNCHANGED <<conns, opened>>,
              profile' \in [version : SchemaVersions, whole : BOOLEAN], profile'.whole = profile.whole
       PROVE  HandleInv'
  <2>1. /\ handle' \in [Contexts -> Connections \cup {NoConnection}] /\ handle'[c] = NoConnection
        /\ \A d \in Contexts \ {c} : handle'[d] = handle[d]
    BY <1>3, <1>4, <1>10
  <2>2. ConnectionsTyped'
    <3>1. opened' \in 0 .. MaxOpens /\ opened' + Cardinality(OpensIn(queue')) <= MaxOpens
      BY <1>2, <1>3, <1>5, <1>10
    <3>2. \A d \in Contexts : handle'[d] # NoConnection => handle'[d].ctx = d
      BY <1>3, <2>1
    <3> QED  BY <1>1, <1>2, <1>10, <2>1, <3>1, <3>2 DEF HandleInv, ConnectionsTyped
  <2>3. AsksAlone(queue', handle', openedTwice')
    BY <1>1, <1>9, <2>1
  <2>4. HandleIsOpen' /\ ServedOnlyWhole'
    BY <1>6, <1>10, <2>1 DEF HandleIsOpen, ServedOnlyWhole
  <2>5. LeakedOnlyByOverlap'
    <3>1. \A k \in conns : k.ctx \in Contexts
      BY <1>3 DEF Connections
    <3> QED  BY <1>1, <1>7, <1>8, <1>10, <2>1, <3>1 DEF LeakedOnlyByOverlap
  <2> QED  BY <2>2, <2>3, <2>4, <2>5 DEF HandleInv
<1>11. ASSUME Connect(c) PROVE HandleInv'
  <2>1. /\ opened' = opened + 1
        /\ profile' = [version |-> Build[c], whole |-> Shaped(Build[c])]
        /\ IF Shaped(Build[c])
             THEN conns' = conns \cup {conn} /\ handle' = [handle EXCEPT ![c] = conn]
             ELSE conns' = conns /\ handle' = [handle EXCEPT ![c] = NoConnection]
    BY <1>11 DEF Connect, Usable
  <2>2. Shaped(Build[c]) \in BOOLEAN /\ (profile.whole => Shaped(Build[c]))
    BY <1>3 DEF Shaped
  <2>3. profile' \in [version : SchemaVersions, whole : BOOLEAN] /\ profile'.whole = Shaped(Build[c])
    BY <1>4, <2>1, <2>2 DEF SchemaVersions
  <2>4. opened' \in 0 .. MaxOpens /\ opened' + Cardinality(OpensIn(queue')) <= MaxOpens
    BY <1>2, <1>3, <1>5, <2>1
  <2>5. conn \in Connections /\ conn.ctx = c
    BY <1>3, <1>4, <2>1, <2>4 DEF Connections
  <2> HIDE DEF conn
  <2>6. CASE Shaped(Build[c])
    <3>1. /\ conns' = conns \cup {conn} /\ handle' = [handle EXCEPT ![c] = conn]
          /\ handle'[c] = conn /\ \A d \in Contexts \ {c} : handle'[d] = handle[d]
          /\ handle' \in [Contexts -> Connections \cup {NoConnection}]
      BY <1>3, <1>4, <2>1, <2>5, <2>6
    <3>2. conns' \subseteq Connections
      BY <1>3, <2>5, <3>1
    <3>3. \A d \in Contexts : handle'[d] # NoConnection => handle'[d].ctx = d
      BY <1>3, <2>5, <3>1
    <3>4. ConnectionsTyped'
      BY <1>1, <1>2, <2>3, <2>4, <3>1, <3>2, <3>3 DEF HandleInv, ConnectionsTyped
    <3>5. AsksAlone(queue', handle', openedTwice')
      <4>1. \A d \in Contexts \ {c} : handle'[d] = handle[d]
        BY <3>1
      <4>2. c \notin openedTwice => \A i \in 1 .. Len(queue') : queue'[i] # Request(c, "open")
        BY <1>2 DEF c
      <4> QED  BY <1>1, <1>2, <4>1, <4>2 DEF AsksAlone
    <3>6. HandleIsOpen' /\ ServedOnlyWhole'
      BY <1>6, <2>3, <2>6, <3>1 DEF HandleIsOpen, ServedOnlyWhole
    <3>7. LeakedOnlyByOverlap'
      <4>1. \A k \in conns : k.ctx \in Contexts
        BY <1>3 DEF Connections
      <4> QED  BY <1>1, <1>7, <1>8, <2>5, <3>1, <4>1 DEF LeakedOnlyByOverlap
    <3> QED  BY <3>4, <3>5, <3>6, <3>7 DEF HandleInv
  <2>7. CASE ~ Shaped(Build[c])
    <3>1. /\ conns' = conns /\ handle' = [handle EXCEPT ![c] = NoConnection] /\ ~ profile.whole
          /\ handle'[c] = NoConnection /\ \A d \in Contexts \ {c} : handle'[d] = handle[d]
          /\ handle' \in [Contexts -> Connections \cup {NoConnection}]
      BY <1>3, <1>4, <2>1, <2>2, <2>7
    <3>2. \A d \in Contexts : handle'[d] = NoConnection
      BY <1>6, <3>1
    <3>3. ConnectionsTyped'
      BY <1>1, <1>2, <1>3, <2>3, <2>4, <3>1, <3>2 DEF HandleInv, ConnectionsTyped
    <3>4. AsksAlone(queue', handle', openedTwice')
      BY <1>1, <1>9, <3>1
    <3>5. HandleIsOpen' /\ ServedOnlyWhole'
      BY <3>2 DEF HandleIsOpen, ServedOnlyWhole
    <3>6. LeakedOnlyByOverlap'
      <4>1. \A k \in conns : k.ctx \in Contexts
        BY <1>3 DEF Connections
      <4> QED  BY <1>1, <1>7, <1>8, <3>1, <4>1 DEF LeakedOnlyByOverlap
    <3> QED  BY <3>3, <3>4, <3>5, <3>6 DEF HandleInv
  <2> QED  BY <2>6, <2>7
<1> QED  BY <1>3, <1>10, <1>11 DEF ServeOpen, c

-----------------------------------------------------------------------------
(* A context gives up its handle, and some connections are closed: all     *)
(* that were its own but those it had leaked.                              *)
LEMMA HandleDropped ==
    ASSUME HandleInv, NEW c \in Contexts, NEW gone, handle' = [handle EXCEPT ![c] = NoConnection],
           conns' = conns \ gone, \A k \in gone \cap conns : k.ctx = c,
           c \in openedTwice \/ \A k \in conns : k.ctx = c => k \in gone,
           openedTwice' = openedTwice, profile' = profile
    PROVE  /\ HandleIsOpen' /\ ServedOnlyWhole' /\ LeakedOnlyByOverlap'
           /\ handle' \in [Contexts -> Connections \cup {NoConnection}]
           /\ \A d \in Contexts : handle'[d] # NoConnection => handle'[d].ctx = d
           /\ conns' \subseteq Connections
           /\ \A q : AsksAlone(q, handle, openedTwice) => AsksAlone(q, handle', openedTwice)
<1>1. /\ conns \subseteq Connections /\ handle \in [Contexts -> Connections \cup {NoConnection}]
      /\ \A d \in Contexts : handle[d] # NoConnection => handle[d].ctx = d
  BY DEF HandleInv, ConnectionsTyped
<1>2. /\ handle'[c] = NoConnection /\ \A d \in Contexts \ {c} : handle'[d] = handle[d]
      /\ handle' \in [Contexts -> Connections \cup {NoConnection}]
  BY <1>1
<1>3. \A d \in Contexts : handle[d] # NoConnection => handle[d] \in conns /\ profile.whole
  BY DEF HandleInv, HandleIsOpen, ServedOnlyWhole
<1>4. \A k \in conns : handle[k.ctx] = k \/ k.ctx \in openedTwice
  BY DEF HandleInv, LeakedOnlyByOverlap
<1>5. \A k \in conns : k.ctx \in Contexts
  BY <1>1 DEF Connections
<1>6. HandleIsOpen' /\ ServedOnlyWhole'
  BY <1>1, <1>2, <1>3 DEF HandleIsOpen, ServedOnlyWhole
<1>7. LeakedOnlyByOverlap'
  BY <1>2, <1>4, <1>5 DEF LeakedOnlyByOverlap
<1>8. \A q : AsksAlone(q, handle, openedTwice) => AsksAlone(q, handle', openedTwice)
  BY <1>2 DEF AsksAlone
<1> QED  BY <1>1, <1>2, <1>6, <1>7, <1>8

(* closeDb: the connection the handle names, which is the only one of a    *)
(* context that never asked twice at once.                                 *)
LEMMA CloseDrops ==
    ASSUME HandleInv, NEW c \in Contexts, CloseDb(c), openedTwice' = openedTwice, profile' = profile
    PROVE  /\ HandleIsOpen' /\ ServedOnlyWhole' /\ LeakedOnlyByOverlap'
           /\ handle' \in [Contexts -> Connections \cup {NoConnection}]
           /\ \A d \in Contexts : handle'[d] # NoConnection => handle'[d].ctx = d
           /\ conns' \subseteq Connections
           /\ \A q : AsksAlone(q, handle, openedTwice) => AsksAlone(q, handle', openedTwice)
<1>1. conns' = conns \ {handle[c]} /\ handle' = [handle EXCEPT ![c] = NoConnection]
  BY DEF CloseDb
<1>2. \A k \in {handle[c]} \cap conns : k.ctx = c
  BY NoConnectionIsNone DEF HandleInv, ConnectionsTyped
<1>3. c \in openedTwice \/ \A k \in conns : k.ctx = c => k \in {handle[c]}
  BY DEF HandleInv, LeakedOnlyByOverlap
<1> QED  BY <1>1, <1>2, <1>3, HandleDropped

LEMMA ResetKeeps == ASSUME HandleInv, NEW c \in Contexts, ResetStorage(c) PROVE HandleInv'
<1> DEFINE ask == Request(c, "delete")
<1>1. /\ CloseDb(c) /\ queue' = Append(queue, ask) /\ resetDone' = FALSE
      /\ UNCHANGED <<profile, heard, opened, openedTwice>>
  BY DEF ResetStorage
<1>2. queue \in Seq(QueueRequests) /\ ask \in QueueRequests /\ ask.what = "delete"
  BY DEF HandleInv, ConnectionsTyped, QueueRequests, Request
<1>3. /\ queue' \in Seq(QueueRequests) /\ Len(queue') = Len(queue) + 1 /\ Len(queue) \in Nat
      /\ \A i \in 1 .. Len(queue) : queue'[i] = queue[i]
      /\ queue'[Len(queue) + 1] = ask
  BY <1>1, <1>2
<1>4. \A i \in 1 .. Len(queue') : i \in 1 .. Len(queue) \/ i = Len(queue) + 1
  BY <1>3
<1> HIDE DEF ask
<1>5. OpensIn(queue') = OpensIn(queue)
  <2>1. \A i \in 1 .. Len(queue') : queue'[i].what = "open" <=> i \in 1 .. Len(queue) /\ queue[i].what = "open"
    BY <1>2, <1>3, <1>4
  <2>2. 1 .. Len(queue) \subseteq 1 .. Len(queue')
    BY <1>3
  <2> QED  BY <2>1, <2>2 DEF OpensIn
<1>6. AsksAlone(queue', handle, openedTwice)
  <2>1. \A d : ask # Request(d, "open")
    BY <1>2 DEF Request
  <2> QED  BY <1>3, <1>4, <2>1 DEF HandleInv, AsksAlone
<1>7. /\ HandleIsOpen' /\ ServedOnlyWhole' /\ LeakedOnlyByOverlap'
      /\ handle' \in [Contexts -> Connections \cup {NoConnection}]
      /\ \A d \in Contexts : handle'[d] # NoConnection => handle'[d].ctx = d
      /\ conns' \subseteq Connections
      /\ AsksAlone(queue', handle', openedTwice)
  BY <1>1, <1>6, CloseDrops
<1>8. ConnectionsTyped'
  BY <1>1, <1>3, <1>5, <1>7 DEF HandleInv, ConnectionsTyped
<1> QED  BY <1>1, <1>7, <1>8 DEF HandleInv

LEMMA BlockingKeeps == ASSUME HandleInv, NEW conn \in conns, Blocking(conn) PROVE HandleInv'
<1>1. /\ CloseDb(conn.ctx) /\ heard' = heard \cup {conn}
      /\ UNCHANGED <<profile, queue, opened, openedTwice, resetDone>>
  BY DEF Blocking
<1>2. conn \in Connections /\ conn.ctx \in Contexts
  BY DEF HandleInv, ConnectionsTyped, Connections
<1>3. /\ HandleIsOpen' /\ ServedOnlyWhole' /\ LeakedOnlyByOverlap'
      /\ handle' \in [Contexts -> Connections \cup {NoConnection}]
      /\ \A d \in Contexts : handle'[d] # NoConnection => handle'[d].ctx = d
      /\ conns' \subseteq Connections
      /\ AsksAlone(queue, handle', openedTwice)
  BY <1>1, <1>2, CloseDrops DEF HandleInv
<1>4. ConnectionsTyped'
  BY <1>1, <1>2, <1>3 DEF HandleInv, ConnectionsTyped
<1> QED  BY <1>1, <1>3, <1>4 DEF HandleInv

LEMMA TerminatedKeeps == ASSUME HandleInv, NEW conn \in conns, Terminated(conn) PROVE HandleInv'
<1>1. /\ conns' = conns \ {conn} /\ handle' = [handle EXCEPT ![conn.ctx] = NoConnection]
      /\ UNCHANGED <<profile, queue, heard, opened, openedTwice, resetDone>>
  BY DEF Terminated, DropHandle
<1>2. conn.ctx \in Contexts
  BY DEF HandleInv, ConnectionsTyped, Connections
<1>3. conn.ctx \in openedTwice \/ \A k \in conns : k.ctx = conn.ctx => k \in {conn}
  BY DEF HandleInv, LeakedOnlyByOverlap
<1>4. \A k \in {conn} \cap conns : k.ctx = conn.ctx
  OBVIOUS
<1>5. /\ HandleIsOpen' /\ ServedOnlyWhole' /\ LeakedOnlyByOverlap'
      /\ handle' \in [Contexts -> Connections \cup {NoConnection}]
      /\ \A d \in Contexts : handle'[d] # NoConnection => handle'[d].ctx = d
      /\ conns' \subseteq Connections
      /\ AsksAlone(queue, handle', openedTwice)
  BY <1>1, <1>2, <1>3, <1>4, HandleDropped DEF HandleInv
<1>6. ConnectionsTyped'
  BY <1>1, <1>5 DEF HandleInv, ConnectionsTyped
<1> QED  BY <1>1, <1>5, <1>6 DEF HandleInv

LEMMA ContextEndsKeeps == ASSUME HandleInv, NEW c \in Contexts, ContextEnds(c) PROVE HandleInv'
<1> DEFINE gone == {k \in conns : k.ctx = c}
<1>1. /\ conns' = conns \ gone /\ handle' = [handle EXCEPT ![c] = NoConnection]
      /\ queue' \in LeftWaiting(c) /\ (heard' = heard \/ heard' = {})
      /\ UNCHANGED <<profile, opened, openedTwice, resetDone>>
  BY DEF ContextEnds
<1>2. \A k \in gone \cap conns : k.ctx = c
  OBVIOUS
<1>3. \A k \in conns : k.ctx = c => k \in gone
  OBVIOUS
<1> HIDE DEF gone
<1>4. /\ HandleIsOpen' /\ ServedOnlyWhole' /\ LeakedOnlyByOverlap'
      /\ handle' \in [Contexts -> Connections \cup {NoConnection}]
      /\ \A d \in Contexts : handle'[d] # NoConnection => handle'[d].ctx = d
      /\ conns' \subseteq Connections
      /\ \A q : AsksAlone(q, handle, openedTwice) => AsksAlone(q, handle', openedTwice)
  BY <1>1, <1>2, <1>3, HandleDropped
<1>5. queue \in Seq(QueueRequests) /\ AsksAlone(queue, handle, openedTwice)
  BY DEF HandleInv, ConnectionsTyped
<1>6. queue' \in Seq(QueueRequests) /\ \E from : LeftOf(queue', queue, from)
  BY <1>1, <1>5, WaitingLeft
<1>7. PICK from : LeftOf(queue', queue, from)
  BY <1>6
<1>8. AsksAlone(queue', handle', openedTwice)
  BY <1>4, <1>5, <1>6, <1>7, AloneStays
<1>9. \A i \in OpensIn(queue') : from[i] \in OpensIn(queue)
  BY <1>5, <1>6, <1>7, OpensStayOpens
<1>10. Cardinality(OpensIn(queue')) <= Cardinality(OpensIn(queue))
  BY <1>5, <1>6, <1>7, <1>9, FewerOpens
<1>11. Cardinality(OpensIn(queue')) \in Nat /\ Cardinality(OpensIn(queue)) \in Nat
  BY <1>5, <1>6, OpensAreFinite
<1>12. opened' + Cardinality(OpensIn(queue')) <= MaxOpens
  <2>1. opened' = opened /\ opened \in Nat /\ MaxOpens \in Nat
        /\ opened + Cardinality(OpensIn(queue)) <= MaxOpens
    BY <1>1, DatabaseAssumption DEF HandleInv, ConnectionsTyped
  <2> QED  BY <1>10, <1>11, <2>1
<1>13. ConnectionsTyped'
  BY <1>1, <1>4, <1>6, <1>12 DEF HandleInv, ConnectionsTyped
<1> QED  BY <1>1, <1>4, <1>8, <1>13 DEF HandleInv

LEMMA ServeDeleteKeeps == HandleInv /\ ServeDelete => HandleInv'
<1> SUFFICES ASSUME HandleInv, ServeDelete PROVE HandleInv'
  OBVIOUS
<1>1. /\ queue # <<>> /\ conns = {} /\ profile' = [version |-> 0, whole |-> FALSE] /\ resetDone' = TRUE
      /\ Served /\ UNCHANGED <<conns, handle, opened, openedTwice>>
  BY DEF ServeDelete, Asks
<1>2. /\ queue' \in Seq(QueueRequests) /\ heard' = {} /\ AsksAlone(queue', handle, openedTwice)
      /\ Cardinality(OpensIn(queue')) <= Cardinality(OpensIn(queue))
  BY <1>1, ServedLeaves
<1>3. /\ queue \in Seq(QueueRequests) /\ opened \in Nat /\ MaxOpens \in Nat
      /\ opened + Cardinality(OpensIn(queue)) <= MaxOpens
  BY DatabaseAssumption DEF HandleInv, ConnectionsTyped
<1>4. Cardinality(OpensIn(queue')) \in Nat /\ Cardinality(OpensIn(queue)) \in Nat
  BY <1>2, <1>3, OpensAreFinite
<1>5. opened' + Cardinality(OpensIn(queue')) <= MaxOpens
  <2>1. opened' = opened
    BY <1>1
  <2> QED  BY <1>2, <1>3, <1>4, <2>1
<1>6. profile' \in [version : SchemaVersions, whole : BOOLEAN]
  BY <1>1 DEF SchemaVersions
<1>7. ConnectionsTyped'
  BY <1>1, <1>2, <1>5, <1>6 DEF HandleInv, ConnectionsTyped
<1>8. \A c \in Contexts : handle[c] = NoConnection
  BY <1>1 DEF HandleInv, HandleIsOpen
<1> QED  BY <1>1, <1>2, <1>7, <1>8 DEF HandleInv, HandleIsOpen, ServedOnlyWhole, LeakedOnlyByOverlap

LEMMA BlockedKeeps == HandleInv /\ Blocked => HandleInv'
<1> SUFFICES ASSUME HandleInv, Blocked PROVE HandleInv'
  OBVIOUS
<1> DEFINE c == Head(queue).ctx
<1>1. /\ Asks("open") /\ queue # <<>> /\ handle' = [handle EXCEPT ![c] = NoConnection]
      /\ UNCHANGED <<profile, conns, queue, heard, opened, openedTwice, resetDone>>
  BY DEF Blocked, Asks
<1>2. queue \in Seq(QueueRequests) /\ handle \in [Contexts -> Connections \cup {NoConnection}]
  BY DEF HandleInv, ConnectionsTyped
<1>3. queue[1] \in QueueRequests /\ queue[1].what = "open" /\ c = queue[1].ctx /\ 1 \in 1 .. Len(queue)
  BY <1>1, <1>2, TailLeft DEF Asks
<1>4. c \in Contexts /\ queue[1] = Request(c, "open")
  BY <1>3 DEF QueueRequests, Request
<1> HIDE DEF c
<1>5. c \notin openedTwice => handle[c] = NoConnection
  BY <1>3, <1>4 DEF HandleInv, AsksAlone
<1>6. c \in openedTwice \/ \A k \in conns : k.ctx = c => k \in {}
  <2> SUFFICES ASSUME NEW k \in conns, k.ctx = c PROVE c \in openedTwice
    OBVIOUS
  <2>1. k # NoConnection
    BY NoConnectionIsNone DEF HandleInv, ConnectionsTyped
  <2> QED  BY <1>5, <2>1 DEF HandleInv, LeakedOnlyByOverlap
<1>7. conns' = conns \ {} /\ \A k \in {} \cap conns : k.ctx = c
  BY <1>1
<1>8. /\ HandleIsOpen' /\ ServedOnlyWhole' /\ LeakedOnlyByOverlap'
      /\ handle' \in [Contexts -> Connections \cup {NoConnection}]
      /\ \A d \in Contexts : handle'[d] # NoConnection => handle'[d].ctx = d
      /\ conns' \subseteq Connections
      /\ AsksAlone(queue, handle', openedTwice)
  BY <1>1, <1>4, <1>6, <1>7, HandleDropped DEF HandleInv
<1>9. ConnectionsTyped'
  BY <1>1, <1>8 DEF HandleInv, ConnectionsTyped
<1> QED  BY <1>1, <1>8, <1>9 DEF HandleInv

LEMMA HandleInvStep == HandleInv /\ [DatabaseNext]_databaseVars => HandleInv'
<1> SUFFICES ASSUME HandleInv, [DatabaseNext]_databaseVars PROVE HandleInv'
  OBVIOUS
<1>1. CASE UNCHANGED databaseVars
  BY <1>1 DEF databaseVars, HandleInv, ConnectionsTyped, AsksAlone, HandleIsOpen, ServedOnlyWhole,
              LeakedOnlyByOverlap
<1> QED  BY <1>1, OpenKeeps, ServeOpenKeeps, ResetKeeps, BlockingKeeps, TerminatedKeeps, ContextEndsKeeps,
            ServeDeleteKeeps, BlockedKeeps DEF DatabaseNext, Callbacks

(* The invariant of the connections: a context that never asked twice at   *)
(* once has no handle while it waits for one.                              *)
THEOREM HandleInvAlways == DatabaseSpec => []HandleInv
BY HandleInvInit, HandleInvStep, PTL DEF DatabaseSpec

(* A kept handle is a live connection to a whole profile, and a connection *)
(* nobody can close is rest only by two callers who asked at once (openDb, *)
(* closeDb and resetStorage of storage/db.ts).                             *)
THEOREM HandlesStaySound == DatabaseSpec => []HandlesAreSound
<1>1. HandleInv => HandlesAreSound
  <2> SUFFICES ASSUME HandleInv PROVE HandlesAreSound
    OBVIOUS
  <2>1. \A i \in 1 .. Len(queue) : queue[i] \in [ctx : Contexts, what : {"open", "delete"}]
    <3>1. queue \in Seq(QueueRequests)
      BY DEF HandleInv, ConnectionsTyped
    <3>2. \A i \in 1 .. Len(queue) : queue[i] \in QueueRequests
      BY <3>1
    <3> QED  BY <3>2 DEF QueueRequests
  <2>2. DatabaseTypeOK
    BY <2>1 DEF HandleInv, ConnectionsTyped, DatabaseTypeOK, Connections
  <2> QED  BY <2>2 DEF HandleInv, HandlesAreSound
<1> QED  BY <1>1, HandleInvAlways, PTL

=============================================================================
