------------------------------ MODULE Page_proofs -------------------------
(***************************************************************************)
(* What the parts of the extension that stand in a page promise, for every *)
(* value of their constants. One section a part: its inductive invariant,  *)
(* a lemma for each of its steps that can disturb it, and the theorems.    *)
(***************************************************************************)
EXTENDS FrameRelay, PageWatch, Sanitiser, ScanPace, Collector, Injection, OptionsPage,
        FiniteSetTheorems, SequenceTheorems, WellFoundedInduction, TLAPS

-----------------------------------------------------------------------------
(***************************************************************************)
(* FrameRelay, for any number of attempts and reloads: a frame that stops  *)
(* was heard, or its note is on record, or was refused after every         *)
(* attempt, and the page is told twice only where an answer was lost.      *)
(***************************************************************************)
(* How often the page was told beyond the answers that were lost: once     *)
(* while the worker's answer is on its way, and once it was heard.         *)
ToldAndKnown ==
    told = answersLost +
        (IF (reporting = "answering" /\ carried) \/ (reporting = "over" /\ believed = "told") THEN 1 ELSE 0)

(* A report in the worker's hands has told nobody yet; a frame that gives  *)
(* up has made every attempt; and only one that is over believes anything. *)
RelayInv ==
    /\ FrameRelayTypeOK /\ ToldAndKnown /\ HeardOrSaidSo
    /\ told <= attempt
    /\ reporting = "asking" => told < attempt
    /\ reporting = "giving-up" => attempt = Attempts
    /\ reporting # "over" <=> believed = "unknown"

LEMMA RelayInvInit == FrameRelayInit => RelayInv
<1> SUFFICES ASSUME FrameRelayInit PROVE RelayInv
  OBVIOUS
<1>1. Attempts \in Nat /\ MaxReloads \in Nat /\ 0 \in 0 .. Attempts /\ 0 \in 0 .. MaxReloads
  BY FrameRelayAssumption
<1>2. FrameRelayTypeOK
  BY <1>1 DEF FrameRelayInit, FrameRelayTypeOK
<1>3. ToldAndKnown /\ HeardOrSaidSo
  BY DEF FrameRelayInit, ToldAndKnown, HeardOrSaidSo, Mute
<1>4. QED
  BY <1>2, <1>3 DEF FrameRelayInit, RelayInv

LEMMA ReportKeeps == ASSUME RelayInv, Report PROVE RelayInv'
BY FrameRelayAssumption DEF Report, RelayInv, FrameRelayTypeOK, ToldAndKnown, HeardOrSaidSo, Mute

LEMMA RelayKeeps == ASSUME RelayInv, Relay PROVE RelayInv'
<1>a. /\ reporting' = "answering" /\ UNCHANGED <<listening, attempt, gaveUp, believed, reloads, answersLost>>
      /\ \/ listening /\ told' = told + 1 /\ carried' = TRUE
         \/ told' = told /\ carried' = FALSE
  BY DEF Relay, RelayInv, FrameRelayTypeOK
<1>1. reporting' = "answering" /\ carried' \in BOOLEAN /\ told' = told + (IF carried' THEN 1 ELSE 0)
  <2>1. told \in Nat
    BY FrameRelayAssumption DEF RelayInv, FrameRelayTypeOK
  <2>2. CASE carried' = TRUE /\ told' = told + 1
    BY <1>a, <2>2
  <2>3. CASE carried' = FALSE /\ told' = told
    <3>1. told' = told + 0
      BY <2>1, <2>3
    <3>2. QED
      BY <1>a, <2>3, <3>1
  <2>4. QED
    BY <1>a, <2>2, <2>3
<1>2. told' \in 0 .. Attempts /\ told' <= attempt
  BY <1>1, FrameRelayAssumption DEF Relay, RelayInv, FrameRelayTypeOK
<1>3. ToldAndKnown'
  BY <1>1 DEF Relay, RelayInv, FrameRelayTypeOK, ToldAndKnown
<1>4. QED
  BY <1>1, <1>2, <1>3 DEF Relay, RelayInv, FrameRelayTypeOK, HeardOrSaidSo, Mute

LEMMA AnswerKeeps == ASSUME RelayInv, Answer PROVE RelayInv'
<1>1. PICK heard \in BOOLEAN :
        /\ answersLost' = IF carried /\ ~ heard THEN answersLost + 1 ELSE answersLost
        /\ IF heard /\ carried
             THEN reporting' = "over" /\ believed' = "told"
             ELSE reporting' = AfterFailure /\ UNCHANGED believed
  BY DEF Answer, Delivered
<1>2. /\ reporting = "answering" /\ believed = "unknown" /\ told = answersLost + (IF carried THEN 1 ELSE 0)
      /\ UNCHANGED <<listening, attempt, carried, told, gaveUp, reloads>> /\ told \in 0 .. Attempts
      /\ answersLost \in 0 .. Attempts
  BY DEF Answer, RelayInv, ToldAndKnown, FrameRelayTypeOK
<1>3. CASE heard /\ carried
  BY <1>1, <1>2, <1>3 DEF RelayInv, FrameRelayTypeOK, ToldAndKnown, HeardOrSaidSo, Mute
<1>4. CASE ~ (heard /\ carried)
  <2>1. told' = answersLost' /\ believed' = "unknown" /\ reporting' = AfterFailure
    BY <1>1, <1>2, <1>4
  <2>2. reporting' \in {"waiting", "giving-up"} /\ (reporting' = "giving-up" => attempt = Attempts)
    BY <2>1, FrameRelayAssumption DEF AfterFailure, RelayInv, FrameRelayTypeOK
  <2>3. answersLost' \in 0 .. Attempts
    BY <1>2, <2>1
  <2>4. FrameRelayTypeOK'
    BY <1>2, <2>1, <2>2, <2>3 DEF RelayInv, FrameRelayTypeOK
  <2>5. reporting' # "answering" /\ reporting' # "over"
    BY <2>2
  <2>6. told' = answersLost' + 0
    BY <2>1, <2>3, <1>2
  <2>7. ToldAndKnown'
    BY <2>5, <2>6, Zenon DEF ToldAndKnown
  <2>8. HeardOrSaidSo'
    BY <2>5 DEF HeardOrSaidSo, Mute
  <2>9. QED
    BY <1>2, <2>1, <2>2, <2>4, <2>7, <2>8 DEF RelayInv
<1>5. QED
  BY <1>3, <1>4

LEMMA RelayInvStep == RelayInv /\ [FrameRelayNext]_frameVars => RelayInv'
<1> SUFFICES ASSUME RelayInv, [FrameRelayNext]_frameVars PROVE RelayInv'
  OBVIOUS
<1>1. CASE ParentStarts \/ ParentReloads
  <2>1. /\ listening' \in BOOLEAN
        /\ UNCHANGED <<reporting, attempt, carried, told, gaveUp, believed, answersLost>>
    BY <1>1 DEF ParentStarts, ParentReloads
  <2>2. reloads' \in 0 .. MaxReloads
    BY <1>1, FrameRelayAssumption DEF ParentStarts, ParentReloads, RelayInv, FrameRelayTypeOK
  <2>3. FrameRelayTypeOK'
    BY <2>1, <2>2 DEF RelayInv, FrameRelayTypeOK
  <2>4. ToldAndKnown' /\ HeardOrSaidSo'
    BY <2>1 DEF RelayInv, ToldAndKnown, HeardOrSaidSo, Mute
  <2>5. QED
    BY <2>1, <2>3, <2>4 DEF RelayInv
<1>2. CASE GiveUp
  BY <1>2 DEF GiveUp, RelayInv, FrameRelayTypeOK, ToldAndKnown, HeardOrSaidSo, Mute
<1>3. CASE UNCHANGED frameVars
  BY <1>3 DEF frameVars, RelayInv, FrameRelayTypeOK, ToldAndKnown, HeardOrSaidSo, Mute
<1>4. QED
  BY <1>1, <1>2, <1>3, ReportKeeps, RelayKeeps, AnswerKeeps DEF FrameRelayNext

(* A frame that stops was heard by the page, or has noted that it was not, *)
(* or had that note refused after every attempt; and the page is told      *)
(* twice only when an answer was lost: reportToEmbeddingPage of            *)
(* content/report-frame.ts and relayFrameFinding of background/index.ts,   *)
(* for any number of attempts and reloads.                                 *)
THEOREM ReportsAlwaysHeard == FrameRelaySpec => []ReportsAreHeard
<1>1. RelayInv => ReportsAreHeard
  BY DEF RelayInv, ReportsAreHeard, ToldOncePerAnswer, ToldAndKnown, FrameRelayTypeOK
<1>2. FrameRelaySpec => []RelayInv
  BY RelayInvInit, RelayInvStep, PTL DEF FrameRelaySpec
<1>3. QED
  BY <1>1, <1>2, PTL

-----------------------------------------------------------------------------
(***************************************************************************)
(* PageWatch, for any requests, methods, hosts and calls: what a watched   *)
(* page sends is on its way or on record, but for the losses that are      *)
(* named, and no row names a call nobody made.                             *)
(***************************************************************************)
CallRecord == [method : Methods \cup {"PUT"}, host : RequestHosts \cup {Forged}, number : 0 .. MaxRequests]
WindowMessage == [kind : {"arm", "disarm", "report"}, call : CallRecord]
OpenedRecord == [method : Methods, host : RequestHosts]

(* A handler has read a finding that was unresolved; and a row stands      *)
(* under the instant it was written in.                                    *)
WatchTyped ==
    /\ watching \in BOOLEAN /\ unresolved \in BOOLEAN
    /\ calls \in 0 .. MaxRequests /\ instant \in 0 .. MaxInstant
    /\ seen \in [Xhrs -> OpenedRecord] /\ lastOpen \in [Xhrs -> OpenedRecord]
    /\ posted \in Seq(WindowMessage)
    /\ made \subseteq CallRecord /\ named \subseteq CallRecord /\ dropped \subseteq CallRecord
    /\ \A handling \in handlings : handling.call \in CallRecord /\ handling = [call |-> handling.call, read |-> TRUE]
RowsTyped ==
    /\ DOMAIN requestRows \subseteq (RequestHosts \cup {Forged}) \X (0 .. MaxInstant)
    /\ \A id \in DOMAIN requestRows : requestRows[id][1] \in CallRecord /\ requestRows[id][2] = id[2]

OnTheWay == {posted[i].call : i \in 1 .. Len(posted)}
Handled == {handling.call : handling \in handlings}

(* What the page called is numbered as it was called, what it only posted  *)
(* has no number: each call of the first kind is in one place at a time,   *)
(* and nowhere unless it was made, or named and not made.                  *)
FromThePage(call) == call.number # 0
CallsAreMade ==
    /\ \A call \in made \cup named : call.number \in 1 .. calls
    /\ \A call \in OnTheWay \cup Handled \cup Recorded \cup dropped : FromThePage(call) => call \in made \cup named
    /\ \A call \in Handled \cup Recorded \cup dropped : ~ FromThePage(call) => call.host = Forged
MessagesAreOnce ==
    /\ \A i \in 1 .. Len(posted) :
        /\ FromThePage(posted[i].call) => posted[i].kind = "report"
        /\ posted[i].kind = "report" /\ ~ FromThePage(posted[i].call) => posted[i].call.host = Forged
        /\ \A j \in 1 .. Len(posted) : FromThePage(posted[i].call) /\ posted[i].call = posted[j].call => i = j
CallsAreOnce ==
    /\ \A call \in OnTheWay : FromThePage(call) => call \notin Handled \cup Recorded \cup dropped
    /\ \A call \in dropped : FromThePage(call) => call \notin Handled \cup Recorded
NoneIsLost ==
    made \subseteq OnTheWay \cup Handled \cup Recorded \cup dropped \cup unsent \cup undelivered \cup failed
OpensAgree == \A x \in Xhrs \ misopened : seen[x] = lastOpen[x]

WatchInv ==
    /\ WatchTyped /\ RowsTyped
    /\ CallsAreMade /\ MessagesAreOnce /\ CallsAreOnce /\ NoneIsLost /\ OpensAgree

LEMMA CallIsRecord ==
    ASSUME NEW method \in Methods \cup {"PUT"}, NEW host \in RequestHosts \cup {Forged},
           NEW number \in 0 .. MaxRequests
    PROVE  /\ Call(method, host, number) \in CallRecord /\ Call(method, host, number).number = number
           /\ Call(method, host, number).host = host /\ Call(method, host, number).method = method
BY DEF Call, CallRecord

LEMMA WatchInvInit == PageWatchInit => WatchInv
<1> SUFFICES ASSUME PageWatchInit PROVE WatchInv
  OBVIOUS
<1>1. NeverOpened \in OpenedRecord
  BY PageWatchAssumption DEF NeverOpened, OpenedRecord
<1>2. WatchTyped
  <2>1. seen = [x \in Xhrs |-> NeverOpened] /\ seen \in [Xhrs -> OpenedRecord] /\ lastOpen = seen /\ named = {}
    BY <1>1 DEF PageWatchInit
  <2>2. calls \in 0 .. MaxRequests /\ instant \in 0 .. MaxInstant
    BY PageWatchAssumption DEF PageWatchInit
  <2>3. posted \in Seq(WindowMessage)
    BY DEF PageWatchInit
  <2>4. QED
    BY <2>1, <2>2, <2>3 DEF PageWatchInit, WatchTyped
<1>3. posted = <<>> /\ handlings = {} /\ made = {} /\ named = {} /\ dropped = {} /\ DOMAIN requestRows = {}
  BY DEF PageWatchInit
<1>4. OnTheWay = {} /\ Handled = {} /\ Recorded = {}
  BY <1>3 DEF OnTheWay, Handled, Recorded
<1>5. RowsTyped
  BY <1>3 DEF RowsTyped
<1>6. CallsAreMade /\ CallsAreOnce /\ NoneIsLost
  BY <1>3, <1>4 DEF CallsAreMade, CallsAreOnce, NoneIsLost
<1>7. MessagesAreOnce
  BY <1>3 DEF MessagesAreOnce
<1>8. OpensAgree
  BY DEF PageWatchInit, OpensAgree
<1>9. QED
  BY <1>2, <1>5, <1>6, <1>7, <1>8 DEF WatchInv

-----------------------------------------------------------------------------
(* What one more message does to the channel.                              *)
LEMMA PostFacts ==
    ASSUME posted \in Seq(WindowMessage), NEW message \in WindowMessage, posted' = Append(posted, message)
    PROVE  /\ posted' \in Seq(WindowMessage) /\ Len(posted') = Len(posted) + 1 /\ Len(posted) \in Nat
           /\ \A i \in 1 .. Len(posted) : posted'[i] = posted[i]
           /\ posted'[Len(posted) + 1] = message
           /\ OnTheWay' = OnTheWay \cup {message.call}
<1>1. /\ posted' \in Seq(WindowMessage) /\ Len(posted') = Len(posted) + 1 /\ Len(posted) \in Nat
      /\ \A i \in 1 .. Len(posted) : posted'[i] = posted[i]
      /\ posted'[Len(posted) + 1] = message
  OBVIOUS
<1>2. \A call : call \in OnTheWay' <=> call \in OnTheWay \/ call = message.call
  <2>1. ASSUME NEW i \in 1 .. Len(posted') PROVE posted'[i].call \in OnTheWay \cup {message.call}
    <3>1. i \in 1 .. Len(posted) \/ i = Len(posted) + 1
      BY <1>1
    <3>2. QED
      BY <1>1, <3>1 DEF OnTheWay
  <2>2. ASSUME NEW i \in 1 .. Len(posted) PROVE posted[i].call \in OnTheWay'
    <3>1. i \in 1 .. Len(posted') /\ posted'[i] = posted[i]
      BY <1>1
    <3>2. QED
      BY <3>1 DEF OnTheWay
  <2>3. message.call \in OnTheWay'
    <3>1. Len(posted) + 1 \in 1 .. Len(posted')
      BY <1>1
    <3>2. QED
      BY <1>1, <3>1 DEF OnTheWay
  <2>4. QED
    BY <2>1, <2>2, <2>3 DEF OnTheWay
<1>3. QED
  BY <1>1, <1>2

(* Where nothing moves but the clock, the xhrs and who is listening.       *)
LEMMA CallsStand ==
    ASSUME WatchInv, UNCHANGED <<posted, made, named, unsent, workerSide>>,
           calls' \in Nat, calls' >= calls
    PROVE  CallsAreMade' /\ MessagesAreOnce' /\ CallsAreOnce' /\ NoneIsLost' /\ RowsTyped'
<1>a. UNCHANGED <<handlings, requestRows, undelivered, dropped, failed>>
  BY DEF workerSide
<1>1. OnTheWay' = OnTheWay /\ Handled' = Handled /\ Recorded' = Recorded
  BY <1>a DEF OnTheWay, Handled, Recorded
<1>2. calls \in Nat /\ \A call \in made \cup named : call.number \in 1 .. calls'
  BY DEF WatchInv, WatchTyped, CallsAreMade
<1>3. CallsAreMade'
  BY <1>a, <1>1, <1>2 DEF WatchInv, CallsAreMade
<1>4. MessagesAreOnce'
  BY DEF WatchInv, MessagesAreOnce
<1>5. CallsAreOnce' /\ NoneIsLost'
  BY <1>a, <1>1 DEF WatchInv, CallsAreOnce, NoneIsLost
<1>6. RowsTyped'
  BY <1>a DEF WatchInv, RowsTyped
<1>7. QED
  BY <1>3, <1>4, <1>5, <1>6

(* A message about no call of the page.                                    *)
LEMMA BarePostKeeps ==
    ASSUME WatchInv, NEW message \in WindowMessage, posted' = Append(posted, message),
           message.call.number = 0, message.kind = "report" => message.call.host = Forged,
           calls' \in 0 .. MaxRequests, calls' = calls + 1, unresolved' \in BOOLEAN,
           UNCHANGED <<watching, pageSide, workerSide, instant>>
    PROVE  WatchInv'
<1>a. /\ UNCHANGED <<seen, lastOpen, misopened, made, named, unsent>>
      /\ UNCHANGED <<handlings, requestRows, undelivered, dropped, failed>>
  BY DEF pageSide, workerSide
<1>1. posted \in Seq(WindowMessage) /\ calls \in Nat
  BY DEF WatchInv, WatchTyped
<1>2. /\ posted' \in Seq(WindowMessage) /\ Len(posted') = Len(posted) + 1 /\ Len(posted) \in Nat
      /\ \A i \in 1 .. Len(posted) : posted'[i] = posted[i]
      /\ posted'[Len(posted) + 1] = message
      /\ OnTheWay' = OnTheWay \cup {message.call}
  BY <1>1, PostFacts
<1>3. WatchTyped'
  BY <1>a, <1>2 DEF WatchInv, WatchTyped
<1>4. Handled' = Handled /\ Recorded' = Recorded
  BY <1>a DEF Handled, Recorded
<1>5. \A call \in made \cup named : call.number \in 1 .. calls'
  BY <1>1 DEF WatchInv, CallsAreMade
<1>6. CallsAreMade'
  BY <1>a, <1>2, <1>4, <1>5 DEF WatchInv, CallsAreMade, FromThePage
<1>7. MessagesAreOnce'
  <2>1. \A i \in 1 .. Len(posted') : i \in 1 .. Len(posted) \/ i = Len(posted) + 1
    BY <1>2
  <2>2. \A i \in 1 .. Len(posted') : FromThePage(posted'[i].call) => i \in 1 .. Len(posted)
    BY <1>2, <2>1 DEF FromThePage
  <2>3. \A i, j \in 1 .. Len(posted') : FromThePage(posted'[i].call) /\ posted'[i].call = posted'[j].call =>
            i \in 1 .. Len(posted) /\ j \in 1 .. Len(posted)
    BY <2>2
  <2>4. QED
    BY <1>2, <2>1, <2>2, <2>3 DEF WatchInv, MessagesAreOnce, FromThePage
<1>8. CallsAreOnce' /\ NoneIsLost'
  BY <1>a, <1>2, <1>4 DEF WatchInv, CallsAreOnce, NoneIsLost, FromThePage
<1>9. RowsTyped' /\ OpensAgree'
  BY <1>a DEF WatchInv, RowsTyped, OpensAgree
<1>10. QED
  BY <1>3, <1>6, <1>7, <1>8, <1>9 DEF WatchInv

(* A call of the page, told or not, made or refused: call is what goes     *)
(* out, noted what is told.                                                *)
LEMMA CallKeeps ==
    ASSUME WatchInv, NEW call, NEW noted, NEW amiss \in BOOLEAN, calls < MaxRequests, calls' = calls + 1,
           call \in CallRecord, noted \in CallRecord, call.number = calls', noted.number = calls',
           ~ amiss => noted = call,
           Observe(call, noted, amiss),
           UNCHANGED <<watching, seen, lastOpen, misopened, unresolved, workerSide, instant>>
    PROVE  WatchInv'
<1>a. UNCHANGED <<handlings, requestRows, undelivered, dropped, failed>>
  BY DEF workerSide
<1>1. calls \in Nat /\ calls' \in Nat /\ calls' \in 0 .. MaxRequests /\ calls' # 0 /\ calls' \in 1 .. calls'
  BY PageWatchAssumption DEF WatchInv, WatchTyped
<1>2. /\ made \subseteq made' /\ made' \subseteq made \cup {call}
      /\ named \subseteq named' /\ named' \subseteq named \cup {noted} /\ unsent \subseteq unsent'
      /\ \/ posted' = Append(posted, Told(noted)) /\ noted \in made' \cup named'
         \/ posted' = posted
      /\ call \in made' => call \in made \cup unsent' \/ (noted = call /\ posted' = Append(posted, Told(noted)))
  <2>1. PICK goes \in BOOLEAN, posts \in BOOLEAN :
            /\ posted' = IF Reported(noted) /\ posts THEN Append(posted, Told(noted)) ELSE posted
            /\ made' = IF Reported(call) /\ goes THEN made \cup {call} ELSE made
            /\ named' = IF Reported(noted) /\ posts /\ (amiss \/ ~ goes) THEN named \cup {noted} ELSE named
            /\ unsent' = IF Reported(call) /\ goes /\ (amiss \/ ~ posts) THEN unsent \cup {call} ELSE unsent
    BY DEF Observe
  <2>2. /\ made \subseteq made' /\ made' \subseteq made \cup {call}
        /\ named \subseteq named' /\ named' \subseteq named \cup {noted} /\ unsent \subseteq unsent'
    BY <2>1
  <2>3. \/ posted' = Append(posted, Told(noted)) /\ noted \in made' \cup named'
        \/ posted' = posted
    <3>1. CASE Reported(noted) /\ posts
      <4>1. posted' = Append(posted, Told(noted))
        BY <2>1, <3>1
      <4>2. CASE amiss \/ ~ goes
        BY <2>1, <3>1, <4>1, <4>2
      <4>3. CASE ~ amiss /\ goes
        BY <2>1, <3>1, <4>1, <4>3
      <4>4. QED
        BY <4>2, <4>3
    <3>2. CASE ~ (Reported(noted) /\ posts)
      BY <2>1, <3>2
    <3>3. QED
      BY <3>1, <3>2
  <2>4. call \in made' => call \in made \cup unsent' \/ (noted = call /\ posted' = Append(posted, Told(noted)))
    <3>1. CASE Reported(call) /\ goes
      <4>1. CASE amiss \/ ~ posts
        BY <2>1, <3>1, <4>1
      <4>2. CASE ~ amiss /\ posts
        BY <2>1, <3>1, <4>2
      <4>3. QED
        BY <4>1, <4>2
    <3>2. CASE ~ (Reported(call) /\ goes)
      BY <2>1, <3>2
    <3>3. QED
      BY <3>1, <3>2
  <2>5. QED
    BY <2>2, <2>3, <2>4
<1>3. Handled' = Handled /\ Recorded' = Recorded
  BY <1>a DEF Handled, Recorded
<1>4. \A c \in made \cup named : c.number \in 1 .. calls /\ c.number \in 1 .. calls' /\ c.number # calls'
  BY <1>1 DEF WatchInv, CallsAreMade
<1>5. \A c \in made' \cup named' : c.number \in 1 .. calls'
  BY <1>1, <1>2, <1>4
<1>6. FromThePage(noted) /\ noted \notin OnTheWay \cup Handled \cup Recorded \cup dropped
  <2>1. FromThePage(noted) /\ noted \notin made \cup named
    BY <1>1, <1>4 DEF FromThePage
  <2>2. QED
    BY <2>1 DEF WatchInv, CallsAreMade
<1>7. made' \subseteq CallRecord /\ named' \subseteq CallRecord
  BY <1>2 DEF WatchInv, WatchTyped
<1>8. RowsTyped' /\ OpensAgree'
  BY <1>a DEF WatchInv, RowsTyped, OpensAgree
<1>9. CASE posted' = posted
  <2>1. OnTheWay' = OnTheWay
    BY <1>9 DEF OnTheWay
  <2>2. WatchTyped'
    BY <1>a, <1>1, <1>7, <1>9 DEF WatchInv, WatchTyped
  <2>3. CallsAreMade'
    BY <1>a, <1>2, <1>3, <1>5, <2>1 DEF WatchInv, CallsAreMade
  <2>4. MessagesAreOnce' /\ CallsAreOnce'
    BY <1>a, <1>3, <1>9, <2>1 DEF WatchInv, MessagesAreOnce, CallsAreOnce
  <2>5. call \in made' => call \in made \cup unsent'
    <3>1. posted \in Seq(WindowMessage)
      BY DEF WatchInv, WatchTyped
    <3>2. posted # Append(posted, Told(noted))
      <4>1. Told(noted) \in WindowMessage
        BY DEF Told, WindowMessage
      <4>2. Len(Append(posted, Told(noted))) = Len(posted) + 1 /\ Len(posted) \in Nat
        BY <3>1, <4>1
      <4>3. QED
        BY <4>2
    <3>3. QED
      BY <1>2, <1>9, <3>2
  <2>6. NoneIsLost'
    BY <1>a, <1>2, <1>3, <2>1, <2>5 DEF WatchInv, NoneIsLost
  <2>7. QED
    BY <1>8, <2>2, <2>3, <2>4, <2>6 DEF WatchInv
<1>10. CASE posted' = Append(posted, Told(noted)) /\ noted \in made' \cup named'
  <2>1. Told(noted) \in WindowMessage /\ Told(noted).call = noted /\ Told(noted).kind = "report"
    BY DEF Told, WindowMessage
  <2>2. posted \in Seq(WindowMessage)
    BY DEF WatchInv, WatchTyped
  <2>3. /\ posted' \in Seq(WindowMessage) /\ Len(posted') = Len(posted) + 1 /\ Len(posted) \in Nat
        /\ \A i \in 1 .. Len(posted) : posted'[i] = posted[i]
        /\ posted'[Len(posted) + 1] = Told(noted)
        /\ OnTheWay' = OnTheWay \cup {noted}
    BY <1>10, <2>1, <2>2, PostFacts
  <2>4. WatchTyped'
    BY <1>a, <1>1, <1>7, <2>3 DEF WatchInv, WatchTyped
  <2>5. CallsAreMade'
    BY <1>a, <1>2, <1>3, <1>5, <1>10, <2>3 DEF WatchInv, CallsAreMade
  <2>6. MessagesAreOnce'
    <3>1. \A i \in 1 .. Len(posted') : i \in 1 .. Len(posted) \/ i = Len(posted) + 1
      BY <2>3
    <3>2. \A i \in 1 .. Len(posted) : posted'[i].call # noted
      BY <1>6, <2>3 DEF OnTheWay
    <3>3. \A i, j \in 1 .. Len(posted') : posted'[i].call = posted'[j].call =>
              (i \in 1 .. Len(posted) <=> j \in 1 .. Len(posted))
      BY <2>1, <2>3, <3>1, <3>2
    <3>4. QED
      BY <1>6, <2>1, <2>3, <3>1, <3>3 DEF WatchInv, MessagesAreOnce
  <2>7. CallsAreOnce' /\ NoneIsLost'
    BY <1>a, <1>2, <1>3, <1>6, <2>3 DEF WatchInv, CallsAreOnce, NoneIsLost
  <2>8. QED
    BY <1>8, <2>4, <2>5, <2>6, <2>7 DEF WatchInv
<1>11. QED
  BY <1>2, <1>9, <1>10

-----------------------------------------------------------------------------
(* The head of the channel goes to the worker, or is dropped: it is no     *)
(* longer on its way.                                                      *)
LEMMA TakeKeeps == ASSUME WatchInv, Take PROVE WatchInv'
<1> DEFINE message == Head(posted)
<1>1. posted \in Seq(WindowMessage) /\ posted # <<>>
  BY DEF WatchInv, WatchTyped, Take
<1>2. /\ message \in WindowMessage /\ message = posted[1] /\ Len(posted) \in Nat /\ Len(posted) >= 1
      /\ posted' \in Seq(WindowMessage) /\ Len(posted') = Len(posted) - 1
      /\ \A i \in 1 .. Len(posted') : posted'[i] = posted[i + 1]
  BY <1>1 DEF Take
<1>a. UNCHANGED <<seen, lastOpen, misopened, made, named, unsent>>
  BY DEF Take, pageSide
<1>3. /\ watching' \in BOOLEAN
      /\ \/ message.kind # "report" /\ UNCHANGED <<handlings, dropped, undelivered>>
         \/ /\ message.kind = "report" /\ undelivered' = undelivered \cup {message.call}
            /\ UNCHANGED <<handlings, dropped>>
         \/ /\ message.kind = "report" /\ handlings' = handlings \cup {[call |-> message.call, read |-> TRUE]}
            /\ UNCHANGED <<dropped, undelivered>>
         \/ /\ message.kind = "report" /\ dropped' = dropped \cup {message.call}
            /\ UNCHANGED <<handlings, undelivered>>
      /\ UNCHANGED <<calls, unresolved, requestRows, failed, instant>>
  <2>1. watching \in BOOLEAN /\ unresolved \in BOOLEAN
    BY DEF WatchInv, WatchTyped
  <2>2. unresolved => unresolved = TRUE
    BY <2>1
  <2>3. QED
    BY <2>1, <2>2 DEF Take, Heeds, HasUnresolvedFinding
<1> HIDE DEF message
<1>4. message.call \in CallRecord /\ message.call \in OnTheWay
  <2>1. 1 \in 1 .. Len(posted)
    BY <1>2
  <2>2. QED
    BY <1>2, <2>1 DEF WindowMessage, OnTheWay
<1>5. OnTheWay \subseteq OnTheWay' \cup {message.call} /\ OnTheWay' \subseteq OnTheWay
  <2>1. ASSUME NEW i \in 1 .. Len(posted) PROVE posted[i].call \in OnTheWay' \cup {message.call}
    <3>1. CASE i = 1
      BY <1>2, <3>1
    <3>2. CASE i # 1
      <4>1. i - 1 \in 1 .. Len(posted') /\ posted'[i - 1] = posted[(i - 1) + 1] /\ (i - 1) + 1 = i
        BY <1>2, <3>2
      <4>2. QED
        BY <4>1 DEF OnTheWay
    <3>3. QED
      BY <3>1, <3>2
  <2>2. ASSUME NEW i \in 1 .. Len(posted') PROVE posted'[i].call \in OnTheWay
    <3>1. i + 1 \in 1 .. Len(posted) /\ posted'[i] = posted[i + 1]
      BY <1>2
    <3>2. QED
      BY <3>1 DEF OnTheWay
  <2>3. QED
    BY <2>1, <2>2 DEF OnTheWay
<1>6. FromThePage(message.call) => message.call \notin OnTheWay'
  <2>1. ASSUME NEW i \in 1 .. Len(posted'), posted'[i].call = message.call, FromThePage(message.call) PROVE FALSE
    <3>1. i + 1 \in 1 .. Len(posted) /\ 1 \in 1 .. Len(posted) /\ posted[i + 1].call = posted[1].call /\ i + 1 # 1
      BY <1>2, <2>1
    <3>2. QED
      BY <1>2, <2>1, <3>1 DEF WatchInv, MessagesAreOnce
  <2>2. QED
    BY <2>1 DEF OnTheWay
<1>7. /\ FromThePage(message.call) => message.kind = "report" /\ message.call \in made \cup named
      /\ message.kind = "report" /\ ~ FromThePage(message.call) => message.call.host = Forged
      /\ FromThePage(message.call) => message.call \notin Handled \cup Recorded \cup dropped
  <2>1. 1 \in 1 .. Len(posted)
    BY <1>2
  <2>2. /\ FromThePage(message.call) => message.kind = "report"
        /\ message.kind = "report" /\ ~ FromThePage(message.call) => message.call.host = Forged
    BY <1>2, <2>1 DEF WatchInv, MessagesAreOnce
  <2>3. QED
    BY <1>4, <2>2 DEF WatchInv, CallsAreMade, CallsAreOnce
<1>8. Recorded' = Recorded
  BY <1>3 DEF Recorded
<1>9. /\ undelivered \subseteq undelivered'
      /\ \/ Handled' = Handled /\ dropped' = dropped /\ message.kind # "report"
         \/ Handled' = Handled /\ dropped' = dropped /\ message.call \in undelivered'
         \/ Handled' = Handled \cup {message.call} /\ dropped' = dropped /\ message.kind = "report"
         \/ Handled' = Handled /\ dropped' = dropped \cup {message.call} /\ message.kind = "report"
  <2>1. handlings' = handlings => Handled' = Handled
    BY DEF Handled
  <2> DEFINE one == [call |-> message.call, read |-> TRUE]
  <2>a. one.call = message.call
    OBVIOUS
  <2> HIDE DEF one
  <2>b. handlings' = handlings \cup {one} => Handled' = Handled \cup {message.call}
    BY <2>a DEF Handled
  <2>2. handlings' = handlings \cup {[call |-> message.call, read |-> TRUE]} => Handled' = Handled \cup {message.call}
    BY <2>b DEF one
  <2>3. QED
    BY <1>3, <2>1, <2>2
<1>10. WatchTyped'
  <2>1. \A handling \in handlings' : handling.call \in CallRecord /\ handling = [call |-> handling.call, read |-> TRUE]
    <3>1. \A handling \in handlings : handling.call \in CallRecord /\ handling = [call |-> handling.call, read |-> TRUE]
      BY DEF WatchInv, WatchTyped
    <3>2. handlings' = handlings \/ handlings' = handlings \cup {[call |-> message.call, read |-> TRUE]}
      BY <1>3
    <3>3. QED
      BY <1>4, <3>1, <3>2
  <2>2. dropped' \subseteq CallRecord
    BY <1>3, <1>4 DEF WatchInv, WatchTyped
  <2>3. QED
    BY <1>a, <1>2, <1>3, <2>1, <2>2 DEF WatchInv, WatchTyped
<1>11. RowsTyped' /\ OpensAgree'
  BY <1>a, <1>3 DEF WatchInv, RowsTyped, OpensAgree
<1>12. CallsAreMade'
  BY <1>a, <1>3, <1>5, <1>7, <1>8, <1>9 DEF WatchInv, CallsAreMade
<1>13. MessagesAreOnce'
  <2>1. \A i \in 1 .. Len(posted') : i + 1 \in 1 .. Len(posted) /\ posted'[i] = posted[i + 1]
    BY <1>2
  <2>2. \A i, j \in 1 .. Len(posted') : i + 1 = j + 1 => i = j
    BY <1>2
  <2>3. \A i, j \in 1 .. Len(posted') :
            FromThePage(posted'[i].call) /\ posted'[i].call = posted'[j].call => i = j
    <3>1. SUFFICES ASSUME NEW i \in 1 .. Len(posted'), NEW j \in 1 .. Len(posted'),
                          FromThePage(posted'[i].call), posted'[i].call = posted'[j].call
                   PROVE  i = j
      OBVIOUS
    <3>2. i + 1 = j + 1
      BY <2>1, <3>1 DEF WatchInv, MessagesAreOnce
    <3>3. QED
      BY <2>2, <3>2
  <2>4. \A i \in 1 .. Len(posted') :
            /\ FromThePage(posted'[i].call) => posted'[i].kind = "report"
            /\ posted'[i].kind = "report" /\ ~ FromThePage(posted'[i].call) => posted'[i].call.host = Forged
    BY <2>1 DEF WatchInv, MessagesAreOnce
  <2>5. QED
    BY <2>3, <2>4 DEF MessagesAreOnce
<1>14. CallsAreOnce'
  BY <1>5, <1>6, <1>7, <1>8, <1>9 DEF WatchInv, CallsAreOnce
<1>15. NoneIsLost'
  <2>1. \A call \in made : call = message.call => call \in Handled' \cup dropped' \cup undelivered'
    <3>1. message.call \in made => FromThePage(message.call)
      BY DEF WatchInv, CallsAreMade, FromThePage
    <3>2. QED
      BY <1>7, <1>9, <3>1
  <2>2. QED
    BY <1>a, <1>3, <1>5, <1>8, <1>9, <2>1 DEF WatchInv, NoneIsLost
<1>16. QED
  BY <1>10, <1>11, <1>12, <1>13, <1>14, <1>15 DEF WatchInv

(* A row replaces one of its host and millisecond, or is not written; the  *)
(* call it is about, and the one it replaced, are accounted for.           *)
LEMMA WriteFacts ==
    ASSUME WatchInv, NEW handling \in handlings, Write(handling)
    PROVE  /\ RowsTyped' /\ Recorded' \subseteq Recorded \cup {handling.call}
           /\ Recorded \cup {handling.call} \subseteq Recorded' \cup failed' /\ failed \subseteq failed'
<1> DEFINE id0 == RowId(handling.call)
<1>1. handling.call \in CallRecord /\ instant \in 0 .. MaxInstant
  BY DEF WatchInv, WatchTyped
<1>2. id0 \in (RequestHosts \cup {Forged}) \X (0 .. MaxInstant) /\ id0[2] = instant
  BY <1>1 DEF RowId, CallRecord
<1>3. \/ /\ requestRows' = [id \in DOMAIN requestRows \cup {id0} |->
                  IF id = id0 THEN <<handling.call, instant>> ELSE requestRows[id]]
         /\ failed' = failed \cup {requestRows[id][1] : id \in {i \in DOMAIN requestRows :
                  i = id0 /\ requestRows[i][2] = instant}}
      \/ requestRows' = requestRows /\ failed' = failed \cup {handling.call}
  BY DEF Write
<1> HIDE DEF id0
<1>4. CASE requestRows' = requestRows /\ failed' = failed \cup {handling.call}
  <2>1. Recorded' = Recorded
    BY <1>4 DEF Recorded
  <2>2. RowsTyped'
    BY <1>4 DEF WatchInv, RowsTyped
  <2>3. QED
    BY <1>4, <2>1, <2>2
<1>5. CASE /\ requestRows' = [id \in DOMAIN requestRows \cup {id0} |->
                  IF id = id0 THEN <<handling.call, instant>> ELSE requestRows[id]]
           /\ failed' = failed \cup {requestRows[id][1] : id \in {i \in DOMAIN requestRows :
                  i = id0 /\ requestRows[i][2] = instant}}
  <2>1. /\ DOMAIN requestRows' = DOMAIN requestRows \cup {id0}
        /\ requestRows'[id0] = <<handling.call, instant>>
        /\ \A id \in DOMAIN requestRows : id # id0 => requestRows'[id] = requestRows[id]
    BY <1>5
  <2>2. requestRows'[id0][1] = handling.call /\ requestRows'[id0][2] = instant
    BY <2>1
  <2>3. RowsTyped'
    <3>1. ASSUME NEW id \in DOMAIN requestRows' PROVE requestRows'[id][1] \in CallRecord /\ requestRows'[id][2] = id[2]
      BY <1>1, <1>2, <2>1, <2>2 DEF WatchInv, RowsTyped
    <3>2. DOMAIN requestRows' \subseteq (RequestHosts \cup {Forged}) \X (0 .. MaxInstant)
      BY <1>2, <2>1 DEF WatchInv, RowsTyped
    <3>3. QED
      BY <3>1, <3>2 DEF RowsTyped
  <2>4. Recorded' \subseteq Recorded \cup {handling.call}
    BY <2>1, <2>2 DEF Recorded
  <2>5. ASSUME NEW id \in DOMAIN requestRows PROVE requestRows[id][1] \in Recorded' \cup failed'
    <3>1. CASE id = id0
      <4>1. requestRows[id][2] = instant
        BY <1>2, <3>1 DEF WatchInv, RowsTyped
      <4>2. QED
        BY <1>5, <3>1, <4>1
    <3>2. CASE id # id0
      BY <2>1, <3>2 DEF Recorded
    <3>3. QED
      BY <3>1, <3>2
  <2>6. handling.call \in Recorded'
    BY <2>1, <2>2 DEF Recorded
  <2>7. Recorded \subseteq Recorded' \cup failed'
    BY <2>5 DEF Recorded
  <2>8. failed \subseteq failed'
    BY <1>5
  <2>9. QED
    BY <2>3, <2>4, <2>6, <2>7, <2>8
<1>6. QED
  BY <1>3, <1>4, <1>5

LEMMA WriteKeeps == ASSUME WatchInv, NEW handling \in handlings, Write(handling) PROVE WatchInv'
<1>1. /\ handlings' = handlings \ {handling}
      /\ UNCHANGED <<watching, posted, calls, unresolved, undelivered, dropped, instant>>
      /\ UNCHANGED <<seen, lastOpen, misopened, made, named, unsent>>
  BY DEF Write, pageSide
<1>2. /\ RowsTyped' /\ Recorded' \subseteq Recorded \cup {handling.call}
      /\ Recorded \cup {handling.call} \subseteq Recorded' \cup failed' /\ failed \subseteq failed'
  BY WriteFacts
<1>3. WatchTyped'
  BY <1>1 DEF WatchInv, WatchTyped
<1>4. OnTheWay' = OnTheWay
  BY <1>1 DEF OnTheWay
<1>5. Handled' \subseteq Handled /\ Handled \subseteq Handled' \cup {handling.call} /\ handling.call \in Handled
  BY <1>1 DEF Handled
<1>6. CallsAreMade'
  BY <1>1, <1>2, <1>4, <1>5 DEF WatchInv, CallsAreMade
<1>7. MessagesAreOnce'
  BY <1>1 DEF WatchInv, MessagesAreOnce
<1>8. CallsAreOnce'
  BY <1>1, <1>2, <1>4, <1>5 DEF WatchInv, CallsAreOnce
<1>9. NoneIsLost'
  BY <1>1, <1>2, <1>4, <1>5 DEF WatchInv, NoneIsLost
<1>10. OpensAgree'
  BY <1>1 DEF WatchInv, OpensAgree
<1>11. QED
  BY <1>2, <1>3, <1>6, <1>7, <1>8, <1>9, <1>10 DEF WatchInv

-----------------------------------------------------------------------------
LEMMA XhrKeeps ==
    ASSUME WatchInv, NEW x \in Xhrs,
           XhrSend(x) \/ \E method \in Methods, host \in RequestHosts : XhrOpen(x, method, host)
    PROVE  WatchInv'
<1>1. CASE XhrSend(x)
  <2>1. /\ seen[x] \in OpenedRecord /\ lastOpen[x] \in OpenedRecord
        /\ x \notin misopened => seen[x] = lastOpen[x]
    BY DEF WatchInv, WatchTyped, OpensAgree
  <2>2. /\ seen[x].method \in Methods /\ seen[x].host \in RequestHosts
        /\ lastOpen[x].method \in Methods /\ lastOpen[x].host \in RequestHosts
    BY <2>1 DEF OpenedRecord
  <2> DEFINE call == Call(lastOpen[x].method, lastOpen[x].host, calls')
             noted == Call(seen[x].method, seen[x].host, calls')
             amiss == x \in misopened
  <2>3. /\ calls < MaxRequests /\ calls' = calls + 1 /\ Observe(call, noted, amiss)
        /\ UNCHANGED <<watching, seen, lastOpen, misopened, unresolved, workerSide, instant>>
    BY <1>1 DEF XhrSend
  <2>4. calls' \in 0 .. MaxRequests
    BY <2>3, PageWatchAssumption DEF WatchInv, WatchTyped
  <2>5. call \in CallRecord /\ noted \in CallRecord /\ call.number = calls' /\ noted.number = calls'
    BY <2>2, <2>4, CallIsRecord
  <2>6. amiss \in BOOLEAN /\ (~ amiss => noted = call)
    BY <2>1
  <2> HIDE DEF call, noted, amiss
  <2>7. QED
    BY <2>3, <2>5, <2>6, CallKeeps
<1>2. ASSUME NEW method \in Methods, NEW host \in RequestHosts, XhrOpen(x, method, host) PROVE WatchInv'
  <2> DEFINE opened == [method |-> method, host |-> host]
  <2>1. opened \in OpenedRecord
    BY DEF OpenedRecord
  <2>2. /\ seen' = [seen EXCEPT ![x] = opened]
        /\ \/ lastOpen' = [lastOpen EXCEPT ![x] = opened] /\ misopened' = misopened \ {x}
           \/ lastOpen' = lastOpen /\ misopened' = misopened \cup {x}
        /\ UNCHANGED <<watching, posted, calls, made, named, unsent, unresolved, workerSide, instant>>
    BY <1>2 DEF XhrOpen, Opened
  <2> HIDE DEF opened
  <2>3. seen \in [Xhrs -> OpenedRecord] /\ lastOpen \in [Xhrs -> OpenedRecord] /\ OpensAgree
    BY DEF WatchInv, WatchTyped
  <2>4. seen' \in [Xhrs -> OpenedRecord] /\ lastOpen' \in [Xhrs -> OpenedRecord]
    BY <2>1, <2>2, <2>3
  <2>5. OpensAgree'
    BY <2>2, <2>3 DEF OpensAgree
  <2>6. WatchTyped'
    BY <2>2, <2>4 DEF WatchInv, WatchTyped, workerSide
  <2>7. calls' \in Nat /\ calls' >= calls
    BY <2>2 DEF WatchInv, WatchTyped
  <2>8. QED
    BY <2>2, <2>5, <2>6, <2>7, CallsStand DEF WatchInv
<1>3. QED
  BY <1>1, <1>2

LEMMA WatchInvStep == WatchInv /\ [PageWatchNext]_watchVars => WatchInv'
<1> SUFFICES ASSUME WatchInv, [PageWatchNext]_watchVars PROVE WatchInv'
  OBVIOUS
<1>1. calls \in 0 .. MaxRequests /\ MaxRequests \in Nat
  BY PageWatchAssumption DEF WatchInv, WatchTyped
<1>2. ASSUME NEW method \in Methods, NEW host \in RequestHosts, Fetch(method, host) PROVE WatchInv'
  <2> DEFINE call == Call(method, host, calls')
  <2>1. /\ calls < MaxRequests /\ calls' = calls + 1 /\ Observe(call, call, FALSE)
        /\ UNCHANGED <<watching, seen, lastOpen, misopened, unresolved, workerSide, instant>>
    BY <1>2 DEF Fetch
  <2>2. calls' \in 0 .. MaxRequests
    BY <1>1, <2>1
  <2>3. call \in CallRecord /\ call.number = calls'
    BY <2>2, CallIsRecord
  <2> HIDE DEF call
  <2>4. QED
    BY <2>1, <2>3, CallKeeps
<1>3. ASSUME NEW kind \in {"arm", "disarm", "report"}, Forge([kind |-> kind, call |-> Call("PUT", Forged, 0)])
      PROVE  WatchInv'
  <2> DEFINE message == [kind |-> kind, call |-> Call("PUT", Forged, 0)]
  <2>1. Call("PUT", Forged, 0) \in CallRecord /\ Call("PUT", Forged, 0).number = 0 /\ Call("PUT", Forged, 0).host = Forged
    BY <1>1, CallIsRecord
  <2>2. message \in WindowMessage /\ message.call.number = 0 /\ message.call.host = Forged
    BY <2>1 DEF WindowMessage
  <2>3. /\ calls' \in 0 .. MaxRequests /\ calls' = calls + 1 /\ posted' = Append(posted, message)
        /\ UNCHANGED <<watching, pageSide, unresolved, workerSide, instant>>
    BY <1>1, <1>3 DEF Forge
  <2>4. unresolved' \in BOOLEAN
    BY <2>3 DEF WatchInv, WatchTyped
  <2> HIDE DEF message
  <2>5. QED
    BY <2>2, <2>3, <2>4, BarePostKeeps
<1>4. CASE FindingStored
  <2>1. "GET" \in Methods \cup {"PUT"} /\ NoHost \in RequestHosts \cup {Forged} /\ 0 \in 0 .. MaxRequests
    BY <1>1, PageWatchAssumption
  <2>2. Call("GET", NoHost, 0) \in CallRecord /\ Call("GET", NoHost, 0).number = 0
    BY <2>1, CallIsRecord
  <2>3. Arm \in WindowMessage /\ Arm.kind = "arm" /\ Arm.call.number = 0
    BY <2>2 DEF Arm, WindowMessage
  <2>4. /\ calls' \in 0 .. MaxRequests /\ calls' = calls + 1 /\ unresolved' \in BOOLEAN
        /\ posted' = posted \/ posted' = Append(posted, Arm)
        /\ UNCHANGED <<watching, pageSide, workerSide, instant>>
    BY <1>1, <1>4 DEF FindingStored
  <2>5. CASE posted' = Append(posted, Arm)
    BY <2>3, <2>4, <2>5, BarePostKeeps
  <2>6. CASE posted' = posted
    <3>1. UNCHANGED <<seen, lastOpen, misopened, made, named, unsent, handlings, requestRows, undelivered, dropped, failed>>
      BY <2>4 DEF pageSide, workerSide
    <3>2. WatchTyped' /\ OpensAgree'
      BY <2>4, <2>6, <3>1 DEF WatchInv, WatchTyped, OpensAgree
    <3>3. calls' \in Nat /\ calls' >= calls
      BY <1>1, <2>4
    <3>4. QED
      BY <2>4, <2>6, <3>1, <3>2, <3>3, CallsStand DEF WatchInv
  <2>7. QED
    BY <2>4, <2>5, <2>6
<1>5. CASE FindingResolved \/ Millisecond \/ UNCHANGED watchVars
  <2>1. /\ UNCHANGED <<watching, posted, pageSide, workerSide>>
        /\ calls' = calls /\ unresolved' \in BOOLEAN
    BY <1>5 DEF FindingResolved, Millisecond, watchVars, pageSide, workerSide, WatchInv, WatchTyped
  <2>a. UNCHANGED <<seen, lastOpen, misopened, made, named, unsent, handlings, requestRows, undelivered, dropped, failed>>
    BY <2>1 DEF pageSide, workerSide
  <2>2. instant' \in 0 .. MaxInstant
    BY <1>5, PageWatchAssumption DEF FindingResolved, Millisecond, watchVars, WatchInv, WatchTyped
  <2>3. WatchTyped' /\ OpensAgree'
    BY <1>1, <2>1, <2>a, <2>2 DEF WatchInv, WatchTyped, OpensAgree
  <2>4. calls' \in Nat /\ calls' >= calls
    BY <1>1, <2>1
  <2>5. QED
    BY <2>1, <2>a, <2>3, <2>4, CallsStand DEF WatchInv
<1>6. QED
  BY <1>2, <1>3, <1>4, <1>5, XhrKeeps, TakeKeeps, WriteKeeps DEF PageWatchNext, PageCalls

(* The record of a watched page is its requests, no more and no fewer but  *)
(* for the failures RequestsAreOnRecord names: watchPage of                *)
(* page-watch/index.ts, the listener of content/index.ts and               *)
(* recordPageRequest of background/page-requests.ts, for any methods,      *)
(* hosts and requests, whatever the page posts itself.                     *)
THEOREM RequestsStayOnRecord == PageWatchSpec => []RequestsAreOnRecord
<1>1. ASSUME WatchInv PROVE RequestsAreOnRecord
  <2>1. PageWatchTypeOK
    <3>1. \A x \in Xhrs : seen[x].method \in Methods /\ seen[x].host \in RequestHosts
      BY <1>1 DEF WatchInv, WatchTyped, OpenedRecord
    <3>2. \A i \in 1 .. Len(posted) : posted[i].kind \in {"arm", "disarm", "report"}
      <4>1. posted \in Seq(WindowMessage)
        BY <1>1 DEF WatchInv, WatchTyped
      <4>2. \A i \in 1 .. Len(posted) : posted[i] \in WindowMessage
        BY <4>1
      <4>3. QED
        BY <4>2 DEF WindowMessage
    <3>3. QED
      BY <1>1, <3>1, <3>2 DEF WatchInv, WatchTyped, RowsTyped, PageWatchTypeOK
  <2>2. NothingMadeIsSilent
    BY <1>1 DEF WatchInv, NoneIsLost, NothingMadeIsSilent, Waiting, OnTheWay, Handled
  <2>3. RecordedWasMade /\ NoRecordOnceResolved
    BY <1>1 DEF WatchInv, CallsAreMade, CallsAreOnce, OpensAgree, RecordedWasMade, NoRecordOnceResolved
  <2>4. QED
    BY <2>1, <2>2, <2>3 DEF RequestsAreOnRecord
<1>2. PageWatchSpec => []WatchInv
  BY WatchInvInit, WatchInvStep, PTL DEF PageWatchSpec
<1>3. QED
  BY <1>1, <1>2, PTL

-----------------------------------------------------------------------------
(***************************************************************************)
(* Sanitiser, for any elements, ids, scans and presses: nothing the page   *)
(* wrote is lost, what is emptied is what was named, and undoing never     *)
(* says more than it did.                                                  *)
(***************************************************************************)
LocatorRecord == [by : {"id", "place"}, name : {IdOf[n] : n \in Nodes} \cup Nat]
PlanRecord == [targets : SUBSET (LocatorRecord \X Nodes), moves : 0 .. MaxMoves]

TextTyped ==
    /\ text \in [Nodes -> SUBSET Pieces] /\ owed \in [Nodes -> SUBSET Pieces]
    /\ held \in [Nodes -> (SUBSET Pieces) \cup {NotHeld}] /\ marked \subseteq Nodes
PageTyped ==
    /\ attached \in Seq(Nodes) /\ IsInjective(attached)
    /\ moves \in 0 .. MaxMoves /\ scansMade \in 0 .. MaxPlans /\ restores \in 0 .. MaxRestores
    /\ plans \in Seq(PlanRecord)
RefusalTyped == refusal.restored + refusal.gone + refusal.changed <= Cardinality(Nodes)

(* While the page has not moved, each target is the place of its element.  *)
Apt(plan) ==
    \A target \in plan.targets :
        target[2] \in ToSet(attached) /\ target = <<LocatorFor(target[2]), target[2]>>
PlansAreApt ==
    \A i \in 1 .. Len(plans) : plans[i].moves <= moves /\ (plans[i].moves = moves => Apt(plans[i]))

SanitiserInv ==
    /\ TextTyped /\ PageTyped /\ RefusalTyped /\ PlansAreApt
    /\ NothingDestroyed /\ StrayOnlyIfMoved /\ CountIsTrue

-----------------------------------------------------------------------------
(* Sequences with one element less, and one more.                          *)
LEMMA ConcatFacts ==
    ASSUME NEW S, NEW s \in Seq(S), NEW t \in Seq(S)
    PROVE  /\ s \o t \in Seq(S) /\ Len(s \o t) = Len(s) + Len(t)
           /\ \A j \in 1 .. Len(s) + Len(t) : (s \o t)[j] = IF j <= Len(s) THEN s[j] ELSE t[j - Len(s)]
OBVIOUS

LEMMA RemoveAtFacts ==
    ASSUME NEW S, NEW s \in Seq(S), NEW i \in 1 .. Len(s)
    PROVE  /\ RemoveAt(s, i) \in Seq(S) /\ Len(RemoveAt(s, i)) = Len(s) - 1
           /\ \A j \in 1 .. Len(s) - 1 : RemoveAt(s, i)[j] = IF j < i THEN s[j] ELSE s[j + 1]
<1>1. /\ SubSeq(s, 1, i - 1) \in Seq(S) /\ Len(SubSeq(s, 1, i - 1)) = i - 1
      /\ \A j \in 1 .. i - 1 : SubSeq(s, 1, i - 1)[j] = s[j]
  OBVIOUS
<1>2. /\ SubSeq(s, i + 1, Len(s)) \in Seq(S) /\ Len(SubSeq(s, i + 1, Len(s))) = Len(s) - i
      /\ \A j \in 1 .. Len(s) - i : SubSeq(s, i + 1, Len(s))[j] = s[i + j]
  OBVIOUS
<1> DEFINE front == SubSeq(s, 1, i - 1)
           back == SubSeq(s, i + 1, Len(s))
<1>3. RemoveAt(s, i) = front \o back
  BY DEF RemoveAt
<1> HIDE DEF front, back
<1>4. /\ front \o back \in Seq(S) /\ Len(front \o back) = Len(s) - 1
      /\ \A j \in 1 .. Len(s) - 1 : (front \o back)[j] = IF j < i THEN front[j] ELSE back[j - (i - 1)]
  <2>1. front \in Seq(S) /\ back \in Seq(S) /\ Len(front) = i - 1 /\ Len(back) = Len(s) - i
    BY <1>1, <1>2 DEF front, back
  <2>2. Len(s) \in Nat /\ Len(front) + Len(back) = Len(s) - 1
    BY <2>1
  <2>3. \A j \in 1 .. Len(s) - 1 : j <= i - 1 <=> j < i
    BY <2>2
  <2>4. /\ front \o back \in Seq(S) /\ Len(front \o back) = Len(front) + Len(back)
        /\ \A j \in 1 .. Len(front) + Len(back) :
               (front \o back)[j] = IF j <= Len(front) THEN front[j] ELSE back[j - Len(front)]
    BY <2>1, ConcatFacts
  <2>5. QED
    BY <2>1, <2>2, <2>3, <2>4
<1>5. ASSUME NEW j \in 1 .. Len(s) - 1
      PROVE  (front \o back)[j] = IF j < i THEN s[j] ELSE s[j + 1]
  <2>1. CASE j < i
    <3>1. j \in 1 .. i - 1
      BY <2>1
    <3>2. QED
      BY <1>1, <1>4, <2>1, <3>1 DEF front
  <2>2. CASE ~ (j < i)
    <3>1. j - (i - 1) \in 1 .. Len(s) - i /\ i + (j - (i - 1)) = j + 1
      BY <2>2
    <3>2. back[j - (i - 1)] = s[j + 1]
      BY <1>2, <3>1 DEF back
    <3>3. QED
      BY <1>4, <2>2, <3>2
  <2>3. QED
    BY <2>1, <2>2
<1>6. QED
  BY <1>3, <1>4, <1>5

LEMMA InsertAtFacts ==
    ASSUME NEW S, NEW s \in Seq(S), NEW i \in 1 .. Len(s) + 1, NEW e \in S
    PROVE  /\ InsertAt(s, i, e) \in Seq(S) /\ Len(InsertAt(s, i, e)) = Len(s) + 1
           /\ \A j \in 1 .. Len(s) + 1 :
                  InsertAt(s, i, e)[j] = IF j < i THEN s[j] ELSE IF j = i THEN e ELSE s[j - 1]
<1> DEFINE front == SubSeq(s, 1, i - 1)
           back == SubSeq(s, i, Len(s))
<1>1. front \in Seq(S) /\ Len(front) = i - 1 /\ \A j \in 1 .. i - 1 : front[j] = s[j]
  OBVIOUS
<1>2. back \in Seq(S) /\ Len(back) = Len(s) - i + 1 /\ \A j \in 1 .. Len(s) - i + 1 : back[j] = s[i + j - 1]
  OBVIOUS
<1>3. InsertAt(s, i, e) = front \o <<e>> \o back
  BY DEF InsertAt
<1> HIDE DEF front, back
<1>4. /\ front \o <<e>> \in Seq(S) /\ Len(front \o <<e>>) = i
      /\ \A j \in 1 .. i : (front \o <<e>>)[j] = IF j < i THEN front[j] ELSE e
  BY <1>1
<1> DEFINE left == front \o <<e>>
<1> HIDE DEF left
<1>5. left \in Seq(S) /\ Len(left) = i /\ \A j \in 1 .. i : left[j] = IF j < i THEN s[j] ELSE e
  BY <1>1, <1>4 DEF left
<1>6. /\ left \o back \in Seq(S) /\ Len(left \o back) = Len(s) + 1
      /\ \A j \in 1 .. Len(s) + 1 : (left \o back)[j] = IF j <= i THEN left[j] ELSE back[j - i]
  <2>1. Len(s) \in Nat /\ Len(left) + Len(back) = Len(s) + 1
    BY <1>2, <1>5
  <2>2. QED
    BY <1>2, <1>5, <2>1, ConcatFacts
<1>7. ASSUME NEW j \in 1 .. Len(s) + 1
      PROVE  (left \o back)[j] = IF j < i THEN s[j] ELSE IF j = i THEN e ELSE s[j - 1]
  <2>1. CASE j <= i
    <3>1. j \in 1 .. i
      BY <2>1
    <3>2. QED
      BY <1>5, <1>6, <2>1, <3>1
  <2>2. CASE ~ (j <= i)
    <3>1. j - i \in 1 .. Len(s) - i + 1 /\ i + (j - i) - 1 = j - 1
      BY <2>2
    <3>2. back[j - i] = s[j - 1]
      BY <1>2, <3>1
    <3>3. QED
      BY <1>6, <2>2, <3>2
  <2>3. QED
    BY <2>1, <2>2
<1>8. InsertAt(s, i, e) = left \o back
  BY <1>3 DEF left
<1>9. QED
  BY <1>6, <1>7, <1>8

-----------------------------------------------------------------------------
(* In a document that has not moved, a locator finds what it was made of.  *)
LEMMA PlaceFacts ==
    ASSUME PageTyped, NEW n \in ToSet(attached)
    PROVE  n \in Nodes /\ PlaceOf(n) \in 1 .. Len(attached) /\ attached[PlaceOf(n)] = n
<1>1. PICK i \in 1 .. Len(attached) : attached[i] = n
  BY DEF PageTyped, ToSet
<1>2. PlaceOf(n) \in 1 .. Len(attached) /\ attached[PlaceOf(n)] = n
  BY <1>1 DEF PlaceOf
<1>3. QED
  BY <1>1, <1>2 DEF PageTyped

LEMMA LocatorFacts ==
    ASSUME PageTyped, NEW n \in ToSet(attached)
    PROVE  LocatorFor(n) \in LocatorRecord /\ Find(LocatorFor(n)) = {n}
<1>1. n \in Nodes /\ PlaceOf(n) \in 1 .. Len(attached) /\ PlaceOf(n) \in Nat
  BY PlaceFacts DEF PageTyped
<1>2. CASE NamesOneElement(n)
  <2>1. LocatorFor(n) = [by |-> "id", name |-> IdOf[n]]
    BY <1>2 DEF LocatorFor, Locator
  <2>2. Matches(LocatorFor(n)) = WithId(IdOf[n])
    BY <2>1 DEF Matches, WithId
  <2>3. Matches(LocatorFor(n)) = {n}
    BY <1>2, <2>2 DEF NamesOneElement
  <2>4. LocatorFor(n) \in LocatorRecord
    BY <1>1, <2>1 DEF LocatorRecord
  <2>5. QED
    BY <2>3, <2>4, FS_Singleton DEF Find
<1>3. CASE ~ NamesOneElement(n)
  <2>1. LocatorFor(n) = [by |-> "place", name |-> PlaceOf(n)]
    BY <1>3 DEF LocatorFor, Locator
  <2>2. Matches(LocatorFor(n)) = {m \in ToSet(attached) : PlaceOf(m) = PlaceOf(n)}
    BY <2>1 DEF Matches
  <2>3. \A m \in ToSet(attached) : PlaceOf(m) = PlaceOf(n) => m = n
    BY PlaceFacts
  <2>4. Matches(LocatorFor(n)) = {n}
    BY <2>2, <2>3
  <2>5. LocatorFor(n) \in LocatorRecord
    BY <1>1, <2>1 DEF LocatorRecord
  <2>6. QED
    BY <2>4, <2>5, FS_Singleton DEF Find
<1>4. QED
  BY <1>2, <1>3

LEMMA TargetsInPage == ASSUME PageTyped, NEW plan PROVE Targets(plan) \subseteq Nodes
<1>1. ToSet(attached) \subseteq Nodes
  BY DEF PageTyped, ToSet
<1>2. \A locator : Find(locator) \subseteq ToSet(attached)
  BY DEF Find, Matches
<1>3. QED
  BY <1>1, <1>2 DEF Targets

(* ... so its answer is about the elements that were scanned, each once.   *)
LEMMA AptFacts ==
    ASSUME PageTyped, NEW plan, Apt(plan)
    PROVE  /\ Targets(plan) = {target[2] : target \in plan.targets}
           /\ CountOf(plan) = Cardinality(Counted(plan))
<1>1. \A target \in plan.targets : Find(target[1]) = {target[2]} /\ target = <<LocatorFor(target[2]), target[2]>>
  <2>1. ASSUME NEW target \in plan.targets
        PROVE  Find(target[1]) = {target[2]} /\ target = <<LocatorFor(target[2]), target[2]>>
    <3>1. target[2] \in ToSet(attached) /\ target = <<LocatorFor(target[2]), target[2]>>
      BY DEF Apt
    <3>2. target[1] = LocatorFor(target[2])
      BY <3>1
    <3>3. QED
      BY <3>1, <3>2, LocatorFacts
  <2>2. QED
    BY <2>1
<1>2. Targets(plan) = {target[2] : target \in plan.targets}
  BY <1>1 DEF Targets
<1> DEFINE aimed == {target \in plan.targets : Find(target[1]) \cap Counted(plan) # {}}
           f == [n \in Counted(plan) |-> <<LocatorFor(n), n>>]
<1>3. \A target \in plan.targets : target \in aimed <=> target[2] \in Counted(plan)
  BY <1>1
<1>4. Counted(plan) \subseteq Targets(plan)
  BY DEF Counted
<1>5. \A n \in Counted(plan) : <<LocatorFor(n), n>> \in aimed
  <2>1. ASSUME NEW n \in Counted(plan) PROVE <<LocatorFor(n), n>> \in aimed
    <3>1. PICK target \in plan.targets : target[2] = n
      BY <1>2, <1>4
    <3>2. target = <<LocatorFor(n), n>>
      BY <1>1, <3>1
    <3>3. QED
      BY <1>3, <3>1, <3>2
  <2>2. QED
    BY <2>1
<1>6. f \in [Counted(plan) -> aimed]
  BY <1>5
<1>7. \A m, n \in Counted(plan) : f[m] = f[n] => m = n
  OBVIOUS
<1>8. \A target \in aimed : \E n \in Counted(plan) : f[n] = target
  BY <1>1, <1>3
<1>9. f \in Bijection(Counted(plan), aimed)
  BY <1>6, <1>7, <1>8 DEF Bijection, Injection, Surjection, IsInjective
<1>10. IsFiniteSet(Counted(plan))
  <2>1. Counted(plan) \in SUBSET Nodes
    BY <1>4, TargetsInPage
  <2>2. QED
    BY <2>1, FS_Subset, SanitiserAssumption
<1> HIDE DEF f, aimed
<1>11. Cardinality(aimed) = Cardinality(Counted(plan))
  BY <1>9, <1>10, FS_Bijection DEF ExistsBijection
<1>12. QED
  BY <1>2, <1>11 DEF CountOf, aimed

-----------------------------------------------------------------------------
LEMMA NotHeldIsApart ==
    /\ \A S \in SUBSET Pieces : S # NotHeld /\ S \ NotHeld = S
    /\ -1 \notin Pieces /\ 0 \in Pieces
<1>1. -1 \notin Pieces /\ 0 \in Pieces
  BY SanitiserAssumption DEF Pieces
<1>2. QED
  BY <1>1 DEF NotHeld

(* What is owed of an element that holds nothing back is in it.            *)
LEMMA OwedIsThere ==
    ASSUME TextTyped, NothingDestroyed, NEW n \in Nodes
    PROVE  /\ held[n] = NotHeld => owed[n] \subseteq text[n]
           /\ held[n] # NotHeld => held[n] \subseteq Pieces
           /\ text[n] \subseteq Pieces /\ owed[n] \subseteq Pieces /\ owed[n] \subseteq text[n] \cup held[n]
<1>1. /\ text[n] \in SUBSET Pieces /\ owed[n] \in SUBSET Pieces
      /\ held[n] \in (SUBSET Pieces) \cup {NotHeld}
  BY DEF TextTyped
<1>2. owed[n] \subseteq text[n] \cup held[n]
  BY DEF NothingDestroyed
<1>3. -1 \notin Pieces
  BY NotHeldIsApart
<1>4. held[n] # NotHeld => held[n] \subseteq Pieces
  BY <1>1
<1>5. text[n] \subseteq Pieces /\ owed[n] \subseteq Pieces
  BY <1>1
<1>6. held[n] = NotHeld => owed[n] \subseteq text[n]
  <2>1. SUFFICES ASSUME held[n] = NotHeld, NEW piece \in owed[n] PROVE piece \in text[n]
    OBVIOUS
  <2>2. piece \in Pieces /\ piece # -1
    BY <1>3, <1>5
  <2>3. QED
    BY <1>2, <2>1, <2>2 DEF NotHeld
<1>7. QED
  BY <1>2, <1>4, <1>5, <1>6

(* Where the document stands, so do its locators.                          *)
LEMMA AptStands ==
    ASSUME attached' = attached, moves' = moves,
           \A i \in 1 .. Len(plans') : plans'[i].moves <= moves /\ (plans'[i].moves = moves => Apt(plans'[i]))
    PROVE  PlansAreApt'
<1>1. ToSet(attached') = ToSet(attached)
  OBVIOUS
<1>2. ASSUME NEW n PROVE LocatorFor(n)' = LocatorFor(n)
  BY DEF LocatorFor, Locator, NamesOneElement, WithId, PlaceOf
<1>3. ASSUME NEW i \in 1 .. Len(plans'), plans'[i].moves = moves', NEW target \in plans'[i].targets
      PROVE  target[2] \in ToSet(attached') /\ target = <<LocatorFor(target[2])', target[2]>>
  <2>1. target[2] \in ToSet(attached) /\ target = <<LocatorFor(target[2]), target[2]>>
    BY <1>3 DEF Apt
  <2>2. QED
    BY <1>1, <1>2, <2>1
<1>4. QED
  BY <1>3 DEF PlansAreApt, Apt

LEMMA SanitiserInvInit == SanitiserInit => SanitiserInv
<1> SUFFICES ASSUME SanitiserInit PROVE SanitiserInv
  OBVIOUS
<1>1. TextTyped
  <2>1. text \in [Nodes -> SUBSET Pieces] /\ owed = text
    <3>1. {0} \in SUBSET Pieces /\ {} \in SUBSET Pieces
      BY NotHeldIsApart
    <3>2. QED
      BY <3>1 DEF SanitiserInit
  <2>2. held \in [Nodes -> (SUBSET Pieces) \cup {NotHeld}]
    <3>1. held = [n \in Nodes |-> NotHeld]
      BY DEF SanitiserInit
    <3>2. QED
      BY <3>1, Zenon
  <2>3. QED
    BY <2>1, <2>2 DEF SanitiserInit, TextTyped
<1>2. PageTyped
  BY SanitiserAssumption DEF SanitiserInit, PageTyped
<1>3. RefusalTyped
  <2>1. Cardinality(Nodes) \in Nat
    BY FS_CardinalityType, SanitiserAssumption
  <2>2. QED
    BY <2>1 DEF SanitiserInit, NoAnswerYet, RefusalTyped
<1>4. PlansAreApt
  BY DEF SanitiserInit, PlansAreApt
<1>5. NothingDestroyed /\ StrayOnlyIfMoved /\ CountIsTrue
  BY DEF SanitiserInit, NothingDestroyed, StrayOnlyIfMoved, CountIsTrue, NoCount
<1>6. QED
  BY <1>1, <1>2, <1>3, <1>4, <1>5 DEF SanitiserInv

-----------------------------------------------------------------------------
(* A scan names what hides something now.                                  *)
LEMMA ScanKeeps == ASSUME SanitiserInv, Scan PROVE SanitiserInv'
<1> DEFINE concealing == {n \in ToSet(attached) \cap Hiding : text[n] # {}}
           targets == {<<LocatorFor(n), n>> : n \in concealing}
           plan == [targets |-> targets, moves |-> moves]
<1>1. /\ scansMade < MaxPlans /\ scansMade' = scansMade + 1 /\ plans' = Append(plans, plan)
      /\ UNCHANGED <<attached, text, owed, held, marked, moves, restores, applied, refusal, strays>>
  BY DEF Scan
<1>2. PageTyped /\ PlansAreApt
  BY DEF SanitiserInv
<1>3. targets \in SUBSET (LocatorRecord \X Nodes)
  <2>1. ASSUME NEW n \in concealing PROVE <<LocatorFor(n), n>> \in LocatorRecord \X Nodes
    <3>1. n \in ToSet(attached)
      OBVIOUS
    <3>2. n \in Nodes
      BY <1>2, <3>1, PlaceFacts
    <3>3. LocatorFor(n) \in LocatorRecord
      BY <1>2, <3>1, LocatorFacts
    <3>4. QED
      BY <3>2, <3>3
  <2>2. QED
    BY <2>1
<1>4. \A target \in targets : target[2] \in ToSet(attached) /\ target = <<LocatorFor(target[2]), target[2]>>
  OBVIOUS
<1> HIDE DEF targets, concealing
<1>5. plan \in PlanRecord /\ plan.moves = moves /\ plan.targets = targets
  BY <1>2, <1>3 DEF PlanRecord, PageTyped
<1>6. Apt(plan)
  BY <1>4, <1>5 DEF Apt
<1> HIDE DEF plan
<1>7. /\ plans' \in Seq(PlanRecord) /\ Len(plans') = Len(plans) + 1 /\ Len(plans) \in Nat
      /\ \A i \in 1 .. Len(plans) : plans'[i] = plans[i]
      /\ plans'[Len(plans) + 1] = plan
  BY <1>1, <1>2, <1>5 DEF PageTyped
<1>8. PageTyped'
  <2>1. scansMade' \in 0 .. MaxPlans
    BY <1>1, <1>2, SanitiserAssumption DEF PageTyped
  <2>2. QED
    BY <1>1, <1>2, <1>7, <2>1 DEF PageTyped
<1>9. ASSUME NEW i \in 1 .. Len(plans')
      PROVE  plans'[i].moves <= moves /\ (plans'[i].moves = moves => Apt(plans'[i]))
  <2>1. CASE i \in 1 .. Len(plans)
    BY <1>2, <1>7, <2>1 DEF PlansAreApt
  <2>2. CASE i = Len(plans) + 1
    <3>1. moves <= moves
      BY <1>2 DEF PageTyped
    <3>2. QED
      BY <1>5, <1>6, <1>7, <2>2, <3>1
  <2>3. QED
    BY <1>7, <2>1, <2>2
<1>10. PlansAreApt'
  BY <1>1, <1>9, AptStands
<1>11. TextTyped' /\ RefusalTyped' /\ NothingDestroyed' /\ StrayOnlyIfMoved' /\ CountIsTrue'
  BY <1>1 DEF SanitiserInv, TextTyped, RefusalTyped, NothingDestroyed, StrayOnlyIfMoved, CountIsTrue
<1>12. QED
  BY <1>8, <1>10, <1>11 DEF SanitiserInv

-----------------------------------------------------------------------------
(* Once the page has moved, no answer that is out is about it as it is.    *)
LEMMA PlansAgeWithMoves ==
    ASSUME PageTyped, PlansAreApt, moves' = moves + 1, plans' = plans
    PROVE  PlansAreApt'
<1>1. plans \in Seq(PlanRecord) /\ moves \in Nat
  BY SanitiserAssumption DEF PageTyped
<1>2. \A i \in 1 .. Len(plans) : plans[i] \in PlanRecord /\ plans[i].moves <= moves
  BY <1>1 DEF PlansAreApt
<1>3. \A i \in 1 .. Len(plans) : plans[i].moves \in Nat
  BY <1>2, SanitiserAssumption DEF PlanRecord
<1>4. \A i \in 1 .. Len(plans') : plans'[i].moves <= moves' /\ plans'[i].moves # moves'
  BY <1>1, <1>2, <1>3
<1>5. QED
  BY <1>4 DEF PlansAreApt

LEMMA MoveKeeps ==
    ASSUME SanitiserInv, NEW new \in Seq(Nodes), IsInjective(new), PageMoves(new)
    PROVE  SanitiserInv'
<1>1. /\ moves < MaxMoves /\ moves' = moves + 1 /\ attached' = new
      /\ UNCHANGED <<text, owed, held, marked, plans, scansMade, restores, applied, refusal, strays>>
  BY DEF PageMoves
<1>2. moves' \in 0 .. MaxMoves
  BY <1>1, SanitiserAssumption DEF SanitiserInv, PageTyped
<1>3. PageTyped'
  BY <1>1, <1>2 DEF SanitiserInv, PageTyped
<1>4. PlansAreApt'
  BY <1>1, PlansAgeWithMoves DEF SanitiserInv
<1>5. TextTyped' /\ RefusalTyped' /\ NothingDestroyed' /\ StrayOnlyIfMoved' /\ CountIsTrue'
  BY <1>1 DEF SanitiserInv, TextTyped, RefusalTyped, NothingDestroyed, StrayOnlyIfMoved, CountIsTrue
<1>6. QED
  BY <1>3, <1>4, <1>5 DEF SanitiserInv

LEMMA RemovesKeeps == ASSUME SanitiserInv, PageRemoves PROVE SanitiserInv'
<1>1. attached \in Seq(Nodes) /\ IsInjective(attached)
  BY DEF SanitiserInv, PageTyped
<1>2. PICK i \in 1 .. Len(attached) : PageMoves(RemoveAt(attached, i))
  BY DEF PageRemoves
<1>a. Len(attached) \in Nat
  BY <1>1
<1>b. /\ RemoveAt(attached, i) \in Seq(Nodes) /\ Len(RemoveAt(attached, i)) = Len(attached) - 1
      /\ \A j \in 1 .. Len(attached) - 1 :
            RemoveAt(attached, i)[j] = IF j < i THEN attached[j] ELSE attached[j + 1]
  BY <1>1, RemoveAtFacts
<1> DEFINE new == RemoveAt(attached, i)
<1>3. /\ new \in Seq(Nodes) /\ Len(new) = Len(attached) - 1 /\ Len(attached) \in Nat
      /\ \A j \in 1 .. Len(attached) - 1 : new[j] = IF j < i THEN attached[j] ELSE attached[j + 1]
  BY <1>a, <1>b
<1> HIDE DEF new
<1>4. IsInjective(new)
  <2>1. ASSUME NEW j \in 1 .. Len(new), NEW k \in 1 .. Len(new), new[j] = new[k] PROVE j = k
    <3>1. \A m, n \in 1 .. Len(attached) : attached[m] = attached[n] => m = n
      BY <1>1 DEF IsInjective
    <3>2. QED
      BY <1>3, <2>1, <3>1
  <2>2. DOMAIN new = 1 .. Len(new)
    BY <1>3
  <2>3. QED
    BY <2>1, <2>2 DEF IsInjective
<1>5. QED
  BY <1>2, <1>3, <1>4, MoveKeeps DEF new

LEMMA InsertsKeeps == ASSUME SanitiserInv, PageInserts PROVE SanitiserInv'
<1>1. attached \in Seq(Nodes) /\ IsInjective(attached)
  BY DEF SanitiserInv, PageTyped
<1>2. PICK n \in Nodes \ ToSet(attached), i \in 1 .. Len(attached) + 1 : PageMoves(InsertAt(attached, i, n))
  BY DEF PageInserts
<1> DEFINE new == InsertAt(attached, i, n)
<1>3. /\ new \in Seq(Nodes) /\ Len(new) = Len(attached) + 1 /\ Len(attached) \in Nat
      /\ \A j \in 1 .. Len(attached) + 1 :
             new[j] = IF j < i THEN attached[j] ELSE IF j = i THEN n ELSE attached[j - 1]
  <2>1. n \in Nodes /\ i \in 1 .. Len(attached) + 1 /\ attached \in Seq(Nodes)
    BY <1>1
  <2>2. Len(attached) \in Nat
    BY <2>1
  <2>3. QED
    BY <2>1, <2>2, InsertAtFacts
<1> HIDE DEF new
<1>4. IsInjective(new)
  <2>1. ASSUME NEW j \in 1 .. Len(new), NEW k \in 1 .. Len(new), new[j] = new[k] PROVE j = k
    <3>1. \A m, l \in 1 .. Len(attached) : attached[m] = attached[l] => m = l
      BY <1>1 DEF IsInjective
    <3>2. \A m \in 1 .. Len(attached) : attached[m] # n
      BY <1>1 DEF ToSet
    <3>3. CASE j = i \/ k = i
      <4>1. ASSUME NEW m \in 1 .. Len(new), m # i PROVE new[m] # n
        <5>1. CASE m < i
          <6>1. m \in 1 .. Len(attached) /\ new[m] = attached[m]
            BY <1>3, <5>1
          <6>2. QED
            BY <3>2, <6>1
        <5>2. CASE m > i
          <6>1. m - 1 \in 1 .. Len(attached) /\ new[m] = attached[m - 1]
            BY <1>3, <5>2
          <6>2. QED
            BY <3>2, <6>1
        <5>3. QED
          BY <1>3, <4>1, <5>1, <5>2
      <4>2. new[i] = n
        BY <1>3
      <4>3. QED
        BY <2>1, <3>3, <4>1, <4>2
    <3>4. CASE j # i /\ k # i
      <4>1. \A m \in 1 .. Len(new) : m # i =>
                \E l \in 1 .. Len(attached) : new[m] = attached[l] /\ l = IF m < i THEN m ELSE m - 1
        BY <1>3
      <4>2. (IF j < i THEN j ELSE j - 1) = (IF k < i THEN k ELSE k - 1)
        BY <2>1, <3>1, <3>4, <4>1
      <4>3. QED
        BY <1>3, <3>4, <4>2
    <3>5. QED
      BY <3>3, <3>4
  <2>2. DOMAIN new = 1 .. Len(new)
    BY <1>3
  <2>3. QED
    BY <2>1, <2>2 DEF IsInjective
<1>5. QED
  BY <1>2, <1>3, <1>4, MoveKeeps DEF new

LEMMA WritesKeeps ==
    ASSUME SanitiserInv, NEW n \in Nodes, NEW pieces \in SUBSET Pieces, NEW removed,
           PageWrites(n, pieces, removed),
           (owed[n] \ removed) \cup pieces \subseteq pieces \cup held[n]
    PROVE  SanitiserInv'
<1>1. /\ moves < MaxMoves /\ moves' = moves + 1 /\ text' = [text EXCEPT ![n] = pieces]
      /\ owed' = [owed EXCEPT ![n] = (@ \ removed) \cup pieces]
      /\ UNCHANGED <<attached, held, marked, plans, scansMade, restores, applied, refusal, strays>>
  BY DEF PageWrites
<1>2. moves' \in 0 .. MaxMoves
  BY <1>1, SanitiserAssumption DEF SanitiserInv, PageTyped
<1>3. PageTyped'
  BY <1>1, <1>2 DEF SanitiserInv, PageTyped
<1>4. PlansAreApt'
  BY <1>1, PlansAgeWithMoves DEF SanitiserInv
<1>5. text \in [Nodes -> SUBSET Pieces] /\ owed \in [Nodes -> SUBSET Pieces]
  BY DEF SanitiserInv, TextTyped
<1>6. (owed[n] \ removed) \cup pieces \in SUBSET Pieces
  BY <1>5
<1>7. Pieces' = Pieces
  BY DEF Pieces
<1>8. TextTyped'
  BY <1>1, <1>5, <1>6, <1>7 DEF SanitiserInv, TextTyped
<1>9. NothingDestroyed'
  BY <1>1, <1>5 DEF SanitiserInv, NothingDestroyed
<1>10. RefusalTyped' /\ StrayOnlyIfMoved' /\ CountIsTrue'
  BY <1>1 DEF SanitiserInv, RefusalTyped, StrayOnlyIfMoved, CountIsTrue
<1>11. QED
  BY <1>3, <1>4, <1>8, <1>9, <1>10 DEF SanitiserInv

LEMMA AppendsKeeps == ASSUME SanitiserInv, NEW n \in Nodes, PageAppends(n) PROVE SanitiserInv'
<1>1. PageWrites(n, text[n] \cup {moves'}, {}) /\ moves < MaxMoves /\ moves' = moves + 1
  BY DEF PageAppends, PageWrites
<1>2. moves' \in Pieces
  BY <1>1, SanitiserAssumption DEF SanitiserInv, PageTyped, Pieces
<1>3. text[n] \subseteq Pieces /\ owed[n] \subseteq text[n] \cup held[n]
  BY OwedIsThere DEF SanitiserInv
<1>4. text[n] \cup {moves'} \in SUBSET Pieces
  BY <1>2, <1>3
<1> DEFINE pieces == text[n] \cup {moves'}
<1>5. (owed[n] \ {}) \cup pieces \subseteq pieces \cup held[n]
  BY <1>3
<1> HIDE DEF pieces
<1>6. QED
  BY <1>1, <1>4, <1>5, WritesKeeps DEF pieces

LEMMA ClearsKeeps == ASSUME SanitiserInv, NEW n \in Nodes, PageClears(n) PROVE SanitiserInv'
<1>1. PageWrites(n, {}, text[n])
  BY DEF PageClears
<1>2. owed[n] \subseteq text[n] \cup held[n]
  BY OwedIsThere DEF SanitiserInv
<1>3. {} \in SUBSET Pieces /\ (owed[n] \ text[n]) \cup {} \subseteq {} \cup held[n]
  BY <1>2
<1>4. QED
  BY <1>1, <1>3, WritesKeeps

-----------------------------------------------------------------------------
(* An answer empties what it names now and nobody has emptied before.      *)
LEMMA ApplyKeeps == ASSUME SanitiserInv, NEW i, Apply(i) PROVE SanitiserInv'
<1> DEFINE plan == plans[i]
           captured == Captured(plan)
           stray == {<<n, plan.moves # moves>> :
                        n \in {m \in captured : \A target \in plan.targets : target[2] # m}}
<1>1. /\ i \in 1 .. Len(plans) /\ plans' = RemoveAt(plans, i)
      /\ held' = [n \in Nodes |-> IF n \in captured THEN text[n] ELSE held[n]]
      /\ text' = [n \in Nodes |-> IF n \in captured THEN {} ELSE text[n]]
      /\ marked' = marked \cup Counted(plan)
      /\ applied' = [count |-> CountOf(plan), emptied |-> Cardinality(Counted(plan)),
                     drifted |-> plan.moves # moves]
      /\ strays' = strays \cup stray
      /\ UNCHANGED <<attached, owed, moves, scansMade, restores, refusal>>
  BY DEF Apply
<1>2. PageTyped /\ PlansAreApt /\ TextTyped /\ NothingDestroyed
  BY DEF SanitiserInv
<1>3. captured \subseteq Nodes /\ captured \cap HeldNodes = {} /\ Counted(plan) \subseteq Nodes
  <2>1. Targets(plan) \subseteq Nodes
    BY <1>2, TargetsInPage
  <2>2. QED
    BY <2>1 DEF Captured, Counted
<1>4. plan.moves = moves => Apt(plan)
  BY <1>1, <1>2 DEF PlansAreApt
<1>5. plan.moves = moves => \A m \in captured : \E target \in plan.targets : target[2] = m
  <2>1. ASSUME plan.moves = moves PROVE Targets(plan) = {target[2] : target \in plan.targets}
    BY <1>2, <1>4, <2>1, AptFacts
  <2>2. QED
    BY <2>1 DEF Captured
<1>6. plan.moves = moves => CountOf(plan) = Cardinality(Counted(plan))
  BY <1>2, <1>4, AptFacts
<1>7. /\ plans' \in Seq(PlanRecord) /\ Len(plans') = Len(plans) - 1 /\ Len(plans) \in Nat
      /\ \A j \in 1 .. Len(plans) - 1 : plans'[j] = IF j < i THEN plans[j] ELSE plans[j + 1]
  <2>1. plans \in Seq(PlanRecord) /\ i \in 1 .. Len(plans) /\ plans' = RemoveAt(plans, i)
    BY <1>1, <1>2 DEF PageTyped
  <2>2. Len(plans) \in Nat
    BY <2>1
  <2>3. QED
    BY <2>1, <2>2, RemoveAtFacts
<1> HIDE DEF captured, stray, plan
<1>8. PageTyped'
  BY <1>1, <1>2, <1>7 DEF PageTyped
<1>9. ASSUME NEW j \in 1 .. Len(plans')
      PROVE  plans'[j].moves <= moves /\ (plans'[j].moves = moves => Apt(plans'[j]))
  <2>1. PICK k \in 1 .. Len(plans) : plans'[j] = plans[k]
    <3>1. j \in 1 .. Len(plans) /\ j + 1 \in 1 .. Len(plans) /\ j \in 1 .. Len(plans) - 1
      BY <1>7
    <3>2. QED
      BY <1>7, <3>1
  <2>2. QED
    BY <1>2, <2>1 DEF PlansAreApt
<1>10. PlansAreApt'
  BY <1>1, <1>9, AptStands
<1>11. \A n \in Nodes : n \in captured => held[n] = NotHeld
  BY <1>3 DEF HeldNodes
<1>12. \A n \in Nodes : text[n] \in SUBSET Pieces /\ {} \in SUBSET Pieces /\ held[n] \in (SUBSET Pieces) \cup {NotHeld}
  BY <1>2 DEF TextTyped
<1>13. TextTyped'
  <2>1. text' \in [Nodes -> SUBSET Pieces]
    BY <1>1, <1>12
  <2>2. held' \in [Nodes -> (SUBSET Pieces) \cup {NotHeld}]
    BY <1>1, <1>12
  <2>3. Pieces' = Pieces /\ NotHeld' = NotHeld
    BY DEF Pieces, NotHeld
  <2>4. QED
    BY <1>1, <1>2, <1>3, <2>1, <2>2, <2>3 DEF TextTyped
<1>14. NothingDestroyed'
  <2>1. ASSUME NEW n \in Nodes PROVE owed'[n] \subseteq text'[n] \cup held'[n]
    <3>1. /\ held[n] = NotHeld => owed[n] \subseteq text[n]
          /\ owed[n] \subseteq text[n] \cup held[n]
      BY <1>2, OwedIsThere
    <3>2. CASE n \in captured
      BY <1>1, <1>11, <3>1, <3>2
    <3>3. CASE n \notin captured
      BY <1>1, <3>1, <3>3
    <3>4. QED
      BY <3>2, <3>3
  <2>2. QED
    BY <2>1 DEF NothingDestroyed
<1>15. StrayOnlyIfMoved'
  <2>1. \A s \in stray : s[2]
    <3>1. CASE plan.moves = moves
      <4>1. stray = {}
        BY <1>5, <3>1 DEF stray
      <4>2. QED
        BY <4>1
    <3>2. CASE plan.moves # moves
      <4>1. \A s \in stray : s[2] = (plan.moves # moves)
        BY DEF stray
      <4>2. QED
        BY <3>2, <4>1, Zenon
    <3>3. QED
      BY <3>1, <3>2
  <2>2. \A s \in strays : s[2]
    BY DEF SanitiserInv, StrayOnlyIfMoved
  <2>3. QED
    BY <1>1, <2>1, <2>2 DEF StrayOnlyIfMoved
<1>16. CountIsTrue'
  <2>1. applied'.count = CountOf(plan) /\ applied'.emptied = Cardinality(Counted(plan))
    BY <1>1
  <2>2. applied'.drifted = (plan.moves # moves)
    BY <1>1
  <2>3. CASE plan.moves = moves
    BY <1>6, <2>1, <2>3 DEF CountIsTrue
  <2>4. CASE plan.moves # moves
    BY <2>2, <2>4, Zenon DEF CountIsTrue
  <2>5. QED
    BY <2>3, <2>4
<1>17. RefusalTyped'
  BY <1>1 DEF SanitiserInv, RefusalTyped
<1>18. QED
  BY <1>8, <1>10, <1>13, <1>14, <1>15, <1>16, <1>17 DEF SanitiserInv


-----------------------------------------------------------------------------
(* A press of Restore, by what it comes to for each element it holds.      *)
LEMMA HeldInThree ==
    /\ Gone \cup Refillable \cup Changed = HeldNodes
    /\ Gone \cap Refillable = {} /\ Gone \cap Changed = {} /\ Refillable \cap Changed = {}
BY DEF Gone, Refillable, Changed

LEMMA RestoreBecomes ==
    ASSUME SanitiserInv, Restore, NEW n \in Nodes
    PROVE  /\ n \in Gone => text'[n] = text[n] /\ held'[n] = NotHeld /\ owed'[n] = owed[n] \ held[n]
           /\ n \in Refillable => text'[n] = text[n] \cup held[n] /\ held'[n] = NotHeld /\ owed'[n] = owed[n]
           /\ n \notin Gone \cup Refillable =>
                  text'[n] = text[n] /\ held'[n] = held[n] /\ owed'[n] = owed[n]
<1>1. /\ text' = [m \in Nodes |-> IF m \in Refillable THEN text[m] \cup held[m] ELSE text[m]]
      /\ held' = [m \in Nodes |-> IF m \in Finished THEN NotHeld ELSE held[m]]
      /\ owed' = [m \in Nodes |-> IF m \in Gone THEN owed[m] \ held[m] ELSE owed[m]]
  BY DEF Restore
<1>2. Gone \cap Refillable = {} /\ Finished = Gone \cup Refillable
  BY HeldInThree DEF Finished
<1>3. QED
  BY <1>1, <1>2

LEMMA RestoreKeeps == ASSUME SanitiserInv, Restore PROVE SanitiserInv'
<1>1. /\ restores < MaxRestores /\ restores' = restores + 1
      /\ marked' = marked \ Refillable
      /\ refusal' = [restored |-> Cardinality(Refillable), gone |-> Cardinality(Gone),
                     changed |-> Cardinality(Changed)]
      /\ UNCHANGED <<attached, plans, moves, scansMade, applied, strays>>
  BY DEF Restore
<1>2. PageTyped /\ PlansAreApt /\ TextTyped /\ NothingDestroyed
  BY DEF SanitiserInv
<1>3. \A n \in Nodes : n \in HeldNodes => held[n] \subseteq Pieces
  BY <1>2, OwedIsThere DEF HeldNodes
<1>4. Refillable \subseteq HeldNodes
  BY DEF Refillable
<1>5. TextTyped'
  <2>1. /\ text' = [m \in Nodes |-> IF m \in Refillable THEN text[m] \cup held[m] ELSE text[m]]
        /\ held' = [m \in Nodes |-> IF m \in Finished THEN NotHeld ELSE held[m]]
        /\ owed' = [m \in Nodes |-> IF m \in Gone THEN owed[m] \ held[m] ELSE owed[m]]
    BY DEF Restore
  <2>2. \A n \in Nodes : text[n] \subseteq Pieces /\ owed[n] \subseteq Pieces
    BY <1>2, OwedIsThere
  <2>3. text' \in [Nodes -> SUBSET Pieces]
    BY <1>3, <1>4, <2>1, <2>2
  <2>4. owed' \in [Nodes -> SUBSET Pieces]
    BY <2>1, <2>2
  <2>5. \A n \in Nodes : held[n] \in (SUBSET Pieces) \cup {NotHeld} /\ NotHeld \in (SUBSET Pieces) \cup {NotHeld}
    BY <1>2 DEF TextTyped
  <2>6. held' \in [Nodes -> (SUBSET Pieces) \cup {NotHeld}]
    BY <2>1, <2>5
  <2>7. Pieces' = Pieces /\ NotHeld' = NotHeld
    BY DEF Pieces, NotHeld
  <2>8. QED
    BY <1>1, <1>2, <2>3, <2>4, <2>6, <2>7 DEF TextTyped
<1>6. PageTyped'
  <2>1. restores' \in 0 .. MaxRestores
    BY <1>1, <1>2, SanitiserAssumption DEF PageTyped
  <2>2. QED
    BY <1>1, <1>2, <2>1 DEF PageTyped
<1>7. PlansAreApt'
  <2>1. \A i \in 1 .. Len(plans') : plans'[i].moves <= moves /\ (plans'[i].moves = moves => Apt(plans'[i]))
    BY <1>1, <1>2 DEF PlansAreApt
  <2>2. QED
    BY <1>1, <2>1, AptStands
<1>8. NothingDestroyed'
  <2>1. ASSUME NEW n \in Nodes PROVE owed'[n] \subseteq text'[n] \cup held'[n]
    <3>1. owed[n] \subseteq text[n] \cup held[n]
      BY <1>2, OwedIsThere
    <3>2. QED
      BY <3>1, RestoreBecomes
  <2>2. QED
    BY <2>1 DEF NothingDestroyed
<1>9. RefusalTyped'
  <2>1. HeldNodes \in SUBSET Nodes
    BY DEF HeldNodes
  <2>2. IsFiniteSet(HeldNodes) /\ Cardinality(HeldNodes) <= Cardinality(Nodes)
    BY <2>1, FS_Subset, SanitiserAssumption
  <2>3. Gone \in SUBSET HeldNodes /\ Refillable \in SUBSET HeldNodes /\ Changed \in SUBSET HeldNodes
    BY HeldInThree
  <2>4. IsFiniteSet(Gone) /\ IsFiniteSet(Refillable) /\ IsFiniteSet(Changed)
    BY <2>2, <2>3, FS_Subset
  <2> HIDE DEF Gone, Refillable, Changed, HeldNodes
  <2>5. IsFiniteSet(Gone \cup Refillable) /\ Cardinality(Gone \cup Refillable) = Cardinality(Gone) + Cardinality(Refillable)
    <3>1. Gone \cap Refillable = {}
      BY HeldInThree
    <3>2. Cardinality(Gone \cap Refillable) = 0
      BY <3>1, FS_EmptySet
    <3>3. Cardinality(Gone) \in Nat /\ Cardinality(Refillable) \in Nat
      BY <2>4, FS_CardinalityType
    <3>4. /\ IsFiniteSet(Gone \cup Refillable)
          /\ Cardinality(Gone \cup Refillable)
                 = Cardinality(Gone) + Cardinality(Refillable) - Cardinality(Gone \cap Refillable)
      BY <2>4, FS_Union
    <3>5. QED
      BY <3>2, <3>3, <3>4
  <2>6. Cardinality(HeldNodes) = Cardinality(Gone) + Cardinality(Refillable) + Cardinality(Changed)
    <3>1. (Gone \cup Refillable) \cap Changed = {} /\ (Gone \cup Refillable) \cup Changed = HeldNodes
      BY HeldInThree
    <3>2. Cardinality((Gone \cup Refillable) \cap Changed) = 0
      BY <3>1, FS_EmptySet
    <3>3. Cardinality(Gone \cup Refillable) \in Nat /\ Cardinality(Changed) \in Nat
      BY <2>4, <2>5, FS_CardinalityType
    <3>4. Cardinality((Gone \cup Refillable) \cup Changed)
              = Cardinality(Gone \cup Refillable) + Cardinality(Changed)
                - Cardinality((Gone \cup Refillable) \cap Changed)
      BY <2>4, <2>5, FS_Union
    <3>5. Cardinality((Gone \cup Refillable) \cup Changed) = Cardinality(HeldNodes)
      BY <3>1
    <3>6. Cardinality(HeldNodes) = Cardinality(Gone \cup Refillable) + Cardinality(Changed)
      BY <3>2, <3>3, <3>4, <3>5
    <3>7. Cardinality(Gone) \in Nat /\ Cardinality(Refillable) \in Nat
      BY <2>4, FS_CardinalityType
    <3>8. QED
      BY <2>5, <3>3, <3>6, <3>7
  <2>7. /\ Cardinality(Gone) \in Nat /\ Cardinality(Refillable) \in Nat /\ Cardinality(Changed) \in Nat
        /\ Cardinality(Nodes) \in Nat
    BY <2>4, FS_CardinalityType, SanitiserAssumption
  <2>8. /\ refusal'.restored = Cardinality(Refillable) /\ refusal'.gone = Cardinality(Gone)
        /\ refusal'.changed = Cardinality(Changed)
    BY <1>1
  <2>9. QED
    BY <2>2, <2>6, <2>7, <2>8 DEF RefusalTyped
<1>10. StrayOnlyIfMoved' /\ CountIsTrue'
  BY <1>1 DEF SanitiserInv, StrayOnlyIfMoved, CountIsTrue
<1>11. QED
  BY <1>5, <1>6, <1>7, <1>8, <1>9, <1>10 DEF SanitiserInv

LEMMA SanitiserInvStep == SanitiserInv /\ [SanitiserNext]_sanitiserVars => SanitiserInv'
<1> SUFFICES ASSUME SanitiserInv, [SanitiserNext]_sanitiserVars PROVE SanitiserInv'
  OBVIOUS
<1>1. CASE UNCHANGED sanitiserVars
  <2>1. UNCHANGED <<attached, text, owed, held, marked, plans, moves, scansMade, restores, applied, refusal, strays>>
    BY <1>1 DEF sanitiserVars
  <2>2. PlansAreApt'
    <3>1. \A i \in 1 .. Len(plans') : plans'[i].moves <= moves /\ (plans'[i].moves = moves => Apt(plans'[i]))
      BY <2>1 DEF SanitiserInv, PlansAreApt
    <3>2. QED
      BY <2>1, <3>1, AptStands
  <2>3. TextTyped' /\ PageTyped' /\ RefusalTyped'
    BY <2>1 DEF SanitiserInv, TextTyped, PageTyped, RefusalTyped
  <2>4. NothingDestroyed' /\ StrayOnlyIfMoved' /\ CountIsTrue'
    BY <2>1 DEF SanitiserInv, NothingDestroyed, StrayOnlyIfMoved, CountIsTrue
  <2>5. QED
    BY <2>2, <2>3, <2>4 DEF SanitiserInv
<1>2. QED
  BY <1>1, ScanKeeps, RestoreKeeps, RemovesKeeps, InsertsKeeps, ApplyKeeps, AppendsKeeps, ClearsKeeps
     DEF SanitiserNext

(* What is owed, held, named and counted, whatever the page does between a *)
(* scan and its answer, and between a press and the next.                  *)
THEOREM SanitiserInvAlways == SanitiserSpec => []SanitiserInv
<1>1. SanitiserInit => SanitiserInv
  BY SanitiserInvInit
<1>2. QED
  BY <1>1, SanitiserInvStep, PTL DEF SanitiserSpec

(* Nothing the page wrote is lost, what was emptied is what was named, and *)
(* as many as was said: Sanitiser of content/sanitize.ts and               *)
(* planSanitisation of core-sanitizer, for any elements, ids, scans and    *)
(* presses.                                                                *)
THEOREM NothingEverLost == SanitiserSpec => []NothingIsLost
<1>1. ASSUME SanitiserInv PROVE NothingIsLost
  <2>1. TextTyped /\ PageTyped /\ NothingDestroyed
    BY <1>1 DEF SanitiserInv
  <2>2. \A n \in Nodes : /\ text[n] \subseteq Pieces /\ owed[n] \subseteq Pieces
                         /\ held[n] \subseteq Pieces \/ held[n] = NotHeld
    BY <2>1, OwedIsThere
  <2>3. SanitiserTypeOK
    BY <1>1, <2>1, <2>2 DEF SanitiserInv, TextTyped, PageTyped, RefusalTyped, SanitiserTypeOK
  <2>4. QED
    BY <1>1, <2>3 DEF SanitiserInv, NothingIsLost
<1>2. QED
  BY <1>1, SanitiserInvAlways, PTL

(* Undoing is honest: an element is filled only where it is empty and in   *)
(* the document, and an answer that refuses nothing leaves each element    *)
(* with all the page wrote into it (restore of content/sanitize.ts).       *)
THEOREM UndoingIsHonest == SanitiserSpec => RestoreIsHonest
<1> DEFINE Spliced == \A n \in Nodes : restores' # restores /\ text'[n] # text[n] => text[n] = {} /\ Attached(n)
           Refused == restores' # restores /\ refusal'.gone + refusal'.changed = 0
                          => \A n \in Nodes : owed'[n] \subseteq text'[n]
<1>1. ASSUME SanitiserInv, [SanitiserNext]_sanitiserVars, restores' # restores PROVE Restore
  BY <1>1 DEF SanitiserNext, sanitiserVars, Scan, PageRemoves, PageInserts, PageMoves, Apply, PageAppends,
              PageClears, PageWrites
<1>2. ASSUME SanitiserInv, Restore, NEW n \in Nodes, text'[n] # text[n] PROVE text[n] = {} /\ Attached(n)
  <2>1. n \in Refillable
    BY <1>2, RestoreBecomes
  <2>2. QED
    BY <2>1 DEF Refillable, Gone
<1>3. ASSUME SanitiserInv, Restore, refusal'.gone + refusal'.changed = 0, NEW n \in Nodes
      PROVE  owed'[n] \subseteq text'[n]
  <2>1. Gone \in SUBSET Nodes /\ Changed \in SUBSET Nodes
    BY DEF Gone, Changed, HeldNodes
  <2>2. IsFiniteSet(Gone) /\ IsFiniteSet(Changed)
    BY <2>1, FS_Subset, SanitiserAssumption
  <2>3. Cardinality(Gone) \in Nat /\ Cardinality(Changed) \in Nat
    BY <2>2, FS_CardinalityType
  <2>4. refusal'.gone = Cardinality(Gone) /\ refusal'.changed = Cardinality(Changed)
    BY <1>3 DEF Restore
  <2>5. Cardinality(Gone) = 0 /\ Cardinality(Changed) = 0
    BY <1>3, <2>3, <2>4
  <2>6. Gone = {} /\ Changed = {}
    BY <2>2, <2>5, FS_EmptySet
  <2>7. TextTyped /\ NothingDestroyed
    BY <1>3 DEF SanitiserInv
  <2>8. /\ held[n] = NotHeld => owed[n] \subseteq text[n]
        /\ owed[n] \subseteq text[n] \cup held[n]
    BY <2>7, OwedIsThere
  <2>9. n \in Refillable \/ held[n] = NotHeld
    BY <2>6, HeldInThree DEF HeldNodes
  <2>10. CASE n \in Refillable
    BY <1>3, <2>8, <2>10, RestoreBecomes
  <2>11. CASE n \notin Refillable
    BY <1>3, <2>6, <2>8, <2>9, <2>11, RestoreBecomes
  <2>12. QED
    BY <2>10, <2>11
<1>4. SanitiserInv /\ [SanitiserNext]_sanitiserVars => Spliced /\ Refused
  BY <1>1, <1>2, <1>3
<1>5. SanitiserInv /\ [SanitiserNext]_sanitiserVars => [Spliced]_sanitiserVars /\ [Refused]_sanitiserVars
  BY <1>4
<1>6. RestoreIsHonest <=> [][Spliced]_sanitiserVars /\ [][Refused]_sanitiserVars
  BY DEF RestoreIsHonest, NeverSpliced, RefusalStands
<1> HIDE DEF Spliced, Refused
<1>7. QED
  BY <1>5, <1>6, SanitiserInvAlways, PTL DEF SanitiserSpec

-----------------------------------------------------------------------------
(***************************************************************************)
(* ScanPace, for any window, budget and page: no second holds more scans   *)
(* than it may, no change goes unexamined for want of a timer, and a fact  *)
(* is put on record once but for the overlaps that are named.              *)
(***************************************************************************)
(* Ages as they are kept: oldest first.                                    *)
OldestFirst(ages) == \A i, j \in 1 .. Len(ages) : i < j => ages[i] >= ages[j]

LEMMA EndFacts ==
    ASSUME NEW S, NEW s \in Seq(S), NEW n \in 0 .. Len(s)
    PROVE  /\ SubSeq(s, n + 1, Len(s)) \in Seq(S) /\ Len(SubSeq(s, n + 1, Len(s))) = Len(s) - n
           /\ \A i \in 1 .. Len(s) - n : SubSeq(s, n + 1, Len(s))[i] = s[i + n]
OBVIOUS

(* Where the window begins in such a list.                                 *)
Begins(ages, n) ==
    /\ n \in 0 .. Len(ages)
    /\ \A i \in 1 .. n : ages[i] >= Window
    /\ \A i \in n + 1 .. Len(ages) : ages[i] < Window

LEMMA WindowBegins ==
    ASSUME NEW ages \in Seq(0 .. Window), OldestFirst(ages)
    PROVE  \E n \in 0 .. Len(ages) : Begins(ages, n)
<1> DEFINE Fresh == {i \in Nat : i = Len(ages) + 1 \/ (i \in 1 .. Len(ages) /\ ages[i] < Window)}
<1>1. Window \in Nat /\ Len(ages) \in Nat /\ \A i \in 1 .. Len(ages) : ages[i] \in 0 .. Window
  BY ScanPaceAssumption
<1>2. Len(ages) + 1 \in Fresh /\ Fresh \subseteq Nat
  BY <1>1
<1> HIDE DEF Fresh
<1>3. PICK i \in Fresh : \A j \in Fresh : ~ (<<j, i>> \in OpToRel(<, Nat))
  BY <1>2, NatLessThanWellFounded, WFMin
<1>4. i \in 1 .. Len(ages) + 1 /\ (i \in 1 .. Len(ages) => ages[i] < Window)
  <2>1. i \in Nat /\ (i = Len(ages) + 1 \/ (i \in 1 .. Len(ages) /\ ages[i] < Window))
    BY <1>3 DEF Fresh
  <2>2. CASE i = Len(ages) + 1
    BY <1>1, <2>1, <2>2
  <2>3. CASE i \in 1 .. Len(ages) /\ ages[i] < Window
    BY <1>1, <2>1, <2>3
  <2> QED  BY <2>1, <2>2, <2>3
<1>5. \A j \in 1 .. i - 1 : ages[j] >= Window
  <2> SUFFICES ASSUME NEW j \in 1 .. i - 1, ages[j] < Window PROVE FALSE
    BY <1>1, <1>4
  <2>1. j \in 1 .. Len(ages) /\ j < i
    BY <1>1, <1>4
  <2>2. j \in Fresh
    BY <2>1 DEF Fresh
  <2>3. <<j, i>> \in OpToRel(<, Nat)
    BY <2>1, <1>4 DEF OpToRel
  <2> QED  BY <1>3, <2>2, <2>3
<1>6. \A j \in i .. Len(ages) : ages[j] < Window
  <2> SUFFICES ASSUME NEW j \in i .. Len(ages) PROVE ages[j] < Window
    OBVIOUS
  <2>1. i \in 1 .. Len(ages) /\ j \in 1 .. Len(ages)
    BY <1>1, <1>4
  <2>2. ages[i] >= ages[j]
    BY <1>1, <2>1 DEF OldestFirst
  <2> QED  BY <1>1, <1>4, <2>1, <2>2
<1>7. Begins(ages, i - 1)
  BY <1>1, <1>4, <1>5, <1>6 DEF Begins
<1> QED  BY <1>1, <1>4, <1>7

(* The filter of pace.ts, for such lists: what is left are the ages below  *)
(* the window, all of them, in their order.                                *)
LEMMA WindowFilters ==
    ASSUME NEW ages \in Seq(0 .. Window), NEW n, Begins(ages, n)
    PROVE  /\ InWindow(ages) \in Seq(0 .. Window) /\ Len(InWindow(ages)) = Len(ages) - n
           /\ \A i \in 1 .. Len(ages) - n : InWindow(ages)[i] = ages[i + n] /\ ages[i + n] < Window
<1>1. /\ Window \in Nat /\ Len(ages) \in Nat /\ n \in 0 .. Len(ages)
      /\ \A i \in 1 .. Len(ages) : ages[i] \in 0 .. Window
  BY ScanPaceAssumption DEF Begins
<1>2. {i \in 1 .. Len(ages) : ages[i] >= Window} = 1 .. n
  <2>1. \A i \in 1 .. Len(ages) : ages[i] >= Window <=> i \in 1 .. n
    <3> SUFFICES ASSUME NEW i \in 1 .. Len(ages) PROVE ages[i] >= Window <=> i \in 1 .. n
      OBVIOUS
    <3>1. CASE i <= n
      BY <1>1, <3>1 DEF Begins
    <3>2. CASE i > n
      <4>1. ages[i] < Window /\ ages[i] \in 0 .. Window
        BY <1>1, <3>2 DEF Begins
      <4> QED  BY <1>1, <3>2, <4>1
    <3> QED  BY <1>1, <3>1, <3>2
  <2> QED  BY <1>1, <2>1
<1>3. Cardinality(1 .. n) = n
  BY <1>1, FS_Interval
<1>4. InWindow(ages) = SubSeq(ages, n + 1, Len(ages))
  BY <1>2, <1>3 DEF InWindow
<1>5. \A i \in 1 .. Len(ages) - n : i + n \in n + 1 .. Len(ages) /\ ages[i + n] < Window
  BY <1>1 DEF Begins
<1>6. /\ InWindow(ages) \in Seq(0 .. Window) /\ Len(InWindow(ages)) = Len(ages) - n
      /\ \A i \in 1 .. Len(ages) - n : InWindow(ages)[i] = ages[i + n]
  BY <1>1, <1>4, EndFacts
<1> QED  BY <1>5, <1>6

-----------------------------------------------------------------------------
(* What the pacer remembers of the window is every run of the window: the  *)
(* runs it has forgotten are those that have left it.                      *)
RunsRemembered ==
    /\ recent \in Seq(0 .. Window) /\ OldestFirst(recent) /\ Len(recent) <= MaxRescans
    /\ ranAges \in Seq(0 .. Window)
    /\ \E n \in 0 .. Len(recent) : Begins(recent, n) /\ ranAges = InWindow(recent)

(* A fact nothing excuses is in one place: on its way, or on record and    *)
(* remembered.                                                             *)
FactsAccounted ==
    \A fact \in Facts :
        /\ fact \in remembered => factRows[fact] > 0
        /\ fact \notin excused =>
             /\ factRows[fact] <= 1 /\ (factRows[fact] = 1 => fact \in remembered)
             /\ \A i, j \in 1 .. Len(recording) : recording[i] = fact /\ recording[j] = fact => i = j
             /\ \A i \in 1 .. Len(recording) : recording[i] = fact => fact \notin remembered

FactsTyped ==
    /\ recording \in Seq(Facts) /\ remembered \subseteq Facts /\ excused \subseteq Facts
    /\ factRows \in [Facts -> Nat]

ScansTyped ==
    /\ domVersion \in 0 .. MaxChanges /\ hides \in Finds
    /\ armedIn \in {NoTimer} \cup 0 .. Window
    /\ asking \subseteq 0 .. MaxChanges
    /\ lastRun \in 0 .. MaxChanges /\ shownVersion \in -1 .. MaxChanges
    /\ newest \in -1 .. MaxChanges /\ overtaken \in BOOLEAN

PaceInv ==
    /\ ScansTyped /\ FactsTyped /\ RunsRemembered /\ FactsAccounted
    /\ ChangeIsOwed /\ StaleOnlyByOvertaking

-----------------------------------------------------------------------------
LEMMA RecordKeeps ==
    ASSUME FactsTyped, FactsAccounted, NEW fact \in Facts, Record(fact)
    PROVE  FactsTyped' /\ FactsAccounted'
<1>1. CASE fact \in remembered
  BY <1>1 DEF Record, journalVars, FactsTyped, FactsAccounted
<1>2. CASE fact \notin remembered
  <2>1. /\ recording' = Append(recording, fact) /\ remembered' = remembered /\ factRows' = factRows
        /\ excused' = IF RecordsOf(fact) > 0 THEN excused \cup {fact} ELSE excused
    BY <1>2 DEF Record
  <2>2. /\ recording \in Seq(Facts) /\ recording' \in Seq(Facts) /\ Len(recording') = Len(recording) + 1
        /\ \A i \in 1 .. Len(recording) : recording'[i] = recording[i]
        /\ recording'[Len(recording) + 1] = fact
    BY <2>1 DEF FactsTyped
  <2>3. fact \notin excused' => \A i \in 1 .. Len(recording) : recording[i] # fact
    <3> SUFFICES ASSUME NEW i \in 1 .. Len(recording), recording[i] = fact PROVE fact \in excused'
      OBVIOUS
    <3> DEFINE onTheWay == {k \in 1 .. Len(recording) : recording[k] = fact}
    <3>a. IsFiniteSet(1 .. Len(recording)) /\ onTheWay \subseteq 1 .. Len(recording)
      BY <2>2, FS_Interval
    <3>1. IsFiniteSet(onTheWay) /\ onTheWay # {}
      BY <3>a, FS_Subset
    <3>2. Cardinality(onTheWay) \in Nat /\ Cardinality(onTheWay) # 0
      BY <3>1, FS_EmptySet, FS_CardinalityType
    <3>3. RecordsOf(fact) > 0
      BY <3>2 DEF RecordsOf
    <3> QED  BY <2>1, <3>3
  <2>4. excused \subseteq excused' /\ excused' \subseteq Facts
    BY <2>1 DEF FactsTyped
  <2>5. FactsTyped'
    BY <2>1, <2>2, <2>4 DEF FactsTyped
  <2>6. FactsAccounted'
    <3> SUFFICES ASSUME NEW f \in Facts
                 PROVE  /\ f \in remembered' => factRows'[f] > 0
                        /\ f \notin excused' =>
                             /\ factRows'[f] <= 1 /\ (factRows'[f] = 1 => f \in remembered')
                             /\ \A i, j \in 1 .. Len(recording') :
                                    recording'[i] = f /\ recording'[j] = f => i = j
                             /\ \A i \in 1 .. Len(recording') : recording'[i] = f => f \notin remembered'
      BY DEF FactsAccounted
    <3>1. /\ f \in remembered => factRows[f] > 0
          /\ f \notin excused =>
               /\ factRows[f] <= 1 /\ (factRows[f] = 1 => f \in remembered)
               /\ \A i, j \in 1 .. Len(recording) : recording[i] = f /\ recording[j] = f => i = j
               /\ \A i \in 1 .. Len(recording) : recording[i] = f => f \notin remembered
      BY DEF FactsAccounted
    <3>2. \A i \in 1 .. Len(recording') : i \in 1 .. Len(recording) \/ i = Len(recording) + 1
      BY <2>2
    <3>3. CASE f = fact
      BY <1>2, <2>1, <2>2, <2>3, <2>4, <3>1, <3>2, <3>3
    <3>4. CASE f # fact
      BY <2>1, <2>2, <2>4, <3>1, <3>2, <3>4
    <3> QED  BY <3>3, <3>4
  <2> QED  BY <2>5, <2>6
<1> QED  BY <1>1, <1>2

LEMMA RunScanKeeps ==
    ASSUME FactsTyped, FactsAccounted, RunScan, ScansTyped
    PROVE  FactsTyped' /\ FactsAccounted' /\ lastRun' = domVersion /\ asking' \subseteq 0 .. MaxChanges
<1>1. lastRun' = domVersion /\ asking' \subseteq 0 .. MaxChanges
  BY DEF RunScan, ScansTyped
<1>2. CASE hides = "blinded"
  BY <1>1, <1>2, RecordKeeps DEF RunScan, Facts
<1>3. CASE hides # "blinded"
  BY <1>1, <1>3 DEF RunScan, journalVars, FactsTyped, FactsAccounted
<1> QED  BY <1>2, <1>3

LEMMA PaceInvInit == ScanPaceInit => PaceInv
<1> SUFFICES ASSUME ScanPaceInit PROVE PaceInv
  OBVIOUS
<1>1. Window \in Nat /\ MaxRescans \in Nat /\ MaxChanges \in Nat
  BY ScanPaceAssumption
<1>2. ScansTyped
  <2>1. -1 \in -1 .. MaxChanges /\ 0 \in 0 .. MaxChanges
    BY <1>1
  <2> QED  BY <2>1 DEF ScansTyped, ScanPaceInit, Finds
<1>3. FactsTyped /\ FactsAccounted
  BY DEF FactsTyped, FactsAccounted, ScanPaceInit
<1>4. RunsRemembered
  <2>1. recent = <<>> /\ ranAges = <<>> /\ Len(recent) = 0 /\ recent \in Seq(0 .. Window)
    BY DEF ScanPaceInit
  <2>2. Begins(recent, 0) /\ OldestFirst(recent)
    BY <2>1 DEF Begins, OldestFirst
  <2>3. InWindow(recent) \in Seq(0 .. Window) /\ Len(InWindow(recent)) = 0
    <3>a. recent \in Seq(0 .. Window) /\ Begins(recent, 0)
      BY <2>1, <2>2
    <3>1. InWindow(recent) \in Seq(0 .. Window) /\ Len(InWindow(recent)) = Len(recent) - 0
      BY <3>a, WindowFilters
    <3> QED  BY <2>1, <3>1
  <2>4. InWindow(recent) = ranAges
    BY <2>1, <2>3
  <2> QED  BY <1>1, <2>1, <2>2, <2>4 DEF RunsRemembered
<1>5. ChangeIsOwed /\ StaleOnlyByOvertaking
  BY DEF ScanPaceInit, ChangeIsOwed, StaleOnlyByOvertaking
<1> QED  BY <1>2, <1>3, <1>4, <1>5 DEF PaceInv

(* A run that fits is remembered behind those of the window.               *)
LEMMA FireKeeps == PaceInv /\ Fire => PaceInv'
<1> SUFFICES ASSUME PaceInv, Fire PROVE PaceInv'
  OBVIOUS
<1> DEFINE kept == InWindow(recent)
<1>1. /\ Window \in Nat \ {0} /\ MaxRescans \in Nat \ {0} /\ MaxChanges \in Nat
      /\ ScansTyped /\ FactsTyped /\ FactsAccounted /\ StaleOnlyByOvertaking /\ ChangeIsOwed
      /\ recent \in Seq(0 .. Window) /\ OldestFirst(recent) /\ Len(recent) <= MaxRescans
      /\ ranAges = kept
  BY ScanPaceAssumption DEF PaceInv, RunsRemembered
<1>2. PICK n \in 0 .. Len(recent) : Begins(recent, n)
  BY DEF PaceInv, RunsRemembered
<1>3. /\ kept \in Seq(0 .. Window) /\ Len(kept) = Len(recent) - n
      /\ \A i \in 1 .. Len(recent) - n : kept[i] = recent[i + n] /\ recent[i + n] < Window
  BY <1>1, <1>2, WindowFilters
<1>4. OldestFirst(kept)
  <2> SUFFICES ASSUME NEW i \in 1 .. Len(kept), NEW j \in 1 .. Len(kept), i < j
               PROVE  kept[i] >= kept[j]
    BY DEF OldestFirst
  <2>1. i + n \in 1 .. Len(recent) /\ j + n \in 1 .. Len(recent) /\ i + n < j + n
    BY <1>2, <1>3
  <2> QED  BY <1>1, <1>3, <2>1 DEF OldestFirst
<1>5. \/ /\ Len(kept) >= MaxRescans /\ armedIn' = WhenAffordable(kept) /\ recent' = kept
         /\ UNCHANGED <<ranAges, lastRun, asking, journalVars>>
      \/ /\ Len(kept) < MaxRescans /\ armedIn' = NoTimer /\ recent' = Append(kept, 0)
         /\ ranAges' = Append(ranAges, 0) /\ RunScan
  BY <1>3, <1>1 DEF Fire
<1>6. UNCHANGED <<domVersion, hides, shownVersion, newest, overtaken>>
  BY DEF Fire
<1>7. Begins(kept, 0) /\ Len(kept) \in Nat
  <2>1. Len(kept) \in Nat
    BY <1>1, <1>2, <1>3
  <2>2. \A i \in 1 .. Len(kept) : kept[i] < Window
    BY <1>3
  <2> HIDE DEF kept
  <2> QED  BY <2>1, <2>2 DEF Begins
<1> HIDE DEF kept
<1>8. CASE Len(kept) >= MaxRescans /\ armedIn' = WhenAffordable(kept) /\ recent' = kept
           /\ UNCHANGED <<ranAges, lastRun, asking, journalVars>>
  <2>1. /\ InWindow(kept) \in Seq(0 .. Window) /\ Len(InWindow(kept)) = Len(kept) - 0
        /\ \A i \in 1 .. Len(kept) - 0 : InWindow(kept)[i] = kept[i + 0]
    BY <1>3, <1>7, WindowFilters
  <2>2. InWindow(kept) = kept
    BY <1>3, <1>7, <2>1
  <2>3. 0 \in 0 .. Len(kept) /\ Len(kept) <= MaxRescans
    BY <1>1, <1>2, <1>3, <1>7
  <2>4. RunsRemembered'
    BY <1>1, <1>3, <1>4, <1>7, <1>8, <2>2, <2>3 DEF RunsRemembered
  <2>5. Head(kept) \in 0 .. Window
    BY <1>1, <1>3, <1>7, <1>8
  <2>6. armedIn' \in 0 .. Window
    BY <1>1, <1>8, <2>5 DEF WhenAffordable
  <2>7. ScansTyped' /\ ChangeIsOwed' /\ StaleOnlyByOvertaking'
    BY <1>1, <1>6, <1>8, <2>6 DEF ScansTyped, ChangeIsOwed, StaleOnlyByOvertaking, NoTimer
  <2>8. FactsTyped' /\ FactsAccounted'
    BY <1>1, <1>8 DEF FactsTyped, FactsAccounted, journalVars
  <2> QED  BY <2>4, <2>7, <2>8 DEF PaceInv
<1>9. CASE Len(kept) < MaxRescans /\ armedIn' = NoTimer /\ recent' = Append(kept, 0)
           /\ ranAges' = Append(ranAges, 0) /\ RunScan
  <2>1. /\ recent' \in Seq(0 .. Window) /\ Len(recent') = Len(kept) + 1
        /\ \A i \in 1 .. Len(kept) : recent'[i] = kept[i]
        /\ recent'[Len(kept) + 1] = 0
    BY <1>1, <1>3, <1>9
  <2>2. \A i \in 1 .. Len(kept) : kept[i] \in 0 .. Window /\ kept[i] < Window
    <3>1. \A i \in 1 .. Len(kept) : kept[i] \in 0 .. Window
      <4>1. kept \in Seq(0 .. Window) /\ Window \in Nat
        BY <1>1, <1>3
      <4> QED  BY <4>1
    <3> QED  BY <1>7, <3>1 DEF Begins
  <2>3. \A i \in 1 .. Len(recent') : i \in 1 .. Len(kept) \/ i = Len(kept) + 1
    BY <1>7, <2>1
  <2>4. Begins(recent, 0)'
    BY <1>1, <1>7, <2>1, <2>2, <2>3 DEF Begins
  <2>5. OldestFirst(recent)'
    BY <1>4, <1>7, <2>1, <2>2, <2>3 DEF OldestFirst
  <2>6. /\ InWindow(recent') \in Seq(0 .. Window) /\ Len(InWindow(recent')) = Len(recent') - 0
        /\ \A i \in 1 .. Len(recent') - 0 : InWindow(recent')[i] = recent'[i + 0]
    BY <2>1, <2>4, WindowFilters DEF Begins
  <2>7. InWindow(recent') = recent'
    BY <1>7, <2>1, <2>6
  <2>8. ranAges' = recent'
    BY <1>1, <1>9
  <2>9. 0 \in 0 .. Len(recent') /\ Len(recent') <= MaxRescans
    BY <1>1, <1>7, <1>9, <2>1
  <2>10. RunsRemembered'
    BY <2>1, <2>4, <2>5, <2>7, <2>8, <2>9 DEF RunsRemembered
  <2>11. FactsTyped' /\ FactsAccounted' /\ lastRun' = domVersion /\ asking' \subseteq 0 .. MaxChanges
    BY <1>1, <1>9, RunScanKeeps
  <2>12. ScansTyped' /\ ChangeIsOwed' /\ StaleOnlyByOvertaking'
    BY <1>1, <1>6, <1>9, <2>11 DEF ScansTyped, ChangeIsOwed, StaleOnlyByOvertaking
  <2> QED  BY <2>10, <2>11, <2>12 DEF PaceInv
<1> QED  BY <1>5, <1>8, <1>9

(* Time passes alike for what is remembered and for what was run.          *)
LEMMA OlderKeeps ==
    ASSUME NEW ages \in Seq(0 .. Window), OldestFirst(ages)
    PROVE  /\ Older(ages) \in Seq(0 .. Window) /\ Len(Older(ages)) = Len(ages)
           /\ OldestFirst(Older(ages))
           /\ \A i \in 1 .. Len(ages) :
                Older(ages)[i] = IF ages[i] < Window THEN ages[i] + 1 ELSE Window
<1>1. Window \in Nat /\ Len(ages) \in Nat /\ \A i \in 1 .. Len(ages) : ages[i] \in 0 .. Window
  BY ScanPaceAssumption
<1>2. \A i \in 1 .. Len(ages) : (IF ages[i] < Window THEN ages[i] + 1 ELSE Window) \in 0 .. Window
  BY <1>1
<1>3. Older(ages) \in Seq(0 .. Window) /\ Len(Older(ages)) = Len(ages)
  BY <1>1, <1>2 DEF Older
<1>4. \A i \in 1 .. Len(ages) : Older(ages)[i] = IF ages[i] < Window THEN ages[i] + 1 ELSE Window
  BY DEF Older
<1>5. OldestFirst(Older(ages))
  <2> SUFFICES ASSUME NEW i \in 1 .. Len(ages), NEW j \in 1 .. Len(ages), i < j
               PROVE  Older(ages)[i] >= Older(ages)[j]
    BY <1>3 DEF OldestFirst
  <2>1. ages[i] >= ages[j]
    BY DEF OldestFirst
  <2> QED  BY <1>1, <1>4, <2>1
<1> QED  BY <1>3, <1>4, <1>5

LEMMA TickKeeps == PaceInv /\ Tick => PaceInv'
<1> SUFFICES ASSUME PaceInv, Tick PROVE PaceInv'
  OBVIOUS
<1> DEFINE kept == InWindow(recent)
           old == Older(recent)
           run == Older(kept)
<1>1. /\ Window \in Nat \ {0} /\ MaxRescans \in Nat /\ MaxChanges \in Nat
      /\ ScansTyped /\ FactsTyped /\ FactsAccounted /\ StaleOnlyByOvertaking /\ ChangeIsOwed
      /\ recent \in Seq(0 .. Window) /\ OldestFirst(recent) /\ Len(recent) <= MaxRescans
      /\ ranAges = kept
  BY ScanPaceAssumption DEF PaceInv, RunsRemembered
<1>2. PICK n \in 0 .. Len(recent) : Begins(recent, n)
  BY DEF PaceInv, RunsRemembered
<1>3. /\ kept \in Seq(0 .. Window) /\ Len(kept) = Len(recent) - n
      /\ \A i \in 1 .. Len(recent) - n : kept[i] = recent[i + n] /\ recent[i + n] < Window
  BY <1>1, <1>2, WindowFilters
<1>4. /\ recent' = old /\ ranAges' = InWindow(run)
      /\ armedIn' = IF armedIn > 0 THEN armedIn - 1 ELSE armedIn
      /\ UNCHANGED <<domVersion, hides, lastRun, asking, shownVersion, newest, overtaken, journalVars>>
  BY <1>1 DEF Tick
<1>5. /\ old \in Seq(0 .. Window) /\ Len(old) = Len(recent) /\ OldestFirst(old)
      /\ \A i \in 1 .. Len(recent) : old[i] = IF recent[i] < Window THEN recent[i] + 1 ELSE Window
  BY <1>1, OlderKeeps
<1>6. PICK m \in 0 .. Len(old) : Begins(old, m)
  BY <1>5, WindowBegins
<1>7. /\ Len(recent) \in Nat /\ Len(recent) = Len(kept) + n
      /\ \A i \in 1 .. n : recent[i] = Window
  <2>1. \A i \in 1 .. n : recent[i] >= Window /\ recent[i] \in 0 .. Window
    BY <1>1, <1>2 DEF Begins
  <2> QED  BY <1>1, <1>2, <1>3, <2>1
<1>8. n <= m
  <2> SUFFICES ASSUME m < n PROVE FALSE
    BY <1>2, <1>5, <1>6
  <2>1. m + 1 \in 1 .. n /\ m + 1 \in m + 1 .. Len(old) /\ m + 1 \in 1 .. Len(recent)
    BY <1>2, <1>5, <1>6
  <2>2. old[m + 1] < Window
    BY <1>6, <2>1 DEF Begins
  <2>3. recent[m + 1] = Window
    BY <1>7, <2>1
  <2>4. old[m + 1] = Window
    BY <1>1, <1>5, <2>1, <2>3
  <2> QED  BY <1>1, <2>2, <2>4
<1>9. OldestFirst(kept)
  <2> SUFFICES ASSUME NEW i \in 1 .. Len(kept), NEW j \in 1 .. Len(kept), i < j
               PROVE  kept[i] >= kept[j]
    BY DEF OldestFirst
  <2>1. i + n \in 1 .. Len(recent) /\ j + n \in 1 .. Len(recent) /\ i + n < j + n
    BY <1>2, <1>3
  <2> QED  BY <1>1, <1>3, <2>1 DEF OldestFirst
<1>10. /\ run \in Seq(0 .. Window) /\ Len(run) = Len(kept)
       /\ \A i \in 1 .. Len(kept) : run[i] = IF kept[i] < Window THEN kept[i] + 1 ELSE Window
  BY <1>3, <1>9, OlderKeeps
<1> HIDE DEF kept, old, run
<1>11. \A i \in 1 .. Len(run) : i + n \in 1 .. Len(old) /\ run[i] = old[i + n]
  BY <1>2, <1>3, <1>5, <1>7, <1>10
<1>12. m - n \in 0 .. Len(run) /\ Len(run) = Len(old) - n
  BY <1>2, <1>5, <1>6, <1>7, <1>8, <1>10
<1>13. Begins(run, m - n)
  <2>1. \A i \in 1 .. m - n : i + n \in 1 .. m /\ i \in 1 .. Len(run)
    BY <1>2, <1>6, <1>8, <1>12
  <2>2. \A i \in m - n + 1 .. Len(run) : i + n \in m + 1 .. Len(old) /\ i \in 1 .. Len(run)
    BY <1>2, <1>6, <1>8, <1>12
  <2> QED  BY <1>6, <1>11, <1>12, <2>1, <2>2 DEF Begins
<1> DEFINE d == m - n
<1>d. Begins(run, d)
  BY <1>13
<1>e. d \in Int /\ d = m - n
  BY <1>2, <1>6
<1> HIDE DEF d
<1>14. /\ InWindow(run) \in Seq(0 .. Window) /\ Len(InWindow(run)) = Len(run) - d
       /\ \A i \in 1 .. Len(run) - d : InWindow(run)[i] = run[i + d]
  BY <1>10, <1>d, WindowFilters
<1>15. /\ InWindow(old) \in Seq(0 .. Window) /\ Len(InWindow(old)) = Len(old) - m
       /\ \A i \in 1 .. Len(old) - m : InWindow(old)[i] = old[i + m]
  BY <1>5, <1>6, WindowFilters
<1>16. InWindow(run) = InWindow(old)
  <2>1. Len(run) - d = Len(old) - m
    BY <1>2, <1>5, <1>6, <1>7, <1>12, <1>e
  <2>2. \A i \in 1 .. Len(old) - m : run[i + d] = old[i + m]
    <3> SUFFICES ASSUME NEW i \in 1 .. Len(old) - m PROVE run[i + d] = old[i + m]
      OBVIOUS
    <3>1. i + d \in 1 .. Len(run) /\ (i + d) + n = i + m
      BY <1>2, <1>5, <1>6, <1>7, <1>8, <1>12, <1>e
    <3> QED  BY <1>11, <3>1
  <2>3. \A i \in 1 .. Len(old) - m : InWindow(run)[i] = InWindow(old)[i]
    BY <1>14, <1>15, <2>1, <2>2
  <2> DEFINE a == InWindow(run)
             b == InWindow(old)
  <2>4. /\ a \in Seq(0 .. Window) /\ b \in Seq(0 .. Window) /\ Len(a) = Len(b)
        /\ \A i \in 1 .. Len(b) : a[i] = b[i]
    BY <1>14, <1>15, <2>1, <2>3
  <2> HIDE DEF a, b
  <2>5. a = b
    BY <2>4
  <2> QED  BY <2>5 DEF a, b
<1>17. RunsRemembered'
  BY <1>1, <1>4, <1>5, <1>6, <1>15, <1>16 DEF RunsRemembered
<1>18. armedIn' \in {NoTimer} \cup 0 .. Window /\ (armedIn # NoTimer => armedIn' # NoTimer)
  BY <1>1, <1>4 DEF ScansTyped, NoTimer
<1>19. ScansTyped' /\ ChangeIsOwed' /\ StaleOnlyByOvertaking'
  BY <1>1, <1>4, <1>18 DEF ScansTyped, ChangeIsOwed, StaleOnlyByOvertaking
<1>20. FactsTyped' /\ FactsAccounted'
  BY <1>1, <1>4 DEF FactsTyped, FactsAccounted, journalVars
<1> QED  BY <1>17, <1>19, <1>20 DEF PaceInv

LEMMA RecordEndsKeeps ==
    ASSUME FactsTyped, FactsAccounted, NEW i \in 1 .. Len(recording), RecordEnds(i)
    PROVE  FactsTyped' /\ FactsAccounted'
<1> DEFINE fact == recording[i]
<1>1. recording \in Seq(Facts) /\ fact \in Facts /\ Len(recording) \in Nat
  BY DEF FactsTyped
<1>2. PICK ends \in {"written", "unanswered", "refused"} :
        /\ factRows' = IF ends = "refused" THEN factRows ELSE [factRows EXCEPT ![fact] = @ + 1]
        /\ remembered' = Remembered(fact, ends)
        /\ excused' = IF ends = "unanswered" THEN excused \cup {fact} ELSE excused
  BY DEF RecordEnds
<1>3. /\ recording' \in Seq(Facts) /\ Len(recording') = Len(recording) - 1
      /\ \A j \in 1 .. Len(recording) - 1 :
            recording'[j] = IF j < i THEN recording[j] ELSE recording[j + 1]
  BY <1>1, RemoveAtFacts DEF RecordEnds
<1>4. factRows \in [Facts -> Nat] /\ remembered \subseteq Facts /\ excused \subseteq Facts
  BY DEF FactsTyped
<1>5. /\ \A f \in Facts \ {fact} : factRows'[f] = factRows[f]
      /\ factRows'[fact] = IF ends = "refused" THEN factRows[fact] ELSE factRows[fact] + 1
      /\ factRows' \in [Facts -> Nat]
  BY <1>1, <1>2, <1>4
<1>6. /\ remembered' = IF ends = "written" THEN remembered \cup {fact} ELSE remembered
      /\ remembered' \subseteq Facts /\ excused' \subseteq Facts
  BY <1>1, <1>2, <1>4 DEF Remembered
<1>7. FactsTyped'
  BY <1>3, <1>5, <1>6 DEF FactsTyped
<1> DEFINE from(j) == IF j < i THEN j ELSE j + 1
<1>8. /\ \A j \in 1 .. Len(recording') :
            from(j) \in 1 .. Len(recording) /\ from(j) # i /\ recording'[j] = recording[from(j)]
      /\ \A j, k \in 1 .. Len(recording') : from(j) = from(k) => j = k
  BY <1>1, <1>3
<1> HIDE DEF from, fact
<1>9. FactsAccounted'
  <2> SUFFICES ASSUME NEW f \in Facts
               PROVE  /\ f \in remembered' => factRows'[f] > 0
                      /\ f \notin excused' =>
                           /\ factRows'[f] <= 1 /\ (factRows'[f] = 1 => f \in remembered')
                           /\ \A j, k \in 1 .. Len(recording') :
                                  recording'[j] = f /\ recording'[k] = f => j = k
                           /\ \A j \in 1 .. Len(recording') : recording'[j] = f => f \notin remembered'
    BY DEF FactsAccounted
  <2>1. /\ f \in remembered => factRows[f] > 0
        /\ f \notin excused =>
             /\ factRows[f] <= 1 /\ (factRows[f] = 1 => f \in remembered)
             /\ \A j, k \in 1 .. Len(recording) : recording[j] = f /\ recording[k] = f => j = k
             /\ \A j \in 1 .. Len(recording) : recording[j] = f => f \notin remembered
    BY DEF FactsAccounted
  <2>2. factRows[f] \in Nat /\ factRows'[f] \in Nat /\ excused \subseteq excused'
    BY <1>2, <1>4, <1>5
  <2>3. CASE f # fact
    <3>1. factRows'[f] = factRows[f] /\ (f \in remembered' <=> f \in remembered)
      BY <1>5, <1>6, <2>3
    <3>2. ASSUME f \notin excused'
          PROVE  /\ f \notin excused
                 /\ \A j, k \in 1 .. Len(recording') : recording'[j] = f /\ recording'[k] = f => j = k
                 /\ \A j \in 1 .. Len(recording') : recording'[j] = f => f \notin remembered
      <4>1. f \notin excused
        BY <2>2, <3>2
      <4>2. \A j, k \in 1 .. Len(recording') :
                recording'[j] = f /\ recording'[k] = f => from(j) = from(k)
        BY <1>8, <2>1, <4>1
      <4> QED  BY <1>8, <2>1, <4>1, <4>2
    <3> QED  BY <2>1, <3>1, <3>2
  <2>4. CASE f = fact
    <3>1. f \notin excused => \A j \in 1 .. Len(recording') : recording'[j] # f
      <4> SUFFICES ASSUME f \notin excused, NEW j \in 1 .. Len(recording'), recording'[j] = f PROVE FALSE
        OBVIOUS
      <4>1. from(j) \in 1 .. Len(recording) /\ from(j) # i /\ recording[from(j)] = f
        BY <1>8
      <4>2. recording[i] = f
        BY <2>4 DEF fact
      <4> QED  BY <2>1, <4>1, <4>2
    <3>2. f \notin excused => f \notin remembered /\ factRows[f] = 0
      <4>1. recording[i] = f
        BY <2>4 DEF fact
      <4> QED  BY <2>1, <2>2, <4>1
    <3>3. f \in remembered' => factRows'[f] > 0
      BY <1>5, <1>6, <2>1, <2>2, <2>4
    <3>4. f \notin excused' => f \notin excused /\ ends # "unanswered"
      BY <1>2, <2>4
    <3>5. f \notin excused' => factRows'[f] <= 1 /\ (factRows'[f] = 1 => f \in remembered')
      BY <1>5, <1>6, <2>4, <3>2, <3>4
    <3> QED  BY <2>2, <3>1, <3>3, <3>5
  <2> QED  BY <2>3, <2>4
<1> QED  BY <1>7, <1>9

LEMMA PaceInvStep == PaceInv /\ [ScanPaceNext]_paceVars => PaceInv'
<1> SUFFICES ASSUME PaceInv, [ScanPaceNext]_paceVars PROVE PaceInv'
  OBVIOUS
<1>1. MaxChanges \in Nat /\ Window \in Nat \ {0}
  BY ScanPaceAssumption
<1>2. ASSUME PageChanges PROVE PaceInv'
  <2>1. UNCHANGED <<recent, ranAges, lastRun, asking, shownVersion, newest, overtaken, journalVars>>
    BY <1>2 DEF PageChanges
  <2>2. armedIn' \in 0 .. Window
    BY <1>1, <1>2 DEF PageChanges, Armed, Debounce, PaceInv, ScansTyped, NoTimer
  <2>3. domVersion' \in 0 .. MaxChanges /\ hides' \in Finds
    BY <1>1, <1>2 DEF PageChanges, PaceInv, ScansTyped
  <2>4. ScansTyped' /\ ChangeIsOwed' /\ StaleOnlyByOvertaking'
    BY <2>1, <2>2, <2>3 DEF PaceInv, ScansTyped, ChangeIsOwed, StaleOnlyByOvertaking, NoTimer
  <2> QED  BY <2>1, <2>4 DEF PaceInv, FactsTyped, FactsAccounted, journalVars, RunsRemembered
<1>3. ASSUME NEW version \in asking, Answered(version) PROVE PaceInv'
  <2>1. /\ UNCHANGED <<domVersion, hides, armedIn, recent, ranAges, lastRun, journalVars>>
        /\ asking' = asking \ {version}
    BY <1>3 DEF Answered
  <2>2. version \in 0 .. MaxChanges /\ newest \in -1 .. MaxChanges /\ shownVersion \in -1 .. MaxChanges
        /\ overtaken \in BOOLEAN /\ StaleOnlyByOvertaking
    BY DEF PaceInv, ScansTyped
  <2>3. /\ shownVersion' \in -1 .. MaxChanges /\ newest' \in -1 .. MaxChanges
        /\ overtaken' \in BOOLEAN /\ StaleOnlyByOvertaking'
    <3>1. CASE UNCHANGED <<shownVersion, newest, overtaken>>
      BY <2>2, <3>1 DEF StaleOnlyByOvertaking
    <3>2. CASE /\ shownVersion' = version /\ newest' = (IF version > newest THEN version ELSE newest)
               /\ overtaken' = (overtaken \/ version < newest)
      <4>1. overtaken' \in BOOLEAN /\ (version < newest => overtaken')
        BY <3>2
      <4>2. version >= newest => newest' = version
        BY <1>1, <2>2, <3>2
      <4>3. shownVersion' \in -1 .. MaxChanges /\ newest' \in -1 .. MaxChanges
        BY <1>1, <2>2, <3>2
      <4>4. version < newest \/ version >= newest
        BY <1>1, <2>2
      <4> QED  BY <3>2, <4>1, <4>2, <4>3, <4>4 DEF StaleOnlyByOvertaking
    <3> QED  BY <1>3, <3>1, <3>2 DEF Answered, Verdicts
  <2>4. ScansTyped' /\ ChangeIsOwed'
    BY <2>1, <2>3 DEF PaceInv, ScansTyped, ChangeIsOwed
  <2> QED  BY <2>1, <2>3, <2>4 DEF PaceInv, FactsTyped, FactsAccounted, journalVars, RunsRemembered
<1>4. ASSUME NEW version \in asking, ScanFails(version) PROVE PaceInv'
  <2>1. /\ asking' = asking \ {version}
        /\ UNCHANGED <<domVersion, hides, armedIn, recent, ranAges, lastRun, shownVersion, newest, overtaken>>
    BY <1>4 DEF ScanFails
  <2>2. PICK cause \in Causes : Record(cause)
    BY <1>4 DEF ScanFails
  <2>3. FactsTyped' /\ FactsAccounted'
    BY <2>2, RecordKeeps DEF PaceInv, Facts
  <2>4. ScansTyped' /\ ChangeIsOwed' /\ StaleOnlyByOvertaking'
    BY <2>1 DEF PaceInv, ScansTyped, ChangeIsOwed, StaleOnlyByOvertaking
  <2> QED  BY <2>1, <2>3, <2>4 DEF PaceInv, RunsRemembered
<1>5. ASSUME NEW i \in 1 .. Len(recording), RecordEnds(i) PROVE PaceInv'
  <2>1. UNCHANGED <<domVersion, hides, armedIn, recent, ranAges, lastRun, asking, shownVersion, newest, overtaken>>
    BY <1>5 DEF RecordEnds
  <2>2. FactsTyped' /\ FactsAccounted'
    BY <1>5, RecordEndsKeeps DEF PaceInv
  <2>3. ScansTyped' /\ ChangeIsOwed' /\ StaleOnlyByOvertaking'
    BY <2>1 DEF PaceInv, ScansTyped, ChangeIsOwed, StaleOnlyByOvertaking
  <2> QED  BY <2>1, <2>2, <2>3 DEF PaceInv, RunsRemembered
<1>6. CASE UNCHANGED paceVars
  BY <1>6 DEF paceVars, PaceInv, ScansTyped, FactsTyped, FactsAccounted, RunsRemembered, ChangeIsOwed,
              StaleOnlyByOvertaking
<1> QED  BY <1>2, <1>3, <1>4, <1>5, <1>6, FireKeeps, TickKeeps DEF ScanPaceNext

(* The invariant of the pacer and its scans: its memory of the window is   *)
(* the window's runs, and a fact nothing excuses is in one place.          *)
THEOREM PaceInvAlways == ScanPaceSpec => []PaceInv
BY PaceInvInit, PaceInvStep, PTL DEF ScanPaceSpec

(* A page is scanned no oftener than it may be, no change of it goes       *)
(* unexamined for want of a timer, and a fact is put on record once        *)
(* (createPacer of pace.ts, scan of index.ts, createJournalOnce).          *)
THEOREM ChangesAlwaysExamined == ScanPaceSpec => []ChangesAreExamined
<1>1. PaceInv => ChangesAreExamined
  <2> SUFFICES ASSUME PaceInv PROVE ChangesAreExamined
    OBVIOUS
  <2>1. /\ recent \in Seq(0 .. Window) /\ Len(recent) <= MaxRescans /\ ranAges = InWindow(recent)
        /\ MaxRescans \in Nat
    BY ScanPaceAssumption DEF PaceInv, RunsRemembered
  <2>2. PICK n \in 0 .. Len(recent) : Begins(recent, n)
    BY DEF PaceInv, RunsRemembered
  <2>3. Len(ranAges) = Len(recent) - n
    BY <2>1, <2>2, WindowFilters
  <2>4. PaceKept
    BY <2>1, <2>2, <2>3 DEF PaceKept
  <2>5. ScanPaceTypeOK
    <3>1. \A i \in 1 .. Len(recent) : recent[i] \in 0 .. Window
      BY <2>1, ScanPaceAssumption
    <3>2. \A i \in 1 .. Len(recording) : recording[i] \in Facts
      BY DEF PaceInv, FactsTyped
    <3> QED  BY <2>1, <3>1, <3>2 DEF PaceInv, ScansTyped, FactsTyped, ScanPaceTypeOK
  <2>6. OneRowPerFact /\ RememberedIsWritten
    <3>1. factRows \in [Facts -> Nat] /\ remembered \subseteq Facts
      BY DEF PaceInv, FactsTyped
    <3> QED  BY <3>1 DEF PaceInv, FactsAccounted, OneRowPerFact, RememberedIsWritten
  <2> QED  BY <2>4, <2>5, <2>6 DEF PaceInv, ChangesAreExamined
<1> QED  BY <1>1, PaceInvAlways, PTL

-----------------------------------------------------------------------------
(***************************************************************************)
(* Collector, for any page and any budgets: a scan that does not say it    *)
(* was cut short has missed nothing, and comments spend of an element the  *)
(* allowance of its data attributes only.                                  *)
(***************************************************************************)
PageCandidates == [carrier : Carriers \cup {"html-comment"}, where : Nat]

(* What the walks keep, and how far they are.                              *)
WalkTyped ==
    /\ scanned \in Pages \cup {NoPage}
    /\ collectWalk \in {"before", "comments", "elements", "done"}
    /\ found \in Seq(PageCandidates) /\ Len(found) <= MaxCandidates
    /\ truncated \in BOOLEAN /\ outOfTime \in BOOLEAN /\ commentsCut \in BOOLEAN
    /\ carriersRead \in Nat /\ passed \in Nat
    /\ collectWalk \in {"before", "comments"} => passed <= scanned.comments
    /\ collectWalk \in {"elements", "done"} =>
           /\ passed <= Len(scanned.elements)
           /\ passed # 0 => carriersRead <= Len(scanned.elements[passed])

(* How many carriers the elements up to each have, and which can be        *)
(* afforded.                                                               *)
Carried == [i \in 0 .. Len(scanned.elements) |-> CarriersUpTo(i)]
AffordableOnes == {i \in 1 .. Len(scanned.elements) : Affordable(i)}

(* The comments spend at most their half, and an element at most a node    *)
(* and its carriers.                                                       *)
NodeHalf == IF HalfShare(MaxNodes) > 0 THEN HalfShare(MaxNodes) ELSE 1
NodesSpent ==
    /\ nodeCount \in Nat /\ nodeCount <= MaxNodes + 2
    /\ collectWalk \in {"before", "comments"} => nodeCount < NodeHalf
    /\ collectWalk = "elements" => nodeCount <= NodeHalf + passed /\ nodeCount <= MaxNodes + 1
CandidatesSpent ==
    /\ collectWalk \in {"before", "comments"} => Len(found) <= HalfShare(MaxCandidates)
    /\ collectWalk = "elements" /\ passed = 0 => Len(found) <= HalfShare(MaxCandidates)
    /\ collectWalk = "elements" /\ passed # 0 =>
           Len(found) <= HalfShare(MaxCandidates) + Carried[passed - 1] + carriersRead

(* The candidates are carriers of the page, and unless it is said that the *)
(* scan was cut short they are all that was come to.                       *)
CommentsPassed == IF collectWalk \in {"before", "comments"} THEN passed ELSE scanned.comments
ElementsPassed == IF collectWalk \in {"before", "comments"} THEN 0 ELSE passed
ReadOf == [i \in 1 .. ElementsPassed |->
               IF i = passed THEN carriersRead ELSE Len(scanned.elements[i])]

FoundOnThePage == ToSet(found) \subseteq CarriedByThePage
AllThatWasRead ==
    ~ truncated =>
        /\ \A i \in 1 .. CommentsPassed : Candidate("html-comment", i) \in ToSet(found)
        /\ \A i \in 1 .. ElementsPassed : \A j \in 1 .. ReadOf[i] :
               Candidate(scanned.elements[i][j], i) \in ToSet(found)
AffordedIsRead ==
    \A i \in 1 .. ElementsPassed : \A j \in 1 .. ReadOf[i] :
        i \in AffordableOnes /\ (scanned.elements[i][j] # "data-attr" \/ ~ commentsCut) =>
            Candidate(scanned.elements[i][j], i) \in ToSet(found)

(* Before the elements only comments are candidates; once the comments     *)
(* were cut short no data attribute becomes one, and nothing else but the  *)
(* ceiling keeps one from it.                                              *)
DataAttributes ==
    /\ commentsCut => truncated /\ collectWalk \notin {"before", "comments"}
    /\ commentsCut \/ collectWalk \in {"before", "comments"} =>
           \A c \in ToSet(found) : c.carrier # "data-attr"
    /\ collectWalk # "done" /\ truncated => commentsCut \/ Len(found) >= MaxCandidates

(* Why a walk that had time left stopped before the end.                   *)
StoppedForCause ==
    collectWalk = "done" =>
        /\ ElementRead
        /\ ~ truncated => passed = Len(scanned.elements)
        /\ ~ outOfTime /\ passed < Len(scanned.elements) =>
            \/ MaxNodes <= NodeHalf + passed + 1
            \/ MaxCandidates <= HalfShare(MaxCandidates) + Carried[passed]

CollectorInv ==
    /\ WalkTyped /\ NodesSpent /\ CandidatesSpent /\ FoundOnThePage /\ AllThatWasRead
    /\ AffordedIsRead /\ DataAttributes /\ StoppedForCause
    /\ collectWalk = "before" => nodeCount = 0 /\ found = <<>> /\ passed = 0 /\ ~ truncated

-----------------------------------------------------------------------------
LEMMA PagesAreRead ==
    ASSUME scanned \in Pages \cup {NoPage}
    PROVE  /\ scanned.comments \in Nat /\ scanned.elements \in Seq(Seq(Carriers))
           /\ Len(scanned.elements) \in Nat
           /\ \A i \in 1 .. Len(scanned.elements) :
                /\ Len(scanned.elements[i]) \in Nat
                /\ \A j \in 1 .. Len(scanned.elements[i]) : scanned.elements[i][j] \in Carriers
<1>1. scanned.comments \in Nat /\ scanned.elements \in Seq(Seq(Carriers))
  <2>1. CASE scanned \in Pages
    BY <2>1, CollectorAssumption
  <2>2. CASE scanned = NoPage
    BY <2>2 DEF NoPage
  <2>3. QED
    BY <2>1, <2>2
<1>2. ASSUME NEW i \in 1 .. Len(scanned.elements)
      PROVE  /\ Len(scanned.elements[i]) \in Nat
             /\ \A j \in 1 .. Len(scanned.elements[i]) : scanned.elements[i][j] \in Carriers
  <2>1. scanned.elements[i] \in Seq(Carriers)
    BY <1>1, ElementOfSeq
  <2>2. QED
    BY <2>1, ElementOfSeq
<1>3. QED
  BY <1>1, <1>2

LEMMA CarriersAreCounted ==
    ASSUME scanned \in Pages \cup {NoPage}
    PROVE  \A i \in 1 .. Len(scanned.elements) :
               IsFiniteSet(CarriersOf(i)) /\ Cardinality(CarriersOf(i)) = Len(scanned.elements[i])
<1> SUFFICES ASSUME NEW i \in 1 .. Len(scanned.elements)
             PROVE  IsFiniteSet(CarriersOf(i)) /\ Cardinality(CarriersOf(i)) = Len(scanned.elements[i])
  OBVIOUS
<1> DEFINE places == 1 .. Len(scanned.elements[i])
<1>1. Len(scanned.elements[i]) \in Nat
  BY PagesAreRead
<1>2. IsFiniteSet(places) /\ Cardinality(places) = Len(scanned.elements[i])
  <2>1. 1 \in Int /\ Len(scanned.elements[i]) \in Int
    BY <1>1
  <2>2. /\ IsFiniteSet(places)
        /\ Cardinality(places) = IF 1 > Len(scanned.elements[i]) THEN 0 ELSE Len(scanned.elements[i]) - 1 + 1
    BY <2>1, FS_Interval, Zenon
  <2>3. QED
    BY <1>1, <2>2
<1>3. CarriersOf(i) = {i} \X places
  BY DEF CarriersOf
<1>4. IsFiniteSet({i}) /\ Cardinality({i}) = 1
  BY FS_Singleton
<1> HIDE DEF places
<1>5. IsFiniteSet({i} \X places) /\ Cardinality({i} \X places) = 1 * Cardinality(places)
  BY <1>2, <1>4, FS_Product
<1>6. QED
  BY <1>1, <1>2, <1>3, <1>5

UpToSet(i) == UNION {CarriersOf(k) : k \in 1 .. i}

LEMMA OneMoreElement ==
    ASSUME scanned \in Pages \cup {NoPage}, NEW i \in 1 .. Len(scanned.elements)
    PROVE  UpToSet(i) = UpToSet(i - 1) \cup CarriersOf(i)
<1>1. Len(scanned.elements) \in Nat
  BY PagesAreRead
<1>2. \A k : k \in 1 .. i <=> k \in 1 .. i - 1 \/ k = i
  BY <1>1
<1>3. QED
  BY <1>2 DEF UpToSet

LEMMA UpToIsFinite ==
    ASSUME scanned \in Pages \cup {NoPage}, NEW i \in 0 .. Len(scanned.elements)
    PROVE  IsFiniteSet(UpToSet(i)) /\ CarriersUpTo(i) = Cardinality(UpToSet(i)) /\ CarriersUpTo(i) \in Nat
<1> DEFINE Endless == {k \in 0 .. Len(scanned.elements) : ~ IsFiniteSet(UpToSet(k))}
<1>1. Len(scanned.elements) \in Nat /\ Endless \subseteq Nat
  BY PagesAreRead
<1>2. Endless = {}
  <2> SUFFICES ASSUME Endless # {} PROVE FALSE
    OBVIOUS
  <2>1. PICK k \in Endless : \A l \in Endless : ~ (<<l, k>> \in OpToRel(<, Nat))
    <3> HIDE DEF Endless
    <3>1. QED
      BY <1>1, NatLessThanWellFounded, WFMin
  <2>2. k \in 0 .. Len(scanned.elements) /\ ~ IsFiniteSet(UpToSet(k))
    BY <2>1
  <2>3. k # 0
    <3>1. UpToSet(0) = {}
      BY DEF UpToSet
    <3>2. QED
      BY <2>2, <3>1, FS_EmptySet
  <2>4. k \in 1 .. Len(scanned.elements) /\ k - 1 \in 0 .. Len(scanned.elements)
    BY <1>1, <2>2, <2>3
  <2>5. <<k - 1, k>> \in OpToRel(<, Nat)
    BY <1>1, <2>4 DEF OpToRel
  <2>6. IsFiniteSet(UpToSet(k - 1))
    BY <2>1, <2>4, <2>5
  <2>7. IsFiniteSet(UpToSet(k - 1) \cup CarriersOf(k))
    BY <2>4, <2>6, CarriersAreCounted, FS_Union
  <2>8. QED
    BY <2>2, <2>4, <2>7, OneMoreElement
<1>3. IsFiniteSet(UpToSet(i))
  BY <1>2
<1>4. CarriersUpTo(i) = Cardinality(UpToSet(i))
  BY DEF CarriersUpTo, UpToSet
<1>5. QED
  BY <1>3, <1>4, FS_CardinalityType

(* An element adds its carriers to those of any elements before it.        *)
LEMMA CarriersAddUp ==
    ASSUME scanned \in Pages \cup {NoPage}
    PROVE  /\ \A i \in 0 .. Len(scanned.elements) : Carried[i] \in Nat /\ Carried[i] = CarriersUpTo(i)
           /\ \A i \in 1 .. Len(scanned.elements) : Carried[i] = Carried[i - 1] + Len(scanned.elements[i])
           /\ \A k \in 0 .. Len(scanned.elements), i \in 1 .. Len(scanned.elements) :
                  k < i => Carried[k] + Len(scanned.elements[i]) <= Carried[i]
<1>1. \A i \in 0 .. Len(scanned.elements) : Carried[i] \in Nat /\ Carried[i] = CarriersUpTo(i)
  BY UpToIsFinite DEF Carried
<1>2. ASSUME NEW k \in 0 .. Len(scanned.elements), NEW i \in 1 .. Len(scanned.elements), k < i
      PROVE  Cardinality(UpToSet(k) \cup CarriersOf(i)) = Carried[k] + Len(scanned.elements[i])
  <2>1. /\ IsFiniteSet(UpToSet(k)) /\ Cardinality(UpToSet(k)) = Carried[k] /\ Carried[k] \in Nat
        /\ IsFiniteSet(CarriersOf(i)) /\ Cardinality(CarriersOf(i)) = Len(scanned.elements[i])
        /\ Len(scanned.elements[i]) \in Nat
    BY <1>1, UpToIsFinite, CarriersAreCounted, PagesAreRead
  <2>2. UpToSet(k) \cap CarriersOf(i) = {}
    <3>1. \A l \in 1 .. k : l # i
      BY <1>2, PagesAreRead
    <3>2. QED
      BY <3>1 DEF UpToSet, CarriersOf
  <2>3. Cardinality(UpToSet(k) \cap CarriersOf(i)) = 0
    BY <2>2, FS_EmptySet, Zenon
  <2>4. Cardinality(UpToSet(k) \cup CarriersOf(i))
            = Cardinality(UpToSet(k)) + Cardinality(CarriersOf(i)) - Cardinality(UpToSet(k) \cap CarriersOf(i))
    BY <2>1, FS_Union
  <2>5. QED
    BY <2>1, <2>3, <2>4
<1>3. ASSUME NEW i \in 1 .. Len(scanned.elements)
      PROVE  Carried[i] = Carried[i - 1] + Len(scanned.elements[i])
  <2>1. i \in 0 .. Len(scanned.elements) /\ i - 1 \in 0 .. Len(scanned.elements) /\ i - 1 < i
    BY PagesAreRead
  <2>2. Carried[i] = Cardinality(UpToSet(i))
    BY <1>1, <2>1, UpToIsFinite
  <2>3. QED
    BY <1>2, <2>1, <2>2, OneMoreElement
<1>4. ASSUME NEW k \in 0 .. Len(scanned.elements), NEW i \in 1 .. Len(scanned.elements), k < i
      PROVE  Carried[k] + Len(scanned.elements[i]) <= Carried[i]
  <2>1. UpToSet(k) \cup CarriersOf(i) \in SUBSET UpToSet(i)
    <3>1. (\A l \in 1 .. k : l \in 1 .. i) /\ i \in 1 .. i
      BY <1>4, PagesAreRead
    <3>2. QED
      BY <3>1 DEF UpToSet
  <2>2. IsFiniteSet(UpToSet(i)) /\ Cardinality(UpToSet(i)) = Carried[i]
    <3>1. i \in 0 .. Len(scanned.elements)
      BY PagesAreRead
    <3>2. QED
      BY <1>1, <3>1, UpToIsFinite
  <2>3. Cardinality(UpToSet(k) \cup CarriersOf(i)) <= Cardinality(UpToSet(i))
    BY <2>1, <2>2, FS_Subset
  <2>4. QED
    BY <1>2, <1>4, <2>2, <2>3
<1>5. QED
  BY <1>1, <1>3, <1>4

LEMMA OneMoreFound ==
    ASSUME NEW S, NEW s \in Seq(S), NEW e \in S
    PROVE  /\ Append(s, e) \in Seq(S) /\ Len(Append(s, e)) = Len(s) + 1
           /\ ToSet(Append(s, e)) = ToSet(s) \cup {e}
<1>1. Append(s, e) \in Seq(S) /\ Len(Append(s, e)) = Len(s) + 1 /\ Len(s) \in Nat
  BY AppendProperties, LenProperties
<1>2. DOMAIN s = 1 .. Len(s) /\ DOMAIN Append(s, e) = 1 .. Len(s) + 1
  BY <1>1, LenProperties
<1>3. /\ \A i \in 1 .. Len(s) : Append(s, e)[i] = s[i]
      /\ Append(s, e)[Len(s) + 1] = e
  BY AppendProperties
<1>4. 1 .. Len(s) + 1 = (1 .. Len(s)) \cup {Len(s) + 1}
  BY <1>1
<1>5. QED
  BY <1>1, <1>2, <1>3, <1>4 DEF ToSet

(* A carrier that is handed over becomes a candidate, or is refused at the *)
(* ceiling and the refusal said.                                           *)
LEMMA CarrierHandedOver ==
    ASSUME found \in Seq(PageCandidates), Len(found) <= MaxCandidates, truncated \in BOOLEAN,
           NEW c \in Carriers \cup {"html-comment"}, NEW w \in Nat,
           \/ CollectedBecomes(AddCandidate(Collected, c, w))
           \/ CollectedBecomes(Examine(Collected, c, w))
    PROVE  /\ found' \in Seq(PageCandidates) /\ Len(found') <= MaxCandidates /\ truncated' \in BOOLEAN
           /\ Len(found') <= Len(found) + 1
           /\ ToSet(found) \subseteq ToSet(found')
           /\ ToSet(found') \subseteq ToSet(found) \cup {Candidate(c, w)}
           /\ truncated => truncated'
           /\ ~ truncated' => Candidate(c, w) \in ToSet(found')
           /\ Len(found) < MaxCandidates /\ (c # "data-attr" \/ ~ truncated) =>
                  Candidate(c, w) \in ToSet(found')
           /\ truncated' => truncated \/ Len(found') >= MaxCandidates
<1>1. Candidate(c, w) \in PageCandidates
  BY DEF Candidate, PageCandidates
<1>2. Len(found) \in Nat /\ MaxCandidates \in Nat
  BY LenProperties, CollectorAssumption
<1>3. CASE found' = found /\ truncated' = TRUE /\ Len(found) >= MaxCandidates
  BY <1>2, <1>3
<1>4. CASE found' = Append(found, Candidate(c, w)) /\ truncated' = truncated /\ Len(found) < MaxCandidates
  BY <1>1, <1>2, <1>4, OneMoreFound
<1>5. CASE found' = found /\ truncated' = truncated /\ truncated /\ c = "data-attr"
  BY <1>2, <1>5
<1>6. CASE CollectedBecomes(AddCandidate(Collected, c, w))
  <2>1. CASE Len(found) >= MaxCandidates
    BY <1>3, <1>6, <2>1 DEF CollectedBecomes, AddCandidate, Collected
  <2>2. CASE ~ (Len(found) >= MaxCandidates)
    BY <1>2, <1>4, <1>6, <2>2 DEF CollectedBecomes, AddCandidate, Collected
  <2>3. QED
    BY <2>1, <2>2
<1>7. CASE CollectedBecomes(Examine(Collected, c, w))
  <2>1. CASE Skipped(Collected, c)
    BY <1>5, <1>7, <2>1 DEF CollectedBecomes, Examine, Skipped, Collected
  <2>2. CASE ~ Skipped(Collected, c)
    BY <1>6, <1>7, <2>2 DEF Examine
  <2>3. QED
    BY <2>1, <2>2
<1>8. QED
  BY <1>6, <1>7

LEMMA PageStays ==
    scanned' = scanned =>
        Carried' = Carried /\ AffordableOnes' = AffordableOnes /\ CarriedByThePage' = CarriedByThePage
  BY DEF Carried, CarriersUpTo, CarriersOf, AffordableOnes, Affordable, CarriedByThePage, Candidate

LEMMA StartStep == CollectorInv /\ StartWalk => CollectorInv'
<1> SUFFICES ASSUME CollectorInv, StartWalk PROVE CollectorInv'
  OBVIOUS
<1> USE DEF StartWalk
<1>1. /\ collectWalk = "before" /\ collectWalk' = "comments" /\ scanned' \in Pages
      /\ passed' = 0 /\ found' = <<>> /\ ~ truncated' /\ nodeCount' = nodeCount
      /\ commentsCut' = FALSE
  BY DEF CollectorInv, DataAttributes
<1>2. scanned'.comments \in Nat
  BY <1>1, CollectorAssumption
<1>3. WalkTyped'
  BY <1>1, <1>2 DEF CollectorInv, WalkTyped
<1>4. NodesSpent' /\ CandidatesSpent'
  BY <1>1 DEF CollectorInv, NodesSpent, CandidatesSpent, NodeHalf, HalfShare
<1>5. FoundOnThePage'
  BY <1>1 DEF FoundOnThePage, ToSet
<1>6. CommentsPassed' = 0 /\ ElementsPassed' = 0
  BY <1>1 DEF CommentsPassed, ElementsPassed
<1>7. AllThatWasRead' /\ AffordedIsRead'
  BY <1>6 DEF AllThatWasRead, AffordedIsRead
<1>8. DataAttributes'
  BY <1>1 DEF DataAttributes, ToSet
<1>9. QED
  BY <1>1, <1>3, <1>4, <1>5, <1>7, <1>8 DEF CollectorInv, StoppedForCause

LEMMA CommentStep == CollectorInv /\ VisitComment => CollectorInv'
<1> SUFFICES ASSUME CollectorInv, VisitComment PROVE CollectorInv'
  OBVIOUS
<1>1. /\ collectWalk = "comments" /\ collectWalk' = "comments" /\ scanned' = scanned
      /\ passed' = passed + 1 /\ passed < scanned.comments /\ nodeCount' = nodeCount + 1
      /\ carriersRead' = carriersRead /\ outOfTime' = outOfTime /\ commentsCut' = commentsCut
      /\ nodeCount' < HalfShare(MaxNodes) /\ Len(found) < HalfShare(MaxCandidates)
  BY LenProperties, CollectorAssumption
     DEF VisitComment, OutOfBudget, HalfShare, CollectorInv, WalkTyped, NodesSpent
<1>2. scanned.comments \in Nat /\ passed \in Nat /\ MaxNodes \in Nat /\ MaxCandidates \in Nat
  BY PagesAreRead, CollectorAssumption DEF CollectorInv, WalkTyped
<1>3. /\ found' \in Seq(PageCandidates) /\ Len(found') <= MaxCandidates /\ truncated' \in BOOLEAN
      /\ Len(found') <= Len(found) + 1
      /\ ToSet(found) \subseteq ToSet(found')
      /\ ToSet(found') \subseteq ToSet(found) \cup {Candidate("html-comment", passed')}
      /\ truncated => truncated'
      /\ ~ truncated' => Candidate("html-comment", passed') \in ToSet(found')
      /\ truncated' => truncated \/ Len(found') >= MaxCandidates
  <2>1. passed' \in Nat /\ CollectedBecomes(AddCandidate(Collected, "html-comment", passed'))
    BY <1>1, <1>2 DEF VisitComment
  <2>2. found \in Seq(PageCandidates) /\ Len(found) <= MaxCandidates /\ truncated \in BOOLEAN
    BY DEF CollectorInv, WalkTyped
  <2>3. QED
    BY <2>1, <2>2, CarrierHandedOver
<1>4. WalkTyped'
  BY <1>1, <1>2, <1>3 DEF CollectorInv, WalkTyped
<1>5. NodesSpent'
  BY <1>1, <1>2 DEF CollectorInv, NodesSpent, NodeHalf, HalfShare
<1>6. CandidatesSpent'
  <2>1. Len(found) \in Nat /\ Len(found') \in Nat /\ HalfShare(MaxCandidates) \in Nat
    BY <1>2, <1>3, LenProperties DEF CollectorInv, WalkTyped, HalfShare
  <2>2. QED
    BY <1>1, <1>3, <2>1 DEF CandidatesSpent
<1>7. FoundOnThePage'
  <2>1. Candidate("html-comment", passed') \in CarriedByThePage
    BY <1>1, <1>2 DEF CarriedByThePage
  <2>2. QED
    BY <1>1, <1>3, <2>1, PageStays DEF CollectorInv, FoundOnThePage
<1>8. ElementsPassed' = 0 /\ CommentsPassed = passed /\ CommentsPassed' = passed'
  BY <1>1 DEF ElementsPassed, CommentsPassed
<1>9. AllThatWasRead' /\ AffordedIsRead'
  <2>1. \A i \in 1 .. passed' : i \in 1 .. passed \/ i = passed'
    BY <1>1, <1>2
  <2>2. ASSUME ~ truncated', NEW i \in 1 .. passed' PROVE Candidate("html-comment", i) \in ToSet(found')
    BY <1>3, <1>8, <2>1, <2>2 DEF CollectorInv, AllThatWasRead
  <2>3. QED
    BY <1>8, <2>2 DEF AllThatWasRead, AffordedIsRead, Candidate
<1>10. DataAttributes'
  <2>1. Candidate("html-comment", passed').carrier # "data-attr"
    BY DEF Candidate
  <2>2. \A c \in ToSet(found') : c.carrier # "data-attr"
    BY <1>1, <1>3, <2>1 DEF CollectorInv, DataAttributes
  <2>3. ~ commentsCut
    BY <1>1 DEF CollectorInv, DataAttributes
  <2>4. truncated => Len(found') >= MaxCandidates
    <3>1. Len(found) \in Nat /\ MaxCandidates \in Nat
      BY <1>2, LenProperties DEF CollectorInv, WalkTyped
    <3>2. truncated => Len(found) >= MaxCandidates
      BY <1>1, <2>3 DEF CollectorInv, DataAttributes
    <3>3. Len(found) < MaxCandidates
      BY <1>1, <1>2, <3>1 DEF HalfShare
    <3> QED BY <3>1, <3>2, <3>3
  <2>5. QED
    BY <1>1, <1>3, <2>2, <2>3, <2>4 DEF DataAttributes
<1>11. QED
  BY <1>1, <1>4, <1>5, <1>6, <1>7, <1>9, <1>10 DEF CollectorInv, StoppedForCause

LEMMA LeaveCommentsStep == CollectorInv /\ LeaveComments => CollectorInv'
<1> SUFFICES ASSUME CollectorInv, LeaveComments PROVE CollectorInv'
  OBVIOUS
<1>1. /\ collectWalk = "comments" /\ collectWalk' = "elements" /\ passed' = 0
      /\ scanned' = scanned /\ carriersRead' = carriersRead /\ found' = found
      /\ nodeCount' \in {nodeCount, nodeCount + 1} /\ truncated' \in BOOLEAN /\ outOfTime' \in BOOLEAN
      /\ ~ truncated' => ~ truncated /\ passed = scanned.comments
      /\ \/ truncated' = truncated /\ commentsCut' = commentsCut
         \/ truncated' = TRUE /\ commentsCut' = TRUE
      /\ commentsCut' \in BOOLEAN
  BY DEF LeaveComments, CollectorInv, WalkTyped
<1>2. MaxNodes \in Nat /\ Len(scanned.elements) \in Nat
  BY PagesAreRead, CollectorAssumption DEF CollectorInv, WalkTyped
<1>3. WalkTyped'
  BY <1>1, <1>2 DEF CollectorInv, WalkTyped
<1>4. NodesSpent' /\ CandidatesSpent'
  BY <1>1, <1>2 DEF CollectorInv, NodesSpent, CandidatesSpent, NodeHalf, HalfShare
<1>5. FoundOnThePage'
  BY <1>1, PageStays DEF CollectorInv, FoundOnThePage
<1>6. ElementsPassed' = 0 /\ CommentsPassed = passed /\ CommentsPassed' = scanned.comments
  BY <1>1 DEF ElementsPassed, CommentsPassed
<1>7. AllThatWasRead' /\ AffordedIsRead'
  BY <1>1, <1>6 DEF CollectorInv, AllThatWasRead, AffordedIsRead, Candidate
<1>8. DataAttributes'
  BY <1>1 DEF CollectorInv, DataAttributes
<1>9. QED
  BY <1>1, <1>3, <1>4, <1>5, <1>7, <1>8 DEF CollectorInv, StoppedForCause

(* Once the last element that was come to is read, all up to it are.       *)
LEMMA ReadSoFar ==
    ASSUME CollectorInv, collectWalk = "elements", ElementRead
    PROVE  /\ Len(found) \in Nat /\ Carried[passed] \in Nat
           /\ Len(found) <= HalfShare(MaxCandidates) + Carried[passed]
           /\ \A i \in 1 .. passed : i \in 1 .. ElementsPassed /\ ReadOf[i] = Len(scanned.elements[i])
<1>1. /\ passed \in 0 .. Len(scanned.elements) /\ Len(scanned.elements) \in Nat /\ Len(found) \in Nat
      /\ HalfShare(MaxCandidates) \in Nat /\ scanned \in Pages \cup {NoPage}
  BY PagesAreRead, LenProperties, CollectorAssumption DEF CollectorInv, WalkTyped, HalfShare
<1>2. Carried[passed] \in Nat
  BY <1>1, CarriersAddUp
<1>3. Len(found) <= HalfShare(MaxCandidates) + Carried[passed]
  <2>1. CASE passed = 0
    BY <1>1, <1>2, <2>1 DEF CollectorInv, CandidatesSpent
  <2>2. CASE passed # 0
    <3>1. passed \in 1 .. Len(scanned.elements) /\ passed - 1 \in 0 .. Len(scanned.elements)
      BY <1>1, <2>2
    <3>2. Carried[passed] = Carried[passed - 1] + Len(scanned.elements[passed])
      BY <1>1, <3>1, CarriersAddUp
    <3>3. Len(found) <= HalfShare(MaxCandidates) + Carried[passed - 1] + carriersRead
      BY <2>2 DEF CollectorInv, CandidatesSpent
    <3>4. Carried[passed - 1] \in Nat
      BY <1>1, <3>1, CarriersAddUp
    <3>5. carriersRead = Len(scanned.elements[passed]) /\ carriersRead \in Nat
      BY <2>2 DEF ElementRead, CollectorInv, WalkTyped
    <3>6. QED
      BY <1>1, <1>2, <3>2, <3>3, <3>4, <3>5
  <2>3. QED
    BY <2>1, <2>2
<1>4. ElementsPassed = passed
  BY DEF ElementsPassed
<1>5. \A i \in 1 .. passed : ReadOf[i] = Len(scanned.elements[i])
  BY <1>1, <1>4 DEF ReadOf, ElementRead
<1>6. QED
  BY <1>1, <1>2, <1>3, <1>4, <1>5

LEMMA ElementStep == CollectorInv /\ VisitElement => CollectorInv'
<1> SUFFICES ASSUME CollectorInv, VisitElement PROVE CollectorInv'
  OBVIOUS
<1>1. /\ collectWalk = "elements" /\ collectWalk' = "elements" /\ ElementRead
      /\ passed < Len(scanned.elements) /\ passed' = passed + 1 /\ carriersRead' = 0
      /\ scanned' = scanned /\ found' = found /\ truncated' = truncated /\ outOfTime' = outOfTime
      /\ commentsCut' = commentsCut /\ nodeCount' = nodeCount + 1 /\ nodeCount' < MaxNodes
  BY CollectorAssumption DEF VisitElement, OutOfBudget, CollectorInv, NodesSpent
<1>2. /\ passed \in Nat /\ Len(scanned.elements) \in Nat /\ MaxNodes \in Nat
      /\ \A i \in 1 .. Len(scanned.elements) : Len(scanned.elements[i]) \in Nat
  BY PagesAreRead, CollectorAssumption DEF CollectorInv, WalkTyped
<1>3. WalkTyped'
  BY <1>1, <1>2 DEF CollectorInv, WalkTyped
<1>4. NodesSpent'
  BY <1>1, <1>2 DEF CollectorInv, NodesSpent, NodeHalf, HalfShare
<1>5. CandidatesSpent'
  <2>1. passed' # 0 /\ passed' - 1 = passed /\ Carried' = Carried
    BY <1>1, <1>2, PageStays
  <2>2. Len(found) <= HalfShare(MaxCandidates) + Carried[passed] + 0
    BY <1>1, ReadSoFar, CollectorAssumption DEF HalfShare
  <2>3. QED
    BY <1>1, <2>1, <2>2 DEF CandidatesSpent, HalfShare
<1>6. FoundOnThePage'
  BY <1>1, PageStays DEF CollectorInv, FoundOnThePage
<1>7. /\ CommentsPassed' = CommentsPassed /\ ElementsPassed' = passed'
      /\ ReadOf'[passed'] = 0
      /\ \A i \in 1 .. passed : ReadOf'[i] = Len(scanned.elements[i])
  BY <1>1, <1>2 DEF CommentsPassed, ElementsPassed, ReadOf
<1>8. \A i \in 1 .. ElementsPassed' : \A j \in 1 .. ReadOf'[i] :
          i \in 1 .. ElementsPassed /\ j \in 1 .. ReadOf[i]
  <2>1. \A i \in 1 .. passed' : i \in 1 .. passed \/ i = passed'
    BY <1>1, <1>2
  <2>2. QED
    BY <1>1, <1>7, <2>1, ReadSoFar
<1>9. AllThatWasRead' /\ AffordedIsRead'
  BY <1>1, <1>7, <1>8, PageStays DEF CollectorInv, AllThatWasRead, AffordedIsRead, Candidate
<1>10. DataAttributes'
  BY <1>1 DEF CollectorInv, DataAttributes
<1>11. QED
  BY <1>1, <1>3, <1>4, <1>5, <1>6, <1>9, <1>10 DEF CollectorInv, StoppedForCause

(* What the half of the ceiling leaves.                                    *)
LEMMA RoomLeft ==
    ASSUME NEW m \in Nat, NEW half \in Nat, NEW before \in Nat, NEW own \in Nat, NEW r \in Nat, NEW f \in Nat,
           f <= half + before + r, r < own, before + own <= m - half
    PROVE  f < m
  OBVIOUS

LEMMA NoRoomLeft ==
    ASSUME NEW m \in Nat, NEW half \in Nat, NEW before \in Nat, NEW own \in Nat, NEW upTo \in Nat,
           own >= 1, before + own <= upTo, upTo <= m - half
    PROVE  ~ (m <= half + before)
  OBVIOUS

LEMMA CarrierStep == CollectorInv /\ ReadCarrier => CollectorInv'
<1> SUFFICES ASSUME CollectorInv, ReadCarrier PROVE CollectorInv'
  OBVIOUS
<1> DEFINE el == scanned.elements[passed]
           this == el[carriersRead + 1]
<1>1. /\ collectWalk = "elements" /\ collectWalk' = "elements" /\ passed # 0
      /\ carriersRead # Len(el) /\ carriersRead' = carriersRead + 1
      /\ scanned' = scanned /\ passed' = passed /\ nodeCount' = nodeCount /\ outOfTime' = outOfTime
      /\ commentsCut' = commentsCut /\ CollectedBecomes(Examine(Collected, this, passed))
  BY DEF ReadCarrier, ElementRead
<1>2. /\ passed \in 1 .. Len(scanned.elements) /\ Len(scanned.elements) \in Nat
      /\ Len(el) \in Nat /\ carriersRead \in Nat /\ carriersRead < Len(el)
      /\ \A i \in 1 .. Len(scanned.elements) : Len(scanned.elements[i]) \in Nat
  BY <1>1, PagesAreRead DEF CollectorInv, WalkTyped
<1>3. carriersRead + 1 \in 1 .. Len(el) /\ this \in Carriers /\ passed \in Nat
  BY <1>2, PagesAreRead DEF CollectorInv, WalkTyped
<1>4. /\ found' \in Seq(PageCandidates) /\ Len(found') <= MaxCandidates /\ truncated' \in BOOLEAN
      /\ Len(found') <= Len(found) + 1
      /\ ToSet(found) \subseteq ToSet(found')
      /\ ToSet(found') \subseteq ToSet(found) \cup {Candidate(this, passed)}
      /\ truncated => truncated'
      /\ ~ truncated' => Candidate(this, passed) \in ToSet(found')
      /\ Len(found) < MaxCandidates /\ (this # "data-attr" \/ ~ truncated) =>
             Candidate(this, passed) \in ToSet(found')
      /\ truncated' => truncated \/ Len(found') >= MaxCandidates
  <2>1. found \in Seq(PageCandidates) /\ Len(found) <= MaxCandidates /\ truncated \in BOOLEAN
    BY DEF CollectorInv, WalkTyped
  <2>2. this \in Carriers \cup {"html-comment"}
    BY <1>3
  <2> HIDE DEF this
  <2>3. QED
    BY <1>1, <1>3, <2>1, <2>2, CarrierHandedOver
<1>5. WalkTyped'
  BY <1>1, <1>2, <1>4 DEF CollectorInv, WalkTyped
<1>6. NodesSpent'
  BY <1>1 DEF CollectorInv, NodesSpent
<1>7. /\ MaxCandidates \in Nat /\ HalfShare(MaxCandidates) \in Nat
      /\ Carried[passed - 1] \in Nat /\ Carried[passed] = Carried[passed - 1] + Len(el)
      /\ Len(found) \in Nat /\ Len(found') \in Nat
      /\ Len(found) <= HalfShare(MaxCandidates) + Carried[passed - 1] + carriersRead
  <2>1. passed - 1 \in 0 .. Len(scanned.elements)
    BY <1>2
  <2>2. Carried[passed - 1] \in Nat /\ Carried[passed] = Carried[passed - 1] + Len(el)
    BY <1>2, <2>1, CarriersAddUp DEF CollectorInv, WalkTyped
  <2>3. Len(found) \in Nat /\ Len(found') \in Nat
    BY <1>4, LenProperties DEF CollectorInv, WalkTyped
  <2>4. QED
    BY <1>1, <2>2, <2>3, CollectorAssumption DEF HalfShare, CollectorInv, CandidatesSpent
<1>8. CandidatesSpent'
  <2>1. Len(found') <= HalfShare(MaxCandidates) + Carried[passed - 1] + (carriersRead + 1)
    BY <1>2, <1>4, <1>7
  <2>2. QED
    BY <1>1, <2>1, PageStays DEF CandidatesSpent, HalfShare
<1>9. FoundOnThePage'
  <2>1. Candidate(this, passed) \in CarriedByThePage
    BY <1>2, <1>3 DEF CarriedByThePage
  <2>2. QED
    BY <1>1, <1>4, <2>1, PageStays DEF CollectorInv, FoundOnThePage
<1>10. /\ CommentsPassed' = CommentsPassed /\ ElementsPassed' = passed /\ ElementsPassed = passed
       /\ ReadOf[passed] = carriersRead /\ ReadOf'[passed] = carriersRead + 1
       /\ \A i \in 1 .. passed : i # passed => ReadOf'[i] = ReadOf[i]
  BY <1>1, <1>2 DEF CommentsPassed, ElementsPassed, ReadOf
<1>11. \A i \in 1 .. passed : \A j \in 1 .. ReadOf'[i] :
           j \in 1 .. ReadOf[i] \/ (i = passed /\ j = carriersRead + 1)
  BY <1>2, <1>10
<1>12. AllThatWasRead'
  BY <1>1, <1>4, <1>10, <1>11 DEF CollectorInv, AllThatWasRead, Candidate
<1>13. AffordedIsRead'
  <2> SUFFICES ASSUME NEW i \in 1 .. passed, NEW j \in 1 .. ReadOf'[i],
                      i \in AffordableOnes, scanned.elements[i][j] # "data-attr" \/ ~ commentsCut
               PROVE  Candidate(scanned.elements[i][j], i) \in ToSet(found')
    BY <1>1, <1>10, PageStays DEF AffordedIsRead, Candidate
  <2>1. CASE j \in 1 .. ReadOf[i]
    BY <1>4, <1>10, <2>1 DEF CollectorInv, AffordedIsRead
  <2>2. CASE i = passed /\ j = carriersRead + 1
    <3>1. CarriersUpTo(passed) <= MaxCandidates - HalfShare(MaxCandidates)
      BY <2>2 DEF AffordableOnes, Affordable, HalfShare
    <3>2. CarriersUpTo(passed) = Carried[passed]
      BY <1>2, CarriersAddUp DEF CollectorInv, WalkTyped
    <3>3. Carried[passed - 1] + Len(el) <= MaxCandidates - HalfShare(MaxCandidates)
      BY <1>7, <3>1, <3>2
    <3>4. Len(found) < MaxCandidates
      <4> DEFINE half == HalfShare(MaxCandidates)
                 before == Carried[passed - 1]
                 own == Len(el)
                 f == Len(found)
      <4>1. /\ MaxCandidates \in Nat /\ half \in Nat /\ before \in Nat /\ f \in Nat
            /\ own \in Nat /\ carriersRead \in Nat /\ carriersRead < own
        BY <1>2, <1>7
      <4>2. f <= half + before + carriersRead
        BY <1>7
      <4>3. before + own <= MaxCandidates - half
        BY <3>3
      <4> HIDE DEF half, before, own, f
      <4>4. f < MaxCandidates
        BY <4>1, <4>2, <4>3, RoomLeft
      <4>5. QED
        BY <4>4 DEF f
    <3>5. truncated => commentsCut
      <4>1. Len(found) \in Nat /\ MaxCandidates \in Nat
        BY <1>7
      <4>2. QED
        BY <1>1, <3>4, <4>1 DEF CollectorInv, DataAttributes
    <3>6. this # "data-attr" \/ ~ truncated
      BY <2>2, <3>5
    <3>7. QED
      BY <1>4, <2>2, <3>4, <3>6
  <2>3. QED
    BY <1>11, <2>1, <2>2
<1>14. DataAttributes'
  <2>1. commentsCut => found' = found \/ this # "data-attr"
    <3>1. commentsCut => truncated
      BY DEF CollectorInv, DataAttributes
    <3>2. CASE truncated /\ this = "data-attr"
      BY <1>1, <3>2 DEF CollectedBecomes, Examine, Skipped, Collected
    <3>3. QED
      BY <3>1, <3>2
  <2>2. Candidate(this, passed).carrier = this
    BY DEF Candidate
  <2>3. commentsCut => \A c \in ToSet(found') : c.carrier # "data-attr"
    <3> SUFFICES ASSUME commentsCut, NEW c \in ToSet(found') PROVE c.carrier # "data-attr"
      OBVIOUS
    <3>1. \A d \in ToSet(found) : d.carrier # "data-attr"
      BY DEF CollectorInv, DataAttributes
    <3>2. c \in ToSet(found) \/ (c = Candidate(this, passed) /\ this # "data-attr")
      BY <1>4, <2>1
    <3>3. QED
      BY <2>2, <3>1, <3>2
  <2>4. truncated' => commentsCut \/ Len(found') >= MaxCandidates
    <3>1. truncated => commentsCut \/ Len(found) >= MaxCandidates
      BY <1>1 DEF CollectorInv, DataAttributes
    <3>2. Len(found) >= MaxCandidates => Len(found') >= MaxCandidates
      <4>1. CASE Len(found) >= MaxCandidates
        <5>1. found' = found
          BY <1>1, <4>1 DEF CollectedBecomes, Examine, AddCandidate, Collected
        <5>2. QED
          BY <4>1, <5>1
      <4>2. QED
        BY <4>1
    <3>3. QED
      BY <1>4, <3>1, <3>2
  <2>5. commentsCut' => truncated'
    BY <1>1, <1>4 DEF CollectorInv, DataAttributes
  <2>6. QED
    BY <1>1, <2>3, <2>4, <2>5 DEF DataAttributes
<1>15. QED
  BY <1>1, <1>5, <1>6, <1>8, <1>9, <1>12, <1>13, <1>14 DEF CollectorInv, StoppedForCause

LEMMA LeaveElementsStep == CollectorInv /\ LeaveElements => CollectorInv'
<1> SUFFICES ASSUME CollectorInv, LeaveElements PROVE CollectorInv'
  OBVIOUS
<1>1. /\ collectWalk = "elements" /\ collectWalk' = "done" /\ ElementRead
      /\ scanned' = scanned /\ passed' = passed /\ carriersRead' = carriersRead /\ found' = found
      /\ commentsCut' = commentsCut /\ (truncated => truncated')
      /\ nodeCount' \in {nodeCount, nodeCount + 1} /\ truncated' \in BOOLEAN /\ outOfTime' \in BOOLEAN
      /\ ~ truncated' => ~ truncated /\ passed = Len(scanned.elements)
      /\ ~ outOfTime' /\ passed < Len(scanned.elements) =>
             OutOfBudget(nodeCount + 1, MaxNodes, MaxCandidates)
  <2>1. \/ passed = Len(scanned.elements) /\ truncated' = truncated
        \/ passed < Len(scanned.elements) /\ truncated' = TRUE
    BY DEF LeaveElements
  <2>2. passed \in Nat /\ Len(scanned.elements) \in Nat
    BY PagesAreRead DEF CollectorInv, WalkTyped
  <2>3. nodeCount' \in {nodeCount, nodeCount + 1} /\ truncated' \in BOOLEAN /\ outOfTime' \in BOOLEAN
    BY DEF LeaveElements, CollectorInv, WalkTyped
  <2>4. ~ truncated' => ~ truncated /\ passed = Len(scanned.elements)
    BY <2>1
  <2>5. ~ outOfTime' /\ passed < Len(scanned.elements) => OutOfBudget(nodeCount + 1, MaxNodes, MaxCandidates)
    <3>1. passed < Len(scanned.elements) => passed # Len(scanned.elements)
      BY <2>2
    <3>2. QED
      BY <3>1 DEF LeaveElements
  <2>6. QED
    BY <2>1, <2>3, <2>4, <2>5 DEF LeaveElements, CollectorInv, WalkTyped
<1>2. WalkTyped'
  BY <1>1 DEF CollectorInv, WalkTyped
<1>3. MaxNodes \in Nat /\ MaxCandidates \in Nat /\ passed \in Nat /\ nodeCount \in Nat
  BY CollectorAssumption DEF CollectorInv, WalkTyped, NodesSpent
<1>4. NodesSpent' /\ CandidatesSpent'
  BY <1>1, <1>3 DEF CollectorInv, NodesSpent, CandidatesSpent
<1>5. FoundOnThePage'
  BY <1>1, PageStays DEF CollectorInv, FoundOnThePage
<1>6. CommentsPassed' = CommentsPassed /\ ElementsPassed' = ElementsPassed /\ ReadOf' = ReadOf
  BY <1>1 DEF CommentsPassed, ElementsPassed, ReadOf
<1>7. AllThatWasRead' /\ AffordedIsRead'
  BY <1>1, <1>6, PageStays DEF CollectorInv, AllThatWasRead, AffordedIsRead, Candidate
<1>8. StoppedForCause'
  <2> SUFFICES ASSUME ~ outOfTime', passed < Len(scanned.elements)
               PROVE  \/ MaxNodes <= NodeHalf + passed + 1
                      \/ MaxCandidates <= HalfShare(MaxCandidates) + Carried[passed]
    BY <1>1, PageStays DEF StoppedForCause, ElementRead, NodeHalf, HalfShare
  <2>1. nodeCount <= NodeHalf + passed /\ NodeHalf \in Nat /\ HalfShare(MaxCandidates) \in Nat
    BY <1>1, <1>3 DEF CollectorInv, NodesSpent, NodeHalf, HalfShare
  <2>2. CASE nodeCount + 1 >= MaxNodes
    BY <1>3, <2>1, <2>2
  <2>3. CASE Len(found) >= MaxCandidates
    BY <1>1, <1>3, <2>1, <2>3, ReadSoFar
  <2>4. QED
    BY <1>1, <2>2, <2>3 DEF OutOfBudget
<1>9. DataAttributes'
  BY <1>1 DEF CollectorInv, DataAttributes
<1>10. QED
  BY <1>1, <1>2, <1>4, <1>5, <1>7, <1>8, <1>9 DEF CollectorInv

LEMMA CollectorInvHolds == CollectorSpec => []CollectorInv
<1>1. CollectorInit => CollectorInv
  <2> SUFFICES ASSUME CollectorInit PROVE CollectorInv
    OBVIOUS
  <2> USE DEF CollectorInit
  <2>1. Len(<<>>) = 0 /\ <<>> \in Seq(PageCandidates)
    OBVIOUS
  <2>2. WalkTyped
    <3>1. found \in Seq(PageCandidates) /\ Len(found) <= MaxCandidates
      BY <2>1, CollectorAssumption
    <3>2. scanned.comments = 0 /\ passed <= scanned.comments
      BY DEF NoPage
    <3>3. QED
      BY <3>1, <3>2 DEF WalkTyped
  <2>3. NodesSpent
    BY CollectorAssumption DEF NodesSpent, NodeHalf
  <2>4. CandidatesSpent
    BY <2>1, CollectorAssumption DEF CandidatesSpent, HalfShare
  <2>5. FoundOnThePage
    BY DEF FoundOnThePage, ToSet
  <2>6. CommentsPassed = 0 /\ ElementsPassed = 0
    BY DEF CommentsPassed, ElementsPassed
  <2>7. AllThatWasRead /\ AffordedIsRead
    BY <2>6 DEF AllThatWasRead, AffordedIsRead
  <2>8. DataAttributes
    BY DEF DataAttributes, ToSet
  <2>9. QED
    BY <2>2, <2>3, <2>4, <2>5, <2>7, <2>8 DEF CollectorInv, StoppedForCause
<1>2. CollectorInv /\ [CollectorNext]_collectorVars => CollectorInv'
  <2> SUFFICES ASSUME CollectorInv, [CollectorNext]_collectorVars PROVE CollectorInv'
    OBVIOUS
  <2>1. CASE UNCHANGED collectorVars
    <3>1. /\ CommentsPassed' = CommentsPassed /\ ElementsPassed' = ElementsPassed /\ ReadOf' = ReadOf
          /\ ElementRead' = ElementRead /\ Carried' = Carried /\ AffordableOnes' = AffordableOnes
          /\ CarriedByThePage' = CarriedByThePage
      BY <2>1, PageStays DEF collectorVars, CommentsPassed, ElementsPassed, ReadOf, ElementRead
    <3>2. QED
      BY <2>1, <3>1 DEF collectorVars, CollectorInv, WalkTyped, NodesSpent, CandidatesSpent, FoundOnThePage,
                        AllThatWasRead, AffordedIsRead, DataAttributes, StoppedForCause, NodeHalf, HalfShare, Candidate
  <2>2. QED
    BY <2>1, StartStep, CommentStep, LeaveCommentsStep, ElementStep, CarrierStep, LeaveElementsStep
       DEF CollectorNext
<1>3. QED
  BY <1>1, <1>2, PTL DEF CollectorSpec

LEMMA TypedFromInv == CollectorInv => CollectorTypeOK
<1> SUFFICES ASSUME CollectorInv PROVE CollectorTypeOK
  OBVIOUS
<1>1. found \in Seq(PageCandidates)
  BY DEF CollectorInv, WalkTyped
<1>2. \A i \in 1 .. Len(found) : found[i].carrier \in Carriers \cup {"html-comment"}
  <2>1. \A i \in 1 .. Len(found) : found[i] \in PageCandidates
    BY <1>1, ElementOfSeq
  <2>2. QED
    BY <2>1 DEF PageCandidates
<1>3. QED
  BY <1>2, CollectorAssumption DEF CollectorInv, WalkTyped, NodesSpent, CollectorTypeOK

LEMMA NoneMissed == CollectorInv => CompleteUnlessTruncated
<1> SUFFICES ASSUME CollectorInv, collectWalk = "done", ~ truncated
             PROVE  /\ ToSet(found) = CarriedByThePage
                    /\ ScanOutcome = "nothing" <=> CarriedByThePage = {}
  BY DEF CompleteUnlessTruncated
<1>1. passed = Len(scanned.elements) /\ ElementRead
  BY DEF CollectorInv, StoppedForCause
<1>2. /\ CommentsPassed = scanned.comments /\ ElementsPassed = Len(scanned.elements)
      /\ \A i \in 1 .. Len(scanned.elements) : ReadOf[i] = Len(scanned.elements[i])
  <2>1. Len(scanned.elements) \in Nat
    BY PagesAreRead DEF CollectorInv, WalkTyped
  <2>2. QED
    BY <1>1, <2>1 DEF CommentsPassed, ElementsPassed, ReadOf, ElementRead
<1>3. CarriedByThePage \subseteq ToSet(found)
  <2>1. \A i \in 1 .. scanned.comments : Candidate("html-comment", i) \in ToSet(found)
    BY <1>2 DEF CollectorInv, AllThatWasRead
  <2>2. \A i \in 1 .. Len(scanned.elements) : \A j \in 1 .. Len(scanned.elements[i]) :
            Candidate(scanned.elements[i][j], i) \in ToSet(found)
    BY <1>2 DEF CollectorInv, AllThatWasRead
  <2>3. QED
    BY <2>1, <2>2 DEF CarriedByThePage
<1>4. ToSet(found) = CarriedByThePage
  BY <1>3 DEF CollectorInv, FoundOnThePage
<1>5. found = <<>> <=> ToSet(found) = {}
  <2>1. found \in Seq(PageCandidates) /\ Len(found) \in Nat /\ DOMAIN found = 1 .. Len(found)
    BY LenProperties DEF CollectorInv, WalkTyped
  <2>2. CASE found = <<>>
    BY <2>2 DEF ToSet
  <2>3. CASE found # <<>>
    <3>1. Len(found) # 0
      BY <2>1, <2>3, EmptySeq
    <3>2. 1 \in DOMAIN found
      BY <2>1, <3>1
    <3>3. QED
      BY <2>3, <3>2 DEF ToSet
  <2>4. QED
    BY <2>2, <2>3
<1>6. QED
  BY <1>4, <1>5 DEF ScanOutcome

LEMMA NoneStarved ==
    ASSUME CollectorInv, collectWalk = "done", ~ outOfTime,
           NEW i \in 1 .. Len(scanned.elements), Affordable(i), NEW c \in SparedCarriers(i)
    PROVE  Candidate(c, i) \in ToSet(found)
<1>1. i \in 1 .. Len(scanned.elements) /\ Affordable(i) /\ i \in AffordableOnes
  BY DEF AffordableOnes
<1>2. PICK j \in 1 .. Len(scanned.elements[i]) : scanned.elements[i][j] = c /\ (c # "data-attr" \/ ~ commentsCut)
  <2>1. DOMAIN scanned.elements[i] = 1 .. Len(scanned.elements[i])
    <3>1. scanned.elements \in Seq(Seq(Carriers))
      BY PagesAreRead DEF CollectorInv, WalkTyped
    <3>2. scanned.elements[i] \in Seq(Carriers)
      BY <1>1, <3>1, ElementOfSeq
    <3>3. QED
      BY <3>2, LenProperties
  <2>2. QED
    BY <2>1 DEF SparedCarriers, ToSet
<1>3. /\ passed \in 0 .. Len(scanned.elements) /\ Len(scanned.elements) \in Nat /\ ElementRead
      /\ Len(scanned.elements[i]) \in Nat /\ MaxNodes \in Nat /\ MaxCandidates \in Nat
  BY <1>1, PagesAreRead, CollectorAssumption DEF CollectorInv, WalkTyped, StoppedForCause
<1>4. CASE i <= passed
  <2>1. i \in 1 .. ElementsPassed /\ ReadOf[i] = Len(scanned.elements[i])
    BY <1>1, <1>3, <1>4 DEF ElementsPassed, ReadOf, ElementRead
  <2>2. QED
    BY <1>1, <1>2, <2>1 DEF CollectorInv, AffordedIsRead
<1>5. CASE passed < i
  <2>1. /\ i < MaxNodes - HalfShare(MaxNodes) /\ CarriersUpTo(i) = Carried[i]
        /\ Carried[i] <= MaxCandidates - HalfShare(MaxCandidates)
        /\ HalfShare(MaxNodes) = MaxNodes \div 2 /\ HalfShare(MaxCandidates) \in Nat
    <3>1. CarriersUpTo(i) = Carried[i]
      BY <1>1, <1>3, CarriersAddUp DEF CollectorInv, WalkTyped
    <3>2. QED
      BY <1>1, <1>3, <3>1 DEF Affordable, HalfShare
  <2>2. Carried[passed] \in Nat /\ Carried[passed] + Len(scanned.elements[i]) <= Carried[i]
    BY <1>1, <1>3, <1>5, CarriersAddUp DEF CollectorInv, WalkTyped
  <2>3. ~ (MaxNodes <= NodeHalf + passed + 1)
    BY <1>1, <1>3, <1>5, <2>1 DEF NodeHalf
  <2>4. ~ (MaxCandidates <= HalfShare(MaxCandidates) + Carried[passed])
    <3>1. Len(scanned.elements[i]) >= 1
      BY <1>2, <1>3
    <3>2. Carried[i] \in Nat
      BY <1>1, <1>3, CarriersAddUp DEF CollectorInv, WalkTyped
    <3>3. QED
      BY <1>3, <2>1, <2>2, <3>1, <3>2, NoRoomLeft
  <2>5. QED
    BY <1>1, <1>3, <1>5, <2>3, <2>4 DEF CollectorInv, StoppedForCause
<1>6. QED
  BY <1>1, <1>3, <1>4, <1>5

(* A scan that does not say it was cut short has missed nothing; and the   *)
(* comments keep nothing that an element within half the budgets has from  *)
(* being read but its data attributes, all of them once they were cut      *)
(* short: the two walks of collect.ts, for any page and any budgets.       *)
THEOREM ScanNeverMisses == CollectorSpec => []ScanMissesNothing
<1>1. ASSUME CollectorInv PROVE ElementsNotStarved
  <2>1. commentsCut => \A c \in ToSet(found) : c.carrier # "data-attr"
    BY <1>1 DEF CollectorInv, DataAttributes
  <2>2. QED
    BY <1>1, <2>1, NoneStarved DEF ElementsNotStarved
<1>2. CollectorInv => ScanMissesNothing
  BY <1>1, TypedFromInv, NoneMissed DEF ScanMissesNothing
<1>3. QED
  BY <1>2, CollectorInvHolds, PTL

-----------------------------------------------------------------------------
(***************************************************************************)
(* Injection, for any texts a page may hide: a page is edited on evidence  *)
(* only, hiding more is not judged milder, and the classifier only adds to *)
(* what the rules reached.                                                 *)
(***************************************************************************)
(* The texts of a page, numbered.                                          *)
InjectionTyped ==
    /\ Len(hiding) \in Nat
    /\ \A i \in 1 .. Len(hiding) : hiding[i].matched \subseteq Patterns /\ Consistent(hiding[i].matched)
    /\ judging \in {"unasked", "ruling", "preparing", "scoring", "storing", "answered"}
    /\ verdicts \in Seq((1 .. Len(hiding)) \X {"rules", "model"})
    /\ toScore \in Seq(1 .. Len(hiding)) /\ Len(toScore) <= MaxScored
    /\ scored \subseteq 1 .. Len(hiding)
    /\ ready \in BOOLEAN /\ storeFailed \in BOOLEAN /\ stored \in 0 .. Len(verdicts)

(* A set of natural numbers up to some bound is listed in order.           *)
Lists(list, n, S) ==
    /\ list \in [1 .. n -> S] /\ \A x \in S : \E i \in 1 .. n : list[i] = x
    /\ \A i, j \in 1 .. n : i < j => list[i] < list[j]

LEMMA LargestOfSome ==
    ASSUME NEW n \in Nat, NEW S \in SUBSET (1 .. n), S # {}
    PROVE  \E m \in S : \A x \in S : x <= m
<1> DEFINE Bounds == {b \in Nat : \A x \in S : x <= b}
<1>1. n \in Bounds /\ Bounds \subseteq Nat
  OBVIOUS
<1>2. PICK m \in Bounds : \A b \in Bounds : ~ (<<b, m>> \in OpToRel(<, Nat))
  <2> HIDE DEF Bounds
  <2>1. QED
    BY <1>1, NatLessThanWellFounded, WFMin
<1>3. m \in Nat /\ \A x \in S : x <= m
  BY <1>2
<1>4. m \in S
  <2> SUFFICES ASSUME m \notin S PROVE FALSE
    OBVIOUS
  <2>1. \A x \in S : x \in Nat /\ x <= m - 1 /\ x >= 1
    BY <1>3
  <2>2. m >= 1
    <3>1. PICK x \in S : TRUE
      OBVIOUS
    <3>2. x \in Nat /\ x >= 1 /\ x <= m
      BY <1>3, <2>1, <3>1
    <3>3. QED
      BY <1>3, <3>2
  <2>3. m - 1 \in Bounds
    BY <1>3, <2>1, <2>2
  <2>4. <<m - 1, m>> \in OpToRel(<, Nat)
    BY <1>3, <2>2 DEF OpToRel
  <2>5. QED
    BY <1>2, <2>3, <2>4
<1>5. QED
  BY <1>3, <1>4

LEMMA SomeAreListed ==
    ASSUME NEW n \in Nat, NEW S \in SUBSET (1 .. n)
    PROVE  Cardinality(S) \in Nat /\ \E list : Lists(list, Cardinality(S), S)
<1> DEFINE Unlisted == {m \in Nat : \E T \in SUBSET (1 .. n) :
                            Cardinality(T) = m /\ ~ \E list : Lists(list, m, T)}
<1>a. \A T \in SUBSET (1 .. n) : IsFiniteSet(T) /\ Cardinality(T) \in Nat
  <2>1. IsFiniteSet(1 .. n)
    BY FS_Interval
  <2>2. QED
    BY <2>1, FS_Subset, FS_CardinalityType
<1>1. Unlisted = {}
  <2> SUFFICES ASSUME Unlisted # {} PROVE FALSE
    OBVIOUS
  <2>1. PICK m \in Unlisted : \A k \in Unlisted : ~ (<<k, m>> \in OpToRel(<, Nat))
    <3>1. Unlisted \subseteq Nat
      OBVIOUS
    <3> HIDE DEF Unlisted
    <3>2. QED
      BY <3>1, NatLessThanWellFounded, WFMin
  <2>2. PICK T \in SUBSET (1 .. n) : Cardinality(T) = m /\ ~ \E list : Lists(list, m, T)
    BY <2>1
  <2>3. m \in Nat
    BY <2>1
  <2>4. T # {}
    <3> SUFFICES ASSUME T = {} PROVE \E list : Lists(list, m, T)
      BY <2>2
    <3>1. m = 0
      BY <2>2, FS_EmptySet
    <3>2. Lists([i \in 1 .. 0 |-> i], m, T)
      BY <3>1 DEF Lists
    <3>3. QED
      BY <3>2
  <2>5. PICK last \in T : \A x \in T : x <= last
    BY <2>4, LargestOfSome
  <2>6. m # 0 /\ Cardinality(T \ {last}) = m - 1
    BY <1>a, <2>2, <2>4, FS_EmptySet, FS_RemoveElement
  <2>7. m - 1 \in Nat /\ m - 1 \notin Unlisted
    <3>1. m - 1 \in Nat /\ <<m - 1, m>> \in OpToRel(<, Nat)
      BY <2>3, <2>6 DEF OpToRel
    <3>2. QED
      BY <2>1, <3>1
  <2>8. PICK rest : Lists(rest, m - 1, T \ {last})
    BY <2>2, <2>6, <2>7
  <2> DEFINE whole == [i \in 1 .. m |-> IF i = m THEN last ELSE rest[i]]
  <2>9. \A i \in 1 .. m - 1 : i # m /\ i \in 1 .. m /\ whole[i] = rest[i] /\ rest[i] \in T \ {last}
    BY <2>3, <2>7, <2>8 DEF Lists
  <2>10. m \in 1 .. m /\ whole[m] = last
    BY <2>3, <2>6
  <2>11. \A i \in 1 .. m : i = m \/ i \in 1 .. m - 1
    BY <2>3, <2>6
  <2> HIDE DEF whole
  <2>12. whole \in [1 .. m -> T]
    <3>1. \A i \in 1 .. m : whole[i] \in T
      BY <2>5, <2>9, <2>10, <2>11
    <3>2. QED
      BY <3>1 DEF whole
  <2>13. \A x \in T : \E i \in 1 .. m : whole[i] = x
    <3> SUFFICES ASSUME NEW x \in T, x # last PROVE \E i \in 1 .. m : whole[i] = x
      BY <2>10
    <3>1. PICK i \in 1 .. m - 1 : rest[i] = x
      BY <2>8 DEF Lists
    <3>2. QED
      BY <2>9, <3>1
  <2>14. ASSUME NEW i \in 1 .. m, NEW j \in 1 .. m, i < j PROVE whole[i] < whole[j]
    <3>1. i \in 1 .. m - 1
      BY <2>3, <2>14
    <3>2. CASE j = m
      <4>1. whole[i] \in T /\ whole[i] # last /\ whole[j] = last
        BY <2>9, <2>10, <3>1, <3>2
      <4>a. T \subseteq Nat
        BY <2>2
      <4>2. whole[i] <= last /\ whole[i] \in Nat /\ last \in Nat
        BY <2>5, <4>1, <4>a
      <4>3. QED
        BY <4>1, <4>2
    <3>3. CASE j \in 1 .. m - 1
      BY <2>8, <2>9, <2>14, <3>1, <3>3 DEF Lists
    <3>4. QED
      BY <2>11, <3>2, <3>3
  <2>15. Lists(whole, m, T)
    BY <2>12, <2>13, <2>14 DEF Lists
  <2>16. QED
    BY <2>2, <2>15
<1>2. Cardinality(S) \notin Unlisted
  BY <1>1
<1>3. QED
  BY <1>a, <1>2

(* InPageOrder names each of them once, in order.                          *)
LEMMA InPageOrderLists ==
    ASSUME NEW n \in Nat, NEW S \in SUBSET (1 .. n)
    PROVE  /\ Lists(InPageOrder(S), Cardinality(S), S)
           /\ InPageOrder(S) \in Seq(S) /\ Len(InPageOrder(S)) = Cardinality(S)
           /\ Cardinality(S) \in Nat
<1>1. Cardinality(S) \in Nat /\ \E list : Lists(list, Cardinality(S), S)
  BY SomeAreListed
<1>2. \E list \in [1 .. Cardinality(S) -> S] :
        \A i, j \in 1 .. Cardinality(S) : i < j => list[i] < list[j]
  BY <1>1 DEF Lists
<1>3. /\ InPageOrder(S) \in [1 .. Cardinality(S) -> S]
      /\ \A i, j \in 1 .. Cardinality(S) : i < j => InPageOrder(S)[i] < InPageOrder(S)[j]
  BY <1>2 DEF InPageOrder
<1>4. \A x \in S : \E i \in 1 .. Cardinality(S) : InPageOrder(S)[i] = x
  <2> DEFINE order == InPageOrder(S)
  <2> HIDE DEF order
  <2>a. IsFiniteSet(S) /\ IsFiniteSet(1 .. Cardinality(S)) /\ Cardinality(1 .. Cardinality(S)) = Cardinality(S)
    <3>1. IsFiniteSet(1 .. n)
      BY FS_Interval
    <3>2. IsFiniteSet(1 .. Cardinality(S))
      BY <1>1, FS_Interval
    <3>3. Cardinality(1 .. Cardinality(S)) = Cardinality(S)
      <4>1. Cardinality(1 .. Cardinality(S)) = IF 1 > Cardinality(S) THEN 0 ELSE Cardinality(S) - 1 + 1
        BY <1>1, FS_Interval
      <4>2. QED
        BY <1>1, <4>1
    <3>4. QED
      BY <3>1, <3>2, <3>3, FS_Subset
  <2>1. \A i, j \in 1 .. Cardinality(S) : order[i] = order[j] => i = j
    <3> SUFFICES ASSUME NEW i \in 1 .. Cardinality(S), NEW j \in 1 .. Cardinality(S), i < j
                 PROVE  order[i] # order[j]
      BY <1>1
    <3>a. S \subseteq Nat
      OBVIOUS
    <3>1. order[i] < order[j] /\ order[i] \in Nat /\ order[j] \in Nat
      BY <1>3, <3>a DEF order
    <3>2. QED
      BY <3>1
  <2>2. order \in [1 .. Cardinality(S) -> S]
    BY <1>3 DEF order
  <2>3. \A x \in S : \E i \in 1 .. Cardinality(S) : order[i] = x
    <3> SUFFICES ASSUME NEW x \in S, \A i \in 1 .. Cardinality(S) : order[i] # x PROVE FALSE
      OBVIOUS
    <3>1. order \in [1 .. Cardinality(S) -> S \ {x}]
      BY <2>2
    <3>2. IsFiniteSet(S \ {x}) /\ Cardinality(S \ {x}) = Cardinality(S) - 1
      BY <2>a, FS_RemoveElement
    <3>3. Cardinality(S \ {x}) < Cardinality(1 .. Cardinality(S))
      BY <1>1, <2>a, <3>2
    <3>4. \E i, j \in 1 .. Cardinality(S) : i # j /\ order[i] = order[j]
      <4> DEFINE places == 1 .. Cardinality(S)
      <4>1. IsFiniteSet(places) /\ Cardinality(S \ {x}) < Cardinality(places) /\ order \in [places -> S \ {x}]
        BY <2>a, <3>1, <3>3
      <4> HIDE DEF places
      <4>2. \E i, j \in places : i # j /\ order[i] = order[j]
        BY <3>2, <4>1, FS_PigeonHole
      <4>3. QED
        BY <4>2 DEF places
    <3>5. QED
      BY <2>1, <3>4
  <2>4. QED
    BY <2>3 DEF order
<1>5. QED
  BY <1>1, <1>3, <1>4 DEF Lists

-----------------------------------------------------------------------------
LEMMA TwoOfMany ==
    ASSUME NEW S, IsFiniteSet(S)
    PROVE  Cardinality(S) >= 2 <=> \E x, y \in S : x # y
<1>1. Cardinality(S) \in Nat
  BY FS_CardinalityType
<1>2. ASSUME \A x, y \in S : x = y PROVE Cardinality(S) < 2
  <2>1. CASE S = {}
    BY <2>1, FS_EmptySet
  <2>2. CASE S # {}
    <3>1. PICK x \in S : TRUE
      BY <2>2
    <3>2. S = {x}
      BY <1>2, <3>1
    <3>3. QED
      BY <3>2, FS_Singleton
  <2>3. QED
    BY <2>1, <2>2
<1>3. ASSUME NEW x \in S, NEW y \in S, x # y PROVE Cardinality(S) >= 2
  <2>1. Cardinality(S) # 0
    BY FS_EmptySet
  <2>2. Cardinality(S) # 1
    <3>1. ~ \E z : S = {z}
      BY <1>3
    <3>2. QED
      BY <3>1, FS_Singleton
  <2>3. QED
    BY <1>1, <2>1, <2>2
<1>4. QED
  BY <1>1, <1>2, <1>3

(* A signal, and what a text must match to give it.                        *)
SaidBy(signal, matched) ==
    CASE signal \in {"override", "secrecy", "system-prompt"} -> signal \in matched
      [] signal = "role-assignment" -> "role" \in matched
      [] signal = "vocative" -> Vocative(matched)
      [] signal = "conditional-identity" -> "conditional" \in matched
      [] signal = "tool-invocation" -> matched \cap {"tool-own", "tool-noun"} # {}
      [] signal = "sensitive-target" -> HandedOver(matched)
      [] signal = "char-anomaly" -> "anomaly" \in matched
      [] OTHER -> FALSE

LEMMA SignalsSaid ==
    ASSUME NEW matched
    PROVE  /\ \A signal : signal \in Signals(matched) <=> SaidBy(signal, matched)
           /\ Decisive(matched) = Signals(matched)
           /\ IsFiniteSet(Decisive(matched))
<1>1. ASSUME NEW signal PROVE signal \in Signals(matched) <=> SaidBy(signal, matched)
  BY DEF Signals, SaidBy
<1>2. \A signal \in Signals(matched) : signal \in StandsAlone \cup Corroborating
  BY <1>1 DEF SaidBy, StandsAlone, Corroborating
<1>3. IsFiniteSet(StandsAlone \cup Corroborating)
  <2>1. IsFiniteSet({"override", "role-assignment", "secrecy"})
    <3>1. {"override", "role-assignment", "secrecy"} = ({"override"} \cup {"role-assignment"}) \cup {"secrecy"}
      OBVIOUS
    <3>2. IsFiniteSet({"override"}) /\ IsFiniteSet({"override"} \cup {"role-assignment"})
      BY FS_Singleton, FS_AddElement
    <3>3. QED
      BY <3>1, <3>2, FS_AddElement
  <2>2. IsFiniteSet({"override", "role-assignment", "secrecy"} \cup {"conditional-identity"})
    BY <2>1, FS_AddElement
  <2>3. IsFiniteSet({"override", "role-assignment", "secrecy"} \cup {"conditional-identity"} \cup {"system-prompt"})
    BY <2>2, FS_AddElement
  <2>4. IsFiniteSet(StandsAlone)
    <3>1. StandsAlone = {"override", "role-assignment", "secrecy"} \cup {"conditional-identity"} \cup {"system-prompt"}
      BY DEF StandsAlone
    <3>2. QED
      BY <2>3, <3>1
  <2>5. IsFiniteSet(StandsAlone \cup {"vocative"})
    BY <2>4, FS_AddElement
  <2>6. IsFiniteSet((StandsAlone \cup {"vocative"}) \cup {"tool-invocation"})
    BY <2>5, FS_AddElement
  <2>7. IsFiniteSet(((StandsAlone \cup {"vocative"}) \cup {"tool-invocation"}) \cup {"sensitive-target"})
    BY <2>6, FS_AddElement
  <2>8. IsFiniteSet((((StandsAlone \cup {"vocative"}) \cup {"tool-invocation"}) \cup {"sensitive-target"}) \cup {"char-anomaly"})
    BY <2>7, FS_AddElement
  <2>9. StandsAlone \cup Corroborating
        = (((StandsAlone \cup {"vocative"}) \cup {"tool-invocation"}) \cup {"sensitive-target"}) \cup {"char-anomaly"}
    BY DEF Corroborating
  <2>10. QED
    BY <2>8, <2>9
<1>4. Decisive(matched) = Signals(matched)
  BY <1>2 DEF Decisive
<1>5. IsFiniteSet(Decisive(matched))
  BY <1>3, FS_Subset DEF Decisive
<1>6. QED
  BY <1>1, <1>4, <1>5

(* What the rules act on.                                                  *)
EditOn(matched) ==
    \/ Decisive(matched) \cap StandsAlone # {}
    \/ Strong(matched) # {}
    \/ \E x, y \in Decisive(matched) : x # y

LEMMA ActionsFollow ==
    ASSUME NEW matched
    PROVE  RulesAction(matched) = IF Decisive(matched) = {} THEN "silent"
                                  ELSE IF EditOn(matched) THEN "sanitize" ELSE "inform"
<1>1. Cardinality(Decisive(matched)) >= 2 <=> \E x, y \in Decisive(matched) : x # y
  BY SignalsSaid, TwoOfMany
<1>2. Confidence(matched) = IF EditOn(matched) THEN "high" ELSE "medium"
  BY <1>1 DEF Confidence, EditOn
<1>3. DecideAction("high", "rules") = "sanitize" /\ DecideAction("medium", "rules") = "inform"
  BY DEF DecideAction
<1>4. QED
  BY <1>2, <1>3 DEF RulesAction

LEMMA MoreIsSaid ==
    ASSUME NEW matched, NEW more, matched \subseteq more
    PROVE  Decisive(matched) \subseteq Decisive(more) /\ Strong(matched) \subseteq Strong(more)
<1>1. ASSUME NEW signal, SaidBy(signal, matched) PROVE SaidBy(signal, more)
  BY <1>1 DEF SaidBy, Vocative, Addressed, HandedOver
<1>2. Decisive(matched) \subseteq Decisive(more)
  BY <1>1, SignalsSaid
<1>3. Strong(matched) \subseteq Strong(more)
  BY DEF Strong
<1>4. QED
  BY <1>2, <1>3

LEMMA MoreIsNotMilder ==
    ASSUME NEW matched, NEW more, matched \subseteq more
    PROVE  Mildness(RulesAction(more)) <= Mildness(RulesAction(matched))
<1>1. Decisive(matched) \subseteq Decisive(more) /\ (EditOn(matched) => EditOn(more))
  BY MoreIsSaid DEF EditOn
<1>2. Mildness("silent") = 3 /\ Mildness("inform") = 2 /\ Mildness("sanitize") = 1
  BY DEF Mildness
<1>3. CASE RulesAction(matched) = "silent"
  <2>1. Mildness(RulesAction(more)) \in {1, 2, 3}
    BY <1>2, ActionsFollow
  <2>2. QED
    BY <1>2, <1>3, <2>1
<1>4. CASE RulesAction(matched) = "inform"
  <2>1. Decisive(more) # {}
    BY <1>1, <1>4, ActionsFollow
  <2>2. Mildness(RulesAction(more)) \in {1, 2}
    BY <1>2, <2>1, ActionsFollow
  <2>3. QED
    BY <1>2, <1>4, <2>2
<1>5. CASE RulesAction(matched) = "sanitize"
  <2>1. Decisive(more) # {} /\ EditOn(more)
    BY <1>1, <1>5, ActionsFollow
  <2>2. RulesAction(more) = "sanitize"
    BY <2>1, ActionsFollow
  <2>3. QED
    BY <1>2, <1>5, <2>2
<1>6. QED
  BY <1>3, <1>4, <1>5, ActionsFollow

(* The evidence of EditNeedsEvidence, of one text.                         *)
Evidence(matched) ==
    \/ matched \cap LoneReasons # {}
    \/ {"vocative-ai", "imperative"} \subseteq matched
    \/ {"sensitive", "hand-over-strong"} \subseteq matched
    \/ Cardinality({family \in Families : family \cap matched # {}}) >= 2

LEMMA EditsHaveEvidence ==
    ASSUME NEW matched, RulesAction(matched) = "sanitize" PROVE Evidence(matched)
<1>1. EditOn(matched)
  BY ActionsFollow
<1>2. CASE Decisive(matched) \cap StandsAlone # {}
  <2>1. PICK signal \in StandsAlone : SaidBy(signal, matched)
    BY <1>2, SignalsSaid
  <2>2. matched \cap LoneReasons # {}
    BY <2>1 DEF SaidBy, StandsAlone, LoneReasons
  <2>3. QED
    BY <2>2 DEF Evidence
<1>3. CASE Strong(matched) # {}
  BY <1>3 DEF Strong, Evidence, LoneReasons
<1>4. CASE /\ Decisive(matched) \cap StandsAlone = {} /\ \E x, y \in Decisive(matched) : x # y
           /\ matched \cap LoneReasons = {}
  <2>1. PICK x, y \in Corroborating : x # y /\ SaidBy(x, matched) /\ SaidBy(y, matched)
    BY <1>4, SignalsSaid DEF Decisive
  <2> DEFINE Home(signal) ==
          CASE signal = "vocative" -> {"vocative-ai", "said-to-label"}
            [] signal = "tool-invocation" -> {"tool-noun"}
            [] signal = "sensitive-target" -> {"sensitive"}
            [] OTHER -> {"anomaly"}
  <2> DEFINE Met == {family \in Families : family \cap matched # {}}
  <2>2. ASSUME NEW signal \in Corroborating, SaidBy(signal, matched) PROVE Home(signal) \in Met
    <3>1. CASE signal = "vocative"
      BY <2>2, <3>1 DEF SaidBy, Vocative, Families
    <3>2. CASE signal = "tool-invocation"
      BY <1>4, <2>2, <3>2 DEF SaidBy, LoneReasons, Families
    <3>3. CASE signal = "sensitive-target"
      BY <2>2, <3>3 DEF SaidBy, HandedOver, Families
    <3>4. CASE signal = "char-anomaly"
      BY <2>2, <3>4 DEF SaidBy, Families
    <3>5. QED
      BY <3>1, <3>2, <3>3, <3>4 DEF Corroborating
  <2>3. Home(x) # Home(y)
    BY <2>1 DEF Corroborating
  <2>4. IsFiniteSet(Met)
    <3>1. IsFiniteSet({{"vocative-ai", "said-to-label"}} \cup {{"tool-noun"}})
      <4>1. IsFiniteSet({{"vocative-ai", "said-to-label"}})
        BY FS_Singleton
      <4>2. QED
        BY <4>1, FS_AddElement
    <3>2. IsFiniteSet(({{"vocative-ai", "said-to-label"}} \cup {{"tool-noun"}}) \cup {{"sensitive"}})
      BY <3>1, FS_AddElement
    <3>3. IsFiniteSet((({{"vocative-ai", "said-to-label"}} \cup {{"tool-noun"}}) \cup {{"sensitive"}}) \cup {{"anomaly"}})
      BY <3>2, FS_AddElement
    <3>4. Families = (({{"vocative-ai", "said-to-label"}} \cup {{"tool-noun"}}) \cup {{"sensitive"}}) \cup {{"anomaly"}}
      BY DEF Families
    <3>5. IsFiniteSet(Families)
      BY <3>3, <3>4
    <3>6. QED
      BY <3>5, FS_Subset
  <2>5. Home(x) \in Met /\ Home(y) \in Met
    BY <2>1, <2>2
  <2> HIDE DEF Home, Met
  <2>6. Cardinality(Met) >= 2
    BY <2>3, <2>4, <2>5, TwoOfMany
  <2>7. QED
    BY <2>6 DEF Met, Evidence
<1>5. QED
  BY <1>1, <1>2, <1>3, <1>4 DEF EditOn, Evidence

-----------------------------------------------------------------------------
(* The texts a rule decided, and those at no place that holds one.         *)
DecidedTexts == {i \in 1 .. Len(hiding) : Decisive(hiding[i].matched) # {}}
Outside == {i \in 1 .. Len(hiding) : \A j \in DecidedTexts : hiding[j].place # hiding[i].place}
Asked == FirstOf(InPageOrder(Outside))

(* What the rules reached comes first, and the classifier's verdicts are   *)
(* about texts no rule decided.                                            *)
RulesFirst ==
    /\ Len(Ruled) <= Len(verdicts)
    /\ \A k \in 1 .. Len(Ruled) : verdicts[k] = <<Ruled[k], "rules">>
    /\ \A k \in Len(Ruled) + 1 .. Len(verdicts) :
           verdicts[k][2] = "model" /\ Decisive(hiding[verdicts[k][1]].matched) = {}

(* What is left to score is undecided, and with what was scored it is what *)
(* a ready classifier is asked about.                                      *)
AskedAboutUndecided ==
    /\ \A k \in 1 .. Len(toScore) : toScore[k] \in Outside
    /\ ready => \A k \in 1 .. Len(Asked) :
            Asked[k] \in scored \/ \E l \in 1 .. Len(toScore) : toScore[l] = Asked[k]

InjectionInv ==
    /\ InjectionTyped
    /\ judging = "unasked" => hiding = <<>>
    /\ judging \in {"unasked", "ruling"} => verdicts = <<>> /\ scored = {} /\ stored = 0
    /\ judging \in {"unasked", "ruling", "preparing", "storing", "answered"} => toScore = <<>>
    /\ judging \notin {"unasked", "ruling"} => RulesFirst
    /\ judging = "preparing" => Len(verdicts) = Len(Ruled)
    /\ judging \in {"scoring", "storing", "answered"} => AskedAboutUndecided

LEMMA RuledIsListed ==
    ASSUME InjectionTyped
    PROVE  /\ Ruled \in Seq(1 .. Len(hiding)) /\ Len(Ruled) \in Nat
           /\ \A k \in 1 .. Len(Ruled) : Ruled[k] \in DecidedTexts
           /\ \A i \in DecidedTexts : \E k \in 1 .. Len(Ruled) : Ruled[k] = i
<1>1. Ruled = InPageOrder(DecidedTexts) /\ DecidedTexts \in SUBSET (1 .. Len(hiding)) /\ Len(hiding) \in Nat
  BY DEF Ruled, DecidedTexts, InjectionTyped
<1>2. /\ Lists(Ruled, Cardinality(DecidedTexts), DecidedTexts)
      /\ Ruled \in Seq(DecidedTexts) /\ Len(Ruled) = Cardinality(DecidedTexts)
      /\ Cardinality(DecidedTexts) \in Nat
  BY <1>1, InPageOrderLists
<1>3. Ruled \in Seq(1 .. Len(hiding))
  BY <1>1, <1>2, SeqMonotonic
<1>4. QED
  BY <1>2, <1>3 DEF Lists

LEMMA FirstAreOf ==
    ASSUME NEW S, NEW list \in Seq(S)
    PROVE  /\ FirstOf(list) \in Seq(S) /\ Len(FirstOf(list)) \in Nat
           /\ Len(FirstOf(list)) = (IF Len(list) < MaxScored THEN Len(list) ELSE MaxScored)
           /\ \A k \in 1 .. Len(FirstOf(list)) : k \in 1 .. Len(list) /\ FirstOf(list)[k] = list[k]
<1>1. MaxScored \in Nat /\ Len(list) \in Nat
  BY InjectionAssumption
<1>2. CASE Len(list) < MaxScored
  BY <1>1, <1>2 DEF FirstOf
<1>3. CASE ~ Len(list) < MaxScored
  BY <1>1, <1>3 DEF FirstOf
<1>4. QED
  BY <1>2, <1>3

LEMMA AskedAreOutside ==
    ASSUME InjectionTyped
    PROVE  /\ Asked \in Seq(1 .. Len(hiding)) /\ Len(Asked) \in Nat /\ Len(Asked) <= MaxScored
           /\ \A k \in 1 .. Len(Asked) : Asked[k] \in Outside
<1>1. Outside \in SUBSET (1 .. Len(hiding)) /\ Len(hiding) \in Nat /\ MaxScored \in Nat
  BY InjectionAssumption DEF Outside, InjectionTyped
<1>2. InPageOrder(Outside) \in Seq(Outside)
  BY <1>1, InPageOrderLists
<1>3. Asked \in Seq(Outside) /\ Len(Asked) \in Nat /\ Len(Asked) <= MaxScored
  BY <1>1, <1>2, FirstAreOf DEF Asked
<1>4. Asked \in Seq(1 .. Len(hiding))
  BY <1>1, <1>3, SeqMonotonic
<1>5. QED
  BY <1>3, <1>4, ElementOfSeq

(* With everything asked about scored, a text that was not is after eight  *)
(* that are undecided, or shares a place with one that is decided.         *)
LEMMA NotAskedIsExcused ==
    ASSUME InjectionTyped, \A k \in 1 .. Len(Asked) : Asked[k] \in scored,
           NEW i \in 1 .. Len(hiding), i \notin scored, i \in Outside
    PROVE  Cardinality({j \in 1 .. i - 1 : Decisive(hiding[j].matched) = {}}) >= MaxScored
<1> DEFINE Before == {j \in 1 .. i - 1 : Decisive(hiding[j].matched) = {}}
<1>1. Outside \in SUBSET (1 .. Len(hiding)) /\ Len(hiding) \in Nat /\ MaxScored \in Nat /\ i \in Nat
  BY InjectionAssumption DEF Outside, InjectionTyped
<1> DEFINE order == InPageOrder(Outside)
<1> DEFINE size == Cardinality(Outside)
<1>2. Lists(order, size, Outside) /\ order \in Seq(Outside) /\ Len(order) = size /\ size \in Nat
  BY <1>1, InPageOrderLists
<1>3. PICK k \in 1 .. size : order[k] = i
  BY <1>2 DEF Lists
<1>4. /\ Len(Asked) = (IF size < MaxScored THEN size ELSE MaxScored)
      /\ \A l \in 1 .. Len(Asked) : Asked[l] = order[l]
  BY <1>2, FirstAreOf DEF Asked
<1> HIDE DEF order, size
<1>5. k > MaxScored
  <2> SUFFICES ASSUME k <= MaxScored PROVE FALSE
    BY <1>1, <1>2
  <2>1. k \in 1 .. Len(Asked)
    BY <1>1, <1>2, <1>4
  <2>2. QED
    BY <1>3, <1>4, <2>1
<1>6. ASSUME NEW l \in 1 .. MaxScored PROVE order[l] \in Before
  <2>1. l \in 1 .. size /\ l < k
    BY <1>1, <1>2, <1>5
  <2>2. order[l] < order[k] /\ order[l] \in Outside
    BY <1>2, <2>1 DEF Lists
  <2>3. order[l] \in 1 .. i - 1
    <3>a. order[l] \in 1 .. Len(hiding)
      BY <1>1, <2>2, Zenon
    <3>1. order[l] \in Nat /\ order[l] >= 1
      BY <1>1, <3>a
    <3>2. QED
      BY <1>1, <1>3, <2>2, <3>1
  <2>4. Decisive(hiding[order[l]].matched) = {}
    <3>1. order[l] \notin DecidedTexts
      BY <2>2 DEF Outside
    <3>2. QED
      BY <2>2, <3>1 DEF Outside, DecidedTexts
  <2>5. QED
    BY <2>3, <2>4
<1>7. IsFiniteSet(1 .. i - 1) /\ Before \in SUBSET (1 .. i - 1)
  <2>1. 1 \in Int /\ i - 1 \in Int
    BY <1>1
  <2>2. IsFiniteSet(1 .. i - 1)
    BY <2>1, FS_Interval
  <2>3. QED
    BY <2>2
<1>8. IsFiniteSet(Before) /\ Cardinality(Before) \in Nat
  <2> HIDE DEF Before
  <2>1. QED
    BY <1>7, FS_Subset, FS_CardinalityType
<1>9. IsFiniteSet(1 .. MaxScored) /\ Cardinality(1 .. MaxScored) = MaxScored
  <2>1. /\ IsFiniteSet(1 .. MaxScored)
        /\ Cardinality(1 .. MaxScored) = IF 1 > MaxScored THEN 0 ELSE MaxScored - 1 + 1
    <3>1. 1 \in Int /\ MaxScored \in Int
      BY <1>1
    <3>2. QED
      BY <3>1, FS_Interval, Zenon
  <2>2. QED
    BY <1>1, <2>1
<1> DEFINE first == [l \in 1 .. MaxScored |-> order[l]]
<1>10. \A l, m \in 1 .. MaxScored : l # m => first[l] # first[m]
  <2> SUFFICES ASSUME NEW l \in 1 .. MaxScored, NEW m \in 1 .. MaxScored, l < m PROVE order[l] # order[m]
    BY <1>1
  <2>1. l \in 1 .. size /\ m \in 1 .. size
    BY <1>1, <1>2, <1>5
  <2>2. order[l] < order[m] /\ order[l] \in 1 .. Len(hiding) /\ order[m] \in 1 .. Len(hiding)
    BY <1>1, <1>2, <2>1 DEF Lists
  <2>3. QED
    BY <2>2
<1>11. Cardinality(Before) >= MaxScored
  <2> SUFFICES ASSUME Cardinality(Before) < MaxScored PROVE FALSE
    BY <1>1, <1>8
  <2>1. first \in [1 .. MaxScored -> Before]
    BY <1>6
  <2> DEFINE places == 1 .. MaxScored
  <2>2. /\ IsFiniteSet(places) /\ Cardinality(Before) < Cardinality(places) /\ first \in [places -> Before]
        /\ \A l, m \in places : l # m => first[l] # first[m]
    BY <1>9, <1>10, <2>1
  <2> HIDE DEF places, first, Before
  <2>3. \E l, m \in places : l # m /\ first[l] = first[m]
    BY <1>8, <2>2, FS_PigeonHole
  <2>4. QED
    BY <2>2, <2>3
<1>12. QED
  BY <1>11

-----------------------------------------------------------------------------
LEMMA InjectionInvInit == InjectionInit => InjectionInv
<1> SUFFICES ASSUME InjectionInit PROVE InjectionInv
  OBVIOUS
<1>1. /\ hiding = <<>> /\ judging = "unasked" /\ verdicts = <<>> /\ toScore = <<>>
      /\ scored = {} /\ ready = FALSE /\ stored = 0 /\ storeFailed = FALSE
  BY DEF InjectionInit
<1>2. InjectionTyped
  <2>1. /\ Len(hiding) = 0 /\ 1 .. Len(hiding) = {} /\ Len(verdicts) = 0 /\ Len(toScore) = 0
        /\ MaxScored \in Nat
    BY <1>1, InjectionAssumption
  <2>2. verdicts \in Seq((1 .. Len(hiding)) \X {"rules", "model"}) /\ toScore \in Seq(1 .. Len(hiding))
    BY <1>1
  <2>3. stored \in 0 .. Len(verdicts) /\ Len(toScore) <= MaxScored
    BY <1>1, <2>1
  <2>4. QED
    BY <1>1, <2>1, <2>2, <2>3 DEF InjectionTyped
<1>3. QED
  BY <1>1, <1>2 DEF InjectionInv

(* What is derived from the page alone does not change with the verdicts.  *)
LEMMA PageKept ==
    ASSUME UNCHANGED hiding
    PROVE  /\ Ruled' = Ruled /\ Outside' = Outside /\ Asked' = Asked
BY DEF Ruled, Outside, DecidedTexts, Asked

LEMMA AskKeeps == ASSUME InjectionInv, AskTheWorker PROVE InjectionInv'
<1>1. /\ judging = "unasked" /\ judging' = "ruling" /\ hiding' \in HiddenPages
      /\ verdicts' = <<>> /\ toScore' = <<>> /\ scored' = {} /\ stored' = 0
      /\ UNCHANGED <<ready, storeFailed>>
  BY DEF AskTheWorker, InjectionInv
<1>2. /\ Len(hiding') \in Nat
      /\ \A i \in 1 .. Len(hiding') : hiding'[i].matched \subseteq Patterns /\ Consistent(hiding'[i].matched)
  BY <1>1, InjectionAssumption
<1>3. InjectionTyped'
  <2>1. verdicts' \in Seq((1 .. Len(hiding')) \X {"rules", "model"}) /\ toScore' \in Seq(1 .. Len(hiding'))
    BY <1>1
  <2>2. Len(toScore') = 0 /\ Len(verdicts') = 0 /\ 0 <= MaxScored
    BY <1>1, InjectionAssumption
  <2>3. ready' \in BOOLEAN /\ storeFailed' \in BOOLEAN
    BY <1>1 DEF InjectionInv, InjectionTyped
  <2>4. QED
    BY <1>1, <1>2, <2>1, <2>2, <2>3 DEF InjectionTyped
<1>4. QED
  BY <1>1, <1>3 DEF InjectionInv

LEMMA DetectKeeps == ASSUME InjectionInv, DetectHidden PROVE InjectionInv'
<1>1. /\ judging = "ruling" /\ judging' = "preparing"
      /\ verdicts' = [i \in 1 .. Len(Ruled) |-> <<Ruled[i], "rules">>]
      /\ UNCHANGED <<hiding, toScore, scored, ready, stored, storeFailed>>
  BY DEF DetectHidden
<1>2. InjectionTyped /\ toScore = <<>> /\ scored = {} /\ stored = 0
  BY <1>1 DEF InjectionInv
<1>3. Ruled \in Seq(1 .. Len(hiding)) /\ Len(Ruled) \in Nat
  BY <1>2, RuledIsListed
<1>4. /\ verdicts' \in Seq((1 .. Len(hiding)) \X {"rules", "model"}) /\ Len(verdicts') = Len(Ruled)
      /\ \A k \in 1 .. Len(Ruled) : verdicts'[k] = <<Ruled[k], "rules">>
  <2>1. \A i \in 1 .. Len(Ruled) : <<Ruled[i], "rules">> \in (1 .. Len(hiding)) \X {"rules", "model"}
    BY <1>3
  <2>2. verdicts' \in [1 .. Len(Ruled) -> (1 .. Len(hiding)) \X {"rules", "model"}]
    BY <1>1, <2>1
  <2>3. verdicts' \in Seq((1 .. Len(hiding)) \X {"rules", "model"})
    BY <1>3, <2>2, SeqDef
  <2>4. QED
    BY <1>1, <1>3, <2>3
<1>5. InjectionTyped'
  <2>1. stored' \in 0 .. Len(verdicts')
    BY <1>1, <1>2, <1>3, <1>4
  <2>2. QED
    BY <1>1, <1>2, <1>4, <2>1 DEF InjectionTyped
<1>6. RulesFirst'
  BY <1>1, <1>3, <1>4, PageKept DEF RulesFirst
<1>7. Len(verdicts') = Len(Ruled')
  BY <1>1, <1>4, PageKept
<1>8. QED
  BY <1>1, <1>2, <1>5, <1>6, <1>7 DEF InjectionInv

LEMMA PreparedKeeps == ASSUME InjectionInv, AwaitPrepared PROVE InjectionInv'
<1>1. /\ judging = "preparing" /\ ready' \in BOOLEAN /\ judging' = "scoring"
      /\ toScore' = IF ready' THEN Undecided ELSE <<>>
      /\ UNCHANGED <<hiding, verdicts, scored, stored, storeFailed>>
  BY DEF AwaitPrepared
<1>2. InjectionTyped /\ RulesFirst /\ Len(verdicts) = Len(Ruled)
  BY <1>1 DEF InjectionInv
<1>3. LeftUndecided = Outside
  <2>1. \A i \in 1 .. Len(verdicts) : verdicts[i][1] = Ruled[i]
    BY <1>2 DEF RulesFirst
  <2>2. DecidedPlaces = {hiding[i].place : i \in DecidedTexts}
    <3>1. /\ \A k \in 1 .. Len(Ruled) : Ruled[k] \in DecidedTexts
          /\ \A i \in DecidedTexts : \E k \in 1 .. Len(Ruled) : Ruled[k] = i
      BY <1>2, RuledIsListed
    <3>2. DecidedPlaces = {hiding[Ruled[i]].place : i \in 1 .. Len(Ruled)}
      BY <1>2, <2>1 DEF DecidedPlaces
    <3>3. ASSUME NEW i \in 1 .. Len(Ruled)
          PROVE  hiding[Ruled[i]].place \in {hiding[j].place : j \in DecidedTexts}
      BY <3>1
    <3>4. ASSUME NEW j \in DecidedTexts
          PROVE  hiding[j].place \in {hiding[Ruled[i]].place : i \in 1 .. Len(Ruled)}
      <4>1. PICK k \in 1 .. Len(Ruled) : Ruled[k] = j
        BY <3>1
      <4>2. QED
        BY <4>1
    <3>5. QED
      BY <3>2, <3>3, <3>4
  <2>3. QED
    BY <2>2 DEF LeftUndecided, Outside
<1>4. Undecided = Asked
  BY <1>3 DEF Undecided, Asked
<1>5. /\ Asked \in Seq(1 .. Len(hiding)) /\ Len(Asked) \in Nat /\ Len(Asked) <= MaxScored
      /\ \A k \in 1 .. Len(Asked) : Asked[k] \in Outside
  BY <1>2, AskedAreOutside
<1>6. /\ toScore' \in Seq(1 .. Len(hiding)) /\ Len(toScore') <= MaxScored
      /\ \A k \in 1 .. Len(toScore') : toScore'[k] \in Outside
      /\ ready' => toScore' = Asked
  <2>1. CASE ready'
    BY <1>1, <1>4, <1>5, <2>1
  <2>2. CASE ~ ready'
    <3>1. toScore' = <<>> /\ MaxScored \in Nat
      BY <1>1, <2>2, InjectionAssumption
    <3>2. QED
      BY <2>2, <3>1
  <2>3. QED
    BY <2>1, <2>2
<1>7. InjectionTyped'
  BY <1>1, <1>2, <1>6 DEF InjectionTyped
<1>8. AskedAboutUndecided'
  BY <1>1, <1>5, <1>6, PageKept DEF AskedAboutUndecided
<1>9. RulesFirst'
  BY <1>1, <1>2, PageKept DEF RulesFirst
<1>10. QED
  BY <1>1, <1>7, <1>8, <1>9 DEF InjectionInv

LEMMA ScoreKeeps == ASSUME InjectionInv, Score PROVE InjectionInv'
<1>1. /\ judging = "scoring" /\ toScore # <<>> /\ scored' = scored \cup {Head(toScore)}
      /\ toScore' = Tail(toScore) /\ UNCHANGED <<hiding, judging, ready, stored, storeFailed>>
      /\ verdicts' \in {verdicts, Append(verdicts, <<Head(toScore), "model">>)}
  BY DEF Score, WhatWasReached
<1>2. InjectionTyped /\ RulesFirst /\ AskedAboutUndecided
  BY <1>1 DEF InjectionInv
<1>3. /\ toScore \in Seq(1 .. Len(hiding)) /\ Len(toScore) \in Nat /\ Len(toScore) >= 1
      /\ Head(toScore) = toScore[1] /\ Head(toScore) \in 1 .. Len(hiding)
      /\ Tail(toScore) \in Seq(1 .. Len(hiding)) /\ Len(Tail(toScore)) = Len(toScore) - 1
      /\ \A k \in 1 .. Len(toScore) - 1 : Tail(toScore)[k] = toScore[k + 1]
  <2>1. toScore \in Seq(1 .. Len(hiding)) /\ toScore # <<>>
    BY <1>1, <1>2 DEF InjectionTyped
  <2>2. Len(toScore) \in Nat /\ Len(toScore) >= 1
    BY <2>1, EmptySeq
  <2>3. QED
    BY <2>1, <2>2, HeadTailProperties
<1>4. Decisive(hiding[Head(toScore)].matched) = {}
  <2>1. Head(toScore) \in Outside
    BY <1>2, <1>3 DEF AskedAboutUndecided
  <2>2. QED
    BY <2>1 DEF Outside, DecidedTexts
<1>5. /\ verdicts' \in Seq((1 .. Len(hiding)) \X {"rules", "model"})
      /\ Len(verdicts) \in Nat /\ Len(verdicts') \in {Len(verdicts), Len(verdicts) + 1}
      /\ \A k \in 1 .. Len(verdicts) : verdicts'[k] = verdicts[k]
      /\ Len(verdicts') = Len(verdicts) + 1 => verdicts'[Len(verdicts) + 1] = <<Head(toScore), "model">>
  <2>1. verdicts \in Seq((1 .. Len(hiding)) \X {"rules", "model"}) /\ Len(verdicts) \in Nat
    BY <1>2 DEF InjectionTyped
  <2>2. <<Head(toScore), "model">> \in (1 .. Len(hiding)) \X {"rules", "model"}
    BY <1>3
  <2>3. CASE verdicts' = verdicts
    BY <2>1, <2>3
  <2>4. CASE verdicts' = Append(verdicts, <<Head(toScore), "model">>)
    BY <2>1, <2>2, <2>4, AppendProperties
  <2>5. QED
    BY <1>1, <2>3, <2>4
<1>6. InjectionTyped'
  <2>1. Len(toScore') <= MaxScored /\ stored' \in 0 .. Len(verdicts')
    BY <1>1, <1>2, <1>3, <1>5, InjectionAssumption DEF InjectionTyped
  <2>2. scored' \subseteq 1 .. Len(hiding)
    BY <1>1, <1>2, <1>3 DEF InjectionTyped
  <2>3. QED
    BY <1>1, <1>2, <1>3, <1>5, <2>1, <2>2 DEF InjectionTyped
<1>7. RulesFirst'
  <2>1. Len(Ruled) \in Nat /\ Len(Ruled) <= Len(verdicts)
    BY <1>2, RuledIsListed DEF RulesFirst
  <2>2. Len(Ruled) <= Len(verdicts') /\ \A k \in 1 .. Len(Ruled) : verdicts'[k] = <<Ruled[k], "rules">>
    <3>1. Len(Ruled) <= Len(verdicts')
      BY <1>5, <2>1
    <3>2. ASSUME NEW k \in 1 .. Len(Ruled) PROVE verdicts'[k] = <<Ruled[k], "rules">>
      <4>1. k \in 1 .. Len(verdicts)
        BY <1>5, <2>1
      <4>2. verdicts'[k] = verdicts[k]
        BY <1>5, <4>1
      <4>3. QED
        BY <1>2, <4>2 DEF RulesFirst
    <3>3. QED
      BY <3>1, <3>2
  <2>3. ASSUME NEW k \in Len(Ruled) + 1 .. Len(verdicts')
        PROVE  verdicts'[k][2] = "model" /\ Decisive(hiding[verdicts'[k][1]].matched) = {}
    <3>1. CASE k \in Len(Ruled) + 1 .. Len(verdicts)
      <4>1. verdicts'[k] = verdicts[k]
        BY <1>5, <2>1, <3>1
      <4>2. QED
        BY <1>2, <3>1, <4>1 DEF RulesFirst
    <3>2. CASE k = Len(verdicts) + 1
      <4>1. verdicts'[k] = <<Head(toScore), "model">>
        BY <1>5, <2>1, <2>3, <3>2
      <4>2. QED
        BY <1>4, <4>1
    <3>3. QED
      BY <1>5, <2>1, <2>3, <3>1, <3>2
  <2>4. QED
    BY <1>1, <2>2, <2>3, PageKept DEF RulesFirst
<1>8. AskedAboutUndecided'
  <2>1. \A k \in 1 .. Len(toScore') : toScore'[k] \in Outside
    BY <1>1, <1>2, <1>3 DEF AskedAboutUndecided
  <2>2. ASSUME ready, NEW k \in 1 .. Len(Asked)
        PROVE  Asked[k] \in scored' \/ \E l \in 1 .. Len(toScore') : toScore'[l] = Asked[k]
    <3>1. CASE Asked[k] \in scored
      BY <1>1, <3>1
    <3>2. ASSUME NEW l \in 1 .. Len(toScore), toScore[l] = Asked[k]
          PROVE  Asked[k] \in scored' \/ \E m \in 1 .. Len(toScore') : toScore'[m] = Asked[k]
      <4>1. CASE l = 1
        BY <1>1, <1>3, <3>2, <4>1
      <4>2. CASE l # 1
        <5>1. l - 1 \in 1 .. Len(toScore) - 1 /\ (l - 1) + 1 = l
          BY <1>3, <4>2
        <5>2. toScore'[l - 1] = Asked[k]
          BY <1>1, <1>3, <3>2, <5>1
        <5>3. QED
          BY <1>1, <1>3, <5>1, <5>2
      <4>3. QED
        BY <4>1, <4>2
    <3>3. QED
      BY <1>2, <2>2, <3>1, <3>2 DEF AskedAboutUndecided
  <2>3. QED
    BY <1>1, <2>1, <2>2, PageKept DEF AskedAboutUndecided
<1>9. QED
  BY <1>1, <1>6, <1>7, <1>8 DEF InjectionInv

LEMMA InjectionInvStep == InjectionInv /\ [InjectionNext]_injectionVars => InjectionInv'
<1> SUFFICES ASSUME InjectionInv, [InjectionNext]_injectionVars PROVE InjectionInv'
  OBVIOUS
<1>1. CASE UNCHANGED injectionVars
  <2>1. /\ UNCHANGED <<hiding, judging, verdicts, toScore, scored, ready, stored, storeFailed>>
        /\ Ruled' = Ruled /\ Outside' = Outside /\ Asked' = Asked
    BY <1>1, PageKept DEF injectionVars
  <2>2. InjectionTyped' = InjectionTyped
    BY <2>1 DEF InjectionTyped
  <2>3. RulesFirst' = RulesFirst /\ AskedAboutUndecided' = AskedAboutUndecided
    BY <2>1 DEF RulesFirst, AskedAboutUndecided
  <2>4. QED
    BY <2>1, <2>2, <2>3 DEF InjectionInv
<1>2. CASE Scored \/ StoreFinding \/ AnswerThePage
  <2>1. /\ UNCHANGED <<hiding, verdicts, toScore, scored, ready>>
        /\ Ruled' = Ruled /\ Outside' = Outside /\ Asked' = Asked
    BY <1>2, PageKept DEF Scored, StoreFinding, AnswerThePage
  <2>2. /\ judging \in {"scoring", "storing"} /\ judging' \in {"storing", "answered"} /\ toScore = <<>>
        /\ stored' \in 0 .. Len(verdicts) /\ storeFailed' \in BOOLEAN
    <3>1. CASE Scored
      BY <3>1 DEF Scored, InjectionInv, InjectionTyped
    <3>2. CASE StoreFinding
      <4>1. stored \in 0 .. Len(verdicts) /\ Len(verdicts) \in Nat /\ storeFailed \in BOOLEAN /\ toScore = <<>>
        BY <3>2 DEF StoreFinding, InjectionInv, InjectionTyped
      <4>2. /\ judging = "storing" /\ judging' = "storing" /\ stored < Len(verdicts)
            /\ stored' \in {stored, stored + 1} /\ storeFailed' \in {storeFailed, TRUE}
        BY <3>2 DEF StoreFinding
      <4>3. stored' \in 0 .. Len(verdicts)
        BY <4>1, <4>2
      <4>4. QED
        BY <4>1, <4>2, <4>3
    <3>3. CASE AnswerThePage
      BY <3>3 DEF AnswerThePage, InjectionInv, InjectionTyped
    <3>4. QED
      BY <1>2, <3>1, <3>2, <3>3
  <2>3. InjectionTyped'
    BY <2>1, <2>2 DEF InjectionInv, InjectionTyped
  <2>4. RulesFirst' /\ AskedAboutUndecided'
    BY <2>1, <2>2 DEF InjectionInv, RulesFirst, AskedAboutUndecided
  <2>5. QED
    BY <2>1, <2>2, <2>3, <2>4 DEF InjectionInv
<1>3. QED
  BY <1>1, <1>2, AskKeeps, DetectKeeps, PreparedKeeps, ScoreKeeps DEF InjectionNext

(* For any texts a page may hide and any allowance: a page is edited on    *)
(* evidence only, hiding more is not judged milder, the classifier only    *)
(* adds to the rules and is asked about what they left undecided: analyse, *)
(* detectHidden and decideAction, classifyUndecided, handleCandidates.     *)
THEOREM VerdictsAlwaysEarned == InjectionSpec => []VerdictsAreEarned
<1>1. InjectionInv => VerdictsAreEarned
  <2> SUFFICES ASSUME InjectionInv PROVE VerdictsAreEarned
    OBVIOUS
  <2>1. InjectionTyped
    BY DEF InjectionInv
  <2>2. InjectionTypeOK
    <3>1. \A i \in 1 .. Len(verdicts) : verdicts[i] \in (1 .. Len(hiding)) \X {"rules", "model"}
      BY <2>1, ElementOfSeq DEF InjectionTyped
    <3>2. QED
      BY <2>1, <3>1 DEF InjectionTyped, InjectionTypeOK
  <2>3. EditNeedsEvidence
    BY EditsHaveEvidence DEF EditNeedsEvidence, Evidence
  <2>4. MoreIsNoMilder
    <3>1. ASSUME NEW i \in 1 .. Len(hiding), NEW p \in Patterns
          PROVE  Mildness(RulesAction(hiding[i].matched \cup {p})) <= Mildness(RulesAction(hiding[i].matched))
      BY MoreIsNotMilder
    <3>2. QED
      BY <3>1 DEF MoreIsNoMilder
  <2>5. ClassifierOnlyAdds
    <3>1. CASE judging = "answered"
      <4>1. RulesFirst /\ Len(Ruled) \in Nat /\ Len(verdicts) \in Nat
        BY <2>1, <3>1, RuledIsListed DEF InjectionInv, InjectionTyped
      <4>2. /\ \A k \in 1 .. Len(Ruled) : verdicts[k] = <<Ruled[k], "rules">>
            /\ \A k \in Len(Ruled) + 1 .. Len(verdicts) :
                   verdicts[k][2] = "model" /\ Decisive(hiding[verdicts[k][1]].matched) = {}
        BY <4>1 DEF RulesFirst
      <4>3. \A k \in 1 .. Len(Ruled) : k <= Len(verdicts)
        BY <4>1 DEF RulesFirst
      <4>4. QED
        BY <4>2, <4>3 DEF ClassifierOnlyAdds
    <3>2. QED
      BY <3>1 DEF ClassifierOnlyAdds
  <2>6. UndecidedIsScored
    <3> SUFFICES ASSUME judging = "answered", ready, NEW i \in 1 .. Len(hiding), i \notin scored,
                        ~ \E j \in 1 .. Len(hiding) :
                            hiding[j].place = hiding[i].place /\ Decisive(hiding[j].matched) # {}
                 PROVE  Cardinality({j \in 1 .. i - 1 : Decisive(hiding[j].matched) = {}}) >= MaxScored
      BY DEF UndecidedIsScored
    <3>1. i \in Outside
      BY DEF Outside, DecidedTexts
    <3>2. \A k \in 1 .. Len(Asked) : Asked[k] \in scored
      <4>1. AskedAboutUndecided /\ toScore = <<>> /\ Len(toScore) = 0
        BY DEF InjectionInv
      <4>2. QED
        BY <4>1 DEF AskedAboutUndecided
    <3>3. QED
      BY <2>1, <3>1, <3>2, NotAskedIsExcused
  <2>7. QED
    BY <2>2, <2>3, <2>4, <2>5, <2>6 DEF VerdictsAreEarned
<1>2. QED
  BY <1>1, InjectionInvInit, InjectionInvStep, PTL DEF InjectionSpec

-----------------------------------------------------------------------------
(***************************************************************************)
(* The characters of Injection, for any text: a run is reported unbalanced *)
(* exactly when its openers and closers do not pair up, honest writing is  *)
(* never reported, and no operator, override or tag outside a flag passes. *)
(***************************************************************************)
(* A text is read character by character.                                  *)
ReadsAs(written, m, f) ==
    f = [i \in 0 .. m |-> IF i = 0 THEN NoneRead ELSE ReadChar(written, f[i - 1], i)]

LEMMA TextIsRead ==
    ASSUME NEW written, Len(written) \in Nat
    PROVE  /\ Reading(written)[0] = NoneRead
           /\ \A i \in 1 .. Len(written) : Reading(written)[i] = ReadChar(written, Reading(written)[i - 1], i)
<1> DEFINE Unread == {m \in 0 .. Len(written) : ~ \E f : ReadsAs(written, m, f)}
<1>1. Unread = {}
  <2> SUFFICES ASSUME Unread # {} PROVE FALSE
    OBVIOUS
  <2>1. PICK m \in Unread : \A l \in Unread : ~ (<<l, m>> \in OpToRel(<, Nat))
    <3>1. Unread \subseteq Nat
      OBVIOUS
    <3> HIDE DEF Unread
    <3>2. QED
      BY <3>1, NatLessThanWellFounded, WFMin
  <2>2. CASE m = 0
    <3>1. ReadsAs(written, 0, [i \in 0 .. 0 |-> NoneRead])
      BY DEF ReadsAs
    <3>2. QED
      BY <2>1, <2>2, <3>1
  <2>3. CASE m # 0
    <3>0. m \in 0 .. Len(written)
      OBVIOUS
    <3>1. m - 1 \in 0 .. Len(written) /\ m \in Nat /\ m - 1 \in Nat
      <4> HIDE DEF Unread
      <4>1. QED
        BY <2>3, <3>0
    <3>2. PICK g : ReadsAs(written, m - 1, g)
      <4>1. <<m - 1, m>> \in OpToRel(<, Nat)
        BY <3>1 DEF OpToRel
      <4>2. QED
        BY <2>1, <3>1, <4>1
    <3> DEFINE f == [i \in 0 .. m |-> IF i = m THEN ReadChar(written, g[m - 1], m) ELSE g[i]]
    <3>3. ASSUME NEW i \in 0 .. m
          PROVE  f[i] = IF i = 0 THEN NoneRead ELSE ReadChar(written, f[i - 1], i)
      <4>1. CASE i = m
        <5>1. m - 1 \in 0 .. m /\ m - 1 # m
          BY <3>1
        <5>2. f[m - 1] = g[m - 1] /\ f[m] = ReadChar(written, g[m - 1], m)
          BY <5>1
        <5>3. QED
          BY <2>3, <4>1, <5>2
      <4>2. CASE i # m /\ i # 0
        <5>1. i \in 0 .. m - 1 /\ i - 1 \in 0 .. m - 1 /\ i - 1 # m /\ i - 1 \in 0 .. m
          BY <3>1, <4>2
        <5>2. g[i] = ReadChar(written, g[i - 1], i)
          BY <3>2, <4>2, <5>1 DEF ReadsAs
        <5>3. QED
          BY <4>2, <5>1, <5>2
      <4>3. CASE i # m /\ i = 0
        <5>1. g[0] = NoneRead
          <6>1. 0 \in 0 .. m - 1
            BY <3>1
          <6>2. QED
            BY <3>2, <6>1 DEF ReadsAs
        <5>2. QED
          BY <4>3, <5>1
      <4>4. QED
        BY <4>1, <4>2, <4>3
    <3>4. f = [i \in 0 .. m |-> f[i]]
      OBVIOUS
    <3>5. ReadsAs(written, m, f)
      <4> HIDE DEF f
      <4>1. QED
        BY <3>3, <3>4 DEF ReadsAs
    <3>6. QED
      BY <2>1, <3>5
  <2>4. QED
    BY <2>2, <2>3
<1>2. \E f : ReadsAs(written, Len(written), f)
  BY <1>1
<1>3. ReadsAs(written, Len(written), Reading(written))
  BY <1>2 DEF ReadsAs, Reading
<1>4. QED
  BY <1>3 DEF ReadsAs

-----------------------------------------------------------------------------
ReadStates == [found : SUBSET Anomalies, open : Seq({"pdf", "pdi"})]
Unbalanced(state) == "bidi-unbalanced" \in state.found
OthersFound(state) == state.found \ {"bidi-unbalanced"}

(* What one character is reported for, whatever was read before it.        *)
ReportedFor(written, i) ==
    (IF written[i] = "zero-width" /\ SplitsWord(written, i) THEN {"word-splitter"} ELSE {})
    \cup (IF written[i] = "override" THEN {"bidi-override"} ELSE {})
    \cup (IF TagAt(written, i) /\ ~ InFlagSequence(written, i) THEN {"tag-sequence"} ELSE {})
    \cup (IF written[i] = "operator" \/ (written[i] = "bom" /\ i # 1) THEN {"invisible-operator"} ELSE {})

Read(written, state, i, new) ==
    /\ new \in ReadStates
    /\ OthersFound(new) = OthersFound(state) \cup ReportedFor(written, i)
    /\ written[i] \in Openers =>
           new.open = Append(state.open, Closer[written[i]]) /\ Unbalanced(new) = Unbalanced(state)
    /\ written[i] \in {"pdf", "pdi"} =>
           IF state.open # <<>> /\ Last(state.open) = written[i]
             THEN new.open = Front(state.open) /\ Unbalanced(new) = Unbalanced(state)
             ELSE new.open = state.open /\ Unbalanced(new)
    /\ written[i] \notin Openers \cup {"pdf", "pdi"} =>
           new.open = state.open /\ Unbalanced(new) = Unbalanced(state)

LEMMA AllButTheLast ==
    ASSUME NEW S, NEW s \in Seq(S), s # <<>>
    PROVE  /\ Len(s) \in Nat \ {0} /\ Front(s) \in Seq(S) /\ Len(Front(s)) = Len(s) - 1
           /\ \A k \in 1 .. Len(s) - 1 : Front(s)[k] = s[k]
           /\ Last(s) = s[Len(s)] /\ Last(s) \in S
<1>1. Len(s) \in Nat \ {0}
  BY LenProperties, EmptySeq
<1>2. Len(s) - 1 \in Int /\ 1 \in Int /\ \A k \in 1 .. Len(s) - 1 : s[k] \in S
  BY <1>1, ElementOfSeq
<1>3. /\ SubSeq(s, 1, Len(s) - 1) \in Seq(S)
      /\ Len(SubSeq(s, 1, Len(s) - 1)) = IF 1 <= Len(s) - 1 THEN Len(s) - 1 - 1 + 1 ELSE 0
      /\ \A k \in 1 .. Len(s) - 1 - 1 + 1 : SubSeq(s, 1, Len(s) - 1)[k] = s[1 + k - 1]
  BY <1>2, SubSeqProperties
<1>4. s[Len(s)] \in S
  BY <1>1, ElementOfSeq
<1>5. Front(s) = SubSeq(s, 1, Len(s) - 1) /\ Last(s) = s[Len(s)]
  BY DEF Front, Last
<1>6. Len(Front(s)) = Len(s) - 1
  <2>1. Len(Front(s)) = IF 1 <= Len(s) - 1 THEN Len(s) - 1 - 1 + 1 ELSE 0
    BY <1>3, <1>5, Zenon
  <2> DEFINE n == Len(s)
             m == Len(Front(s))
  <2>2. n \in Nat \ {0} /\ m = IF 1 <= n - 1 THEN n - 1 - 1 + 1 ELSE 0
    BY <1>1, <2>1
  <2> HIDE DEF n, m
  <2>3. m = n - 1
    BY <2>2
  <2>4. QED
    BY <2>3 DEF n, m
<1>7. ASSUME NEW k \in 1 .. Len(s) - 1 PROVE Front(s)[k] = s[k]
  <2>1. k \in 1 .. Len(s) - 1 - 1 + 1 /\ 1 + k - 1 = k
    BY <1>1
  <2>2. Front(s)[k] = s[1 + k - 1]
    BY <1>3, <1>5, <2>1
  <2>3. QED
    BY <2>1, <2>2
<1>8. QED
  BY <1>1, <1>3, <1>4, <1>5, <1>6, <1>7

LEMMA OpenersAre ==
    /\ Openers = {"override", "embedding", "isolate"}
    /\ Closer["override"] = "pdf" /\ Closer["embedding"] = "pdf" /\ Closer["isolate"] = "pdi"
BY DEF Openers, Closer

LEMMA StatesChange ==
    ASSUME NEW state \in ReadStates
    PROVE  /\ \A a \in Anomalies : /\ Flagged(state, a) \in ReadStates
                                   /\ Flagged(state, a).found = state.found \cup {a}
                                   /\ Flagged(state, a).open = state.open
           /\ \A c \in {"pdf", "pdi"} : /\ OpenRun(state, c) \in ReadStates
                                        /\ OpenRun(state, c).found = state.found
                                        /\ OpenRun(state, c).open = Append(state.open, c)
<1>1. state.found \in SUBSET Anomalies /\ state.open \in Seq({"pdf", "pdi"})
  BY DEF ReadStates
<1>2. ASSUME NEW a \in Anomalies
      PROVE  /\ Flagged(state, a) \in ReadStates
             /\ Flagged(state, a).found = state.found \cup {a} /\ Flagged(state, a).open = state.open
  BY <1>1 DEF Flagged, ReadStates
<1>3. ASSUME NEW c \in {"pdf", "pdi"}
      PROVE  /\ OpenRun(state, c) \in ReadStates
             /\ OpenRun(state, c).found = state.found /\ OpenRun(state, c).open = Append(state.open, c)
  <2>1. Append(state.open, c) \in Seq({"pdf", "pdi"})
    BY <1>1, AppendProperties
  <2>2. QED
    BY <1>1, <2>1 DEF OpenRun, ReadStates
<1>4. QED
  BY <1>2, <1>3

LEMMA CharIsRead ==
    ASSUME NEW written \in Seq(Characters), NEW i \in 1 .. Len(written), NEW state \in ReadStates
    PROVE  Read(written, state, i, ReadChar(written, state, i))
<1> DEFINE c == written[i]
           new == ReadChar(written, state, i)
<1>1. c \in Characters
  BY ElementOfSeq
<1>2. TagAt(written, i) <=> c \in {"tag", "tag-end"}
  BY DEF TagAt, CharAt
<1>3. CASE c = "zero-width"
  <2>1. new = IF SplitsWord(written, i) THEN Flagged(state, "word-splitter") ELSE state
    BY <1>2, <1>3 DEF ReadChar
  <2>2. ReportedFor(written, i) = IF SplitsWord(written, i) THEN {"word-splitter"} ELSE {}
    BY <1>2, <1>3 DEF ReportedFor
  <2>3. QED
    BY <1>3, <2>1, <2>2, StatesChange, OpenersAre DEF Read, Unbalanced, OthersFound, Anomalies
<1>4. CASE c = "override"
  <2>1. new = OpenRun(Flagged(state, "bidi-override"), "pdf")
    BY <1>2, <1>4 DEF ReadChar
  <2>2. ReportedFor(written, i) = {"bidi-override"}
    BY <1>2, <1>4 DEF ReportedFor
  <2>3. /\ Flagged(state, "bidi-override") \in ReadStates
        /\ Flagged(state, "bidi-override").found = state.found \cup {"bidi-override"}
        /\ Flagged(state, "bidi-override").open = state.open
    BY StatesChange DEF Anomalies
  <2>4. /\ new \in ReadStates /\ new.found = state.found \cup {"bidi-override"}
        /\ new.open = Append(state.open, "pdf")
    BY <2>1, <2>3, StatesChange
  <2>5. QED
    BY <1>4, <2>2, <2>4, OpenersAre DEF Read, Unbalanced, OthersFound
<1>5. CASE c \in {"embedding", "isolate"}
  <2>1. new = OpenRun(state, Closer[c])
    BY <1>2, <1>5 DEF ReadChar
  <2>2. ReportedFor(written, i) = {}
    BY <1>2, <1>5 DEF ReportedFor
  <2>3. QED
    BY <1>5, <2>1, <2>2, StatesChange, OpenersAre DEF Read, Unbalanced, OthersFound
<1>6. CASE c \in {"pdf", "pdi"}
  <2>1. new = CloseRun(state, c)
    BY <1>2, <1>6 DEF ReadChar
  <2>2. ReportedFor(written, i) = {}
    BY <1>2, <1>6 DEF ReportedFor
  <2>3. CASE state.open # <<>> /\ Last(state.open) = c
    <3>1. new = [state EXCEPT !.open = Front(@)]
      BY <2>1, <2>3 DEF CloseRun
    <3>2. state.found \in SUBSET Anomalies /\ state.open \in Seq({"pdf", "pdi"})
      BY DEF ReadStates
    <3>3. Front(state.open) \in Seq({"pdf", "pdi"})
      BY <2>3, <3>2, AllButTheLast
    <3>4. new \in ReadStates /\ new.found = state.found /\ new.open = Front(state.open)
      BY <3>1, <3>2, <3>3 DEF ReadStates
    <3>5. QED
      BY <1>6, <2>2, <2>3, <3>4, OpenersAre DEF Read, Unbalanced, OthersFound
  <2>4. CASE ~ (state.open # <<>> /\ Last(state.open) = c)
    <3>1. new = Flagged(state, "bidi-unbalanced")
      BY <2>1, <2>4 DEF CloseRun
    <3>2. QED
      BY <1>6, <2>2, <2>4, <3>1, StatesChange, OpenersAre DEF Read, Unbalanced, OthersFound, Anomalies
  <2>5. QED
    BY <2>3, <2>4
<1>7. CASE c \in {"tag", "tag-end"}
  <2>1. new = IF InFlagSequence(written, i) THEN state ELSE Flagged(state, "tag-sequence")
    BY <1>2, <1>7 DEF ReadChar
  <2>2. ReportedFor(written, i) = IF InFlagSequence(written, i) THEN {} ELSE {"tag-sequence"}
    BY <1>2, <1>7 DEF ReportedFor
  <2>3. QED
    BY <1>7, <2>1, <2>2, StatesChange, OpenersAre DEF Read, Unbalanced, OthersFound, Anomalies
<1>8. CASE c = "operator" \/ (c = "bom" /\ i # 1)
  <2>1. new = Flagged(state, "invisible-operator")
    BY <1>2, <1>8 DEF ReadChar
  <2>2. ReportedFor(written, i) = {"invisible-operator"}
    BY <1>2, <1>8 DEF ReportedFor
  <2>3. QED
    BY <1>8, <2>1, <2>2, StatesChange, OpenersAre DEF Read, Unbalanced, OthersFound, Anomalies
<1>9. CASE c \in {"letter", "other", "flag"} \/ (c = "bom" /\ i = 1)
  <2>1. new = state
    BY <1>2, <1>9 DEF ReadChar
  <2>2. ReportedFor(written, i) = {}
    BY <1>2, <1>9 DEF ReportedFor
  <2>3. QED
    BY <1>9, <2>1, <2>2, OpenersAre DEF Read, Unbalanced, OthersFound
<1>10. QED
  BY <1>1, <1>3, <1>4, <1>5, <1>6, <1>7, <1>8, <1>9 DEF Characters

-----------------------------------------------------------------------------
(* What holds of 0, and of each number if of the one before, holds of all. *)
LEMMA OneByOne ==
    ASSUME NEW n \in Nat, NEW Good \in SUBSET (0 .. n), 0 \in Good,
           \A i \in 1 .. n : i - 1 \in Good => i \in Good
    PROVE  Good = 0 .. n
<1> DEFINE Bad == (0 .. n) \ Good
<1> SUFFICES ASSUME Bad # {} PROVE FALSE
  OBVIOUS
<1>1. PICK m \in Bad : \A l \in Bad : ~ (<<l, m>> \in OpToRel(<, Nat))
  <2>1. Bad \subseteq Nat
    OBVIOUS
  <2> HIDE DEF Bad
  <2>2. QED
    BY <2>1, NatLessThanWellFounded, WFMin
<1>2. m \in 1 .. n /\ m - 1 \in 0 .. n
  OBVIOUS
<1>3. <<m - 1, m>> \in OpToRel(<, Nat)
  BY <1>2 DEF OpToRel
<1>4. QED
  BY <1>1, <1>2, <1>3

ReportedUpTo(written, i) == UNION {ReportedFor(written, k) : k \in 1 .. i}

LEMMA OneMoreReported ==
    ASSUME NEW written, NEW i \in Nat, i # 0
    PROVE  ReportedUpTo(written, i) = ReportedUpTo(written, i - 1) \cup ReportedFor(written, i)
<1>1. \A x : x \in ReportedUpTo(written, i) => \E k \in 1 .. i : x \in ReportedFor(written, k)
  BY DEF ReportedUpTo
<1>2. \A k \in 1 .. i : ReportedFor(written, k) \subseteq ReportedUpTo(written, i)
  BY DEF ReportedUpTo
<1>3. \A k \in 1 .. i - 1 : ReportedFor(written, k) \subseteq ReportedUpTo(written, i - 1)
  BY DEF ReportedUpTo
<1>4. \A x : x \in ReportedUpTo(written, i - 1) => \E k \in 1 .. i - 1 : x \in ReportedFor(written, k)
  BY DEF ReportedUpTo
<1>5. \A k : k \in 1 .. i <=> k \in 1 .. i - 1 \/ k = i
  OBVIOUS
<1>6. ASSUME NEW x \in ReportedUpTo(written, i)
      PROVE  x \in ReportedUpTo(written, i - 1) \cup ReportedFor(written, i)
  BY <1>1, <1>3, <1>5
<1>7. ASSUME NEW x \in ReportedUpTo(written, i - 1) \cup ReportedFor(written, i)
      PROVE  x \in ReportedUpTo(written, i)
  BY <1>2, <1>4, <1>5
<1>8. QED
  BY <1>6, <1>7

(* Reading keeps the states, and apart from the pairing adds up what the   *)
(* characters are reported for.                                            *)
LEMMA ReadingAddsUp ==
    ASSUME NEW written \in Seq(Characters)
    PROVE  \A i \in 0 .. Len(written) :
               /\ Reading(written)[i] \in ReadStates
               /\ OthersFound(Reading(written)[i]) = ReportedUpTo(written, i)
               /\ i # 0 => Read(written, Reading(written)[i - 1], i, Reading(written)[i])
<1> DEFINE Good == {i \in 0 .. Len(written) :
                       /\ Reading(written)[i] \in ReadStates
                       /\ OthersFound(Reading(written)[i]) = ReportedUpTo(written, i)
                       /\ i # 0 => Read(written, Reading(written)[i - 1], i, Reading(written)[i])}
<1>1. Len(written) \in Nat
  OBVIOUS
<1>2. 0 \in Good
  <2>1. Reading(written)[0] = NoneRead
    BY <1>1, TextIsRead
  <2>2. NoneRead \in ReadStates /\ OthersFound(NoneRead) = {}
    BY DEF NoneRead, ReadStates, OthersFound
  <2>3. ReportedUpTo(written, 0) = {}
    BY DEF ReportedUpTo
  <2>4. Reading(written)[0] \in ReadStates /\ OthersFound(Reading(written)[0]) = ReportedUpTo(written, 0)
    BY <2>1, <2>2, <2>3
  <2>5. 0 \in 0 .. Len(written)
    BY <1>1
  <2>6. QED
    BY <2>4, <2>5
<1>3. ASSUME NEW i \in 1 .. Len(written), i - 1 \in Good PROVE i \in Good
  <2>1. /\ Reading(written)[i - 1] \in ReadStates
        /\ OthersFound(Reading(written)[i - 1]) = ReportedUpTo(written, i - 1)
    BY <1>3
  <2>2. Reading(written)[i] = ReadChar(written, Reading(written)[i - 1], i)
    BY <1>1, TextIsRead
  <2>3. Read(written, Reading(written)[i - 1], i, Reading(written)[i])
    BY <2>1, <2>2, CharIsRead
  <2>4. /\ Reading(written)[i] \in ReadStates
        /\ OthersFound(Reading(written)[i]) = OthersFound(Reading(written)[i - 1]) \cup ReportedFor(written, i)
    BY <2>3 DEF Read
  <2>5. ReportedUpTo(written, i)
            = ReportedUpTo(written, i - 1) \cup ReportedFor(written, i)
    BY <1>1, OneMoreReported
  <2>6. i \in 0 .. Len(written)
    BY <1>1
  <2>7. QED
    BY <2>1, <2>3, <2>4, <2>5, <2>6
<1>4. Good = 0 .. Len(written)
  <2>1. Good \in SUBSET (0 .. Len(written))
    OBVIOUS
  <2> HIDE DEF Good
  <2>2. QED
    BY <1>1, <1>2, <1>3, <2>1, OneByOne
<1>5. QED
  BY <1>4

-----------------------------------------------------------------------------
(* A stack holds the closers of the openers at some positions, in order.   *)
StacksBy(written, pend, open, st) ==
    /\ st \in [1 .. Len(open) -> pend]
    /\ \A k, l \in 1 .. Len(open) : k < l => st[k] < st[l]
    /\ \A p \in pend : \E k \in 1 .. Len(open) : st[k] = p
    /\ \A k \in 1 .. Len(open) : written[st[k]] \in Openers /\ open[k] = Closer[written[st[k]]]
Stacks(written, pend, open) == \E st : StacksBy(written, pend, open, st)

LEMMA StackGrows ==
    ASSUME NEW written, NEW pend \in SUBSET Nat, NEW open \in Seq({"pdf", "pdi"}), Stacks(written, pend, open),
           NEW i \in Nat, \A p \in pend : p < i, written[i] \in Openers
    PROVE  Stacks(written, pend \cup {i}, Append(open, Closer[written[i]]))
<1> DEFINE n == Len(open)
           new == Append(open, Closer[written[i]])
<1>1. PICK st : StacksBy(written, pend, open, st)
  BY DEF Stacks
<1>2. n \in Nat /\ Len(new) = n + 1 /\ new[n + 1] = Closer[written[i]]
      /\ \A k \in 1 .. n : new[k] = open[k]
  <2>1. Closer[written[i]] \in {"pdf", "pdi"}
    BY OpenersAre
  <2>2. QED
    BY <2>1, AppendProperties, LenProperties
<1> DEFINE up == [k \in 1 .. n + 1 |-> IF k = n + 1 THEN i ELSE st[k]]
<1> HIDE DEF new
<1>3. /\ up[n + 1] = i /\ \A k \in 1 .. n : up[k] = st[k] /\ up[k] \in pend
      /\ up \in [1 .. n + 1 -> pend \cup {i}]
  BY <1>1, <1>2 DEF StacksBy
<1> HIDE DEF up
<1>4. \A k \in 1 .. n + 1 : k \in 1 .. n \/ k = n + 1
  BY <1>2
<1>5. \A k, l \in 1 .. n + 1 : k < l => up[k] < up[l]
  <2> SUFFICES ASSUME NEW k \in 1 .. n + 1, NEW l \in 1 .. n + 1, k < l PROVE up[k] < up[l]
    OBVIOUS
  <2>1. k \in 1 .. n
    BY <1>2
  <2>2. CASE l \in 1 .. n
    BY <1>1, <1>3, <2>1, <2>2 DEF StacksBy
  <2>3. CASE l = n + 1
    BY <1>3, <2>1, <2>3
  <2>4. QED
    BY <1>4, <2>2, <2>3
<1>6. \A p \in pend \cup {i} : \E k \in 1 .. n + 1 : up[k] = p
  <2> SUFFICES ASSUME NEW p \in pend \cup {i} PROVE \E k \in 1 .. n + 1 : up[k] = p
    OBVIOUS
  <2>1. CASE p = i
    <3>1. n + 1 \in 1 .. n + 1
      BY <1>2
    <3>2. QED
      BY <1>3, <2>1, <3>1
  <2>2. CASE p \in pend
    <3>1. PICK k \in 1 .. n : st[k] = p
      BY <1>1, <2>2 DEF StacksBy
    <3>2. k \in 1 .. n + 1
      BY <1>2
    <3>3. QED
      BY <1>3, <3>1, <3>2
  <2>3. QED
    BY <2>1, <2>2
<1>7. \A k \in 1 .. n + 1 : written[up[k]] \in Openers /\ new[k] = Closer[written[up[k]]]
  <2> SUFFICES ASSUME NEW k \in 1 .. n + 1
               PROVE  written[up[k]] \in Openers /\ new[k] = Closer[written[up[k]]]
    OBVIOUS
  <2>1. CASE k \in 1 .. n
    BY <1>1, <1>2, <1>3, <2>1 DEF StacksBy
  <2>2. CASE k = n + 1
    BY <1>2, <1>3, <2>2
  <2>3. QED
    BY <1>4, <2>1, <2>2
<1>8. StacksBy(written, pend \cup {i}, new, up)
  BY <1>2, <1>3, <1>5, <1>6, <1>7 DEF StacksBy
<1>9. QED
  BY <1>8 DEF Stacks, new

(* The last on the stack is the opener that stands last.                   *)
LEMMA StackShrinks ==
    ASSUME NEW written, NEW pend \in SUBSET Nat, NEW open \in Seq({"pdf", "pdi"}), Stacks(written, pend, open),
           NEW t \in pend, \A p \in pend : p <= t
    PROVE  /\ open # <<>> /\ written[t] \in Openers /\ Last(open) = Closer[written[t]]
           /\ Stacks(written, pend \ {t}, Front(open))
<1> DEFINE n == Len(open)
<1>1. PICK st : StacksBy(written, pend, open, st)
  BY DEF Stacks
<1>2. PICK h \in 1 .. n : st[h] = t
  BY <1>1 DEF StacksBy
<1>3. n \in Nat
  BY LenProperties
<1>4. h = n
  <2>1. n \in 1 .. n /\ st[n] \in pend
    BY <1>1, <1>2, <1>3 DEF StacksBy
  <2>2. h < n => st[h] < st[n]
    BY <1>1, <1>2, <2>1 DEF StacksBy
  <2>3. st[n] <= t /\ t \in Nat /\ st[n] \in Nat
    BY <2>1
  <2>4. QED
    BY <1>2, <1>3, <2>2, <2>3
<1>5. open # <<>>
  BY <1>2, <1>3
<1>6. /\ Front(open) \in Seq({"pdf", "pdi"}) /\ Len(Front(open)) = n - 1
      /\ \A k \in 1 .. n - 1 : Front(open)[k] = open[k]
      /\ Last(open) = open[n]
  BY <1>5, AllButTheLast
<1>7. written[t] \in Openers /\ Last(open) = Closer[written[t]]
  BY <1>1, <1>2, <1>4, <1>6 DEF StacksBy
<1> DEFINE down == [k \in 1 .. n - 1 |-> st[k]]
<1>8. \A k \in 1 .. n - 1 : /\ k \in 1 .. n /\ down[k] = st[k] /\ st[k] \in pend
                            /\ st[k] # t
  <2> SUFFICES ASSUME NEW k \in 1 .. n - 1
               PROVE  k \in 1 .. n /\ down[k] = st[k] /\ st[k] \in pend /\ st[k] # t
    OBVIOUS
  <2>1. k \in 1 .. n /\ n \in 1 .. n /\ k < n
    BY <1>3
  <2>2. st[k] \in pend /\ st[k] < st[n]
    BY <1>1, <2>1 DEF StacksBy
  <2>3. QED
    BY <1>2, <1>4, <2>1, <2>2
<1>9. down \in [1 .. n - 1 -> pend \ {t}]
  BY <1>8
<1> HIDE DEF down
<1>10. \A k, l \in 1 .. n - 1 : k < l => down[k] < down[l]
  BY <1>1, <1>8 DEF StacksBy
<1>11. \A p \in pend \ {t} : \E k \in 1 .. n - 1 : down[k] = p
  <2> SUFFICES ASSUME NEW p \in pend \ {t} PROVE \E k \in 1 .. n - 1 : down[k] = p
    OBVIOUS
  <2>1. PICK k \in 1 .. n : st[k] = p
    BY <1>1 DEF StacksBy
  <2>2. k # n
    BY <1>2, <1>4, <2>1
  <2>3. k \in 1 .. n - 1
    BY <1>3, <2>2
  <2>4. QED
    BY <1>8, <2>1, <2>3
<1>12. \A k \in 1 .. n - 1 : written[down[k]] \in Openers /\ Front(open)[k] = Closer[written[down[k]]]
  BY <1>1, <1>6, <1>8 DEF StacksBy
<1>13. StacksBy(written, pend \ {t}, Front(open), down)
  BY <1>6, <1>9, <1>10, <1>11, <1>12 DEF StacksBy
<1>14. QED
  BY <1>5, <1>7, <1>13 DEF Stacks

LEMMA StackHasATop ==
    ASSUME NEW written, NEW pend \in SUBSET Nat, NEW open \in Seq({"pdf", "pdi"}), Stacks(written, pend, open)
    PROVE  /\ open = <<>> <=> pend = {}
           /\ open # <<>> => \E t \in pend : \A p \in pend : p <= t
<1> DEFINE n == Len(open)
<1>1. PICK st : StacksBy(written, pend, open, st)
  BY DEF Stacks
<1>2. n \in Nat
  BY LenProperties
<1>3. CASE open = <<>>
  <2>1. n = 0
    BY <1>3
  <2>2. pend = {}
    BY <1>1, <2>1 DEF StacksBy
  <2>3. QED
    BY <1>3, <2>2
<1>4. CASE open # <<>>
  <2>1. n \in 1 .. n
    BY <1>2, <1>4, EmptySeq
  <2>2. st[n] \in pend
    BY <1>1, <2>1 DEF StacksBy
  <2>3. ASSUME NEW p \in pend PROVE p <= st[n]
    <3>1. PICK k \in 1 .. n : st[k] = p
      BY <1>1 DEF StacksBy
    <3>2. k < n => st[k] < st[n]
      BY <1>1, <2>1 DEF StacksBy
    <3>3. k = n \/ k < n
      BY <1>2
    <3>4. p \in Nat /\ st[n] \in Nat
      BY <2>2
    <3>5. CASE k = n
      BY <3>1, <3>4, <3>5
    <3>6. CASE k < n
      BY <3>1, <3>2, <3>4, <3>6
    <3>7. QED
      BY <3>3, <3>5, <3>6
  <2>4. QED
    BY <1>4, <2>2, <2>3
<1>5. QED
  BY <1>3, <1>4

-----------------------------------------------------------------------------
(* Where a text is nested, its openers whose partner is still to come are  *)
(* what stands on the stack, and nothing is found unbalanced.              *)
AwaitingPartner(written, partner, i) ==
    {j \in Directional(written) : j <= i /\ written[j] \in Openers /\ partner[j] > i}

LEMMA PartnersFit ==
    ASSUME NEW written \in Seq(Characters), NEW partner \in [Directional(written) -> Directional(written)],
           PairedBy(written, partner)
    PROVE  \A i \in 0 .. Len(written) :
               /\ ~ Unbalanced(Reading(written)[i])
               /\ Stacks(written, AwaitingPartner(written, partner, i), Reading(written)[i].open)
<1> DEFINE D == Directional(written)
           Pending(i) == AwaitingPartner(written, partner, i)
           Good == {i \in 0 .. Len(written) : /\ ~ Unbalanced(Reading(written)[i])
                                           /\ Stacks(written, Pending(i), Reading(written)[i].open)}
<1>1. Len(written) \in Nat /\ D \subseteq 1 .. Len(written) /\ D \subseteq Nat
  BY LenProperties DEF Directional
<1>2. \A j \in D : /\ partner[j] \in D /\ partner[j] \in Nat /\ j \in Nat /\ partner[partner[j]] = j
                   /\ written[j] \in Openers \cup {"pdf", "pdi"}
  BY <1>1 DEF PairedBy, Directional
<1>3. \A j \in D : written[j] \in Openers => /\ partner[j] > j /\ written[partner[j]] = Closer[written[j]]
                                          /\ written[partner[j]] \in {"pdf", "pdi"}
  BY OpenersAre DEF PairedBy
<1>4. \A j \in D : written[j] \notin Openers => partner[j] < j
  BY DEF PairedBy
<1>5. \A j, k \in D : written[j] \in Openers /\ j < k /\ k < partner[j] => j < partner[k] /\ partner[k] < partner[j]
  BY DEF PairedBy
<1>6. \A c \in Openers : c \notin {"pdf", "pdi"}
  BY OpenersAre
<1>7. 0 \in Good
  <2>1. Reading(written)[0] = NoneRead
    BY <1>1, TextIsRead
  <2>2. Pending(0) = {}
    BY <1>1 DEF AwaitingPartner
  <2>3. Len(<<>>) = 0
    OBVIOUS
  <2>4. StacksBy(written, {}, <<>>, [k \in 1 .. 0 |-> 0])
    BY <2>3 DEF StacksBy
  <2>5. ~ Unbalanced(NoneRead) /\ NoneRead.open = <<>>
    BY DEF Unbalanced, NoneRead
  <2>6. 0 \in 0 .. Len(written)
    BY <1>1
  <2>7. Stacks(written, Pending(0), Reading(written)[0].open)
    BY <2>1, <2>2, <2>4, <2>5 DEF Stacks
  <2>8. QED
    BY <2>1, <2>5, <2>6, <2>7
<1>8. ASSUME NEW i \in 1 .. Len(written), i - 1 \in Good PROVE i \in Good
  <2> DEFINE old == Reading(written)[i - 1]
             new == Reading(written)[i]
  <2>1. /\ ~ Unbalanced(old) /\ Stacks(written, Pending(i - 1), old.open)
    BY <1>8
  <2>2. i \in 0 .. Len(written) /\ i # 0 /\ i - 1 \in 0 .. Len(written) /\ i \in Nat
    BY <1>1
  <2>3. Read(written, old, i, new) /\ old.open \in Seq({"pdf", "pdi"})
    BY <2>2, ReadingAddsUp DEF ReadStates
  <2>4. Pending(i - 1) \in SUBSET Nat /\ \A p \in Pending(i - 1) : p < i
    BY <1>1, <2>2 DEF AwaitingPartner
  <2>5. i \in D <=> written[i] \in Openers \cup {"pdf", "pdi"}
    BY DEF Directional
  <2> HIDE DEF D
  <2>6. CASE i \notin D
    <3>1. \A j \in D : (j <= i <=> j <= i - 1) /\ (partner[j] > i <=> partner[j] > i - 1)
      BY <1>2, <2>2, <2>6
    <3>2. Pending(i) = Pending(i - 1)
      BY <3>1 DEF AwaitingPartner, D
    <3>3. new.open = old.open /\ Unbalanced(new) = Unbalanced(old)
      BY <2>3, <2>5, <2>6 DEF Read
    <3>4. QED
      BY <2>1, <2>2, <3>2, <3>3
  <2>7. CASE i \in D /\ written[i] \in Openers
    <3>1. Pending(i) = Pending(i - 1) \cup {i}
      <4>1. \A j \in D : j <= i <=> j <= i - 1 \/ j = i
        BY <1>1, <2>2
      <4>2. \A j \in D : written[j] \in Openers /\ j <= i - 1 => (partner[j] > i <=> partner[j] > i - 1)
        <5> SUFFICES ASSUME NEW j \in D, written[j] \in Openers, j <= i - 1
                     PROVE  partner[j] > i <=> partner[j] > i - 1
          OBVIOUS
        <5>1. partner[j] # i
          BY <1>3, <1>6, <2>7
        <5>2. QED
          BY <1>2, <2>2, <5>1
      <4>3. partner[i] > i
        BY <1>3, <2>7
      <4>4. QED
        BY <2>7, <4>1, <4>2, <4>3 DEF AwaitingPartner, D
    <3>2. new.open = Append(old.open, Closer[written[i]]) /\ Unbalanced(new) = Unbalanced(old)
      BY <2>3, <2>7 DEF Read
    <3>3. Stacks(written, Pending(i - 1) \cup {i}, Append(old.open, Closer[written[i]]))
      <4> HIDE DEF Pending, old
      <4>1. QED
        BY <2>1, <2>2, <2>3, <2>4, <2>7, StackGrows
    <3>4. QED
      BY <2>1, <2>2, <3>1, <3>2, <3>3
  <2>8. CASE i \in D /\ written[i] \notin Openers
    <3> DEFINE t == partner[i]
    <3>1. t \in D /\ t < i /\ partner[t] = i /\ t \in Nat /\ written[i] \in {"pdf", "pdi"}
      BY <1>2, <1>4, <2>8
    <3>2. written[t] \in Openers
      <4>1. written[t] \notin Openers => i < t
        BY <1>4, <3>1
      <4>2. QED
        BY <2>2, <3>1, <4>1
    <3>3. t \in Pending(i - 1)
      BY <2>2, <3>1, <3>2 DEF AwaitingPartner, D
    <3>4. ASSUME NEW p \in Pending(i - 1) PROVE p <= t
      <4>1. p \in D /\ p < i /\ partner[p] > i - 1 /\ p \in Nat /\ partner[p] \in Nat
        BY <1>2, <2>4 DEF AwaitingPartner, D
      <4>2. t < p => partner[p] < i
        BY <1>5, <3>1, <3>2, <4>1
      <4>3. QED
        BY <2>2, <3>1, <4>1, <4>2
    <3>5. Pending(i) = Pending(i - 1) \ {t}
      <4>1. \A j \in D : written[j] \in Openers => (j <= i <=> j <= i - 1)
        BY <1>2, <2>2, <2>8
      <4>2. ~ (partner[t] > i)
        BY <2>2, <3>1
      <4>3. \A j \in D : j # t => (partner[j] > i <=> partner[j] > i - 1)
        <5> SUFFICES ASSUME NEW j \in D, j # t PROVE partner[j] > i <=> partner[j] > i - 1
          OBVIOUS
        <5>1. partner[j] # i
          <6>1. partner[partner[j]] = j
            BY <1>2
          <6>2. QED
            BY <6>1
        <5>2. QED
          BY <1>2, <2>2, <5>1
      <4> HIDE DEF t
      <4>4. QED
        BY <4>1, <4>2, <4>3 DEF AwaitingPartner, D
    <3>6. /\ old.open # <<>> /\ Last(old.open) = Closer[written[t]]
          /\ Stacks(written, Pending(i - 1) \ {t}, Front(old.open))
      <4> HIDE DEF Pending, old, t
      <4>1. QED
        BY <2>1, <2>3, <2>4, <3>3, <3>4, StackShrinks
    <3>7. Closer[written[t]] = written[i]
      BY <1>3, <3>1, <3>2
    <3>8. new.open = Front(old.open) /\ Unbalanced(new) = Unbalanced(old)
      BY <2>3, <3>1, <3>6, <3>7 DEF Read
    <3>9. QED
      BY <2>1, <2>2, <3>5, <3>6, <3>8
  <2>9. QED
    BY <2>6, <2>7, <2>8
<1>9. Good = 0 .. Len(written)
  <2>1. Good \in SUBSET (0 .. Len(written))
    OBVIOUS
  <2> HIDE DEF Good
  <2>2. QED
    BY <1>1, <1>7, <1>8, <2>1, OneByOne
<1>10. QED
  BY <1>9

-----------------------------------------------------------------------------
(* And what was read without finding anything unbalanced can be paired,    *)
(* but for the openers that still stand on the stack.                      *)
UpTo(written, i) == {j \in Directional(written) : j <= i}

PairedAmong(written, all, matched, partner) ==
    /\ partner \in [matched -> matched]
    /\ \A j \in matched :
        /\ partner[partner[j]] = j
        /\ IF written[j] \in Openers
             THEN /\ partner[j] > j /\ written[partner[j]] = Closer[written[j]]
                  /\ \A k \in all : j < k /\ k < partner[j] =>
                         k \in matched /\ j < partner[k] /\ partner[k] < partner[j]
             ELSE partner[j] < j

PairedSoFar(written, i, pend, partner) ==
    /\ pend \in SUBSET UpTo(written, i)
    /\ PairedAmong(written, UpTo(written, i), UpTo(written, i) \ pend, partner)

LEMMA PairOneMore ==
    ASSUME NEW written, NEW all \in SUBSET Nat, NEW matched \in SUBSET all, NEW partner,
           PairedAmong(written, all, matched, partner),
           NEW i \in Nat, \A k \in all : k < i,
           NEW t \in all, t \notin matched, \A k \in all : k > t => k \in matched,
           written[t] \in Openers, written[i] = Closer[written[t]]
    PROVE  \E q : PairedAmong(written, all \cup {i}, matched \cup {t, i}, q)
<1> DEFINE q == [j \in matched \cup {t, i} |-> IF j = t THEN i ELSE IF j = i THEN t ELSE partner[j]]
           new == matched \cup {t, i}
<1>1. i \notin all /\ i \notin matched /\ t # i /\ t < i /\ t \in Nat
  OBVIOUS
<1>2. \A j \in matched : /\ partner[j] \in matched /\ partner[j] \in all /\ partner[j] \in Nat /\ j \in Nat
                         /\ j \in all /\ partner[j] < i /\ j < i /\ partner[partner[j]] = j
  BY DEF PairedAmong
<1>3. q[t] = i /\ q[i] = t /\ \A j \in matched : q[j] = partner[j] /\ q[j] \in matched
  BY <1>1, <1>2
<1>4. q \in [new -> new]
  BY <1>1, <1>2
<1>5. \A j \in matched :
        IF written[j] \in Openers
          THEN /\ partner[j] > j /\ written[partner[j]] = Closer[written[j]]
               /\ \A k \in all : j < k /\ k < partner[j] =>
                      k \in matched /\ j < partner[k] /\ partner[k] < partner[j]
          ELSE partner[j] < j
  BY DEF PairedAmong
<1>6. written[i] \notin Openers
  BY OpenersAre
<1> HIDE DEF q
<1>7. \A j \in new : q[q[j]] = j
  BY <1>2, <1>3
<1>8. ASSUME NEW j \in new
      PROVE  IF written[j] \in Openers
               THEN /\ q[j] > j /\ written[q[j]] = Closer[written[j]]
                    /\ \A k \in all \cup {i} : j < k /\ k < q[j] =>
                           k \in new /\ j < q[k] /\ q[k] < q[j]
               ELSE q[j] < j
  <2>1. CASE j \in matched /\ written[j] \in Openers
    <3>1. q[j] = partner[j] /\ q[j] > j /\ written[q[j]] = Closer[written[j]] /\ q[j] < i
      BY <1>2, <1>3, <1>5, <2>1
    <3>2. ASSUME NEW k \in all \cup {i}, j < k, k < q[j] PROVE k \in new /\ j < q[k] /\ q[k] < q[j]
      <4>1. k \in all
        BY <1>2, <2>1, <3>1, <3>2
      <4>2. k \in matched /\ j < partner[k] /\ partner[k] < partner[j]
        BY <1>5, <2>1, <3>1, <3>2, <4>1
      <4>3. QED
        BY <1>3, <3>1, <4>2
    <3>3. QED
      BY <2>1, <3>1, <3>2
  <2>2. CASE j \in matched /\ written[j] \notin Openers
    BY <1>3, <1>5, <2>2
  <2>3. CASE j = t
    <3>1. ASSUME NEW k \in all \cup {i}, t < k, k < i PROVE k \in new /\ t < q[k] /\ q[k] < i
      <4>1. k \in all /\ k \in matched /\ k \in Nat
        BY <1>1, <3>1
      <4>2. q[k] = partner[k] /\ partner[k] < i /\ partner[k] \in matched /\ partner[k] \in Nat /\ partner[k] # t
        BY <1>2, <1>3, <4>1
      <4>3. ~ (partner[k] < t)
        <5> SUFFICES ASSUME partner[k] < t PROVE FALSE
          OBVIOUS
        <5>1. partner[partner[k]] = k
          BY <1>2, <4>1
        <5>2. CASE written[partner[k]] \in Openers
          <6>1. t \in matched
            BY <1>1, <1>5, <3>1, <4>2, <5>1, <5>2
          <6>2. QED
            BY <6>1
        <5>3. CASE written[partner[k]] \notin Openers
          <6>1. k < partner[k]
            BY <1>5, <4>2, <5>1, <5>3
          <6>2. QED
            BY <1>1, <3>1, <4>1, <4>2, <6>1
        <5>4. QED
          BY <5>2, <5>3
      <4>4. QED
        BY <1>1, <4>1, <4>2, <4>3
    <3>2. QED
      BY <1>1, <1>3, <2>3, <3>1
  <2>4. CASE j = i
    BY <1>1, <1>3, <1>6, <2>4
  <2>5. QED
    BY <2>1, <2>2, <2>3, <2>4
<1>9. PairedAmong(written, all \cup {i}, new, q)
  BY <1>4, <1>7, <1>8 DEF PairedAmong
<1>10. QED
  BY <1>9

LEMMA PartnersFound ==
    ASSUME NEW written \in Seq(Characters)
    PROVE  \A i \in 0 .. Len(written) : ~ Unbalanced(Reading(written)[i]) =>
               \E pend, partner : /\ PairedSoFar(written, i, pend, partner)
                                  /\ Stacks(written, pend, Reading(written)[i].open)
<1> DEFINE Good == {i \in 0 .. Len(written) : ~ Unbalanced(Reading(written)[i]) =>
                        \E pend, partner : /\ PairedSoFar(written, i, pend, partner)
                                           /\ Stacks(written, pend, Reading(written)[i].open)}
           D == Directional(written)
<1>1. Len(written) \in Nat /\ D \subseteq 1 .. Len(written) /\ D \subseteq Nat
  BY LenProperties DEF Directional
<1>2. 0 \in Good
  <2>1. Reading(written)[0] = NoneRead /\ NoneRead.open = <<>> /\ Len(<<>>) = 0
    BY <1>1, TextIsRead DEF NoneRead
  <2>2. UpTo(written, 0) = {}
    BY <1>1 DEF UpTo
  <2>3. StacksBy(written, {}, <<>>, [k \in 1 .. 0 |-> 0])
    BY <2>1 DEF StacksBy
  <2>4. PairedSoFar(written, 0, {}, [k \in {} |-> 0])
    BY <2>2 DEF PairedSoFar, PairedAmong
  <2>5. 0 \in 0 .. Len(written) /\ Stacks(written, {}, Reading(written)[0].open)
    BY <1>1, <2>1, <2>3 DEF Stacks
  <2>6. QED
    BY <2>4, <2>5
<1>3. ASSUME NEW i \in 1 .. Len(written), i - 1 \in Good PROVE i \in Good
  <2> DEFINE old == Reading(written)[i - 1]
             new == Reading(written)[i]
             all == UpTo(written, i - 1)
  <2>1. i \in 0 .. Len(written) /\ i # 0 /\ i - 1 \in 0 .. Len(written) /\ i \in Nat
    BY <1>1
  <2>2. Read(written, old, i, new) /\ old.open \in Seq({"pdf", "pdi"})
    BY <2>1, ReadingAddsUp DEF ReadStates
  <2>3. i \in D <=> written[i] \in Openers \cup {"pdf", "pdi"}
    BY DEF Directional
  <2>4. all \in SUBSET Nat /\ \A k \in all : k < i /\ written[k] \in Openers \cup {"pdf", "pdi"}
    BY <1>1, <2>1 DEF UpTo, Directional
  <2>5. UpTo(written, i) = IF i \in D THEN all \cup {i} ELSE all
    <3>1. \A j \in D : j <= i <=> j <= i - 1 \/ j = i
      BY <1>1, <2>1
    <3>2. QED
      BY <3>1 DEF UpTo
  <2> SUFFICES ASSUME ~ Unbalanced(new)
               PROVE  \E pend, partner : PairedSoFar(written, i, pend, partner) /\ Stacks(written, pend, new.open)
    BY <2>1
  <2>6. ~ Unbalanced(old)
    <3>1. Unbalanced(new) = Unbalanced(old) \/ Unbalanced(new)
      BY <2>2 DEF Read
    <3>2. OthersFound(old) = OthersFound(old)
      OBVIOUS
    <3>3. QED
      BY <2>2, <3>1 DEF Read
  <2>7. PICK pend, partner : PairedSoFar(written, i - 1, pend, partner) /\ Stacks(written, pend, old.open)
    BY <1>3, <2>6
  <2>8. pend \in SUBSET all /\ PairedAmong(written, all, all \ pend, partner)
    BY <2>7 DEF PairedSoFar
  <2> HIDE DEF D, all, old, new
  <2>9. CASE i \notin D
    <3>1. new.open = old.open /\ UpTo(written, i) = all
      BY <2>2, <2>3, <2>5, <2>9 DEF Read
    <3>2. QED
      BY <2>7, <2>8, <3>1 DEF PairedSoFar
  <2>10. CASE i \in D /\ written[i] \in Openers
    <3>1. new.open = Append(old.open, Closer[written[i]]) /\ UpTo(written, i) = all \cup {i}
      BY <2>2, <2>5, <2>10 DEF Read
    <3>2. Stacks(written, pend \cup {i}, new.open)
      BY <2>1, <2>2, <2>4, <2>7, <2>8, <2>10, <3>1, StackGrows
    <3>3. (all \cup {i}) \ (pend \cup {i}) = all \ pend
      BY <2>1, <2>4
    <3>4. PairedAmong(written, all \cup {i}, all \ pend, partner)
      <4>1. \A j \in all \ pend : partner[j] \in all /\ partner[j] < i /\ partner[j] \in Nat
        BY <2>4, <2>8 DEF PairedAmong
      <4>2. \A j \in all \ pend : ~ (i < partner[j])
        BY <2>1, <2>4, <4>1
      <4>3. QED
        BY <2>8, <4>2 DEF PairedAmong
    <3>5. PairedSoFar(written, i, pend \cup {i}, partner)
      BY <2>8, <3>1, <3>3, <3>4 DEF PairedSoFar
    <3>6. QED
      BY <3>2, <3>5
  <2>11. CASE i \in D /\ written[i] \notin Openers
    <3>1. old.open # <<>> /\ Last(old.open) = written[i] /\ new.open = Front(old.open)
      BY <2>2, <2>3, <2>11 DEF Read
    <3>2. PICK t \in pend : \A p \in pend : p <= t
      BY <2>2, <2>4, <2>7, <2>8, <3>1, StackHasATop
    <3>3. written[t] \in Openers /\ written[i] = Closer[written[t]] /\ Stacks(written, pend \ {t}, new.open)
      <4>1. pend \in SUBSET Nat /\ t \in pend /\ \A p \in pend : p <= t
        BY <2>4, <2>8, <3>2
      <4>2. /\ written[t] \in Openers /\ Last(old.open) = Closer[written[t]]
            /\ Stacks(written, pend \ {t}, Front(old.open))
        BY <2>2, <2>7, <4>1, StackShrinks
      <4>3. QED
        BY <3>1, <4>2
    <3>4. \A k \in all : k > t => k \in all \ pend
      BY <2>4, <2>8, <3>2
    <3>5. PICK q : PairedAmong(written, all \cup {i}, (all \ pend) \cup {t, i}, q)
      BY <2>1, <2>4, <2>8, <3>2, <3>3, <3>4, PairOneMore
    <3>6. UpTo(written, i) = all \cup {i} /\ (all \cup {i}) \ (pend \ {t}) = (all \ pend) \cup {t, i}
      BY <2>4, <2>5, <2>8, <2>11, <3>2
    <3>7. PairedSoFar(written, i, pend \ {t}, q)
      BY <2>8, <3>5, <3>6 DEF PairedSoFar
    <3>8. QED
      BY <3>3, <3>7
  <2>12. QED
    BY <2>9, <2>10, <2>11
<1>4. Good = 0 .. Len(written)
  <2>1. Good \in SUBSET (0 .. Len(written))
    OBVIOUS
  <2> HIDE DEF Good
  <2>2. QED
    BY <1>1, <1>2, <1>3, <2>1, OneByOne
<1>5. QED
  BY <1>4

LEMMA LeaksAreUnnested ==
    ASSUME NEW written \in Seq(Characters)
    PROVE  "bidi-unbalanced" \in AnomaliesOf(written) <=> ~ Nested(written)
<1> DEFINE end == Reading(written)[Len(written)]
<1>1. Len(written) \in Nat /\ Len(written) \in 0 .. Len(written)
  BY LenProperties
<1>2. "bidi-unbalanced" \in AnomaliesOf(written) <=> Unbalanced(end) \/ end.open # <<>>
  BY DEF AnomaliesOf, Unbalanced
<1>3. end.open \in Seq({"pdf", "pdi"})
  BY <1>1, ReadingAddsUp DEF ReadStates
<1>4. ASSUME Nested(written) PROVE ~ Unbalanced(end) /\ end.open = <<>>
  <2>1. PICK partner \in [Directional(written) -> Directional(written)] : PairedBy(written, partner)
    BY <1>4 DEF Nested
  <2>2. ~ Unbalanced(end) /\ Stacks(written, AwaitingPartner(written, partner, Len(written)), end.open)
    BY <1>1, <2>1, PartnersFit
  <2>3. AwaitingPartner(written, partner, Len(written)) = {}
    BY <1>1, <2>1 DEF AwaitingPartner, Directional
  <2>4. QED
    BY <1>3, <2>2, <2>3, StackHasATop
<1>5. ASSUME ~ Unbalanced(end), end.open = <<>> PROVE Nested(written)
  <2>1. PICK pend, partner : PairedSoFar(written, Len(written), pend, partner) /\ Stacks(written, pend, end.open)
    BY <1>1, <1>5, PartnersFound
  <2>2. UpTo(written, Len(written)) = Directional(written) /\ Directional(written) \in SUBSET Nat
    BY <1>1 DEF UpTo, Directional
  <2>3. pend \in SUBSET Nat
    BY <2>1, <2>2 DEF PairedSoFar
  <2>4. pend = {}
    BY <1>3, <1>5, <2>1, <2>3, StackHasATop
  <2>5. PairedAmong(written, Directional(written), Directional(written), partner)
    BY <2>1, <2>2, <2>4 DEF PairedSoFar
  <2>6. partner \in [Directional(written) -> Directional(written)] /\ PairedBy(written, partner)
    BY <2>5 DEF PairedAmong, PairedBy
  <2>7. QED
    BY <2>6 DEF Nested
<1>6. QED
  BY <1>2, <1>4, <1>5

-----------------------------------------------------------------------------
LEMMA ThereIsALeast ==
    ASSUME NEW S \in SUBSET Nat, S # {}
    PROVE  \E m \in S : \A l \in S : m <= l
<1>1. PICK m \in S : \A l \in S : ~ (<<l, m>> \in OpToRel(<, Nat))
  BY NatLessThanWellFounded, WFMin
<1>2. \A l \in S : ~ (l < m)
  BY <1>1 DEF OpToRel
<1>3. QED
  BY <1>2

(* Around every tag there is a run of tags that ends on both sides.        *)
RunsTo(written, i, run) ==
    /\ run \in (1 .. i) \X (i .. Len(written))
    /\ \A k \in run[1] .. run[2] : TagAt(written, k)
    /\ ~ TagAt(written, run[1] - 1) /\ ~ TagAt(written, run[2] + 1)

LEMMA TagsRun ==
    ASSUME NEW written \in Seq(Characters), NEW i \in 1 .. Len(written), TagAt(written, i)
    PROVE  RunsTo(written, i, TagRun(written, i))
<1> DEFINE n == Len(written)
           From == {a \in 1 .. i : \A k \in a .. i : TagAt(written, k)}
           To == {b \in i .. n : ~ TagAt(written, b + 1)}
<1>1. n \in Nat /\ i \in Nat
  BY LenProperties
<1>2. ~ TagAt(written, 0) /\ ~ TagAt(written, n + 1)
  BY <1>1 DEF TagAt, CharAt
<1>3. PICK a \in From : \A l \in From : a <= l
  <2>1. \A k \in i .. i : k = i
    BY <1>1
  <2>2. i \in From
    BY <1>1, <2>1
  <2>3. From \in SUBSET Nat
    BY <1>1
  <2>4. From # {}
    <3> HIDE DEF From
    <3>1. QED
      BY <2>2
  <2> HIDE DEF From
  <2>5. QED
    BY <2>3, <2>4, ThereIsALeast
<1>4. PICK b \in To : \A l \in To : b <= l
  <2>1. To \in SUBSET Nat /\ To # {}
    BY <1>1, <1>2
  <2> HIDE DEF To
  <2>2. QED
    BY <2>1, ThereIsALeast
<1>5. a \in 1 .. i /\ b \in i .. n /\ ~ TagAt(written, b + 1) /\ \A k \in a .. i : TagAt(written, k)
  OBVIOUS
<1>6. ~ TagAt(written, a - 1)
  <2> SUFFICES ASSUME TagAt(written, a - 1) PROVE FALSE
    OBVIOUS
  <2>1. a - 1 # 0
    BY <1>2
  <2>2. a - 1 \in 1 .. i
    BY <1>1, <1>5, <2>1
  <2>3. \A k \in a - 1 .. i : k = a - 1 \/ k \in a .. i
    BY <1>1, <1>5
  <2>4. a - 1 \in From
    BY <1>5, <2>2, <2>3
  <2>5. a <= a - 1
    <3> HIDE DEF From
    <3>1. QED
      BY <1>3, <2>4
  <2>6. QED
    BY <1>1, <1>5, <2>5
<1>7. ASSUME NEW k \in a .. b PROVE TagAt(written, k)
  <2>1. CASE k <= i
    BY <1>1, <1>5, <2>1
  <2>2. CASE k > i
    <3>1. k - 1 \in i .. n /\ ~ (b <= k - 1) /\ (k - 1) + 1 = k
      BY <1>1, <1>5, <2>2
    <3>2. k - 1 \notin To
      <4> HIDE DEF To
      <4>1. QED
        BY <1>4, <3>1
    <3>3. QED
      BY <3>1, <3>2
  <2>3. QED
    BY <1>1, <1>5, <2>1, <2>2
<1>8. RunsTo(written, i, <<a, b>>)
  BY <1>5, <1>6, <1>7 DEF RunsTo
<1>9. TagRun(written, i) = CHOOSE run \in (1 .. i) \X (i .. Len(written)) : RunsTo(written, i, run)
  BY DEF TagRun, RunsTo
<1>10. <<a, b>> \in (1 .. i) \X (i .. Len(written))
  BY <1>5
<1>11. QED
  BY <1>8, <1>9, <1>10

(* A run that follows a flag and ends with the terminator starts and ends  *)
(* where they are.                                                         *)
LEMMA FlagsAreHonest ==
    ASSUME NEW written \in Seq(Characters), NEW c \in Nat, c + 3 <= Len(written),
           written[c + 1] = "flag", written[c + 2] = "tag", written[c + 3] = "tag-end",
           ~ TagAt(written, c + 4)
    PROVE  InFlagSequence(written, c + 2) /\ InFlagSequence(written, c + 3)
<1> DEFINE n == Len(written)
<1>1. n \in Nat /\ c + 1 \in 1 .. n /\ c + 2 \in 1 .. n /\ c + 3 \in 1 .. n
  BY LenProperties
<1>2. ~ TagAt(written, c + 1) /\ TagAt(written, c + 2) /\ TagAt(written, c + 3) /\ CharAt(written, c + 1) = "flag"
  BY <1>1 DEF TagAt, CharAt
<1>3. ASSUME NEW i \in {c + 2, c + 3} PROVE InFlagSequence(written, i)
  <2> DEFINE run == TagRun(written, i)
             a == run[1]
             b == run[2]
  <2>1. RunsTo(written, i, run)
    BY <1>1, <1>2, <1>3, TagsRun
  <2>2. a \in 1 .. i /\ b \in i .. n /\ ~ TagAt(written, a - 1) /\ ~ TagAt(written, b + 1)
        /\ \A k \in a .. b : TagAt(written, k)
    BY <2>1 DEF RunsTo
  <2> HIDE DEF run
  <2>3. ~ (c + 1 \in a .. b) /\ ~ (c + 4 \in a .. b)
    BY <1>2, <2>2
  <2>4. a - 1 # c + 2 /\ b + 1 # c + 3
    BY <1>2, <2>2
  <2>5. a = c + 2 /\ b = c + 3
    BY <1>1, <1>3, <2>2, <2>3, <2>4
  <2>6. a - 1 = c + 1
    BY <2>5
  <2>7. OpensOnly(written, i)
    BY <1>2, <2>6 DEF OpensOnly, run
  <2>8. TerminatesOnly(written, i)
    BY <2>5 DEF TerminatesOnly, run
  <2>9. QED
    BY <2>7, <2>8 DEF InFlagSequence
<1>4. QED
  BY <1>3

(* What is not reported at all is reported nowhere.                        *)
LEMMA SilentThroughout ==
    ASSUME NEW written \in Seq(Characters)
    PROVE  /\ AnomaliesOf(written) \in SUBSET Anomalies
           /\ AnomaliesOf(written) = {} <=> /\ "bidi-unbalanced" \notin AnomaliesOf(written)
                                         /\ \A i \in 1 .. Len(written) : ReportedFor(written, i) = {}
<1> DEFINE end == Reading(written)[Len(written)]
<1>1. Len(written) \in 0 .. Len(written)
  BY LenProperties
<1>2. end \in ReadStates /\ OthersFound(end) = ReportedUpTo(written, Len(written))
  BY <1>1, ReadingAddsUp
<1>3. end.found \in SUBSET Anomalies
  BY <1>2 DEF ReadStates
<1>4. AnomaliesOf(written) \in SUBSET Anomalies /\ AnomaliesOf(written) \ {"bidi-unbalanced"} = OthersFound(end)
  BY <1>3 DEF AnomaliesOf, Anomalies, OthersFound
<1>5. ReportedUpTo(written, Len(written)) = {} <=> \A i \in 1 .. Len(written) : ReportedFor(written, i) = {}
  BY DEF ReportedUpTo
<1>6. QED
  BY <1>2, <1>4, <1>5

LEMMA NothingIsSmuggled ==
    ASSUME NEW written \in Seq(Characters), AnomaliesOf(written) = {}, NEW i \in 1 .. Len(written)
    PROVE  /\ written[i] \notin {"operator", "override"}
           /\ TagAt(written, i) =>
                  \E k \in 1 .. i - 1 : written[k] = "flag" /\ \A j \in k + 1 .. i : TagAt(written, j)
<1>1. ReportedFor(written, i) = {}
  BY SilentThroughout
<1>2. written[i] \notin {"operator", "override"}
  BY <1>1 DEF ReportedFor
<1>3. ASSUME TagAt(written, i)
      PROVE  \E k \in 1 .. i - 1 : written[k] = "flag" /\ \A j \in k + 1 .. i : TagAt(written, j)
  <2> DEFINE run == TagRun(written, i)
             k == run[1] - 1
  <2>1. InFlagSequence(written, i)
    BY <1>1, <1>3 DEF ReportedFor
  <2>2. RunsTo(written, i, run)
    BY <1>3, TagsRun
  <2>3. run[1] \in 1 .. i /\ run[2] \in i .. Len(written) /\ \A j \in run[1] .. run[2] : TagAt(written, j)
    BY <2>2 DEF RunsTo
  <2>4. CharAt(written, k) = "flag"
    BY <2>1 DEF InFlagSequence, OpensOnly
  <2> HIDE DEF run
  <2>5. k \in 1 .. Len(written) /\ written[k] = "flag"
    BY <2>4 DEF CharAt
  <2>6. k \in 1 .. i - 1 /\ \A j \in k + 1 .. i : j \in run[1] .. run[2]
    BY <2>3, <2>5
  <2>7. QED
    BY <2>3, <2>5, <2>6
<1>4. QED
  BY <1>2, <1>3

-----------------------------------------------------------------------------
(* What stands between two cuts.                                           *)
Spelt(written, c, e) ==
    \/ e = c + 1 /\ written[c + 1] = "letter"
    \/ e = c + 3 /\ written[c + 1] = "other" /\ written[c + 2] = "zero-width" /\ written[c + 3] = "other"
    \/ e = c + 3 /\ written[c + 1] = "flag" /\ written[c + 2] = "tag" /\ written[c + 3] = "tag-end"
    \/ e = c + 3 /\ written[c + 1] = "isolate" /\ written[c + 2] = "letter" /\ written[c + 3] = "pdi"

LEMMA UnitsAreSpelt ==
    ASSUME NEW written, NEW c \in Nat, NEW unit \in HonestUnits,
           \A k \in 1 .. Len(unit) : written[c + k] = unit[k]
    PROVE  Spelt(written, c, c + Len(unit))
<1>1. CASE unit = <<"letter">>
  <2>1. Len(unit) = 1 /\ unit[1] = "letter" /\ 1 \in 1 .. Len(unit)
    BY <1>1
  <2>2. QED
    BY <2>1 DEF Spelt
<1>2. CASE unit = <<"other", "zero-width", "other">>
  <2>1. Len(unit) = 3 /\ 1 \in 1 .. 3 /\ 2 \in 1 .. 3 /\ 3 \in 1 .. 3
        /\ unit[1] = "other" /\ unit[2] = "zero-width" /\ unit[3] = "other"
    BY <1>2
  <2>2. written[c + 1] = unit[1] /\ written[c + 2] = unit[2] /\ written[c + 3] = unit[3]
    BY <2>1
  <2>3. QED
    BY <2>1, <2>2 DEF Spelt
<1>3. CASE unit = <<"flag", "tag", "tag-end">>
  <2>1. Len(unit) = 3 /\ 1 \in 1 .. 3 /\ 2 \in 1 .. 3 /\ 3 \in 1 .. 3
        /\ unit[1] = "flag" /\ unit[2] = "tag" /\ unit[3] = "tag-end"
    BY <1>3
  <2>2. written[c + 1] = unit[1] /\ written[c + 2] = unit[2] /\ written[c + 3] = unit[3]
    BY <2>1
  <2>3. QED
    BY <2>1, <2>2 DEF Spelt
<1>4. CASE unit = <<"isolate", "letter", "pdi">>
  <2>1. Len(unit) = 3 /\ 1 \in 1 .. 3 /\ 2 \in 1 .. 3 /\ 3 \in 1 .. 3
        /\ unit[1] = "isolate" /\ unit[2] = "letter" /\ unit[3] = "pdi"
    BY <1>4
  <2>2. written[c + 1] = unit[1] /\ written[c + 2] = unit[2] /\ written[c + 3] = unit[3]
    BY <2>1
  <2>3. QED
    BY <2>1, <2>2 DEF Spelt
<1>5. QED
  BY <1>1, <1>2, <1>3, <1>4 DEF HonestUnits

CutInto(written, cuts) ==
    /\ cuts \in SUBSET (AfterMark(written) .. Len(written))
    /\ {AfterMark(written), Len(written)} \subseteq cuts
    /\ \A c \in cuts \ {Len(written)} : \E e \in cuts : Spelt(written, c, e)

LEMMA HonestIsCut ==
    ASSUME NEW written \in Seq(Characters), Honest(written)
    PROVE  \E cuts : CutInto(written, cuts)
<1>1. PICK cuts \in SUBSET (AfterMark(written) .. Len(written)) :
        /\ {AfterMark(written), Len(written)} \subseteq cuts
        /\ \A c \in cuts \ {Len(written)} : \E unit \in HonestUnits :
               c + Len(unit) \in cuts /\ \A k \in 1 .. Len(unit) : written[c + k] = unit[k]
  BY DEF Honest
<1>2. ASSUME NEW c \in cuts \ {Len(written)} PROVE \E e \in cuts : Spelt(written, c, e)
  <2>1. PICK unit \in HonestUnits : c + Len(unit) \in cuts /\ \A k \in 1 .. Len(unit) : written[c + k] = unit[k]
    BY <1>1
  <2>2. c \in Nat
    <3>1. AfterMark(written) \in Nat /\ Len(written) \in Nat
      BY LenProperties DEF AfterMark
    <3>2. QED
      BY <1>2, <3>1
  <2>3. QED
    BY <2>1, <2>2, UnitsAreSpelt
<1>3. QED
  BY <1>1, <1>2 DEF CutInto

(* Every character stands in a unit, or is the mark.                       *)
LEMMA EachInAUnit ==
    ASSUME NEW written \in Seq(Characters), NEW cuts, CutInto(written, cuts),
           NEW i \in 1 .. Len(written)
    PROVE  \/ i = 1 /\ written[i] = "bom"
           \/ \E c \in cuts, e \in cuts : c \in Nat /\ c < i /\ i <= e /\ e <= Len(written) /\ Spelt(written, c, e)
<1> DEFINE m == AfterMark(written)
           n == Len(written)
           Behind == {d \in Nat : d # 0 /\ i - d \in cuts}
<1>1. n \in Nat /\ i \in Nat /\ m \in {0, 1} /\ (m = 1 => written[1] = "bom")
  BY LenProperties DEF AfterMark
<1>2. CASE i <= m
  BY <1>1, <1>2
<1>3. CASE i > m
  <2> HIDE DEF m
  <2>1. cuts \in SUBSET (m .. n) /\ m \in cuts
    BY DEF CutInto, m
  <2>2. i - m \in Behind
    <3>1. i - m \in Nat /\ i - m # 0 /\ i - (i - m) = m
      BY <1>1, <1>3
    <3>2. QED
      BY <2>1, <3>1
  <2>3. PICK d \in Behind : \A l \in Behind : d <= l
    <3>1. Behind \in SUBSET Nat /\ Behind # {}
      BY <2>2
    <3> HIDE DEF Behind
    <3>2. QED
      BY <3>1, ThereIsALeast
  <2> DEFINE c == i - d
  <2>4. d \in Nat /\ d # 0 /\ c \in cuts
    OBVIOUS
  <2>5. c \in Nat /\ c < i /\ c # n
    BY <1>1, <2>1, <2>4
  <2>6. PICK e \in cuts : Spelt(written, c, e)
    BY <2>4, <2>5 DEF CutInto
  <2>7. e > c /\ e \in Nat /\ e <= n
    BY <1>1, <2>1, <2>5, <2>6 DEF Spelt
  <2>8. i <= e
    <3> SUFFICES ASSUME e < i PROVE FALSE
      BY <1>1, <2>7
    <3>1. i - e \in Nat /\ i - e # 0 /\ i - (i - e) = e /\ ~ (d <= i - e)
      BY <1>1, <2>4, <2>7
    <3>2. i - e \in Behind
      BY <3>1
    <3> HIDE DEF Behind
    <3>3. QED
      BY <2>3, <3>1, <3>2
  <2>9. QED
    BY <2>4, <2>5, <2>6, <2>7, <2>8
<1>4. QED
  BY <1>1, <1>2, <1>3

LEMMA HonestCharsAreSilent ==
    ASSUME NEW written \in Seq(Characters), NEW cuts, CutInto(written, cuts),
           NEW i \in 1 .. Len(written)
    PROVE  ReportedFor(written, i) = {}
<1>0. Len(written) \in Nat
  BY LenProperties
<1>1. TagAt(written, i) <=> written[i] \in {"tag", "tag-end"}
  BY DEF TagAt, CharAt
<1>2. CASE i = 1 /\ written[i] = "bom"
  BY <1>1, <1>2 DEF ReportedFor
<1>3. CASE ~ (i = 1 /\ written[i] = "bom")
  <2>1. PICK c \in cuts, e \in cuts :
            c \in Nat /\ c < i /\ i <= e /\ e <= Len(written) /\ Spelt(written, c, e)
    BY <1>3, EachInAUnit
  <2>2. CASE written[i] \in {"letter", "other", "flag", "isolate", "pdi"}
    BY <1>1, <2>2 DEF ReportedFor
  <2>3. CASE written[i] = "zero-width"
    <3>1. i - 1 = c + 1 /\ written[c + 1] = "other"
      BY <2>1, <2>3 DEF Spelt
    <3>2. CharAt(written, i - 1) # "letter"
      BY <3>1 DEF CharAt
    <3>3. QED
      BY <1>1, <2>3, <3>2 DEF ReportedFor, SplitsWord
  <2>4. CASE written[i] \in {"tag", "tag-end"}
    <3>1. /\ i \in {c + 2, c + 3} /\ e = c + 3
          /\ written[c + 1] = "flag" /\ written[c + 2] = "tag" /\ written[c + 3] = "tag-end"
      BY <2>1, <2>4 DEF Spelt
    <3>2. ~ TagAt(written, c + 4)
      <4>1. CASE e = Len(written)
        <5>1. c + 4 \notin 1 .. Len(written)
          BY <1>0, <2>1, <3>1, <4>1
        <5>2. QED
          BY <5>1 DEF TagAt, CharAt
      <4>2. CASE e # Len(written)
        <5>1. PICK f \in cuts : Spelt(written, e, f)
          BY <4>2 DEF CutInto
        <5>2. written[e + 1] \in {"letter", "other", "flag", "isolate"} /\ e + 1 = c + 4
          BY <2>1, <3>1, <5>1 DEF Spelt
        <5>3. QED
          BY <5>2 DEF TagAt, CharAt
      <4>3. QED
        BY <4>1, <4>2
    <3>3. InFlagSequence(written, i)
      BY <2>1, <3>1, <3>2, FlagsAreHonest
    <3>4. QED
      BY <1>1, <2>4, <3>3 DEF ReportedFor
  <2>5. written[i] \in {"letter", "other", "flag", "isolate", "pdi", "zero-width", "tag", "tag-end"}
    BY <2>1 DEF Spelt
  <2>6. QED
    BY <2>2, <2>3, <2>4, <2>5
<1>4. QED
  BY <1>2, <1>3

LEMMA HonestIsNested ==
    ASSUME NEW written \in Seq(Characters), NEW cuts, CutInto(written, cuts)
    PROVE  Nested(written)
<1> DEFINE D == Directional(written)
           partner == [j \in D |-> IF written[j] = "isolate" THEN j + 2 ELSE j - 2]
<1>1. Len(written) \in Nat /\ \A j \in D : j \in 1 .. Len(written) /\ j \in Nat
  BY LenProperties DEF Directional
<1>2. ASSUME NEW j \in D
      PROVE  \/ /\ written[j] = "isolate" /\ j + 2 \in D /\ written[j + 2] = "pdi" /\ j + 1 \notin D
             \/ written[j] = "pdi" /\ j - 2 \in D /\ written[j - 2] = "isolate"
  <2>1. j \in 1 .. Len(written) /\ written[j] \in {"override", "embedding", "isolate", "pdf", "pdi"}
    BY OpenersAre DEF Directional
  <2>2. PICK c \in cuts, e \in cuts :
            c \in Nat /\ c < j /\ j <= e /\ e <= Len(written) /\ Spelt(written, c, e)
    BY <2>1, EachInAUnit
  <2>3. /\ written[c + 1] = "isolate" /\ written[c + 2] = "letter" /\ written[c + 3] = "pdi"
        /\ e = c + 3 /\ j \in {c + 1, c + 3}
    BY <2>1, <2>2 DEF Spelt
  <2>4. c + 1 \in D /\ c + 2 \notin D /\ c + 3 \in D
    BY <1>1, <2>2, <2>3, OpenersAre DEF Directional
  <2>5. CASE j = c + 1
    <3>1. j + 2 = c + 3 /\ j + 1 = c + 2
      BY <2>2, <2>5
    <3>2. QED
      BY <2>3, <2>4, <2>5, <3>1
  <2>6. CASE j = c + 3
    <3>1. j - 2 = c + 1
      BY <2>2, <2>6
    <3>2. QED
      BY <2>3, <2>4, <2>6, <3>1
  <2>7. QED
    BY <2>3, <2>5, <2>6
<1>3. \A j \in D : partner[j] \in D
  BY <1>2
<1>4. partner \in [D -> D]
  BY <1>3
<1>5. ASSUME NEW i \in D
      PROVE  /\ partner[partner[i]] = i
             /\ IF written[i] \in Openers
                  THEN /\ partner[i] > i /\ written[partner[i]] = Closer[written[i]]
                       /\ \A k \in D : i < k /\ k < partner[i] => i < partner[k] /\ partner[k] < partner[i]
                  ELSE partner[i] < i
  <2>1. CASE written[i] = "isolate"
    <3>1. i + 2 \in D /\ written[i + 2] = "pdi" /\ i + 1 \notin D /\ i \in Nat
      BY <1>1, <1>2, <2>1
    <3>2. partner[i] = i + 2 /\ partner[i + 2] = i + 2 - 2 /\ i + 2 - 2 = i
      BY <2>1, <3>1
    <3> HIDE DEF D, partner
    <3>3. \A k \in D : ~ (i < k /\ k < i + 2)
      <4>1. \A k \in D : k # i + 1 /\ k \in Nat
        BY <1>1, <3>1
      <4>2. QED
        BY <3>1, <4>1
    <3>4. QED
      BY <2>1, <3>1, <3>2, <3>3, OpenersAre
  <2>2. CASE written[i] = "pdi"
    <3>1. i - 2 \in D /\ written[i - 2] = "isolate" /\ i \in Nat
      BY <1>1, <1>2, <2>2
    <3>2. partner[i] = i - 2 /\ partner[i - 2] = i - 2 + 2 /\ i - 2 + 2 = i
      BY <2>2, <3>1
    <3> HIDE DEF D, partner
    <3>3. QED
      BY <2>2, <3>1, <3>2, OpenersAre
  <2>3. QED
    BY <1>2, <2>1, <2>2
<1>6. PairedBy(written, partner)
  <2> HIDE DEF partner
  <2>1. QED
    BY <1>5 DEF PairedBy
<1>7. QED
  BY <1>4, <1>6 DEF Nested

LEMMA HonestIsSilent ==
    ASSUME NEW written \in Seq(Characters), Honest(written)
    PROVE  AnomaliesOf(written) = {}
<1>1. PICK cuts : CutInto(written, cuts)
  BY HonestIsCut
<1>2. "bidi-unbalanced" \notin AnomaliesOf(written)
  BY <1>1, HonestIsNested, LeaksAreUnnested
<1>3. \A i \in 1 .. Len(written) : ReportedFor(written, i) = {}
  BY <1>1, HonestCharsAreSilent
<1>4. QED
  BY <1>2, <1>3, SilentThroughout

-----------------------------------------------------------------------------
(* What was seen is what the text has.                                     *)
SeenAsItIs ==
    \/ chars \in Texts \cup {<<>>} /\ seenThere = Unjudged
    \/ chars \in Texts /\ seenThere = AnomaliesOf(chars)

LEMMA TextIsSeenAsItIs == InvisibleTextSpec => []SeenAsItIs
<1>1. InvisibleTextInit => SeenAsItIs
  BY DEF InvisibleTextInit, SeenAsItIs
<1>2. SeenAsItIs /\ [InvisibleTextNext]_invisibleVars => SeenAsItIs'
  BY DEF InvisibleTextNext, AnalyseText, invisibleVars, SeenAsItIs
<1>3. QED
  BY <1>1, <1>2, PTL DEF InvisibleTextSpec

(* What is invisible in a text is reported exactly where it carries or     *)
(* hides something: directional runs that do not pair up, tags outside a   *)
(* flag, operators; and honest writing is never reported (anomaliesOf).    *)
THEOREM InvisibleAlwaysWeighed == InvisibleTextSpec => []InvisibleIsWeighed
<1>1. SeenAsItIs => InvisibleIsWeighed
  <2> SUFFICES ASSUME SeenAsItIs PROVE InvisibleIsWeighed
    OBVIOUS
  <2>1. CASE chars \in Texts \cup {<<>>} /\ seenThere = Unjudged
    <3>1. Unjudged # {}
      BY DEF Unjudged
    <3>2. QED
      BY <2>1, <3>1 DEF InvisibleIsWeighed, InvisibleTextTypeOK, LeaksUnlessNested,
                        HonestWritingIsSilent, NoChannelPasses
  <2>2. CASE chars \in Texts /\ seenThere = AnomaliesOf(chars)
    <3>1. chars \in Seq(Characters)
      BY <2>2, InvisibleTextAssumption
    <3>2. InvisibleTextTypeOK
      BY <2>2, <3>1, SilentThroughout DEF InvisibleTextTypeOK
    <3>3. LeaksUnlessNested
      BY <2>2, <3>1, LeaksAreUnnested DEF LeaksUnlessNested
    <3>4. HonestWritingIsSilent
      BY <2>2, <3>1, HonestIsSilent DEF HonestWritingIsSilent
    <3>5. NoChannelPasses
      BY <2>2, <3>1, NothingIsSmuggled DEF NoChannelPasses
    <3>6. QED
      BY <3>2, <3>3, <3>4, <3>5 DEF InvisibleIsWeighed
  <2>3. QED
    BY <2>1, <2>2 DEF SeenAsItIs
<1>2. QED
  BY <1>1, TextIsSeenAsItIs, PTL

(* For any texts and any hidden pages: what is invisible is weighed, and   *)
(* the verdicts on what is hidden are earned (anomaliesOf to               *)
(* handleCandidates): both steps of the judgement.                         *)
THEOREM DetectionAlwaysEarned == InvisibleTextSpec /\ InjectionSpec => []DetectionIsEarned
<1>1. InvisibleIsWeighed /\ VerdictsAreEarned => DetectionIsEarned
  BY DEF DetectionIsEarned
<1>2. QED
  BY <1>1, InvisibleAlwaysWeighed, VerdictsAlwaysEarned, PTL

-----------------------------------------------------------------------------
(***************************************************************************)
(* OptionsPage, for any areas, steps, presses and moves: what the settled  *)
(* page shows is what was last asked of it, a control waits for its answer *)
(* or is drawn anew, and a tick is lost only where its press was out of    *)
(* date or its write failed.                                               *)
(***************************************************************************)
Failures == [sentence : Presses \cup {NoPress}, diagnostic : Presses \cup {NoPress}]
PressRows == [step : {"none", "act", "disable", "put", "archive", "done"},
              on : AreaHashes \cup Steps \cup {"none", "the extension", "archive"},
              next : SUBSET Steps, sameTree : BOOLEAN, stale : BOOLEAN, written : BOOLEAN]

(* What every part of the page's state is made of.                         *)
OptionsTyped ==
    /\ address \in Addresses /\ pendingRoute \in Routes \cup {NoRoute}
    /\ chained \in Nat /\ painter \in {"idle", "reading", "drawing"}
    /\ body \in Bodies /\ onScreen \in [tree : Bodies, failure : Failures]
    /\ lastView \in Routes \cup {NoRoute} /\ busy \subseteq AreaHashes /\ failure \in Failures
    /\ areaHeld \subseteq AreaHashes /\ progress \subseteq Steps /\ ticked \subseteq Steps
    /\ presses \in [Presses -> PressRows]
    /\ hashMoves \in 0 .. MaxHashMoves /\ threw \in BOOLEAN

(* Whatever was asked for last is the address, and a run that will take it *)
(* up is still in the chain.                                               *)
AskedIsCurrent ==
    /\ chained = 0 => pendingRoute = NoRoute
    /\ pendingRoute \in {NoRoute, RouteFor(address)}

(* With nothing asked for, what is being painted is current.               *)
PaintedIsCurrent ==
    pendingRoute = NoRoute =>
        /\ painter \in {"reading", "drawing"} => body.route = RouteFor(address)
        /\ painter = "drawing" /\ body.kind = "ready" => body.were \subseteq areaHeld

(* With nothing asked for and nothing being painted, so is what is drawn.  *)
DrawnIsCurrent ==
    pendingRoute = NoRoute /\ painter = "idle" /\ ~ threw =>
        /\ onScreen.tree.route = RouteFor(address) /\ onScreen.failure = failure
        /\ onScreen.tree.kind = "ready" => onScreen.tree.were \subseteq areaHeld

(* A press is the later of two on one control only after a redraw.         *)
MarksHold ==
    /\ \A p \in Presses : presses[p].step = "act" /\ presses[p].sameTree => presses[p].on \in busy
    /\ \A p, q \in Presses : p < q /\ presses[p].step = "none" => presses[q].step = "none"
    /\ \A p, q \in Presses :
        p < q /\ presses[p].on = presses[q].on /\ presses[p].step = "act" /\ presses[q].step = "act" =>
            ~ presses[p].sameTree

(* A press that explains a tick that is lost.                              *)
Explains(p) ==
    /\ presses[p].on \in Steps \cup {"archive"}
    /\ presses[p].stale \/ (presses[p].step = "done" /\ ~ presses[p].written)
Writes(p) == presses[p].step \in {"put", "archive"}

(* Where none does, one write at most is under way, and it carries what    *)
(* was last ticked; with none under way that is what is on file.           *)
TicksCarried ==
    /\ \A p \in Presses : presses[p].step = "none" => ~ presses[p].stale
    /\ \A p \in Presses : Writes(p) => presses[p].on \in Steps \cup {"archive"}
    /\ (\A p \in Presses : ~ Explains(p)) =>
        /\ \A p, q \in Presses : Writes(p) /\ Writes(q) => p = q
        /\ \A p \in Presses : presses[p].step = "put" => presses[p].next = ticked
        /\ (\A p \in Presses : presses[p].step # "put") => progress = ticked

OptionsInv == OptionsTyped /\ AskedIsCurrent /\ PaintedIsCurrent /\ DrawnIsCurrent /\ MarksHold
              /\ TicksCarried

-----------------------------------------------------------------------------
LEMMA RoutesAreKnown == \A a \in Addresses : RouteFor(a) \in Routes /\ RouteFor(a) # NoRoute
<1>1. \A a \in Addresses : RouteFor(a) \in Routes
  BY DEF Routes
<1>2. ASSUME NEW a \in Addresses PROVE RouteFor(a) # NoRoute
  <2>1. CASE a \in AreaHashes \cup {Checklist}
    BY <2>1, OptionsAssumption DEF RouteFor, NoRoute, Checklist
  <2>2. CASE a \notin AreaHashes \cup {Checklist}
    BY <2>2 DEF RouteFor, NoRoute, Addresses, Checklist
  <2>3. QED
    BY <2>1, <2>2
<1>3. QED
  BY <1>1, <1>2

LEMMA BodiesAreMade ==
    ASSUME NEW route \in Routes \cup {NoRoute}, NEW kind \in {"blank", "shell", "problem", "unread", "ready"},
           NEW items \in SUBSET AreaHashes, NEW were \in SUBSET AreaHashes, NEW done \in SUBSET Steps
    PROVE  LET read == [items |-> items, were |-> were, progress |-> done] IN
           /\ Body(route, kind, read) \in Bodies
           /\ Body(route, kind, read).route = route /\ Body(route, kind, read).kind = kind
           /\ Body(route, kind, read).were = were
BY DEF Body, Bodies

(* A section shows nothing that is not held while it is read.              *)
LEMMA SectionsShowWhatIsHeld ==
    ASSUME OptionsTyped, NEW route, NEW read \in SectionRead(route)
    PROVE  /\ read = [items |-> read.items, were |-> read.were, progress |-> read.progress]
           /\ read.items \subseteq AreaHashes /\ read.were \subseteq areaHeld
           /\ read.progress \subseteq Steps
<1>1. areaHeld \subseteq AreaHashes /\ progress \subseteq Steps
  BY DEF OptionsTyped
<1>2. \A i \in ListTrusted \cup ExtensionsState : i \subseteq AreaHashes
  BY <1>1 DEF ListTrusted, ExtensionsState
<1>3. CASE route = "#queue"
  <2>1. SectionRead(route) = QueueRead
    BY <1>3 DEF SectionRead, Checklist
  <2>2. QED
    BY <1>1, <2>1 DEF QueueRead
<1>4. CASE route = "#trusted"
  <2>1. SectionRead(route) = TrustedRead
    BY <1>4 DEF SectionRead, Checklist
  <2>2. QED
    BY <1>1, <1>2, <2>1 DEF TrustedRead
<1>5. CASE route = "#extensions"
  <2>1. SectionRead(route) = ExtensionsRead
    BY <1>5 DEF SectionRead, Checklist
  <2>2. QED
    BY <1>1, <1>2, <2>1 DEF ExtensionsRead
<1>6. CASE route = Checklist
  BY <1>1, <1>6 DEF SectionRead, ChecklistRead, Checklist
<1>7. CASE route = "the picker"
  <2>1. SectionRead(route) = {NothingRead}
    BY <1>7 DEF SectionRead, Checklist
  <2>2. QED
    BY <1>1, <2>1 DEF NothingRead
<1>8. CASE route \notin {"#queue", "#trusted", "#extensions", Checklist, "the picker"}
  <2>1. SectionRead(route) = OverviewRead
    BY <1>8 DEF SectionRead
  <2>2. QED
    BY <1>1, <2>1 DEF OverviewRead
<1>9. QED
  BY <1>3, <1>4, <1>5, <1>6, <1>7, <1>8

(* What a press changes of the presses, and what its end does.             *)
LEMMA PressedIsNew ==
    ASSUME OptionsTyped, NEW p \in Presses, NEW step \in {"act", "disable", "put", "archive"},
           NEW on \in AreaHashes \cup Steps \cup {"the extension", "archive"}, NEW next \in SUBSET Steps,
           PressOf(p, step, on, next)
    PROVE  /\ presses' \in [Presses -> PressRows]
           /\ presses'[p].step = step /\ presses'[p].on = on /\ presses'[p].next = next
           /\ presses'[p].sameTree /\ presses'[p].stale = OutOfDate /\ presses'[p].written = FALSE
           /\ \A q \in Presses : q # p => presses'[q] = presses[q]
<1>1. OutOfDate \in BOOLEAN
  BY DEF OutOfDate
<1>2. QED
  BY <1>1 DEF PressOf, OptionsTyped, PressRows

LEMMA EndedIsDone ==
    ASSUME OptionsTyped, NEW p \in Presses, NEW written \in BOOLEAN, Ended(p, written)
    PROVE  /\ presses' \in [Presses -> PressRows]
           /\ presses'[p].step = "done" /\ presses'[p].written = written
           /\ presses'[p].on = presses[p].on /\ presses'[p].next = presses[p].next
           /\ presses'[p].sameTree = presses[p].sameTree /\ presses'[p].stale = presses[p].stale
           /\ \A q \in Presses : q # p => presses'[q] = presses[q]
BY DEF Ended, OptionsTyped, PressRows

LEMMA ReplacedTreeIsNew ==
    ASSUME OptionsTyped, TreeReplaced
    PROVE  /\ presses' \in [Presses -> PressRows] /\ busy' = {}
           /\ \A q \in Presses :
                /\ presses'[q].step = presses[q].step /\ presses'[q].on = presses[q].on
                /\ presses'[q].next = presses[q].next /\ ~ presses'[q].sameTree
                /\ presses'[q].stale = presses[q].stale /\ presses'[q].written = presses[q].written
<1>1. ASSUME NEW q \in Presses PROVE presses'[q] = [presses[q] EXCEPT !.sameTree = FALSE] /\ presses[q] \in PressRows
  BY DEF TreeReplaced, OptionsTyped
<1>2. ASSUME NEW q \in Presses
      PROVE  /\ presses'[q] \in PressRows
             /\ presses'[q].step = presses[q].step /\ presses'[q].on = presses[q].on
             /\ presses'[q].next = presses[q].next /\ presses'[q].sameTree = FALSE
             /\ presses'[q].stale = presses[q].stale /\ presses'[q].written = presses[q].written
  BY <1>1 DEF PressRows
<1>3. presses' = [q \in Presses |-> presses'[q]] /\ busy' = {}
  BY DEF TreeReplaced
<1>4. presses' \in [Presses -> PressRows]
  BY <1>2, <1>3
<1>5. QED
  BY <1>2, <1>3, <1>4

-----------------------------------------------------------------------------
LEMMA OptionsInvInit == OptionsInit => OptionsInv
<1> SUFFICES ASSUME OptionsInit PROVE OptionsInv
  OBVIOUS
<1>1. "" \in Addresses
  BY DEF Addresses
<1>2. Blank \in Bodies /\ Silent \in Failures /\ NotPressed \in PressRows
  <2>1. Blank \in Bodies
    BY BodiesAreMade DEF Blank, NothingRead
  <2>2. QED
    BY <2>1 DEF Silent, Failures, NotPressed, PressRows
<1>3. /\ address = "" /\ pendingRoute = RouteFor("") /\ chained = 1 /\ painter = "idle"
      /\ body = Blank /\ lastView = NoRoute /\ onScreen = [tree |-> Blank, failure |-> Silent]
      /\ busy = {} /\ failure = Silent /\ areaHeld = AreaHashes /\ progress = {}
      /\ presses = [p \in Presses |-> NotPressed] /\ ticked = {} /\ threw = FALSE /\ hashMoves = 0
  BY DEF OptionsInit, OptionsStarts
<1>a. pendingRoute = RouteFor(address) /\ pendingRoute \in Routes /\ pendingRoute # NoRoute
  BY <1>1, <1>3, RoutesAreKnown
<1>b. /\ onScreen \in [tree : Bodies, failure : Failures] /\ presses \in [Presses -> PressRows]
      /\ hashMoves \in 0 .. MaxHashMoves
  <2>1. presses \in [Presses -> PressRows]
    BY <1>2, <1>3
  <2>2. onScreen \in [tree : Bodies, failure : Failures]
    BY <1>2, <1>3
  <2>3. hashMoves \in 0 .. MaxHashMoves
    <3>1. hashMoves = 0 /\ MaxHashMoves \in Nat
      BY <1>3, OptionsAssumption
    <3>2. QED
      BY <3>1
  <2>4. QED
    BY <2>1, <2>2, <2>3
<1>4. OptionsTyped
  BY <1>1, <1>2, <1>3, <1>a, <1>b DEF OptionsTyped
<1>5. AskedIsCurrent /\ PaintedIsCurrent /\ DrawnIsCurrent
  <2>1. chained = 1
    BY <1>3
  <2>2. QED
    BY <1>a, <2>1 DEF AskedIsCurrent, PaintedIsCurrent, DrawnIsCurrent
<1>6. \A p \in Presses : presses[p].step = "none" /\ presses[p].stale = FALSE
  BY <1>3 DEF NotPressed
<1>7. MarksHold
  BY <1>6 DEF MarksHold
<1>8. TicksCarried
  BY <1>3, <1>6 DEF TicksCarried, Explains, Writes
<1>9. QED
  BY <1>4, <1>5, <1>7, <1>8 DEF OptionsInv

-----------------------------------------------------------------------------
LEMMA RunStarts == ASSUME OptionsInv, StartRun PROVE OptionsInv'
<1>1. /\ painter = "idle" /\ chained > 0 /\ chained' = chained - 1 /\ pendingRoute' = NoRoute
      /\ UNCHANGED <<address, lastView, failure, areaHeld, progress, ticked, hashMoves>>
  BY DEF StartRun
<1>2. chained' \in Nat
  BY <1>1 DEF OptionsInv, OptionsTyped
<1>3. OptionsTyped
  BY DEF OptionsInv
<1>4. AskedIsCurrent'
  BY <1>1 DEF AskedIsCurrent
<1>5. CASE pendingRoute = NoRoute
  <2>1. UNCHANGED <<painter, body, onScreen, busy, presses, threw>>
    BY <1>5 DEF StartRun
  <2>2. OptionsTyped'
    BY <1>1, <1>2, <2>1 DEF OptionsInv, OptionsTyped
  <2>3. PaintedIsCurrent' /\ DrawnIsCurrent'
    BY <1>1, <1>5, <2>1 DEF OptionsInv, PaintedIsCurrent, DrawnIsCurrent
  <2>4. MarksHold' /\ TicksCarried'
    BY <1>1, <2>1 DEF OptionsInv, MarksHold, TicksCarried, Explains, Writes
  <2>5. QED
    BY <1>4, <2>2, <2>3, <2>4 DEF OptionsInv
<1>6. CASE pendingRoute # NoRoute
  <2>1. /\ painter' = "reading" /\ threw' = FALSE /\ body' = Body(pendingRoute, "blank", NothingRead)
        /\ Shell(pendingRoute)
    BY <1>6 DEF StartRun
  <2>2. pendingRoute \in Routes /\ pendingRoute = RouteFor(address)
    BY <1>6 DEF OptionsInv, AskedIsCurrent, OptionsTyped
  <2>3. body' \in Bodies /\ body'.route = pendingRoute
    BY <2>1, <2>2, BodiesAreMade DEF NothingRead
  <2>4. Body(pendingRoute, "shell", NothingRead) \in Bodies /\ Silent \in Failures
    <3>1. Body(pendingRoute, "shell", NothingRead) \in Bodies
      BY <2>2, BodiesAreMade DEF NothingRead
    <3>2. QED
      BY <3>1 DEF Silent, Failures
  <2>5. \/ /\ onScreen' = [tree |-> Body(pendingRoute, "shell", NothingRead), failure |-> Silent]
           /\ TreeReplaced
        \/ UNCHANGED <<onScreen, busy, presses>>
    BY <2>1 DEF Shell
  <2>6. /\ onScreen' \in [tree : Bodies, failure : Failures] /\ busy' \subseteq AreaHashes
        /\ presses' \in [Presses -> PressRows]
    BY <1>3, <2>4, <2>5, ReplacedTreeIsNew DEF OptionsTyped
  <2>7. OptionsTyped'
    BY <1>1, <1>2, <1>3, <2>1, <2>3, <2>6 DEF OptionsTyped
  <2>8. PaintedIsCurrent' /\ DrawnIsCurrent'
    BY <1>1, <2>1, <2>2, <2>3 DEF PaintedIsCurrent, DrawnIsCurrent
  <2>9. MarksHold' /\ TicksCarried'
    <3>1. CASE UNCHANGED <<onScreen, busy, presses>>
      BY <1>1, <3>1 DEF OptionsInv, MarksHold, TicksCarried, Explains, Writes
    <3>2. CASE TreeReplaced
      <4>1. MarksHold'
        BY <1>3, <3>2, ReplacedTreeIsNew DEF OptionsInv, MarksHold
      <4>2. TicksCarried'
        BY <1>1, <1>3, <3>2, ReplacedTreeIsNew DEF OptionsInv, TicksCarried, Explains, Writes
      <4>3. QED
        BY <4>1, <4>2
    <3>3. QED
      BY <2>5, <3>1, <3>2
  <2>10. QED
    BY <1>4, <2>7, <2>8, <2>9 DEF OptionsInv
<1>7. QED
  BY <1>5, <1>6

LEMMA ReadIsCurrent == ASSUME OptionsInv, ReadSections PROVE OptionsInv'
<1>1. /\ painter = "reading" /\ painter' = "drawing"
      /\ UNCHANGED <<address, pendingRoute, chained, onScreen, lastView, busy, failure, areaHeld,
                     progress, presses, ticked, threw, hashMoves>>
  BY DEF ReadSections
<1>2. body \in Bodies /\ OptionsTyped
  BY DEF OptionsInv, OptionsTyped
<1>3. /\ body' \in Bodies /\ body'.route = body.route
      /\ body'.kind = "ready" => body'.were \subseteq areaHeld
  <2>1. CASE \E kind \in {"problem", "unread"} : body' = [body EXCEPT !.kind = kind]
    BY <1>2, <2>1 DEF Bodies
  <2>2. ASSUME NEW read \in SectionRead(body.route), body' = Body(body.route, "ready", read)
        PROVE  /\ body' \in Bodies /\ body'.route = body.route
               /\ body'.were \subseteq areaHeld
    <3>1. /\ read = [items |-> read.items, were |-> read.were, progress |-> read.progress]
          /\ read.items \subseteq AreaHashes /\ read.were \subseteq areaHeld
          /\ read.progress \subseteq Steps
      BY <1>2, SectionsShowWhatIsHeld
    <3>2. read.were \subseteq AreaHashes
      BY <1>2, <3>1 DEF OptionsTyped
    <3>3. body.route \in Routes \cup {NoRoute}
      BY <1>2 DEF Bodies
    <3>4. QED
      BY <2>2, <3>1, <3>2, <3>3, BodiesAreMade
  <2>3. \/ \E kind \in {"problem", "unread"} : body' = [body EXCEPT !.kind = kind]
        \/ \E read \in SectionRead(body.route) : body' = Body(body.route, "ready", read)
    BY DEF ReadSections
  <2>4. QED
    BY <2>1, <2>2, <2>3
<1>4. OptionsTyped'
  BY <1>1, <1>2, <1>3 DEF OptionsTyped
<1>5. AskedIsCurrent' /\ PaintedIsCurrent' /\ DrawnIsCurrent'
  BY <1>1, <1>3 DEF OptionsInv, AskedIsCurrent, PaintedIsCurrent, DrawnIsCurrent
<1>6. MarksHold' /\ TicksCarried'
  BY <1>1 DEF OptionsInv, MarksHold, TicksCarried, Explains, Writes
<1>7. QED
  BY <1>4, <1>5, <1>6 DEF OptionsInv

LEMMA DrawIsCurrent == ASSUME OptionsInv, Draw PROVE OptionsInv'
<1>1. /\ painter = "drawing" /\ painter' = "idle" /\ onScreen' = [tree |-> body, failure |-> failure]
      /\ lastView' \in {lastView, body.route} /\ TreeReplaced
      /\ UNCHANGED <<address, pendingRoute, chained, body, failure, areaHeld, progress, ticked, threw,
                     hashMoves>>
  BY DEF Draw
<1>2. OptionsTyped /\ body.route \in Routes \cup {NoRoute}
  BY DEF OptionsInv, OptionsTyped, Bodies
<1>3. OptionsTyped'
  BY <1>1, <1>2, ReplacedTreeIsNew DEF OptionsTyped
<1>4. AskedIsCurrent' /\ PaintedIsCurrent' /\ DrawnIsCurrent'
  BY <1>1 DEF OptionsInv, AskedIsCurrent, PaintedIsCurrent, DrawnIsCurrent
<1>5. MarksHold'
  BY <1>1, <1>2, ReplacedTreeIsNew DEF OptionsInv, MarksHold
<1>6. TicksCarried'
  BY <1>1, <1>2, ReplacedTreeIsNew DEF OptionsInv, TicksCarried, Explains, Writes
<1>7. QED
  BY <1>3, <1>4, <1>5, <1>6 DEF OptionsInv

LEMMA ThrownIsKnown == ASSUME OptionsInv, RunThrows PROVE OptionsInv'
<1>1. /\ painter' = "idle" /\ threw' = TRUE /\ chained' = chained
      /\ UNCHANGED <<address, pendingRoute, body, onScreen, lastView, busy, failure, areaHeld, progress,
                     presses, ticked, hashMoves>>
  BY DEF RunThrows, Rechained
<1>2. OptionsTyped' /\ AskedIsCurrent' /\ PaintedIsCurrent' /\ DrawnIsCurrent'
  BY <1>1 DEF OptionsInv, OptionsTyped, AskedIsCurrent, PaintedIsCurrent, DrawnIsCurrent
<1>3. MarksHold' /\ TicksCarried'
  BY <1>1 DEF OptionsInv, MarksHold, TicksCarried, Explains, Writes
<1>4. QED
  BY <1>2, <1>3 DEF OptionsInv

(* Asking for the address there is makes everything else of no account.    *)
LEMMA AskedForTheAddress ==
    ASSUME OptionsInv, Reload(address'), address' \in Addresses
    PROVE  /\ pendingRoute' \in Routes \cup {NoRoute} /\ chained' \in Nat
           /\ AskedIsCurrent' /\ PaintedIsCurrent' /\ DrawnIsCurrent'
<1>1. pendingRoute' = RouteFor(address') /\ chained' = chained + 1 /\ chained \in Nat
  BY DEF Reload, OptionsInv, OptionsTyped
<1>2. pendingRoute' \in Routes /\ pendingRoute' # NoRoute
  BY <1>1, RoutesAreKnown
<1>3. QED
  BY <1>1, <1>2 DEF AskedIsCurrent, PaintedIsCurrent, DrawnIsCurrent

LEMMA NavigateIsAsked == ASSUME OptionsInv, Navigate PROVE OptionsInv'
<1>1. /\ hashMoves < MaxHashMoves /\ hashMoves' = hashMoves + 1
      /\ address' \in Addresses /\ Reload(address')
      /\ UNCHANGED <<painter, body, onScreen, lastView, busy, failure, areaHeld, progress, presses,
                     ticked, threw>>
  BY DEF Navigate
<1>2. hashMoves' \in 0 .. MaxHashMoves
  BY <1>1, OptionsAssumption DEF OptionsInv, OptionsTyped
<1>3. AskedIsCurrent' /\ PaintedIsCurrent' /\ DrawnIsCurrent'
  BY <1>1, AskedForTheAddress
<1>4. OptionsTyped'
  BY <1>1, <1>2, AskedForTheAddress DEF OptionsInv, OptionsTyped
<1>5. MarksHold' /\ TicksCarried'
  BY <1>1 DEF OptionsInv, MarksHold, TicksCarried, Explains, Writes
<1>6. QED
  BY <1>3, <1>4, <1>5 DEF OptionsInv

(* Nothing that is shown, asked for or painted changes with a press.       *)
LEMMA ShownIsKept ==
    ASSUME OptionsInv,
           UNCHANGED <<address, pendingRoute, chained, painter, body, onScreen, failure, areaHeld, threw>>
    PROVE  AskedIsCurrent' /\ PaintedIsCurrent' /\ DrawnIsCurrent'
BY DEF OptionsInv, AskedIsCurrent, PaintedIsCurrent, DrawnIsCurrent

LEMMA PressesAreApart == \A p, q \in Presses : p < q => p # q
<1>1. \A m, n \in Nat : m < n => m # n
  OBVIOUS
<1>2. QED
  BY <1>1, OptionsAssumption

LEMMA PressKeepsMarks ==
    ASSUME OptionsInv, NEW p \in Presses, Turn(p), NEW step \in {"act", "disable", "put", "archive"},
           NEW on \in AreaHashes \cup Steps \cup {"the extension", "archive"}, NEW next \in SUBSET Steps,
           PressOf(p, step, on, next), busy \subseteq busy',
           step = "act" => Pressable(on) /\ on \in busy'
    PROVE  MarksHold'
<1>1. OptionsTyped /\ MarksHold
  BY DEF OptionsInv
<1>2. /\ presses[p].step = "none" /\ \A q \in Presses : q < p => presses[q].step # "none"
      /\ step = "act" => on \notin busy /\ on \in busy'
  BY DEF Turn, Pressable
<1>3. /\ presses'[p].step = step /\ presses'[p].on = on /\ step # "none"
      /\ \A q \in Presses : q # p => presses'[q] = presses[q]
  <2>1. step # "none"
    OBVIOUS
  <2>2. presses'[p].step = step /\ presses'[p].on = on
    BY <1>1, PressedIsNew
  <2>3. \A q \in Presses : q # p => presses'[q] = presses[q]
    BY <1>1, PressedIsNew
  <2>4. QED
    BY <2>1, <2>2, <2>3
<1>4. \A q \in Presses : presses'[q].step = "act" /\ presses'[q].sameTree => presses'[q].on \in busy'
  BY <1>1, <1>2, <1>3 DEF MarksHold
<1>5. ASSUME NEW q \in Presses, NEW u \in Presses, q < u, presses'[q].step = "none"
      PROVE  presses'[u].step = "none"
  BY <1>1, <1>2, <1>3, <1>5 DEF MarksHold
<1>6. ASSUME NEW q \in Presses, NEW u \in Presses, q < u, presses'[q].on = presses'[u].on,
             presses'[q].step = "act", presses'[u].step = "act"
      PROVE  ~ presses'[q].sameTree
  <2>1. q # u
    BY <1>6, PressesAreApart, Zenon
  <2>2. CASE q = p
    BY <1>1, <1>2, <1>3, <1>6, <2>1, <2>2 DEF MarksHold
  <2>3. CASE u = p
    BY <1>1, <1>2, <1>3, <1>6, <2>1, <2>3 DEF MarksHold
  <2>4. CASE q # p /\ u # p
    BY <1>1, <1>3, <1>6, <2>4 DEF MarksHold
  <2>5. QED
    BY <2>2, <2>3, <2>4
<1>7. QED
  BY <1>4, <1>5, <1>6 DEF MarksHold

LEMMA EndKeepsMarks ==
    ASSUME OptionsInv, NEW p \in Presses, presses[p].step # "none", NEW written \in BOOLEAN, Ended(p, written),
           \/ busy' = busy
           \/ presses[p].step = "act" /\ presses[p].sameTree /\ busy' = busy \ {presses[p].on}
    PROVE  MarksHold'
<1>1. OptionsTyped /\ MarksHold
  BY DEF OptionsInv
<1>2. presses'[p].step = "done" /\ \A q \in Presses : q # p => presses'[q] = presses[q]
  BY <1>1, EndedIsDone
<1>3. ASSUME NEW q \in Presses, presses'[q].step = "act", presses'[q].sameTree
      PROVE  presses'[q].on \in busy'
  <2>1. q # p /\ presses'[q] = presses[q]
    BY <1>2, <1>3
  <2>2. presses[q].on \in busy
    BY <1>1, <1>3, <2>1 DEF MarksHold
  <2>3. CASE presses[p].step = "act" /\ presses[p].sameTree
    <3>1. q < p \/ p < q
      BY <2>1, OptionsAssumption
    <3>2. presses[q].on # presses[p].on
      BY <1>1, <1>3, <2>1, <2>3, <3>1 DEF MarksHold
    <3>3. QED
      BY <2>1, <2>2, <3>2
  <2>4. QED
    BY <2>1, <2>2, <2>3
<1>4. \A q, u \in Presses : q < u /\ presses'[q].step = "none" => presses'[u].step = "none"
  BY <1>1, <1>2 DEF MarksHold
<1>5. \A q, u \in Presses :
        q < u /\ presses'[q].on = presses'[u].on /\ presses'[q].step = "act" /\ presses'[u].step = "act" =>
            ~ presses'[q].sameTree
  BY <1>1, <1>2 DEF MarksHold
<1>6. QED
  BY <1>3, <1>4, <1>5 DEF MarksHold

(* What is pressed and is no write leaves the ticks as they were.          *)
LEMMA OtherPressKeepsTicks ==
    ASSUME OptionsInv, NEW p \in Presses, Turn(p), NEW step \in {"act", "disable"},
           NEW on \in AreaHashes \cup {"the extension"}, PressOf(p, step, on, {}),
           UNCHANGED <<progress, ticked>>
    PROVE  TicksCarried'
<1>1. OptionsTyped /\ TicksCarried /\ presses[p].step = "none"
  BY DEF OptionsInv, Turn
<1>2. presses'[p].step = step /\ \A q \in Presses : q # p => presses'[q] = presses[q]
  <2>1. /\ step \in {"act", "disable", "put", "archive"} /\ {} \in SUBSET Steps
        /\ on \in AreaHashes \cup Steps \cup {"the extension", "archive"}
    OBVIOUS
  <2>2. QED
    BY <1>1, <2>1, PressedIsNew
<1>3. \A q \in Presses : Explains(q) => Explains(q)'
  BY <1>1, <1>2 DEF TicksCarried, Explains
<1>4. \A q \in Presses :
        /\ Writes(q)' => Writes(q) /\ presses'[q] = presses[q]
        /\ presses'[q].step = "put" <=> presses[q].step = "put"
  BY <1>1, <1>2 DEF Writes
<1>5. \A q \in Presses : presses'[q].step = "put" => presses'[q] = presses[q]
  BY <1>4 DEF Writes
<1>6. \A q \in Presses : presses'[q].step = "none" => ~ presses'[q].stale
  BY <1>1, <1>2 DEF TicksCarried
<1>7. QED
  BY <1>1, <1>3, <1>4, <1>5, <1>6 DEF TicksCarried

LEMMA OtherEndKeepsTicks ==
    ASSUME OptionsInv, NEW p \in Presses, presses[p].step \in {"act", "disable"}, NEW written \in BOOLEAN,
           Ended(p, written), UNCHANGED <<progress, ticked>>
    PROVE  TicksCarried'
<1>1. OptionsTyped /\ TicksCarried
  BY DEF OptionsInv
<1>2. /\ presses'[p].step = "done" /\ presses'[p].on = presses[p].on /\ presses'[p].stale = presses[p].stale
      /\ \A q \in Presses : q # p => presses'[q] = presses[q]
  BY <1>1, EndedIsDone
<1>3. \A q \in Presses : Explains(q) => Explains(q)'
  BY <1>1, <1>2 DEF Explains
<1>4. \A q \in Presses :
        /\ Writes(q)' => Writes(q) /\ presses'[q] = presses[q]
        /\ presses'[q].step = "put" <=> presses[q].step = "put"
  BY <1>1, <1>2 DEF Writes
<1>5. \A q \in Presses : presses'[q].step = "put" => presses'[q] = presses[q]
  BY <1>4 DEF Writes
<1>6. \A q \in Presses : presses'[q].step = "none" => ~ presses'[q].stale
  BY <1>1, <1>2 DEF TicksCarried
<1>7. QED
  BY <1>1, <1>3, <1>4, <1>5, <1>6 DEF TicksCarried

-----------------------------------------------------------------------------
LEMMA PressActKeeps == ASSUME OptionsInv, NEW p \in Presses, PressAct(p) PROVE OptionsInv'
<1>1. PICK a \in onScreen.tree.items :
        Pressable(a) /\ busy' = busy \cup {a} /\ PressOf(p, "act", a, {})
  BY DEF PressAct
<1>2. /\ Turn(p)
      /\ UNCHANGED <<address, pendingRoute, chained, painter, body, onScreen, lastView, failure, areaHeld,
                     progress, ticked, threw, hashMoves>>
  BY DEF PressAct
<1>3. OptionsTyped /\ a \in AreaHashes
  BY DEF OptionsInv, OptionsTyped, Bodies
<1>a. /\ "act" \in {"act", "disable", "put", "archive"} /\ {} \in SUBSET Steps
      /\ a \in AreaHashes \cup Steps \cup {"the extension", "archive"}
  BY <1>3
<1>4. OptionsTyped'
  <2>1. presses' \in [Presses -> PressRows]
    BY <1>1, <1>3, <1>a, PressedIsNew
  <2>2. QED
    BY <1>1, <1>2, <1>3, <2>1 DEF OptionsTyped
<1>5. AskedIsCurrent' /\ PaintedIsCurrent' /\ DrawnIsCurrent'
  BY <1>2, ShownIsKept
<1>6. MarksHold'
  <2>1. busy \subseteq busy' /\ a \in busy' /\ Turn(p) /\ Pressable(a)
    BY <1>1, <1>2
  <2>2. QED
    BY <1>1, <1>a, <2>1, PressKeepsMarks
<1>7. TicksCarried'
  BY <1>1, <1>2, <1>3, OtherPressKeepsTicks
<1>8. QED
  BY <1>4, <1>5, <1>6, <1>7 DEF OptionsInv

LEMMA ActEndsKeeps == ASSUME OptionsInv, NEW p \in Presses, ActEnds(p) PROVE OptionsInv'
<1>1. PICK written \in BOOLEAN, thrown \in BOOLEAN :
        /\ WorkerActs(p, written)
        /\ failure' = IF thrown THEN [sentence |-> p, diagnostic |-> p] ELSE Silent
        /\ busy' = IF thrown /\ presses[p].sameTree THEN busy \ {presses[p].on} ELSE busy
        /\ Ended(p, written)
  BY DEF ActEnds
<1>2. /\ presses[p].step = "act" /\ Reload(address)
      /\ UNCHANGED <<address, painter, body, onScreen, lastView, progress, ticked, threw, hashMoves>>
  BY DEF ActEnds
<1>3. OptionsTyped
  BY DEF OptionsInv
<1>4. /\ failure' \in Failures /\ busy' \subseteq AreaHashes /\ areaHeld' \subseteq AreaHashes
      /\ presses' \in [Presses -> PressRows]
  <2>1. failure' \in Failures
    BY <1>1 DEF Failures, Silent
  <2>2. areaHeld' \subseteq AreaHashes /\ busy' \subseteq AreaHashes
    BY <1>1, <1>3 DEF WorkerActs, OptionsTyped
  <2>3. QED
    BY <1>1, <1>3, <2>1, <2>2, EndedIsDone
<1>5. /\ pendingRoute' \in Routes \cup {NoRoute} /\ chained' \in Nat
      /\ AskedIsCurrent' /\ PaintedIsCurrent' /\ DrawnIsCurrent'
  BY <1>2, <1>3, AskedForTheAddress DEF OptionsTyped
<1>6. OptionsTyped'
  BY <1>2, <1>3, <1>4, <1>5 DEF OptionsTyped
<1>7. MarksHold'
  BY <1>1, <1>2, EndKeepsMarks
<1>8. TicksCarried'
  BY <1>1, <1>2, OtherEndKeepsTicks
<1>9. QED
  BY <1>5, <1>6, <1>7, <1>8 DEF OptionsInv

LEMMA PressDisableKeeps == ASSUME OptionsInv, NEW p \in Presses, PressDisable(p) PROVE OptionsInv'
<1>1. /\ Turn(p) /\ PressOf(p, "disable", "the extension", {})
      /\ UNCHANGED <<address, pendingRoute, chained, painter, body, onScreen, lastView, busy, failure,
                     areaHeld, progress, ticked, threw, hashMoves>>
  BY DEF PressDisable
<1>2. OptionsTyped
  BY DEF OptionsInv
<1>a. /\ "disable" \in {"act", "disable", "put", "archive"} /\ {} \in SUBSET Steps
      /\ "the extension" \in AreaHashes \cup Steps \cup {"the extension", "archive"}
  OBVIOUS
<1>3. OptionsTyped'
  <2>1. presses' \in [Presses -> PressRows]
    BY <1>1, <1>2, <1>a, PressedIsNew
  <2>2. QED
    BY <1>1, <1>2, <2>1 DEF OptionsTyped
<1>4. AskedIsCurrent' /\ PaintedIsCurrent' /\ DrawnIsCurrent'
  BY <1>1, ShownIsKept
<1>5. MarksHold' /\ TicksCarried'
  <2>1. busy \subseteq busy' /\ "disable" # "act"
    BY <1>1
  <2>2. MarksHold'
    BY <1>1, <1>a, <2>1, PressKeepsMarks
  <2>3. TicksCarried'
    BY <1>1, OtherPressKeepsTicks
  <2>4. QED
    BY <2>2, <2>3
<1>6. QED
  BY <1>3, <1>4, <1>5 DEF OptionsInv

LEMMA DisableEndsKeeps == ASSUME OptionsInv, NEW p \in Presses, DisableEnds(p) PROVE OptionsInv'
<1>1. /\ presses[p].step = "disable"
      /\ UNCHANGED <<address, painter, body, onScreen, lastView, busy, areaHeld, progress, ticked, threw,
                     hashMoves>>
  BY DEF DisableEnds
<1>2. OptionsTyped
  BY DEF OptionsInv
<1>3. PICK written \in BOOLEAN : Ended(p, written)
  BY DEF DisableEnds
<1>4. /\ failure' \in Failures
      /\ \/ Reload(address)
         \/ NoReload /\ UNCHANGED failure
  BY <1>2 DEF DisableEnds, OptionsTyped, Failures
<1>5. /\ pendingRoute' \in Routes \cup {NoRoute} /\ chained' \in Nat
      /\ AskedIsCurrent' /\ PaintedIsCurrent' /\ DrawnIsCurrent'
  <2>1. CASE Reload(address)
    BY <1>1, <1>2, <2>1, AskedForTheAddress DEF OptionsTyped
  <2>2. CASE NoReload /\ UNCHANGED failure
    BY <1>1, <1>2, <2>2, ShownIsKept DEF NoReload, OptionsTyped
  <2>3. QED
    BY <1>4, <2>1, <2>2
<1>6. OptionsTyped'
  <2>1. presses' \in [Presses -> PressRows]
    BY <1>2, <1>3, EndedIsDone
  <2>2. QED
    BY <1>1, <1>2, <1>4, <1>5, <2>1 DEF OptionsTyped
<1>7. MarksHold' /\ TicksCarried'
  BY <1>1, <1>3, EndKeepsMarks, OtherEndKeepsTicks
<1>8. QED
  BY <1>5, <1>6, <1>7 DEF OptionsInv

LEMMA PressStepKeeps == ASSUME OptionsInv, NEW p \in Presses, PressStep(p) PROVE OptionsInv'
<1>1. PICK s \in Steps, done \in BOOLEAN :
        /\ PressOf(p, "put", s, NextProgress(s, done))
        /\ ticked' = IF done THEN ticked \cup {s} ELSE ticked \ {s}
  <2>1. PICK s \in Steps :
          /\ PressOf(p, "put", s, NextProgress(s, ~ Checked(s)))
          /\ ticked' = IF ~ Checked(s) THEN ticked \cup {s} ELSE ticked \ {s}
    BY DEF PressStep
  <2>2. QED
    BY <2>1
<1>2. /\ Turn(p)
      /\ UNCHANGED <<address, pendingRoute, chained, painter, body, onScreen, lastView, busy, failure,
                     areaHeld, progress, threw, hashMoves>>
  BY DEF PressStep
<1>3. /\ OptionsTyped /\ TicksCarried /\ presses[p].step = "none"
      /\ NextProgress(s, done) \in SUBSET Steps
  <2>1. OptionsTyped /\ TicksCarried /\ presses[p].step = "none" /\ onScreen.tree.progress \subseteq Steps
    BY <1>2 DEF OptionsInv, OptionsTyped, Bodies, Turn
  <2>2. QED
    BY <2>1 DEF NextProgress
<1>4. /\ presses' \in [Presses -> PressRows]
      /\ presses'[p].step = "put" /\ presses'[p].on = s /\ presses'[p].next = NextProgress(s, done)
      /\ presses'[p].stale = OutOfDate /\ \A q \in Presses : q # p => presses'[q] = presses[q]
  BY <1>1, <1>3, PressedIsNew
<1>5. OptionsTyped'
  BY <1>1, <1>2, <1>3, <1>4 DEF OptionsTyped
<1>6. AskedIsCurrent' /\ PaintedIsCurrent' /\ DrawnIsCurrent'
  BY <1>2, ShownIsKept
<1>7. MarksHold'
  BY <1>1, <1>2, <1>3, PressKeepsMarks
<1>8. \A q \in Presses :
        /\ Writes(q)' => presses'[q].on \in Steps \cup {"archive"}
        /\ presses'[q].step = "none" => ~ presses'[q].stale
  BY <1>3, <1>4 DEF TicksCarried, Writes
<1>9. ASSUME \A q \in Presses : ~ Explains(q)'
      PROVE  /\ \A q \in Presses : Writes(q)' => q = p
             /\ presses'[p].next = ticked'
  <2>1. onScreen.tree.progress = ticked /\ \A q \in Presses : ~ Writes(q)
    BY <1>4, <1>9 DEF Explains, OutOfDate, Writes
  <2>2. QED
    BY <1>1, <1>4, <2>1 DEF NextProgress, Writes
<1>10. TicksCarried'
  <2>1. ASSUME \A q \in Presses : ~ Explains(q)'
        PROVE  /\ \A q, u \in Presses : Writes(q)' /\ Writes(u)' => q = u
               /\ \A q \in Presses : presses'[q].step = "put" => presses'[q].next = ticked'
               /\ ~ \A q \in Presses : presses'[q].step # "put"
    BY <1>4, <1>9, <2>1 DEF Writes
  <2>2. QED
    BY <1>8, <2>1 DEF TicksCarried
<1>11. QED
  BY <1>5, <1>6, <1>7, <1>10 DEF OptionsInv

LEMMA PressArchiveKeeps == ASSUME OptionsInv, NEW p \in Presses, PressArchive(p) PROVE OptionsInv'
<1>1. /\ Turn(p) /\ PressOf(p, "archive", "archive", {})
      /\ UNCHANGED <<address, pendingRoute, chained, painter, body, onScreen, lastView, busy, failure,
                     areaHeld, progress, ticked, threw, hashMoves>>
  BY DEF PressArchive
<1>2. OptionsTyped /\ TicksCarried /\ presses[p].step = "none"
  BY <1>1 DEF OptionsInv, Turn
<1>a. /\ "archive" \in {"act", "disable", "put", "archive"} /\ {} \in SUBSET Steps
      /\ "archive" \in AreaHashes \cup Steps \cup {"the extension", "archive"}
  OBVIOUS
<1>3. /\ presses' \in [Presses -> PressRows]
      /\ presses'[p].step = "archive" /\ presses'[p].on = "archive"
      /\ presses'[p].stale = OutOfDate /\ \A q \in Presses : q # p => presses'[q] = presses[q]
  BY <1>1, <1>2, <1>a, PressedIsNew
<1>4. OptionsTyped'
  BY <1>1, <1>2, <1>3 DEF OptionsTyped
<1>5. AskedIsCurrent' /\ PaintedIsCurrent' /\ DrawnIsCurrent'
  BY <1>1, ShownIsKept
<1>6. MarksHold'
  <2>1. busy \subseteq busy' /\ "archive" # "act"
    BY <1>1
  <2>2. QED
    BY <1>1, <1>a, <2>1, PressKeepsMarks
<1>7. \A q \in Presses :
        /\ Writes(q)' => presses'[q].on \in Steps \cup {"archive"}
        /\ presses'[q].step = "none" => ~ presses'[q].stale
  BY <1>2, <1>3 DEF TicksCarried, Writes
<1>8. ASSUME \A q \in Presses : ~ Explains(q)'
      PROVE  (\A q \in Presses : Writes(q)' => q = p) /\ progress' = ticked'
  <2>1. \A q \in Presses : ~ Writes(q)
    BY <1>3, <1>8 DEF Explains, OutOfDate, Writes
  <2>2. \A q \in Presses : ~ Explains(q)
    BY <1>2, <1>3, <1>8 DEF Explains, TicksCarried
  <2>3. progress = ticked
    BY <1>2, <2>1, <2>2 DEF TicksCarried, Writes
  <2>4. QED
    BY <1>1, <1>3, <2>1, <2>3 DEF Writes
<1>9. TicksCarried'
  <2>1. ASSUME \A q \in Presses : ~ Explains(q)'
        PROVE  /\ \A q, u \in Presses : Writes(q)' /\ Writes(u)' => q = u
               /\ \A q \in Presses : presses'[q].step # "put"
               /\ progress' = ticked'
    BY <1>3, <1>8, <2>1 DEF Writes
  <2>2. QED
    BY <1>7, <2>1 DEF TicksCarried
<1>10. QED
  BY <1>4, <1>5, <1>6, <1>9 DEF OptionsInv

(* The only write under way ends: what it carried is on file, or its       *)
(* failure explains that it is not.                                        *)
LEMMA WriteEndKeepsTicks ==
    ASSUME OptionsInv, NEW p \in Presses, Writes(p), NEW written \in BOOLEAN, Ended(p, written),
           written /\ (presses[p].step = "put" => presses[p].next = ticked) => progress' = ticked'
    PROVE  TicksCarried'
<1>1. OptionsTyped /\ TicksCarried /\ presses[p].on \in Steps \cup {"archive"}
  BY DEF OptionsInv, TicksCarried
<1>2. /\ presses'[p].step = "done" /\ presses'[p].on = presses[p].on /\ presses'[p].stale = presses[p].stale
      /\ presses'[p].written = written /\ \A q \in Presses : q # p => presses'[q] = presses[q]
  BY <1>1, EndedIsDone
<1>3. \A q \in Presses : Explains(q) => Explains(q)'
  BY <1>2 DEF Explains, Writes
<1>4. \A q \in Presses :
        /\ Writes(q)' => presses'[q].on \in Steps \cup {"archive"}
        /\ presses'[q].step = "none" => ~ presses'[q].stale
  BY <1>1, <1>2 DEF TicksCarried, Writes
<1>5. ASSUME \A q \in Presses : ~ Explains(q)'
      PROVE  (\A q \in Presses : ~ Writes(q)') /\ progress' = ticked'
  <2>1. \A q \in Presses : ~ Explains(q)
    BY <1>3, <1>5
  <2>2. /\ \A q \in Presses : Writes(q) => q = p
        /\ presses[p].step = "put" => presses[p].next = ticked
    BY <1>1, <2>1 DEF TicksCarried
  <2>3. written = TRUE
    BY <1>1, <1>2, <1>5 DEF Explains
  <2>4. QED
    BY <1>2, <2>2, <2>3 DEF Writes
<1>6. QED
  BY <1>4, <1>5 DEF TicksCarried, Writes

LEMMA PutEndsKeeps == ASSUME OptionsInv, NEW p \in Presses, PutEnds(p) PROVE OptionsInv'
<1>1. PICK written \in BOOLEAN :
        progress' = (IF written THEN presses[p].next ELSE progress) /\ Ended(p, written)
  BY DEF PutEnds
<1>2. /\ presses[p].step = "put" /\ Reload(address)
      /\ UNCHANGED <<address, painter, body, onScreen, lastView, busy, failure, areaHeld, ticked, threw,
                     hashMoves>>
  BY DEF PutEnds
<1>3. OptionsTyped /\ presses[p].next \subseteq Steps
  BY DEF OptionsInv, OptionsTyped, PressRows
<1>4. /\ pendingRoute' \in Routes \cup {NoRoute} /\ chained' \in Nat
      /\ AskedIsCurrent' /\ PaintedIsCurrent' /\ DrawnIsCurrent'
  BY <1>2, <1>3, AskedForTheAddress DEF OptionsTyped
<1>5. OptionsTyped'
  <2>1. presses' \in [Presses -> PressRows] /\ progress' \subseteq Steps
    BY <1>1, <1>3, EndedIsDone DEF OptionsTyped
  <2>2. QED
    BY <1>2, <1>3, <1>4, <2>1 DEF OptionsTyped
<1>6. MarksHold'
  BY <1>1, <1>2, EndKeepsMarks
<1>7. TicksCarried'
  BY <1>1, <1>2, WriteEndKeepsTicks DEF Writes
<1>8. QED
  BY <1>4, <1>5, <1>6, <1>7 DEF OptionsInv

LEMMA ArchiveEndsKeeps == ASSUME OptionsInv, NEW p \in Presses, ArchiveEnds(p) PROVE OptionsInv'
<1>1. /\ presses[p].step = "archive"
      /\ UNCHANGED <<painter, body, onScreen, lastView, busy, failure, areaHeld, threw, hashMoves>>
  BY DEF ArchiveEnds
<1>2. PICK written \in BOOLEAN :
        /\ Ended(p, written) /\ (written => progress' = {} /\ ticked' = {})
        /\ progress' \subseteq progress /\ ticked' \subseteq ticked
  BY DEF ArchiveEnds
<1>3. OptionsTyped /\ "" \in Addresses
  BY DEF OptionsInv, Addresses
<1>4. \/ Reload(address') /\ address' = ""
      \/ NoReload /\ address' = address
  BY DEF ArchiveEnds
<1>5. /\ pendingRoute' \in Routes \cup {NoRoute} /\ chained' \in Nat /\ address' \in Addresses
      /\ AskedIsCurrent' /\ PaintedIsCurrent' /\ DrawnIsCurrent'
  <2>1. CASE Reload(address') /\ address' = ""
    BY <1>3, <2>1, AskedForTheAddress
  <2>2. CASE NoReload /\ address' = address
    BY <1>1, <1>3, <2>2, ShownIsKept DEF NoReload, OptionsTyped
  <2>3. QED
    BY <1>4, <2>1, <2>2
<1>6. OptionsTyped'
  <2>1. presses' \in [Presses -> PressRows]
    BY <1>2, <1>3, EndedIsDone
  <2>2. QED
    BY <1>1, <1>2, <1>3, <1>5, <2>1 DEF OptionsTyped
<1>7. MarksHold'
  BY <1>1, <1>2, EndKeepsMarks
<1>8. TicksCarried'
  BY <1>1, <1>2, WriteEndKeepsTicks DEF Writes
<1>9. QED
  BY <1>5, <1>6, <1>7, <1>8 DEF OptionsInv

-----------------------------------------------------------------------------
LEMMA OptionsInvStep == OptionsInv /\ [OptionsNext]_optionsVars => OptionsInv'
<1> SUFFICES ASSUME OptionsInv, [OptionsNext]_optionsVars PROVE OptionsInv'
  OBVIOUS
<1>1. CASE UNCHANGED optionsVars
  <2>1. OptionsTyped' /\ AskedIsCurrent' /\ PaintedIsCurrent' /\ DrawnIsCurrent'
    BY <1>1 DEF optionsVars, OptionsInv, OptionsTyped, AskedIsCurrent, PaintedIsCurrent, DrawnIsCurrent
  <2>2. MarksHold' /\ TicksCarried'
    BY <1>1 DEF optionsVars, OptionsInv, MarksHold, TicksCarried, Explains, Writes
  <2>3. QED
    BY <2>1, <2>2 DEF OptionsInv
<1>2. CASE StartRun \/ ReadSections \/ Draw \/ RunThrows \/ Navigate
  BY <1>2, RunStarts, ReadIsCurrent, DrawIsCurrent, ThrownIsKnown, NavigateIsAsked
<1>3. CASE \E p \in Presses : PressAct(p) \/ ActEnds(p) \/ PressDisable(p) \/ DisableEnds(p)
  BY <1>3, PressActKeeps, ActEndsKeeps, PressDisableKeeps, DisableEndsKeeps
<1>4. CASE \E p \in Presses : PressStep(p) \/ PutEnds(p) \/ PressArchive(p) \/ ArchiveEnds(p)
  BY <1>4, PressStepKeeps, PutEndsKeeps, PressArchiveKeeps, ArchiveEndsKeeps
<1>5. QED
  BY <1>1, <1>2, <1>3, <1>4 DEF OptionsNext

(* For any areas, steps, presses and moves: once nothing is under way the  *)
(* page shows the area its address names, what that held and the failure   *)
(* of the last action that says one; a control is pressed twice only if it *)
(* was redrawn; and no tick is lost but where one was pressed on a drawing *)
(* out of date or a write failed: paint, mark and the recovery screen of   *)
(* options/index.ts and pending.ts.                                        *)
THEOREM ScreenStaysCurrent == OptionsSpec => []ScreenIsCurrent
<1>1. OptionsInv => ScreenIsCurrent
  <2> SUFFICES ASSUME OptionsInv PROVE ScreenIsCurrent
    OBVIOUS
  <2>1. OptionsTypeOK
    BY DEF OptionsInv, OptionsTyped, OptionsTypeOK, Failures, PressRows
  <2>2. SettlesOnTheLast
    BY DEF OptionsInv, SettlesOnTheLast, Settled, AskedIsCurrent, DrawnIsCurrent
  <2>3. TwiceOnlyIfRedrawn
    BY DEF OptionsInv, MarksHold, TwiceOnlyIfRedrawn
  <2>4. TicksLostOnlyOnStale
    <3> SUFFICES ASSUME RunInFlight = {}, progress # ticked
                 PROVE  \E p \in Presses : /\ presses[p].on \in Steps \cup {"archive"}
                                           /\ presses[p].stale \/ ~ presses[p].written
      BY DEF TicksLostOnlyOnStale
    <3>1. \A p \in Presses : presses[p].step # "put"
      BY DEF RunInFlight
    <3>2. PICK p \in Presses : Explains(p)
      BY <3>1 DEF OptionsInv, TicksCarried
    <3>3. QED
      BY <3>2 DEF Explains
  <2>5. QED
    BY <2>1, <2>2, <2>3, <2>4 DEF ScreenIsCurrent
<1>2. QED
  BY <1>1, OptionsInvInit, OptionsInvStep, PTL DEF OptionsSpec

=============================================================================
