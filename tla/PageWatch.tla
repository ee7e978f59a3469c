----------------------------- MODULE PageWatch -----------------------------
(***************************************************************************)
(* The record of what a page sends while a finding on it is unresolved:    *)
(* watchPage of page-watch/index.ts in the page's own world, the listener  *)
(* of content/index.ts, and recordPageRequest of background.               *)
(*                                                                         *)
(* The channel is window.postMessage, on which the page may post as well;  *)
(* messages come in order, the worker's handlers interleave.  A request    *)
(* never waits for any of it: each step may fail, and its failure is       *)
(* swallowed where it happens.                                             *)
(***************************************************************************)
EXTENDS Integers, Sequences, SequencesExt, FiniteSets

CONSTANTS
    Methods,       \* "GET" and methods that change something
    RequestHosts,         \* what hostOf finds, NoHost where the address will not parse
    NoHost,
    Xhrs,          \* XMLHttpRequest objects of the page
    MaxRequests,   \* bound: calls the page makes, forged posts among them
    MaxInstant     \* bound: milliseconds

ASSUME PageWatchAssumption ==
    /\ "GET" \in Methods /\ NoHost \in RequestHosts
    /\ MaxRequests \in Nat /\ MaxInstant \in Nat

Forged == "a host the page names itself"
NeverOpened == [method |-> "GET", host |-> NoHost]

VARIABLES
    watching,     \* armed
    posted,       \* messages of the window nobody has taken
    seen,         \* per xhr: what open was last called with
    lastOpen,     \* per xhr: what it was last opened with
    misopened,    \* history: xhrs whose open has thrown since one that did not
    calls,        \* how many calls there have been
    made,         \* history: the changing requests made while watching
    named,        \* history: what was told of calls that made no such request
    unsent,       \* history: requests made whose report threw, or named another
    unresolved,   \* a finding of this origin is unresolved in the store
    handlings,    \* page/request handlers that have read the findings
    requestRows,  \* journal rows: id -> the report it holds
    undelivered,  \* history: reports whose message, or whose handler's reading, failed
    dropped,      \* history: reports dropped: no finding was unresolved
    failed,       \* history: reports whose row could not be written, or was replaced
    instant

watchVars == <<watching, posted, seen, lastOpen, misopened, calls, made, named, unsent, unresolved,
               handlings, requestRows, undelivered, dropped, failed, instant>>
pageSide == <<seen, lastOpen, misopened, made, named, unsent>>
workerSide == <<handlings, requestRows, undelivered, dropped, failed>>

Call(method, host, number) == [method |-> method, host |-> host, number |-> number]
Arm == [kind |-> "arm", call |-> Call("GET", NoHost, 0)]
Told(call) == [kind |-> "report", call |-> call]

PageWatchTypeOK ==
    /\ watching \in BOOLEAN /\ unresolved \in BOOLEAN
    /\ \A x \in Xhrs : seen[x].method \in Methods /\ seen[x].host \in RequestHosts
    /\ \A i \in 1 .. Len(posted) : posted[i].kind \in {"arm", "disarm", "report"}
    /\ calls \in 0 .. MaxRequests /\ instant \in 0 .. MaxInstant
    /\ DOMAIN requestRows \subseteq (RequestHosts \cup {Forged}) \X (0 .. MaxInstant)

PageWatchInit ==
    /\ watching = FALSE /\ posted = <<>> /\ calls = 0 /\ made = {}
    /\ seen = [x \in Xhrs |-> NeverOpened] /\ lastOpen = seen /\ misopened = {}
    /\ named = {} /\ unsent = {} /\ undelivered = {}
    /\ unresolved = FALSE /\ handlings = {} /\ requestRows = <<>>
    /\ dropped = {} /\ failed = {} /\ instant = 0

-----------------------------------------------------------------------------
(* The wrappers.  They read, report, and call through.                     *)

ChangesSomething(method) == method # "GET"
Reported(call) == watching /\ ChangesSomething(call.method) /\ call.host # NoHost

(* The wrapper tells what it noted, if postMessage does not throw, and     *)
(* calls through; what goes out is call, if the browser does not refuse    *)
(* it.  amiss: what was noted comes of an open that threw.                 *)
Observe(call, noted, amiss) ==
    \E goes, posts \in BOOLEAN :
        /\ posted' = IF Reported(noted) /\ posts THEN Append(posted, Told(noted)) ELSE posted
        /\ made' = IF Reported(call) /\ goes THEN made \cup {call} ELSE made
        /\ named' = IF Reported(noted) /\ posts /\ (amiss \/ ~ goes) THEN named \cup {noted} ELSE named
        /\ unsent' = IF Reported(call) /\ goes /\ (amiss \/ ~ posts) THEN unsent \cup {call} ELSE unsent

Fetch(method, host) ==
    /\ calls < MaxRequests /\ calls' = calls + 1
    /\ Observe(Call(method, host, calls'), Call(method, host, calls'), FALSE)
    /\ UNCHANGED <<watching, seen, lastOpen, misopened, unresolved, workerSide, instant>>

Opened(x, opened) == opened

(* What open is called with is noted before the browser takes it, or       *)
(* throws and leaves the xhr as it was.                                    *)
XhrOpen(x, method, host) ==
    /\ calls < MaxRequests
    /\ LET opened == [method |-> method, host |-> host] IN
           /\ seen' = [seen EXCEPT ![x] = Opened(x, opened)]
           /\ \/ lastOpen' = [lastOpen EXCEPT ![x] = opened] /\ misopened' = misopened \ {x}
              \/ misopened' = misopened \cup {x} /\ UNCHANGED lastOpen
    /\ UNCHANGED <<watching, posted, calls, made, named, unsent, unresolved, workerSide, instant>>

(* Sent before it was opened, or twice, it throws: told of all the same.   *)
XhrSend(x) ==
    /\ calls < MaxRequests /\ calls' = calls + 1
    /\ Observe(Call(lastOpen[x].method, lastOpen[x].host, calls'),
               Call(seen[x].method, seen[x].host, calls'), x \in misopened)
    /\ UNCHANGED <<watching, seen, lastOpen, misopened, unresolved, workerSide, instant>>

(* The page posts on the channel itself.                                   *)
Forge(message) ==
    /\ calls < MaxRequests /\ calls' = calls + 1
    /\ posted' = Append(posted, message)
    /\ UNCHANGED <<watching, pageSide, unresolved, workerSide, instant>>

-----------------------------------------------------------------------------
(* A scan that finds something arms; the person deals with it later.       *)
FindingStored ==
    /\ ~ unresolved
    /\ unresolved' = TRUE
    /\ posted' \in {posted, Append(posted, Arm)}
    /\ calls < MaxRequests /\ calls' = calls + 1
    /\ UNCHANGED <<watching, pageSide, workerSide, instant>>

FindingResolved ==
    /\ unresolved
    /\ unresolved' = FALSE
    /\ UNCHANGED <<watching, posted, pageSide, calls, workerSide, instant>>

Heeds(kind) == watching \/ kind = "arm"

HasUnresolvedFinding == unresolved

(* The head of the channel reaches both listeners.  A report goes on to    *)
(* the worker, whose handler reads the findings before it writes anything; *)
(* the message may fail, and so may the reading.                           *)
Take ==
    /\ posted # <<>>
    /\ posted' = Tail(posted)
    /\ LET message == Head(posted) IN
       /\ watching' = Heeds(message.kind)
       /\ \/ /\ message.kind # "report"
             /\ UNCHANGED <<handlings, dropped, undelivered>>
          \/ /\ message.kind = "report"
             /\ undelivered' = undelivered \cup {message.call}
             /\ UNCHANGED <<handlings, dropped>>
          \/ /\ message.kind = "report" /\ HasUnresolvedFinding
             /\ handlings' = handlings \cup {[call |-> message.call, read |-> unresolved]}
             /\ dropped' = IF unresolved THEN dropped ELSE dropped \cup {message.call}
             /\ UNCHANGED undelivered
          \/ /\ message.kind = "report" /\ ~ HasUnresolvedFinding
             /\ dropped' = dropped \cup {message.call}
             /\ UNCHANGED <<handlings, undelivered>>
    /\ UNCHANGED <<pageSide, calls, unresolved, requestRows, failed, instant>>

(* One row per host and millisecond: a second one replaces the first.      *)
RowPerHost(call) == <<call.host, 0>>
RowId(call) == <<call.host, instant>>

Write(handling) ==
    /\ handling \in handlings
    /\ handlings' = handlings \ {handling}
    /\ \/ /\ requestRows' = [id \in DOMAIN requestRows \cup {RowId(handling.call)} |->
                  IF id = RowId(handling.call) THEN <<handling.call, instant>> ELSE requestRows[id]]
          /\ failed' = failed \cup {requestRows[id][1] : id \in {i \in DOMAIN requestRows :
                  i = RowId(handling.call) /\ requestRows[i][2] = instant}}
       \/ requestRows' = requestRows /\ failed' = failed \cup {handling.call}
    /\ UNCHANGED <<watching, posted, pageSide, calls, unresolved, undelivered, dropped, instant>>

Millisecond ==
    /\ instant < MaxInstant
    /\ instant' = instant + 1
    /\ UNCHANGED <<watching, posted, pageSide, calls, unresolved, workerSide>>

PageCalls ==
    \/ \E method \in Methods, host \in RequestHosts :
           Fetch(method, host) \/ \E x \in Xhrs : XhrOpen(x, method, host)
    \/ \E x \in Xhrs : XhrSend(x)
    \/ \E kind \in {"arm", "disarm", "report"} : Forge([kind |-> kind, call |-> Call("PUT", Forged, 0)])

PageWatchNext ==
    \/ PageCalls \/ FindingStored \/ FindingResolved \/ Take \/ Millisecond
    \/ \E handling \in handlings : Write(handling)

PageWatchSpec == PageWatchInit /\ [][PageWatchNext]_watchVars

-----------------------------------------------------------------------------
Waiting == {posted[i].call : i \in 1 .. Len(posted)} \cup {handling.call : handling \in handlings}
Recorded == {requestRows[id][1] : id \in DOMAIN requestRows}

(* A request the page made while it was watched is on its way, on record,  *)
(* or was told when no finding was unresolved.  Otherwise something failed *)
(* and was swallowed: the report's post, or the open before it, which left *)
(* the wrong request noted; the message to the worker, or its reading; the *)
(* row, or the row was replaced by one of the same host and millisecond    *)
(* (page-watch/index.ts:32-45, 94-107, 146-158; content/index.ts:286-293). *)
NothingMadeIsSilent ==
    made \subseteq Waiting \cup Recorded \cup dropped \cup unsent \cup undelivered \cup failed

(* A row names a request that was made, by the method and host it was made *)
(* with, but for what the page posted itself and what was told of a call   *)
(* the browser then refused; and what is noted of an xhr is what it was    *)
(* opened with, unless an open has thrown since.                           *)
RecordedWasMade ==
    /\ \A call \in Recorded : call \in made \cup named \/ call.host = Forged
    /\ \A x \in Xhrs \ misopened : seen[x] = lastOpen[x]

(* Nothing is recorded of a site whose findings were all dealt with when   *)
(* the worker was told (page-requests.ts:36-44).                           *)
NoRecordOnceResolved == Recorded \cap dropped \subseteq {call \in Recorded : call.host = Forged}

(* The record of a watched page is its requests, no more and no fewer but  *)
(* for the failures above.                                                 *)
RequestsAreOnRecord ==
    /\ PageWatchTypeOK /\ NothingMadeIsSilent /\ RecordedWasMade
    /\ NoRecordOnceResolved
=============================================================================
