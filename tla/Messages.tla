------------------------------ MODULE Messages ------------------------------
(***************************************************************************)
(* Calls from a page to the worker: runtime.send and runtime.onMessage of  *)
(* platform/adapter.ts, the envelope of contracts/rpc.ts, and the worker's *)
(* switch over the kinds it answers (background/index.ts).                 *)
(*                                                                         *)
(* The browser may drop a message without settling it, and may stop the    *)
(* worker between any two steps of a handler; a page that was told "no" may*)
(* ask again.  A message waits for its answer thirty seconds.              *)
(***************************************************************************)
EXTENDS Integers, FiniteSets

CONSTANTS
    Calls,          \* the calls to come, in order
    Wants           \* what the person wants done; each call is for one of them

ASSUME MessageAssumption == Calls \subseteq Nat /\ IsFiniteSet(Calls)

VARIABLES
    callers,        \* per call: what its page knows of it
    timers,         \* the calls whose deadline is running
    handlers,       \* per call: where the worker is with it
    doneFor,        \* per want: the calls that carried it out
    builds          \* the worker's build: an older one answers fewer kinds

messageVars == <<callers, timers, handlers, doneFor, builds>>

(* The kinds, by what becomes of them: one that reads, one that acts, one  *)
(* only a newer build knows, one nobody answers (inference/score in a      *)
(* worker without an offscreen document), and another version's envelope.  *)
MessageKinds == {"asks", "acts", "newer", "unheard", "foreign"}
NotCalling == [step |-> "none", kind |-> "none", want |-> "none"]
NoHandler == [at |-> "none", answer |-> "none"]

Steps == {"none", "waiting", "answered", "refused", "gaveUp"}

MessageTypeOK ==
    /\ \A c \in Calls : callers[c].step \in Steps /\ callers[c].kind \in MessageKinds \cup {"none"}
    /\ timers \subseteq Calls
    /\ handlers \in [Calls -> [at : {"none", "wire", "working", "over", "lost"},
                               answer : {"none", "result", "failed", "unsupported"}]]
    /\ doneFor \in [Wants -> SUBSET Calls] /\ builds \in {"old", "new"}

MessageInit ==
    /\ callers = [c \in Calls |-> NotCalling] /\ timers = {} /\ handlers = [c \in Calls |-> NoHandler]
    /\ doneFor = [w \in Wants |-> {}] /\ builds = "old"

-----------------------------------------------------------------------------
NextCall(c) == callers[c].step = "none" /\ \A d \in Calls : d < c => callers[d].step # "none"

(* withDeadline: the race starts with its timer.                           *)
Armed(c) == {c}

(* runtime.send: the envelope leaves, and the deadline runs.               *)
SendMessage(c) ==
    /\ NextCall(c)
    /\ \E k \in MessageKinds, w \in Wants :
        callers' = [callers EXCEPT ![c] = [step |-> "waiting", kind |-> k, want |-> w]]
    /\ timers' = timers \cup Armed(c)
    /\ handlers' = [handlers EXCEPT ![c].at = "wire"]
    /\ UNCHANGED <<doneFor, builds>>

(* isEnvelope: this version, and a kind.                                   *)
IsEnvelope(kind) == kind # "foreign"

(* The switch of the worker, by build; its default answers nothing.        *)
Handled(kind) == kind \in {"asks", "acts"} \cup (IF builds = "new" THEN {"newer"} ELSE {})

(* onMessage: what is no envelope, and what no handler takes, is answered  *)
(* "unsupported" and survived.                                             *)
Receive(c) ==
    /\ handlers[c].at = "wire"
    /\ handlers' = [handlers EXCEPT ![c] =
                      IF IsEnvelope(callers[c].kind) /\ Handled(callers[c].kind)
                      THEN [at |-> "working", answer |-> "none"]
                      ELSE [at |-> "over", answer |-> "unsupported"]]
    /\ UNCHANGED <<callers, timers, doneFor, builds>>

(* The handler's write, some time before it answers.                       *)
HandlerWrites(c) ==
    /\ handlers[c].at = "working" /\ callers[c].kind = "acts" /\ c \notin doneFor[callers[c].want]
    /\ doneFor' = [doneFor EXCEPT ![callers[c].want] = @ \cup {c}]
    /\ UNCHANGED <<callers, timers, handlers, builds>>

(* Its promise resolves, its effect made; or rejects, before or after it.  *)
HandlerEnds(c) ==
    /\ handlers[c].at = "working"
    /\ \/ /\ callers[c].kind = "acts" => c \in doneFor[callers[c].want]
          /\ handlers' = [handlers EXCEPT ![c] = [at |-> "over", answer |-> "result"]]
       \/ handlers' = [handlers EXCEPT ![c] = [at |-> "over", answer |-> "failed"]]
    /\ UNCHANGED <<callers, timers, doneFor, builds>>

(* The browser drops the message, or the answer, without settling either.  *)
Dropped(c) ==
    /\ handlers[c].at \in {"wire", "over"} /\ callers[c].step = "waiting"
    /\ handlers' = [handlers EXCEPT ![c] = [at |-> "lost", answer |-> "none"]]
    /\ UNCHANGED <<callers, timers, doneFor, builds>>

(* The worker is stopped: what it was working on is nobody's.  It comes    *)
(* back of this build or, after an update, of the next one.                *)
WorkerStops ==
    /\ \E c \in Calls : handlers[c].at = "working"
    /\ handlers' = [c \in Calls |-> IF handlers[c].at = "working"
                                    THEN [at |-> "lost", answer |-> "none"] ELSE handlers[c]]
    /\ builds' \in {builds, "new"}
    /\ UNCHANGED <<callers, timers, doneFor>>

(* The finally of withDeadline.                                            *)
Stopped(c) == {c}

(* isErrorAnswer: an object with an error of its own.                      *)
IsErrorAnswer(answer) == answer \in {"failed", "unsupported"}

(* The answer wins the race, unless the deadline has; a refusal is thrown. *)
ReplyArrives(c) ==
    /\ handlers[c].at = "over"
    /\ handlers' = [handlers EXCEPT ![c].at = "none"]
    /\ IF callers[c].step = "waiting"
       THEN /\ callers' = [callers EXCEPT ![c].step =
                             IF IsErrorAnswer(handlers[c].answer) THEN "refused" ELSE "answered"]
            /\ timers' = timers \ Stopped(c)
       ELSE UNCHANGED <<callers, timers>>
    /\ UNCHANGED <<doneFor, builds>>

DeadlinePasses(c) ==
    /\ c \in timers /\ timers' = timers \ {c}
    /\ callers' = [callers EXCEPT ![c].step = IF @ = "waiting" THEN "gaveUp" ELSE @]
    /\ UNCHANGED <<handlers, doneFor, builds>>

MessageNext ==
    \/ WorkerStops
    \/ \E c \in Calls : \/ SendMessage(c) \/ Receive(c) \/ HandlerWrites(c) \/ HandlerEnds(c)
                        \/ Dropped(c) \/ ReplyArrives(c) \/ DeadlinePasses(c)

(* A timer that is set fires; nothing else is owed.                        *)
MessageFairness == \A c \in Calls : WF_messageVars(DeadlinePasses(c))
MessageSpec == MessageInit /\ [][MessageNext]_messageVars /\ MessageFairness

-----------------------------------------------------------------------------
(* "An error answer is a failure, not a result" (adapter.ts:136-151): a    *)
(* page that holds an answer to something it wanted done can rely on it:   *)
(* this very call did it, and its handler came to its end.                 *)
AnsweredIsDone ==
    \A c \in Calls : callers[c].step = "answered" =>
        /\ handlers[c].answer = "result"
        /\ callers[c].kind = "acts" => c \in doneFor[callers[c].want]

(* "Held awake by a pending timer for every call that answered normally"   *)
(* (adapter.ts:62-66): a deadline runs only under a page that still waits. *)
NoTimerLeft == \A c \in timers : callers[c].step = "waiting"

(* "A spinner with no end and no way out" (adapter.ts:120-126): whatever   *)
(* the browser drops and whenever the worker stops, every call ends.       *)
EveryCallEnds == \A c \in Calls : callers[c].step = "waiting" ~> callers[c].step # "waiting"
=============================================================================
