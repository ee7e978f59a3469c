----------------------------- MODULE ModelStore -----------------------------
(***************************************************************************)
(* The weights of the classifier and the host that runs them: ensure of    *)
(* model/manager.ts over storage/model-cache.ts, and createInferenceHost   *)
(* of background/inference.ts over ClassifierSession (model/session.ts).   *)
(*                                                                         *)
(* Several fetches may be under way at once, of builds that pin different  *)
(* versions, while a worker starts, prepares its host, and answers pages.  *)
(***************************************************************************)
EXTENDS Integers, Sequences, FiniteSets

CONSTANTS
    Managers,       \* the fetches to come, each by a manager of its own
    ModelVersions,       \* the versions their builds pin
    HostKind,       \* where a model may run: none, offscreen or background
    Backends        \* the backends of this device that start, of webgpu and wasm

ASSUME ModelAssumption ==
    /\ IsFiniteSet(Managers) /\ IsFiniteSet(ModelVersions)
    /\ HostKind \subseteq {"none", "offscreen", "background"} /\ Backends \subseteq SUBSET {"webgpu", "wasm"}

Pinned == "pinned"          \* the digest of the artefact a version expects
BadBytes == "other"         \* that of any other bytes

VARIABLES
    cache,          \* the rows of the models store: [version, digest]
    managers,       \* each manager: its version, where it is, #state, and what it read
    audit,          \* the audit rows: <<manager, outcome>>
    downloadAsked,          \* history: the managers whose server was asked
    consented,      \* history: those the person agreed with
    ensuredTwice,     \* history: two fetches were under way at once
    pages,          \* how many texts the host was given since it was prepared
    host            \* the worker's host: its status, its session's backend, and how it scores

modelVars == <<cache, managers, audit, downloadAsked, consented, ensuredTwice, pages, host>>

NewManager == [version |-> "none", at |-> "idle", state |-> "absent", read |-> {}, digest |-> "none"]
Unprepared == [status |-> "not-prepared", backend |-> "none", weights |-> "none", last |-> "none"]

ModelTypeOK ==
    /\ cache \subseteq [version : ModelVersions, digest : {Pinned, BadBytes}]
    /\ \A m \in Managers :
        /\ managers[m].at \in {"idle", "reading", "keys", "clearing", "consent", "audit", "request",
                               "failing", "digest", "write", "done", "threw"}
        /\ managers[m].state \in {"absent", "declined", "downloading", "ready", "failed"}
    /\ audit \subseteq Managers \X {"sent", "failed"} /\ downloadAsked \subseteq Managers /\ consented \subseteq Managers
    /\ host.status \in {"not-prepared", "ready", "no-host", "no-weights", "no-runtime", "no-backend"}

ModelInit ==
    /\ cache = {} /\ managers = [m \in Managers |-> NewManager] /\ audit = {} /\ downloadAsked = {}
    /\ consented = {} /\ ensuredTwice = FALSE /\ pages = 0 /\ host = Unprepared

-----------------------------------------------------------------------------
Fetching == {m \in Managers : managers[m].at \notin {"idle", "done", "threw"}}
Go(m, at) == managers' = [managers EXCEPT ![m].at = at]
Settle(m, at, state) == managers' = [managers EXCEPT ![m].at = at, ![m].state = state]
FetchOnly == UNCHANGED <<pages, host>>

EnsureStarts(m) ==
    /\ managers[m].at = "idle"
    /\ \E v \in ModelVersions : managers' = [managers EXCEPT ![m].at = "reading", ![m].version = v]
    /\ ensuredTwice' = (ensuredTwice \/ Fetching # {})
    /\ UNCHANGED <<cache, audit, downloadAsked, consented>> /\ FetchOnly

(* createModelCache.read: the row of this very version.                    *)
CacheRead(version) == {row \in cache : row.version = version}

ReadsCache(m) ==
    /\ managers[m].at = "reading"
    /\ IF CacheRead(managers[m].version) # {} THEN Settle(m, "done", "ready") ELSE Go(m, "keys")
    /\ UNCHANGED <<cache, audit, downloadAsked, consented, ensuredTwice>> /\ FetchOnly

(* clear: the keys of every version of the id; then each is deleted.       *)
KeysOf(m) == cache

ReadsKeys(m) ==
    /\ managers[m].at = "keys"
    /\ managers' = [managers EXCEPT ![m].at = "clearing", ![m].read = KeysOf(m)]
    /\ UNCHANGED <<cache, audit, downloadAsked, consented, ensuredTwice>> /\ FetchOnly

(* Every version of the id goes before a new one arrives.                  *)
Clears(m) ==
    /\ managers[m].at = "clearing" /\ Go(m, "consent")
    /\ cache' = {row \in cache : row.version \notin {k.version : k \in managers[m].read}}
    /\ UNCHANGED <<audit, downloadAsked, consented, ensuredTwice>> /\ FetchOnly

(* The person is asked before any network activity, every time.            *)
Consents(m) ==
    /\ managers[m].at = "consent"
    /\ \/ Settle(m, "audit", "downloading") /\ consented' = consented \cup {m}
       \/ Settle(m, "done", "declined") /\ UNCHANGED consented
    /\ UNCHANGED <<cache, audit, downloadAsked, ensuredTwice>> /\ FetchOnly

GoesOnAnyway(m) == "request"
(* What the try of the request does when its audit row cannot be written.  *)
WithoutAudit(m) == "failing"

WritesSent(m) ==
    /\ managers[m].at = "audit"
    /\ \/ Go(m, "request") /\ audit' = audit \cup {<<m, "sent">>}
       \/ Settle(m, WithoutAudit(m), "failed") /\ UNCHANGED audit
    /\ UNCHANGED <<cache, downloadAsked, consented, ensuredTwice>> /\ FetchOnly

(* The server answers with the artefact, with something else, or fails.    *)
ModelRequests(m) ==
    /\ managers[m].at = "request" /\ downloadAsked' = downloadAsked \cup {m}
    /\ \/ \E d \in {Pinned, BadBytes} :
            managers' = [managers EXCEPT ![m].at = "digest", ![m].digest = d]
       \/ Settle(m, "failing", "failed")
    /\ UNCHANGED <<cache, audit, consented, ensuredTwice>> /\ FetchOnly

(* The catch: a row that says it failed, if that can be written; rethrown. *)
WritesFailed(m) ==
    /\ managers[m].at = "failing" /\ Go(m, "threw")
    /\ audit' \in {audit, audit \cup {<<m, "failed">>}}
    /\ UNCHANGED <<cache, downloadAsked, consented, ensuredTwice>> /\ FetchOnly

Matches(m) == managers[m].digest = Pinned

(* A digest that does not match the pinned one is refused.                 *)
ChecksDigest(m) ==
    /\ managers[m].at = "digest"
    /\ IF Matches(m) THEN Go(m, "write") ELSE Settle(m, "threw", "failed")
    /\ UNCHANGED <<cache, audit, downloadAsked, consented, ensuredTwice>> /\ FetchOnly

(* A write that fails throws, and nothing is said of the state: it remains *)
(* "downloading".                                                          *)
WritesCache(m) ==
    /\ managers[m].at = "write"
    /\ \/ Settle(m, "done", "ready")
          /\ cache' = cache \cup {[version |-> managers[m].version, digest |-> managers[m].digest]}
       \/ Go(m, "threw") /\ UNCHANGED cache
    /\ UNCHANGED <<audit, downloadAsked, consented, ensuredTwice>> /\ FetchOnly

(* wipeAll clears the store of models.                                     *)
ModelsWiped ==
    /\ cache # {} /\ cache' = {}
    /\ UNCHANGED <<managers, audit, downloadAsked, consented, ensuredTwice>> /\ FetchOnly

-----------------------------------------------------------------------------
(* ClassifierSession.open: the first of the two that starts.               *)
Opened(started) ==
    IF "webgpu" \in started THEN "webgpu" ELSE IF "wasm" \in started THEN "wasm" ELSE "none"

(* prepare: what it finds, in the order it looks.                          *)
StatusOf(where, version, runtime, started) ==
    CASE where = "none" -> "no-host"
      [] where = "offscreen" -> "ready"
      [] where = "background" /\ CacheRead(version) = {} -> "no-weights"
      [] where = "background" /\ CacheRead(version) # {} /\ ~ runtime -> "no-runtime"
      [] where = "background" /\ CacheRead(version) # {} /\ runtime ->
             IF Opened(started) = "none" THEN "no-backend" ELSE "ready"

(* The worker starts, and prepares once.  createOnnxRuntime gives null     *)
(* today, so runtime is FALSE in every build there is.                     *)
WorkerPrepares ==
    /\ host.status = "not-prepared"
    /\ \E where \in HostKind, v \in ModelVersions, runtime \in BOOLEAN, started \in Backends :
        LET status == StatusOf(where, v, runtime, started) IN
        host' = [status |-> status, last |-> "none",
                 backend |-> IF status # "ready" THEN "none"
                             ELSE IF where = "offscreen" THEN "remote" ELSE Opened(started),
                 weights |-> IF status = "ready" /\ where = "background"
                             THEN (CHOOSE row \in CacheRead(v) : TRUE).digest ELSE "none"]
    /\ pages' = 0
    /\ UNCHANGED <<cache, managers, audit, downloadAsked, consented, ensuredTwice>>

WorkerGoes ==
    /\ host.status # "not-prepared" /\ host' = Unprepared /\ pages' = 0
    /\ UNCHANGED <<cache, managers, audit, downloadAsked, consented, ensuredTwice>>

(* A number that is no probability is a failure, as is no model at all.    *)
IsProbability(value) == value = "probability"

(* score: from the session, or from the other context; else it throws.     *)
Scores ==
    /\ host.status = "ready" /\ pages < 2 /\ pages' = pages + 1
    /\ \E value \in {"probability", "nan", "none"} :
        /\ value = "none" => host.backend = "remote"
        /\ host' = [host EXCEPT !.last = IF IsProbability(value) \/ (host.backend = "remote" /\ value = "nan")
                                         THEN value ELSE "threw"]
    /\ UNCHANGED <<cache, managers, audit, downloadAsked, consented, ensuredTwice>>

ModelNext ==
    \/ \E m \in Managers : \/ EnsureStarts(m) \/ ReadsCache(m) \/ ReadsKeys(m) \/ Clears(m)
                           \/ Consents(m) \/ WritesSent(m) \/ ModelRequests(m) \/ WritesFailed(m)
                           \/ ChecksDigest(m) \/ WritesCache(m)
    \/ ModelsWiped \/ WorkerPrepares \/ WorkerGoes \/ Scores

ModelSpec == ModelInit /\ [][ModelNext]_modelVars

-----------------------------------------------------------------------------
(* "Nothing is downloaded without the user saying yes" and it "appears in  *)
(* the audit log" (manager.ts:11-13): a server is asked only for a person  *)
(* who agreed to this very fetch, and only after the row that says so.     *)
AskedOnRecord == \A m \in downloadAsked : m \in consented /\ <<m, "sent">> \in audit

(* "Checked against a pinned digest before it is kept" (manager.ts:14-15), *)
(* through every race of two fetches: nothing else is ever cached, nor run.*)
OnlyPinnedRuns ==
    /\ \A row \in cache : row.digest = Pinned
    /\ host.weights \in {"none", Pinned}

(* "Two versions of a classifier in one cache is a bug nobody would see    *)
(* until its verdicts disagreed" (manager.ts:71-74): there are two only    *)
(* after two fetches were under way at once.                               *)
TwoOnlyByOverlap == Cardinality({row.version : row \in cache}) > 1 => ensuredTwice

(* "A host that claimed to be ready before it was would make stage 3 wait  *)
(* on a session mid-scan" (inference.ts:21-23): a host that says it is     *)
(* ready has a session that started, or another context to ask.            *)
ReadyHasSomewhere ==
    host.status = "ready" =>
        \/ host.backend = "remote"
        \/ host.backend \in {"webgpu", "wasm"} /\ host.weights = Pinned

(* A model is fetched on record and by consent, and runs only as pinned; a *)
(* host that says it is ready has it.                                      *)
OnlyAgreedModels ==
    /\ ModelTypeOK /\ AskedOnRecord /\ OnlyPinnedRuns /\ TwoOnlyByOverlap
    /\ ReadyHasSomewhere
=============================================================================
