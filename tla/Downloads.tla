----------------------------- MODULE Downloads -----------------------------
(***************************************************************************)
(* A download judged as it is created: the browser's event as the platform *)
(* adapter hands it over, handleDownload of background/downloads.ts with   *)
(* the callbacks background/index.ts gives it, judgeDownload of            *)
(* core-download/judge.ts, and the page's banner of content/download.ts.   *)
(*                                                                         *)
(* The file is on its way meanwhile and may land at any moment; the feed   *)
(* may change; the device may refuse a row; the worker may be stopped.     *)
(***************************************************************************)
EXTENDS Integers, FiniteSets

CONSTANTS
    Ids,           \* the browser's numbers of the downloads
    Files,         \* what they may be: [url, finalUrl, name, mime]
    Feeds,         \* what the store may answer: the listed addresses, or Unread
    Unread,        \* no feed stored, or the store does not answer
    MaxFeedMoves,  \* bound: changes of the feed
    MaxDlStops     \* bound: stops of the worker

NoUrl == "no url"
NameKinds == {"program", "document", "archive", "other", "nameless"}
MimeKinds == {"untold", "document", "program", "other"}

ASSUME DownloadsAssumption ==
    /\ \A file \in Files :
           /\ file.name \in [ends : NameKinds, decoyed : BOOLEAN]
           /\ file.mime \in MimeKinds
    /\ Unread \in Feeds /\ \A feed \in Feeds \ {Unread} : NoUrl \notin feed
    /\ MaxFeedMoves \in Nat /\ MaxDlStops \in Nat

VARIABLES
    what,       \* per download: the file
    transfer,   \* per download: awaited, coming, landed, stopped
    handling,   \* per download: where its handler stands
    judged,     \* per download: the verdict
    shown,      \* per download: the banner the page put up, or none
    rows,       \* journal rows: <<download, what the row tells>>
    dlFeed,     \* the stored feed
    feedMoves, dlStops,
    read,       \* history: the feed each handler read
    cancelAsked,      \* history: the downloads whose cancelling was asked for
    refused     \* history: the rows the device refused

downloadVars == <<what, transfer, handling, judged, shown, rows, dlFeed, feedMoves,
                  dlStops, read, cancelAsked, refused>>

NoFile == [url |-> NoUrl, finalUrl |-> NoUrl, name |-> [ends |-> "nameless", decoyed |-> FALSE],
           mime |-> "untold"]

-----------------------------------------------------------------------------
(* judgeDownload.  Each check passed, failed or was skipped.               *)

SignKinds == {"feed", "file-type", "hash"}

(* EXECUTABLE, and a decoy ending before it.                               *)
IsProgram(name) == name.ends = "program"
HasDoubleExtension(name) == IsProgram(name) /\ name.decoyed

(* octet-stream counts as a program: it matters against a document's name. *)
MimeDisagrees(file) ==
    CASE IsProgram(file.name) /\ file.mime = "document"              -> {"name-hides-a-program"}
      [] file.name.ends = "document" /\ file.mime = "program"        -> {"type-is-a-program"}
      [] OTHER                                                       -> {}

Telling(file) ==
    (IF HasDoubleExtension(file.name) THEN {"double-extension"} ELSE {}) \cup MimeDisagrees(file)

(* Only where nothing else was found, and only while a check is missing.   *)
Shape(file, skipped) ==
    IF Telling(file) # {} \/ skipped = {} THEN Telling(file)
    ELSE CASE IsProgram(file.name)        -> {"is-a-program"}
           [] file.name.ends = "archive"  -> {"is-an-archive"}
           [] OTHER                       -> {}

Verdict(action, headline, shape) ==
    [action |-> action, headline |-> headline, shape |-> shape]
NotJudged == Verdict("none", "none", {})

JudgeDownload(file, checks) ==
    LET ran == {c \in SignKinds : checks[c] # "skipped"}
        skipped == SignKinds \ ran
        shape == Shape(file, skipped)
    IN CASE \E c \in SignKinds : checks[c] = "failed" -> Verdict("block", "blocked", {})
         [] (\A c \in SignKinds : checks[c] # "failed") /\ ran = {} ->
                Verdict("warn", "unchecked", shape)
         [] (\A c \in SignKinds : checks[c] # "failed") /\ ran # {} /\ shape # {} ->
                Verdict("warn", "needs-a-look", shape)
         [] OTHER -> Verdict("inform", IF skipped = {} THEN "passed-all" ELSE "passed-what-ran", {})

-----------------------------------------------------------------------------
(* handleDownload's three checks: the link and where it landed.            *)

Addresses(file) == {file.url, file.finalUrl} \ {NoUrl}

FeedCheck(file, feed) ==
    CASE feed = Unread                               -> "skipped"
      [] feed # Unread /\ Addresses(file) \cap feed # {} -> "failed"
      [] OTHER                                       -> "passed"

Evidence(file, feed) ==
    [c \in SignKinds |->
        CASE c = "feed"      -> FeedCheck(file, feed)
          [] c = "file-type" -> IF file.name.ends = "nameless" THEN "skipped" ELSE "passed"
          [] c = "hash"      -> "skipped"]

DownloadsTypeOK ==
    /\ what \in [Ids -> Files \cup {NoFile}]
    /\ transfer \in [Ids -> {"awaited", "coming", "landed", "stopped"}]
    /\ handling \in [Ids -> {"none", "created", "cancelling", "journalling", "announcing",
                               "noting", "done", "lost"}]
    /\ \A d \in Ids :
           /\ judged[d].action \in {"none", "inform", "warn", "block"}
           /\ shown[d] \in {"none", "blocked", "look"}
    /\ rows \subseteq Ids \X {"verdict", "unseen"}
    /\ dlFeed \in Feeds /\ read \in [Ids -> Feeds \cup {Unread}]
    /\ feedMoves \in 0 .. MaxFeedMoves /\ dlStops \in 0 .. MaxDlStops
    /\ cancelAsked \subseteq Ids /\ refused \subseteq Ids \X {"verdict", "unseen"}

DownloadsInit ==
    /\ what = [d \in Ids |-> NoFile] /\ transfer = [d \in Ids |-> "awaited"]
    /\ handling = [d \in Ids |-> "none"]
    /\ judged = [d \in Ids |-> NotJudged] /\ shown = [d \in Ids |-> "none"]
    /\ rows = {} /\ dlFeed = Unread /\ feedMoves = 0 /\ dlStops = 0
    /\ read = [d \in Ids |-> Unread] /\ cancelAsked = {} /\ refused = {}

(* downloads.onCreated: the event, while the file is on its way.           *)
Created(d) ==
    /\ transfer[d] = "awaited"
    /\ \E file \in Files : what' = [what EXCEPT ![d] = file]
    /\ transfer' = [transfer EXCEPT ![d] = "coming"]
    /\ handling' = [handling EXCEPT ![d] = "created"]
    /\ UNCHANGED <<judged, shown, rows, dlFeed, feedMoves, dlStops, read, cancelAsked, refused>>

Lands(d) ==
    /\ transfer[d] = "coming"
    /\ transfer' = [transfer EXCEPT ![d] = "landed"]
    /\ UNCHANGED <<what, handling, judged, shown, rows, dlFeed, feedMoves, dlStops, read, cancelAsked, refused>>

FeedMoves ==
    /\ feedMoves < MaxFeedMoves
    /\ feedMoves' = feedMoves + 1
    /\ dlFeed' \in Feeds \ {dlFeed}
    /\ UNCHANGED <<what, transfer, handling, judged, shown, rows, dlStops, read, cancelAsked, refused>>

(* A blocked download is cancelled before anything is written or said.     *)
ToldFirst(verdict) == "journalling"
AfterJudging(verdict) == IF verdict.action = "block" THEN "cancelling" ELSE "journalling"

Judge(d) ==
    /\ handling[d] = "created"
    /\ \E feed \in {dlFeed, Unread} :
           /\ read' = [read EXCEPT ![d] = feed]
           /\ LET verdict == JudgeDownload(what[d], Evidence(what[d], feed))
              IN /\ judged' = [judged EXCEPT ![d] = verdict]
                 /\ handling' = [handling EXCEPT ![d] = AfterJudging(verdict)]
    /\ UNCHANGED <<what, transfer, shown, rows, dlFeed, feedMoves, dlStops, cancelAsked, refused>>

(* Cancelling what has already landed is refused, and the refusal dropped. *)
Cancel(d) ==
    /\ handling[d] = "cancelling"
    /\ cancelAsked' = cancelAsked \cup {d}
    /\ transfer' = IF transfer[d] = "coming" THEN [transfer EXCEPT ![d] = "stopped"] ELSE transfer
    /\ handling' = [handling EXCEPT ![d] = "journalling"]
    /\ UNCHANGED <<what, judged, shown, rows, dlFeed, feedMoves, dlStops, read, refused>>

Put(d, told, written) ==
    /\ rows' = IF written THEN rows \cup {<<d, told>>} ELSE rows
    /\ refused' = IF written THEN refused ELSE refused \cup {<<d, told>>}

(* A journal that cannot be written stops nothing.                         *)
JournalVerdict(d) ==
    /\ handling[d] = "journalling"
    /\ \E written \in BOOLEAN : Put(d, "verdict", written)
    /\ handling' = [handling EXCEPT ![d] = "announcing"]
    /\ UNCHANGED <<what, transfer, judged, shown, dlFeed, feedMoves, dlStops, read, cancelAsked>>

(* showDownloadVerdict: a file that passed is not news.                    *)
Banner(verdict) ==
    CASE verdict.action = "inform" -> "none"
      [] verdict.action = "block"  -> "blocked"
      [] OTHER                     -> "look"

(* sendToActive: the page in front, if there is one that answers.          *)
Missed(d) == "noting"

Announce(d) ==
    /\ handling[d] = "announcing"
    /\ \E told \in BOOLEAN :
           /\ shown' = [shown EXCEPT ![d] = IF told THEN Banner(judged[d]) ELSE @]
           /\ handling' = [handling EXCEPT ![d] = IF told THEN "done" ELSE Missed(d)]
    /\ UNCHANGED <<what, transfer, judged, rows, dlFeed, feedMoves, dlStops, read, cancelAsked, refused>>

NoteUnseen(d) ==
    /\ handling[d] = "noting"
    /\ \E written \in BOOLEAN : Put(d, "unseen", written)
    /\ handling' = [handling EXCEPT ![d] = "done"]
    /\ UNCHANGED <<what, transfer, judged, shown, dlFeed, feedMoves, dlStops, read, cancelAsked>>

DownloadsStop ==
    /\ dlStops < MaxDlStops
    /\ dlStops' = dlStops + 1
    /\ handling' = [d \in Ids |-> IF handling[d] \in {"none", "done"} THEN handling[d] ELSE "lost"]
    /\ UNCHANGED <<what, transfer, judged, shown, rows, dlFeed, feedMoves, read, cancelAsked, refused>>

Handle(d) == Judge(d) \/ Cancel(d) \/ JournalVerdict(d) \/ Announce(d) \/ NoteUnseen(d)

DownloadsNext ==
    \/ \E d \in Ids : Created(d) \/ Lands(d) \/ Handle(d)
    \/ FeedMoves \/ DownloadsStop

DownloadsSpec == DownloadsInit /\ [][DownloadsNext]_downloadVars

-----------------------------------------------------------------------------
(* The file is stopped before a word is written or shown: a banner, or a   *)
(* row that says "blocked", comes only after the browser was asked to      *)
(* cancel (downloads.ts:83-84, "Cancelled first, explained second").       *)
CancelledBeforeTold ==
    \A d \in Ids :
        judged[d].action = "block" /\ (shown[d] # "none" \/ <<d, "verdict">> \in rows) => d \in cancelAsked

(* A verdict nobody saw is on record: when a handler ends and the page was *)
(* not told of a file worth telling, its unseen row is there, unless the   *)
(* device refused that row (index.ts:1138-1156).                           *)
SeenOrNoted ==
    \A d \in Ids :
        handling[d] = "done" /\ Banner(judged[d]) # "none" /\ shown[d] = "none"
            => <<d, "unseen">> \in rows \cup refused

(* Silence is earned: a file passes without a word only if a feed was read *)
(* that lists neither the link nor the place it led to, or its name was    *)
(* there to look at; and name and type carry and hide no program, whatever *)
(* was read: no file is ever checked whole, its bytes are not there yet.   *)
SilenceIsEarned ==
    \A d \in Ids : judged[d].action = "inform" =>
        /\ read[d] # Unread => {what[d].url, what[d].finalUrl} \cap read[d] = {}
        /\ ~ IsProgram(what[d].name) /\ what[d].name.ends # "archive"
        /\ read[d] = Unread => what[d].name.ends # "nameless"
        /\ what[d].name.ends = "document" => what[d].mime # "program"

(* Not looking never helps a file: with any further checks skipped, none   *)
(* of them one that failed, the verdict is no milder.                      *)
Weight(verdict) == CASE verdict.action = "inform" -> 1
                     [] verdict.action = "warn"   -> 2
                     [] OTHER                     -> 3

SkippingNeverHelps ==
    \A d \in Ids, more \in SUBSET SignKinds : judged[d].action # "none" =>
        LET checks == Evidence(what[d], read[d])
            fewer == [c \in SignKinds |-> IF c \in more THEN "skipped" ELSE checks[c]]
        IN (\A c \in more : checks[c] # "failed")
               => Weight(JudgeDownload(what[d], fewer)) >= Weight(judged[d])

(* A file worth stopping is stopped, then told or noted; silence is only   *)
(* said of what was looked at, and knowing less is never milder.           *)
FilesAreStoppedAndTold ==
    /\ DownloadsTypeOK /\ CancelledBeforeTold /\ SeenOrNoted
    /\ SilenceIsEarned /\ SkippingNeverHelps
=============================================================================
