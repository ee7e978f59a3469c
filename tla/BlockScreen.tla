----------------------------- MODULE BlockScreen ----------------------------
(***************************************************************************)
(* The block screen: the background notes what was stopped, the page shown *)
(* in its place asks for it, and "continue" excuses a host.                *)
(*                                                                         *)
(* The background keeps one note, lastBlock, for every tab.  Each main     *)
(* frame navigation of any tab starts a handler (onBlocked listens to      *)
(* onBeforeNavigate, so a page that was not stopped counts too); the       *)
(* handler reads the feed first and may finish in any order.  The screen   *)
(* asks once, then again while it cannot name the list (settleContext).    *)
(* "Continue" records an exception and refreshes the rules, beside what    *)
(* else refreshes them: another tab's "continue", a start, an alarm, trust *)
(* given or taken back elsewhere.  The awaits of a refresh are steps.      *)
(* The browser's part, redirecting a stopped navigation to the screen, is  *)
(* modelled by BlockRules!Blocks.                                          *)
(***************************************************************************)
EXTENDS BlockRules

CONSTANTS
    Tabs,
    Others,       \* what refreshes the rules beside "continue"
    Listed,       \* the entries of the feed in force
    Visited,      \* the addresses the user goes to
    Attempts,     \* bound: how often the screen asks again (5 in the code)
    Blank,        \* a tab that shows anything but the screen
    Unknown       \* no answer, and nothing noted

VARIABLES
    trusted,      \* the 'domain' rows of the exceptions store
    installed,    \* the browser's dynamic rules
    refresh,      \* per tab and other: its refreshBlockRules under way
    lastBlock,    \* the background's note
    noting,       \* the navigations whose onBlocked handler is reading the feed
    at,           \* per tab: the address its block screen stands in for, or Blank
    phase,        \* per tab: its screen is unpainted, painted, or asking again
    left,         \* per tab: how often it will ask again
    shown,        \* per tab: the context the screen has painted
    grant,        \* per tab: block/allow under way: stage and address
    crossed       \* history: tabs whose screen another navigation's note may reach

rulesVars == <<trusted, installed, refresh>>
background == <<lastBlock, noting>>
screens == <<at, phase, left, shown>>
screenVars == <<rulesVars, background, screens, grant, crossed>>

Jobs == Tabs \cup Others
Job(step, honoured, ids) == [step |-> step, honoured |-> honoured, ids |-> ids]
Idle == Job("idle", {}, {})

Note == [url : Visited, named : BOOLEAN]

(* A grant is sent and replied to; its request may lose its page           *)
(* ("orphaned").  History: what was promised is spoilt when the rules in   *)
(* force may be without it.                                                *)
NoGrant == [stage |-> "none", url |-> Blank, spoilt |-> FALSE]

Stopped(t) == at[t] # Blank

ASSUME ScreenAssumption ==
    /\ Listed \subseteq Entry
    /\ Tabs \cap Others = {}
    /\ Visited \subseteq Address
    /\ Attempts \in Nat
    /\ Blank \notin Visited
    /\ Unknown \notin Note

ScreenInit ==
    /\ trusted = {}
    /\ installed = BuildRules(Listed, {})
    /\ refresh = [j \in Jobs |-> Idle]
    /\ lastBlock = Unknown
    /\ noting = {}
    /\ at = [t \in Tabs |-> Blank]
    /\ phase = [t \in Tabs |-> "unpainted"]
    /\ left = [t \in Tabs |-> Attempts]
    /\ shown = [t \in Tabs |-> Unknown]
    /\ grant = [t \in Tabs |-> NoGrant]
    /\ crossed = {}

-----------------------------------------------------------------------------
(* The tab goes to u: the background hears of it, and the browser shows    *)
(* the page or the screen.  A request the old page had sent goes on, its   *)
(* reply reaches nobody.  Its note may reach the screens of other          *)
(* addresses, and a note of another that is still to come its own.         *)
GoesTo(t, u) ==
    /\ noting' = noting \cup {u}
    /\ at' = [at EXCEPT ![t] = IF \E r \in installed : Blocks(r, u) THEN u ELSE Blank]
    /\ phase' = [phase EXCEPT ![t] = "unpainted"]
    /\ left' = [left EXCEPT ![t] = Attempts]
    /\ shown' = [shown EXCEPT ![t] = Unknown]
    /\ crossed' = {s \in Tabs \ {t} : s \in crossed \/ (Stopped(s) /\ at[s] # u)}
                  \cup {s \in {t} : noting \ {u} # {}}
    /\ UNCHANGED <<rulesVars, lastBlock>>

Navigate(t, u) ==
    /\ GoesTo(t, u)
    /\ grant' = [grant EXCEPT ![t] = IF @.stage \in {"sent", "orphaned"}
                                     THEN [@ EXCEPT !.stage = "orphaned"] ELSE NoGrant]

(* The handler has the feed, or could not read it: whatever it finds, the  *)
(* note is overwritten.                                                    *)
NoteBlock(u) ==
    /\ u \in noting
    /\ noting' = noting \ {u}
    /\ \E readable \in BOOLEAN :
        lastBlock' = [url |-> u, named |-> readable /\ \E l \in Listed : Matches(l, u)]
    /\ UNCHANGED <<rulesVars, screens, grant, crossed>>

-----------------------------------------------------------------------------
(* settleContext *)

(* A screen that asks before its own navigation is noted is answered with  *)
(* whatever was noted before.                                              *)
PaintedEarly(t, answer) ==
    crossed' = IF answer # Unknown /\ at[t] \in noting THEN crossed \cup {t} ELSE crossed

Complete(context) == context # Unknown /\ context.named

(* Mutation: a named list is no reason to stop. *)
Insatiable(answer, more) == more

(* The screen stops asking when the list is named.                         *)
AsksOn(answer, more) == IF Complete(answer) THEN 0 ELSE more

(* The first answer is painted whatever it is; the message may also fail.  *)
FirstAnswer(t) ==
    /\ Stopped(t)
    /\ phase[t] = "unpainted"
    /\ phase' = [phase EXCEPT ![t] = "painted"]
    /\ \E answer \in {lastBlock, Unknown} :
        /\ shown' = [shown EXCEPT ![t] = answer]
        /\ left' = [left EXCEPT ![t] = AsksOn(answer, @)]
        /\ PaintedEarly(t, answer)
    /\ UNCHANGED <<rulesVars, background, at, grant>>

(* 200 ms later.                                                           *)
AskAgain(t) ==
    /\ Stopped(t)
    /\ phase[t] = "painted"
    /\ left[t] > 0
    /\ phase' = [phase EXCEPT ![t] = "asking"]
    /\ left' = [left EXCEPT ![t] = @ - 1]
    /\ UNCHANGED <<rulesVars, background, at, shown, grant, crossed>>

(* Only an answer that names a list is painted; a question whose message   *)
(* failed counts too.  Whether the user has acted is not asked again after *)
(* the await.                                                              *)
LaterAnswer(t) ==
    /\ phase[t] = "asking"
    /\ phase' = [phase EXCEPT ![t] = "painted"]
    /\ \E answer \in {lastBlock, Unknown} :
        /\ shown' = [shown EXCEPT ![t] = IF Complete(answer) THEN answer ELSE @]
        /\ left' = [left EXCEPT ![t] = AsksOn(answer, @)]
        /\ PaintedEarly(t, IF Complete(answer) THEN answer ELSE Unknown)
    /\ UNCHANGED <<rulesVars, background, at, grant>>

(* A pointer or a key on the screen, short of "continue": no more asking.  *)
Touch(t) ==
    /\ Stopped(t)
    /\ left[t] > 0
    /\ left' = [left EXCEPT ![t] = 0]
    /\ UNCHANGED <<rulesVars, background, at, phase, shown, grant, crossed>>

(* "Continue" sends the address the screen shows.  A screen with no answer *)
(* sends an empty one, which allowBlocked turns away.                      *)
Continue(t) ==
    /\ Stopped(t)
    /\ shown[t] # Unknown
    /\ grant[t] = NoGrant
    /\ left' = [left EXCEPT ![t] = 0]
    /\ grant' = [grant EXCEPT ![t] = [stage |-> "sent", url |-> shown[t].url, spoilt |-> FALSE]]
    /\ UNCHANGED <<rulesVars, background, at, phase, shown, crossed>>

-----------------------------------------------------------------------------
(* allowBlocked: record the exception, refresh the rules, answer.          *)

Asked(t) == grant[t].stage \in {"sent", "orphaned"}
Goes(j, job) == refresh' = [refresh EXCEPT ![j] = job]

(* exceptions, then the journal. *)
RecordException(t) ==
    /\ Asked(t)
    /\ refresh[t].step = "idle"
    /\ trusted' = trusted \cup {grant[t].url.host}
    /\ Goes(t, Job("reading", {}, {}))
    /\ UNCHANGED <<installed, background, screens, grant, crossed>>

Promised(t) == grant[t].stage = "replied" \/ refresh[t].step # "idle"

(* trust/add, trust/revoke, a start or an alarm.  What is taken back       *)
(* spoils what was promised of it.                                         *)
RefreshElsewhere(o) ==
    /\ refresh[o].step = "idle"
    /\ \E h \in {u.host : u \in Visited} : trusted' \in {trusted, trusted \cup {h}, trusted \ {h}}
    /\ Goes(o, Job("reading", {}, {}))
    /\ grant' = [t \in Tabs |-> IF Promised(t) /\ grant[t].url.host \notin trusted'
                                THEN [grant[t] EXCEPT !.spoilt = TRUE] ELSE grant[t]]
    /\ UNCHANGED <<installed, background, screens, crossed>>

(* getAll('exceptions'), and buildRules from what it held.                 *)
BuildRuleSet(j) ==
    /\ refresh[j].step = "reading"
    /\ Goes(j, Job("built", trusted, {}))
    /\ UNCHANGED <<trusted, installed, background, screens, grant, crossed>>

GetDynamicRules(j) ==
    /\ refresh[j].step = "built"
    /\ Goes(j, Job("replacing", refresh[j].honoured, Ids(installed)))
    /\ UNCHANGED <<trusted, installed, background, screens, grant, crossed>>

Reply(g, spoilt) ==
    IF g.stage = "sent" THEN [g EXCEPT !.stage = "replied", !.spoilt = g.spoilt \/ spoilt] ELSE NoGrant

(* A feed that cannot be read is no failure: nothing is installed, and     *)
(* "continue" is answered all the same.                                    *)
FeedUnread(j) ==
    /\ refresh[j].step = "reading"
    /\ Goes(j, Idle)
    /\ grant' = [t \in Tabs |-> IF t = j THEN Reply(grant[t], TRUE) ELSE grant[t]]
    /\ UNCHANGED <<trusted, installed, background, screens, crossed>>

Kept(j) == {r \in installed : r.id \notin refresh[j].ids}
Fresh(j) == BuildRules(Listed, refresh[j].honoured)

(* A promise that rules of these ids outlive: it is kept already, or its   *)
(* own replacement will not remove them.                                   *)
Exposed(t, ids) ==
    \/ grant[t].stage = "replied"
    \/ refresh[t].step = "replacing" /\ ~ (ids \subseteq refresh[t].ids)

(* updateDynamicRules: refused when two rules would share an id.  Rules    *)
(* that were built without a host spoil what was promised of it.           *)
ReplaceRules(j) ==
    /\ refresh[j].step = "replacing"
    /\ Ids(Kept(j)) \cap Ids(Fresh(j)) = {}
    /\ installed' = Kept(j) \cup Fresh(j)
    /\ Goes(j, Idle)
    /\ grant' = [t \in Tabs |->
            IF t = j THEN Reply(grant[t], FALSE)
            ELSE IF Exposed(t, Ids(Fresh(j))) /\ grant[t].url.host \notin refresh[j].honoured
                 THEN [grant[t] EXCEPT !.spoilt = TRUE] ELSE grant[t]]
    /\ UNCHANGED <<trusted, background, screens, crossed>>

(* A store, the journal or the browser refuses: the answer is null, and    *)
(* the exception may have been recorded.                                   *)
AllowFails(t) ==
    /\ Asked(t)
    /\ Goes(t, Idle)
    /\ grant' = [grant EXCEPT ![t] = NoGrant]
    /\ UNCHANGED <<trusted, installed, background, screens, crossed>>

OtherFails(o) ==
    /\ refresh[o].step # "idle"
    /\ Goes(o, Idle)
    /\ UNCHANGED <<trusted, installed, background, screens, grant, crossed>>

(* location.replace(allowed.url) *)
Follow(t) ==
    /\ grant[t].stage = "replied"
    /\ GoesTo(t, grant[t].url)
    /\ grant' = [grant EXCEPT ![t] = NoGrant]

(* The worker stops: its note, handlers and refreshes are gone, and what   *)
(* it was asked is answered by an error.                                   *)
Stop ==
    /\ lastBlock' = Unknown
    /\ noting' = {}
    /\ refresh' = [j \in Jobs |-> Idle]
    /\ grant' = [t \in Tabs |-> IF grant[t].stage = "replied" THEN grant[t] ELSE NoGrant]
    /\ UNCHANGED <<trusted, installed, screens, crossed>>

Screen(t) == FirstAnswer(t) \/ AskAgain(t) \/ LaterAnswer(t) \/ Touch(t) \/ Continue(t) \/ Follow(t)
Refresh(j) == BuildRuleSet(j) \/ GetDynamicRules(j) \/ FeedUnread(j) \/ ReplaceRules(j)

ScreenNext ==
    \/ \E t \in Tabs, u \in Visited : Navigate(t, u)
    \/ \E u \in Visited : NoteBlock(u)
    \/ \E t \in Tabs : Screen(t) \/ RecordException(t) \/ AllowFails(t)
    \/ \E o \in Others : RefreshElsewhere(o) \/ OtherFails(o)
    \/ \E j \in Jobs : Refresh(j)
    \/ Stop

ScreenSpec == ScreenInit /\ [][ScreenNext]_screenVars

-----------------------------------------------------------------------------
(* Properties *)

(* A screen with an answer never goes back to none, and one that names the *)
(* list is final: nothing another tab does repaints it (context.ts,        *)
(* "never called with a worse answer than the screen already shows").      *)
NeverAWorseAnswer ==
    [][\A t \in Tabs :
        Stopped(t) /\ phase[t] # "unpainted" /\ phase'[t] # "unpainted" =>
            /\ shown[t] # Unknown => shown'[t] # Unknown
            /\ Complete(shown[t]) => shown'[t] = shown[t]]_screenVars

(* After "continue" was answered the page opens: it is not stopped again   *)
(* unless a listing with a path stops a subdomain of its host, for which   *)
(* no exception is looked up, or what was promised was spoilt: the feed    *)
(* could not be read, trust was taken back meanwhile, or a refresh that    *)
(* had read the exceptions before installed its rules after                *)
(* (index.ts:403-417, :331-349; adapter.ts:287-291).                       *)
ContinueOpensThePage ==
    [][\A t \in Tabs :
        Follow(t) /\ ~ grant[t].spoilt /\ Stopped(t)' =>
            \E r \in installed : r.listing.path # NoPath /\ Blocks(r, grant[t].url)]_screenVars

(* "Unknown rather than guessed" (index.ts:326-328): a screen shows the    *)
(* address it stands in for, and "continue" therefore trusts it, unless    *)
(* another tab went elsewhere meanwhile, a navigation was still to be      *)
(* noted when it was stopped, or it asked before its own was.              *)
ShowsItsOwn ==
    \A t \in Tabs : Stopped(t) /\ shown[t] # Unknown /\ t \notin crossed => shown[t].url = at[t]

(* A screen never loses an answer, shows its own address, and "continue"   *)
(* opens the page.                                                         *)
ScreenKeepsItsWord == NeverAWorseAnswer /\ ContinueOpensThePage /\ []ShowsItsOwn
=============================================================================
