------------------------------ MODULE MCWorker ------------------------------
(* What the background worker does for a page and for a person, side by    *)
(* side: the parts share no state that another's properties are about, and *)
(* in one behaviour one of them moves.                                     *)
EXTENDS Inventory, Downloads, Database, ReuseIndex, Egress, LeakLookup,
        Messages, ModelStore, TLC

(* Inventory: a new install, and a profile whose rows predate the hosts.   *)
Plain == [publisher |-> "p", permissions |-> {}, hosts |-> {}]
Sold == [publisher |-> "q", permissions |-> {"tabs"}, hosts |-> {"all"}]
Old == [Plain EXCEPT !.hosts = Unrecorded]
MCLooks == {Plain, Sold, Old}
NewInstall == [installed |-> [e \in Extensions |-> Plain], snapshots |-> NoRows]
OldProfile == [installed |-> ("e1" :> Gone @@ "e2" :> Sold), snapshots |-> [e \in Extensions |-> Old]]
MCProfiles == {NewInstall, OldProfile}

(* Downloads: a file of every name and type, from an address the feed may  *)
(* come to list.                                                           *)
MCFiles == [url : {"link"}, finalUrl : {"place", NoUrl}, mime : MimeKinds,
            name : [ends : NameKinds, decoyed : BOOLEAN]]
MCFeeds == {Unread, {}, {"place"}}

(* Database: a page of the build before may still be open.                 *)
MCBuild == [c \in Contexts |-> IF c = "old page" THEN 1 ELSE 2]
NewProfile == [version |-> 0, whole |-> TRUE]

VARIABLE part   \* the one that moves

WorkerVars == <<part, inventoryVars, downloadVars, databaseVars, reuseVars,
                egressVars, leakVars, messageVars, modelVars>>

WorkerInit ==
    /\ part \in {"inventory", "downloads", "database", "reuse index", "egress",
                "leak lookup", "messages", "model store"}
    /\ InventoryInit /\ DownloadsInit /\ DatabaseInit
    /\ ReuseInit /\ EgressInit /\ LeakInit
    /\ MessageInit /\ ModelInit
    /\ part # "inventory" => InventoryStarts(NewInstall)
    /\ part # "database" => DatabaseStarts(NewProfile)
    /\ part # "egress" => kind = [r \in Requests |-> "clean"]

WorkerNext ==
    /\ UNCHANGED part
    /\ \/ part = "inventory" /\ InventoryNext
       \/ part = "downloads" /\ DownloadsNext
       \/ part = "database" /\ DatabaseNext
       \/ part = "reuse index" /\ ReuseNext
       \/ part = "egress" /\ EgressNext
       \/ part = "leak lookup" /\ LeakNext
       \/ part = "messages" /\ MessageNext
       \/ part = "model store" /\ ModelNext
    /\ part # "inventory" => UNCHANGED inventoryVars
    /\ part # "downloads" => UNCHANGED downloadVars
    /\ part # "database" => UNCHANGED databaseVars
    /\ part # "reuse index" => UNCHANGED reuseVars
    /\ part # "egress" => UNCHANGED egressVars
    /\ part # "leak lookup" => UNCHANGED leakVars
    /\ part # "messages" => UNCHANGED messageVars
    /\ part # "model store" => UNCHANGED modelVars

(* Each fairness condition asks something of the behaviours of its own     *)
(* part only: its actions are disabled where that part rests.              *)
WorkerSpec ==
    /\ WorkerInit /\ [][WorkerNext]_WorkerVars
    /\ DatabaseFairness /\ LeakFairness /\ MessageFairness

(* Whatever is dropped, stopped or silent, what was asked of the worker    *)
(* ends: a reset, a leak check, a call.                                    *)
WorkerAnswers == ResetEnds /\ CheckEnds /\ EveryCallEnds
=============================================================================
