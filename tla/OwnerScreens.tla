---------------------------- MODULE OwnerScreens ----------------------------
(* The owner's screens, and the project's own services, side by side: in   *)
(* one behaviour one of them moves.                                        *)
EXTENDS OwnerQueue, WipeControls, SiteGuard, Appeals, Publishing

VARIABLE part   \* the one that moves

ScreensVars == <<part, ownerVars, wipeVars, siteVars, appealVars, publishVars>>

ScreensInit ==
    /\ part \in {"owner queue", "wipe controls", "site guard", "appeals",
                "publishing"}
    /\ OwnerInit /\ WipeInit /\ SiteInit
    /\ AppealsInit /\ PublishingInit

ScreensNext ==
    /\ UNCHANGED part
    /\ \/ part = "owner queue" /\ OwnerNext
       \/ part = "wipe controls" /\ WipeNext
       \/ part = "site guard" /\ SiteNext
       \/ part = "appeals" /\ AppealsNext
       \/ part = "publishing" /\ PublishingNext
    /\ part # "owner queue" => UNCHANGED ownerVars
    /\ part # "wipe controls" => UNCHANGED wipeVars
    /\ part # "site guard" => UNCHANGED siteVars
    /\ part # "appeals" => UNCHANGED appealVars
    /\ part # "publishing" => UNCHANGED publishVars

ScreensSpec ==
    /\ ScreensInit /\ [][ScreensNext]_ScreensVars

(* What is kept goes when its time or somebody's yes has come: the first   *)
(* day of a site, an appeal, the date of a listing, whatever a wipe        *)
(* clears; and the list's own snapshot, at most one ingest after the last  *)
(* publication, lets go of no more than a third of it.                     *)
NothingGoesEarly ==
    /\ ClearedAfterYes /\ FirstDayStands /\ KeptItsTime /\ DateStands
    /\ LosesAtMostAThird
=============================================================================
