--------------------------- MODULE OutboundLedger ---------------------------
(***************************************************************************)
(* What the single way out promises, without how (packages/net/src/        *)
(* request.ts, "Order is the whole design"): the record of one request     *)
(* tells one story, in one order, and each word of it is final.  A request *)
(* is recorded as sent before it leaves; it fails only after it left; what *)
(* is recorded as blocked stays.  No device, no retry, no crash.           *)
(***************************************************************************)
CONSTANT Requests

VARIABLE story      \* per request: as much of its story as has happened

Chapters == {"none", "recorded", "left", "failed", "blocked"}

LedgerInit == story = [r \in Requests |-> "none"]

Turn(r, here, there) ==
    /\ story[r] = here
    /\ story' = [story EXCEPT ![r] = there]

Record(r) == Turn(r, "none", "recorded")
Leave(r) == Turn(r, "recorded", "left")
Fail(r) == Turn(r, "left", "failed")
Block(r) == Turn(r, "none", "blocked")

LedgerNext == \E r \in Requests : Record(r) \/ Leave(r) \/ Fail(r) \/ Block(r)

LedgerSpec == LedgerInit /\ [][LedgerNext]_story
=============================================================================
