--------------------------- MODULE MCGuiContracts ---------------------------
(***************************************************************************)
(* One contract: contracts share nothing but the queues and the list, and  *)
(* a list of one entry is already long enough to be appended to twice.     *)
(* The proposal expires at 2; the cancellation at 2, so that it expires    *)
(* together with the proposal's time, and its repetition at 3.  Heights go *)
(* to 3 and one block confirms, which leaves room for a proposal, an       *)
(* acceptance and a cancellation to be mined, confirmed and expired, in    *)
(* the pool or in a block, before or after the wallet is opened again.     *)
(* Two kinds of release that do not interact with time are left out.       *)
(***************************************************************************)
EXTENDS GuiContracts

CONSTANTS c1
const_Contract == {c1}
const_CancelTime == [cancel |-> 2, recancel |-> 3]
const_Kind == {"proposal", "accept", "cancel", "recancel", "release_cancel"}
const_Losable == {"proposal"}
=============================================================================
