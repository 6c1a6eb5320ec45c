---------------------------- MODULE MCPortalTags ----------------------------
(***************************************************************************)
(* Portal for model checking the way from schedule to exec and the tags    *)
(* it leaves: two tenants with a portal each, a scheduled extrinsic for    *)
(* either portal and an extrinsic that is none of the pallet's, all of     *)
(* which one block can hold.                                               *)
(***************************************************************************)
EXTENDS Portal

CONSTANTS a1, a2, p1, p2, c1

MCTenant == (a1 :> p1) @@ (a2 :> p2)

Plain == [signer |-> a2, call |-> [kind |-> "other", portal_id |-> None, call |-> c1]]

MCExtrinsics ==
    {Extrinsic(a1, "exec", p1, c1), Extrinsic(a1, "exec", p2, c1), Plain}

\* What a step depends on: every variable but the result of the last call.
Storages == <<portals, txs, tags, chain, pool, worked, scheduled_by>>

=============================================================================
