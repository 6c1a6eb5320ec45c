------------------------------ MODULE MCPortal ------------------------------
(***************************************************************************)
(* Portal for model checking: one tenant with a portal, one account        *)
(* without, and the extrinsics that meet every exit of exec and            *)
(* exec_postponed.                                                         *)
(***************************************************************************)
EXTENDS Portal

CONSTANTS a1, a2, p1, c1, c2

\* a1 is the tenant of portal p1; a2 is nobody's tenant.
MCTenant == (a1 :> p1) @@ (a2 :> None)

Scheduled == Extrinsic(a2, "exec", p1, c1)
Postponed == Extrinsic(None, "exec_postponed", p1, c1)
PostponedSigned == Extrinsic(a2, "exec_postponed", p1, c1)
PostponedInvalid == Extrinsic(None, "exec_postponed", p1, c2)

\* The extrinsics that call the pallet.
MCExtrinsics == {Scheduled, Postponed, PostponedSigned, PostponedInvalid}

\* What a step depends on: every variable but the result of the last call.
Storages == <<portals, txs, tags, chain, pool, worked, scheduled_by>>

=============================================================================
