------------------------- MODULE MCFractionLockGuard -------------------------
(***************************************************************************)
(* FractionLockGuard for TLC: the fractions of one item, one per account.  *)
(***************************************************************************)
EXTENDS FractionLockGuard, TLC

CONSTANTS Fingerprint, Accounts

MCKeys == {Fingerprint} \X Accounts

=============================================================================
