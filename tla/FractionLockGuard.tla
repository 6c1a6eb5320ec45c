-------------------------- MODULE FractionLockGuard --------------------------
(***************************************************************************)
(* FractionLockGuardT of deip_asset_system/src/nft_impl.rs: the two calls  *)
(* by which a guard counts itself on a fraction record and in a tally      *)
(* storage S keyed by (fingerprint, account).                              *)
(*                                                                         *)
(* The trait leaves S and the caller open.  Here the holders of one item   *)
(* have one share each, and the callers (Take, GiveBack) give back only a  *)
(* guard that was taken: that discipline is theirs, not the trait's.       *)
(***************************************************************************)
EXTENDS Naturals, FiniteSets

CONSTANTS
    Keys,           \* the (fingerprint, account) pairs of the item's fractions
    None,           \* Option::None
    MaxHolds,       \* largest value of FractionHoldGuard
    MaxGuards       \* guards taken on one fraction and not yet given back

Rec == INSTANCE NftRecords
          WITH MaxItemId <- 1, MaxAmount <- Cardinality(Keys), MaxLockNumber <- 1

VARIABLES
    fractions,      \* Keys -> fraction record, as the callers hold them
    tallies,        \* the storage S: key -> hold tally
    outstanding     \* history: guards taken and not given back, per key

vars == <<fractions, tallies, outstanding>>

Init ==
    /\ fractions = [k \in Keys |->
           Rec!NFTokenFractionRecord(k[2], k[1],
               Rec!Fractional(0, Cardinality(Keys)), 1, 0)]
    /\ tallies = <<>>
    /\ outstanding = [k \in Keys |-> 0]

\* guard.lock::<S>(&mut fraction)
Lock(k) ==
    LET locked == Rec!guard_lock(tallies, fractions[k])
    IN /\ fractions' = [fractions EXCEPT ![k] = locked.fraction]
       /\ tallies' = locked.tallies

\* guard.unlock::<S>(&mut fraction)
Unlock(k) ==
    LET unlocked == Rec!guard_unlock(tallies, fractions[k])
    IN /\ fractions' = [fractions EXCEPT ![k] = unlocked.fraction]
       /\ tallies' = unlocked.tallies

\* The callers, which the trait leaves open: a guard is taken while fewer
\* than MaxGuards are out, and only a guard that was taken is given back.
Take(k) ==
    /\ outstanding[k] < MaxGuards
    /\ Lock(k)
    /\ outstanding' = [outstanding EXCEPT ![k] = @ + 1]

GiveBack(k) ==
    /\ outstanding[k] > 0
    /\ Unlock(k)
    /\ outstanding' = [outstanding EXCEPT ![k] = @ - 1]

Next == \E k \in Keys : Take(k) \/ GiveBack(k)

Spec == Init /\ [][Next]_vars

-----------------------------------------------------------------------------

\* The variables hold what the storages can.
TypeOK ==
    /\ \A k \in Keys : fractions[k].holds \in 0..MaxHolds
    /\ DOMAIN tallies \subseteq Keys
    /\ \A k \in DOMAIN tallies : tallies[k] \in 0..MaxHolds
    /\ outstanding \in [Keys -> 0..MaxGuards]

\* The storage S says what the record says: a fraction has an entry exactly
\* when its tally is not zero, and the entry is the tally, also after an
\* inc_holds or dec_holds whose failure lock and unlock drop.
TallyMirrorsRecord ==
    \A k \in Keys :
        /\ k \in DOMAIN tallies <=> fractions[k].holds # 0
        /\ k \in DOMAIN tallies => tallies[k] = fractions[k].holds

\* A fraction is never held with no guard out: the tally stays within the
\* number of guards taken and not given back.  The Results that lock and
\* unlock drop can only make the tally too small (an inc_holds at the largest
\* tally), so returning every guard always frees the fraction.
TallyWithinGuards ==
    \A k \in Keys : fractions[k].holds <= outstanding[k]

\* Holds are reference counted: the tally of a fraction is the number of
\* guards taken on it and not given back, so the fraction stays on hold
\* until the last guard is returned.
GuardsAreCounted ==
    \A k \in Keys : fractions[k].holds = outstanding[k]

=============================================================================
