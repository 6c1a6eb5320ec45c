----------------------------- MODULE NftRecords -----------------------------
(***************************************************************************)
(* The record types of the asset system and their methods, as constant     *)
(* operators: CollectionRecordT, ItemRecordT, FractionalT, FractionRecordT *)
(* and LockGuardT of deip_asset_system/src/nft_impl.rs.                    *)
(*                                                                         *)
(* A method that takes `&mut self` is an operator from the record to the   *)
(* changed record.  A method that returns Option or Result<_, ()> yields   *)
(* None where the code yields None or Err(()).                             *)
(***************************************************************************)
EXTENDS Naturals, TLC

CONSTANTS
    None,           \* Option::None, Err(()): differs from every record
    MaxItemId,      \* largest value of ItemId
    MaxAmount,      \* largest value of FractionAmount
    MaxHolds,       \* largest value of FractionHoldGuard, the hold tally
    MaxLockNumber   \* largest value of the u32 guard number

ASSUME /\ MaxItemId \in Nat \ {0}
       /\ MaxAmount \in Nat \ {0}
       /\ MaxHolds \in Nat \ {0}
       /\ MaxLockNumber \in Nat \ {0}

(***************************************************************************)
(* The lock masks are u8 bit sets.  A mask is modelled as the set of the    *)
(* names of its bits: `or` is union and `and(!mask)` is set difference.    *)
(***************************************************************************)
ItemLockMask == SUBSET {"Transfer", "MintFraction", "BurnFraction"}

FractionLockMask == SUBSET {"Transfer"}

-----------------------------------------------------------------------------
(* Collection record *)

NFTokenCollectionRecord(account, collection_id, internal_id, max_items, items) ==
    [account |-> account, collection_id |-> collection_id,
     internal_id |-> internal_id, max_items |-> max_items, items |-> items]

\* items.saturating_inc()
_inc_items(collection) ==
    [collection EXCEPT !.items = IF @ < MaxItemId THEN @ + 1 ELSE @]

\* Mutant: the capacity test lets one item too many through.
obtain_item_id_AtCapacity(collection) ==
    IF collection.items <= collection.max_items
    THEN [id |-> collection.items, collection |-> _inc_items(collection)]
    ELSE None

\* Mutant: the id is handed out and the count is not advanced.
obtain_item_id_NoInc(collection) ==
    IF collection.items < collection.max_items
    THEN [id |-> collection.items, collection |-> collection]
    ELSE None

\* The next item id and the record that has counted it, None at capacity.
obtain_item_id(collection) ==
    IF collection.items < collection.max_items
    THEN [id |-> collection.items, collection |-> _inc_items(collection)]
    ELSE None

transfer_collection(collection, to) == [collection EXCEPT !.account = to]

-----------------------------------------------------------------------------
(* Fractional: the pair (pool id, declared total) *)

Fractional(ft_id, total) == [ft_id |-> ft_id, total |-> total]

-----------------------------------------------------------------------------
(* Item record *)

NFTokenItemRecord(account, fingerprint, item_id, collection_id, fractional) ==
    [account |-> account, fingerprint |-> fingerprint, item_id |-> item_id,
     collection_id |-> collection_id, fractional |-> fractional]

\* Mutant: every item passes for whole.
is_fractional_Never(item) == FALSE

is_fractional(item) == item.fractional # None

\* Mutant: the record keeps its owner.
transfer_item_KeepsOwner(item, to) == item

transfer_item(item, to) == [item EXCEPT !.account = to]

set_fractional(item, fractional) == [item EXCEPT !.fractional = fractional]

fuse(item) == [item EXCEPT !.fractional = None]

-----------------------------------------------------------------------------
(* Fraction record *)

\* FractionRecordT::new: the lock mask of a new record is always empty.
NFTokenFractionRecord(account, fingerprint, fractional, amount, holds) ==
    [account |-> account, fingerprint |-> fingerprint, fractional |-> fractional,
     amount |-> amount, holds |-> holds, lock_mask |-> {}]

can_fuse(fraction) == fraction.amount = fraction.fractional.total

\* Mutant: the lock mask is consulted in place of the hold tally.
on_hold_ByLock(fraction) == fraction.lock_mask # {}

\* Only the hold tally is consulted: the lock mask plays no part.
on_hold(fraction) == fraction.holds # 0

\* Mutant: the amount is added without the overflow check.
increase_amount_Unchecked(fraction, by) ==
    [fraction EXCEPT !.amount = @ + by]

increase_amount(fraction, by) ==
    IF fraction.amount + by <= MaxAmount
    THEN [fraction EXCEPT !.amount = @ + by]
    ELSE None

\* Mutant: the check is made and the amount is not taken off.
decrease_amount_Keeps(fraction, by) ==
    IF by <= fraction.amount THEN fraction ELSE None

decrease_amount(fraction, by) ==
    IF by <= fraction.amount
    THEN [fraction EXCEPT !.amount = @ - by]
    ELSE None

\* Mutant: the tally is advanced without the overflow check.
inc_holds_Unchecked(fraction) == [fraction EXCEPT !.holds = @ + 1]

inc_holds(fraction) ==
    IF fraction.holds < MaxHolds
    THEN [fraction EXCEPT !.holds = @ + 1]
    ELSE None

\* Mutant: the check is made and the tally is not taken down.
dec_holds_Keeps(fraction) ==
    IF fraction.holds > 0 THEN fraction ELSE None

dec_holds(fraction) ==
    IF fraction.holds > 0
    THEN [fraction EXCEPT !.holds = @ - 1]
    ELSE None

lock(fraction, mask) == [fraction EXCEPT !.lock_mask = @ \cup mask]

unlock(fraction, mask) == [fraction EXCEPT !.lock_mask = @ \ mask]

-----------------------------------------------------------------------------
(* Lock guard *)

\* LockGuardT::new.  No caller in nft_impl.rs passes the mask of the struct,
\* so a guard is told apart by its timepoint and its number alone.
LockGuard(timepoint, number) == [timepoint |-> timepoint, number |-> number]

\* Mutant: the counter of the timepoint is written back unchanged.
obtain_number_NoInc(numbers, timepoint) ==
    IF numbers[timepoint] + 1 <= MaxLockNumber
    THEN [number |-> numbers[timepoint], numbers |-> numbers]
    ELSE None

\* LockGuardT::obtain_number over the counter storage `numbers`: the number
\* for a guard of `timepoint` and the storage with the counter advanced, None
\* when number.checked_add(1) overflows (nothing is written then).  A timepoint
\* without an entry reads as 0, so the storage is a total function.
obtain_number(numbers, timepoint) ==
    IF numbers[timepoint] + 1 <= MaxLockNumber
    THEN [number |-> numbers[timepoint],
          numbers |-> [numbers EXCEPT ![timepoint] = @ + 1]]
    ELSE None

\* FractionLockGuardT::lock and ::unlock, on a tally storage `tallies` keyed by
\* (fingerprint, account).  inc_holds and dec_holds are called for their effect
\* and the Result is dropped: on overflow the record keeps its tally.
Dropped(counted, fraction) == IF counted = None THEN fraction ELSE counted

\* S::insert(fingerprint, account, holds) and S::remove(fingerprint, account)
Tallied(tallies, held) ==
    (<<held.fingerprint, held.account>> :> held.holds) @@ tallies

Untallied(tallies, held) ==
    [k \in DOMAIN tallies \ {<<held.fingerprint, held.account>>} |-> tallies[k]]

guard_lock(tallies, fraction) ==
    LET held == Dropped(inc_holds(fraction), fraction)
    IN [fraction |-> held, tallies |-> Tallied(tallies, held)]

\* Mutant: the entry of a fraction without holds is written, not removed.
guard_unlock_NoRemove(tallies, fraction) ==
    LET held == Dropped(dec_holds(fraction), fraction)
    IN [fraction |-> held, tallies |-> Tallied(tallies, held)]

guard_unlock(tallies, fraction) ==
    LET held == Dropped(dec_holds(fraction), fraction)
    IN [fraction |-> held,
        tallies |-> IF held.holds = 0 THEN Untallied(tallies, held)
                    ELSE Tallied(tallies, held)]

=============================================================================
