------------------------------- MODULE NftImpl -------------------------------
(***************************************************************************)
(* The operations of the NFTImplT trait of                                 *)
(* deip_asset_system/src/nft_impl.rs over its storages: the collection,    *)
(* item and fraction repositories, the fraction holds and the counter of   *)
(* guard numbers.                                                          *)
(*                                                                         *)
(* An operation is one action.  It runs to its end without interleaving    *)
(* (the runtime applies one call at a time), but it is NOT undone when it  *)
(* fails: what it wrote before the failing step stays written.  Every way  *)
(* out of an operation is a disjunct of its action; the disjunct keeps the *)
(* writes made up to that point and leaves the error in `result`.          *)
(*                                                                         *)
(* A call of a backing store returns a Result and can be refused whenever  *)
(* the store sees fit (a deposit that cannot be paid, a frozen asset):     *)
(* the refusal disjunct of such a call is always enabled, the accepting    *)
(* one only where the store's contract allows it (BackingStores).          *)
(***************************************************************************)
EXTENDS Naturals, FiniteSets, Functions, TLC, BackingStores

CONSTANTS
    CollectionIds,      \* external collection identifiers
    Fingerprints,       \* item fingerprints
    HolderIds,          \* identities of the third parties that place holds
    None,               \* Option::None
    MaxCollectionId,    \* largest value of InternalCollectionId
    MaxItemId,          \* largest value of ItemId
    MaxHolds,           \* largest value of the hold tally
    MaxLockNumber,      \* largest value of the u32 guard number
    MaxTimepoint        \* number of transactions the model follows

ASSUME /\ MaxCollectionId \in Nat \ {0}
       /\ MaxTimepoint \in Nat \ {0}

Rec == INSTANCE NftRecords

VARIABLES
    NextCollectionId,               \* StorageValue<InternalCollectionId>
    CollectionRepo,                 \* CollectionId -> CollectionRecord
    ItemRepo,                       \* Fingerprint -> ItemRecord
    FractionRepo,                   \* <<Fingerprint, Account>> -> FractionRecord
    FractionalRepo,                 \* Fingerprint -> Fractional
    FingerprintByFractionTokenId,   \* FTokenId -> Fingerprint
    FractionHolds,                  \* keys <<fingerprint, account, holder_id, guard>>
    FractionTransferLockNumber,     \* timepoint -> next guard number
    nonfungibles,                   \* the non-fungible backing store
    fungibles,                      \* the fungible backing store
    timepoint,                      \* TransactionCtx::current().id()
    result,                         \* what the last operation returned
    issued                          \* history: how often each guard was made

repos == <<NextCollectionId, CollectionRepo, ItemRepo, FractionRepo,
           FractionalRepo, FingerprintByFractionTokenId>>
locks == <<FractionHolds, FractionTransferLockNumber, issued>>
stores == <<nonfungibles, fungibles>>
vars == <<repos, locks, stores, timepoint, result>>

Timepoints == 1..MaxTimepoint
Guards == [timepoint : Timepoints, number : 0..MaxLockNumber]
Errors == {"BadValue", "BadTarget", "UnknownCollection", "NotFractionalized",
           "NoPermission", "WrongOwner", "InsufficientBalance", "Overflow",
           "StoreError", "Err"}

-----------------------------------------------------------------------------
(* Storage access *)

Insert(repo, key, value) == (key :> value) @@ repo
Remove(repo, key) == Restrict(repo, DOMAIN repo \ {key})

find_collection(id) ==
    IF id \in DOMAIN CollectionRepo THEN CollectionRepo[id] ELSE None

find_item(fingerprint) ==
    IF fingerprint \in DOMAIN ItemRepo THEN ItemRepo[fingerprint] ELSE None

find_fraction(fingerprint, account) ==
    IF <<fingerprint, account>> \in DOMAIN FractionRepo
    THEN FractionRepo[<<fingerprint, account>>]
    ELSE None

find_fractional(fingerprint) ==
    IF fingerprint \in DOMAIN FractionalRepo
    THEN FractionalRepo[fingerprint]
    ELSE None

\* Err(unknown_item) is None.
get_fingerprint_by_fraction_token_id(ft_id) ==
    IF ft_id \in DOMAIN FingerprintByFractionTokenId
    THEN FingerprintByFractionTokenId[ft_id]
    ELSE None

\* Mutant: a fingerprint is never found taken.
contains_item_Never(fingerprint) == FALSE

\* ItemRepo::contains_key
contains_item(fingerprint) == fingerprint \in DOMAIN ItemRepo

_insert_collection(repo, collection) ==
    Insert(repo, collection.collection_id, collection)

_insert_item(repo, item) == Insert(repo, item.fingerprint, item)

_insert_fraction(repo, fraction) ==
    Insert(repo, <<fraction.fingerprint, fraction.account>>, fraction)

_insert_fractional(repo, fingerprint, fractional) ==
    Insert(repo, fingerprint, fractional)

_remove_fraction(repo, fraction) ==
    Remove(repo, <<fraction.fingerprint, fraction.account>>)

_remove_fractional(repo, fraction) == Remove(repo, fraction.fingerprint)

_fraction_hold_key(fraction, holder_id, guard) ==
    <<fraction.fingerprint, fraction.account, holder_id, guard>>

\* Mutant: the counter is read and never advanced.
_obtain_collection_id_NoInc ==
    IF NextCollectionId < MaxCollectionId
    THEN [id |-> NextCollectionId, next |-> NextCollectionId]
    ELSE None

\* The next internal id and the counter after it; None, and nothing written,
\* when id.checked_add(1) overflows.
_obtain_collection_id ==
    IF NextCollectionId < MaxCollectionId
    THEN [id |-> NextCollectionId, next |-> NextCollectionId + 1]
    ELSE None

\* A guard of the current timepoint comes into being.
Issue(guard) == issued' = [issued EXCEPT ![guard] = @ + 1]

-----------------------------------------------------------------------------
(* Collections and items *)

create_collection(account, id, max_items) ==
    LET obtained == _obtain_collection_id
        collection == Rec!NFTokenCollectionRecord(
                          account, id, obtained.id, max_items, 0)
        Refuse(error) ==
            result' = error /\ UNCHANGED <<NextCollectionId, CollectionRepo, nonfungibles>>
    IN
    /\ UNCHANGED <<ItemRepo, FractionRepo, FractionalRepo,
                   FingerprintByFractionTokenId, locks, fungibles, timepoint>>
    /\ \/ max_items = 0 /\ Refuse("BadValue")
       \/ max_items # 0 /\ obtained = None /\ Refuse("UnknownCollection")
       \/ /\ max_items # 0 /\ obtained # None
          /\ NextCollectionId' = obtained.next
          /\ \/ /\ result' = "StoreError"           \* create_class refused
                /\ UNCHANGED <<CollectionRepo, nonfungibles>>
             \/ /\ CreateClassAccepted(nonfungibles, obtained.id)
                /\ nonfungibles' = create_class(nonfungibles, obtained.id, account)
                /\ CollectionRepo' = _insert_collection(CollectionRepo, collection)
                /\ result' = "Ok"

mint_item(collection, fingerprint) ==
    LET obtained == Rec!obtain_item_id(collection)
        item == Rec!NFTokenItemRecord(collection.account, fingerprint,
                    obtained.id, collection.internal_id, None)
        Refuse == result' = "Err" /\ UNCHANGED <<CollectionRepo, ItemRepo, nonfungibles>>
    IN
    /\ UNCHANGED <<NextCollectionId, FractionRepo, FractionalRepo,
                   FingerprintByFractionTokenId, locks, fungibles, timepoint>>
    /\ \/ contains_item(fingerprint) /\ Refuse
       \/ ~contains_item(fingerprint) /\ obtained = None /\ Refuse
       \/ /\ ~contains_item(fingerprint) /\ obtained # None
          /\ CollectionRepo' = _insert_collection(CollectionRepo, obtained.collection)
          /\ \/ /\ result' = "Err"                  \* mint_into refused
                /\ UNCHANGED <<ItemRepo, nonfungibles>>
             \/ /\ MintIntoAccepted(nonfungibles, item.collection_id, item.item_id)
                /\ nonfungibles' = mint_into(nonfungibles, item.collection_id,
                                             item.item_id, item.account)
                /\ ItemRepo' = _insert_item(ItemRepo, item)
                /\ result' = "Ok"

transfer_collection(collection, to) ==
    /\ CollectionRepo' = _insert_collection(CollectionRepo,
                                            Rec!transfer_collection(collection, to))
    /\ result' = "Ok"
    /\ UNCHANGED <<NextCollectionId, ItemRepo, FractionRepo, FractionalRepo,
                   FingerprintByFractionTokenId, locks, stores, timepoint>>

transfer_item(item, to) ==
    LET Refuse(error) == result' = error /\ UNCHANGED <<ItemRepo, nonfungibles>>
    IN
    /\ UNCHANGED <<NextCollectionId, CollectionRepo, FractionRepo, FractionalRepo,
                   FingerprintByFractionTokenId, locks, fungibles, timepoint>>
    /\ \/ Rec!is_fractional(item) /\ Refuse("NoPermission")
       \/ ~Rec!is_fractional(item) /\ Refuse("StoreError")     \* transfer refused
       \/ /\ ~Rec!is_fractional(item)
          /\ NftTransferAccepted(nonfungibles, item.collection_id, item.item_id)
          /\ nonfungibles' = nft_transfer(nonfungibles, item.collection_id,
                                          item.item_id, to)
          /\ ItemRepo' = _insert_item(ItemRepo, Rec!transfer_item(item, to))
          /\ result' = "Ok"

-----------------------------------------------------------------------------
(* Fractions: the engine *)

\* Mutant: the declared total of the item is left as it was.
_update_fractions_amount_NoFractional(item, ft_id, new_amount) ==
    LET fractional == Rec!Fractional(ft_id, new_amount)
        fraction == Rec!NFTokenFractionRecord(item.account, item.fingerprint,
                        fractional, new_amount, 0)
    IN /\ UNCHANGED FractionalRepo
       /\ FractionRepo' = _insert_fraction(FractionRepo, fraction)
       /\ ItemRepo' = _insert_item(ItemRepo, Rec!set_fractional(item, fractional))

\* The new total becomes the declared total of the item AND the amount of a
\* fresh fraction record of the item's owner: no holds, no locks, whatever the
\* owner's record said before and whoever the amount was minted to.
_update_fractions_amount(item, ft_id, new_amount) ==
    LET fractional == Rec!Fractional(ft_id, new_amount)
        fraction == Rec!NFTokenFractionRecord(item.account, item.fingerprint,
                        fractional, new_amount, 0)
    IN /\ FractionalRepo' = _insert_fractional(FractionalRepo, item.fingerprint,
                                               fractional)
       /\ FractionRepo' = _insert_fraction(FractionRepo, fraction)
       /\ ItemRepo' = _insert_item(ItemRepo, Rec!set_fractional(item, fractional))

\* Mutant: the minted amount replaces the declared total.
total_after_mint_Forgets(fractional, amount) == amount

\* fractional.total().checked_add(amount), None on overflow.
total_after_mint(fractional, amount) ==
    IF fractional.total + amount <= MaxAmount
    THEN fractional.total + amount
    ELSE None

\* total_amount.checked_sub(&withdrawn_amount), None on underflow.
after_burn_amount(total_amount, withdrawn) ==
    IF withdrawn <= total_amount THEN total_amount - withdrawn ELSE None

\* An operation of the engine ends in error `error` with the fungible store
\* in state `store` and no repository written.
Abort(error, store) ==
    /\ result' = error
    /\ fungibles' = store
    /\ UNCHANGED <<ItemRepo, FractionRepo, FractionalRepo,
                   FingerprintByFractionTokenId>>

\* What the caller of a bare mint_fraction does afterwards: nothing.
MintDone(store) ==
    /\ fungibles' = store
    /\ result' = "Ok"
    /\ UNCHANGED FingerprintByFractionTokenId

\* What fractionalize does after its mint: lock the minting of a limited
\* pool, then index the pool by its id.  A refused lock_minting leaves the
\* item fractionalized and the pool unindexed.
FractionalizeDone(item, limited, store) ==
    LET ft_id == item.fractional.ft_id
    IN \/ /\ limited
          /\ fungibles' = store
          /\ result' = "StoreError"                 \* lock_minting refused
          /\ UNCHANGED FingerprintByFractionTokenId
       \/ /\ limited => LockMintingAccepted(store, ft_id, item.account)
          /\ fungibles' = IF limited THEN lock_minting(store, ft_id) ELSE store
          /\ FingerprintByFractionTokenId' =
                 Insert(FingerprintByFractionTokenId, ft_id, item.fingerprint)
          /\ result' = "Ok"

\* mint_fraction on the in-memory `item`, with the fungible store in state
\* `store` when it is called.  `caller` says what follows the mint: None when
\* the runtime called, [limited |-> ..] when fractionalize did, which then
\* goes on with the store as the mint left it.
mint_fraction(item, who, amount, store, caller) ==
    LET fractional == item.fractional
        ft_id == fractional.ft_id
        total_amount == total_after_mint(fractional, amount)
        minted == mint_ft(store, ft_id, who, amount)
        asked == amount # 0 /\ fractional # None
        allowed == asked /\ can_mint(store, ft_id, who)
    IN
    \/ amount = 0 /\ Abort("BadValue", store)
    \/ amount # 0 /\ fractional = None /\ Abort("NotFractionalized", store)
    \/ asked /\ ~can_mint(store, ft_id, who) /\ Abort("NoPermission", store)
    \/ allowed /\ Abort("StoreError", store)                 \* mint_ft refused
    \/ /\ allowed /\ MintAccepted(store, ft_id, amount)
       /\ total_amount = None /\ Abort("Overflow", minted)
    \/ /\ allowed /\ MintAccepted(store, ft_id, amount)
       /\ total_amount # None
       /\ _update_fractions_amount(item, ft_id, total_amount)
       /\ \/ caller = None /\ MintDone(minted)
          \/ caller # None /\ FractionalizeDone(item, caller.limited, minted)

fractionalize(item, total, limited) ==
    LET account == item.account
        ft_id == next_ft_id(fungibles)
        tagged == Rec!set_fractional(item, Rec!Fractional(ft_id, 0))
        whole == total # 0 /\ ~Rec!is_fractional(item)
    IN
    /\ UNCHANGED <<NextCollectionId, CollectionRepo, locks, nonfungibles, timepoint>>
    /\ \/ total = 0 /\ Abort("BadValue", fungibles)
       \/ total # 0 /\ Rec!is_fractional(item) /\ Abort("NoPermission", fungibles)
       \/ whole /\ Abort("StoreError", fungibles)             \* create_ft refused
       \/ /\ whole /\ CreateAccepted(fungibles)
          /\ mint_fraction(tagged, account, total, create_ft(fungibles, account),
                           [limited |-> limited])

burn_fraction(item, who, amount) ==
    LET item_fractional_part == item.fractional
        total_amount == item_fractional_part.total
        ft_id == item_fractional_part.ft_id
        withdrawn == withdrawn_amount(fungibles, ft_id, who, amount)
        burnt == burn_ft(fungibles, ft_id, who, amount)
        left == after_burn_amount(total_amount, withdrawn)
        asked == item.account = who /\ amount # 0 /\ item_fractional_part # None
        covered == asked /\ amount <= total_amount
        granted == covered /\ can_burn(fungibles, ft_id, who)
    IN
    /\ UNCHANGED <<NextCollectionId, CollectionRepo, locks, nonfungibles, timepoint>>
    /\ \/ item.account # who /\ Abort("WrongOwner", fungibles)
       \/ item.account = who /\ amount = 0 /\ Abort("BadValue", fungibles)
       \/ /\ item.account = who /\ amount # 0 /\ item_fractional_part = None
          /\ Abort("NotFractionalized", fungibles)
       \/ asked /\ amount > total_amount /\ Abort("InsufficientBalance", fungibles)
       \/ covered /\ ~can_burn(fungibles, ft_id, who) /\ Abort("NoPermission", fungibles)
       \/ granted /\ Abort("StoreError", fungibles)           \* burn_ft refused
       \/ /\ granted /\ BurnAccepted(fungibles, ft_id, who)
          /\ left = None /\ Abort("Overflow", burnt)
       \/ /\ granted /\ BurnAccepted(fungibles, ft_id, who)
          /\ left # None
          /\ _update_fractions_amount(item, ft_id, left)
          /\ fungibles' = burnt
          /\ result' = "Ok"
          /\ UNCHANGED FingerprintByFractionTokenId

-----------------------------------------------------------------------------
(* Fractions: the ledger *)

\* Mutant: a drained donor record is written back like any other.
settle_donor_Keeps(repo, donor) == _insert_fraction(repo, donor)

\* The donor's record after the transfer: removed when nothing is left.
settle_donor(repo, donor) ==
    IF donor.amount = 0
    THEN _remove_fraction(repo, donor)
    ELSE _insert_fraction(repo, donor)

transfer_fraction(donor, to, amount) ==
    LET found == find_fraction(donor.fingerprint, to)
        fraction == IF found # None THEN found
                    ELSE Rec!NFTokenFractionRecord(to, donor.fingerprint,
                             donor.fractional, 0, 0)
        ft_id == donor.fractional.ft_id
        increased == Rec!increase_amount(fraction, amount)
        decreased == Rec!decrease_amount(donor, amount)
        credited == _insert_fraction(FractionRepo, increased)
        Refuse(error) == result' = error /\ UNCHANGED <<FractionRepo, fungibles>>
        free == donor.account # to /\ amount # 0 /\ ~Rec!on_hold(donor)
        covered == free /\ amount <= donor.amount
        agreed == covered /\ ~Rec!on_hold(fraction)
    IN
    /\ UNCHANGED <<NextCollectionId, CollectionRepo, ItemRepo, FractionalRepo,
                   FingerprintByFractionTokenId, locks, nonfungibles, timepoint>>
    /\ \/ donor.account = to /\ Refuse("BadTarget")
       \/ donor.account # to /\ amount = 0 /\ Refuse("BadValue")
       \/ donor.account # to /\ amount # 0 /\ Rec!on_hold(donor) /\ Refuse("NoPermission")
       \/ free /\ amount > donor.amount /\ Refuse("InsufficientBalance")
       \/ covered /\ Rec!on_hold(fraction) /\ Refuse("NoPermission")
       \/ agreed /\ Refuse("StoreError")                      \* transfer refused
       \/ /\ agreed /\ TransferAccepted(fungibles, ft_id, donor.account, amount)
          /\ fungibles' = ft_transfer(fungibles, ft_id, donor.account, to, amount)
          /\ \/ /\ increased = None
                /\ result' = "Overflow"
                /\ UNCHANGED FractionRepo
             \/ /\ increased # None /\ decreased = None
                /\ FractionRepo' = credited
                /\ result' = "Overflow"
             \/ /\ increased # None /\ decreased # None
                /\ FractionRepo' = settle_donor(credited, decreased)
                /\ result' = "Ok"

-----------------------------------------------------------------------------
(* Locks and holds *)

lock_fraction(fraction, mask) ==
    LET obtained == Rec!obtain_number(FractionTransferLockNumber, timepoint)
        guard == Rec!LockGuard(timepoint, obtained.number)
    IN
    /\ UNCHANGED <<NextCollectionId, CollectionRepo, ItemRepo, FractionalRepo,
                   FingerprintByFractionTokenId, FractionHolds, stores, timepoint>>
    /\ FractionRepo' = _insert_fraction(FractionRepo, Rec!lock(fraction, mask))
    /\ \/ /\ obtained = None
          /\ result' = "Overflow"
          /\ UNCHANGED <<FractionTransferLockNumber, issued>>
       \/ /\ obtained # None
          /\ FractionTransferLockNumber' = obtained.numbers
          /\ Issue(guard)
          /\ result' = "Ok"

hold_fraction(fraction, holder_id) ==
    LET obtained == Rec!obtain_number(FractionTransferLockNumber, timepoint)
        guard == Rec!LockGuard(timepoint, obtained.number)
        key == _fraction_hold_key(fraction, holder_id, guard)
        held == Rec!inc_holds(fraction)
    IN
    /\ UNCHANGED <<NextCollectionId, CollectionRepo, ItemRepo, FractionalRepo,
                   FingerprintByFractionTokenId, stores, timepoint>>
    /\ \/ /\ obtained = None
          /\ result' = "Overflow"
          /\ UNCHANGED <<FractionRepo, locks>>
       \/ /\ obtained # None
          /\ FractionTransferLockNumber' = obtained.numbers
          /\ Issue(guard)
          /\ \/ /\ key \in FractionHolds
                /\ result' = "NoPermission"
                /\ UNCHANGED <<FractionRepo, FractionHolds>>
             \/ /\ key \notin FractionHolds
                /\ FractionHolds' = FractionHolds \cup {key}
                /\ held = None
                /\ result' = "Overflow"
                /\ UNCHANGED FractionRepo
             \/ /\ key \notin FractionHolds
                /\ FractionHolds' = FractionHolds \cup {key}
                /\ held # None
                /\ FractionRepo' = _insert_fraction(FractionRepo, held)
                /\ result' = "Ok"

unhold_fraction(fraction, holder_id, guard) ==
    LET key == _fraction_hold_key(fraction, holder_id, guard)
        released == Rec!dec_holds(fraction)
    IN
    /\ UNCHANGED <<NextCollectionId, CollectionRepo, ItemRepo, FractionalRepo,
                   FingerprintByFractionTokenId, FractionTransferLockNumber,
                   issued, stores, timepoint>>
    /\ \/ /\ key \notin FractionHolds
          /\ result' = "NoPermission"
          /\ UNCHANGED <<FractionRepo, FractionHolds>>
       \/ /\ key \in FractionHolds
          /\ FractionHolds' = FractionHolds \ {key}
          /\ \/ /\ released = None
                /\ result' = "Overflow"
                /\ UNCHANGED FractionRepo
             \/ /\ released # None
                /\ FractionRepo' = _insert_fraction(FractionRepo, released)
                /\ result' = "Ok"

-----------------------------------------------------------------------------
(* The runtime: one call after the other, by anyone, with any arguments *)

\* The runtime moves on to the next transaction.
NextTransaction ==
    /\ timepoint < MaxTimepoint
    /\ timepoint' = timepoint + 1
    /\ UNCHANGED <<repos, locks, stores, result>>

Init ==
    /\ NextCollectionId = 0
    /\ CollectionRepo = <<>>
    /\ ItemRepo = <<>>
    /\ FractionRepo = <<>>
    /\ FractionalRepo = <<>>
    /\ FingerprintByFractionTokenId = <<>>
    /\ FractionHolds = {}
    /\ FractionTransferLockNumber = [t \in Timepoints |-> 0]
    /\ nonfungibles = EmptyNonfungibles
    /\ fungibles = EmptyFungibles
    /\ timepoint = 1
    /\ result = "Ok"
    /\ issued = [g \in Guards |-> 0]

Next ==
    \/ \E account \in Accounts, id \in CollectionIds, max_items \in 0..MaxItemId :
           create_collection(account, id, max_items)
    \/ \E id \in DOMAIN CollectionRepo, fingerprint \in Fingerprints :
           mint_item(CollectionRepo[id], fingerprint)
    \/ \E id \in DOMAIN CollectionRepo, to \in Accounts :
           transfer_collection(CollectionRepo[id], to)
    \/ \E fingerprint \in DOMAIN ItemRepo, to \in Accounts :
           transfer_item(ItemRepo[fingerprint], to)
    \/ \E fingerprint \in DOMAIN ItemRepo, total \in 0..MaxAmount, limited \in BOOLEAN :
           fractionalize(ItemRepo[fingerprint], total, limited)
    \/ \E fingerprint \in DOMAIN ItemRepo, who \in Accounts, amount \in 0..MaxAmount :
           /\ mint_fraction(ItemRepo[fingerprint], who, amount, fungibles, None)
           /\ UNCHANGED <<NextCollectionId, CollectionRepo, locks, nonfungibles,
                          timepoint>>
    \/ \E fingerprint \in DOMAIN ItemRepo, who \in Accounts, amount \in 0..MaxAmount :
           burn_fraction(ItemRepo[fingerprint], who, amount)
    \/ \E key \in DOMAIN FractionRepo, to \in Accounts, amount \in 0..MaxAmount :
           transfer_fraction(FractionRepo[key], to, amount)
    \/ \E key \in DOMAIN FractionRepo, mask \in Rec!FractionLockMask :
           lock_fraction(FractionRepo[key], mask)
    \/ \E key \in DOMAIN FractionRepo, holder_id \in HolderIds :
           hold_fraction(FractionRepo[key], holder_id)
    \/ \E key \in DOMAIN FractionRepo, holder_id \in HolderIds, guard \in Guards :
           unhold_fraction(FractionRepo[key], holder_id, guard)
    \/ NextTransaction

Spec == Init /\ [][Next]_vars

-----------------------------------------------------------------------------
(* Types *)

Amounts == 0..MaxAmount
InternalIds == 0..MaxCollectionId
ItemIds == 0..MaxItemId
FTokenIds == 0..(MaxFTokens - 1)

Fractionals == [ft_id : FTokenIds, total : Amounts]

CollectionRecords ==
    [account : Accounts, collection_id : CollectionIds, internal_id : InternalIds,
     max_items : ItemIds \ {0}, items : ItemIds]

ItemRecords ==
    [account : Accounts, fingerprint : Fingerprints, item_id : ItemIds,
     collection_id : InternalIds, fractional : Fractionals \cup {None}]

FractionRecords ==
    [account : Accounts, fingerprint : Fingerprints, fractional : Fractionals,
     amount : Amounts, holds : 0..MaxHolds, lock_mask : Rec!FractionLockMask]

Pools == [admin : Accounts, minting_locked : BOOLEAN, balance : [Accounts -> Amounts]]

\* Every storage holds records of its type under the key the record names.
TypeOK ==
    /\ NextCollectionId \in InternalIds
    /\ DOMAIN CollectionRepo \subseteq CollectionIds
    /\ \A id \in DOMAIN CollectionRepo :
           CollectionRepo[id] \in CollectionRecords /\ CollectionRepo[id].collection_id = id
    /\ DOMAIN ItemRepo \subseteq Fingerprints
    /\ \A f \in DOMAIN ItemRepo :
           ItemRepo[f] \in ItemRecords /\ ItemRepo[f].fingerprint = f
    /\ DOMAIN FractionRepo \subseteq Fingerprints \X Accounts
    /\ \A k \in DOMAIN FractionRepo :
           /\ FractionRepo[k] \in FractionRecords
           /\ k = <<FractionRepo[k].fingerprint, FractionRepo[k].account>>
    /\ DOMAIN FractionalRepo \subseteq Fingerprints
    /\ \A f \in DOMAIN FractionalRepo : FractionalRepo[f] \in Fractionals
    /\ DOMAIN FingerprintByFractionTokenId \subseteq FTokenIds
    /\ \A t \in DOMAIN FingerprintByFractionTokenId :
           FingerprintByFractionTokenId[t] \in Fingerprints
    /\ FractionHolds \subseteq Fingerprints \X Accounts \X HolderIds \X Guards
    /\ FractionTransferLockNumber \in [Timepoints -> 0..MaxLockNumber]
    /\ DOMAIN nonfungibles.classes \subseteq InternalIds
    /\ \A c \in DOMAIN nonfungibles.classes : nonfungibles.classes[c] \in Accounts
    /\ DOMAIN nonfungibles.owner \subseteq InternalIds \X ItemIds
    /\ \A n \in DOMAIN nonfungibles.owner : nonfungibles.owner[n] \in Accounts
    /\ DOMAIN fungibles.pools \subseteq FTokenIds
    /\ \A t \in DOMAIN fungibles.pools : fungibles.pools[t] \in Pools
    /\ timepoint \in Timepoints
    /\ result \in Errors \cup {"Ok"}
    /\ issued \in [Guards -> Nat]

-----------------------------------------------------------------------------
(* What the registries keep *)

ItemsOf(collection) ==
    {f \in DOMAIN ItemRepo : ItemRepo[f].collection_id = collection.internal_id}

FractionsOf(fingerprint) ==
    {k \in DOMAIN FractionRepo : k[1] = fingerprint}

HoldsOn(key) == {h \in FractionHolds : h[1] = key[1] /\ h[2] = key[2]}

HeldAmount(fingerprint) ==
    SumFunctionOnSet([k \in DOMAIN FractionRepo |-> FractionRepo[k].amount],
                     FractionsOf(fingerprint))

\* A collection never counts more items than its capacity, whatever sequence
\* of mint_item, transfer_collection and create_collection led to it
\* (CollectionRecordT::obtain_item_id under mint_item).
CapacityRespected ==
    \A id \in DOMAIN CollectionRepo :
        CollectionRepo[id].items <= CollectionRepo[id].max_items

\* The item ids of a collection are the ones its counter has passed, each
\* given to one item: the counter is written back by mint_item before the
\* item is, so no later mint can be handed an id again.
ItemIdsCounted ==
    \A id \in DOMAIN CollectionRepo :
        /\ \A f \in ItemsOf(CollectionRepo[id]) :
               ItemRepo[f].item_id < CollectionRepo[id].items
        /\ \A f, g \in ItemsOf(CollectionRepo[id]) :
               ItemRepo[f].item_id = ItemRepo[g].item_id => f = g

\* Internal collection ids are never reused: every id in a collection or an
\* item record is below NextCollectionId, and two collections never share
\* one, also when create_collection fails after _obtain_collection_id or
\* overwrites the record of an external id.
InternalIdsFresh ==
    /\ \A id \in DOMAIN CollectionRepo :
           CollectionRepo[id].internal_id < NextCollectionId
    /\ \A f \in DOMAIN ItemRepo : ItemRepo[f].collection_id < NextCollectionId
    /\ \A c, d \in DOMAIN CollectionRepo :
           CollectionRepo[c].internal_id = CollectionRepo[d].internal_id => c = d

\* Every item record is backed by a token of the non-fungible store, owned by
\* the account the record names: mint_item and transfer_item change the
\* record only after the store accepted, and nothing else moves either.
ItemsMirrorBackingStore ==
    \A f \in DOMAIN ItemRepo :
        LET token == <<ItemRepo[f].collection_id, ItemRepo[f].item_id>>
        IN /\ token \in DOMAIN nonfungibles.owner
           /\ nonfungibles.owner[token] = ItemRepo[f].account

\* The three places that say an item is fractionalized agree: the item
\* record carries a Fractional exactly when FractionalRepo has one for its
\* fingerprint, and it is the same one (_update_fractions_amount writes
\* both); a pool id indexed by fractionalize leads to the item of that pool;
\* no two items share a pool.
FractionalAgreement ==
    /\ \A f \in DOMAIN ItemRepo :
           ItemRepo[f].fractional = find_fractional(f)
    /\ DOMAIN FractionalRepo \subseteq DOMAIN ItemRepo
    /\ \A t \in DOMAIN FingerprintByFractionTokenId :
           LET f == get_fingerprint_by_fraction_token_id(t)
           IN find_fractional(f) # None /\ FractionalRepo[f].ft_id = t
    /\ \A f, g \in DOMAIN FractionalRepo :
           FractionalRepo[f].ft_id = FractionalRepo[g].ft_id => f = g

\* The owner of a fractionalized item is the account that administers its
\* pool: fractionalize creates the pool for the owner, and transfer_item
\* refuses a fractionalized item, so the owner stays.  burn_fraction relies
\* on it: after its owner test, can_burn cannot say no.
OwnerAdministersPool ==
    \A f \in DOMAIN ItemRepo :
        ItemRepo[f].fractional # None =>
            fungibles.pools[ItemRepo[f].fractional.ft_id].admin = ItemRepo[f].account

\* The declared total of a fractionalized item is the supply of its pool in
\* the fungible store, through mints, burns that withdraw less than asked,
\* and refused store calls (mint_fraction, burn_fraction).
PoolTotalIsSupply ==
    \A f \in DOMAIN FractionalRepo :
        FractionalRepo[f].total = supply(fungibles, FractionalRepo[f].ft_id)

\* No guard is made twice: the guards made so far are exactly those whose
\* number is below the counter of their timepoint, each made once, whether
\* lock_fraction or hold_fraction asked and whether the operation went on to
\* succeed (LockGuardT::obtain_number).
GuardsIssuedOnce ==
    \A g \in Guards :
        issued[g] = IF g.number < FractionTransferLockNumber[g.timepoint]
                    THEN 1 ELSE 0

\* A fraction that counts as held can be released: its hold tally never
\* exceeds the number of its live entries in FractionHolds, so for every hold
\* that on_hold sees there is a guard that unhold_fraction accepts.  The
\* tally and the entries part company only in that direction: hold_fraction
\* inserts its entry before inc_holds can overflow, unhold_fraction removes
\* it before dec_holds can underflow, and a mint or burn resets the tally.
TallyWithinEntries ==
    \A k \in DOMAIN FractionRepo :
        FractionRepo[k].holds <= Cardinality(HoldsOn(k))

\* transfer_fraction moves shares and neither makes nor loses any: a step
\* that leaves the declared totals alone (so, no mint and no burn) leaves the
\* amount held of every item unchanged, also when it fails half-way.
TransferConserves ==
    [][FractionalRepo' = FractionalRepo =>
          \A f \in Fingerprints : HeldAmount(f)' = HeldAmount(f)]_vars

\* A fraction on hold is not moved: a step that leaves the declared totals
\* alone keeps the record and the amount of every fraction whose hold tally
\* is not zero, be it the donor or the recipient of a transfer_fraction.
HeldFractionsStay ==
    [][FractionalRepo' = FractionalRepo =>
          \A k \in DOMAIN FractionRepo :
              FractionRepo[k].holds # 0 =>
                  /\ k \in DOMAIN FractionRepo'
                  /\ FractionRepo'[k].amount = FractionRepo[k].amount]_vars

\* transfer_fraction leaves no record without shares behind: a step that
\* leaves the declared totals alone never turns a record into one of amount 0.
DrainedFractionsRemoved ==
    [][FractionalRepo' = FractionalRepo =>
          \A k \in DOMAIN FractionRepo' :
              FractionRepo'[k].amount = 0 =>
                  k \in DOMAIN FractionRepo /\ FractionRepo[k].amount = 0]_vars

Lifecycle ==
    INSTANCE ItemLifecycle WITH
        owner <- [f \in Fingerprints |->
                     IF find_item(f) = None THEN None ELSE ItemRepo[f].account],
        shares <- [f \in Fingerprints |->
                      IF find_item(f) = None THEN None ELSE ItemRepo[f].fractional]

\* The engine implements the life of an item: whatever is called, in whatever
\* order and whichever store calls are refused half-way, an item record
\* changes its owner only while it is whole (transfer_item), is never made
\* whole again or given another pool or the pool of another item
\* (fractionalize, next_ft_id), has a declared total only once it is
\* fractionalized (mint_fraction, burn_fraction), and its record is never
\* written anew by a second mint of its fingerprint (mint_item).
ImplementsLifecycle == Lifecycle!Spec

-----------------------------------------------------------------------------
(* What the specification promises and the code does not keep *)

\* Conservation: the declared total of an item is the sum of the amounts of
\* its fraction records, after any sequence of mint, burn and transfer.
Conservation ==
    \A f \in DOMAIN FractionalRepo : FractionalRepo[f].total = HeldAmount(f)

\* Transfer blocking: a fraction whose lock mask has the Transfer bit is not
\* moved by transfer_fraction, as lock_fraction(.., Transfer) is meant to
\* ensure.
LockedFractionsStay ==
    [][FractionalRepo' = FractionalRepo =>
          \A k \in DOMAIN FractionRepo :
              "Transfer" \in FractionRepo[k].lock_mask =>
                  /\ k \in DOMAIN FractionRepo'
                  /\ FractionRepo'[k].amount = FractionRepo[k].amount]_vars

\* The hold tally of a fraction record is the number of its live hold
\* entries in FractionHolds (hold_fraction, unhold_fraction).
HoldsCountEntries ==
    \A k \in DOMAIN FractionRepo :
        FractionRepo[k].holds = Cardinality(HoldsOn(k))

\* No fraction record with amount 0 persists.
NoEmptyFraction ==
    \A k \in DOMAIN FractionRepo : FractionRepo[k].amount # 0

\* Collections are never deleted: a step never removes the record of an
\* internal collection id from CollectionRepo (create_collection).
CollectionsPersist ==
    [][\A c \in DOMAIN CollectionRepo :
          \E d \in DOMAIN CollectionRepo' :
              CollectionRepo'[d].internal_id = CollectionRepo[c].internal_id]_vars

\* Validation comes before any write: an operation that returns an error
\* has written no record, no index and no hold entry.  mint_item,
\* fractionalize, lock_fraction, hold_fraction and unhold_fraction write
\* before their last step that can fail.  The counter of internal collection
\* ids is the one thing a failed create_collection may use up.
FailuresWriteNothing ==
    [][result' # "Ok" =>
          UNCHANGED <<CollectionRepo, ItemRepo, FractionRepo, FractionalRepo,
                      FingerprintByFractionTokenId, FractionHolds>>]_vars

\* The Fractional of a fraction record is a consistency tag: a record may fuse
\* only when its amount is the declared total of its item as FractionalRepo
\* has it.  FractionRecordT::can_fuse reads the record's own copy, which
\* transfer_fraction hands on and no mint or burn refreshes.
FuseNeedsDeclaredTotal ==
    \A k \in DOMAIN FractionRepo :
        Rec!can_fuse(FractionRepo[k]) =>
            FractionRepo[k].amount = FractionalRepo[k[1]].total

=============================================================================
