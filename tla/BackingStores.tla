---------------------------- MODULE BackingStores ----------------------------
(***************************************************************************)
(* The two primitive stores the asset system calls, as values and constant *)
(* operators on them.  Their code is not part of nft_impl.rs: the          *)
(* fungible store is the FTImplT trait (ft_impl.rs), the non-fungible      *)
(* store is whatever implements frame_support's nonfungibles traits.  They *)
(* are modelled from their call contracts: every mutating call returns a   *)
(* Result, so the caller must expect a refusal at any time; the operators  *)
(* here say when a call CAN be accepted and what an accepted call does.    *)
(***************************************************************************)
EXTENDS Naturals, FiniteSets, FiniteSetsExt, Functions, TLC

CONSTANTS
    Accounts,       \* the accounts that own and hold
    MaxAmount,      \* largest value of FractionAmount (= FTokenAmount)
    MaxFTokens      \* number of pool ids the fungible store can hand out

-----------------------------------------------------------------------------
(* Fungible store: pools |-> [ft_id -> pool], ids handed out from 0 upwards *)

EmptyFungibles == [pools |-> <<>>]

next_ft_id(store) == Cardinality(DOMAIN store.pools)

supply(store, ft_id) == SumFunction(store.pools[ft_id].balance)

CreateAccepted(store) == next_ft_id(store) < MaxFTokens

\* create_ft: a new pool administered by `account`, nothing minted yet.
create_ft(store, account) ==
    [store EXCEPT !.pools = (next_ft_id(store) :>
        [admin |-> account, minting_locked |-> FALSE,
         balance |-> [a \in Accounts |-> 0]]) @@ @]

can_mint(store, ft_id, who) ==
    /\ store.pools[ft_id].admin = who
    /\ ~store.pools[ft_id].minting_locked

MintAccepted(store, ft_id, amount) == supply(store, ft_id) + amount <= MaxAmount

mint_ft(store, ft_id, who, amount) ==
    [store EXCEPT !.pools[ft_id].balance[who] = @ + amount]

can_burn(store, ft_id, who) == store.pools[ft_id].admin = who

BurnAccepted(store, ft_id, who) == store.pools[ft_id].balance[who] > 0

\* What a burn of `amount` really withdraws: no more than `who` has.
withdrawn_amount(store, ft_id, who, amount) ==
    Min({amount, store.pools[ft_id].balance[who]})

burn_ft(store, ft_id, who, amount) ==
    [store EXCEPT !.pools[ft_id].balance[who] =
        @ - withdrawn_amount(store, ft_id, who, amount)]

TransferAccepted(store, ft_id, from, amount) ==
    amount <= store.pools[ft_id].balance[from]

ft_transfer(store, ft_id, from, to, amount) ==
    [store EXCEPT !.pools[ft_id].balance[from] = @ - amount,
                  !.pools[ft_id].balance[to] = @ + amount]

LockMintingAccepted(store, ft_id, who) == store.pools[ft_id].admin = who

lock_minting(store, ft_id) ==
    [store EXCEPT !.pools[ft_id].minting_locked = TRUE]

-----------------------------------------------------------------------------
(* Non-fungible store: classes |-> [class -> admin],                       *)
(*                     owner |-> [<<class, instance>> -> account]          *)

EmptyNonfungibles == [classes |-> <<>>, owner |-> <<>>]

CreateClassAccepted(store, class) == class \notin DOMAIN store.classes

create_class(store, class, who) ==
    [store EXCEPT !.classes = (class :> who) @@ @]

MintIntoAccepted(store, class, instance) ==
    /\ class \in DOMAIN store.classes
    /\ <<class, instance>> \notin DOMAIN store.owner

mint_into(store, class, instance, who) ==
    [store EXCEPT !.owner = (<<class, instance>> :> who) @@ @]

NftTransferAccepted(store, class, instance) ==
    <<class, instance>> \in DOMAIN store.owner

nft_transfer(store, class, instance, to) ==
    [store EXCEPT !.owner[<<class, instance>>] = to]

=============================================================================
