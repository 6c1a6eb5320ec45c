--------------------------- MODULE ItemLifecycle ---------------------------
(***************************************************************************)
(* What the asset system promises of an item, without records, stores,     *)
(* holds or results: an item is minted once, changes hands only while it   *)
(* is whole, becomes fractionalized once and for good with a pool of its   *)
(* own, and only from then on has a declared total, which mints and burns  *)
(* move within the width of an amount.                                     *)
(***************************************************************************)
EXTENDS Naturals

CONSTANTS
    Fingerprints, Accounts,
    FTokenIds,      \* the pool ids
    MaxAmount,      \* largest declared total
    None

VARIABLES
    owner,          \* fingerprint -> account, None before the mint
    shares          \* fingerprint -> [ft_id, total], None while whole

vars == <<owner, shares>>

Pools == {shares[f].ft_id : f \in {g \in Fingerprints : shares[g] # None}}

Init ==
    /\ owner = [f \in Fingerprints |-> None]
    /\ shares = [f \in Fingerprints |-> None]

Mint(f, account) ==
    /\ owner[f] = None
    /\ owner' = [owner EXCEPT ![f] = account]
    /\ UNCHANGED shares

\* Only a whole item changes hands.
Transfer(f, to) ==
    /\ owner[f] # None /\ shares[f] = None
    /\ owner' = [owner EXCEPT ![f] = to]
    /\ UNCHANGED shares

\* A whole item gets a pool no other item has, with a total that is not zero.
Fractionalize(f, ft_id, total) ==
    /\ owner[f] # None /\ shares[f] = None
    /\ ft_id \notin Pools /\ total # 0
    /\ shares' = [shares EXCEPT ![f] = [ft_id |-> ft_id, total |-> total]]
    /\ UNCHANGED owner

\* Shares are minted or burnt: the total moves, the pool stays.
Revalue(f, total) ==
    /\ shares[f] # None
    /\ shares' = [shares EXCEPT ![f].total = total]
    /\ UNCHANGED owner

Next ==
    \E f \in Fingerprints :
        \/ \E account \in Accounts : Mint(f, account) \/ Transfer(f, account)
        \/ \E ft_id \in FTokenIds, total \in 1..MaxAmount : Fractionalize(f, ft_id, total)
        \/ \E total \in 0..MaxAmount : Revalue(f, total)

Spec == Init /\ [][Next]_vars

=============================================================================
