# TLA+ models of the DEIP canary network asset system

This directory holds the TLA+ specifications of the fractional NFT engine of
`deip_asset_system` (`src/deip_common/deip_asset_system/src/nft_impl.rs`) and
of the portal pallet (`src/pallets/deip_portal/src/lib.rs`), the TLC
configurations that check them, and `PROJECT.json`, which lists every run, the
source lines each definition models, the findings and the hazards.

Run a configuration from this directory with

    tlc -workers 2 -config NftImplLedger.cfg MCNftImpl
    tlc -workers 2 -config PortalContract.cfg MCPortal

## 1. The system

### Parts

| Part | Source | State | Operations |
|---|---|---|---|
| Collection and item registry | `nft_impl.rs` 137-304, 397-429 | `NextCollectionId`, `CollectionRepo`, `ItemRepo` | `create_collection`, `mint_item`, `transfer_collection`, `transfer_item` |
| Fraction engine | `nft_impl.rs` 109-135, 306-395 | `FractionalRepo`, `FractionRepo`, `FingerprintByFractionTokenId`, the item's `fractional` | `fractionalize`, `mint_fraction`, `burn_fraction`, `_update_fractions_amount` |
| Fraction ledger | `nft_impl.rs` 431-481 | `FractionRepo` | `transfer_fraction` |
| Locks, holds, guard numbers | `nft_impl.rs` 500-574, 969-1082 | `FractionHolds`, `FractionTransferLockNumber`, hold tally and lock mask of a fraction record | `lock_fraction`, `hold_fraction`, `unhold_fraction`, `LockGuardT::obtain_number`, `FractionLockGuardT::lock/unlock` |
| Record types | `nft_impl.rs` 579-965 | - | constructors, `obtain_item_id`, `increase_amount`, `inc_holds`, ... |
| Backing stores | not under `src/` | pools and balances; classes and token owners | `create_ft`, `mint_ft`, `burn_ft`, `transfer`, `lock_minting`, `can_mint`, `can_burn`; `create_class`, `mint_into`, `transfer` |
| Timepoint source | not under `src/` | the identity of the current transaction | `TransactionCtx::current().id()` |
| Portal pallet | `src/pallets/deip_portal/src/lib.rs` | `PendingTx`, `ScheduledTx`, `PortalTagOfTransaction`, `PortalRepository`, `DelegateLookup`, `OwnerLookup` | `create`, `update`, `schedule`, `exec`, `exec_postponed`, `validate_unsigned`, the offchain hook, `transpose` |
| Portal context | not under `src/` (`portal.rs`, `transaction_ctx.rs`) | the storages of the pallet | `create_portal`, `update_portal`, `schedule_extrinsic`, `dispatch_scheduled`, `dispatch`, `submit_scheduled` |
| Transaction pool, block authoring, nodes | not under `src/` | the pool, the block being built, which hooks have run | submit, include, next block |
| Event proxy mapping | `src/event-proxy/src/events/mapping.rs` | none | compile-time matches, all arms `unimplemented!()` |
| Stake voting tests | `src/pallets/deip_stake_voting/src/tests.rs` | none | a mock runtime; the tests are commented out |
| Seal, payload types | `deip_asset_system/src/lib.rs`, `deip_f_nft/src/types.rs` | none | none |

### How the parts interact

The runtime applies one call at a time. A call of the engine reads records from
the repositories, asks a backing store to do its part (create a class, mint a
token, move a balance), and writes records back. The engine keeps its own
picture of what the stores hold: an item record names the owner the
non-fungible store knows, a `Fractional` names the supply of a pool, a fraction
record names a balance. Holds are counted twice, in the fraction record (the
tally) and in `FractionHolds` (one entry per guard). Guards are numbered by a
counter per timepoint.

The portal pallet is a second, independent part. The owner of a portal names a
delegate. The delegate schedules an extrinsic whose call is `exec(portal, call)`:
the pallet notes it in `ScheduledTx` and, under the current block, in
`PendingTx`. After the block is imported, the offchain worker of every validator
hands the pending extrinsics of that block to the transaction pool. When a block
author includes the extrinsic, `exec` looks it up in `ScheduledTx`, removes it,
runs the call in the portal's context and appends the extrinsic's index to
`PortalTagOfTransaction`. `exec_postponed` runs an unsigned call in a portal's
context without scheduling; `validate_unsigned` decides which of those the pool
admits. The engine meets the pallet only in the identity of the current
transaction (block number and extrinsic index), which is the timepoint of a
guard.

### What makes it hard

In the engine nothing runs concurrently. What is hard is the order of writes
inside one call and the sequences of calls:

- a call writes, then calls a store that may refuse, then writes again
  (`mint_item`, `fractionalize`, `create_collection`, `transfer_fraction`,
  `hold_fraction`, `unhold_fraction`, `lock_fraction`);
- a fingerprint is minted once, whichever collection asks and whatever became
  of the item since; a pool belongs to one item, also after a `fractionalize`
  that spent a pool id and failed;
- `_update_fractions_amount` rebuilds the owner's fraction record from the pool
  total, whatever the stored record said;
- counters at their limits: `NextCollectionId`, the item count, the guard
  number, the hold tally, the amounts;
- the same fact is stored in several places that must agree.

In the portal pallet several actors take steps in an order nobody controls:
users who call the pallet or hand any extrinsic to the pool, the offchain
workers of several nodes, and block authors.

- `exec` checks no origin, so anybody can get an `exec` extrinsic into a block;
  what protects a portal is the lookup in `ScheduledTx` alone;
- the same extrinsic reaches the pool from several validators and from users,
  and is included again after it ran;
- the worker's submission can be refused, and its result is dropped;
- something must eventually happen: a scheduled extrinsic is to be executed.

`PROJECT.json` lists each hazard at its line with the properties that watch it.

### Properties worth having, per part

- Registry: capacity is respected; item ids and internal ids are handed out
  once; item records follow the non-fungible store; a collection is never lost.
- Engine: the item, `FractionalRepo` and the pool index agree; the declared
  total is the supply of the pool; the total is the sum of the amounts held; a
  record can fuse only at the declared total; a failed call leaves nothing
  behind.
- Ledger: a transfer conserves the amounts; a held or locked fraction is not
  moved; a drained record is removed; no record of amount 0 persists.
- Locks and holds: no guard is made twice; the tally is the number of entries;
  failing that, a fraction that counts as held has an entry that releases it.
- Portal: a call runs in a portal's context only for an extrinsic a delegate
  scheduled, once per scheduling, or as an unsigned call the runtime admits;
  the tags of a block say what ran; a scheduled extrinsic is executed.

## 2. Modules

| Module | Models | Lines of source |
|---|---|---|
| `NftRecords` | the record types and their methods as constant operators; `None` stands for `Option::None` and `Err(())` | `nft_impl.rs` 579-1096 |
| `BackingStores` | the two stores as values and operators: when a call can be accepted, and what an accepted call does | modelled from the call contract |
| `NftImpl` | the storages as variables, every operation of `NFTImplT` as an action, the properties | `nft_impl.rs` 12-574 |
| `ItemLifecycle` | what the asset system promises of an item, in two variables: its owner and its shares | - |
| `FractionLockGuard` | `FractionLockGuardT::lock` and `unlock` as the actions `Lock` and `Unlock` over the fractions of one item and a tally storage; the callers `Take` and `GiveBack`, which give back only a guard that was taken (their discipline, not the trait's) | `nft_impl.rs` 1012-1049 |
| `Portal` | the storages of the pallet as variables, its dispatchables and its offchain hook as actions, `validate_unsigned` and `transpose` as operators; the context they call and the pool, blocks and nodes around them | `lib.rs` 79-289; the context and the environment are modelled from what `lib.rs` says of them |
| `PortalContract` | what the pallet promises, in three variables: the delegates, the endorsed extrinsics, how often each call ran in which context | - |
| `MCNftImpl`, `MCFractionLockGuard`, `MCPortal`, `MCPortalTags` | the symmetry sets, the key set, and the tenants and extrinsics for TLC | - |

### State

Each storage is a variable with the name of the storage type. A `StorageMap`
is a function whose domain is the set of keys present; `FractionHolds` is the
set of its keys (the stored value repeats the key); `FractionTransferLockNumber`
is a total function, a missing entry reading as 0 as in the code. `nonfungibles`
and `fungibles` are the states of the stores, `timepoint` is the current
transaction, `result` is what the last call returned, and `issued` is a history
variable counting how often each guard was made.

### Actions

An action models a whole call. Every `ensure!`, `?` and early return of the code
is a disjunct of the action that tells which writes were made before it; the
last disjunct is the success path. Three conventions:

- **No rollback.** The trait does not undo its writes when a later step fails,
  so the model keeps them. A caller may wrap a call in a storage transaction;
  that wrapper is not in this repository. The passing properties hold with or
  without a wrapper (a rolled-back call is a step that changes `result` only).
  One finding (`partial_failure`) needs a failing call to keep its writes and
  says so.
- **A store may refuse.** Every mutating store call returns a `Result`. The
  refusing disjunct is always enabled; the accepting one is enabled where the
  contract allows (`MintAccepted`: the supply stays within `MaxAmount`, and so
  on). `can_mint` and `can_burn` are queries and are deterministic.
- **mint_fraction inside fractionalize.** `mint_fraction` takes the state of the
  fungible store it starts from and its caller (`None` for the runtime, the
  `limited` flag for `fractionalize`), so that `fractionalize` is one action:
  create the pool, tag, mint, lock, index.

`Next` lets anyone call any operation with any argument from the small sets.
Records handed to an operation are the ones in the repository at that moment.

### ItemLifecycle and the refinement

`ItemLifecycle` is the state machine of an item that `spec.md` draws (minted,
whole, fractionalized), without records, stores, holds or results. `Mint` gives
an item that has none an owner, `Transfer` changes the owner of a whole item,
`Fractionalize` gives a whole item a pool that no other item has and a total
that is not zero, `Revalue` moves the total of a fractionalized item. Nothing
makes an item whole again, takes its owner away or gives it another pool.
`NftImpl` defines

    Lifecycle == INSTANCE ItemLifecycle WITH
        owner  <- [f \in Fingerprints |-> the account of ItemRepo[f], None if absent],
        shares <- [f \in Fingerprints |-> the fractional of ItemRepo[f], None if absent]

and the run `pools` checks `Lifecycle!Spec` as a property. The mapping reads
the item record alone, so the property is about every write of `ItemRepo`: the
insert of `mint_item`, the owner written by `transfer_item`, the tag that
`fractionalize` sets before it mints, and the totals that
`_update_fractions_amount` writes, each also on the paths where a later store
call is refused. The abstract module does not tell a mint from a burn; that
the total is the supply of the pool is `PoolTotalIsSupply`.

### Where the source does not compile

The source is a work in progress and the model fixes the reading it takes:

- `hold_fraction` and `unhold_fraction` use `holder_id`, which is not a
  parameter: it is a parameter of the actions.
- `LockGuard::new` is called with `(timepoint, number)`; the struct also has a
  mask. A guard is the pair of timepoint and number.
- `lock_fraction` ends with `guard.lock::<Self>()`, which names no storage and
  no fraction: `NftImpl` does not apply it. `FractionLockGuardT::lock` and
  `unlock` are the operators `guard_lock` and `guard_unlock` of `NftRecords`
  and the actions of `FractionLockGuard`, which gives them a storage and a
  caller that returns only guards it took.
- `mint_fraction` builds `total_amount` with `checked_add(..).ok_or_else(..)`
  and passes the `Result` on without `?`. The model takes the reading with
  `?`: an `Overflow` exit after `mint_ft` was accepted, with the store changed
  and no record written.
- Five exits are modelled and no state of the runs takes them:
  the overflow of `total_amount` in `mint_fraction` (the store refuses a mint
  beyond the supply it can hold, and the declared total is the supply),
  `ensure!(can_burn)` in `burn_fraction` (the owner of a fractionalized item
  administers its pool, `OwnerAdministersPool`), `checked_sub` failing in
  `burn_fraction` (the store withdraws no more than asked),
  `donor.decrease_amount` failing in `transfer_fraction` (line 444 has
  compared the amounts), and the duplicate key test of `hold_fraction` (the
  guard in the key is new). Each is a disjunct of its action with the writes
  made before it; the first and the third rest on the contract of the store,
  which is not under `src/`.
- `lock_collection` and `lock_item` are `todo!()`.

### Portal: state, actions, environment

The six storages of `lib.rs` are variables of `Portal` with their names. A map
is a function over the keys present. `PendingTx` is the set of its keys
`<<block, extrinsic>>`: the hash that keys it stands for the extrinsic it
stores. An extrinsic is a record `[signer, call]`, a call of the runtime is
`[kind, portal_id, call]` with `kind` one of `exec`, `exec_postponed` and
`other`, and the inner `call` is a model value: what it does is outside the
pallet, its outcome is `Ok` or `CallError`.

| Code | Model |
|---|---|
| `create`, `update`, `schedule` | actions of the same name: `ensure_signed` as the `BadOrigin` disjunct, then the call of the context |
| `exec` | `dispatch_scheduled` for the extrinsic being applied; no origin check, as in the code |
| `exec_postponed` | `ensure_none`, then `dispatch` with origin `None` |
| `validate_unsigned` | an operator: only `exec_postponed`, and only if `T::UnsignedValidator` (the constant `UnsignedValid`) admits the target call |
| `offchain_worker` | an action per node and block: a node that is no validator returns, a validator calls `submit_scheduled` and drops the result |
| `transpose` | an operator on the sequence of `(portal, extrinsic ids)` |
| `Error` | the set `Errors`; `result` holds what the last dispatchable returned |

The context (`portal.rs`, `transaction_ctx.rs`) is not part of the sources at
hand. Its six operations are written from what `lib.rs` says of them: the
storages they can touch, their arguments, and the error kinds, each of which
names the test that raises it (`OwnerIsNotATenant`, `PortalAlreadyExist`,
`PortalNotFound`, `UnproperCall`, `DelegateMismatch`, `AlreadyScheduled`,
`NotScheduled`, `PortalMismatch`). `PROJECT.json` marks them `spec_modelled`.
`PortalMismatch` needs an extrinsic scheduled for another portal than its own
call names, which `schedule_extrinsic` never writes (a conjunct of `TypeOK`);
the disjunct is kept and no extrinsic of the runs reaches it.

The environment is the least that lets the pallet's protocol run:

- `Call(create | update | schedule)`: a user's call enters the block being
  built; `MaxExtrinsics` bounds the user calls per block and `MaxBlock` the
  blocks in which users act.
- `Submit(xt)`: anybody hands any extrinsic of the set `Extrinsics` to the
  pool, which admits signed extrinsics and the unsigned ones that
  `validate_unsigned` lets through.
- `Include(xt)`: the author takes an extrinsic from the pool and applies it.
- `NextBlock`; `offchain_worker(node, n)` becomes enabled for every node once
  block `n` is behind, and runs once per node and block (`worked`).
- `PoolMayRefuse`: when `TRUE`, `submit_scheduled` gets any subset of the
  pending extrinsics into the pool. This also covers a node that is down when
  the block arrives.

Signatures, weights, fees, forks and the expiry of pool entries are left out.
`dispatched` and `scheduled_by` are history variables: the calls that
`dispatch` made, by block and extrinsic index, and the signed origin of the
`schedule` call that put an extrinsic into `ScheduledTx`.

### PortalContract and the refinement

`PortalContract` has no pool, no blocks and no workers. `Appoint` gives a
portal a delegate, `Endorse` notes an `exec` extrinsic as endorsed by the
delegate of the portal it names, `Run` takes an endorsed extrinsic out and
counts one run of its call as its signer, `RunUnsigned` counts one run as
`None` of a call that may run unsigned. `Portal` defines

    Contract == INSTANCE PortalContract WITH
        delegates <- [p \in PortalIds |-> delegate_of(p)],
        endorsed  <- [xt \in DOMAIN ScheduledTx |-> scheduled_by[xt]],
        runs      <- [r \in ... |-> Cardinality({k \in DOMAIN dispatched : dispatched[k] = r})]

and the run `portal_contract` checks `Contract!Spec` as a property: every step
of the pallet, its workers and its environment is a step of the contract or
leaves the three mapped variables unchanged. In particular whoever schedules
is the delegate of the portal at that moment, no call runs as a signer in a
portal's context that was not scheduled, and none runs twice for one
scheduling.

`Appoint` leaves the endorsements alone: what a delegate scheduled runs also
after `update` named another delegate, because `exec` looks at `ScheduledTx`
and never at the delegate (`lib.rs`, 198-212). The contract states that
reading; neither `spec.md` nor the documentation of the pallet says that a
scheduling ends with its delegate. What the refinement does exclude is the
stale read on the other side: a `schedule` that accepts whoever was the
delegate before the `update`.

## 3. Runs

`PROJECT.json` holds twelve runs: seven that pass and five in which TLC finds
a statement of the specification violated.

The runs `ledger`, `guards`, `pools` and `portal_contract` use a view (`Storages` of the
MC module): the state without `result`, the return value of the last call.
No operation reads `result`, so two states that differ in it alone have the
same successors, and TLC explores one of them. Every transition TLC generates
is still checked against the action properties and the refinements. An
invariant is checked on the state TLC keeps, so under the view the conjunct of
`TypeOK` that types `result` is checked for the first return value that
reaches a storage state; the runs `lock_guard` and `portal_live` use no view.

### Passing

| Run | Configuration | Bounds | States | Properties |
|---|---|---|---|---|
| `ledger` | `NftImplLedger.cfg` | 2 accounts, 1 collection id, 1 fingerprint, 1 pool, amounts 0..2, tally 0..1, 2 timepoints with 1 guard number each | 35,204 | `TypeOK`, `PoolTotalIsSupply`, `TallyWithinEntries`, `TransferConserves`, `HeldFractionsStay`, `DrainedFractionsRemoved` |
| `guards` | `NftImplGuards.cfg` | 2 accounts, 2 holders, 1 fingerprint, 1 pool, amounts 0..1, tally 0..2, 2 timepoints with 2 guard numbers each | 38,492 | `GuardsIssuedOnce`, `TallyWithinEntries` |
| `pools` | `NftImplPools.cfg` | 2 accounts, 1 collection id, 2 fingerprints, 2 pools, item ids 0..2, amounts 0..1, 1 timepoint | 32,644 | `FractionalAgreement`, `OwnerAdministersPool`, `ImplementsLifecycle` |
| `lock_guard` | `FractionLockGuard.cfg` | 3 fractions of one item, tally 0..2, up to 3 guards out per fraction | 216 | `TypeOK`, `TallyMirrorsRecord`, `TallyWithinGuards` |
| `registry` | `NftImplRegistry.cfg` | 2 accounts, 2 collection ids, 2 fingerprints, internal ids 0..3, item ids 0..2, no pool | 190,841 | `CapacityRespected`, `ItemIdsCounted`, `InternalIdsFresh`, `ItemsMirrorBackingStore` |
| `portal_contract` | `PortalContract.cfg` | 1 portal, 2 accounts (one a tenant), 2 calls (one valid unsigned), 4 extrinsics, 2 blocks of user activity, 2 user calls per block, 2 nodes (both validators), the pool may refuse | 733,706 | `TypeOK`, `ImplementsContract` |
| `portal_live` | `PortalLive.cfg` | 2 portals, 2 tenants, 1 call, 3 extrinsics, 1 block of user activity with 4 user calls, 2 nodes (one validator), the pool accepts | 28,249 | `TagsTellWhatRan`, `ScheduledIsExecuted` |

Why these bounds are enough:

- `ledger`: with `MaxAmount = 2` the owner's record can reach 2 while a second
  account holds 1 (fractionalize 1, mint 1, transfer 1, burn 1, mint 1), so a
  transfer back overflows `increase_amount` after the store accepted; a burn can
  withdraw less than asked; a mint can be refused at the supply limit; a hold
  can be reset by a mint and the later `unhold_fraction` underflows.
  One number per timepoint and two timepoints give two guards, so the counter
  overflows within a timepoint, a second hold overflows the tally of 1 after
  its entry is written, and guards of two timepoints coexist: the tally is 1
  under two live entries, and a mint resets it to 0 under both, which are the
  two ways the tally falls behind the entries (`TallyWithinEntries`).
- `guards`: two numbers per timepoint and two timepoints give four guards.
  Two calls of one transaction, `lock_fraction` and `hold_fraction` in either
  order or two holds by different holders, both succeed and must get different
  numbers; the third call of the transaction meets the overflow of the
  counter, after `lock_fraction` has written its lock; the next transaction
  starts again at 0 beside the guards of the first. Three holds on one
  fraction overflow the tally of 2, and a burn of the one share or a mint
  after it resets the tally under up to four entries. Amounts 0..1 keep the
  run small: the guards read no amount.
- `pools`: two fingerprints and two pool ids let both items of a collection be
  fractionalized, in either order, after a `fractionalize` of either that
  created its pool and was then refused the mint or the lock; they let an item
  be minted, transferred and its fingerprint be minted again, by the old or
  the new owner. With one fingerprint "a pool of its own" says nothing.
  Amounts 0..1 are enough: the lifecycle reads whether a total is there, and
  its values are the business of `ledger`.
- `lock_guard`: three guards on a tally of at most 2 reach the dropped
  overflow of `inc_holds`, and the unlocks that follow reach the dropped
  underflow of `dec_holds`: the tally is 2 with three guards out, and 0 with
  one guard out after two unlocks (`TallyWithinGuards`).
- `registry`: three internal ids allow a collection to be created, overwritten
  under the same external id, and a second one created, before the counter
  overflows; two fingerprints and a capacity of up to 2 fill a collection.
  With no pool (`MaxFTokens = 0`) `fractionalize` only ever meets a refusing
  `create_ft`; the registry properties read nothing the fraction operations
  write except the item record, whose owner and ids they keep.
- `portal_contract`: the four extrinsics are an `exec` for the portal, a valid
  unsigned `exec_postponed`, a signed `exec_postponed` (refused by
  `ensure_none`) and an unsigned `exec_postponed` of a call the validator does
  not admit (refused by the pool). Two blocks of user activity let an
  extrinsic be scheduled in the first block, be executed in the second because
  a user handed it to the pool, be scheduled again, and be executed again
  through the worker's submission for the first block; they let it be included
  before it is scheduled or after it ran (`NotScheduled`), and the portal be
  created or its delegate be changed between any two of these steps, between
  `schedule` and `exec` in particular. Both nodes are validators: the hooks of
  both submit the pending extrinsics of the same block, in either order and
  with `exec` between them. The early return of a node that is no validator
  is taken in `portal_live`.
- `portal_live`: two portals and a block that can hold four user calls let both
  portals be created and an extrinsic be scheduled for each in the same block,
  so that the next block holds extrinsics of two portals and a third that is
  none of the pallet's, in any order: the tags then carry indices that are not
  contiguous, under two keys. One block of scheduling is what the liveness
  property needs: schedule, the hook of that block, the pool, `exec`. Two
  blocks of user activity with two portals and four user calls per block are
  beyond five minutes of TLC. Two configurations of `MCPortalTags` are kept
  beside the runs for that case, with two user calls per block.
  `PortalTwoBlocks.cfg`: a pool that may refuse, `TagsTellWhatRan` and
  `ImplementsContract`; 269,856 states, half a minute.
  `PortalLiveTwoBlocks.cfg`: a pool that accepts, `LiveSpec`,
  `TagsTellWhatRan` and `ScheduledIsExecuted`, so that an extrinsic that ran
  is scheduled again in the second block and is owed a second execution;
  488,849 states, just under three minutes.

Symmetry: in the engine accounts, external collection ids and fingerprints are
compared for equality only, so their permutations are symmetry sets. Item ids,
internal ids, amounts and timepoints are numbers and are not. The portal runs
use no symmetry: the tenants and the extrinsics name particular accounts, and a
run with a liveness property may not use it.

Each property has a mutant in `PROJECT.json`: a changed form of one mapped
definition under which TLC finds the property violated with the same
configuration. For the holds: a `dec_holds` that checks the tally and does not take it down
(`TallyWithinEntries`, `TallyWithinGuards`). For the lifecycle: a `mint_item` that never finds its
fingerprint taken (`ImplementsLifecycle`). For the portal: `validate_unsigned` that does not ask the
validator of the target call (`TypeOK`), `exec` that dispatches without the
lookup in `ScheduledTx` and `schedule` that takes the delegate from the
extrinsic instead of the origin (`ImplementsContract`), `transpose` that takes the first
extrinsic of each portal and drops the rest (`TagsTellWhatRan`), and an offchain hook that returns
before it submits (`ScheduledIsExecuted`).

### Deadlock

The engine runs keep deadlock checking on: `NextTransaction` stops at
`MaxTimepoint` while the calls stay enabled. The portal runs say
`CHECK_DEADLOCK FALSE`: the pallet acts only when it is called, so once users
act no more (`MaxBlock`), every hook has run and the pool is empty, nothing is
left to do, and that state is a proper end of the run.

### Fairness and liveness

The engine has no liveness property and no fairness: it is a library that acts
only when called, nothing in it waits, retries or is scheduled, and no call is
owed an answer other than its own return.

The portal pallet promises something that takes several actors: `schedule` is
"to be executed" (`lib.rs`, line 16). `ScheduledIsExecuted` says that a
scheduled extrinsic that carries a signature leaves `ScheduledTx`, which only
`exec` brings about. (An unsigned `exec` extrinsic can be scheduled; the pool
never admits it, and the property leaves it out.) `LiveSpec` assumes

- weak fairness of `offchain_worker(node, n)` for every node and block: the
  runtime calls the hook for every block a node imports, and once enabled it
  stays enabled until it runs;
- weak fairness of `Include(xt)` for every extrinsic: an extrinsic stays in
  the pool until it is included, and authors take what the pool holds;
- weak fairness of `NextBlock`: blocks keep coming.

Users owe nothing: no fairness on `Call` and `Submit`. With `PoolMayRefuse =
FALSE` the property holds (`portal_live`). The assumption is needed: with
`PoolMayRefuse = TRUE` (`PortalVLost.cfg`, kept beside the runs) the pool
takes nothing from the hook and the extrinsic stays scheduled. That is a
statement about the pool, not about the pallet: nothing obliges the pool to
accept, so no hook could do better in this model, and whether the pallet
submits again is decided in `submit_scheduled`, which is not under `src/`.
What `lib.rs` itself contributes is that the hook drops the result
(`let _ =`, line 109).

### Violations: what the specification says and the code does not do

Each of these runs checks one statement of `spec.md`, and TLC finds a
counterexample.

| Run | Property | Counterexample |
|---|---|---|
| `conservation` | `Conservation` | fractionalize 1; transfer 1 to a second account; mint 1: the owner's new record says 2, the other says 1, the total is 2 |
| `transfer_lock` | `LockedFractionsStay` | fractionalize; `lock_fraction(.., Transfer)`; `transfer_fraction` succeeds |
| `hold_tally` | `HoldsCountEntries` | fractionalize; `hold_fraction`; mint: the tally is 0 with one live entry |
| `stale_fuse` | `FuseNeedsDeclaredTotal` | fractionalize 1; transfer 1 to a second account; mint 1: the second account's record holds 1 with a copy of the `Fractional` that still says 1, so `can_fuse` holds at a declared total of 2 |
| `partial_failure` | `FailuresWriteNothing` | `mint_item` with `mint_into` refused: the call returns an error, the count of the collection is 1, there is no item |

The first four happen on successful calls only. `partial_failure` needs a
store to refuse and the caller not to roll back; the same property is violated
by `fractionalize` (a refused `lock_minting`), `lock_fraction` (the guard
counter at its limit), `hold_fraction` and `unhold_fraction` (the tally at its
limit), which all write before their last step that can fail.

Three more statements of `spec.md` are violated by the code. Their properties
and configurations are kept beside the runs, and TLC shows the counterexample
in a second:

| Configuration | Property | Counterexample |
|---|---|---|
| `NftImplVNoEmptyFraction.cfg` (`MCNftImpl`) | `NoEmptyFraction` | fractionalize 1; burn 1: a record of amount 0 stays |
| `NftImplVCollectionsPersist.cfg` (`MCNftImpl`) | `CollectionsPersist` | `create_collection` twice with one external id: the first record is gone |
| `FractionLockGuardVCounted.cfg` (`MCFractionLockGuard`) | `GuardsAreCounted` | three locks on a tally of at most 2: the third is not counted, and two unlocks free a fraction with one guard out |

`PortalVLost.cfg` (`MCPortalTags`) is a fourth: `ScheduledIsExecuted` under a
pool that may refuse. It is no statement of `spec.md` and no finding about
`lib.rs`; it shows that `portal_live` needs its assumption (see Fairness).

What the code keeps where the specification says more: `hold_tally` and
`GuardsAreCounted` show that the tally is not the number of live entries or of
guards out. The runs `ledger` and `lock_guard` show the half that holds: the
tally never exceeds that number (`TallyWithinEntries`, `TallyWithinGuards`).
Every way the two part company makes the tally too small: `hold_fraction`
inserts its entry before `inc_holds` can refuse, `unhold_fraction` removes the
entry before `dec_holds` can refuse, and a mint or burn writes a record with a
tally of 0 over the entries. So a fraction can be free while guards are out,
which is the finding; it is never held with no guard left to release it.

## 4. Not modelled

- **Event proxy mapping**: functions that only make the compiler check a match
  for exhaustiveness ("Code in this module is not intended to be called");
  every arm is `unimplemented!()` or `unreachable!()`. There is no state and
  nothing a run could show.
- **Stake voting tests**: a mock runtime; every test is commented out, and the
  pallet they would test is not under `src/`.
- **Seal, AssetIdInitT, PayloadDetails, PayloadAssetId**: a visibility token,
  a trait without implementation and two data carriers: no operation.
- **`lock_collection`, `lock_item`**: `todo!()` in the source.
- **The call that `exec` dispatches**: a model value with two outcomes. `exec`
  of an engine operation would join `Portal` and `NftImpl` in one state space;
  the two share nothing but the identity of the current transaction, which
  `NftImpl` has as `timepoint` and `Portal` as `<<now, extrinsic_id>>`, and no
  property of either reads the other's state. They are not composed.
- **Nested calls of `exec`** (an `exec` inside the call of another extrinsic):
  what the context takes as "the extrinsic being applied" is in
  `transaction_ctx.rs`, which is not at hand.
- **Hashing, encoding, signatures, weights, fees, events, forks**: no property
  distinguishes them; a fingerprint and an extrinsic hash are model values.

### Assumptions about code that is not under `src/`

The properties of the portal and some of the engine rest on these; each is
marked `spec_modelled` in `PROJECT.json`.

- `exec` passes `(portal_id, call, origin)`; the context is taken to know the
  extrinsic being applied, and the model names it
  `Extrinsic(origin, exec, portal_id, call)`.
- `dispatch_scheduled` removes the entry of `ScheduledTx` before it
  dispatches and does not put it back when the call fails
  (`ImplementsContract`, `ScheduledIsExecuted`).
- `submit_scheduled(n)` submits the entries of `PendingTx` for block `n` and
  no others (`ScheduledIsExecuted`).
- `can_mint` and `can_burn` grant the admin of the pool and nobody else, so
  shares are minted to the owner of the item only; the store accepts a mint up
  to the supply `MaxAmount` and withdraws no more than asked.

## 5. Roadmap

1. *Done*: `NftRecords`, `BackingStores`, `NftImpl` with all operations of
   `NFTImplT`, `FractionLockGuard`.
2. *Done*: `Portal` with every dispatchable, the offchain hook,
   `validate_unsigned` and `transpose`; `PortalContract` and the refinement;
   liveness under fairness and the configuration that shows which assumption
   it needs; `can_fuse`
   against `FractionalRepo`.
3. *Done*: `ItemLifecycle` and the refinement of the item records; two items
   with a pool each; two validators in `portal_contract`; two portals over two
   blocks for the safety properties.
4. Open: an abstract ledger of balances per account and item. The code does
   not implement one (`conservation`), so the refinement would hold only for
   the operations other than mint and burn.
5. *Done*: liveness with two portals over two blocks
   (`PortalLiveTwoBlocks.cfg`); that a held fraction can be released
   (`TallyWithinEntries`, `TallyWithinGuards`).
