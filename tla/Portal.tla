------------------------------- MODULE Portal -------------------------------
(***************************************************************************)
(* The portal pallet of pallets/deip_portal/src/lib.rs: a portal's         *)
(* delegate schedules an extrinsic, the offchain worker of the block hands *)
(* it to the transaction pool, and when a block includes it `exec` runs    *)
(* its call in the portal's context and tags it with the portal.           *)
(*                                                                         *)
(* lib.rs holds the storages, the dispatchables, validate_unsigned, the    *)
(* offchain hook and transpose.  The context they delegate to (portal.rs,  *)
(* transaction_ctx.rs) is not part of the sources at hand: create_portal,  *)
(* update_portal, schedule_extrinsic, dispatch_scheduled, dispatch and     *)
(* submit_scheduled are the contract that the storages and the error kinds *)
(* of lib.rs describe.  The pool, the blocks and the nodes are the         *)
(* environment.  As in NftImpl, a failed call is not undone.               *)
(***************************************************************************)
EXTENDS Naturals, Sequences, FiniteSets, SequencesExt, TLC

CONSTANTS
    Accounts,       \* signers: owners, delegates, users
    PortalIds,      \* T::PortalId
    Calls,          \* calls of the runtime outside this pallet
    UnsignedValid,  \* the calls T::UnsignedValidator admits without signature
    Tenant,         \* T::TenantLookup: account -> portal id or None
    Nodes,          \* nodes that run the offchain hook
    Validators,     \* the nodes for which is_validator() holds
    Extrinsics,     \* the extrinsics users and workers hand to the pool
    None,           \* RawOrigin::None, Option::None
    MaxBlock,       \* blocks in which users act
    MaxExtrinsics,  \* extrinsics users put into one block
    PoolMayRefuse   \* TRUE: submit_transaction can fail

Blocks == 1..(MaxBlock + 1)
Origins == Accounts \cup {None}
RuntimeCalls ==
    [kind : {"exec", "exec_postponed"}, portal_id : PortalIds, call : Calls]
        \cup [kind : {"other"}, portal_id : {None}, call : Calls]

ASSUME /\ Extrinsics \subseteq [signer : Origins, call : RuntimeCalls]
       /\ Tenant \in [Accounts -> PortalIds \cup {None}]
       /\ Validators \subseteq Nodes /\ UnsignedValid \subseteq Calls
       /\ MaxBlock \in Nat \ {0} /\ MaxExtrinsics \in Nat \ {0}
       /\ PoolMayRefuse \in BOOLEAN

VARIABLES
    PendingTx,              \* keys <<block, extrinsic>> (the hash is the extrinsic)
    ScheduledTx,            \* extrinsic -> portal id
    PortalTagOfTransaction, \* <<block, portal id>> -> list of extrinsic ids
    PortalRepository,       \* portal id -> [owner, delegate]
    DelegateLookup,         \* portal id -> delegate
    OwnerLookup,            \* owner -> portal id
    now,                    \* the block being built
    extrinsic_id,           \* index of the next extrinsic of the block
    pool,                   \* the transaction pool
    worked,                 \* <<node, block>>: the offchain hook has run
    dispatched,             \* history: <<block, extrinsic id>> -> the call dispatch made
    scheduled_by,           \* history: extrinsic -> who scheduled it last
    result                  \* what the last dispatchable returned

portals == <<PortalRepository, DelegateLookup, OwnerLookup>>
txs == <<PendingTx, ScheduledTx>>
tags == <<PortalTagOfTransaction, dispatched>>
chain == <<now, extrinsic_id>>
vars == <<portals, txs, tags, chain, pool, worked, scheduled_by, result>>

Put(map, key, value) == (key :> value) @@ map
Drop(map, key) == [k \in DOMAIN map \ {key} |-> map[k]]

-----------------------------------------------------------------------------
(* Portals *)

\* An Err: nothing is written.
Refuse(error) ==
    /\ result' = error
    /\ UNCHANGED <<portals, txs, tags>>

create_portal(owner, delegate) ==
    LET id == Tenant[owner]
    IN \/ id = None /\ Refuse("OwnerIsNotATenant")
       \/ id # None /\ id \in DOMAIN PortalRepository /\ Refuse("PortalAlreadyExist")
       \/ /\ id # None /\ id \notin DOMAIN PortalRepository
          /\ PortalRepository' =
                 Put(PortalRepository, id, [owner |-> owner, delegate |-> delegate])
          /\ DelegateLookup' = Put(DelegateLookup, id, delegate)
          /\ OwnerLookup' = Put(OwnerLookup, owner, id)
          /\ result' = "Ok"
          /\ UNCHANGED <<txs, tags>>

\* `delegate` is the Option of the update: None leaves the delegate.
update_portal(owner, delegate) ==
    \/ owner \notin DOMAIN OwnerLookup /\ Refuse("PortalNotFound")
    \/ /\ owner \in DOMAIN OwnerLookup
       /\ LET id == OwnerLookup[owner]
              new == IF delegate = None THEN DelegateLookup[id] ELSE delegate
          IN /\ PortalRepository' = [PortalRepository EXCEPT ![id].delegate = new]
             /\ DelegateLookup' = [DelegateLookup EXCEPT ![id] = new]
       /\ result' = "Ok"
       /\ UNCHANGED <<OwnerLookup, txs, tags>>

\* ensure_signed(origin)?
create(origin, delegate) ==
    /\ \/ origin = None /\ Refuse("BadOrigin")
       \/ origin # None /\ create_portal(origin, delegate)
    /\ UNCHANGED <<pool, worked, scheduled_by>>

update(origin, delegate) ==
    /\ \/ origin = None /\ Refuse("BadOrigin")
       \/ origin # None /\ update_portal(origin, delegate)
    /\ UNCHANGED <<pool, worked, scheduled_by>>

-----------------------------------------------------------------------------
(* Scheduling and execution *)

\* DelegateLookup::get: the delegate of the portal, None without an entry.
delegate_of(portal_id) ==
    IF portal_id \in DOMAIN DelegateLookup THEN DelegateLookup[portal_id] ELSE None

schedule_extrinsic(xt, delegate) ==
    LET portal_id == xt.call.portal_id
        proper == xt.call.kind = "exec"
        mine == delegate_of(portal_id) = delegate
    IN \/ ~proper /\ Refuse("UnproperCall")
       \/ proper /\ ~mine /\ Refuse("DelegateMismatch")
       \/ proper /\ mine /\ xt \in DOMAIN ScheduledTx /\ Refuse("AlreadyScheduled")
       \/ /\ proper /\ mine /\ xt \notin DOMAIN ScheduledTx
          /\ ScheduledTx' = Put(ScheduledTx, xt, portal_id)
          /\ PendingTx' = PendingTx \cup {<<now, xt>>}
          /\ result' = "Ok"
          /\ UNCHANGED <<portals, tags>>

\* Who called, when the call put the extrinsic into ScheduledTx.
Scheduler(origin, xt) ==
    scheduled_by' = IF xt \in DOMAIN ScheduledTx' \ DOMAIN ScheduledTx
                    THEN Put(scheduled_by, xt, origin) ELSE scheduled_by

\* Mutant: the delegate is read from the extrinsic, not from the origin.
schedule_BySigner(origin, xt) ==
    /\ \/ origin = None /\ Refuse("BadOrigin")
       \/ origin # None /\ schedule_extrinsic(xt, xt.signer)
    /\ Scheduler(origin, xt)
    /\ UNCHANGED <<pool, worked>>

\* ensure_signed(origin)? gives the delegate.
schedule(origin, xt) ==
    /\ \/ origin = None /\ Refuse("BadOrigin")
       \/ origin # None /\ schedule_extrinsic(xt, origin)
    /\ Scheduler(origin, xt)
    /\ UNCHANGED <<pool, worked>>

\* The call runs with `origin`, tagged with the portal; what it returns is
\* what the dispatchable returns.
dispatch(portal_id, call, origin) ==
    LET key == <<now, portal_id>>
        list == IF key \in DOMAIN PortalTagOfTransaction
                THEN PortalTagOfTransaction[key] ELSE <<>>
    IN /\ PortalTagOfTransaction' =
              Put(PortalTagOfTransaction, key, Append(list, extrinsic_id))
       /\ dispatched' = Put(dispatched, <<now, extrinsic_id>>,
              [portal_id |-> portal_id, call |-> call, origin |-> origin])
       /\ result' \in {"Ok", "CallError"}
       /\ UNCHANGED <<portals, PendingTx>>

\* `xt` is the extrinsic being applied.  An extrinsic is scheduled for the
\* portal its own call names, so PortalMismatch needs an `exec` that is not
\* the call of the extrinsic itself.
dispatch_scheduled(xt, portal_id, call, origin) ==
    \/ xt \notin DOMAIN ScheduledTx /\ Refuse("NotScheduled")
    \/ xt \in DOMAIN ScheduledTx /\ ScheduledTx[xt] # portal_id /\ Refuse("PortalMismatch")
    \/ /\ xt \in DOMAIN ScheduledTx /\ ScheduledTx[xt] = portal_id
       /\ ScheduledTx' = Drop(ScheduledTx, xt)
       /\ dispatch(portal_id, call, origin)

\* The extrinsic whose call is this call of the pallet.
Extrinsic(origin, kind, portal_id, call) ==
    [signer |-> origin,
     call |-> [kind |-> kind, portal_id |-> portal_id, call |-> call]]

\* Mutant: the call is dispatched in the portal's context without asking
\* whether the extrinsic was scheduled.
exec_Unchecked(origin, portal_id, call) ==
    dispatch(portal_id, call, origin) /\ UNCHANGED ScheduledTx

exec(origin, portal_id, call) ==
    dispatch_scheduled(Extrinsic(origin, "exec", portal_id, call), portal_id, call, origin)

\* ensure_none(origin)?
exec_postponed(origin, portal_id, call) ==
    \/ origin # None /\ Refuse("BadOrigin")
    \/ origin = None /\ dispatch(portal_id, call, None) /\ UNCHANGED ScheduledTx

\* Mutant: the validator of the target call is not asked.
validate_unsigned_Unasked(call) == call.kind = "exec_postponed"

validate_unsigned(call) ==
    call.kind = "exec_postponed" /\ call.call \in UnsignedValid

-----------------------------------------------------------------------------
(* The pool, the offchain worker and the blocks *)

\* What the pool takes: a signed extrinsic, or an unsigned one that
\* validate_unsigned lets through.
Admitted(xts) == {xt \in xts : xt.signer = None => validate_unsigned(xt.call)}

PendingAt(n) == {xt \in Extrinsics : <<n, xt>> \in PendingTx}

\* Every pending extrinsic of block n is handed to the pool, each submission
\* on its own; the pool may refuse any of them.
submit_scheduled(n) ==
    \E sent \in (IF PoolMayRefuse THEN SUBSET PendingAt(n) ELSE {PendingAt(n)}) :
        pool' = pool \cup Admitted(sent)

\* Mutant: the hook returns before it submits.
offchain_worker_Returns(node, n) ==
    /\ worked' = worked \cup {<<node, n>>}
    /\ UNCHANGED <<portals, txs, tags, chain, pool, scheduled_by, result>>

\* The hook of `node` for the imported block n.  What submit_scheduled
\* returns is dropped: nothing on chain tells whether anything was sent.
offchain_worker(node, n) ==
    /\ \/ node \notin Validators /\ UNCHANGED pool
       \/ node \in Validators /\ submit_scheduled(n)
    /\ worked' = worked \cup {<<node, n>>}
    /\ UNCHANGED <<portals, txs, tags, chain, scheduled_by, result>>

\* A user hands an extrinsic to the pool.
Submit(xt) ==
    /\ now <= MaxBlock /\ extrinsic_id < MaxExtrinsics
    /\ pool' = pool \cup Admitted({xt})
    /\ UNCHANGED <<portals, txs, tags, chain, worked, scheduled_by, result>>

\* The author of the block takes an extrinsic from the pool and applies it.
Include(xt) ==
    LET call == xt.call
    IN /\ xt \in pool
       /\ pool' = pool \ {xt}
       /\ extrinsic_id' = extrinsic_id + 1
       /\ \/ call.kind = "exec" /\ exec(xt.signer, call.portal_id, call.call)
          \/ call.kind = "exec_postponed"
                /\ exec_postponed(xt.signer, call.portal_id, call.call)
          \/ call.kind = "other" /\ result' = "Ok" /\ UNCHANGED <<portals, txs, tags>>
       /\ UNCHANGED <<now, worked, scheduled_by>>

\* A user's call of the pallet enters the block at once.
Call(dispatchable) ==
    /\ now <= MaxBlock /\ extrinsic_id < MaxExtrinsics
    /\ extrinsic_id' = extrinsic_id + 1
    /\ dispatchable
    /\ UNCHANGED now

NextBlock ==
    /\ now <= MaxBlock
    /\ now' = now + 1
    /\ extrinsic_id' = 0
    /\ UNCHANGED <<portals, txs, tags, pool, worked, scheduled_by, result>>

Init ==
    /\ PendingTx = {}
    /\ ScheduledTx = <<>>
    /\ PortalTagOfTransaction = <<>>
    /\ PortalRepository = <<>>
    /\ DelegateLookup = <<>>
    /\ OwnerLookup = <<>>
    /\ now = 1
    /\ extrinsic_id = 0
    /\ pool = {}
    /\ worked = {}
    /\ dispatched = <<>>
    /\ scheduled_by = <<>>
    /\ result = "Ok"

Next ==
    \/ \E origin \in Origins, delegate \in Accounts : Call(create(origin, delegate))
    \/ \E origin \in Origins, delegate \in Origins : Call(update(origin, delegate))
    \/ \E origin \in Origins, xt \in Extrinsics : Call(schedule(origin, xt))
    \/ \E xt \in Extrinsics : Submit(xt)
    \/ \E xt \in Extrinsics : Include(xt)
    \/ \E node \in Nodes, n \in Blocks :
           n < now /\ <<node, n>> \notin worked /\ offchain_worker(node, n)
    \/ NextBlock

Spec == Init /\ [][Next]_vars

\* The node runs the hook of every imported block, the author of a block
\* takes what is in the pool, and blocks keep coming.  Users owe nothing.
Fairness ==
    /\ \A node \in Nodes, n \in Blocks :
           WF_vars(n < now /\ <<node, n>> \notin worked /\ offchain_worker(node, n))
    /\ \A xt \in Extrinsics : WF_vars(Include(xt))
    /\ WF_vars(NextBlock)

LiveSpec == Spec /\ Fairness

-----------------------------------------------------------------------------
(* The tags of a block *)

\* PortalInfo of block n: the entries of PortalTagOfTransaction under n.
PortalInfo(n) ==
    LET tagged == SetToSeq({p \in PortalIds : <<n, p>> \in DOMAIN PortalTagOfTransaction})
    IN [i \in DOMAIN tagged |-> <<tagged[i], PortalTagOfTransaction[<<n, tagged[i]>>]>>]

\* Mutant: the lists are not flattened, a portal gives its first pair only.
transpose_FirstOnly(source) ==
    [i \in DOMAIN source |-> <<source[i][2][1], source[i][1]>>]

\* From (portal, extrinsic ids) to the pairs (extrinsic id, portal), in order.
transpose(source) ==
    FlattenSeq([i \in DOMAIN source |->
        [j \in DOMAIN source[i][2] |-> <<source[i][2][j], source[i][1]>>]])

-----------------------------------------------------------------------------
(* Properties *)

Portals == [owner : Accounts, delegate : Accounts]

\* A block holds what users put into it and what the pool held or was handed
\* by the hooks after that.
ExtrinsicIds ==
    0..(MaxExtrinsics + Cardinality(Extrinsics) * (1 + Cardinality(Nodes) * MaxBlock))

Errors == {"DelegateMismatch", "PortalMismatch", "AlreadyScheduled", "UnproperCall",
           "NotScheduled", "OwnerIsNotATenant", "PortalAlreadyExist", "PortalNotFound"}

\* The storages hold what their types say, under the keys the values name: a
\* portal has an owner and a delegate, an extrinsic is scheduled for the
\* portal its call names, and the pool holds no unsigned extrinsic but an
\* exec_postponed of a call that the runtime's validator admits
\* (validate_unsigned).
TypeOK ==
    /\ PendingTx \subseteq Blocks \X Extrinsics
    /\ DOMAIN ScheduledTx \subseteq Extrinsics
    /\ \A xt \in DOMAIN ScheduledTx : ScheduledTx[xt] = xt.call.portal_id
    /\ DOMAIN PortalTagOfTransaction \subseteq Blocks \X PortalIds
    /\ \A key \in DOMAIN PortalTagOfTransaction :
           PortalTagOfTransaction[key] \in Seq(ExtrinsicIds)
    /\ DOMAIN PortalRepository \subseteq PortalIds
    /\ \A p \in DOMAIN PortalRepository : PortalRepository[p] \in Portals
    /\ DOMAIN DelegateLookup \subseteq PortalIds
    /\ \A p \in DOMAIN DelegateLookup : DelegateLookup[p] \in Accounts
    /\ DOMAIN OwnerLookup \subseteq Accounts
    /\ \A a \in DOMAIN OwnerLookup : OwnerLookup[a] \in PortalIds
    /\ now \in Blocks /\ extrinsic_id \in ExtrinsicIds
    /\ pool \subseteq Extrinsics
    /\ \A xt \in pool : xt.signer = None =>
           xt.call.kind = "exec_postponed" /\ xt.call.call \in UnsignedValid
    /\ worked \subseteq Nodes \X Blocks
    /\ DOMAIN dispatched \subseteq Blocks \X ExtrinsicIds
    /\ DOMAIN ScheduledTx \subseteq DOMAIN scheduled_by
    /\ result \in Errors \cup {"Ok", "CallError", "BadOrigin"}

Contract ==
    INSTANCE PortalContract WITH
        delegates <- [p \in PortalIds |-> delegate_of(p)],
        endorsed <- [xt \in DOMAIN ScheduledTx |-> scheduled_by[xt]],
        runs <- [r \in [portal_id : PortalIds, call : Calls, origin : Origins] |->
                    Cardinality({k \in DOMAIN dispatched : dispatched[k] = r})]

\* The pallet implements its contract: whatever users, workers and authors
\* do, in whatever order and however often workers submit, `schedule` takes
\* an extrinsic only from the delegate of the portal it names, `exec` runs a
\* call in a portal's context only for a scheduled extrinsic and once per
\* scheduling, and `exec_postponed` only an unsigned call that
\* validate_unsigned let into the pool.
ImplementsContract == Contract!Spec

\* Every extrinsic of a block is tagged with at most one portal, and the
\* tags say what ran: transposed, the tags of a block are the pairs
\* (extrinsic id, portal) of the calls that `dispatch` made in the block,
\* each once.
TagsTellWhatRan ==
    \A n \in Blocks :
        LET pairs == transpose(PortalInfo(n))
        IN /\ ToSet(pairs) = {<<k[2], dispatched[k].portal_id>> :
                                 k \in {d \in DOMAIN dispatched : d[1] = n}}
           /\ \A i, j \in DOMAIN pairs : pairs[i][1] = pairs[j][1] => i = j

\* A scheduled extrinsic that carries a signature is executed: once
\* scheduled, it leaves ScheduledTx through `exec` (schedule, the offchain
\* hook, the pool and exec in a row).
ScheduledIsExecuted ==
    \A xt \in Extrinsics :
        xt.signer # None =>
            ((xt \in DOMAIN ScheduledTx) ~> (xt \notin DOMAIN ScheduledTx))

=============================================================================
