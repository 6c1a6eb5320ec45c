--------------------------- MODULE PortalContract ---------------------------
(***************************************************************************)
(* What the portal pallet promises, without pool, blocks or workers: a     *)
(* signed call runs in a portal's context only as an extrinsic that the    *)
(* delegate of that portal endorsed, and every endorsement is spent by one *)
(* run; an unsigned call runs in a portal's context only if the runtime's  *)
(* validator of unsigned calls admits it.                                  *)
(***************************************************************************)
EXTENDS Naturals

CONSTANTS
    Accounts, PortalIds, Calls,
    UnsignedValid,  \* calls that may run unsigned
    Extrinsics,     \* [signer, call]; call is [kind, portal_id, call]
    None

VARIABLES
    delegates,      \* portal id -> its delegate, None without one
    endorsed,       \* extrinsic endorsed and not yet run -> who endorsed it
    runs            \* [portal_id, call, origin] -> how often it ran

vars == <<delegates, endorsed, runs>>

Runs == [portal_id : PortalIds, call : Calls, origin : Accounts \cup {None}]

Ran(portal_id, call, origin) ==
    runs' = [runs EXCEPT
                ![[portal_id |-> portal_id, call |-> call, origin |-> origin]] = @ + 1]

Init ==
    /\ delegates = [p \in PortalIds |-> None]
    /\ endorsed = <<>>
    /\ runs = [r \in Runs |-> 0]

\* The owner of a portal names its delegate.
Appoint(p, delegate) ==
    /\ delegates' = [delegates EXCEPT ![p] = delegate]
    /\ UNCHANGED <<endorsed, runs>>

\* The delegate of the portal that the extrinsic names endorses it.
Endorse(xt) ==
    /\ xt.call.kind = "exec"
    /\ delegates[xt.call.portal_id] # None
    /\ xt \notin DOMAIN endorsed
    /\ endorsed' = [x \in DOMAIN endorsed \cup {xt} |->
                       IF x = xt THEN delegates[xt.call.portal_id] ELSE endorsed[x]]
    /\ UNCHANGED <<delegates, runs>>

\* An endorsed extrinsic runs, as its signer, and the endorsement is spent.
Run(xt) ==
    /\ xt \in DOMAIN endorsed
    /\ endorsed' = [x \in DOMAIN endorsed \ {xt} |-> endorsed[x]]
    /\ Ran(xt.call.portal_id, xt.call.call, xt.signer)
    /\ UNCHANGED delegates

\* A call that needs no signature runs in the context of a portal.
RunUnsigned(p, call) ==
    /\ call \in UnsignedValid
    /\ Ran(p, call, None)
    /\ UNCHANGED <<delegates, endorsed>>

Next ==
    \/ \E p \in PortalIds, delegate \in Accounts : Appoint(p, delegate)
    \/ \E xt \in Extrinsics : Endorse(xt) \/ Run(xt)
    \/ \E p \in PortalIds, call \in Calls : RunUnsigned(p, call)

Spec == Init /\ [][Next]_vars

=============================================================================
