--------------------------- MODULE WriteAuthority ---------------------------
(***************************************************************************)
(* What the write lifecycle promises, without its files, lock, proposals,  *)
(* receipts and failures.                                                  *)
(*                                                                         *)
(* The user's accepted terms bind the Project, or none do.  Authority to   *)
(* write is one lease at most.  It is offered and issued under the terms   *)
(* that bind, and they do not change while it lasts or is on offer.        *)
(* Every native write begins under a lease in its term, inside its scope.  *)
(* A Task is done only under the lease and the terms of the moment.  Who   *)
(* offers a lease or does the Task may be slow and date it in the past,    *)
(* but never in the future, and what is done is dated in the lease's term. *)
(***************************************************************************)
EXTENDS Integers

CONSTANTS
    Files,      \* files of the Project
    Terms,      \* what a user may have accepted
    Leases,     \* leases: an id, the terms, a scope and the time of issue
    Completions,    \* completions: a lease, the terms, what was done and when
    LeaseTerm,  \* how long a lease lasts, in clock ticks
    None

VARIABLES
    terms,      \* the accepted terms
    offer,      \* a lease decided upon and not yet in force
    lease,      \* the lease in force
    write,      \* a native write that has begun
    done,       \* the last completion: its lease and its terms
    now,        \* the time
    count       \* leases offered so far

vars == <<terms, offer, lease, write, done, now, count>>

Init ==
    /\ terms = None /\ offer = None /\ lease = None
    /\ write = None /\ done = None
    /\ now = 0 /\ count = 0

(* The terms change, or lapse; a lease in force ends with them.            *)
Bind ==
    /\ offer = None /\ offer' = None
    /\ lease' = None
    /\ terms' \in Terms \cup {None}
    /\ UNCHANGED <<write, done, now, count>>

(* A lease never seen before is offered under the terms.                   *)
Offer ==
    /\ terms # None /\ offer = None /\ lease = None
    /\ count' = count + 1
    /\ offer' \in Leases
    /\ offer'.id = count' /\ offer'.acc = terms
    /\ offer'.scope \subseteq Files /\ offer'.issued <= now
    /\ UNCHANGED <<terms, lease, write, done, now>>

Withdraw ==
    /\ offer' = None
    /\ UNCHANGED <<terms, lease, write, done, now, count>>

Issue ==
    /\ offer # None /\ lease = None
    /\ lease' = offer /\ offer' = None
    /\ UNCHANGED <<terms, write, done, now, count>>

(* The lease is revoked, renewed or used up.                               *)
End ==
    /\ lease' = None
    /\ UNCHANGED <<terms, offer, write, done, now, count>>

Begin ==
    /\ write = None
    /\ lease # None /\ lease.acc = terms
    /\ lease.issued <= now /\ now < lease.issued + LeaseTerm
    /\ \E f \in lease.scope : write' = [file |-> f, lease |-> lease.id]
    /\ UNCHANGED <<terms, offer, lease, done, now, count>>

Finish ==
    /\ write' = None
    /\ UNCHANGED <<terms, offer, lease, done, now, count>>

Complete ==
    /\ lease # None /\ lease.acc = terms
    /\ done' \in Completions
    /\ done'.lease = lease.id /\ done'.acc = terms
    /\ done'.at <= now /\ lease.issued <= done'.at /\ done'.at < lease.issued + LeaseTerm
    /\ UNCHANGED <<terms, offer, lease, write, now, count>>

Tick ==
    /\ now' = now + 1
    /\ UNCHANGED <<terms, offer, lease, write, done, count>>

Next == Bind \/ Offer \/ Withdraw \/ Issue \/ End \/ Begin \/ Finish \/ Complete \/ Tick

Spec == Init /\ [][Next]_vars
=============================================================================
