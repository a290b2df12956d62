----------------------------- MODULE LedgerLock -----------------------------
(***************************************************************************)
(* Requests that change the ledger at the same time, down to the reads and  *)
(* writes of the store: Store::credit and Store::debit read a balance and   *)
(* then put the new one (store.rs 133-148), bump_nonce and AccountUpdateKey *)
(* read the account record and then put it back (tx.rs 2272-2282, chain.rs  *)
(* 1174-1184).                                                              *)
(*                                                                         *)
(* A Transfer holds write_lock from its checks to its nonce bump; its entry *)
(* fee is checked before and taken after, without the lock.  AccountUpdateKey *)
(* and the credits of the seal handler and the reward driver never take it. *)
(***************************************************************************)
EXTENDS Integers, Sequences, FiniteSets, FiniteSetsExt

CONSTANTS
    Requests,       \* requests in flight, each handled by a thread of its own
    Transfers,      \* [Requests -> ...]: the transfers [from, to, amount, nonce]
    KeyUpdates,     \* the accounts whose key is updated, by request
    Credits,        \* the accounts that are credited a reward or a release, by request
    Accounts, Recycle, Initial, Fee, None

RequestKinds == Requests = DOMAIN Transfers \cup DOMAIN KeyUpdates \cup DOMAIN Credits
AmountsNat == Initial \in Nat /\ Fee \in Nat
              /\ \A q \in DOMAIN Transfers : Transfers[q].amount \in Nat

Balance(a) == <<"balance", a>>
Record(a) == <<"nonce", a>>
Cells == {Balance(a) : a \in Accounts \cup {Recycle}} \cup {Record(a) : a \in Accounts}

VARIABLES
    store,      \* the value of every cell: a balance, or the nonce in an account record
    lock,       \* the request that holds write_lock, or None
    pc,         \* where each request is
    ops,        \* [cell, delta] updates each request has still to do
    read,       \* what each request has read for the first of them, or None
    moved       \* the transfers that have debited their sender

vars == <<store, lock, pc, ops, read, moved>>

TypeOK ==
    /\ DOMAIN store = Cells /\ \A c \in Cells : store[c] \in Int
    /\ lock \in Requests \cup {None}
    /\ pc \in [Requests -> {"start", "wait", "check", "apply", "fee", "done"}]
    /\ \A q \in Requests : \A i \in 1..Len(ops[q]) : ops[q][i].cell \in Cells
    /\ \A q \in Requests : read[q] # None => ops[q] # <<>>
    /\ moved \subseteq DOMAIN Transfers
    /\ lock # None => pc[lock] \in {"check", "apply"}

Init ==
    /\ store = [c \in Cells |-> IF c[1] = "balance" /\ c[2] # Recycle THEN Initial ELSE 0]
    /\ lock = None
    /\ pc = [q \in Requests |-> IF q \in DOMAIN Transfers THEN "start" ELSE "apply"]
    /\ ops = [q \in Requests |->
                IF q \in DOMAIN KeyUpdates THEN <<[cell |-> Record(KeyUpdates[q]), delta |-> 0]>>
                ELSE IF q \in DOMAIN Credits THEN <<[cell |-> Balance(Credits[q]), delta |-> 1]>>
                ELSE <<>>]
    /\ read = [q \in Requests |-> None]
    /\ moved = {}

------------------------------------------------------------------------------

\* The fee must be there, at this moment.
Preflight(q) ==
    /\ pc[q] = "start"
    /\ pc' = [pc EXCEPT ![q] =
                IF store[Balance(Transfers[q].from)] >= Fee THEN "wait" ELSE "done"]
    /\ UNCHANGED <<store, lock, ops, read, moved>>

Free == lock = None

Acquire(q) ==
    /\ pc[q] = "wait" /\ Free
    /\ lock' = q /\ pc' = [pc EXCEPT ![q] = "check"]
    /\ UNCHANGED <<store, ops, read, moved>>

\* Mutant: the nonce is bumped by the handler and by apply_entry.
BumpedTwice(from) == <<[cell |-> Record(from), delta |-> 1], [cell |-> Record(from), delta |-> 1]>>

Bump(from) == <<[cell |-> Record(from), delta |-> 1]>>

Unlock(q) == IF lock = q THEN None ELSE lock

Refuse(q) == pc' = [pc EXCEPT ![q] = "done"] /\ lock' = Unlock(q)

\* Nonce and balance are checked under the lock; then debit, credit and bump.
Check(q) ==
    /\ pc[q] = "check"
    /\ LET t == Transfers[q] IN
       IF store[Record(t.from)] + 1 = t.nonce /\ store[Balance(t.from)] >= t.amount
       THEN /\ pc' = [pc EXCEPT ![q] = "apply"]
            /\ ops' = [ops EXCEPT ![q] = <<[cell |-> Balance(t.from), delta |-> -t.amount],
                                           [cell |-> Balance(t.to), delta |-> t.amount]>>
                                         \o Bump(t.from)]
            /\ UNCHANGED lock
       ELSE Refuse(q) /\ UNCHANGED ops
    /\ UNCHANGED <<store, read, moved>>

Read(q) ==
    /\ ops[q] # <<>> /\ read[q] = None
    /\ read' = [read EXCEPT ![q] = store[Head(ops[q]).cell]]
    /\ UNCHANGED <<store, lock, pc, ops, moved>>

\* A debit of more than was read fails and ends the request.
Fails(q) == read[q] + Head(ops[q]).delta < 0

Write(q) ==
    /\ read[q] # None /\ ~Fails(q)
    /\ store' = [store EXCEPT ![Head(ops[q]).cell] = read[q] + Head(ops[q]).delta]
    /\ ops' = [ops EXCEPT ![q] = Tail(@)]
    /\ read' = [read EXCEPT ![q] = None]
    /\ moved' = IF pc[q] = "apply" /\ q \in DOMAIN Transfers THEN moved \cup {q} ELSE moved
    /\ UNCHANGED <<lock, pc>>

Abort(q) ==
    /\ read[q] # None /\ Fails(q)
    /\ ops' = [ops EXCEPT ![q] = <<>>] /\ read' = [read EXCEPT ![q] = None]
    /\ Refuse(q)
    /\ UNCHANGED <<store, moved>>

\* The guard is dropped; the fee moves from the sender to the recycle fund.
Release(q) ==
    /\ pc[q] = "apply" /\ ops[q] = <<>>
    /\ lock' = Unlock(q)
    /\ IF q \in DOMAIN Transfers /\ Fee > 0
       THEN /\ pc' = [pc EXCEPT ![q] = "fee"]
            /\ ops' = [ops EXCEPT ![q] = <<[cell |-> Balance(Transfers[q].from), delta |-> -Fee],
                                           [cell |-> Balance(Recycle), delta |-> Fee]>>]
       ELSE pc' = [pc EXCEPT ![q] = "done"] /\ UNCHANGED ops
    /\ UNCHANGED <<store, read, moved>>

Finish(q) ==
    /\ pc[q] = "fee" /\ ops[q] = <<>>
    /\ pc' = [pc EXCEPT ![q] = "done"]
    /\ UNCHANGED <<store, lock, ops, read, moved>>

Step(q) == \/ Preflight(q) \/ Acquire(q) \/ Check(q) \/ Read(q) \/ Write(q) \/ Abort(q)
           \/ Release(q) \/ Finish(q)

Next == \E q \in Requests : Step(q)

Spec == Init /\ [][Next]_vars

\* Threads keep running, and a mutex that is free is granted.
FairSpec == Spec /\ \A q \in Requests : WF_vars(Step(q))

------------------------------------------------------------------------------
(* What holds *)

Quiet == \A q \in Requests : pc[q] = "done"

\* The accounts whose record only their own transfers write.
KeyKept == Accounts \ {KeyUpdates[q] : q \in DOMAIN KeyUpdates}

\* One transfer of an account goes through for each nonce (chain.rs 6262, P3: "same
\* entry applied twice is rejected"), whatever fees, credits and key updates of
\* other accounts run at the same time without the lock.
NonceOnce ==
    \A p, q \in moved :
        /\ Transfers[p].from = Transfers[q].from /\ Transfers[p].nonce = Transfers[q].nonce
        /\ Transfers[p].from \in KeyKept
        => p = q

\* When every request is through, the nonce of an account is the number of its
\* transfers that moved tokens (chain.rs 910, tx.rs 2272-2282), and never more than
\* that: an AccountUpdateKey can put an old nonce back, not a newer one.
NonceIsCount ==
    Quiet => \A a \in Accounts :
        LET sent == Cardinality({q \in moved : Transfers[q].from = a})
        IN  /\ store[Record(a)] <= sent
            /\ a \in KeyKept => store[Record(a)] = sent

------------------------------------------------------------------------------
(* What the comments claim *)

\* chain.rs 572: "Serialises all write paths: nonce-check -> debit/credit ->
\* nonce-bump": when every request is through, balances add up.
Conserved ==
    Quiet => MapThenSumSet(LAMBDA a : store[Balance(a)], Accounts \cup {Recycle})
             = Initial * Cardinality(Accounts) + Cardinality(DOMAIN Credits)
=============================================================================
