------------------------------ MODULE PendingPool ----------------------------
(***************************************************************************)
(* The pool of user entries waiting for the next epoch seal                 *)
(* (chain.rs 576-639).  API handlers and the network handler push, the      *)
(* sealed-epoch handler drains.  The fingerprints already seen and the pool *)
(* are behind two locks: a push takes them one after the other, and so does *)
(* a drain, in the opposite order.                                          *)
(***************************************************************************)
EXTENDS Naturals, Sequences, FiniteSetsExt, TLC

CONSTANTS Entries,    \* user entries, numbered in the order of their SHA-256
          Pushers,    \* tasks that push
          MaxPushes,  \* bound on admissions
          None

PoolBounds == Entries \subseteq Nat /\ MaxPushes \in Nat /\ None \notin Entries

VARIABLES
    seen,      \* seen_entries
    pool,      \* pending
    hand,      \* hand[t]: entry t has recorded as seen and not yet queued, or None
    clearing,  \* the drain is between its two locks
    batch,     \* what the last drain returned
    taken,     \* taken[x]: copies of x drained so far
    admitted   \* admitted[x]: pushes of x that returned true, or will

vars == <<seen, pool, hand, clearing, batch, taken, admitted>>

Copies(s, x) == Cardinality({i \in DOMAIN s : s[i] = x})
Total == MapThenSumSet(LAMBDA x : admitted[x], Entries)

TypeOK ==
    /\ seen \subseteq Entries
    /\ pool \in Seq(Entries) /\ batch \in Seq(Entries)
    /\ hand \in [Pushers -> Entries \cup {None}]
    /\ clearing \in BOOLEAN
    /\ taken \in [Entries -> Nat] /\ admitted \in [Entries -> Nat]

Init ==
    /\ seen = {} /\ pool = <<>> /\ batch = <<>>
    /\ hand = [t \in Pushers |-> None]
    /\ clearing = FALSE
    /\ taken = [x \in Entries |-> 0] /\ admitted = [x \in Entries |-> 0]

\* push_pending up to the drop of the seen lock.  A fingerprint already there ends
\* the push with false, and changes nothing.
PushSeen(t, x) ==
    /\ hand[t] = None /\ Total < MaxPushes
    /\ x \notin seen
    /\ seen' = seen \cup {x}
    /\ hand' = [hand EXCEPT ![t] = x]
    /\ admitted' = [admitted EXCEPT ![x] = @ + 1]
    /\ UNCHANGED <<pool, clearing, batch, taken>>

\* The rest of push_pending.
PushPool(t) ==
    /\ hand[t] # None
    /\ pool' = Append(pool, hand[t])
    /\ hand' = [hand EXCEPT ![t] = None]
    /\ UNCHANGED <<seen, clearing, batch, taken, admitted>>

\* drain_pending_sorted up to the drop of the pool lock.
Drain ==
    /\ ~clearing
    /\ batch' = SortSeq(pool, LAMBDA x, y : x < y)
    /\ pool' = <<>>
    /\ taken' = [x \in Entries |-> taken[x] + Copies(pool, x)]
    /\ clearing' = TRUE
    /\ UNCHANGED <<seen, hand, admitted>>

\* Mutant: the pool is cleared with the fingerprints.
ClearBoth ==
    /\ clearing
    /\ seen' = {} /\ pool' = <<>>
    /\ clearing' = FALSE
    /\ UNCHANGED <<hand, batch, taken, admitted>>

\* The rest of drain_pending_sorted.
ClearSeen ==
    /\ clearing
    /\ seen' = {}
    /\ clearing' = FALSE
    /\ UNCHANGED <<pool, hand, batch, taken, admitted>>

Next ==
    \/ \E t \in Pushers : PushPool(t) \/ \E x \in Entries : PushSeen(t, x)
    \/ Drain \/ ClearSeen

Spec == Init /\ [][Next]_vars

------------------------------------------------------------------------------
(* What holds *)

\* An admitted entry is neither lost nor multiplied: each admission is in a
\* pusher's hand, in the pool or was drained, however pushes and drains overlap.
Conserved ==
    \A x \in Entries :
        admitted[x] = Cardinality({t \in Pushers : hand[t] = x}) + Copies(pool, x) + taken[x]

\* A push is refused only for an entry that is on its way: queued, about to be, or
\* in the batch being applied.
RefusedIsHeld ==
    \A x \in seen :
        \/ Copies(pool, x) > 0
        \/ \E t \in Pushers : hand[t] = x
        \/ clearing /\ Copies(batch, x) > 0

------------------------------------------------------------------------------
(* What the comments claim *)

\* chain.rs 577-578: the fingerprints prevent "replayed gossip messages from
\* inserting the same entry twice".
NoDuplicateInBatch == \A x \in Entries : Copies(batch, x) <= 1
==============================================================================
