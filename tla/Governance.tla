----------------------------- MODULE Governance -----------------------------
(***************************************************************************)
(* Chain parameters and proposals on one node: ChainParameterSet and its    *)
(* two-epoch timelock (tx.rs 296-335, chain.rs 3934-3951), proposals, votes *)
(* and their finalisation at the epoch seal (chain.rs 3017-3143,            *)
(* 3897-3930).                                                              *)
(*                                                                         *)
(* A vote runs under write_lock in three writes to the store; the drains of *)
(* the seal handler take no lock.  When Concurrent, a vote of the HTTP API  *)
(* may be half way when the handler runs.  The handler sees the epochs that *)
(* reach a quorum of seals, in the order in which they do: some may be      *)
(* skipped, lagged over (main.rs 751) or come after later ones.             *)
(***************************************************************************)
EXTENDS Integers, FiniteSets

CONSTANTS
    Accounts, Founders,     \* Founders: the council seeded at genesis
    Stakers,                \* accounts with stake, which may vote
    Keys, RateLimited,      \* parameters; those whose name ends in _min_stake
    CouncilKey,             \* "governance_keys"
    Initial,                \* the value every parameter starts with
    Changes,                \* the [key, value] pairs somebody asks for
    Ids, Motions,           \* proposal ids; motions [action, key, value] somebody proposes
    CapBps,                 \* stake_increase_cap_bps
    Timelock,               \* 2 epochs
    MaxEpoch,               \* bound on the epochs
    MaxChanges,             \* bound on the parameter changes submitted
    Concurrent, None

ASSUME EpochsNat == Timelock \in Nat /\ MaxEpoch \in Nat
ASSUME CapNat == CapBps \in Nat /\ Initial \in Nat
ASSUME CouncilAccounts == Founders \subseteq Accounts /\ Stakers \subseteq Accounts
ASSUME KeysDisjoint == CouncilKey \notin Keys /\ RateLimited \subseteq Keys

VARIABLES
    cur,        \* Chain::current_epoch
    sealing,    \* the epoch the seal handler works on, or worked on last
    handled,    \* the epochs it has worked on
    phase,      \* where it is: idle, pool, params, proposals
    params,     \* chain_param:{key}
    council,    \* chain_param:governance_keys
    pending,    \* pending_param:{release}:{key}: records [release, key, value, missed];
                \* missed: the seal of that epoch was over when the record was written
    due,        \* records that drain_pending_params has read and not applied
    submitted,  \* number of parameter changes submitted
    proposals,  \* governance:proposal:{id}, or None
    votes,      \* governance:vote:{id}:{voter}: "yes", "no" or None
    inflight,   \* the vote that holds write_lock: what it has read and done, or None
    scan,       \* tallies that drain_governance_proposals has read and not finalised
    peak        \* highest value each parameter has had

vars == <<cur, sealing, handled, phase, params, council, pending, due, submitted, proposals,
          votes, inflight, scan, peak>>

govVars  == <<proposals, votes, inflight, scan>>
sealVars == <<cur, sealing, handled, phase, due>>

Epochs == 1..MaxEpoch
Releases == 0..(MaxEpoch + Timelock)

TypeOK ==
    /\ cur \in 0..MaxEpoch /\ sealing \in 0..cur /\ handled \subseteq 1..cur
    /\ phase \in {"idle", "pool", "params", "proposals"}
    /\ params \in [Keys -> Nat] /\ council \subseteq Accounts
    /\ \A p \in pending : /\ p.release \in Releases
                          /\ [key |-> p.key, value |-> p.value] \in Changes
                          /\ p.missed \in BOOLEAN
    /\ due \subseteq {p \in pending : p.release = sealing}
    /\ \A p, q \in pending : p.release = q.release /\ p.key = q.key => p = q
    /\ submitted \in 0..MaxChanges
    /\ \A i \in Ids : proposals[i] # None =>
          /\ proposals[i].motion \in Motions
          /\ proposals[i].yes \in 0..Cardinality(Stakers)
          /\ proposals[i].no \in 0..Cardinality(Stakers)
          /\ proposals[i].status \in {"open", "passed", "rejected", "no_quorum"}
    /\ votes \in [Ids -> [Accounts -> {"yes", "no", None}]]
    /\ peak \in [Keys -> Nat]

Init ==
    /\ cur = 0 /\ sealing = 0 /\ handled = {} /\ phase = "idle"
    /\ params = [k \in Keys |-> Initial] /\ council = Founders
    /\ pending = {} /\ due = {} /\ submitted = 0
    /\ proposals = [i \in Ids |-> None] /\ votes = [i \in Ids |-> [a \in Accounts |-> None]]
    /\ inflight = None /\ scan = {}
    /\ peak = [k \in Keys |-> Initial]

------------------------------------------------------------------------------
(* Parameters *)

\* The epoch in an entry: the API stamps the current one and then applies the entry; a
\* gossiped one names any epoch (entry_epoch has none for these entries, so it is not
\* compared with the chain's) and is applied by the seal handler.
EntryEpoch(e) == e <= cur \/ phase = "pool"

MaxAllowed(current) == current + (current * CapBps) \div 10000

\* Mutant: the rate limit is forgotten.
AnyChange(change) == TRUE

\* The rate limit looks at the value in force when the change is submitted.
WithinRate(change) ==
    change.key \in RateLimited => change.value <= MaxAllowed(params[change.key])

Due(epoch) == epoch + Timelock

\* Has the seal of this epoch read its pending records?
Over(epoch) == epoch \in handled /\ ~(epoch = sealing /\ phase = "pool")

\* A record under the same release epoch and key is replaced.
Queued(record) ==
    {p \in pending : p.release # record.release \/ p.key # record.key} \cup {record}

\* ChainParameterSet changes nothing yet: it queues the change.
ChainParameterSet(by, change, epoch) ==
    /\ submitted < MaxChanges /\ submitted' = submitted + 1
    /\ EntryEpoch(epoch)
    /\ by \in council /\ WithinRate(change)
    /\ pending' = Queued([release |-> Due(epoch), key |-> change.key, value |-> change.value,
                          missed |-> Over(Due(epoch))])
    /\ UNCHANGED <<sealVars, params, council, peak, govVars>>

SetChainParam(key, value) ==
    IF key = CouncilKey
    THEN council' = value /\ UNCHANGED <<params, peak>>
    ELSE /\ params' = [params EXCEPT ![key] = value] /\ UNCHANGED council
         /\ peak' = [peak EXCEPT ![key] = IF value > @ THEN value ELSE @]

\* Mutant: the records of the chain's epoch are read, not those of the sealed one.
DueAtTip == {p \in pending : p.release = cur}
\* drain_pending_params reads the records of this very epoch ...
DueNow == {p \in pending : p.release = sealing}

\* ... and applies each, and deletes what is under its key.
DrainParam(p) ==
    /\ phase = "params" /\ p \in due /\ due' = due \ {p}
    /\ SetChainParam(p.key, p.value)
    /\ pending' = {q \in pending : q.release # p.release \/ q.key # p.key}
    /\ UNCHANGED <<cur, sealing, handled, phase, submitted, govVars>>
------------------------------------------------------------------------------
(* Proposals *)

GovernancePropose(proposer, id, motion, ends) ==
    /\ inflight = None
    /\ proposer \in council /\ proposals[id] = None
    /\ proposals' = [proposals EXCEPT ![id] =
          [motion |-> motion, ends |-> ends, yes |-> 0, no |-> 0, status |-> "open"]]
    /\ UNCHANGED <<sealVars, params, council, pending, submitted, peak, votes, inflight, scan>>

\* Mutant: the earlier vote is not looked at.
VotableAgain(id, voter, epoch) ==
    proposals[id] # None /\ proposals[id].status = "open" /\ voter \in Stakers

Votable(id, voter, epoch) ==
    /\ proposals[id] # None /\ proposals[id].status = "open"
    /\ epoch <= proposals[id].ends
    /\ voter \in Stakers
    /\ votes[id][voter] = None

\* GovernanceVote takes write_lock and reads the proposal ...
VoteRead(voter, id, choice, epoch, gossiped) ==
    /\ inflight = None /\ EntryEpoch(epoch)
    /\ IF gossiped THEN phase = "pool" ELSE epoch <= cur
    /\ Concurrent \/ phase \in {"idle", "pool"}
    /\ Votable(id, voter, epoch)
    /\ inflight' = [voter |-> voter, id |-> id, choice |-> choice, read |-> proposals[id],
                    recorded |-> FALSE, gossiped |-> gossiped]
    /\ UNCHANGED <<sealVars, params, council, pending, submitted, peak, proposals, votes, scan>>

\* ... writes the vote ...
VoteRecord ==
    /\ inflight # None /\ ~inflight.recorded
    /\ votes' = [votes EXCEPT ![inflight.id][inflight.voter] = inflight.choice]
    /\ inflight' = [inflight EXCEPT !.recorded = TRUE]
    /\ UNCHANGED <<sealVars, params, council, pending, submitted, peak, proposals, scan>>

Counted(p, choice) ==
    IF choice = "yes" THEN [p EXCEPT !.yes = @ + 1] ELSE [p EXCEPT !.no = @ + 1]

\* ... and then the proposal it has read, with one vote more.
VoteCount ==
    /\ inflight # None /\ inflight.recorded
    /\ proposals' = [proposals EXCEPT ![inflight.id] = Counted(inflight.read, inflight.choice)]
    /\ inflight' = None
    /\ UNCHANGED <<sealVars, params, council, pending, submitted, peak, votes, scan>>

\* Mutant: a tie carries the motion.
OutcomeOnTie(yes, no) ==
    IF yes + no < 2 THEN "no_quorum" ELSE IF yes >= no THEN "passed" ELSE "rejected"

Outcome(yes, no) ==
    IF yes + no < 2 THEN "no_quorum" ELSE IF yes > no THEN "passed" ELSE "rejected"

Execute(motion) ==
    CASE motion.action = "param_set" -> SetChainParam(motion.key, motion.value)
      [] motion.action = "council_add" -> SetChainParam(CouncilKey, council \cup {motion.key})
      [] motion.action = "council_remove" -> SetChainParam(CouncilKey, council \ {motion.key})
      [] OTHER -> UNCHANGED <<params, council, peak>>

\* GovernanceFinalize of one tally: refused unless the proposal is still open.
GovernanceFinalize(t) ==
    /\ phase = "proposals" /\ t \in scan
    /\ scan' = scan \ {t}
    /\ IF proposals[t.id].status # "open"
       THEN UNCHANGED <<proposals, params, council, peak>>
       ELSE LET outcome == Outcome(t.yes, t.no) IN
            /\ proposals' = [proposals EXCEPT ![t.id].status = outcome,
                                              ![t.id].yes = t.yes, ![t.id].no = t.no]
            /\ IF outcome = "passed"
               THEN Execute(proposals[t.id].motion)
               ELSE UNCHANGED <<params, council, peak>>
    /\ UNCHANGED <<sealVars, pending, submitted, votes, inflight>>
------------------------------------------------------------------------------
(* The seal handler *)

\* EpochSeal of a sealed epoch, the next or another; the pool is applied first.
SealStart(e) ==
    /\ phase = "idle" /\ e \notin handled
    /\ Concurrent \/ inflight = None
    /\ cur' = (IF e > cur THEN e ELSE cur)
    /\ sealing' = e /\ handled' = handled \cup {e} /\ phase' = "pool"
    /\ UNCHANGED <<params, council, pending, due, submitted, peak, govVars>>

PoolApplied ==
    /\ phase = "pool" /\ (inflight # None => Concurrent /\ ~inflight.gossiped)
    /\ phase' = "params" /\ due' = DueNow
    /\ UNCHANGED <<cur, sealing, handled, params, council, pending, submitted, peak, govVars>>

\* Mutant: only a window that ends in this very epoch is closed.
ClosedExactly(p) == p # None /\ p.status = "open" /\ sealing = p.ends

Closed(p) == p # None /\ p.status = "open" /\ sealing > p.ends

\* drain_governance_proposals reads every tally before it finalises the first.
ScanProposals ==
    /\ phase = "params" /\ due = {}
    /\ phase' = "proposals"
    /\ scan' = {[id |-> i, yes |-> proposals[i].yes, no |-> proposals[i].no] :
                  i \in {j \in Ids : Closed(proposals[j])}}
    /\ UNCHANGED <<cur, sealing, handled, params, council, pending, due, submitted, peak,
                   proposals, votes, inflight>>

SealEnd ==
    /\ phase = "proposals" /\ scan = {}
    /\ phase' = "idle"
    /\ UNCHANGED <<cur, sealing, handled, params, council, pending, due, submitted, peak,
                   govVars>>

Seal == \/ \E e \in Epochs : SealStart(e)
        \/ PoolApplied \/ (\E p \in due : DrainParam(p)) \/ ScanProposals
        \/ (\E t \in scan : GovernanceFinalize(t)) \/ SealEnd
Vote == VoteRecord \/ VoteCount

Next ==
    \/ \E a \in Accounts, c \in Changes, e \in 0..MaxEpoch : ChainParameterSet(a, c, e)
    \/ \E a \in Accounts, i \in Ids, m \in Motions, n \in 0..MaxEpoch :
          GovernancePropose(a, i, m, n)
    \/ \E a \in Accounts, i \in Ids, c \in {"yes", "no"}, e \in 0..MaxEpoch, g \in BOOLEAN :
          VoteRead(a, i, c, e, g)
    \/ Vote
    \/ Seal

Spec == Init /\ [][Next]_vars

\* The clock keeps sealing epochs and a request that holds the lock finishes.
FairSpec == Spec /\ WF_vars(Seal) /\ WF_vars(Vote)
------------------------------------------------------------------------------
(* What holds *)

VotersFor(i, choice) == {a \in Accounts : votes[i][a] = choice}

\* The outcome of a closed proposal is that of the votes on record: at least two,
\* and more for it than against (chain.rs 3895 "Passes if yes > no and total
\* votes >= 2"), however votes, proposals and seals follow each other.
OutcomeIsMajority ==
    \A i \in Ids : proposals[i] # None /\ proposals[i].status # "open" =>
        LET yes == Cardinality(VotersFor(i, "yes"))
            no  == Cardinality(VotersFor(i, "no"))
        IN  proposals[i].status = "passed" <=> yes > no /\ yes + no >= 2

\* A vote on record is neither changed nor withdrawn, even when votes race the seal
\* handler (chain.rs 3069 "Idempotency: reject double-votes").
VotesFinal ==
    [][\A i \in Ids, a \in Accounts : votes[i][a] # None => votes'[i][a] = votes[i][a]]_vars

\* A timelocked change is applied by the seal of its release epoch, whatever epochs are
\* skipped or sealed out of order and whatever is submitted meanwhile: a change that
\* waits for an epoch already handled was written when that seal had read its records.
HandledApplied ==
    \A p \in pending : Over(p.release) /\ ~(p.release = sealing /\ phase = "params") => p.missed

\* A timelocked change never takes a rate-limited parameter past the cap over the
\* highest value it has had (tx.rs 305-306).
GrowthBounded ==
    [][\A p \in due : DrainParam(p) /\ p.key \in RateLimited =>
          params'[p.key] <= MaxAllowed(peak[p.key])]_vars

\* Every proposal is decided if an epoch after its window is still to be sealed, the one
\* after it or any later one.
WindowCloses ==
    \A i \in Ids :
        (proposals[i] # None /\ \E e \in Epochs \ handled : e > proposals[i].ends)
            ~> (proposals[i] # None /\ proposals[i].status # "open")

------------------------------------------------------------------------------
(* What the comments claim *)

\* chain.rs 3932: "Apply any governance parameter changes whose 2-epoch timelock has
\* expired": between seals, no change that is due is left waiting.
DueIsApplied == phase = "idle" => \A p \in pending : p.release > cur

\* chain.rs 3095 "already finalized": a decided proposal is never decided again.
ClosedStaysClosed ==
    [][\A i \in Ids : proposals[i] # None /\ proposals[i].status # "open" =>
          proposals'[i] = proposals[i]]_vars

\* tx.rs 305: "Rate-limit stake minimums: new value may not exceed current *
\* (1 + cap_bps/10000)": no step raises a stake minimum by more.
RiseCapped == [][\A k \in RateLimited : params'[k] <= MaxAllowed(params[k])]_vars
=============================================================================
