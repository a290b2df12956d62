-------------------------- MODULE InferenceMarket --------------------------
(***************************************************************************)
(* The inference job market of one node: the entries of inference.rs as     *)
(* tx.rs admits them, and the daemon of inference_daemon.rs, which passes   *)
(* over the jobs once per epoch in six phases.                              *)
(*                                                                         *)
(* A handler reads the job, moves money and reputation, and writes the job  *)
(* back last.  That last write is a step of its own: pending holds it.      *)
(* Without overlap it lands, or is lost in a crash, before anything else    *)
(* happens.  With overlap others run in between, as they may in the code:   *)
(* the daemon, Complete, Commit, Verify and ReviewVote take no lock.  A     *)
(* race is a handler that writes a job while another write of it is to      *)
(* come: raced counts them.                                                 *)
(*                                                                         *)
(* Left out: records that only other components read (mine_queue,           *)
(* infer_verify, fee_flow, prune_ready), hashes, signatures and nonces, and *)
(* the two checks compiled out (INFERENCE_COMMIT_REVEAL_ENABLED and         *)
(* VERIFIER_ASSIGNMENT_ENABLED are false).                                  *)
(***************************************************************************)
EXTENDS Integers, FiniteSets, FiniteSetsExt

CONSTANTS
    Accounts,                       \* a set of positive numbers, ordered as their names
    Jobs, Requesters,
    Fees, MinReps, Latencies, Terms,    \* what entries may ask for
    BidWindow, ClaimWindow, ReviewVotes, Grace, StaleWindow,
    MinVerdicts, ApprovalWindow, SuspendEpochs,
    Late,                           \* how many epochs after its own an entry may be applied
    LastPost, LastEntry, MaxEpoch,  \* bounds: last epoch of a post, of any entry, of the clock
    Balance0, Stake0, Fund0,        \* what everybody, and the recycle fund, start with
    Limits          \* [bidders, board, committers, reviewers, sizes, overlap, crashes]: who takes
                    \* part, sizes of the board, whether handlers overlap, how many crashes

ASSUME PeopleAreAccounts ==
    /\ Accounts \subseteq Nat \ {0}
    /\ Requesters \subseteq Accounts
    /\ \A l \in Limits :
          l.bidders \cup l.board \cup l.committers \cup l.reviewers \subseteq Accounts
ASSUME AmountsNat == /\ Fees \subseteq Nat \ {0} /\ Balance0 \in Nat /\ Stake0 \in Nat
                     /\ Fund0 \in Nat
                     /\ \A l \in Limits : l.crashes \in Nat /\ l.overlap \in BOOLEAN
ASSUME EpochsNat == /\ MaxEpoch \in Nat /\ LastEntry \in Nat /\ LastPost \in Nat
                    /\ Late \in Nat /\ Terms \subseteq Nat /\ BidWindow \in Nat

NoOne == 0
ASSUME NoOneIsNoJob == NoOne \notin Jobs

VARIABLES
    limit,      \* the bounds of this behaviour
    cur,        \* Chain::current_epoch
    job,        \* infer_job:{id}
    bids,       \* infer_bid:{id}:{bidder}: a set of [bidder, fee, role] per job
    votes,      \* infer_votes:{id}: a set of <<reviewer, approved>> per job
    rep,        \* node_rep:{node}
    vrep,       \* verifier_rep:{verifier}
    balance, stake, fund,   \* fund: the balance of RECYCLE_FUND_ACCOUNT
    daemon,     \* [phase, at, todo]: where process_epoch is, its epoch, what its scan returned
    pending,    \* the last write of the handler that is running, or NoWrite
    crashes,
    raced,      \* history: how often a job was written while another write of it was to come
    taken, given,           \* history: how often the deposit of a job came in, went out
    earned, kept            \* history: what its worker got, what the fund may keep

vars == <<limit, cur, job, bids, votes, rep, vrep, balance, stake, fund, daemon, pending,
          crashes, raced, taken, given, earned, kept>>
money   == <<balance, stake, fund, taken, given, earned, kept>>
people  == <<rep, vrep>>
offers  == <<bids, votes>>

NoJob == [status |-> "None"]
NoWrite == [id |-> NoOne, record |-> NoJob, owner |-> "none", tally |-> <<>>]
Statuses == {"Posted", "Awarded", "Completed", "Verified", "Disputed", "Claimed",
             "Reviewed", "Rejected", "Paid", "Cancelled"}
Settled == {"Paid", "Cancelled"}
Verdicts == {"approved", "rejected", "review_required"}

LOCAL AtMost(m, n) == IF m < n THEN m ELSE n
LOCAL AtLeast(m, n) == IF m > n THEN m ELSE n
LOCAL Total(f) == MapThenSumSet(LAMBDA a : f[a], DOMAIN f)

(* A new node, and a verifier without a verdict. *)
NewRep == [accepted |-> 0, completed |-> 0, failed |-> 0, latency |-> 0]
NewVerifier == [total |-> 0, approved |-> 0, halved |-> FALSE, until |-> 0]

Init ==
    /\ limit \in Limits /\ cur = 0
    /\ job = [j \in Jobs |-> NoJob]
    /\ bids = [j \in Jobs |-> {}] /\ votes = [j \in Jobs |-> {}]
    /\ rep = [a \in Accounts |-> NewRep] /\ vrep = [a \in Accounts |-> NewVerifier]
    /\ balance = [a \in Accounts |-> Balance0] /\ stake = [a \in Accounts |-> Stake0]
    /\ fund = Fund0
    /\ daemon = [phase |-> "idle", at |-> 0, todo |-> {}]
    /\ pending = NoWrite /\ crashes = 0 /\ raced = 0
    /\ taken = [j \in Jobs |-> 0] /\ given = [j \in Jobs |-> 0]
    /\ earned = [j \in Jobs |-> 0] /\ kept = 0

------------------------------------------------------------------------------
(* The score of a node, and the share of approvals of a verifier. *)

Score(r) ==
    IF r.accepted = 0 THEN 5000
    ELSE LET completion == (r.completed * 100) \div r.accepted
             average == IF r.completed = 0 THEN 5000 ELSE r.latency \div r.completed
             speed == AtMost(5000 \div AtLeast(average, 50), 100)
         IN AtMost(completion * (50 + speed), 10000)

\* A leaky bucket: once ApprovalWindow verdicts are in, each verdict pushes out one
\* that is taken for an approval.
Approval(v, ok) ==
    LET growing == v.total < ApprovalWindow
        total == IF growing THEN v.total + 1 ELSE v.total
        approved == IF growing THEN v.approved + (IF ok THEN 1 ELSE 0)
                    ELSE IF ok THEN v.approved ELSE AtLeast(v.approved - 1, 0)
        bps == (approved * 10000) \div total
        judged == total >= MinVerdicts
    IN [total |-> total, approved |-> approved,
        halved |-> judged /\ bps >= 9500,
        until |-> IF judged /\ bps >= 9900 THEN AtLeast(v.until, total + SuspendEpochs)
                  ELSE v.until]

------------------------------------------------------------------------------
(* The verdict of a board: a set of <<verifier, verdict>>. *)

Voted(board, verdict) == {b \in board : b[2] = verdict}

\* Mutant: one vote fewer to come.
RemainingLess(board, size) == AtLeast(size - Cardinality(board) - 1, 0)
Remaining(board, size) == AtLeast(size - Cardinality(board), 0)

\* review_required weighs one more than the others, so that it wins every tie.  A
\* verdict that the missing votes cannot overtake stands at once.
ResolveQuorum(board, size) ==
    LET Weight(v) == Cardinality(Voted(board, v)) * (IF v = "review_required" THEN 101 ELSE 100)
        swing == 101 * Remaining(board, size)
        Unbeatable(v) == \A w \in Verdicts \ {v} : Weight(v) > Weight(w) + swing
        Leads(v) == \A w \in Verdicts : Weight(v) >= Weight(w)
    IN CASE \E v \in Verdicts : Unbeatable(v) -> CHOOSE v \in Verdicts : Unbeatable(v)
         [] Cardinality(board) < size         -> "none"
         [] Leads("review_required")          -> "review_required"
         [] OTHER -> IF Weight("approved") >= Weight("rejected") THEN "approved" ELSE "rejected"

------------------------------------------------------------------------------
(* How a handler ends. *)

\* Whether a handler may start: the ones that take write_lock exclude each other, and the
\* daemon is one task.
Free(owner) ==
    \/ pending = NoWrite
    \/ limit.overlap /\ ~(owner \in {"lock", "daemon"} /\ pending.owner = owner)

Breaks == limit.overlap \/ crashes < limit.crashes

\* Its last write, set_job, is still to come where something can come in between; a
\* handler that runs inside another's does it all.
Save(j, record, owner, tally) ==
    LET write == [id |-> j, record |-> record, owner |-> owner, tally |-> tally]
    IN /\ IF pending = NoWrite /\ Breaks
          THEN pending' = write /\ UNCHANGED job
          ELSE job' = [job EXCEPT ![j] = record] /\ UNCHANGED pending
       /\ raced' = IF pending.id = j THEN raced + 1 ELSE raced

SaveJob(j, record, owner) == Save(j, record, owner, <<>>)

\* apply_verify counts its verdict after set_job.
Tallied(tally) ==
    IF tally = <<>> THEN vrep ELSE [vrep EXCEPT ![tally[1]] = Approval(@, tally[2])]

\* The write reaches the store.
Land ==
    /\ pending # NoWrite
    /\ job' = [job EXCEPT ![pending.id] = pending.record]
    /\ vrep' = Tallied(pending.tally)
    /\ pending' = NoWrite
    /\ UNCHANGED <<limit, cur, offers, rep, money, daemon, crashes, raced>>

\* The process stops before the write; the daemon starts over with the current epoch.
\* Stopping where no write is under way only makes the daemon pass once more.
Crash ==
    /\ pending # NoWrite /\ crashes < limit.crashes
    /\ crashes' = crashes + 1
    /\ pending' = NoWrite
    /\ daemon' = [phase |-> "idle", at |-> 0, todo |-> {}]
    /\ UNCHANGED <<limit, cur, job, offers, people, money, raced>>

------------------------------------------------------------------------------
(* Entries of users. *)

\* An entry carries its author's epoch, which may lie Late epochs back.
Entry(e, owner) ==
    /\ cur <= LastEntry /\ Free(owner)
    /\ e \in 0..cur /\ cur <= e + Late

Post(j, r, e, fee, term, minrep, size) ==
    /\ Entry(e, "lock") /\ e <= LastPost
    /\ job[j] = NoJob
    /\ balance[r] >= fee
    /\ balance' = [balance EXCEPT ![r] = @ - fee]
    /\ fund' = fund + fee
    /\ taken' = [taken EXCEPT ![j] = @ + 1]
    /\ SaveJob(j, [status |-> "Posted", requester |-> r, max |-> fee, minrep |-> minrep,
                   posted |-> e, deadline |-> e + term, winner |-> NoOne, fee |-> 0,
                   verifiers |-> {}, latency |-> 0, disputed |-> 0, board |-> {},
                   commits |-> {}, size |-> size], "lock")
    /\ UNCHANGED <<limit, cur, offers, people, stake, given, earned, kept, daemon, crashes>>

Bid(j, b, fee, role, e) ==
    /\ Entry(e, "lock")
    /\ job[j].status = "Posted"
    /\ cur < job[j].posted + BidWindow
    /\ b # job[j].requester
    /\ fee <= job[j].max
    /\ Score(rep[b]) >= job[j].minrep
    /\ \A o \in bids[j] : o.bidder # b
    /\ bids' = [bids EXCEPT ![j] = @ \cup {[bidder |-> b, fee |-> fee, role |-> role]}]
    /\ UNCHANGED <<limit, cur, job, votes, people, money, daemon, pending, crashes, raced>>

Complete(j, w, latency, e) ==
    /\ Entry(e, "open")
    /\ job[j].status = "Awarded" /\ job[j].winner = w
    /\ cur <= job[j].deadline + StaleWindow
    /\ rep' = [rep EXCEPT ![w].completed = @ + 1, ![w].latency = @ + latency]
    /\ SaveJob(j, [job[j] EXCEPT !.status = "Completed", !.latency = latency], "open")
    /\ UNCHANGED <<limit, cur, offers, vrep, money, daemon, crashes>>

Assigned(v, j) == job[j].verifiers = {} \/ v \in job[j].verifiers

Commit(j, v, e) ==
    /\ Entry(e, "open")
    /\ job[j].status = "Completed"
    /\ v \notin job[j].commits /\ Assigned(v, j)
    /\ SaveJob(j, [job[j] EXCEPT !.commits = @ \cup {v}], "open")
    /\ UNCHANGED <<limit, cur, offers, people, money, daemon, crashes>>

\* The job after a verdict: decided when the board is.
Judged(record, e) ==
    LET verdict == ResolveQuorum(record.board, record.size)
    IN CASE verdict = "approved" -> [record EXCEPT !.status = "Verified"]
         [] verdict = "rejected" -> [record EXCEPT !.status = "Rejected"]
         [] verdict = "review_required" ->
               [record EXCEPT !.status = "Disputed", !.disputed = e]
         [] OTHER -> record

Verify(j, v, verdict, e) ==
    /\ Entry(e, "open")
    /\ job[j].status = "Completed" /\ job[j].winner # v
    /\ vrep[v].until <= e
    /\ Assigned(v, j)
    /\ \A b \in job[j].board : b[1] # v
    /\ LET record == Judged([job[j] EXCEPT !.board = @ \cup {<<v, verdict>>}], e)
           tally == <<v, verdict = "approved">>
       IN /\ rep' = IF record.status = "Rejected"
                    THEN [rep EXCEPT ![job[j].winner].failed = @ + 1] ELSE rep
          /\ vrep' = IF pending = NoWrite /\ Breaks THEN vrep ELSE Tallied(tally)
          /\ Save(j, record, "open", tally)
    /\ UNCHANGED <<limit, cur, offers, money, daemon, crashes>>

Claim(j, a, e) ==
    /\ Entry(e, "lock")
    /\ job[j].status = "Disputed"
    /\ a \in {job[j].winner, job[j].requester}
    /\ e <= job[j].disputed + ClaimWindow
    /\ SaveJob(j, [job[j] EXCEPT !.status = "Claimed"], "lock")
    /\ UNCHANGED <<limit, cur, offers, people, money, daemon, crashes>>

ReviewVote(j, r, approved, e) ==
    /\ Entry(e, "open")
    /\ job[j].status = "Claimed"
    /\ \A v \in votes[j] : v[1] # r
    /\ LET cast == votes[j] \cup {<<r, approved>>}
           yes == Cardinality({v \in cast : v[2]})
           no == Cardinality(cast) - yes
       IN /\ votes' = [votes EXCEPT ![j] = cast]
          /\ IF Cardinality(cast) >= ReviewVotes
             THEN SaveJob(j, [job[j] EXCEPT !.status =
                                IF yes > no THEN "Reviewed" ELSE "Rejected"], "open")
             ELSE UNCHANGED <<job, pending, raced>>
    /\ UNCHANGED <<limit, cur, bids, people, money, daemon, crashes>>

\* apply_cancel once it is allowed: the deposit goes back.
Refund(j, owner) ==
    /\ fund >= job[j].max
    /\ fund' = fund - job[j].max
    /\ balance' = [balance EXCEPT ![job[j].requester] = @ + job[j].max]
    /\ given' = [given EXCEPT ![j] = @ + 1]
    /\ rep' = IF job[j].winner = NoOne THEN rep
              ELSE [rep EXCEPT ![job[j].winner].failed = @ + 1]
    /\ SaveJob(j, [job[j] EXCEPT !.status = "Cancelled"], owner)
    /\ UNCHANGED <<stake, taken, earned, kept>>

\* A requester may cancel until the job is awarded.
Cancel(j, e) ==
    /\ Entry(e, "lock")
    /\ job[j].status = "Posted"
    /\ Refund(j, "lock")
    /\ UNCHANGED <<limit, cur, offers, vrep, daemon, crashes>>

------------------------------------------------------------------------------
(* Payments. *)

\* How a fee is cut, in basis points, and the verdict that earns the verifiers' part.
HappyCut    == [worker |-> 8000, verifier |-> 1500, reviewer |-> 0, keep |-> 500,
                verdict |-> "approved"]
\* Mutant: the reviewers' part is added and the others stay as they are.
DisputedCutUnreduced == [worker |-> 8000, verifier |-> 1500, reviewer |-> 1500, keep |-> 500,
                         verdict |-> "review_required"]
DisputedCut == [worker |-> 7000, verifier |-> 1000, reviewer |-> 1500, keep |-> 500,
                verdict |-> "review_required"]
\* Mutant: a worker who lost is paid.
NoFeeCutPaysWorker == [worker |-> 7000, verifier |-> 1000, reviewer |-> 1500, keep |-> 500,
                       verdict |-> "rejected"]
NoFeeCut    == [worker |-> 0, verifier |-> 1000, reviewer |-> 1500, keep |-> 500,
                verdict |-> "rejected"]

\* The entry InferenceJobPay built from what a scan returned.
Payment(record, cut, reviewers) ==
    LET Part(bps) == (record.fee * bps) \div 10000
        voters == {b[1] : b \in record.board}
        right == IF voters = {} THEN record.verifiers
                 ELSE {b[1] : b \in Voted(record.board, cut.verdict)}
        wrong == voters \ right
        weight == [a \in right |-> IF vrep[a].halved THEN 50 ELSE 100]
        share == [a \in right |->
                    (Part(cut.verifier) * weight[a]) \div AtLeast(Total(weight), 1)]
        review == [a \in reviewers |->
                    Part(cut.reviewer) \div AtLeast(Cardinality(reviewers), 1)]
        paid == Part(cut.worker) + Total(share) + Total(review) + Part(cut.keep)
    IN [to |-> record.winner, worker |-> Part(cut.worker), verifiers |-> share,
        reviewers |-> review, keep |-> Part(cut.keep),
        refund |-> AtLeast(record.max - paid, 0),
        slash |-> [a \in wrong |->
                     Part(cut.verifier) \div AtLeast(Cardinality(right \cup wrong), 1)]]

TotalOut(p) == p.worker + Total(p.verifiers) + Total(p.reviewers) + p.keep + p.refund

\* Mutant: jobs without a verdict are not payable.
PayableIfJudged == {"Verified", "Reviewed", "Rejected"}
Payable == {"Verified", "Reviewed", "Rejected", "Completed"}

PayAllowed(j, p) == job[j].status \in Payable /\ fund >= TotalOut(p)

\* apply_pay: out of the fund, to everybody; dissenters lose stake to the fund.
Pay(j, p) ==
    LET At(f, a) == IF a \in DOMAIN f THEN f[a] ELSE 0
        lost == [a \in Accounts |-> AtMost(At(p.slash, a), stake[a])]
    IN /\ balance' = [a \in Accounts |->
             balance[a] + At(p.verifiers, a) + At(p.reviewers, a)
               + (IF a = p.to THEN p.worker ELSE 0)
               + (IF a = job[j].requester THEN p.refund ELSE 0)]
       /\ stake' = [a \in Accounts |-> stake[a] - lost[a]]
       /\ fund' = fund - TotalOut(p) + p.keep + Total(lost)
       /\ kept' = kept + p.keep + Total(lost)
       /\ given' = [given EXCEPT ![j] = @ + 1]
       /\ earned' = [earned EXCEPT ![j] = @ + p.worker]
       /\ SaveJob(j, [job[j] EXCEPT !.status = "Paid"], "daemon")
       /\ UNCHANGED <<taken, rep>>

------------------------------------------------------------------------------
(* The daemon. *)

Phases == <<"award", "claims", "deadline", "verified", "disputes", "settle">>

\* What a phase looks for at epoch e.
Due(phase, r, e) ==
    CASE phase = "award"    -> r.status = "Posted" /\ e >= r.posted + BidWindow
      [] phase = "claims"   -> r.status = "Disputed" /\ e > r.disputed + ClaimWindow
      [] phase = "deadline" -> r.status \in {"Posted", "Awarded"} /\ e > r.deadline
      [] phase = "verified" -> r.status = "Verified"
      [] phase = "disputes" -> r.status \in {"Reviewed", "Rejected"}
      [] phase = "settle"   -> /\ r.status = "Completed" /\ r.verifiers = {}
                               /\ e >= r.deadline + Grace

Scan(phase, e) ==
    {[id |-> j, record |-> job[j]] :
        j \in {i \in Jobs : job[i] # NoJob /\ Due(phase, job[i], e)}}

\* The first phase from the n-th on that finds something.  A phase that finds nothing is
\* passed over at once: no status is due in two phases, so what lands meanwhile might
\* as well have landed before, or after.
From(n, e) ==
    LET busy == {i \in n..6 : Scan(Phases[i], e) # {}}
        i == Min(busy)
    IN IF busy = {} THEN [phase |-> "idle", at |-> e, todo |-> {}]
       ELSE [phase |-> Phases[i], at |-> e, todo |-> Scan(Phases[i], e)]

Wake ==
    /\ Free("daemon")
    /\ daemon.phase = "idle" /\ cur > daemon.at
    /\ daemon' = From(1, cur)
    /\ UNCHANGED <<limit, cur, job, offers, people, money, pending, crashes, raced>>

NextPhase ==
    /\ Free("daemon")
    /\ daemon.phase # "idle" /\ daemon.todo = {}
    /\ \E n \in 1..6 : Phases[n] = daemon.phase /\ daemon' = From(n + 1, daemon.at)
    /\ UNCHANGED <<limit, cur, job, offers, people, money, pending, crashes, raced>>

\* Takes s, a job the scan returned, off the list.
Handle(phase, s) ==
    /\ Free("daemon")
    /\ daemon.phase = phase
    /\ daemon' = [daemon EXCEPT !.todo = @ \ {s}]
    /\ UNCHANGED <<limit, cur, offers, vrep, crashes>>

\* The entry is refused; the daemon only logs it.
Refused == UNCHANGED <<job, pending, raced, rep, money>>

DaemonPay(phase, s, payment) ==
    /\ Handle(phase, s)
    /\ \E p \in {payment} : IF PayAllowed(s.id, p) THEN Pay(s.id, p) ELSE Refused

\* Mutant: the status the scan saw is relied on.
SystemCancelAgain(j) == IF fund >= job[j].max THEN Refund(j, "daemon") ELSE Refused
SystemCancel(j) ==
    IF job[j].status \in {"Posted", "Awarded"} /\ fund >= job[j].max
    THEN Refund(j, "daemon") ELSE Refused

\* Rust's max_by_key: of equal bids the last, in the order of the keys, wins.
Best(offered) ==
    LET Value(o) == (Score(rep[o.bidder]) * 10000) \div AtLeast(o.fee, 1)
    IN CHOOSE o \in offered : \A p \in offered :
          \/ Value(o) > Value(p)
          \/ Value(o) = Value(p) /\ o.bidder >= p.bidder

\* apply_award of verifiers, which a job takes only while it is Posted.
WithVerifiers(record, verifiers) ==
    IF record.status = "Posted" THEN [record EXCEPT !.verifiers = @ \cup verifiers] ELSE record

\* The worker first, then the first three verifiers who bid.
Awarded(record, best, verifiers) ==
    WithVerifiers([record EXCEPT !.status = "Awarded", !.winner = best.bidder,
                                 !.fee = best.fee],
                  {v \in verifiers : Cardinality({w \in verifiers : w < v}) < 3})

AwardJob(s) ==
    LET j == s.id
        workers == {o \in bids[j] : o.role = "worker"}
        verifiers == {o.bidder : o \in bids[j] \ workers}
        record == Awarded(job[j], Best(workers), verifiers)
    IN /\ Handle("award", s)
       /\ IF workers = {} THEN SystemCancel(j)
          ELSE IF job[j].status # "Posted" THEN Refused
          ELSE /\ rep' = [a \in Accounts |->
                    IF a \in {record.winner} \cup record.verifiers
                    THEN [rep[a] EXCEPT !.accepted = @ + 1] ELSE rep[a]]
               /\ SaveJob(j, record, "daemon")
               /\ UNCHANGED money

ExpireClaim(s) == DaemonPay("claims", s, Payment(s.record, NoFeeCut, {}))

ExpireJob(s) == Handle("deadline", s) /\ SystemCancel(s.id)

PayVerified(s) == DaemonPay("verified", s, Payment(s.record, HappyCut, {}))

PayDispute(s) ==
    DaemonPay("disputes", s,
              Payment(s.record, IF s.record.status = "Reviewed" THEN DisputedCut ELSE NoFeeCut,
                      {v[1] : v \in votes[s.id]}))

AutoSettle(s) == DaemonPay("settle", s, Payment(s.record, HappyCut, {}))

\* What was begun is written before the last epoch, so that a pass comes after it.
Tick ==
    /\ cur < MaxEpoch /\ Free("open") /\ (cur + 1 = MaxEpoch => pending = NoWrite)
    /\ cur' = cur + 1
    /\ UNCHANGED <<limit, job, offers, people, money, daemon, pending, crashes, raced>>

DaemonNext ==
    \/ Wake \/ NextPhase
    \/ \E s \in daemon.todo : \/ AwardJob(s) \/ ExpireClaim(s) \/ ExpireJob(s)
                             \/ PayVerified(s) \/ PayDispute(s) \/ AutoSettle(s)

UserNext ==
    \E j \in Jobs, e \in 0..LastEntry :
      \/ \E r \in Requesters, fee \in Fees, term \in Terms, m \in MinReps, n \in limit.sizes :
            Post(j, r, e, fee, term, m, n)
      \/ \E b \in limit.bidders, fee \in Fees, role \in {"worker", "verifier"} : Bid(j, b, fee, role, e)
      \/ \E w \in limit.bidders, l \in Latencies : Complete(j, w, l, e)
      \/ \E v \in limit.committers : Commit(j, v, e)
      \/ \E v \in limit.board, d \in Verdicts : Verify(j, v, d, e)
      \/ \E a \in Accounts : Claim(j, a, e)
      \/ \E r \in limit.reviewers, ok \in BOOLEAN : ReviewVote(j, r, ok, e)
      \/ Cancel(j, e)

Next == UserNext \/ DaemonNext \/ Land \/ Crash \/ Tick

Spec == Init /\ [][Next]_vars

\* The clock ticks, a write that was begun ends, and the daemon's loop goes on.
FairSpec == Spec /\ WF_vars(Tick) /\ WF_vars(Land) /\ WF_vars(DaemonNext)

------------------------------------------------------------------------------
(* Properties *)

\* Balances, stakes and the fund are never negative (the store's u64 cannot be), and a
\* job is absent or in one of the states the market uses.
TypeOK ==
    /\ cur \in 0..MaxEpoch /\ crashes \in 0..limit.crashes
    /\ balance \in [Accounts -> Nat] /\ stake \in [Accounts -> Nat] /\ fund \in Nat
    /\ \A j \in Jobs : job[j] # NoJob =>
          /\ job[j].status \in Statuses
          /\ job[j].requester \in Accounts /\ job[j].winner \in Accounts \cup {NoOne}
          /\ job[j].winner = NoOne => job[j].status \in {"Posted", "Cancelled"}
          /\ job[j].board \subseteq Accounts \X Verdicts
    /\ \A a \in Accounts : vrep[a].approved <= vrep[a].total /\ Score(rep[a]) \in 0..10000
    /\ taken \in [Jobs -> Nat] /\ given \in [Jobs -> Nat]

\* The deposits share an account with the recycle fund ("All funds sit in
\* RECYCLE_FUND_ACCOUNT as escrow").  While no write is lost or raced the account holds
\* exactly the deposits of the jobs not settled, what it started with, and what it
\* earned: every payment gives out the whole deposit, no more and no less, whatever the
\* split.
FundExact ==
    crashes = 0 /\ raced = 0 =>
      fund = Fund0 + kept + MapThenSumSet(LAMBDA j : IF taken[j] > given[j] THEN
                IF pending.id = j THEN pending.record.max ELSE job[j].max ELSE 0, Jobs)

\* Two handlers that must not both run on one job: a deposit goes out once.  Only a
\* crash between a payment and the write of the job, or a race of two handlers for the
\* job, lets one deposit move again, and each of them at most once.
Deposits == INSTANCE Escrow WITH Items <- Jobs, taken <- taken, given <- given,
                                 faults <- crashes + raced
DepositOnce == Deposits!Spec

\* A verdict that resolve_quorum_verdict declares early is the one the full board would
\* reach, however the missing members vote.
VerdictFinal ==
    \A j \in Jobs : job[j] # NoJob =>
      LET board == job[j].board
          missing == job[j].size - Cardinality(board)
          verdict == ResolveQuorum(board, job[j].size)
      IN verdict # "none" =>
           \A f \in [1..missing -> Verdicts] :
              ResolveQuorum(board \cup {<<0 - n, f[n]>> : n \in 1..missing}, job[j].size) = verdict

\* What the worker of a paid job is due by the verdicts of the board and the reviewers.
WorkerDue(j) ==
    LET r == job[j]
        verdict == ResolveQuorum(r.board, r.size)
        yes == Cardinality({v \in votes[j] : v[2]})
        bps == CASE verdict = "rejected" -> 0
                 [] verdict = "review_required" ->
                      IF 2 * yes > Cardinality(votes[j]) THEN 7000 ELSE 0
                 [] OTHER -> 8000
    IN (r.fee * bps) \div 10000

\* The worker of a paid job gets what the board, or the reviewers of a dispute, decided.
\* The only way around it is a pass after the grace period: auto_settle_unverified pays
\* from its scan, and a verdict that lands between the scan and the payment is not seen.
PaidByVerdict ==
    \A j \in Jobs : job[j].status = "Paid" /\ crashes = 0 /\ raced = 0 =>
      earned[j] = WorkerDue(j) \/ cur >= job[j].deadline + Grace

\* Every job ends in payment or cancellation, or waits for people in a dispute: the
\* passes of the daemon reach every other state, unless a race puts an old one back.
Settles ==
    \A j \in Jobs :
      job[j].status \notin {"None", "Disputed", "Claimed"}
        ~> raced > 0 \/ job[j].status \in Settled \cup {"Disputed", "Claimed"}

\* The module's heading: "If no Claim is filed within CLAIM_WINDOW_EPOCHS, the job enters
\* NoFee"; the daemon's: "Transition Disputed jobs to NoFee when claim window expires".
UnclaimedSettles ==
    \A j \in Jobs : job[j].status = "Disputed" ~> job[j].status # "Disputed"
=============================================================================
