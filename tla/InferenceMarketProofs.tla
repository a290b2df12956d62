----------------------- MODULE InferenceMarketProofs -----------------------
(***************************************************************************)
(* The inference market implements Escrow for any jobs, accounts, fees and  *)
(* windows, any number of crashes and any overlap of handlers.  A crash     *)
(* before set_job, or a handler that writes a job while another write of it *)
(* is to come, is a fault.                                                  *)
(***************************************************************************)
EXTENDS InferenceMarket, TLAPS

USE PeopleAreAccounts, NoOneIsNoJob, AmountsNat

\* The job is settled once the write that is under way has landed.
Closed(j) ==
    IF pending.id = j THEN pending.record.status \in Settled ELSE job[j].status \in Settled

Faults == crashes + raced

\* Jobs and the pending write have a status; "None" is the status of no job.
Shape ==
    /\ job = [j \in Jobs |-> job[j]]
    /\ \A j \in Jobs : /\ "status" \in DOMAIN job[j]
                       /\ job[j] = NoJob <=> job[j].status = "None"
    /\ \/ pending = NoWrite
       \/ /\ pending.id \in Jobs
          /\ "status" \in DOMAIN pending.record /\ pending.record.status # "None"

\* How often the deposit of j has moved, given what is recorded of j.
Books(j) ==
    /\ taken[j] \in Nat /\ taken[j] <= Faults + 1
    /\ given[j] \in Nat /\ given[j] <= Faults + 1
    /\ job[j].status = "None" /\ pending.id # j => taken[j] <= Faults
    /\ job[j].status # "None" \/ pending.id = j => taken[j] > 0
    /\ ~Closed(j) => given[j] <= Faults

IInv ==
    /\ Shape
    /\ crashes \in Nat /\ raced \in Nat
    /\ taken = [j \in Jobs |-> taken[j]] /\ given = [j \in Jobs |-> given[j]]
    /\ \A j \in Jobs : Books(j)

------------------------------------------------------------------------------
(* What a handler may do to the books. *)

\* No deposit moves.
Quiet == UNCHANGED <<taken, given, crashes>>

\* The write of a record with a status, to come or done, and a race if another write of
\* the job is to come.
Writes(j, record) ==
    /\ "status" \in DOMAIN record /\ record.status # "None"
    /\ raced' = IF pending.id = j THEN raced + 1 ELSE raced
    /\ \/ /\ pending = NoWrite /\ job' = job
          /\ pending' = [id |-> j, record |-> record, owner |-> pending'.owner,
                         tally |-> pending'.tally]
       \/ pending' = pending /\ job' = [job EXCEPT ![j] = record]

LEMMA SaveWrites ==
    ASSUME NEW j \in Jobs, NEW record, NEW owner, NEW tally,
           "status" \in DOMAIN record, record.status # "None",
           Save(j, record, owner, tally)
    PROVE  Writes(j, record)
BY DEF Save, Writes

LEMMA WriteRaces ==
    ASSUME NEW j \in Jobs, NEW record, Writes(j, record)
    PROVE  raced' \in {raced, raced + 1}
BY DEF Writes

LEMMA RecordStatus ==
    ASSUME NEW r, NEW s, "status" \in DOMAIN r
    PROVE  /\ "status" \in DOMAIN [r EXCEPT !.status = s]
           /\ [r EXCEPT !.status = s].status = s
OBVIOUS

\* What the write leaves of the invariant, and when the job will then be settled.
LEMMA WriteHolds ==
    ASSUME IInv, NEW j \in Jobs, NEW record, Writes(j, record), crashes' = crashes
    PROVE  /\ Shape' /\ raced' \in Nat /\ Faults' \in Nat /\ Faults \in Nat
           /\ Faults' = (IF pending.id = j THEN Faults + 1 ELSE Faults)
           /\ \A i \in Jobs \ {j} :
                 /\ job'[i].status = job[i].status /\ (pending'.id = i <=> pending.id = i)
                 /\ Closed(i)' <=> Closed(i)
           /\ job'[j].status # "None" \/ pending'.id = j
           /\ pending.id # j => (Closed(j)' <=> record.status \in Settled)
           /\ pending.id = j => (Closed(j)' <=> Closed(j))
<1>1. Shape /\ crashes \in Nat /\ raced \in Nat
  BY DEF IInv
<1>2. raced' \in Nat /\ Faults' \in Nat /\ Faults \in Nat
      /\ Faults' = (IF pending.id = j THEN Faults + 1 ELSE Faults)
  BY <1>1 DEF Writes, Faults
<1>3. CASE /\ pending = NoWrite /\ job' = job
           /\ pending' = [id |-> j, record |-> record, owner |-> pending'.owner,
                          tally |-> pending'.tally]
  <2>1. pending.id = NoOne /\ pending'.id = j /\ pending'.record = record
    BY <1>3 DEF NoWrite
  <2>2. Shape'
    BY <1>1, <1>3, <2>1 DEF Shape, Writes
  <2> QED BY <1>2, <1>3, <2>1, <2>2 DEF Closed
<1>4. CASE pending' = pending /\ job' = [job EXCEPT ![j] = record]
  <2>1. job'[j] = record /\ \A i \in Jobs \ {j} : job'[i] = job[i]
    BY <1>1, <1>4 DEF Shape
  <2>2. Shape'
    BY <1>1, <1>4, <2>1 DEF Shape, Writes, NoJob
  <2> QED BY <1>2, <1>4, <2>1, <2>2 DEF Closed, Writes
<1> QED BY <1>3, <1>4 DEF Writes

\* The jobs that are not written keep their books.
LEMMA OthersKeep ==
    ASSUME IInv, NEW j \in Jobs, NEW record, Writes(j, record), crashes' = crashes,
           NEW i \in Jobs \ {j}, taken'[i] = taken[i], given'[i] = given[i]
    PROVE  Books(i)'
<1>1. Books(i)
  BY DEF IInv
<1>2. /\ Faults' \in Nat /\ Faults \in Nat /\ Faults' >= Faults
      /\ job'[i].status = job[i].status /\ (pending'.id = i <=> pending.id = i)
      /\ Closed(i)' <=> Closed(i)
  BY WriteHolds
<1> HIDE DEF Faults, Closed
<1> QED BY <1>1, <1>2 DEF Books

\* A write that leaves a job open moves no deposit.
LEMMA MoveKeeps ==
    ASSUME IInv, NEW j \in Jobs, NEW record, job[j].status \notin Settled \cup {"None"},
           Writes(j, record), Quiet
    PROVE  IInv'
<1>1. /\ Shape' /\ raced' \in Nat /\ Faults' \in Nat /\ Faults \in Nat
      /\ Faults' = (IF pending.id = j THEN Faults + 1 ELSE Faults)
      /\ job'[j].status # "None" \/ pending'.id = j
      /\ pending.id = j => (Closed(j)' <=> Closed(j))
  BY WriteHolds DEF Quiet
<1>2. Books(j) /\ (pending.id # j => ~Closed(j))
  BY DEF IInv, Closed
<1>3. Books(j)'
  <2> HIDE DEF Faults, Closed
  <2> QED BY <1>1, <1>2 DEF Books, Quiet
<1>4. \A i \in Jobs \ {j} : Books(i)'
  BY OthersKeep DEF Quiet
<1> QED BY <1>1, <1>3, <1>4 DEF IInv, Quiet

\* A write that settles an open job, with the deposit given out.
LEMMA MoveGives ==
    ASSUME IInv, NEW j \in Jobs, NEW record,
           job[j].status \notin Settled \cup {"None"}, record.status \in Settled,
           Writes(j, record),
           given' = [given EXCEPT ![j] = @ + 1], taken' = taken, crashes' = crashes
    PROVE  IInv' /\ Deposits!Give(j)
<1>1. /\ Shape' /\ raced' \in Nat /\ Faults' \in Nat /\ Faults \in Nat
      /\ Faults' = (IF pending.id = j THEN Faults + 1 ELSE Faults)
      /\ job'[j].status # "None" \/ pending'.id = j
      /\ pending.id # j => Closed(j)'
      /\ pending.id = j => (Closed(j)' <=> Closed(j))
  BY WriteHolds
<1>2. Books(j) /\ (pending.id # j => ~Closed(j))
  BY DEF IInv, Closed
<1>3. /\ given'[j] = given[j] + 1 /\ \A i \in Jobs \ {j} : given'[i] = given[i]
      /\ given' = [i \in Jobs |-> given'[i]] /\ taken' = [i \in Jobs |-> taken'[i]]
  BY DEF IInv
<1>4. Books(j)' /\ given[j] <= Faults' /\ taken[j] > 0
  <2> HIDE DEF Faults, Closed
  <2> QED BY <1>1, <1>2, <1>3 DEF Books
<1>5. \A i \in Jobs \ {j} : Books(i)'
  BY <1>3, OthersKeep
<1>6. IInv'
  BY <1>1, <1>3, <1>4, <1>5 DEF IInv
<1> QED BY <1>4, <1>6 DEF Deposits!Give, Faults

\* The first write of a job, with its deposit taken in.
LEMMA MoveTakes ==
    ASSUME IInv, NEW j \in Jobs, NEW record,
           job[j] = NoJob, record.status \notin Settled, Writes(j, record),
           taken' = [taken EXCEPT ![j] = @ + 1], given' = given, crashes' = crashes
    PROVE  IInv' /\ Deposits!Take(j)
<1>1. /\ Shape' /\ raced' \in Nat /\ Faults' \in Nat /\ Faults \in Nat
      /\ Faults' = (IF pending.id = j THEN Faults + 1 ELSE Faults)
      /\ job'[j].status # "None" \/ pending'.id = j
      /\ pending.id = j => (Closed(j)' <=> Closed(j))
  BY WriteHolds
<1>2. Books(j) /\ job[j].status = "None" /\ (pending.id # j => ~Closed(j))
  BY DEF IInv, Closed, NoJob, Settled
<1>3. /\ taken'[j] = taken[j] + 1 /\ \A i \in Jobs \ {j} : taken'[i] = taken[i]
      /\ given' = [i \in Jobs |-> given'[i]] /\ taken' = [i \in Jobs |-> taken'[i]]
  BY DEF IInv
<1>4. Books(j)' /\ taken[j] <= Faults'
  <2> HIDE DEF Faults, Closed
  <2> QED BY <1>1, <1>2, <1>3 DEF Books
<1>5. \A i \in Jobs \ {j} : Books(i)'
  BY <1>3, OthersKeep
<1>6. IInv'
  BY <1>1, <1>3, <1>4, <1>5 DEF IInv
<1> QED BY <1>4, <1>6 DEF Deposits!Take, Faults

\* A step that touches neither jobs nor deposits.
LEMMA MoveNone ==
    ASSUME IInv, UNCHANGED <<job, pending, taken, given, crashes, raced>>
    PROVE  IInv'
BY DEF IInv, Shape, Books, Closed, Faults

LEMMA LandKeeps ==
    ASSUME IInv, Land
    PROVE  IInv' /\ Quiet /\ raced' = raced
<1>1. /\ pending.id \in Jobs /\ "status" \in DOMAIN pending.record
      /\ pending.record.status # "None"
  BY DEF IInv, Shape, Land
<1>2. /\ job' = [job EXCEPT ![pending.id] = pending.record] /\ pending' = NoWrite /\ Quiet
      /\ raced' = raced
  BY DEF Land, money, Quiet
<1>3. Shape'
  BY <1>1, <1>2 DEF IInv, Shape, NoWrite, NoJob
<1>4. ASSUME NEW i \in Jobs PROVE Books(i)'
  <2>1. Books(i) /\ Shape /\ crashes \in Nat /\ raced \in Nat
    BY DEF IInv
  <2>2. Faults' = Faults /\ pending'.id # i /\ taken' = taken /\ given' = given
    BY <1>2 DEF Faults, Quiet, NoWrite
  <2>3. CASE i = pending.id
    <3>1. job'[i].status = pending.record.status
      BY <1>1, <1>2, <2>1, <2>3 DEF Shape
    <3>2. Closed(i)' <=> Closed(i)
      BY <2>2, <2>3, <3>1 DEF Closed
    <3> HIDE DEF Faults, Closed
    <3> QED BY <1>1, <2>1, <2>2, <2>3, <3>1, <3>2 DEF Books
  <2>4. CASE i # pending.id
    <3>1. job'[i].status = job[i].status
      BY <1>1, <1>2, <2>1, <2>4 DEF Shape
    <3>2. Closed(i)' <=> Closed(i)
      BY <2>2, <2>4, <3>1 DEF Closed
    <3> HIDE DEF Faults, Closed
    <3> QED BY <1>1, <2>1, <2>2, <2>4, <3>1, <3>2 DEF Books
  <2> QED BY <2>3, <2>4
<1> QED BY <1>2, <1>3, <1>4 DEF IInv, Quiet

LEMMA CrashKeeps ==
    ASSUME IInv, Crash
    PROVE  IInv' /\ UNCHANGED <<taken, given>> /\ Faults' = Faults + 1
<1>1. /\ job' = job /\ pending' = NoWrite /\ taken' = taken /\ given' = given
      /\ crashes \in Nat /\ raced \in Nat /\ crashes' = crashes + 1 /\ raced' = raced
  BY DEF Crash, money, IInv
<1>2. Faults \in Nat /\ Faults' = Faults + 1
  BY <1>1 DEF Faults
<1>3. Shape'
  BY <1>1 DEF IInv, Shape
<1>4. ASSUME NEW i \in Jobs PROVE Books(i)'
  <2>1. Books(i) /\ pending'.id # i
    BY <1>1 DEF IInv, NoWrite
  <2> HIDE DEF Faults, Closed
  <2> QED BY <1>1, <1>2, <2>1 DEF Books
<1> QED BY <1>1, <1>2, <1>3, <1>4 DEF IInv

------------------------------------------------------------------------------
(* The actions. *)

\* A handler's way to the books: what it does to jobs and deposits.
Moves(j) ==
    /\ crashes' = crashes /\ raced' \in {raced, raced + 1}
    /\ Deposits!Take(j) \/ Deposits!Give(j) \/ Quiet

LEMMA PostKeeps ==
    ASSUME IInv, NEW j \in Jobs, NEW r, NEW e, NEW fee, NEW term, NEW m, NEW n,
           Post(j, r, e, fee, term, m, n)
    PROVE  IInv' /\ Moves(j)
<1> DEFINE record == [status |-> "Posted", requester |-> r, max |-> fee, minrep |-> m,
                      posted |-> e, deadline |-> e + term, winner |-> NoOne, fee |-> 0,
                      verifiers |-> {}, latency |-> 0, disputed |-> 0, board |-> {},
                      commits |-> {}, size |-> n]
<1>1. "status" \in DOMAIN record /\ record.status = "Posted"
  OBVIOUS
<1>2. Save(j, record, "lock", <<>>)
  BY DEF Post, SaveJob
<1> HIDE DEF record
<1>3. Writes(j, record)
  BY <1>1, <1>2, SaveWrites
<1>4. job[j] = NoJob /\ taken' = [taken EXCEPT ![j] = @ + 1] /\ given' = given /\ crashes' = crashes
  BY DEF Post
<1>5. IInv' /\ Deposits!Take(j)
  BY <1>1, <1>3, <1>4, MoveTakes DEF Settled
<1> QED BY <1>3, <1>4, <1>5, WriteRaces DEF Moves

\* What the handlers of an open job have in common.
LEMMA EditKeeps ==
    ASSUME IInv, NEW j \in Jobs, NEW record, NEW owner, NEW tally,
           job[j].status \notin Settled \cup {"None"}, "status" \in DOMAIN record,
           record.status \notin Settled \cup {"None"},
           Save(j, record, owner, tally), Quiet
    PROVE  IInv' /\ Moves(j)
<1>1. Writes(j, record)
  BY SaveWrites
<1>2. IInv'
  BY <1>1, MoveKeeps
<1> QED BY <1>1, <1>2, WriteRaces DEF Moves, Quiet

LEMMA HasStatus ==
    ASSUME IInv, NEW j \in Jobs
    PROVE  "status" \in DOMAIN job[j]
BY DEF IInv, Shape

LEMMA CompleteKeeps ==
    ASSUME IInv, NEW j \in Jobs, NEW w, NEW l, NEW e, Complete(j, w, l, e)
    PROVE  IInv' /\ Moves(j)
<1> DEFINE record == [job[j] EXCEPT !.status = "Completed", !.latency = l]
<1>1. "status" \in DOMAIN record /\ record.status = "Completed"
  BY HasStatus
<1>2. Save(j, record, "open", <<>>) /\ Quiet /\ job[j].status = "Awarded"
  BY DEF Complete, SaveJob, Quiet, money
<1> HIDE DEF record
<1> QED BY <1>1, <1>2, EditKeeps DEF Settled

LEMMA CommitKeeps ==
    ASSUME IInv, NEW j \in Jobs, NEW v, NEW e, Commit(j, v, e)
    PROVE  IInv' /\ Moves(j)
<1> DEFINE record == [job[j] EXCEPT !.commits = @ \cup {v}]
<1>1. "status" \in DOMAIN record /\ record.status = job[j].status
  BY HasStatus
<1>2. Save(j, record, "open", <<>>) /\ Quiet /\ job[j].status = "Completed"
  BY DEF Commit, SaveJob, Quiet, money
<1> HIDE DEF record
<1> QED BY <1>1, <1>2, EditKeeps DEF Settled

\* Whatever the board decides, the job stays open.
LEMMA JudgedOpen ==
    ASSUME NEW r, NEW e, "status" \in DOMAIN r, r.status = "Completed"
    PROVE  /\ "status" \in DOMAIN Judged(r, e)
           /\ Judged(r, e).status \in {"Completed", "Verified", "Rejected", "Disputed"}
<1> DEFINE verdict == ResolveQuorum(r.board, r.size)
<1>1. \/ Judged(r, e) = [r EXCEPT !.status = "Verified"]
      \/ Judged(r, e) = [r EXCEPT !.status = "Rejected"]
      \/ Judged(r, e) = [r EXCEPT !.status = "Disputed", !.disputed = e]
      \/ Judged(r, e) = r
  <2> HIDE DEF verdict
  <2>1. Judged(r, e) = CASE verdict = "approved" -> [r EXCEPT !.status = "Verified"]
                         [] verdict = "rejected" -> [r EXCEPT !.status = "Rejected"]
                         [] verdict = "review_required" ->
                               [r EXCEPT !.status = "Disputed", !.disputed = e]
                         [] OTHER -> r
    BY DEF Judged, verdict
  <2> QED BY <2>1
<1>2. "status" \in DOMAIN [r EXCEPT !.status = "Disputed", !.disputed = e]
      /\ [r EXCEPT !.status = "Disputed", !.disputed = e].status = "Disputed"
  OBVIOUS
<1>3. /\ "status" \in DOMAIN [r EXCEPT !.status = "Verified"]
      /\ [r EXCEPT !.status = "Verified"].status = "Verified"
      /\ "status" \in DOMAIN [r EXCEPT !.status = "Rejected"]
      /\ [r EXCEPT !.status = "Rejected"].status = "Rejected"
  BY RecordStatus
<1> QED BY <1>1, <1>2, <1>3

LEMMA VerifyKeeps ==
    ASSUME IInv, NEW j \in Jobs, NEW v, NEW d, NEW e, Verify(j, v, d, e)
    PROVE  IInv' /\ Moves(j)
<1> DEFINE voted == [job[j] EXCEPT !.board = @ \cup {<<v, d>>}]
           record == Judged(voted, e)
<1>1. "status" \in DOMAIN voted /\ voted.status = job[j].status
  BY HasStatus
<1>2. Save(j, record, "open", <<v, d = "approved">>) /\ Quiet /\ job[j].status = "Completed"
  BY DEF Verify, Quiet, money
<1> HIDE DEF voted
<1>3. "status" \in DOMAIN record
      /\ record.status \in {"Completed", "Verified", "Rejected", "Disputed"}
  BY <1>1, <1>2, JudgedOpen
<1> HIDE DEF record
<1> QED BY <1>2, <1>3, EditKeeps DEF Settled

LEMMA ClaimKeeps ==
    ASSUME IInv, NEW j \in Jobs, NEW a, NEW e, Claim(j, a, e)
    PROVE  IInv' /\ Moves(j)
<1> DEFINE record == [job[j] EXCEPT !.status = "Claimed"]
<1>1. "status" \in DOMAIN record /\ record.status = "Claimed"
  BY HasStatus
<1>2. Save(j, record, "lock", <<>>) /\ Quiet /\ job[j].status = "Disputed"
  BY DEF Claim, SaveJob, Quiet, money
<1> HIDE DEF record
<1> QED BY <1>1, <1>2, EditKeeps DEF Settled

LEMMA ReviewVoteKeeps ==
    ASSUME IInv, NEW j \in Jobs, NEW r, NEW ok, NEW e, ReviewVote(j, r, ok, e)
    PROVE  IInv' /\ Moves(j)
<1>1. Quiet /\ job[j].status = "Claimed"
  BY DEF ReviewVote, Entry, Quiet, money
<1>2. CASE UNCHANGED <<job, pending, raced>>
  BY <1>1, <1>2, MoveNone DEF Quiet, Moves
<1>3. CASE \E s \in {"Reviewed", "Rejected"} :
             Save(j, [job[j] EXCEPT !.status = s], "open", <<>>)
  <2>1. PICK s \in {"Reviewed", "Rejected"} :
               Save(j, [job[j] EXCEPT !.status = s], "open", <<>>)
    BY <1>3
  <2> DEFINE record == [job[j] EXCEPT !.status = s]
  <2>2. "status" \in DOMAIN record /\ record.status = s
    BY HasStatus
  <2> HIDE DEF record
  <2>3. Save(j, record, "open", <<>>)
    BY <2>1 DEF record
  <2> QED BY <1>1, <2>2, <2>3, EditKeeps DEF Settled
<1>4. \/ UNCHANGED <<job, pending, raced>>
      \/ \E s \in {"Reviewed", "Rejected"} :
             Save(j, [job[j] EXCEPT !.status = s], "open", <<>>)
  <2> DEFINE cast == votes[j] \cup {<<r, ok>>}
             yes == Cardinality({v \in cast : v[2]})
             no == Cardinality(cast) - yes
             s == IF yes > no THEN "Reviewed" ELSE "Rejected"
  <2>1. \/ UNCHANGED <<job, pending, raced>>
        \/ Save(j, [job[j] EXCEPT !.status = s], "open", <<>>)
    BY DEF ReviewVote, SaveJob
  <2>2. s \in {"Reviewed", "Rejected"}
    OBVIOUS
  <2> HIDE DEF s
  <2> QED BY <2>1, <2>2
<1> QED BY <1>2, <1>3, <1>4

\* apply_cancel, whoever asks for it.
LEMMA RefundKeeps ==
    ASSUME IInv, NEW j \in Jobs, NEW owner \in {"lock", "daemon"},
           job[j].status \in {"Posted", "Awarded"}, Refund(j, owner), crashes' = crashes
    PROVE  IInv' /\ Moves(j)
<1> DEFINE record == [job[j] EXCEPT !.status = "Cancelled"]
<1>1. "status" \in DOMAIN record /\ record.status = "Cancelled"
  BY HasStatus
<1>2. Save(j, record, owner, <<>>) /\ given' = [given EXCEPT ![j] = @ + 1] /\ taken' = taken
  BY DEF Refund, SaveJob
<1> HIDE DEF record
<1>3. Writes(j, record)
  BY <1>1, <1>2, SaveWrites
<1>4. job[j].status \notin Settled \cup {"None"} /\ record.status \in Settled
  BY <1>1 DEF Settled
<1>5. IInv' /\ Deposits!Give(j)
  BY <1>2, <1>3, <1>4, MoveGives
<1> QED BY <1>3, <1>5, WriteRaces DEF Moves

LEMMA CancelKeeps ==
    ASSUME IInv, NEW j \in Jobs, NEW e, Cancel(j, e)
    PROVE  IInv' /\ Moves(j)
<1>1. job[j].status = "Posted" /\ Refund(j, "lock") /\ crashes' = crashes
  BY DEF Cancel, Entry
<1>2. job[j].status \in {"Posted", "Awarded"}
  BY <1>1
<1>3. "lock" \in {"lock", "daemon"}
  OBVIOUS
<1> QED BY <1>1, <1>2, <1>3, RefundKeeps, Zenon

LEMMA PayKeeps ==
    ASSUME IInv, NEW j \in Jobs, NEW p,
           job[j].status \in Payable, Pay(j, p), crashes' = crashes
    PROVE  IInv' /\ Moves(j)
<1> DEFINE record == [job[j] EXCEPT !.status = "Paid"]
<1>1. "status" \in DOMAIN record /\ record.status = "Paid"
  BY HasStatus
<1>2. Save(j, record, "daemon", <<>>) /\ given' = [given EXCEPT ![j] = @ + 1] /\ taken' = taken
  BY DEF Pay, SaveJob
<1> HIDE DEF record
<1>3. Writes(j, record)
  BY <1>1, <1>2, SaveWrites
<1>4. job[j].status \notin Settled \cup {"None"}
  BY DEF Payable, Settled
<1>5. IInv' /\ Deposits!Give(j)
  BY <1>1, <1>2, <1>3, <1>4, MoveGives DEF Settled
<1> QED BY <1>3, <1>5, WriteRaces DEF Moves

LEMMA RefusedKeeps ==
    ASSUME IInv, NEW j \in Jobs, Refused, crashes' = crashes
    PROVE  IInv' /\ Moves(j)
BY MoveNone DEF Refused, money, Moves, Quiet

LEMMA DaemonPayKeeps ==
    ASSUME IInv, NEW s, s.id \in Jobs, NEW phase, NEW payment,
           DaemonPay(phase, s, payment)
    PROVE  IInv' /\ Moves(s.id)
<1>1. crashes' = crashes
  BY DEF DaemonPay, Handle
<1>2. CASE Refused
  BY <1>1, <1>2, RefusedKeeps
<1>3. CASE job[s.id].status \in Payable /\ Pay(s.id, payment)
  BY <1>1, <1>3, PayKeeps
<1>4. Refused \/ (job[s.id].status \in Payable /\ Pay(s.id, payment))
  BY DEF DaemonPay, PayAllowed
<1> QED BY <1>2, <1>3, <1>4

LEMMA SystemCancelKeeps ==
    ASSUME IInv, NEW j \in Jobs, SystemCancel(j), crashes' = crashes
    PROVE  IInv' /\ Moves(j)
<1>1. CASE Refused
  BY <1>1, RefusedKeeps
<1>2. CASE job[j].status \in {"Posted", "Awarded"} /\ Refund(j, "daemon")
  <2>1. "daemon" \in {"lock", "daemon"}
    OBVIOUS
  <2> QED BY <1>2, <2>1, RefundKeeps, Zenon
<1> QED BY <1>1, <1>2 DEF SystemCancel

LEMMA AwardedOpen ==
    ASSUME NEW r, NEW best, NEW verifiers, "status" \in DOMAIN r
    PROVE  /\ "status" \in DOMAIN Awarded(r, best, verifiers)
           /\ Awarded(r, best, verifiers).status = "Awarded"
<1> DEFINE x == [r EXCEPT !.status = "Awarded", !.winner = best.bidder, !.fee = best.fee]
           vs == {v \in verifiers : Cardinality({w \in verifiers : w < v}) < 3}
<1>1. "status" \in DOMAIN x /\ x.status = "Awarded"
  OBVIOUS
<1>2. Awarded(r, best, verifiers) = WithVerifiers(x, vs)
  BY DEF Awarded
<1> HIDE DEF x, vs
<1> QED BY <1>1, <1>2 DEF WithVerifiers

LEMMA AwardJobKeeps ==
    ASSUME IInv, NEW s, s.id \in Jobs, AwardJob(s)
    PROVE  IInv' /\ Moves(s.id)
<1> DEFINE j == s.id
           workers == {o \in bids[j] : o.role = "worker"}
           verifiers == {o.bidder : o \in bids[j] \ workers}
           record == Awarded(job[j], Best(workers), verifiers)
<1>1. crashes' = crashes
  BY DEF AwardJob, Handle
<1>2. \/ SystemCancel(j)
      \/ Refused
      \/ job[j].status = "Posted" /\ Save(j, record, "daemon", <<>>) /\ UNCHANGED money
  BY DEF AwardJob, SaveJob
<1>3. "status" \in DOMAIN record /\ record.status = "Awarded"
  <2> HIDE DEF workers, verifiers
  <2> QED BY AwardedOpen, HasStatus
<1> HIDE DEF record
<1>4. CASE job[j].status = "Posted" /\ Save(j, record, "daemon", <<>>) /\ UNCHANGED money
  <2>1. Quiet
    BY <1>1, <1>4 DEF Quiet, money
  <2> QED BY <1>1, <1>3, <1>4, <2>1, EditKeeps DEF Settled
<1>5. CASE SystemCancel(j)
  BY <1>1, <1>5, SystemCancelKeeps
<1>6. CASE Refused
  BY <1>1, <1>6, RefusedKeeps
<1> QED BY <1>2, <1>4, <1>5, <1>6

LEMMA ExpireJobKeeps ==
    ASSUME IInv, NEW s, s.id \in Jobs, ExpireJob(s)
    PROVE  IInv' /\ Moves(s.id)
<1>1. crashes' = crashes /\ SystemCancel(s.id)
  BY DEF ExpireJob, Handle
<1> QED BY <1>1, SystemCancelKeeps

------------------------------------------------------------------------------
(* The daemon works on jobs. *)

DaemonOK == "todo" \in DOMAIN daemon /\ \A s \in daemon.todo : s.id \in Jobs

LEMMA FromJobs ==
    ASSUME NEW n, NEW e, NEW s \in From(n, e).todo
    PROVE  s.id \in Jobs
<1> DEFINE busy == {i \in n..6 : Scan(Phases[i], e) # {}}
           i == Min(busy)
<1>1. From(n, e) = IF busy = {} THEN [phase |-> "idle", at |-> e, todo |-> {}]
                   ELSE [phase |-> Phases[i], at |-> e, todo |-> Scan(Phases[i], e)]
  BY DEF From
<1> HIDE DEF busy, i
<1>2. s \in Scan(Phases[i], e)
  BY <1>1
<1> QED BY <1>2 DEF Scan

LEMMA DaemonKeeps ==
    ASSUME DaemonOK, [Next]_vars
    PROVE  DaemonOK'
<1>1. CASE daemon' = daemon
  BY <1>1 DEF DaemonOK
<1>2. ASSUME NEW n, NEW e, daemon' = From(n, e) PROVE DaemonOK'
  <2>1. "todo" \in DOMAIN From(n, e)
    BY DEF From
  <2> QED BY <1>2, <2>1, FromJobs DEF DaemonOK
<1>3. CASE UserNext
  <2>1. ASSUME NEW j, NEW r, NEW e, NEW a, NEW b, NEW c, NEW d,
               Post(j, r, e, a, b, c, d)
        PROVE  daemon' = daemon
    BY <2>1 DEF Post
  <2>2. ASSUME NEW j, NEW v, NEW e, NEW a, NEW b,
               \/ Bid(j, v, a, b, e) \/ Complete(j, v, a, e) \/ Commit(j, v, e)
        PROVE  daemon' = daemon
    BY <2>2 DEF Bid, Complete, Commit
  <2>3. ASSUME NEW j, NEW v, NEW e, NEW d, Verify(j, v, d, e)
        PROVE  daemon' = daemon
    BY <2>3, Zenon DEF Verify
  <2>4. ASSUME NEW j, NEW v, NEW e, Claim(j, v, e) \/ Cancel(j, e)
        PROVE  daemon' = daemon
    BY <2>4, Zenon DEF Claim, Cancel
  <2> HIDE DEF Next, vars
  <2>5. PICK j \in Jobs, e \in 0..LastEntry :
          \/ \E r \in Requesters, fee \in Fees, term \in Terms, m \in MinReps, n \in limit.sizes :
                Post(j, r, e, fee, term, m, n)
          \/ \E b \in limit.bidders, fee \in Fees, role \in {"worker", "verifier"} :
                Bid(j, b, fee, role, e)
          \/ \E w \in limit.bidders, l \in Latencies : Complete(j, w, l, e)
          \/ \E v \in limit.committers : Commit(j, v, e)
          \/ \E v \in limit.board, d \in Verdicts : Verify(j, v, d, e)
          \/ \E a \in Accounts : Claim(j, a, e)
          \/ \E r \in limit.reviewers, ok \in BOOLEAN : ReviewVote(j, r, ok, e)
          \/ Cancel(j, e)
    BY <1>3 DEF UserNext
  <2>6. daemon' = daemon
    <3>1. CASE \E r \in limit.reviewers, ok \in BOOLEAN : ReviewVote(j, r, ok, e)
      <4>1. PICK r \in limit.reviewers : \E ok \in BOOLEAN : ReviewVote(j, r, ok, e)
        BY <3>1, Zenon
      <4>2. PICK ok \in BOOLEAN : ReviewVote(j, r, ok, e)
        BY <4>1, Zenon
      <4> QED BY <4>2, Zenon DEF ReviewVote
    <3>2. CASE \/ \E b \in limit.bidders, fee \in Fees, role \in {"worker", "verifier"} :
                      Bid(j, b, fee, role, e)
               \/ \E w \in limit.bidders, l \in Latencies : Complete(j, w, l, e)
               \/ \E v \in limit.committers : Commit(j, v, e)
      BY <3>2, <2>2
    <3>3. CASE \/ \E r \in Requesters, fee \in Fees, term \in Terms, m \in MinReps,
                     n \in limit.sizes : Post(j, r, e, fee, term, m, n)
               \/ \E v \in limit.board, d \in Verdicts : Verify(j, v, d, e)
               \/ \E a \in Accounts : Claim(j, a, e)
               \/ Cancel(j, e)
      BY <3>3, <2>1, <2>3, <2>4
    <3> QED BY <2>5, <3>1, <3>2, <3>3
  <2> QED BY <2>6, <1>1
<1>4. CASE DaemonNext
  <2>1. CASE Wake \/ NextPhase
    <3>1. daemon' = From(1, cur) \/ \E n \in 1..6 : daemon' = From(n + 1, daemon.at)
      BY <2>1 DEF Wake, NextPhase
    <3> QED BY <3>1, <1>2
  <2>2. CASE \E s \in daemon.todo : \/ AwardJob(s) \/ ExpireClaim(s) \/ ExpireJob(s)
                                    \/ PayVerified(s) \/ PayDispute(s) \/ AutoSettle(s)
    <3>1. PICK s \in daemon.todo : daemon' = [daemon EXCEPT !.todo = @ \ {s}]
      BY <2>2 DEF AwardJob, ExpireClaim, ExpireJob, PayVerified, PayDispute, AutoSettle,
                  DaemonPay, Handle
    <3> QED BY <3>1 DEF DaemonOK
  <2> QED BY <1>4, <2>1, <2>2 DEF DaemonNext
<1>5. CASE Land \/ Tick \/ UNCHANGED vars
  BY <1>1, <1>5 DEF Land, Tick, vars
<1>6. CASE Crash
  BY <1>6 DEF Crash, DaemonOK
<1> QED BY <1>3, <1>4, <1>5, <1>6 DEF Next

------------------------------------------------------------------------------
(* The market implements Escrow. *)

LEMMA StepKeeps ==
    ASSUME IInv, DaemonOK, [Next]_vars
    PROVE  IInv' /\ [Deposits!Next]_<<taken, given, crashes + raced>>
<1>1. ASSUME NEW j \in Jobs, IInv' /\ Moves(j)
      PROVE  IInv' /\ [Deposits!Next]_<<taken, given, crashes + raced>>
  <2>1. /\ crashes \in Nat /\ raced \in Nat
        /\ crashes' + raced' = crashes + raced \/ crashes' + raced' = crashes + raced + 1
    BY <1>1 DEF IInv, Moves
  <2> QED BY <1>1, <2>1 DEF Moves, Quiet, Deposits!Next, Deposits!Fault
<1>2. ASSUME UNCHANGED <<job, pending, taken, given, crashes, raced>>
      PROVE  IInv' /\ [Deposits!Next]_<<taken, given, crashes + raced>>
  BY <1>2, MoveNone
<1>3. CASE UserNext
  <2>1. PICK j \in Jobs, e \in 0..LastEntry :
          \/ \E r \in Requesters, fee \in Fees, term \in Terms, m \in MinReps, n \in limit.sizes :
                Post(j, r, e, fee, term, m, n)
          \/ \E b \in limit.bidders, fee \in Fees, role \in {"worker", "verifier"} :
                Bid(j, b, fee, role, e)
          \/ \E w \in limit.bidders, l \in Latencies : Complete(j, w, l, e)
          \/ \E v \in limit.committers : Commit(j, v, e)
          \/ \E v \in limit.board, d \in Verdicts : Verify(j, v, d, e)
          \/ \E a \in Accounts : Claim(j, a, e)
          \/ \E r \in limit.reviewers, ok \in BOOLEAN : ReviewVote(j, r, ok, e)
          \/ Cancel(j, e)
    BY <1>3 DEF UserNext
  <2>2. CASE \E b \in limit.bidders, fee \in Fees, role \in {"worker", "verifier"} :
                Bid(j, b, fee, role, e)
    BY <2>2, <1>2 DEF Bid, money
  <2>3. CASE \E r \in limit.reviewers, ok \in BOOLEAN : ReviewVote(j, r, ok, e)
    BY <2>3, <1>1, ReviewVoteKeeps, Zenon
  <2>4. CASE \E r \in Requesters, fee \in Fees, term \in Terms, m \in MinReps, n \in limit.sizes :
                Post(j, r, e, fee, term, m, n)
    BY <2>4, <1>1, PostKeeps
  <2>5. CASE \E w \in limit.bidders, l \in Latencies : Complete(j, w, l, e)
    BY <2>5, <1>1, CompleteKeeps
  <2>6. CASE \E v \in limit.committers : Commit(j, v, e)
    BY <2>6, <1>1, CommitKeeps
  <2>7. CASE \E v \in limit.board, d \in Verdicts : Verify(j, v, d, e)
    BY <2>7, <1>1, VerifyKeeps
  <2>8. CASE (\E a \in Accounts : Claim(j, a, e)) \/ Cancel(j, e)
    BY <2>8, <1>1, ClaimKeeps, CancelKeeps
  <2> QED BY <2>1, <2>2, <2>3, <2>4, <2>5, <2>6, <2>7, <2>8
<1>4. CASE DaemonNext
  <2>1. CASE Wake \/ NextPhase
    BY <2>1, <1>2 DEF Wake, NextPhase, money
  <2>2. ASSUME NEW s \in daemon.todo,
               \/ AwardJob(s) \/ ExpireClaim(s) \/ ExpireJob(s)
               \/ PayVerified(s) \/ PayDispute(s) \/ AutoSettle(s)
        PROVE  IInv' /\ [Deposits!Next]_<<taken, given, crashes + raced>>
    <3>1. s.id \in Jobs
      BY DEF DaemonOK
    <3>2. CASE ExpireClaim(s) \/ PayVerified(s) \/ PayDispute(s) \/ AutoSettle(s)
      BY <3>1, <3>2, <1>1, DaemonPayKeeps DEF ExpireClaim, PayVerified, PayDispute, AutoSettle
    <3>3. CASE AwardJob(s) \/ ExpireJob(s)
      BY <3>1, <3>3, <1>1, AwardJobKeeps, ExpireJobKeeps
    <3> QED BY <2>2, <3>2, <3>3
  <2> QED BY <1>4, <2>1, <2>2 DEF DaemonNext
<1>5. CASE Land
  BY <1>5, LandKeeps DEF Quiet
<1>6. CASE Crash
  BY <1>6, CrashKeeps DEF Deposits!Next, Deposits!Fault, Faults
<1>7. CASE Tick \/ UNCHANGED vars
  BY <1>7, <1>2 DEF Tick, vars, money
<1> QED BY <1>3, <1>4, <1>5, <1>6, <1>7 DEF Next

LEMMA InitKeeps ==
    ASSUME Init
    PROVE  IInv /\ DaemonOK /\ Deposits!Init
<1>1. DaemonOK /\ Deposits!Init
  BY DEF Init, DaemonOK, Deposits!Init
<1>2. Shape
  BY DEF Init, Shape, NoJob
<1>3. ASSUME NEW j \in Jobs PROVE Books(j)
  BY DEF Init, Books, NoJob, NoWrite, Closed, Settled, Faults
<1> QED BY <1>1, <1>2, <1>3 DEF IInv, Init

\* The market implements Escrow: the deposit of a job is taken once and given out once,
\* although the daemon and four of the handlers take no write_lock (inference_daemon.rs
\* 12-37) and run between another's reads and its set_job.  A crash before set_job, or a
\* handler that writes a job while another write of it is to come, lets a deposit move
\* once more; nothing else does, and in particular no overlap of handlers of different
\* jobs, whatever their number and order.
THEOREM MarketImplementsEscrow == Spec => DepositOnce
<1>1. Init => IInv /\ DaemonOK /\ Deposits!Init
  BY InitKeeps
<1>2. IInv /\ DaemonOK /\ [Next]_vars
        => IInv' /\ DaemonOK' /\ [Deposits!Next]_<<taken, given, crashes + raced>>
  BY StepKeeps, DaemonKeeps
<1>3. Spec => []IInv /\ [][Deposits!Next]_<<taken, given, crashes + raced>> /\ Deposits!Init
  BY <1>1, <1>2, PTL DEF Spec
<1> QED BY <1>3, PTL DEF DepositOnce, Deposits!Spec, Deposits!vars
=============================================================================
