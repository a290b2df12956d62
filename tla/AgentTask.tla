------------------------------ MODULE AgentTask -----------------------------
(***************************************************************************)
(* The market for agent tasks (agent_task.rs, tx.rs 814-907): credit        *)
(* accounts, tasks, bids, results, the verifiers' commits and reveals, and  *)
(* the sweep of late tasks by the reward driver (main.rs 1850).             *)
(*                                                                         *)
(* Entries run under write_lock; the sweep takes no lock.  Both write to    *)
(* the store in several steps and the process may stop between two of them. *)
(* A credit balance changes in one step here; how two read-modify-writes of *)
(* one balance meet is the subject of LedgerLock.                           *)
(***************************************************************************)
EXTENDS Integers, Sequences, FiniteSets, FiniteSetsExt

CONSTANTS
    Tasks, Requesters, Agents, Verifiers,
    Hashes,                 \* results
    Funds,                  \* HONE every requester starts with
    MaxFees, Fees,          \* fees a task offers; fees bid or agreed
    MinVerifiers,           \* min_verifiers of a task; nothing rules out 0
    CutPct,                 \* VERIFIER_FEE_PCT
    Window, Deadline,       \* bid_window_epochs; epochs from the post to the deadline
    Buffer,                 \* TASK_EXPIRY_BUFFER_EPOCHS
    MaxEpoch, MaxCrashes,
    Overlap,                \* do API entries run while the driver sweeps?
    NoTask

TaskAmounts == /\ MaxFees \subseteq Nat \ {0} /\ Fees \subseteq Nat /\ Funds \in Nat
               /\ MinVerifiers \subseteq Nat /\ CutPct \in 0..100

People == Requesters \cup Agents \cup Verifiers

VARIABLES
    epoch,      \* Chain::current_epoch
    swept,      \* last epoch whose sweep is done
    native,     \* HONE balances
    credit,     \* agent_credit:{account}
    task,       \* agent_task:{task_id}, or NoTask
    bid,        \* agent_task_bid:{task_id}:{agent}: the set of the fee bid, or {}
    todo,       \* writes that the entry under write_lock, and the sweep, have still to do
    sweeping,   \* is the driver sweeping?
    scan,       \* late tasks the sweep has read and not handled: [id, was]
    dead,       \* the driver has panicked
    crashes

moneyVars == <<native, credit>>
taskVars == <<epoch, swept, moneyVars, task, bid, todo, sweeping, scan, dead, crashes>>

Ended == {"Settled", "Expired"}

TaskInit ==
    /\ epoch = 0 /\ swept = 0
    /\ native = [a \in People |-> IF a \in Requesters THEN Funds ELSE 0]
    /\ credit = [a \in People |-> 0]
    /\ task = [t \in Tasks |-> NoTask] /\ bid = [t \in Tasks |-> [a \in Agents |-> {}]]
    /\ todo = [user |-> <<>>, sweep |-> <<>>] /\ sweeping = FALSE /\ scan = {} /\ dead = FALSE
    /\ crashes = 0
------------------------------------------------------------------------------
(* Writes *)

\* Changes of who's HONE and credit.
Hone(who, n) == [op |-> "move", who |-> who, hone |-> n, cr |-> 0]
AddCredit(who, n) == [op |-> "move", who |-> who, hone |-> 0, cr |-> n]
Save(t, r) == [op |-> "save", id |-> t, to |-> r]

\* Payments of nothing are left out.
Payments(moves) == SelectSeq(moves, LAMBDA w : w.hone + w.cr > 0)

\* An entry holds write_lock from its checks to its last write.
Free == todo.user = <<>> /\ (Overlap \/ ~sweeping)
Begin(writes) == /\ Free /\ todo' = [todo EXCEPT !.user = writes]
                 /\ UNCHANGED <<epoch, swept, moneyVars, task, bid, sweeping, scan, dead, crashes>>

Write(actor) ==
    /\ todo[actor] # <<>> /\ todo' = [todo EXCEPT ![actor] = Tail(@)]
    /\ LET w == Head(todo[actor]) IN
       \/ /\ w.op = "move"
          /\ native' = [native EXCEPT ![w.who] = @ + w.hone]
          /\ credit' = [credit EXCEPT ![w.who] = @ + w.cr]
          /\ UNCHANGED task
       \/ /\ w.op = "save"
          /\ task' = [task EXCEPT ![w.id] = w.to]
          /\ UNCHANGED moneyVars
    /\ UNCHANGED <<epoch, swept, bid, sweeping, scan, dead, crashes>>

\* The process stops and starts again: the sweep of the epoch will run again.
Crash ==
    /\ crashes < MaxCrashes /\ (todo.user # <<>> \/ todo.sweep # <<>> \/ dead)
    /\ crashes' = crashes + 1
    /\ todo' = [user |-> <<>>, sweep |-> <<>>] /\ sweeping' = FALSE /\ scan' = {} /\ dead' = FALSE
    /\ UNCHANGED <<epoch, swept, moneyVars, task, bid>>
------------------------------------------------------------------------------
(* Entries *)

AgentCreditDeposit(a, n) == native[a] >= n /\ Begin(<<Hone(a, -n), AddCredit(a, n)>>)

AgentCreditWithdraw(a, n) == credit[a] >= n /\ Begin(<<AddCredit(a, -n), Hone(a, n)>>)

NewTask(r, max, min) ==
    [requester |-> r, max |-> max, agreed |-> 0, min |-> min, posted |-> epoch,
     deadline |-> epoch + Deadline, status |-> "Open", agent |-> {}, hash |-> {},
     commits |-> {}, reveals |-> <<>>]

AgentTaskPost(t, r, max, min) ==
    /\ task[t] = NoTask /\ credit[r] >= max
    /\ Begin(<<AddCredit(r, -max), Save(t, NewTask(r, max, min))>>)

Is(t, statuses) == task[t] # NoTask /\ task[t].status \in statuses

\* An entry that writes one record.
Put(t, r) == /\ Free /\ task' = [task EXCEPT ![t] = r]
             /\ UNCHANGED <<epoch, swept, moneyVars, bid, todo, sweeping, scan, dead, crashes>>

AgentTaskBid(t, a, fee, e) ==
    /\ Is(t, {"Open"}) /\ fee <= task[t].max /\ e <= task[t].posted + Window
    /\ Free /\ bid' = [bid EXCEPT ![t][a] = {fee}]
    /\ UNCHANGED <<epoch, swept, moneyVars, task, todo, sweeping, scan, dead, crashes>>

Agreeable(t, a, fee) ==
    Is(t, {"Open"}) /\ fee <= task[t].max /\ \E b \in bid[t][a] : fee <= b

AgentTaskAssign(t, a, fee) ==
    /\ Agreeable(t, a, fee)
    /\ Put(t, [task[t] EXCEPT !.agent = {a}, !.agreed = fee, !.status = "Assigned"])

AgentTaskSubmit(t, a, h) ==
    /\ Is(t, {"Assigned"}) /\ task[t].agent = {a}
    /\ Put(t, [task[t] EXCEPT !.hash = {h}, !.status = "Submitted"])

AgentTaskVerifierCommit(t, v, h) ==
    /\ Is(t, {"Submitted", "Verifying"})
    /\ \A c \in task[t].commits : c.by # v
    /\ Put(t, [task[t] EXCEPT !.commits = @ \cup {[by |-> v, hash |-> h]}, !.status = "Verifying"])

Winners(r, h) == SelectSeq(r.reveals, LAMBDA x : x.hash = h)
\* max_by_key over a HashMap: any of the most frequent hashes.
Winning(r) == {h \in Hashes : \A g \in Hashes : Len(Winners(r, g)) <= Len(Winners(r, h))}

Cut(r) == (r.agreed * CutPct) \div 100
PerVerifier(r, h) == Cut(r) \div Len(Winners(r, h))

AgentFee(r, h) == IF r.hash = {h} THEN r.agreed - Cut(r) ELSE 0

\* saturating_sub
Minus(m, n) == IF m < n THEN 0 ELSE m - n
\* Mutant: what the division leaves over is not given back.
RefundLess(r, h) == Minus(Minus(r.max, AgentFee(r, h)), Cut(r))
Refund(r, h) == Minus(Minus(r.max, AgentFee(r, h)), PerVerifier(r, h) * Len(Winners(r, h)))

\* try_settle pays the agent, the verifiers of the winning hash and the requester,
\* and then saves the task.
SettleWrites(t, r, h) ==
    Payments(<<Hone(CHOOSE a \in r.agent : TRUE, AgentFee(r, h))>>
             \o [i \in DOMAIN Winners(r, h) |-> Hone(Winners(r, h)[i].by, PerVerifier(r, h))]
             \o <<AddCredit(r.requester, Refund(r, h))>>)
    \o <<Save(t, [r EXCEPT !.status = "Settled"])>>

Enough(r) == r.status = "Verifying" /\ Len(r.reveals) >= r.min

\* A reveal of what was committed, once; the task is settled at once when it can be.
AgentTaskVerifierReveal(t, v, h) ==
    /\ Is(t, {"Verifying"}) /\ [by |-> v, hash |-> h] \in task[t].commits
    /\ \A i \in DOMAIN task[t].reveals : task[t].reveals[i].by # v
    /\ LET r == [task[t] EXCEPT !.reveals = Append(@, [by |-> v, hash |-> h])] IN
       \/ Enough(r) /\ \E g \in Winning(r) : Begin(<<Save(t, r)>> \o SettleWrites(t, r, g))
       \/ ~Enough(r) /\ Begin(<<Save(t, r)>>)
------------------------------------------------------------------------------
(* The sweep *)

\* Mutant: only a task no agent has is late.
LateUnassigned(r, e) == r # NoTask /\ r.status = "Open" /\ e > r.deadline + Buffer
Late(r, e) == r # NoTask /\ r.status \notin Ended /\ e > r.deadline + Buffer

\* sweep_expired reads every task before it handles the first.
SweepScan ==
    /\ ~dead /\ ~sweeping /\ swept < epoch
    /\ Overlap \/ todo.user = <<>>
    /\ sweeping' = TRUE
    /\ scan' = {[id |-> t, was |-> task[t]] : t \in {u \in Tasks : Late(task[u], swept + 1)}}
    /\ UNCHANGED <<epoch, swept, moneyVars, task, bid, todo, dead, crashes>>

Expired(r) == [r EXCEPT !.status = "Expired", !.max = 0]
RefundWrites(s) == <<AddCredit(s.was.requester, s.was.max), Save(s.id, Expired(s.was))>>

\* One late task: settled if its reveals are in, and it still can be; else its fee is
\* refunded and the record written as it was read.  Without a reveal the tally has no
\* maximum and the driver panics.
SweepOne(s) ==
    /\ sweeping /\ ~dead /\ todo.sweep = <<>> /\ s \in scan /\ scan' = scan \ {s}
    /\ LET try == Enough(s.was) /\ Enough(task[s.id]) IN
       \/ /\ try /\ task[s.id].reveals # <<>> /\ UNCHANGED dead
          /\ \E h \in Winning(task[s.id]) :
                todo' = [todo EXCEPT !.sweep = SettleWrites(s.id, task[s.id], h)]
       \/ /\ try /\ task[s.id].reveals = <<>>
          /\ dead' = TRUE /\ UNCHANGED todo
       \/ /\ ~try /\ todo' = [todo EXCEPT !.sweep = RefundWrites(s)] /\ UNCHANGED dead
    /\ UNCHANGED <<epoch, swept, moneyVars, task, bid, sweeping, crashes>>

SweepEnd ==
    /\ sweeping /\ ~dead /\ scan = {} /\ todo.sweep = <<>>
    /\ sweeping' = FALSE /\ swept' = swept + 1
    /\ UNCHANGED <<epoch, moneyVars, task, bid, todo, scan, dead, crashes>>

EpochFinal ==
    /\ epoch < MaxEpoch /\ epoch' = epoch + 1
    /\ UNCHANGED <<swept, moneyVars, task, bid, todo, sweeping, scan, dead, crashes>>

Sweep == SweepScan \/ (\E s \in scan : SweepOne(s)) \/ SweepEnd \/ Write("sweep")
------------------------------------------------------------------------------
TaskNext ==
    \/ \E r \in Requesters, m \in MaxFees :
          \/ AgentCreditDeposit(r, m) \/ AgentCreditWithdraw(r, m)
          \/ \E t \in Tasks, n \in MinVerifiers : AgentTaskPost(t, r, m, n)
    \/ \E t \in Tasks, a \in Agents :
          \/ \E f \in Fees : AgentTaskAssign(t, a, f) \/ \E e \in 0..epoch : AgentTaskBid(t, a, f, e)
          \/ \E h \in Hashes : AgentTaskSubmit(t, a, h)
    \/ \E t \in Tasks, v \in Verifiers, h \in Hashes :
          AgentTaskVerifierCommit(t, v, h) \/ AgentTaskVerifierReveal(t, v, h)
    \/ Write("user") \/ Sweep \/ EpochFinal \/ Crash

------------------------------------------------------------------------------
(* What holds *)

Total ==
    LET live == {t \in Tasks : task[t] # NoTask /\ task[t].status \notin Ended}
    IN  MapThenSumSet(LAMBDA a : native[a] + credit[a], People)
        + MapThenSumSet(LAMBDA t : task[t].max, live)
Quiet == todo.user = <<>> /\ todo.sweep = <<>>

\* What accounts hold, in HONE and in credit, and what live tasks have reserved adds
\* up to what there was: a settlement divides the fee to the last unit, whichever
\* hash wins and however the cut divides (agent_task.rs 314-343).  A stop between two
\* writes loses a sum that was in flight, or pays one fee once more.  No balance is
\* ever overdrawn.
FeesConserved ==
    LET start == Funds * Cardinality(Requesters)
    IN  /\ Quiet /\ crashes = 0 => Total = start
        /\ Quiet => Total <= start + crashes * Max(MaxFees)
        /\ \A a \in People : native[a] >= 0 /\ credit[a] >= 0

\* main.rs 1838-1839: "Refunds/slashes are delayed to finalization, never dropped":
\* every task ends, and stays ended though the sweep writes back records it read
\* earlier, if epochs keep being finalised and no task asks for no verifier.
TasksEnd ==
    [](\A t \in Tasks : task[t] # NoTask => task[t].min > 0) =>
        \A t \in Tasks : (task[t] # NoTask /\ task[t].deadline + Buffer < MaxEpoch)
                            ~> [](task[t] # NoTask /\ task[t].status \in Ended)
------------------------------------------------------------------------------
(* What the comments claim *)

\* main.rs 1838-1839, of every task.
NeverDropped == ~dead

\* agent_task.rs 11: "When min_verifiers majority is reached".
SettledByMajority ==
    \A t \in Tasks : task[t] # NoTask /\ task[t].status = "Settled" =>
        \E h \in Hashes : 2 * Len(Winners(task[t], h)) > Len(task[t].reveals)
=============================================================================
