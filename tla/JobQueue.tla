------------------------------ MODULE JobQueue ------------------------------
(***************************************************************************)
(* The durable job queue: the SQLite tables job_queue and job_executions   *)
(* (crates/atlas-store), the item transitions of crates/atlas-queue and    *)
(* the loop of apps/worker that claims, runs and closes items.             *)
(*                                                                         *)
(* Every SQL statement commits on its own, so every statement is a step    *)
(* and any number of worker processes interleave between two statements.   *)
(* A worker may die at any of those points: by a kill, or because a store  *)
(* call returned an error and `?` ended the process.                       *)
(*                                                                         *)
(* lease_expires_at is left out: claim writes it, nothing ever reads it.   *)
(***************************************************************************)
EXTENDS Naturals, FiniteSets

CONSTANTS
  Workers,      \* worker processes
  Jobs,         \* jobs a dispatch can be for
  QueueIds,     \* the UUIDs enqueued rows will get
  MaxAttempts,  \* max_attempts of a dispatch
  RetryDelay,   \* retry_delay_seconds given to mark_job_queue_failed
  MaxCrashes,   \* bound: how many worker or producer deaths a behaviour has
  NoWorker,     \* claimed_by = NULL
  NoJob,        \* job of a row not inserted yet
  NoItem        \* what an idle worker works on

ASSUME QueueAssumption ==
  /\ MaxAttempts \in Nat \ {0}
  /\ RetryDelay \in Nat
  /\ MaxCrashes \in Nat
  /\ NoWorker \notin Workers
  /\ NoJob \notin Jobs
  /\ NoItem \notin QueueIds

VARIABLES
  queue,        \* table job_queue: [QueueIds -> Row]
  executions,   \* table job_executions: how many of each record a queue id has
  unlogged,     \* rows whose producer has not yet appended the first record
  worker,       \* local state of each worker process
  now,          \* the wall clock, in units of RetryDelay's unit
  crashes       \* deaths so far

queueVars == <<queue, executions, unlogged, worker, now, crashes>>

(***************************************************************************)
(* Rows and local state                                                    *)
(***************************************************************************)
Active == {"pending", "claimed", "running"}
Terminal == {"succeeded", "failed"}
Status == {"absent"} \cup Active \cup Terminal

Row == [status : Status, attempts : Nat, available_at : Nat, created_at : Nat,
        claimed_by : Workers \cup {NoWorker}, job : Jobs \cup {NoJob}]

AbsentRow == [status |-> "absent", attempts |-> 0, available_at |-> 0,
              created_at |-> 0, claimed_by |-> NoWorker, job |-> NoJob]

(* What a job_executions row records. Both the row an enqueue appends and  *)
(* the one a retried failure appends have status pending; the second has   *)
(* finished_at and error_message set.                                      *)
Records == {"enqueued", "claimed", "running", "retried", "succeeded", "failed"}

(* Where a worker stands; mark names the mark_* call it is inside.         *)
Steps == {"idle", "selected", "get", "update", "log", "executing", "touch"}
Marks == {"none", "claimed", "running", "succeeded", "failed"}

Local == [step : Steps, mark : Marks, item : QueueIds \cup {NoItem}, row : Row]

IdleWorker == [step |-> "idle", mark |-> "none", item |-> NoItem, row |-> AbsentRow]

QueueInit ==
  /\ queue = [q \in QueueIds |-> AbsentRow]
  /\ executions = [q \in QueueIds |-> [r \in Records |-> 0]]
  /\ unlogged = {}
  /\ worker = [w \in Workers |-> IdleWorker]
  /\ now = 0
  /\ crashes = 0

(***************************************************************************)
(* Transitions of an item, as crates/atlas-queue computes them             *)
(***************************************************************************)
Dispatched(j) ==
  [status |-> "pending", attempts |-> 0, available_at |-> now,
   created_at |-> now, claimed_by |-> NoWorker, job |-> j]

Claimed(row, w) == [row EXCEPT !.status = "claimed", !.claimed_by = w]

Started(row) == [row EXCEPT !.status = "running"]

Succeeded(row) == [row EXCEPT !.status = "succeeded"]

(* Mutant: one attempt too many.                                           *)
ExhaustedLate(row) == row.attempts + 1 > MaxAttempts

Exhausted(row) == row.attempts + 1 >= MaxAttempts

Failed(row) ==
  [row EXCEPT !.attempts = @ + 1,
              !.claimed_by = NoWorker,
              !.status = IF Exhausted(row) THEN "failed" ELSE "pending",
              !.available_at = IF Exhausted(row) THEN @ ELSE now + RetryDelay]

(***************************************************************************)
(* Producing: enqueue_job_dispatch_scoped inserts the row, then appends    *)
(* the first execution record in a second statement.                       *)
(***************************************************************************)
Enqueue(q, j) ==
  /\ queue[q].status = "absent"
  /\ queue' = [queue EXCEPT ![q] = Dispatched(j)]
  /\ unlogged' = unlogged \cup {q}
  /\ UNCHANGED <<executions, worker, now, crashes>>

LogEnqueue(q) ==
  /\ q \in unlogged
  /\ executions' = [executions EXCEPT ![q]["enqueued"] = @ + 1]
  /\ unlogged' = unlogged \ {q}
  /\ UNCHANGED <<queue, worker, now, crashes>>

ProducerCrash(q) ==
  /\ q \in unlogged
  /\ crashes < MaxCrashes
  /\ crashes' = crashes + 1
  /\ unlogged' = unlogged \ {q}
  /\ UNCHANGED <<queue, executions, worker, now>>

(***************************************************************************)
(* Claiming: the SELECT and the UPDATE of claim_next_job_queue_item        *)
(***************************************************************************)
(* Mutants: available_at is not compared; the last attempt is not offered. *)
DueAnytime(row) == row.status = "pending"
DueButLast(row) ==
  row.status = "pending" /\ row.available_at <= now /\ row.attempts + 1 < MaxAttempts

Due(row) == row.status = "pending" /\ row.available_at <= now

(* ORDER BY available_at, created_at; rows of one instant come in any order. *)
Before(r1, r2) ==
  \/ r1.available_at < r2.available_at
  \/ r1.available_at = r2.available_at /\ r1.created_at < r2.created_at

FirstDue(q) ==
  /\ Due(queue[q])
  /\ \A p \in QueueIds : Due(queue[p]) => ~Before(queue[p], queue[q])

SelectCandidate(w, q) ==
  /\ worker[w].step = "idle"
  /\ FirstDue(q)
  /\ worker' = [worker EXCEPT ![w] = [step |-> "selected", mark |-> "none",
                                      item |-> q, row |-> queue[q]]]
  /\ UNCHANGED <<queue, executions, unlogged, now, crashes>>

(* Mutants: the UPDATE matches the row whatever its status, or any row not *)
(* closed yet.                                                             *)
ClaimMatchesAny(q) == TRUE
ClaimMatchesActive(q) == queue[q].status \in Active

(* WHERE queue_id = ?6 AND status = 'pending'                              *)
ClaimMatches(q) == queue[q].status = "pending"

ClaimCandidate(w) ==
  LET q == worker[w].item IN
  /\ worker[w].step = "selected"
  /\ ClaimMatches(q)
  /\ queue' = [queue EXCEPT ![q] = Claimed(@, w)]
  /\ worker' = [worker EXCEPT ![w] = [step |-> "log", mark |-> "claimed", item |-> q,
                                      row |-> Claimed(worker[w].row, w)]]
  /\ UNCHANGED <<executions, unlogged, now, crashes>>

(* The UPDATE matched no row: the claim returns None.                      *)
LoseCandidate(w) ==
  /\ worker[w].step = "selected"
  /\ ~ClaimMatches(worker[w].item)
  /\ worker' = [worker EXCEPT ![w] = IdleWorker]
  /\ UNCHANGED <<queue, executions, unlogged, now, crashes>>

(***************************************************************************)
(* mark_job_queue_running, _succeeded and _failed: each reads the row,     *)
(* updates it by queue_id alone and appends an execution record.           *)
(***************************************************************************)
GetItem(w) ==
  /\ worker[w].step = "get"
  /\ worker' = [worker EXCEPT ![w].step = "update", ![w].row = queue[worker[w].item]]
  /\ UNCHANGED <<queue, executions, unlogged, now, crashes>>

Marked(mark, row) ==
  CASE mark = "running"   -> Started(row)
    [] mark = "succeeded" -> Succeeded(row)
    [] OTHER              -> Failed(row)

(* Mutant: the UPDATE of a failure does not set attempts.                  *)
WrittenUncounted(mark, old, new) ==
  [old EXCEPT !.status = new.status, !.available_at = new.available_at,
              !.claimed_by = IF mark = "failed" THEN NoWorker ELSE @]

(* The columns each UPDATE sets; running and succeeded set the status only. *)
Written(mark, old, new) ==
  IF mark = "failed"
  THEN [old EXCEPT !.status = new.status, !.attempts = new.attempts,
                   !.available_at = new.available_at, !.claimed_by = NoWorker]
  ELSE [old EXCEPT !.status = new.status]

UpdateItem(w) ==
  LET me == worker[w]
      new == Marked(me.mark, me.row) IN
  /\ me.step = "update"
  /\ queue' = [queue EXCEPT ![me.item] = Written(me.mark, @, new)]
  /\ worker' = [worker EXCEPT ![w] = [step |-> "log", mark |-> me.mark,
                                      item |-> me.item, row |-> new]]
  /\ UNCHANGED <<executions, unlogged, now, crashes>>

AfterLog(me) ==
  CASE me.mark = "claimed" -> [me EXCEPT !.step = "get", !.mark = "running"]
    [] me.mark = "running" -> [me EXCEPT !.step = "executing", !.mark = "none"]
    [] OTHER               -> IdleWorker

(* Mutant: mark_job_queue_running records the status it found.             *)
RecordOfStale(me) == IF me.mark = "running" THEN "claimed" ELSE me.mark

RecordOf(me) ==
  IF me.mark = "failed" /\ me.row.status = "pending" THEN "retried" ELSE me.mark

AppendExecution(w) ==
  LET me == worker[w] IN
  /\ me.step = "log"
  /\ executions' = [executions EXCEPT ![me.item][RecordOf(me)] = @ + 1]
  /\ worker' = [worker EXCEPT ![w] = AfterLog(me)]
  /\ UNCHANGED <<queue, unlogged, now, crashes>>

(***************************************************************************)
(* Running: execute_queue_item ends Ok or Err; an Ok touches the job       *)
(* before the item is marked.                                              *)
(***************************************************************************)
ExecutionSucceeds(w) ==
  /\ worker[w].step = "executing"
  /\ worker' = [worker EXCEPT ![w].step = "touch"]
  /\ UNCHANGED <<queue, executions, unlogged, now, crashes>>

ExecutionFails(w) ==
  /\ worker[w].step = "executing"
  /\ worker' = [worker EXCEPT ![w].step = "get", ![w].mark = "failed"]
  /\ UNCHANGED <<queue, executions, unlogged, now, crashes>>

(* touch_job_run_scoped writes the jobs table, which ControlPlane models.  *)
TouchJob(w) ==
  /\ worker[w].step = "touch"
  /\ worker' = [worker EXCEPT ![w].step = "get", ![w].mark = "succeeded"]
  /\ UNCHANGED <<queue, executions, unlogged, now, crashes>>

(* The process dies and a new one, knowing nothing, takes its place.       *)
WorkerCrash(w) ==
  /\ worker[w].step # "idle"
  /\ crashes < MaxCrashes
  /\ crashes' = crashes + 1
  /\ worker' = [worker EXCEPT ![w] = IdleWorker]
  /\ UNCHANGED <<queue, executions, unlogged, now>>

(* Nothing here reads the clock but available_at, so it only advances      *)
(* while a row waits for it.                                               *)
Tick ==
  /\ \E q \in QueueIds : queue[q].status = "pending" /\ queue[q].available_at > now
  /\ now' = now + 1
  /\ UNCHANGED <<queue, executions, unlogged, worker, crashes>>

WorkerStep(w) ==
  \/ \E q \in QueueIds : SelectCandidate(w, q)
  \/ ClaimCandidate(w)
  \/ LoseCandidate(w)
  \/ GetItem(w)
  \/ UpdateItem(w)
  \/ AppendExecution(w)
  \/ ExecutionSucceeds(w)
  \/ ExecutionFails(w)
  \/ TouchJob(w)

QueueNext ==
  \/ \E q \in QueueIds :
       \/ \E j \in Jobs : Enqueue(q, j)
       \/ LogEnqueue(q)
       \/ ProducerCrash(q)
  \/ \E w \in Workers : WorkerStep(w) \/ WorkerCrash(w)
  \/ Tick

QueueSpec == QueueInit /\ [][QueueNext]_queueVars

(* The worker loop never stops by itself, a scan ends (its lookups and     *)
(* requests have timeouts) and time passes.                                *)
QueueFairness ==
  /\ \A w \in Workers : WF_queueVars(WorkerStep(w))
  /\ WF_queueVars(Tick)

FairQueueSpec == QueueSpec /\ QueueFairness

(***************************************************************************)
(* Properties                                                              *)
(***************************************************************************)
TypeOK ==
  /\ queue \in [QueueIds -> Row]
  /\ executions \in [QueueIds -> [Records -> Nat]]
  /\ unlogged \subseteq QueueIds
  /\ worker \in [Workers -> Local]
  /\ now \in Nat
  /\ crashes \in 0 .. MaxCrashes

(* From the UPDATE that claims an item to the UPDATE that closes it.       *)
Holds(w) ==
  \/ worker[w].step \in {"get", "update", "executing", "touch"}
  \/ worker[w].step = "log" /\ worker[w].mark \in {"claimed", "running"}

(* No two workers run one item: claim_next_job_queue_item has no           *)
(* transaction around its SELECT and UPDATE, and the mark_* calls update   *)
(* by queue_id without looking at claimed_by.                              *)
SingleOwner ==
  \A v, w \in Workers :
    Holds(v) /\ Holds(w) /\ worker[v].item = worker[w].item => v = w

(* mark_job_queue_running has not updated the row yet.                     *)
BeforeRunning(me) ==
  \/ me.mark = "claimed"
  \/ me.mark = "running" /\ me.step # "log"

(* The row agrees with the worker that runs it: it names that worker and   *)
(* is claimed until mark_job_queue_running, running from then on.          *)
HeldRowIsMine ==
  \A w \in Workers : Holds(w) =>
    LET me == worker[w]  row == queue[me.item] IN
    /\ row.claimed_by = w
    /\ row.status = IF BeforeRunning(me) THEN "claimed" ELSE "running"

(* attempts and status agree on every row: an item is failed exactly when  *)
(* it has used its max_attempts, and one that may still run has some left. *)
AttemptsWithinBudget ==
  \A q \in QueueIds :
    /\ queue[q].attempts <= MaxAttempts
    /\ (queue[q].status = "failed") <=> (queue[q].attempts = MaxAttempts)

(* An item is started at most max_attempts times: every claim but the one  *)
(* under way, or the one that succeeded, has been paid for by an attempt.  *)
ClaimsWithinBudget ==
  \A q \in QueueIds :
    executions[q]["claimed"]
      <= queue[q].attempts
           + IF queue[q].status \in {"claimed", "running", "succeeded"} THEN 1 ELSE 0

FailuresRecorded(q) == executions[q]["retried"] + executions[q]["failed"]

(* Workers that have counted a failure of q and not recorded it yet.       *)
Recording(q) ==
  {w \in Workers : /\ worker[w].step = "log"
                   /\ worker[w].mark = "failed"
                   /\ worker[w].item = q}

(* The execution history never overstates: failures recorded or about to   *)
(* be are attempts counted, all of them while no process died, and a       *)
(* success is recorded once, of an item that did succeed.                  *)
HistoryMatchesQueue ==
  \A q \in QueueIds :
    /\ FailuresRecorded(q) + Cardinality(Recording(q)) <= queue[q].attempts
    /\ crashes = 0 =>
         FailuresRecorded(q) + Cardinality(Recording(q)) = queue[q].attempts
    /\ executions[q]["succeeded"] <= IF queue[q].status = "succeeded" THEN 1 ELSE 0

(* A closed item is never touched again, whatever a slow worker still      *)
(* believes about it.                                                      *)
TerminalIsFinal ==
  [][\A q \in QueueIds :
       queue[q].status \in Terminal => queue'[q] = queue[q]]_queueVars

(* The retry delay of a failed item binds every claim but one: that of a   *)
(* worker whose SELECT saw the row before that failure. The UPDATE of      *)
(* claim_next_job_queue_item tests the status and not available_at.        *)
EarlyClaimIsStale ==
  [][\A w \in Workers :
       ClaimCandidate(w) =>
         \/ queue[worker[w].item].available_at <= now
         \/ worker[w].row.attempts < queue[worker[w].item].attempts]_queueVars

(* An item whose worker died. Its lease runs out, but no code looks.       *)
Stranded(q) ==
  /\ queue[q].status \in {"claimed", "running"}
  /\ \A w \in Workers : ~(Holds(w) /\ worker[w].item = q)

(* Nobody takes over a stranded item: neither a new worker nor the same    *)
(* worker id restarted moves it again.                                     *)
StrandedIsForever ==
  [][\A q \in QueueIds :
       Stranded(q) => Stranded(q)' /\ queue'[q] = queue[q]]_queueVars

(* Every dispatch is run to an end, unless a death strands it: lost claim  *)
(* races, retries and the delay only postpone it.                          *)
EveryDispatchEnds ==
  \A q \in QueueIds :
    queue[q].status = "pending" ~> (queue[q].status \in Terminal \/ Stranded(q))

(* The queue implements the promise of DispatchLifecycle.                  *)
PhaseOf(row) ==
  CASE row.status = "absent"    -> "unknown"
    [] row.status = "pending"   -> "ready"
    [] row.status = "succeeded" -> "done"
    [] row.status = "failed"    -> "buried"
    [] OTHER                    -> "held"

Lifecycle == INSTANCE DispatchLifecycle WITH
  phase    <- [q \in QueueIds |-> PhaseOf(queue[q])],
  holder   <- [q \in QueueIds |->
                 IF PhaseOf(queue[q]) = "held" THEN queue[q].claimed_by ELSE NoWorker],
  failures <- [q \in QueueIds |-> queue[q].attempts]

(* Whatever the workers' interleaving and deaths, each dispatch goes       *)
(* through hand-overs to one worker, retries and one end.                  *)
ImplementsLifecycle == Lifecycle!LifecycleSpec
=============================================================================
