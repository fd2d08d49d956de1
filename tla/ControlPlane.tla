----------------------------- MODULE ControlPlane -----------------------------
(***************************************************************************)
(* The jobs table and everything that writes it or enqueues from it: the   *)
(* scheduler tick (apps/scheduler), the job handlers of the API and the    *)
(* job commands of the CLI, and the worker's touch_job_run.                *)
(*                                                                         *)
(* The queue is taken at the level of DispatchLifecycle, which JobQueue    *)
(* implements: a dispatch is active while it is ready or held, and the     *)
(* dispatch of a dead worker stays held for ever (it is in lost).          *)
(***************************************************************************)
EXTENDS DispatchLifecycle, FiniteSets

CONSTANTS
  Schedulers,   \* scheduler processes
  Admins,       \* the API process, which serves one request at a time, and CLIs
  Jobs,         \* job identifiers
  Interval,     \* interval_seconds of every job
  MaxTime,      \* bound: the clock stops here
  MaxEdits,     \* bound: requests the admins make
  MaxDeaths,    \* bound: worker and scheduler deaths
  Never,        \* last_run_at = NULL
  NoJob         \* no job in hand; the job of an identifier not used yet

ASSUME ControlAssumption ==
  /\ Interval \in Nat \ {0}
  /\ MaxTime \in Nat /\ MaxEdits \in Nat /\ MaxDeaths \in Nat
  /\ Never \notin Nat
  /\ NoJob \notin Jobs
  /\ Schedulers \cap Admins = {}

VARIABLES
  jobs,         \* table jobs
  jobOf,        \* job_id of each dispatch
  producer,     \* the process that inserted each dispatch
  touched,      \* held dispatches whose run succeeded and touched the job
  lost,         \* held dispatches whose worker died
  scheduler,    \* local state of each scheduler
  admin,        \* local state of each admin
  now,
  edits,        \* requests made so far
  deaths,       \* deaths so far
  lastTouches,  \* history: per job, the times of the last two touches by workers
  late          \* history: dispatches schedulers inserted for a job turned off

controlVars == <<phase, holder, failures, jobs, jobOf, producer, touched, lost,
                 scheduler, admin, now, edits, deaths, lastTouches, late>>

queueSide == <<phase, holder, failures, jobOf, producer, touched, lost>>
workerSide == <<touched, lost>>
history == <<lastTouches, late>>

(***************************************************************************)
(* Rows and local state                                                    *)
(***************************************************************************)
Time == Nat \cup {Never}
JobRow == [stored : BOOLEAN, enabled : BOOLEAN, last_run_at : Time]

(* No row: of an identifier not used yet, and of one whose row is deleted. *)
Unborn == [stored |-> FALSE, enabled |-> FALSE, last_run_at |-> Never]
Deleted == [stored |-> FALSE, enabled |-> TRUE, last_run_at |-> Never]

(* A tick lists the jobs once, then checks and enqueues them one by one.   *)
SchedulerState == [step : {"idle", "scan", "insert"}, todo : SUBSET Jobs,
                   job : Jobs \cup {NoJob}]
IdleScheduler == [step |-> "idle", todo |-> {}, job |-> NoJob]

(* What an admin does with the job row it has read.                        *)
Intents == {"none", "enable", "disable", "enqueue", "run"}
AdminState == [intent : Intents, job : Jobs \cup {NoJob}, row : JobRow]
IdleAdmin == [intent |-> "none", job |-> NoJob, row |-> Unborn]

ControlInit ==
  /\ LifecycleInit
  /\ jobs = [j \in Jobs |-> Unborn]
  /\ jobOf = [q \in QueueIds |-> NoJob]
  /\ producer = [q \in QueueIds |-> NoJob]
  /\ touched = {} /\ lost = {}
  /\ scheduler = [s \in Schedulers |-> IdleScheduler]
  /\ admin = [a \in Admins |-> IdleAdmin]
  /\ now = 0 /\ edits = 0 /\ deaths = 0
  /\ lastTouches = [j \in Jobs |-> <<Never, Never>>]
  /\ late = {}

(* Mutant: last_run_at is not looked at.                                   *)
IsDueAtOnce(row, t) == row.enabled

(* is_due_at; a job never run is due from its creation on.                 *)
IsDueAt(row, t) ==
  /\ row.enabled
  /\ row.last_run_at # Never => row.last_run_at + Interval <= t

(* Mutant: only pending items count.                                       *)
HasPending(j) == \E q \in QueueIds : jobOf[q] = j /\ phase[q] = "ready"

(* job_has_active_queue_item_scoped: pending, claimed or running.          *)
HasActive(j) == \E q \in QueueIds : jobOf[q] = j /\ phase[q] \in {"ready", "held"}

(***************************************************************************)
(* The scheduler                                                           *)
(***************************************************************************)
ListJobs(s) ==
  /\ scheduler[s].step = "idle"
  /\ scheduler' = [scheduler EXCEPT
       ![s] = [step |-> "scan", job |-> NoJob,
               todo |-> {j \in Jobs : jobs[j].stored /\ IsDueAt(jobs[j], now)}]]
  /\ UNCHANGED <<queueSide, jobs, admin, now, edits, deaths, history>>

(* Mutant: finished items count as well.                                   *)
CheckJobAny(s, j) ==
  LET seen == \E q \in QueueIds : jobOf[q] = j IN
  /\ scheduler[s].step = "scan"
  /\ j \in scheduler[s].todo
  /\ scheduler' = [scheduler EXCEPT
       ![s] = [step |-> IF seen THEN "scan" ELSE "insert",
               todo |-> scheduler[s].todo \ {j},
               job |-> IF seen THEN NoJob ELSE j]]
  /\ UNCHANGED <<queueSide, jobs, admin, now, edits, deaths, history>>

CheckJob(s, j) ==
  /\ scheduler[s].step = "scan"
  /\ j \in scheduler[s].todo
  /\ scheduler' = [scheduler EXCEPT
       ![s] = [step |-> IF HasActive(j) THEN "scan" ELSE "insert",
               todo |-> scheduler[s].todo \ {j},
               job |-> IF HasActive(j) THEN NoJob ELSE j]]
  /\ UNCHANGED <<queueSide, jobs, admin, now, edits, deaths, history>>

(* The row enqueue_job_dispatch_scoped inserts for process p.              *)
InsertDispatch(q, j, p) ==
  /\ Submit(q)
  /\ jobOf' = [jobOf EXCEPT ![q] = j]
  /\ producer' = [producer EXCEPT ![q] = p]
  /\ UNCHANGED workerSide

TurnedOff(j) == ~jobs[j].stored \/ ~jobs[j].enabled

EnqueueScheduled(s, q) ==
  /\ scheduler[s].step = "insert"
  /\ InsertDispatch(q, scheduler[s].job, s)
  /\ scheduler' = [scheduler EXCEPT ![s] = [step |-> "scan", job |-> NoJob,
                                            todo |-> scheduler[s].todo]]
  /\ late' = IF TurnedOff(scheduler[s].job) THEN late \cup {q} ELSE late
  /\ UNCHANGED <<jobs, admin, now, edits, deaths, lastTouches>>

EndTick(s) ==
  /\ scheduler[s].step = "scan"
  /\ scheduler[s].todo = {}
  /\ scheduler' = [scheduler EXCEPT ![s] = IdleScheduler]
  /\ UNCHANGED <<queueSide, jobs, admin, now, edits, deaths, history>>

SchedulerDies(s) ==
  /\ scheduler[s].step # "idle"
  /\ deaths < MaxDeaths
  /\ deaths' = deaths + 1
  /\ scheduler' = [scheduler EXCEPT ![s] = IdleScheduler]
  /\ UNCHANGED <<queueSide, jobs, admin, now, edits, history>>

(***************************************************************************)
(* The admins                                                              *)
(***************************************************************************)
Edit(a) == admin[a].intent = "none" /\ edits < MaxEdits /\ edits' = edits + 1

(* Mutant: the identifier is the target alone, and is used again.          *)
CreateJobAgain(a, j) ==
  /\ admin[a].intent = "none"
  /\ ~jobs[j].stored
  /\ jobs' = [jobs EXCEPT ![j] = [stored |-> TRUE, enabled |-> TRUE,
                                  last_run_at |-> Never]]
  /\ UNCHANGED <<queueSide, scheduler, admin, now, edits, deaths, history>>

(* insert_job_scoped is INSERT OR REPLACE: it writes every column, and      *)
(* brings a row deleted meanwhile back to life.                            *)
Insert(j, on, last) ==
  jobs' = [jobs EXCEPT ![j] = [stored |-> TRUE, enabled |-> on, last_run_at |-> last]]

(* A job identifier carries the creation time, so it is never reused.      *)
CreateJob(a, j) ==
  /\ admin[a].intent = "none"
  /\ jobs[j] = Unborn
  /\ \E on \in BOOLEAN : Insert(j, on, Never)
  /\ UNCHANGED <<queueSide, scheduler, admin, now, edits, deaths, history>>

(* Enabling, disabling and running a job begin by loading its row.         *)
LoadJob(a, j, intent) ==
  /\ Edit(a)
  /\ jobs[j].stored
  /\ admin' = [admin EXCEPT ![a] = [intent |-> intent, job |-> j, row |-> jobs[j]]]
  /\ UNCHANGED <<queueSide, jobs, scheduler, now, deaths, history>>

(* Every column is written back as it was read.                            *)
StoreEnabled(a) ==
  /\ admin[a].intent \in {"enable", "disable"}
  /\ Insert(admin[a].job, admin[a].intent = "enable", admin[a].row.last_run_at)
  /\ admin' = [admin EXCEPT ![a] = IdleAdmin]
  /\ late' = IF admin[a].intent = "enable"
             THEN {q \in late : jobOf[q] # admin[a].job} ELSE late
  /\ UNCHANGED <<queueSide, scheduler, now, edits, deaths, lastTouches>>

(* run_job of the API: no check for an active dispatch, none for enabled.  *)
EnqueueManual(a, q) ==
  /\ admin[a].intent = "enqueue"
  /\ InsertDispatch(q, admin[a].job, a)
  /\ admin' = [admin EXCEPT ![a] = IdleAdmin]
  /\ UNCHANGED <<jobs, scheduler, now, edits, deaths, history>>

(* touch_job_run_scoped is an UPDATE, which finds no row of a deleted job. *)
Touch(j) ==
  jobs' = [jobs EXCEPT ![j].last_run_at = IF jobs[j].stored THEN now ELSE @]

(* job-run of the CLI scans in its own process and touches the job.        *)
RunInline(a) ==
  /\ admin[a].intent = "run"
  /\ \/ Touch(admin[a].job)
     \/ UNCHANGED jobs      \* the scan failed
  /\ admin' = [admin EXCEPT ![a] = IdleAdmin]
  /\ UNCHANGED <<queueSide, scheduler, now, edits, deaths, history>>

Remove(j) == jobs' = [jobs EXCEPT ![j] = Deleted]

(* delete_job leaves the job's dispatches alone.                           *)
DeleteJob(a, j) ==
  /\ Edit(a)
  /\ jobs[j].stored
  /\ Remove(j)
  /\ UNCHANGED <<queueSide, scheduler, admin, now, deaths, history>>

(***************************************************************************)
(* The workers                                                             *)
(***************************************************************************)
Busy(w) == \E q \in QueueIds \ lost : phase[q] = "held" /\ holder[q] = w

StartRun(q, w) ==
  /\ ~Busy(w)
  /\ HandOver(q, w)
  /\ UNCHANGED <<workerSide, jobs, jobOf, producer, scheduler, admin, now, edits,
                 deaths, history>>

FailRun(q) ==
  /\ q \notin lost \cup touched
  /\ GiveBack(q)
  /\ UNCHANGED <<workerSide, jobs, jobOf, producer, scheduler, admin, now, edits,
                 deaths, history>>

TouchRun(q) ==
  /\ phase[q] = "held"
  /\ q \notin lost \cup touched
  /\ touched' = touched \cup {q}
  /\ Touch(jobOf[q])
  /\ lastTouches' = [lastTouches EXCEPT ![jobOf[q]] = <<@[2], now>>]
  /\ UNCHANGED <<late, phase, holder, failures, jobOf, producer, lost, scheduler, admin,
                 now, edits, deaths>>

CompleteRun(q) ==
  /\ q \in touched \ lost
  /\ Complete(q)
  /\ touched' = touched \ {q}
  /\ UNCHANGED <<lost, jobs, jobOf, producer, scheduler, admin, now, edits, deaths,
                 history>>

WorkerDies(w) ==
  /\ Busy(w)
  /\ deaths < MaxDeaths
  /\ deaths' = deaths + 1
  /\ lost' = lost \cup {q \in QueueIds : phase[q] = "held" /\ holder[q] = w}
  /\ UNCHANGED <<phase, holder, failures, jobOf, producer, touched, jobs, scheduler,
                 admin, now, edits, history>>

ControlTick ==
  /\ now < MaxTime
  /\ now' = now + 1
  /\ UNCHANGED <<queueSide, jobs, scheduler, admin, edits, deaths, history>>

SchedulerStep(s) ==
  \/ ListJobs(s)
  \/ \E j \in Jobs : CheckJob(s, j)
  \/ \E q \in QueueIds : EnqueueScheduled(s, q)
  \/ EndTick(s)

AdminFinishes(a) ==
  \/ StoreEnabled(a)
  \/ \E q \in QueueIds : EnqueueManual(a, q)
  \/ RunInline(a)

RunStep(q) == FailRun(q) \/ TouchRun(q) \/ CompleteRun(q)

ControlNext ==
  \/ \E s \in Schedulers : SchedulerStep(s) \/ SchedulerDies(s)
  \/ \E a \in Admins :
       \/ AdminFinishes(a)
       \/ \E j \in Jobs : \/ CreateJob(a, j)
                          \/ DeleteJob(a, j)
                          \/ \E i \in Intents \ {"none"} : LoadJob(a, j, i)
  \/ \E q \in QueueIds : RunStep(q) \/ \E w \in Workers : StartRun(q, w)
  \/ \E w \in Workers : WorkerDies(w)
  \/ ControlTick

ControlSpec == ControlInit /\ [][ControlNext]_controlVars

(* The scheduler and worker loops run on, a request is carried through, a  *)
(* ready dispatch is claimed in time and the clock advances.               *)
ControlFairness ==
  /\ \A s \in Schedulers : WF_controlVars(SchedulerStep(s))
  /\ \A a \in Admins : WF_controlVars(AdminFinishes(a))
  /\ \A q \in QueueIds : WF_controlVars(RunStep(q))
  /\ WF_controlVars(\E q \in QueueIds, w \in Workers : StartRun(q, w))
  /\ WF_controlVars(ControlTick)

FairControlSpec == ControlSpec /\ ControlFairness

(***************************************************************************)
(* Properties                                                              *)
(***************************************************************************)
ControlTypeOK ==
  /\ phase \in [QueueIds -> Phases]
  /\ holder \in [QueueIds -> Workers \cup {NoWorker}]
  /\ failures \in [QueueIds -> 0 .. MaxAttempts]
  /\ jobs \in [Jobs -> JobRow]
  /\ jobOf \in [QueueIds -> Jobs \cup {NoJob}]
  /\ producer \in [QueueIds -> Schedulers \cup Admins \cup {NoJob}]
  /\ touched \subseteq QueueIds /\ lost \subseteq QueueIds
  /\ scheduler \in [Schedulers -> SchedulerState]
  /\ admin \in [Admins -> AdminState]
  /\ now \in 0 .. MaxTime /\ edits \in 0 .. MaxEdits /\ deaths \in 0 .. MaxDeaths
  /\ lastTouches \in [Jobs -> Time \X Time] /\ late \subseteq QueueIds

ActiveOf(j, p) ==
  {q \in QueueIds : jobOf[q] = j /\ producer[q] = p /\ phase[q] \in {"ready", "held"}}

(* The scheduler's check and its insert are two statements, so two         *)
(* schedulers, or a scheduler and run_job, can both enqueue a job. Still   *)
(* no scheduler ever has two dispatches of one job active by itself, in    *)
(* particular none beside one that a dead worker left behind.              *)
OneActivePerScheduler ==
  \A s \in Schedulers, j \in Jobs :
    \A p, q \in ActiveOf(j, s) : p = q

(* Turning a job off does not reach the list a tick already holds, nor     *)
(* does it cancel anything. It costs at most one dispatch per scheduler    *)
(* until the job is turned on again.                                       *)
OneLateDispatchPerScheduler ==
  \A p, q \in late :
    jobOf[p] = jobOf[q] /\ producer[p] = producer[q] => p = q

(* However ticks, manual runs, edits and deaths interleave, dispatches of  *)
(* a job do not pile up: one active and one late per scheduler at most.    *)
DispatchesDoNotPileUp == OneActivePerScheduler /\ OneLateDispatchPerScheduler

(* The dispatch of a dead worker silences its job: it looks active for     *)
(* ever, so no scheduler decides to insert another one.                    *)
DeadWorkerSilencesJob ==
  [][\A s \in Schedulers, q \in lost :
       scheduler'[s].step = "insert" /\ scheduler'[s].job = jobOf[q]
         => scheduler'[s] = scheduler[s]]_controlVars

(* A deleted job stays deleted, although enabling and disabling rewrite    *)
(* the whole row: the API serialises its handlers.                         *)
DeletedStaysDeleted ==
  [][\A j \in Jobs :
       jobs[j] # Unborn /\ ~jobs[j].stored => ~jobs'[j].stored]_controlVars

(* A stale job list can make one run too many, never two: as long as       *)
(* nobody edits jobs or runs them by hand, three successful runs of a job  *)
(* span an interval, whatever the retries and deaths.                      *)
RunsAreSpaced ==
  [][\A j \in Jobs :
       LET before == lastTouches[j][1] IN
       edits = 0 /\ lastTouches'[j] # lastTouches[j] /\ before # Never
         => now >= before + Interval]_controlVars

Unused == {q \in QueueIds : phase[q] = "unknown"}

(* A due job gets a dispatch (as long as the model has identifiers left),  *)
(* or stops being due.                                                     *)
DueJobIsEnqueued ==
  \A j \in Jobs :
    jobs[j].stored /\ IsDueAt(jobs[j], now)
      ~> \/ HasActive(j) \/ Unused = {}
         \/ ~(jobs[j].stored /\ IsDueAt(jobs[j], now))

=============================================================================
