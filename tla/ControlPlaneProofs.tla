------------------------- MODULE ControlPlaneProofs -------------------------
(***************************************************************************)
(* What holds of ControlPlane for any number of schedulers, admins, jobs   *)
(* and dispatches.  That dispatches do not pile up is not inductive: one   *)
(* has to know what a tick still has in hand (NothingActive, LateIsOver).  *)
(***************************************************************************)
EXTENDS ControlPlane, TLAPS

\* A dispatch that is not over has an attempt left.
AttemptsLeft ==
  \A q \in QueueIds : phase[q] \in {"ready", "held"} => failures[q] < MaxAttempts

\* The dispatch of a dead worker stays held.
LostAreHeld == \A q \in lost : phase[q] = "held"

TypeInv == ControlTypeOK /\ AttemptsLeft /\ LostAreHeld

\* A scheduler that is about to insert a dispatch has none of the job active.
NothingActive ==
  \A s \in Schedulers :
    scheduler[s].step = "insert" => ActiveOf(scheduler[s].job, s) = {}

\* The jobs that a tick may still insert dispatches for.
Inserting(s) == {j \in Jobs : scheduler[s].step = "insert" /\ scheduler[s].job = j}
InHand(s) == scheduler[s].todo \cup Inserting(s)

\* They have been stored, and each is in hand once.
InHandIsKnown ==
  \A s \in Schedulers :
    /\ scheduler[s].step = "insert" => scheduler[s].job \in Jobs
    /\ \A j \in InHand(s) : jobs[j] # Unborn
    /\ scheduler[s].todo \cap Inserting(s) = {}

\* A late dispatch: its job is turned off, and the tick that inserted it is
\* through with the job, as is every later one.
LateIsOver ==
  \A q \in late :
    /\ phase[q] # "unknown"
    /\ jobOf[q] \in Jobs
    /\ producer[q] \in Schedulers
    /\ jobs[jobOf[q]] # Unborn
    /\ TurnedOff(jobOf[q])
    /\ jobOf[q] \notin InHand(producer[q])

DispatchInv ==
  /\ NothingActive /\ OneActivePerScheduler
  /\ InHandIsKnown /\ LateIsOver /\ OneLateDispatchPerScheduler

-----------------------------------------------------------------------------
LEMMA InitTypeInv == ControlInit => TypeInv
<1> SUFFICES ASSUME ControlInit PROVE TypeInv
  OBVIOUS
<1> USE LifecycleAssumption, ControlAssumption
        DEF ControlInit, LifecycleInit
<1>1. ControlTypeOK
  <2>1. Unborn \in JobRow
    BY DEF Unborn, JobRow, Time
  <2>2. jobs \in [Jobs -> JobRow]
    BY <2>1
  <2>3. admin \in [Admins -> AdminState]
    BY <2>1 DEF IdleAdmin, AdminState, Intents
  <2>4. scheduler \in [Schedulers -> SchedulerState]
    BY DEF IdleScheduler, SchedulerState
  <2>5. lastTouches \in [Jobs -> Time \X Time]
    BY DEF Time
  <2>6. QED BY <2>2, <2>3, <2>4, <2>5 DEF ControlTypeOK, Phases
<1>2. AttemptsLeft /\ LostAreHeld
  BY DEF AttemptsLeft, LostAreHeld
<1>3. QED BY <1>1, <1>2 DEF TypeInv

LEMMA KeepTypeInv == TypeInv /\ [ControlNext]_controlVars => TypeInv'
<1> SUFFICES ASSUME TypeInv, [ControlNext]_controlVars PROVE TypeInv'
  OBVIOUS
<1> USE LifecycleAssumption, ControlAssumption
        DEF TypeInv, ControlTypeOK, AttemptsLeft, LostAreHeld,
            queueSide, workerSide, history, Phases
<1>0. /\ Unborn \in JobRow /\ Deleted \in JobRow
      /\ IdleScheduler \in SchedulerState /\ IdleAdmin \in AdminState
  BY DEF Unborn, Deleted, JobRow, Time, IdleScheduler, SchedulerState, IdleAdmin, AdminState, Intents
<1>1. ASSUME NEW s \in Schedulers, ListJobs(s) PROVE TypeInv'
  <2>1. scheduler' \in [Schedulers -> SchedulerState]
    BY <1>1 DEF ListJobs, SchedulerState
  <2>2. QED BY <1>1, <2>1 DEF ListJobs
<1>2. ASSUME NEW s \in Schedulers, NEW j \in Jobs, CheckJob(s, j) PROVE TypeInv'
  <2>1. scheduler' \in [Schedulers -> SchedulerState]
    BY <1>2 DEF CheckJob, SchedulerState
  <2>2. QED BY <1>2, <2>1 DEF CheckJob
<1>3. ASSUME NEW s \in Schedulers, NEW q \in QueueIds, EnqueueScheduled(s, q) PROVE TypeInv'
  <2>1. scheduler[s].job \in Jobs \cup {NoJob} /\ scheduler[s].todo \in SUBSET Jobs
    BY DEF SchedulerState
  <2>2. scheduler' \in [Schedulers -> SchedulerState]
    BY <1>3, <2>1 DEF EnqueueScheduled, SchedulerState
  <2>3. late' \subseteq QueueIds
    BY <1>3 DEF EnqueueScheduled
  <2>4. QED BY <1>3, <2>1, <2>2, <2>3 DEF EnqueueScheduled, InsertDispatch, Submit
<1>4. ASSUME NEW s \in Schedulers, EndTick(s) \/ SchedulerDies(s) PROVE TypeInv'
  BY <1>0, <1>4 DEF EndTick, SchedulerDies
<1>5. ASSUME NEW a \in Admins, NEW j \in Jobs, CreateJob(a, j) PROVE TypeInv'
  <2>1. jobs' \in [Jobs -> JobRow]
    BY <1>5 DEF CreateJob, Insert, JobRow, Time
  <2>2. QED BY <1>5, <2>1 DEF CreateJob
<1>6. ASSUME NEW a \in Admins, NEW j \in Jobs, NEW i \in Intents, LoadJob(a, j, i) PROVE TypeInv'
  <2>1. admin' \in [Admins -> AdminState]
    BY <1>6 DEF LoadJob, AdminState
  <2>2. QED BY <1>6, <2>1 DEF LoadJob, Edit
<1>7. ASSUME NEW a \in Admins, StoreEnabled(a) PROVE TypeInv'
  <2>1. admin[a].row.last_run_at \in Time
    BY DEF AdminState, JobRow
  <2>2. jobs' \in [Jobs -> JobRow]
    BY <1>7, <2>1 DEF StoreEnabled, Insert, JobRow
  <2>3. late' \subseteq QueueIds
    BY <1>7 DEF StoreEnabled
  <2>4. QED BY <1>0, <1>7, <2>2, <2>3 DEF StoreEnabled
<1>8. ASSUME NEW a \in Admins, NEW q \in QueueIds, EnqueueManual(a, q) PROVE TypeInv'
  <2>1. admin[a].job \in Jobs \cup {NoJob}
    BY DEF AdminState
  <2>2. QED BY <1>0, <1>8, <2>1 DEF EnqueueManual, InsertDispatch, Submit
<1>9. ASSUME NEW j \in Jobs \cup {NoJob}, Touch(j) PROVE jobs' \in [Jobs -> JobRow]
  <2>1. CASE j \in Jobs
    BY <1>9, <2>1 DEF Touch, JobRow, Time
  <2>2. CASE j = NoJob
    <3>1. jobs' = jobs
      BY <1>9, <2>2 DEF Touch
    <3>2. QED BY <3>1
  <2>3. QED BY <2>1, <2>2
<1>10. ASSUME NEW a \in Admins, RunInline(a) PROVE TypeInv'
  <2>1. admin[a].job \in Jobs \cup {NoJob}
    BY DEF AdminState
  <2>2. jobs' \in [Jobs -> JobRow]
    BY <1>9, <1>10, <2>1 DEF RunInline
  <2>3. QED BY <1>0, <1>10, <2>2 DEF RunInline
<1>11. ASSUME NEW a \in Admins, NEW j \in Jobs, DeleteJob(a, j) PROVE TypeInv'
  BY <1>0, <1>11 DEF DeleteJob, Remove, Edit
<1>12. ASSUME NEW q \in QueueIds, NEW w \in Workers, StartRun(q, w) PROVE TypeInv'
  BY <1>12 DEF StartRun, HandOver
<1>13. ASSUME NEW q \in QueueIds, FailRun(q) PROVE TypeInv'
  <2>1. failures[q] \in Nat /\ failures[q] < MaxAttempts
    BY <1>13 DEF FailRun, GiveBack
  <2>2. failures' \in [QueueIds -> 0 .. MaxAttempts]
    BY <1>13, <2>1 DEF FailRun, GiveBack
  <2>3. phase' \in [QueueIds -> Phases] /\ holder' \in [QueueIds -> Workers \cup {NoWorker}]
    BY <1>13 DEF FailRun, GiveBack
  <2>4. AttemptsLeft' /\ LostAreHeld'
    BY <1>13, <2>1 DEF FailRun, GiveBack
  <2>5. QED BY <1>13, <2>2, <2>3, <2>4 DEF FailRun
<1>14. ASSUME NEW q \in QueueIds, TouchRun(q) PROVE TypeInv'
  <2>1. jobs' \in [Jobs -> JobRow]
    BY <1>9, <1>14 DEF TouchRun
  <2>2. jobOf[q] \in Jobs \cup {NoJob} /\ now \in Time
    BY DEF Time
  <2>3. lastTouches' \in [Jobs -> Time \X Time]
    BY <1>14, <2>2 DEF TouchRun
  <2>4. QED BY <1>14, <2>1, <2>3 DEF TouchRun
<1>15. ASSUME NEW q \in QueueIds, CompleteRun(q) PROVE TypeInv'
  BY <1>15 DEF CompleteRun, Complete
<1>16. ASSUME NEW w \in Workers, WorkerDies(w) PROVE TypeInv'
  BY <1>16 DEF WorkerDies
<1>17. ASSUME ControlTick PROVE TypeInv'
  BY <1>17 DEF ControlTick
<1>18. CASE UNCHANGED controlVars
  BY <1>18 DEF controlVars
<1>19. QED BY <1>1, <1>2, <1>3, <1>4, <1>5, <1>6, <1>7, <1>8, <1>10, <1>11, <1>12, <1>13,
             <1>14, <1>15, <1>16, <1>17, <1>18
          DEF ControlNext, SchedulerStep, AdminFinishes, RunStep

LEMMA InitDispatchInv == ControlInit => DispatchInv
<1> SUFFICES ASSUME ControlInit PROVE DispatchInv
  OBVIOUS
<1> USE ControlAssumption DEF ControlInit, LifecycleInit, IdleScheduler
<1>1. NothingActive /\ InHandIsKnown
  BY DEF NothingActive, InHandIsKnown, InHand, Inserting
<1>2. OneActivePerScheduler
  BY DEF OneActivePerScheduler, ActiveOf
<1>3. LateIsOver /\ OneLateDispatchPerScheduler
  BY DEF LateIsOver, OneLateDispatchPerScheduler
<1>4. QED BY <1>1, <1>2, <1>3 DEF DispatchInv

\* A step that submits nothing leaves no more dispatches active.
QueueOnly ==
  /\ UNCHANGED <<jobOf, producer>>
  /\ \A q \in QueueIds : phase'[q] \in {"ready", "held"} => phase[q] \in {"ready", "held"}
  /\ \A q \in QueueIds : phase'[q] = "unknown" => phase[q] = "unknown"

LEMMA QueueOnlyKeepsActive ==
  ASSUME TypeInv, DispatchInv, QueueOnly
  PROVE  /\ OneActivePerScheduler'
         /\ \A s \in Schedulers : (UNCHANGED scheduler[s]) =>
              (scheduler'[s].step = "insert" => ActiveOf(scheduler[s].job, s)' = {})
         /\ \A s \in Schedulers, j \in Jobs : ~HasActive(j) => ActiveOf(j, s)' = {}
<1>1. \A s \in Schedulers : \A j : ActiveOf(j, s)' \subseteq ActiveOf(j, s)
  BY DEF QueueOnly, ActiveOf
<1>2. OneActivePerScheduler'
  BY <1>1 DEF DispatchInv, OneActivePerScheduler
<1>3. \A s \in Schedulers, j \in Jobs : ~HasActive(j) => ActiveOf(j, s) = {}
  BY DEF HasActive, ActiveOf
<1>4. QED BY <1>1, <1>2, <1>3 DEF DispatchInv, NothingActive

\* The steps of workers and admins but one: they take nothing out of a tick's hand.
LEMMA OthersKeepDispatchInv ==
  ASSUME TypeInv, DispatchInv, QueueOnly, UNCHANGED scheduler, late' \subseteq late,
         \A j \in Jobs : jobs[j] # Unborn => jobs'[j] # Unborn,
         \A q \in late' : TurnedOff(jobOf[q])'
  PROVE  DispatchInv'
<1>1. NothingActive' /\ OneActivePerScheduler'
  BY QueueOnlyKeepsActive DEF NothingActive
<1>2. \A s \in Schedulers : InHand(s)' = InHand(s) /\ Inserting(s)' = Inserting(s)
  BY DEF InHand, Inserting
<1>3. \A s \in Schedulers : InHand(s) \subseteq Jobs
  BY DEF TypeInv, ControlTypeOK, SchedulerState, InHand, Inserting
<1>4. InHandIsKnown'
  BY <1>2, <1>3 DEF DispatchInv, InHandIsKnown
<1>5. LateIsOver'
  BY <1>2 DEF DispatchInv, LateIsOver, QueueOnly, TypeInv, ControlTypeOK
<1>6. OneLateDispatchPerScheduler'
  BY DEF DispatchInv, OneLateDispatchPerScheduler, QueueOnly
<1>7. QED BY <1>1, <1>4, <1>5, <1>6 DEF DispatchInv

\* What a row says matters only as far as it is turned off; a touch leaves that alone.
LEMMA TouchKeepsRows ==
  ASSUME TypeInv, NEW j, Touch(j)
  PROVE  \A i \in Jobs : /\ jobs[i] # Unborn => jobs'[i] # Unborn
                         /\ TurnedOff(i) => TurnedOff(i)'
<1> SUFFICES ASSUME NEW i \in Jobs
             PROVE  /\ jobs[i] # Unborn => jobs'[i] # Unborn
                    /\ TurnedOff(i) => TurnedOff(i)'
  OBVIOUS
<1>1. jobs \in [Jobs -> JobRow]
  BY DEF TypeInv, ControlTypeOK
<1>2. CASE i # j \/ ~jobs[i].stored
  <2>1. jobs'[i] = jobs[i]
    BY <1>1, <1>2 DEF Touch, JobRow
  <2>2. QED BY <2>1 DEF TurnedOff
<1>3. CASE i = j /\ jobs[i].stored
  <2>1. jobs'[i] = [jobs[i] EXCEPT !.last_run_at = now]
    BY <1>1, <1>3 DEF Touch
  <2>2. jobs'[i].stored = jobs[i].stored /\ jobs'[i].enabled = jobs[i].enabled
    BY <1>1, <2>1 DEF JobRow
  <2>3. jobs'[i] # Unborn
    <3>1. ~Unborn.stored
      BY DEF Unborn
    <3>2. QED BY <1>3, <2>2, <3>1, Zenon
  <2>4. QED BY <2>2, <2>3 DEF TurnedOff
<1>4. QED BY <1>2, <1>3

\* A dispatch is inserted by a process that has none of the job active.
LEMMA InsertKeepsOneActive ==
  ASSUME TypeInv, DispatchInv, NEW q \in QueueIds, NEW j \in Jobs \cup {NoJob}, NEW p,
         InsertDispatch(q, j, p), p \in Schedulers => ActiveOf(j, p) = {}
  PROVE  /\ OneActivePerScheduler'
         /\ \A s \in Schedulers \ {p} : \A i : ActiveOf(i, s)' \subseteq ActiveOf(i, s)
<1>1. /\ \A r \in QueueIds \ {q} : /\ phase'[r] = phase[r]
                                   /\ jobOf'[r] = jobOf[r]
                                   /\ producer'[r] = producer[r]
      /\ jobOf'[q] = j /\ producer'[q] = p
  BY DEF InsertDispatch, Submit, TypeInv, ControlTypeOK
<1>2. \A s, i : ActiveOf(i, s)' \subseteq ActiveOf(i, s) \cup {q}
  BY <1>1 DEF ActiveOf
<1>3. \A s, i : (s # p \/ i # j) => ActiveOf(i, s)' \subseteq ActiveOf(i, s)
  BY <1>1 DEF ActiveOf
<1>4. OneActivePerScheduler'
  <2> SUFFICES ASSUME NEW s \in Schedulers, NEW i \in Jobs,
                      NEW r1 \in ActiveOf(i, s)', NEW r2 \in ActiveOf(i, s)'
               PROVE  r1 = r2
    BY DEF OneActivePerScheduler
  <2>1. CASE s = p /\ i = j
    BY <1>2, <2>1
  <2>2. CASE s # p \/ i # j
    BY <1>3, <2>2 DEF DispatchInv, OneActivePerScheduler
  <2>3. QED BY <2>1, <2>2
<1>5. QED BY <1>3, <1>4

LEMMA EnqueueKeepsDispatchInv ==
  ASSUME TypeInv, DispatchInv, NEW s \in Schedulers, NEW q \in QueueIds, EnqueueScheduled(s, q)
  PROVE  DispatchInv'
<1> DEFINE j == scheduler[s].job
<1>1. /\ scheduler[s].step = "insert" /\ j \in Jobs /\ j \notin scheduler[s].todo
      /\ ActiveOf(j, s) = {} /\ jobs[j] # Unborn
  BY DEF EnqueueScheduled, DispatchInv, NothingActive, InHandIsKnown, InHand, Inserting
<1>2. /\ \A r \in QueueIds \ {q} : /\ phase'[r] = phase[r]
                                   /\ jobOf'[r] = jobOf[r]
                                   /\ producer'[r] = producer[r]
      /\ jobOf'[q] = j /\ producer'[q] = s
      /\ phase[q] = "unknown" /\ phase'[q] = "ready"
  BY DEF EnqueueScheduled, InsertDispatch, Submit, TypeInv, ControlTypeOK
<1>3. /\ \A t \in Schedulers \ {s} : scheduler'[t] = scheduler[t]
      /\ scheduler'[s].step = "scan" /\ scheduler'[s].todo = scheduler[s].todo
      /\ UNCHANGED jobs
  BY DEF EnqueueScheduled, TypeInv, ControlTypeOK
<1>4. /\ OneActivePerScheduler'
      /\ \A t \in Schedulers \ {s} : \A i : ActiveOf(i, t)' \subseteq ActiveOf(i, t)
  BY <1>1, InsertKeepsOneActive DEF EnqueueScheduled
<1>5. NothingActive'
  BY <1>3, <1>4 DEF NothingActive, DispatchInv
<1>6. /\ \A t \in Schedulers : InHand(t)' \subseteq InHand(t) /\ Inserting(t)' \subseteq Inserting(t)
      /\ j \notin InHand(s)' /\ j \in InHand(s)
  BY <1>1, <1>3 DEF InHand, Inserting
<1>7. InHandIsKnown'
  BY <1>3, <1>6 DEF DispatchInv, InHandIsKnown, InHand, Inserting
<1>8. late \subseteq QueueIds \ {q} /\ late' \subseteq late \cup {q}
  BY <1>2 DEF EnqueueScheduled, TypeInv, ControlTypeOK, DispatchInv, LateIsOver
<1>9. q \in late' => TurnedOff(j)
  BY <1>8 DEF EnqueueScheduled
<1>10. LateIsOver'
  <2> SUFFICES ASSUME NEW r \in late'
               PROVE  /\ phase'[r] # "unknown" /\ jobOf'[r] \in Jobs /\ producer'[r] \in Schedulers
                      /\ jobs'[jobOf'[r]] # Unborn /\ TurnedOff(jobOf[r])'
                      /\ jobOf'[r] \notin InHand(producer[r])'
    BY DEF LateIsOver
  <2>1. CASE r = q
    BY <1>1, <1>2, <1>3, <1>6, <1>9, <2>1 DEF TurnedOff
  <2>2. CASE r \in late
    BY <1>2, <1>3, <1>6, <1>8, <2>2 DEF TurnedOff, DispatchInv, LateIsOver
  <2>3. QED BY <1>8, <2>1, <2>2
<1>11. OneLateDispatchPerScheduler'
  <2>1. \A r \in late : ~(jobOf[r] = j /\ producer[r] = s)
    BY <1>6 DEF DispatchInv, LateIsOver
  <2>2. QED BY <1>2, <1>8, <2>1 DEF DispatchInv, OneLateDispatchPerScheduler
<1>12. QED BY <1>4, <1>5, <1>7, <1>10, <1>11 DEF DispatchInv

LEMMA KeepDispatchInv == TypeInv /\ DispatchInv /\ [ControlNext]_controlVars => DispatchInv'
<1> SUFFICES ASSUME TypeInv, DispatchInv, [ControlNext]_controlVars PROVE DispatchInv'
  OBVIOUS
<1> USE ControlAssumption DEF queueSide, workerSide, history
<1>0. /\ \A q \in late : q \in QueueIds /\ jobOf[q] \in Jobs /\ TurnedOff(jobOf[q])
                           /\ jobs[jobOf[q]] # Unborn
      /\ jobs \in [Jobs -> JobRow]
      /\ Deleted # Unborn
  BY DEF DispatchInv, LateIsOver, TypeInv, ControlTypeOK, Deleted, Unborn
<1>1. ASSUME NEW s \in Schedulers, ListJobs(s) PROVE DispatchInv'
  <2>1. QueueOnly
    BY <1>1 DEF ListJobs, QueueOnly
  <2>2. /\ \A t \in Schedulers \ {s} : scheduler'[t] = scheduler[t]
        /\ scheduler'[s].step = "scan"
        /\ scheduler'[s].todo = {j \in Jobs : jobs[j].stored /\ IsDueAt(jobs[j], now)}
        /\ UNCHANGED <<jobs, late>>
    BY <1>1 DEF ListJobs, TypeInv, ControlTypeOK
  <2>3. NothingActive' /\ OneActivePerScheduler'
    BY <2>1, <2>2, QueueOnlyKeepsActive DEF NothingActive
  <2>4. /\ \A t \in Schedulers \ {s} : InHand(t)' = InHand(t) /\ Inserting(t)' = Inserting(t)
        /\ InHand(s)' = scheduler'[s].todo /\ Inserting(s)' = {}
    BY <2>2 DEF InHand, Inserting
  <2>5. \A j \in InHand(s)' : ~TurnedOff(j) /\ jobs[j] # Unborn
    BY <2>2, <2>4 DEF TurnedOff, IsDueAt, Unborn
  <2>6. InHandIsKnown'
    BY <2>2, <2>4, <2>5 DEF DispatchInv, InHandIsKnown
  <2>7. LateIsOver'
    BY <1>0, <2>1, <2>2, <2>4, <2>5 DEF DispatchInv, LateIsOver, QueueOnly, TurnedOff
  <2>8. OneLateDispatchPerScheduler'
    BY <2>1, <2>2 DEF DispatchInv, OneLateDispatchPerScheduler, QueueOnly
  <2>9. QED BY <2>3, <2>6, <2>7, <2>8 DEF DispatchInv
<1>2. ASSUME NEW s \in Schedulers, NEW j \in Jobs, CheckJob(s, j) PROVE DispatchInv'
  <2>1. QueueOnly
    BY <1>2 DEF CheckJob, QueueOnly
  <2>2. /\ \A t \in Schedulers \ {s} : scheduler'[t] = scheduler[t]
        /\ j \in scheduler[s].todo
        /\ scheduler'[s].todo = scheduler[s].todo \ {j}
        /\ scheduler'[s].step = "insert" => scheduler'[s].job = j /\ ~HasActive(j)
        /\ UNCHANGED <<jobs, late>>
    BY <1>2 DEF CheckJob, TypeInv, ControlTypeOK
  <2>3. NothingActive' /\ OneActivePerScheduler'
    BY <2>1, <2>2, QueueOnlyKeepsActive DEF NothingActive
  <2>4. /\ \A t \in Schedulers \ {s} : InHand(t)' = InHand(t) /\ Inserting(t)' = Inserting(t)
        /\ InHand(s)' \subseteq InHand(s) /\ Inserting(s)' \subseteq {j}
    BY <2>2 DEF InHand, Inserting
  <2>5. InHandIsKnown'
    BY <2>2, <2>4 DEF DispatchInv, InHandIsKnown
  <2>6. LateIsOver'
    BY <1>0, <2>1, <2>2, <2>4 DEF DispatchInv, LateIsOver, QueueOnly, TurnedOff
  <2>7. OneLateDispatchPerScheduler'
    BY <2>1, <2>2 DEF DispatchInv, OneLateDispatchPerScheduler, QueueOnly
  <2>8. QED BY <2>3, <2>5, <2>6, <2>7 DEF DispatchInv
<1>3. ASSUME NEW s \in Schedulers, EndTick(s) \/ SchedulerDies(s) PROVE DispatchInv'
  <2>1. QueueOnly
    BY <1>3 DEF EndTick, SchedulerDies, QueueOnly
  <2>2. /\ \A t \in Schedulers \ {s} : scheduler'[t] = scheduler[t]
        /\ scheduler'[s].todo = {} /\ scheduler'[s].step = "idle"
        /\ UNCHANGED <<jobs, late>>
    BY <1>3 DEF EndTick, SchedulerDies, IdleScheduler, TypeInv, ControlTypeOK
  <2>3. NothingActive' /\ OneActivePerScheduler'
    BY <2>1, <2>2, QueueOnlyKeepsActive DEF NothingActive
  <2>4. /\ \A t \in Schedulers \ {s} : InHand(t)' = InHand(t) /\ Inserting(t)' = Inserting(t)
        /\ InHand(s)' = {} /\ Inserting(s)' = {}
    BY <2>2 DEF InHand, Inserting
  <2>5. InHandIsKnown'
    BY <2>2, <2>4 DEF DispatchInv, InHandIsKnown
  <2>6. LateIsOver'
    BY <1>0, <2>1, <2>2, <2>4 DEF DispatchInv, LateIsOver, QueueOnly, TurnedOff
  <2>7. OneLateDispatchPerScheduler'
    BY <2>1, <2>2 DEF DispatchInv, OneLateDispatchPerScheduler, QueueOnly
  <2>8. QED BY <2>3, <2>5, <2>6, <2>7 DEF DispatchInv
<1>4. ASSUME NEW a \in Admins, NEW j \in Jobs, CreateJob(a, j) PROVE DispatchInv'
  <2>1. QueueOnly /\ UNCHANGED <<scheduler, late, jobOf>>
    BY <1>4 DEF CreateJob, QueueOnly
  <2>2. jobs[j] = Unborn /\ \A i \in Jobs \ {j} : jobs'[i] = jobs[i]
    BY <1>0, <1>4 DEF CreateJob, Insert
  <2>3. \A q \in late' : TurnedOff(jobOf[q])'
    BY <1>0, <2>1, <2>2 DEF TurnedOff
  <2>4. \A i \in Jobs : jobs[i] # Unborn => jobs'[i] # Unborn
    BY <2>2
  <2>5. QED BY <2>1, <2>3, <2>4, OthersKeepDispatchInv
<1>5. ASSUME NEW a \in Admins, StoreEnabled(a) PROVE DispatchInv'
  <2> DEFINE j == admin[a].job
             on == admin[a].intent = "enable"
  <2>1. QueueOnly /\ UNCHANGED <<scheduler, jobOf>> /\ late' \subseteq late
    BY <1>5 DEF StoreEnabled, QueueOnly
  <2>2. jobs' = [jobs EXCEPT ![j] = [stored |-> TRUE, enabled |-> on, last_run_at |-> admin[a].row.last_run_at]]
    BY <1>5 DEF StoreEnabled, Insert
  <2>3. \A i \in Jobs : jobs[i] # Unborn => jobs'[i] # Unborn
    BY <1>0, <2>2 DEF Unborn
  <2>4. \A q \in late' : jobOf[q] = j => ~on
    BY <1>5 DEF StoreEnabled
  <2>5. \A q \in late' : TurnedOff(jobOf[q])'
    <3> SUFFICES ASSUME NEW q \in late' PROVE TurnedOff(jobOf[q])'
      OBVIOUS
    <3>1. CASE jobOf[q] # j
      BY <1>0, <2>1, <2>2, <3>1 DEF TurnedOff
    <3>2. CASE jobOf[q] = j
      BY <1>0, <2>1, <2>2, <2>4, <3>2 DEF TurnedOff
    <3>3. QED BY <3>1, <3>2
  <2>6. QED BY <2>1, <2>3, <2>5, OthersKeepDispatchInv
<1>6. ASSUME NEW a \in Admins, NEW q \in QueueIds, EnqueueManual(a, q) PROVE DispatchInv'
  <2>1. /\ InsertDispatch(q, admin[a].job, a) /\ a \notin Schedulers
        /\ admin[a].job \in Jobs \cup {NoJob}
        /\ UNCHANGED <<scheduler, jobs, late>>
    BY <1>6 DEF EnqueueManual, TypeInv, ControlTypeOK, AdminState
  <2>2. OneActivePerScheduler' /\ \A s \in Schedulers : \A i : ActiveOf(i, s)' \subseteq ActiveOf(i, s)
    BY <2>1, InsertKeepsOneActive
  <2>3. /\ \A r \in QueueIds \ {q} : /\ phase'[r] = phase[r]
                                     /\ jobOf'[r] = jobOf[r]
                                     /\ producer'[r] = producer[r]
        /\ q \notin late
    BY <2>1 DEF InsertDispatch, Submit, TypeInv, ControlTypeOK, DispatchInv, LateIsOver
  <2>4. NothingActive'
    BY <2>1, <2>2 DEF DispatchInv, NothingActive
  <2>5. InHandIsKnown'
    BY <2>1 DEF DispatchInv, InHandIsKnown, InHand, Inserting
  <2>6. LateIsOver'
    BY <1>0, <2>1, <2>3 DEF DispatchInv, LateIsOver, InHand, Inserting, TurnedOff
  <2>7. OneLateDispatchPerScheduler'
    BY <1>0, <2>1, <2>3 DEF DispatchInv, OneLateDispatchPerScheduler
  <2>8. QED BY <2>2, <2>4, <2>5, <2>6, <2>7 DEF DispatchInv
<1>7. ASSUME NEW a \in Admins, NEW j \in Jobs, DeleteJob(a, j) PROVE DispatchInv'
  <2>1. QueueOnly /\ UNCHANGED <<scheduler, late, jobOf>>
    BY <1>7 DEF DeleteJob, QueueOnly
  <2>2. \A i \in Jobs : jobs'[i] = IF i = j THEN Deleted ELSE jobs[i]
    BY <1>0, <1>7 DEF DeleteJob, Remove
  <2>3. \A i \in Jobs : jobs[i] # Unborn => jobs'[i] # Unborn
    BY <1>0, <2>2
  <2>4. \A q \in late' : TurnedOff(jobOf[q])'
    BY <1>0, <2>1, <2>2 DEF TurnedOff, Deleted
  <2>5. QED BY <2>1, <2>3, <2>4, OthersKeepDispatchInv
<1>8. ASSUME QueueOnly, UNCHANGED <<scheduler, late>>, UNCHANGED jobs \/ \E j : Touch(j)
      PROVE DispatchInv'
  <2>1. \A i \in Jobs : /\ jobs[i] # Unborn => jobs'[i] # Unborn
                        /\ TurnedOff(i) => TurnedOff(i)'
    BY <1>8, TouchKeepsRows DEF TurnedOff
  <2>2. \A q \in late' : TurnedOff(jobOf[q])'
    BY <1>0, <1>8, <2>1 DEF QueueOnly, TurnedOff
  <2>3. QED BY <1>8, <2>1, <2>2, OthersKeepDispatchInv
<1>9. ASSUME NEW a \in Admins, NEW j \in Jobs, NEW i \in Intents, LoadJob(a, j, i) PROVE DispatchInv'
  BY <1>8, <1>9 DEF LoadJob, QueueOnly
<1>10. ASSUME NEW a \in Admins, RunInline(a) PROVE DispatchInv'
  BY <1>8, <1>10 DEF RunInline, QueueOnly
<1>11. ASSUME NEW q \in QueueIds, NEW w \in Workers, StartRun(q, w) PROVE DispatchInv'
  <2>1. QueueOnly
    BY <1>11 DEF StartRun, HandOver, QueueOnly, TypeInv, ControlTypeOK
  <2>2. QED BY <1>8, <1>11, <2>1 DEF StartRun
<1>12. ASSUME NEW q \in QueueIds, FailRun(q) PROVE DispatchInv'
  <2>1. QueueOnly
    BY <1>12 DEF FailRun, GiveBack, QueueOnly, TypeInv, ControlTypeOK
  <2>2. QED BY <1>8, <1>12, <2>1 DEF FailRun
<1>13. ASSUME NEW q \in QueueIds, TouchRun(q) PROVE DispatchInv'
  <2>1. QueueOnly
    BY <1>13 DEF TouchRun, QueueOnly
  <2>2. QED BY <1>8, <1>13, <2>1 DEF TouchRun
<1>14. ASSUME NEW q \in QueueIds, CompleteRun(q) PROVE DispatchInv'
  <2>1. QueueOnly
    BY <1>14 DEF CompleteRun, Complete, QueueOnly, TypeInv, ControlTypeOK
  <2>2. QED BY <1>8, <1>14, <2>1 DEF CompleteRun
<1>15. ASSUME NEW w \in Workers, WorkerDies(w) PROVE DispatchInv'
  BY <1>8, <1>15 DEF WorkerDies, QueueOnly
<1>16. ASSUME ControlTick PROVE DispatchInv'
  BY <1>8, <1>16 DEF ControlTick, QueueOnly
<1>17. CASE UNCHANGED controlVars
  BY <1>8, <1>17 DEF controlVars, QueueOnly
<1>18. QED BY <1>1, <1>2, <1>3, <1>4, <1>5, <1>6, <1>7, <1>9, <1>10, <1>11, <1>12, <1>13,
             <1>14, <1>15, <1>16, <1>17, EnqueueKeepsDispatchInv
          DEF ControlNext, SchedulerStep, AdminFinishes, RunStep

-----------------------------------------------------------------------------
\* Rows, processes and histories keep their shape, no dispatch is retried beyond
\* its attempts, and that of a dead worker stays held.
THEOREM ControlPlaneTypes == ControlSpec => []TypeInv
<1>1. ControlInit => TypeInv
  BY InitTypeInv
<1>2. TypeInv /\ [ControlNext]_controlVars => TypeInv'
  BY KeepTypeInv
<1>3. QED BY <1>1, <1>2, PTL DEF ControlSpec

\* However ticks, requests, edits and deaths interleave, a scheduler has at most one
\* dispatch of a job active, and inserts at most one late one until the job is
\* turned on again.
THEOREM NoPileUp == ControlSpec => []DispatchesDoNotPileUp
<1>1. ControlInit => DispatchInv
  BY InitDispatchInv
<1>2. TypeInv /\ DispatchInv /\ [ControlNext]_controlVars => DispatchInv'
  BY KeepDispatchInv
<1>3. DispatchInv => DispatchesDoNotPileUp
  BY DEF DispatchInv, DispatchesDoNotPileUp
<1>4. QED BY <1>1, <1>2, <1>3, ControlPlaneTypes, PTL DEF ControlSpec

\* No scheduler decides to dispatch a job again whose dispatch a dead worker holds.
THEOREM DeadWorkersSilence == ControlSpec => DeadWorkerSilencesJob
<1> DEFINE Silent == \A s \in Schedulers, q \in lost :
                        scheduler'[s].step = "insert" /\ scheduler'[s].job = jobOf[q]
                          => scheduler'[s] = scheduler[s]
<1>1. ASSUME TypeInv, [ControlNext]_controlVars PROVE [Silent]_controlVars
  <2> SUFFICES ASSUME ControlNext, NEW s \in Schedulers, NEW q \in lost,
                      scheduler'[s].step = "insert", scheduler'[s].job = jobOf[q],
                      scheduler'[s] # scheduler[s]
               PROVE  FALSE
    BY <1>1
  <2> USE <1>1 DEF TypeInv, ControlTypeOK
  <2>1. HasActive(jobOf[q])
    BY DEF LostAreHeld, HasActive
  <2>2. CASE \E t \in Schedulers : ListJobs(t) \/ EndTick(t) \/ SchedulerDies(t)
    BY <2>2 DEF ListJobs, EndTick, SchedulerDies, IdleScheduler
  <2>3. CASE \E t \in Schedulers, j \in Jobs : CheckJob(t, j)
    BY <2>1, <2>3 DEF CheckJob
  <2>4. CASE \E t \in Schedulers, r \in QueueIds : EnqueueScheduled(t, r)
    BY <2>4 DEF EnqueueScheduled
  <2>5. CASE UNCHANGED scheduler
    BY <2>5
  <2>6. QED
    BY <2>2, <2>3, <2>4, <2>5
    DEF ControlNext, SchedulerStep, AdminFinishes, RunStep, StoreEnabled, EnqueueManual, RunInline,
        CreateJob, DeleteJob, LoadJob, FailRun, TouchRun, CompleteRun, StartRun, WorkerDies, ControlTick
<1>2. ControlSpec => [][ControlNext]_controlVars
  BY PTL DEF ControlSpec
<1>3. QED BY <1>1, <1>2, ControlPlaneTypes, PTL DEF DeadWorkerSilencesJob

\* What an admin is about to write back is still there.
HeldRowsExist ==
  \A a \in Admins :
    admin[a].intent \in {"enable", "disable"} =>
      admin[a].job \in Jobs /\ jobs[admin[a].job].stored

\* With one process that edits jobs, the API, a deleted job stays deleted.
THEOREM DeletedForGood ==
  ASSUME \A a, b \in Admins : a = b
  PROVE  ControlSpec => DeletedStaysDeleted
<1> DEFINE Stay == \A j \in Jobs : jobs[j] # Unborn /\ ~jobs[j].stored => ~jobs'[j].stored
<1>1. ControlInit => HeldRowsExist
  BY DEF ControlInit, HeldRowsExist, IdleAdmin
<1>2. ASSUME TypeInv, HeldRowsExist, [ControlNext]_controlVars
      PROVE  HeldRowsExist' /\ [Stay]_controlVars
  <2> USE <1>2 DEF TypeInv, ControlTypeOK, queueSide, history
  <2>1. ASSUME NEW a \in Admins, NEW j \in Jobs, CreateJob(a, j) PROVE HeldRowsExist' /\ Stay
    BY <2>1 DEF CreateJob, Insert, HeldRowsExist, Unborn
  <2>2. ASSUME NEW a \in Admins, NEW j \in Jobs, DeleteJob(a, j) PROVE HeldRowsExist' /\ Stay
    BY <2>2 DEF DeleteJob, Remove, Edit, Deleted, HeldRowsExist
  <2>3. ASSUME NEW a \in Admins, NEW j \in Jobs, NEW i \in Intents, LoadJob(a, j, i)
        PROVE  HeldRowsExist' /\ Stay
    BY <2>3 DEF LoadJob, HeldRowsExist
  <2>4. ASSUME NEW a \in Admins, StoreEnabled(a) PROVE HeldRowsExist' /\ Stay
    BY <2>4 DEF StoreEnabled, Insert, HeldRowsExist, IdleAdmin
  <2>5. ASSUME NEW j, Touch(j), UNCHANGED admin \/ \E a \in Admins : admin' = [admin EXCEPT ![a] = IdleAdmin]
        PROVE  HeldRowsExist' /\ Stay
    <3>1. \A i \in Jobs : jobs'[i].stored = jobs[i].stored
      BY <2>5 DEF Touch, JobRow
    <3>2. HeldRowsExist'
      BY <2>5, <3>1 DEF HeldRowsExist, IdleAdmin
    <3>3. QED BY <3>1, <3>2
  <2>6. ASSUME UNCHANGED jobs, UNCHANGED admin \/ \E a \in Admins : admin' = [admin EXCEPT ![a] = IdleAdmin]
        PROVE  HeldRowsExist' /\ Stay
    BY <2>6 DEF HeldRowsExist, IdleAdmin
  <2>7. CASE UNCHANGED controlVars
    BY <2>6, <2>7 DEF controlVars
  <2>8. QED
    BY <2>1, <2>2, <2>3, <2>4, <2>5, <2>6, <2>7
    DEF ControlNext, SchedulerStep, SchedulerDies, AdminFinishes, RunStep, ListJobs, CheckJob,
        EnqueueScheduled, EndTick, EnqueueManual, RunInline, FailRun, TouchRun, CompleteRun,
        StartRun, WorkerDies, ControlTick
<1>3. ControlSpec => [][ControlNext]_controlVars
  BY PTL DEF ControlSpec
<1>4. QED BY <1>1, <1>2, <1>3, ControlPlaneTypes, PTL DEF ControlSpec, DeletedStaysDeleted

-----------------------------------------------------------------------------
\* An interval has passed since time t.
Passed(t) == t # Never => t + Interval <= now

\* The dispatches of a job that a worker may still touch it for.
Touchable(j) ==
  {q \in QueueIds : jobOf[q] = j /\ phase[q] \in {"ready", "held"} /\ q \notin touched}

\* The row of a job and its last two touches agree.
TouchesAreTold(j) ==
  LET t == lastTouches[j] IN
  /\ jobs[j] # Unborn => jobs[j].stored
  /\ jobs[j].last_run_at = t[2]
  /\ t[1] # Never => t[2] # Never /\ t[1] <= t[2]
  /\ t[2] # Never => t[2] <= now

\* The next touch, of a dispatch that is there or of one that a tick may still
\* insert, will be an interval after the last but one; if both can come, an
\* interval after the last.
NextIsSpaced(j) ==
  /\ Touchable(j) # {} => Passed(lastTouches[j][1])
  /\ \A s \in Schedulers : j \in InHand(s) =>
       /\ Passed(lastTouches[j][1])
       /\ Touchable(j) # {} => Passed(lastTouches[j][2])

SpacingInv ==
  edits = 0 =>
    /\ \A a \in Admins : admin[a].intent = "none"
    /\ \A q \in QueueIds : phase[q] # "unknown" =>
         /\ jobOf[q] \in Jobs /\ producer[q] \in Schedulers
         /\ jobs[jobOf[q]] # Unborn
    /\ \A j \in Jobs : TouchesAreTold(j) /\ NextIsSpaced(j)

\* What the invariant rests on: types, and one dispatch of the one scheduler.
LEMMA SpacingType ==
  ASSUME TypeInv, NEW j \in Jobs
  PROVE  /\ lastTouches[j] \in Time \X Time
         /\ now \in Nat /\ edits \in Nat /\ Interval \in Nat /\ Never \notin Nat
         /\ jobs[j] \in JobRow
BY ControlAssumption DEF TypeInv, ControlTypeOK

\* What time brings: what has passed stays passed.
LEMMA PassedStays ==
  ASSUME TypeInv, TypeInv', NEW t \in Time, Passed(t), now' \in {now, now + 1}
  PROVE  Passed(t)'
BY ControlAssumption DEF Passed, Time, TypeInv, ControlTypeOK

\* A step that adds no dispatch to those that may touch a job, takes no job into
\* a tick's hand, and leaves rows and touches alone.
LEMMA QuietSteps ==
  ASSUME TypeInv, TypeInv', SpacingInv, now' \in {now, now + 1},
         edits' = 0 => edits = 0,
         edits' = 0 => \A a \in Admins : admin'[a].intent = "none",
         UNCHANGED <<jobs, lastTouches>>,
         \A q \in QueueIds : phase'[q] # "unknown" =>
             phase[q] # "unknown" /\ jobOf'[q] = jobOf[q] /\ producer'[q] = producer[q],
         \A j \in Jobs : Touchable(j)' \subseteq Touchable(j),
         \A s \in Schedulers : InHand(s)' \subseteq InHand(s)
  PROVE  SpacingInv'
<1> SUFFICES ASSUME edits' = 0 PROVE SpacingInv'
  BY DEF SpacingInv
<1>1. ASSUME NEW j \in Jobs PROVE TouchesAreTold(j)' /\ NextIsSpaced(j)'
  <2>1. TouchesAreTold(j) /\ NextIsSpaced(j)
    BY DEF SpacingInv
  <2>2. lastTouches[j] \in Time \X Time /\ now \in Nat /\ Never \notin Nat
    BY SpacingType
  <2>3. lastTouches[j][1] \in Time /\ lastTouches[j][2] \in Time
    BY <2>2
  <2>4. TouchesAreTold(j)'
    BY <2>1, <2>2, <2>3 DEF TouchesAreTold, Time
  <2>5. /\ Passed(lastTouches[j][1]) => Passed(lastTouches[j][1])'
        /\ Passed(lastTouches[j][2]) => Passed(lastTouches[j][2])'
    <3>1. PICK a \in Time, b \in Time : a = lastTouches[j][1] /\ b = lastTouches[j][2]
      BY <2>3
    <3>2. (Passed(a) => Passed(a)') /\ (Passed(b) => Passed(b)')
      BY PassedStays
    <3> QED BY <3>1, <3>2 DEF Passed
  <2>6. NextIsSpaced(j)'
    BY <2>1, <2>5 DEF NextIsSpaced
  <2> QED BY <2>4, <2>6
<1> QED BY <1>1 DEF SpacingInv

\* A worker touches the job of the only dispatch that may: what was the last
\* touch is now the last but one.
LEMMA TouchKeepsSpacing ==
  ASSUME NEW s, Schedulers = {s}, TypeInv, OneActivePerScheduler, SpacingInv,
         NEW q \in QueueIds, TouchRun(q)
  PROVE  SpacingInv'
<1> SUFFICES ASSUME edits' = 0 PROVE SpacingInv'
  BY DEF SpacingInv
<1>1. edits = 0 /\ UNCHANGED <<phase, jobOf, producer, admin, scheduler, now>>
  BY DEF TouchRun
<1>2. /\ phase[q] = "held" /\ q \notin touched /\ touched' = touched \cup {q}
      /\ jobOf[q] \in Jobs /\ producer[q] \in Schedulers /\ jobs[jobOf[q]] # Unborn
  BY <1>1 DEF TouchRun, SpacingInv
<1>3. PICK j \in Jobs : j = jobOf[q]
  BY <1>2
<1>4. TouchesAreTold(j) /\ NextIsSpaced(j) /\ jobs[j].stored
  BY <1>1, <1>2, <1>3 DEF SpacingInv, TouchesAreTold
<1>5. Touchable(j) # {}
  BY <1>2, <1>3 DEF Touchable
<1>6. Touchable(j)' = {}
  <2>1. ASSUME NEW p \in QueueIds, jobOf[p] = j, phase[p] \in {"ready", "held"}, p \notin touched
        PROVE  p = q
    BY <1>1, <1>2, <1>3, <2>1 DEF OneActivePerScheduler, ActiveOf, SpacingInv
  <2> QED BY <1>1, <1>2, <2>1 DEF Touchable
<1>7. /\ lastTouches'[j] = <<lastTouches[j][2], now>>
      /\ \A i \in Jobs \ {j} : lastTouches'[i] = lastTouches[i] /\ jobs'[i] = jobs[i]
      /\ jobs'[j] = [jobs[j] EXCEPT !.last_run_at = now]
  BY <1>3, <1>4 DEF TouchRun, Touch, TypeInv, ControlTypeOK
<1>8. jobs'[j].stored /\ jobs'[j].last_run_at = now /\ ~Unborn.stored
  BY <1>4, <1>7, SpacingType DEF JobRow, Unborn
<1>9. jobs'[j] # Unborn
  BY <1>8, Zenon
<1>10. \A t \in Schedulers : InHand(t)' = InHand(t)
  BY <1>1 DEF InHand, Inserting
<1>11. lastTouches[j][2] \in Time /\ now \in Nat /\ Never \notin Nat
  BY SpacingType
<1>12. TouchesAreTold(j)'
  BY <1>1, <1>4, <1>7, <1>8, <1>11 DEF TouchesAreTold, Time
<1>13. NextIsSpaced(j)'
  <2>1. \A t \in Schedulers : j \in InHand(t) => Passed(lastTouches[j][2])
    BY <1>4, <1>5 DEF NextIsSpaced
  <2> QED BY <1>1, <1>6, <1>7, <1>10, <2>1 DEF NextIsSpaced, Passed
<1>14. ASSUME NEW i \in Jobs, i # j PROVE TouchesAreTold(i)' /\ NextIsSpaced(i)'
  <2>1. Touchable(i)' \subseteq Touchable(i)
    BY <1>1, <1>2 DEF Touchable
  <2> QED BY <1>1, <1>7, <1>10, <1>14, <2>1 DEF SpacingInv, TouchesAreTold, NextIsSpaced, Passed
<1>15. \A p \in QueueIds : phase'[p] # "unknown" =>
         jobOf'[p] \in Jobs /\ producer'[p] \in Schedulers /\ jobs'[jobOf'[p]] # Unborn
  BY <1>1, <1>7, <1>9 DEF SpacingInv
<1> QED BY <1>1, <1>12, <1>13, <1>14, <1>15 DEF SpacingInv

\* A tick lists what is due: its last touch is an interval ago.
LEMMA ListingKeepsSpacing ==
  ASSUME TypeInv, SpacingInv, NEW s \in Schedulers, ListJobs(s)
  PROVE  SpacingInv'
<1> SUFFICES ASSUME edits' = 0 PROVE SpacingInv'
  BY DEF SpacingInv
<1>1. /\ edits = 0
      /\ UNCHANGED <<phase, jobOf, producer, touched, admin, now, jobs, lastTouches>>
  BY DEF ListJobs, queueSide, history
<1>2. /\ \A t \in Schedulers \ {s} : InHand(t)' = InHand(t)
      /\ InHand(s)' = {j \in Jobs : jobs[j].stored /\ IsDueAt(jobs[j], now)}
  BY DEF ListJobs, InHand, Inserting, TypeInv, ControlTypeOK
<1>3. ASSUME NEW j \in Jobs PROVE TouchesAreTold(j)' /\ NextIsSpaced(j)'
  <2>1. TouchesAreTold(j) /\ NextIsSpaced(j)
    BY <1>1 DEF SpacingInv
  <2>2. TouchesAreTold(j)'
    BY <1>1, <2>1 DEF TouchesAreTold
  <2>3. lastTouches[j] \in Time \X Time /\ now \in Nat /\ Never \notin Nat /\ Interval \in Nat
    BY SpacingType
  <2>4. IsDueAt(jobs[j], now) => Passed(lastTouches[j][1]) /\ Passed(lastTouches[j][2])
    <3>1. PICK a \in Time, b \in Time : a = lastTouches[j][1] /\ b = lastTouches[j][2]
      BY <2>3
    <3> QED BY <2>1, <2>3, <3>1 DEF TouchesAreTold, IsDueAt, Passed, Time
  <2>5. Touchable(j)' = Touchable(j)
    BY <1>1 DEF Touchable
  <2>6. NextIsSpaced(j)'
    BY <1>1, <1>2, <2>1, <2>4, <2>5 DEF NextIsSpaced, Passed
  <2> QED BY <2>2, <2>6
<1> QED BY <1>1, <1>3 DEF SpacingInv

\* A dispatch is inserted for a job that was listed an interval after the last
\* touch but one, and there is no other that may touch it.
LEMMA InsertKeepsSpacing ==
  ASSUME NEW s, Schedulers = {s}, TypeInv, DispatchInv, SpacingInv,
         NEW q \in QueueIds, EnqueueScheduled(s, q)
  PROVE  SpacingInv'
<1> SUFFICES ASSUME edits' = 0 PROVE SpacingInv'
  BY DEF SpacingInv
<1> DEFINE j == scheduler[s].job
<1>1. /\ edits = 0 /\ UNCHANGED <<touched, admin, now, jobs, lastTouches>>
      /\ scheduler[s].step = "insert"
  BY DEF EnqueueScheduled, InsertDispatch, workerSide
<1>2. j \in Jobs /\ jobs[j] # Unborn /\ j \in InHand(s) /\ j \notin scheduler[s].todo
  BY <1>1 DEF DispatchInv, InHandIsKnown, InHand, Inserting
<1>3. /\ \A r \in QueueIds \ {q} : /\ phase'[r] = phase[r]
                                   /\ jobOf'[r] = jobOf[r]
                                   /\ producer'[r] = producer[r]
      /\ jobOf'[q] = j /\ producer'[q] = s
  BY DEF EnqueueScheduled, InsertDispatch, Submit, TypeInv, ControlTypeOK
<1>4. InHand(s)' = scheduler[s].todo
  BY DEF EnqueueScheduled, InHand, Inserting, TypeInv, ControlTypeOK
<1>5. InHand(s)' \subseteq InHand(s) /\ j \notin InHand(s)'
  BY <1>2, <1>4 DEF InHand
<1>6. ASSUME NEW i \in Jobs PROVE TouchesAreTold(i)' /\ NextIsSpaced(i)'
  <2>1. TouchesAreTold(i) /\ NextIsSpaced(i)
    BY <1>1 DEF SpacingInv
  <2>2. TouchesAreTold(i)'
    BY <1>1, <2>1 DEF TouchesAreTold
  <2>3. CASE i = j
    <3>1. Passed(lastTouches[i][1])
      BY <1>2, <2>1, <2>3 DEF NextIsSpaced
    <3> QED BY <1>1, <1>5, <2>2, <2>3, <3>1 DEF NextIsSpaced, Passed
  <2>4. CASE i # j
    <3>1. Touchable(i)' \subseteq Touchable(i)
      BY <1>1, <1>3, <2>4 DEF Touchable
    <3> QED BY <1>1, <1>5, <2>1, <2>2, <3>1 DEF NextIsSpaced, Passed
  <2> QED BY <2>3, <2>4
<1>7. \A p \in QueueIds : phase'[p] # "unknown" =>
        jobOf'[p] \in Jobs /\ producer'[p] \in Schedulers /\ jobs'[jobOf'[p]] # Unborn
  BY <1>1, <1>2, <1>3 DEF SpacingInv
<1> QED BY <1>1, <1>6, <1>7 DEF SpacingInv

LEMMA CreateKeepsSpacing ==
  ASSUME TypeInv, SpacingInv, NEW a \in Admins, NEW j \in Jobs, CreateJob(a, j)
  PROVE  SpacingInv'
<1> SUFFICES ASSUME edits' = 0 PROVE SpacingInv'
  BY DEF SpacingInv
<1>1. /\ edits = 0
      /\ UNCHANGED <<phase, jobOf, producer, touched, scheduler, admin, now, lastTouches>>
      /\ jobs[j] = Unborn
  BY DEF CreateJob, queueSide, history
<1>2. /\ \A i \in Jobs \ {j} : jobs'[i] = jobs[i]
      /\ jobs'[j].stored /\ jobs'[j].last_run_at = jobs[j].last_run_at
      /\ ~Unborn.stored
  BY <1>1 DEF CreateJob, Insert, Unborn, TypeInv, ControlTypeOK
<1>3. jobs'[j] # Unborn
  BY <1>2, Zenon
<1>4. ASSUME NEW i \in Jobs PROVE TouchesAreTold(i)' /\ NextIsSpaced(i)'
  <2>1. Touchable(i)' = Touchable(i) /\ \A s \in Schedulers : InHand(s)' = InHand(s)
    BY <1>1 DEF Touchable, InHand, Inserting
  <2> QED BY <1>1, <1>2, <1>3, <2>1 DEF SpacingInv, TouchesAreTold, NextIsSpaced, Passed
<1>5. \A p \in QueueIds : phase'[p] # "unknown" =>
        jobOf'[p] \in Jobs /\ producer'[p] \in Schedulers /\ jobs'[jobOf'[p]] # Unborn
  BY <1>1, <1>2, <1>3 DEF SpacingInv
<1> QED BY <1>1, <1>4, <1>5 DEF SpacingInv

LEMMA InitSpacing == ControlInit => SpacingInv
<1> SUFFICES ASSUME ControlInit PROVE SpacingInv
  OBVIOUS
<1>1. \A j \in Jobs : jobs[j] = Unborn /\ lastTouches[j] = <<Never, Never>> /\ Touchable(j) = {}
  BY DEF ControlInit, LifecycleInit, Touchable
<1>2. \A s \in Schedulers : InHand(s) = {}
  BY DEF ControlInit, IdleScheduler, InHand, Inserting
<1>3. ASSUME NEW j \in Jobs PROVE TouchesAreTold(j) /\ NextIsSpaced(j)
  <2>1. jobs[j].last_run_at = Never /\ lastTouches[j][1] = Never /\ lastTouches[j][2] = Never
    BY <1>1, <1>3 DEF Unborn
  <2>2. TouchesAreTold(j)
    BY <1>1, <1>3, <2>1 DEF TouchesAreTold
  <2>3. NextIsSpaced(j)
    BY <1>1, <1>2, <1>3 DEF NextIsSpaced
  <2> QED BY <2>2, <2>3
<1> QED BY <1>3 DEF SpacingInv, ControlInit, LifecycleInit, IdleAdmin

LEMMA KeepSpacing ==
  ASSUME NEW s, Schedulers = {s}, TypeInv, TypeInv', DispatchInv, SpacingInv, [ControlNext]_controlVars
  PROVE  SpacingInv'
<1> USE DEF queueSide, workerSide, history
<1>1. edits \in Nat /\ now \in Nat
  BY DEF TypeInv, ControlTypeOK
<1>2. ASSUME now' \in {now, now + 1}, UNCHANGED <<edits, admin, jobs, lastTouches, phase, jobOf, producer, touched>>,
             \A t \in Schedulers : InHand(t)' \subseteq InHand(t)
      PROVE  SpacingInv'
  <2>1. \A j \in Jobs : Touchable(j)' = Touchable(j)
    BY <1>2 DEF Touchable
  <2>2. edits' = 0 => \A a \in Admins : admin'[a].intent = "none"
    BY <1>2 DEF SpacingInv
  <2> QED BY <1>2, <2>1, <2>2, QuietSteps
<1>3. CASE \E j \in Jobs : CheckJob(s, j)
  <2>1. InHand(s)' \subseteq InHand(s)
    BY <1>3 DEF CheckJob, InHand, Inserting, TypeInv, ControlTypeOK
  <2> QED BY <1>2, <1>3, <2>1 DEF CheckJob
<1>4. CASE EndTick(s) \/ SchedulerDies(s)
  <2>1. InHand(s)' = {}
    BY <1>4 DEF EndTick, SchedulerDies, IdleScheduler, InHand, Inserting, TypeInv, ControlTypeOK
  <2> QED BY <1>2, <1>4, <2>1 DEF EndTick, SchedulerDies
<1>5. CASE ControlTick \/ UNCHANGED controlVars \/ \E w \in Workers : WorkerDies(w)
  BY <1>2, <1>5 DEF ControlTick, controlVars, WorkerDies, InHand, Inserting
<1>6. CASE \E a \in Admins : AdminFinishes(a)
  BY <1>6 DEF AdminFinishes, StoreEnabled, EnqueueManual, RunInline, SpacingInv
<1>7. CASE \E a \in Admins, j \in Jobs : DeleteJob(a, j) \/ \E i \in Intents : LoadJob(a, j, i)
  BY <1>1, <1>7 DEF DeleteJob, LoadJob, Edit, SpacingInv
<1>8. ASSUME NEW q \in QueueIds,
             UNCHANGED <<edits, admin, jobs, lastTouches, jobOf, producer, scheduler, now>>,
             phase[q] \in {"ready", "held"}, phase'[q] \in {"ready", "held"} => UNCHANGED touched,
             touched' \in {touched, touched \ {q}},
             \A r \in QueueIds \ {q} : phase'[r] = phase[r]
      PROVE  SpacingInv'
  <2>1. \A j \in Jobs : Touchable(j)' \subseteq Touchable(j)
    BY <1>8 DEF Touchable
  <2>2. edits' = 0 => \A a \in Admins : admin'[a].intent = "none"
    BY <1>8 DEF SpacingInv
  <2>3. \A t \in Schedulers : InHand(t)' = InHand(t)
    BY <1>8 DEF InHand, Inserting
  <2>4. \A r \in QueueIds : phase'[r] # "unknown" => phase[r] # "unknown"
    BY <1>8
  <2> QED BY <1>8, <2>1, <2>2, <2>3, <2>4, QuietSteps
<1>9. ASSUME NEW q \in QueueIds, (\E w \in Workers : StartRun(q, w)) \/ FailRun(q) PROVE SpacingInv'
  BY <1>8, <1>9 DEF StartRun, HandOver, FailRun, GiveBack, TypeInv, ControlTypeOK
<1>10. ASSUME NEW q \in QueueIds, CompleteRun(q) PROVE SpacingInv'
  BY <1>8, <1>10 DEF CompleteRun, Complete, TypeInv, ControlTypeOK
<1>11. ASSUME NEW q \in QueueIds, TouchRun(q) PROVE SpacingInv'
  BY <1>11, TouchKeepsSpacing DEF DispatchInv
<1>12. CASE ListJobs(s)
  BY <1>12, ListingKeepsSpacing
<1>13. CASE \E q \in QueueIds : EnqueueScheduled(s, q)
  BY <1>13, InsertKeepsSpacing
<1>14. CASE \E a \in Admins, j \in Jobs : CreateJob(a, j)
  BY <1>14, CreateKeepsSpacing
<1> QED
  BY <1>3, <1>4, <1>5, <1>6, <1>7, <1>9, <1>10, <1>11, <1>12, <1>13, <1>14
  DEF ControlNext, SchedulerStep, RunStep

\* With one scheduler, and while nobody edits jobs or runs them by hand, of three
\* successful runs of a job the first and the last are an interval apart: a list
\* that goes stale in the scheduler's hand makes one run too many and never two.
THEOREM RunsKeepDistance ==
  ASSUME NEW s, Schedulers = {s}
  PROVE  ControlSpec => RunsAreSpaced
<1> DEFINE Spaced == \A j \in Jobs :
             LET before == lastTouches[j][1] IN
             edits = 0 /\ lastTouches'[j] # lastTouches[j] /\ before # Never
               => now >= before + Interval
<1>1. ControlInit => DispatchInv /\ SpacingInv
  BY InitDispatchInv, InitSpacing
<1>2. TypeInv /\ DispatchInv /\ [ControlNext]_controlVars => DispatchInv'
  BY KeepDispatchInv
<1>3. TypeInv /\ TypeInv' /\ DispatchInv /\ SpacingInv /\ [ControlNext]_controlVars => SpacingInv'
  BY KeepSpacing
<1>4. ASSUME TypeInv, SpacingInv, [ControlNext]_controlVars PROVE [Spaced]_controlVars
  <2> SUFFICES ASSUME ControlNext, NEW j \in Jobs, edits = 0, lastTouches'[j] # lastTouches[j],
                      lastTouches[j][1] # Never
               PROVE  now >= lastTouches[j][1] + Interval
    BY <1>4
  <2>1. PICK q \in QueueIds : TouchRun(q)
    BY DEF ControlNext, SchedulerStep, SchedulerDies, AdminFinishes, RunStep, ListJobs, CheckJob,
        EnqueueScheduled, EndTick, StoreEnabled, EnqueueManual, RunInline, CreateJob, DeleteJob, LoadJob,
        FailRun, CompleteRun, StartRun, WorkerDies, ControlTick, history
  <2>2. jobOf[q] = j
    BY <1>4, <2>1 DEF TouchRun, TypeInv, ControlTypeOK
  <2>3. Touchable(j) # {}
    BY <2>1, <2>2 DEF TouchRun, Touchable
  <2>4. Passed(lastTouches[j][1])
    BY <1>4, <2>3 DEF SpacingInv, NextIsSpaced
  <2>5. now \in Nat /\ Interval \in Nat /\ lastTouches[j][1] \in Nat
    <3>1. lastTouches[j] \in Time \X Time
      BY <1>4, SpacingType
    <3> QED BY <1>4, <3>1, SpacingType DEF Time
  <2> QED BY <2>4, <2>5 DEF Passed
<1>5. QED BY <1>1, <1>2, <1>3, <1>4, ControlPlaneTypes, PTL DEF ControlSpec, RunsAreSpaced
=============================================================================
