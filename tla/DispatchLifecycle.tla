-------------------------- MODULE DispatchLifecycle --------------------------
(***************************************************************************)
(* What the job queue promises about one dispatch, with no SQL in it: a    *)
(* dispatch is handed to one worker at a time, each hand-over ends in a    *)
(* success, in a retry or, after MaxAttempts failures, in a burial, and a  *)
(* finished dispatch is never handed out again.                            *)
(***************************************************************************)
EXTENDS Naturals

CONSTANTS
  Workers,      \* worker processes
  QueueIds,     \* identifiers a dispatch can be given
  MaxAttempts,  \* failures after which a dispatch is buried
  NoWorker      \* the holder of a dispatch nobody holds

ASSUME LifecycleAssumption ==
  /\ MaxAttempts \in Nat \ {0}
  /\ NoWorker \notin Workers

VARIABLES
  phase,        \* [QueueIds -> Phases]
  holder,       \* the worker each dispatch is handed to
  failures      \* failed hand-overs of each dispatch

lifecycleVars == <<phase, holder, failures>>

Phases == {"unknown", "ready", "held", "done", "buried"}

LifecycleInit ==
  /\ phase = [q \in QueueIds |-> "unknown"]
  /\ holder = [q \in QueueIds |-> NoWorker]
  /\ failures = [q \in QueueIds |-> 0]

Submit(q) ==
  /\ phase[q] = "unknown"
  /\ phase' = [phase EXCEPT ![q] = "ready"]
  /\ failures' = [failures EXCEPT ![q] = 0]
  /\ UNCHANGED holder

HandOver(q, w) ==
  /\ phase[q] = "ready"
  /\ phase' = [phase EXCEPT ![q] = "held"]
  /\ holder' = [holder EXCEPT ![q] = w]
  /\ UNCHANGED failures

Complete(q) ==
  /\ phase[q] = "held"
  /\ phase' = [phase EXCEPT ![q] = "done"]
  /\ holder' = [holder EXCEPT ![q] = NoWorker]
  /\ UNCHANGED failures

(* A failed hand-over is one more failure; the last allowed one buries.    *)
GiveBack(q) ==
  /\ phase[q] = "held"
  /\ failures' = [failures EXCEPT ![q] = @ + 1]
  /\ phase' = [phase EXCEPT
                 ![q] = IF failures[q] + 1 >= MaxAttempts THEN "buried" ELSE "ready"]
  /\ holder' = [holder EXCEPT ![q] = NoWorker]

LifecycleNext ==
  \E q \in QueueIds :
    \/ Submit(q)
    \/ \E w \in Workers : HandOver(q, w)
    \/ Complete(q)
    \/ GiveBack(q)

LifecycleSpec == LifecycleInit /\ [][LifecycleNext]_lifecycleVars
=============================================================================
