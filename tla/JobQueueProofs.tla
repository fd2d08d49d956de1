--------------------------- MODULE JobQueueProofs ---------------------------
(***************************************************************************)
(* Proofs about JobQueue, for any number of workers, dispatches, attempts  *)
(* and deaths.                                                             *)
(***************************************************************************)
EXTENDS JobQueue, FiniteSetTheorems, TLAPS

(***************************************************************************)
(* The inductive invariant                                                 *)
(***************************************************************************)
(* Which mark_* call, if any, each step of the worker loop belongs to.     *)
StepAndMark ==
  \A w \in Workers :
    LET me == worker[w] IN
    /\ me.step = "idle" <=> me.item = NoItem
    /\ me.step \in {"get", "update"} => me.mark \in {"running", "succeeded", "failed"}
    /\ me.step = "log" => me.mark # "none"
    /\ me.step \in {"executing", "touch", "selected"} => me.mark = "none"

(* The copy a worker acts on: mark_* write back what they just read, and a *)
(* selected candidate was pending and due when it was read.                *)
CopyIsSound ==
  \A w \in Workers :
    LET me == worker[w] IN
    /\ me.step = "update" => me.row = queue[me.item]
    /\ me.step = "selected" =>
         /\ me.row.available_at <= now
         /\ me.row.attempts <= queue[me.item].attempts
         /\ queue[me.item].status # "absent"
         /\ (me.row.attempts = queue[me.item].attempts
               => me.row.available_at = queue[me.item].available_at)

IInv ==
  /\ TypeOK
  /\ StepAndMark
  /\ HeldRowIsMine
  /\ CopyIsSound
  /\ AttemptsWithinBudget

(***************************************************************************)
(* What the item transitions return                                        *)
(***************************************************************************)
LEMMA DispatchedType ==
  ASSUME now \in Nat, NEW j \in Jobs
  PROVE  Dispatched(j) \in Row
BY DEF Dispatched, Row, Status, Active

LEMMA ClaimedType ==
  ASSUME NEW r \in Row, NEW w \in Workers
  PROVE  Claimed(r, w) \in Row
BY DEF Claimed, Row, Status, Active

LEMMA MarkedType ==
  ASSUME now \in Nat, NEW r \in Row, NEW m \in Marks
  PROVE  Marked(m, r) \in Row
<1>1. Started(r) \in Row /\ Succeeded(r) \in Row
  BY DEF Started, Succeeded, Row, Status, Active, Terminal
<1>2. Failed(r) \in Row
  <2>1. r.attempts + 1 \in Nat /\ now + RetryDelay \in Nat
    BY QueueAssumption DEF Row
  <2>2. CASE Exhausted(r)
    BY <2>1, <2>2 DEF Failed, Row, Status, Active, Terminal
  <2>3. CASE ~Exhausted(r)
    BY <2>1, <2>3 DEF Failed, Row, Status, Active, Terminal
  <2> QED
    BY <2>2, <2>3
<1> QED
  BY <1>1, <1>2 DEF Marked

LEMMA WrittenType ==
  ASSUME NEW old \in Row, NEW new \in Row, NEW m \in Marks
  PROVE  Written(m, old, new) \in Row
BY DEF Written, Row

(***************************************************************************)
(* The invariant is inductive                                              *)
(***************************************************************************)
LEMMA InitIInv == QueueInit => IInv
<1> SUFFICES ASSUME QueueInit PROVE IInv
  OBVIOUS
<1> USE QueueAssumption DEF QueueInit, IdleWorker, AbsentRow
<1>1. TypeOK
  BY DEF TypeOK, Row, Local, Status, Active, Steps, Marks, Records
<1>2. StepAndMark /\ CopyIsSound
  BY DEF StepAndMark, CopyIsSound
<1>3. HeldRowIsMine
  BY DEF HeldRowIsMine, Holds
<1>4. AttemptsWithinBudget
  BY DEF AttemptsWithinBudget
<1> QED
  BY <1>1, <1>2, <1>3, <1>4 DEF IInv

LEMMA EnqueueIInv ==
  ASSUME IInv, NEW q \in QueueIds, NEW j \in Jobs, Enqueue(q, j)
  PROVE  IInv'
<1> USE QueueAssumption DEF IInv, Enqueue
<1>1. Dispatched(j) \in Row /\ Dispatched(j).status = "pending" /\ Dispatched(j).attempts = 0
  BY DispatchedType DEF TypeOK, Dispatched
<1>2. TypeOK'
  BY <1>1 DEF TypeOK
<1>3. \A w \in Workers : Holds(w) \/ worker[w].step = "selected" => worker[w].item # q
  BY DEF Holds, HeldRowIsMine, CopyIsSound
<1>4. StepAndMark' /\ HeldRowIsMine'
  BY <1>3 DEF StepAndMark, HeldRowIsMine, Holds, BeforeRunning, TypeOK, Local
<1>5. CopyIsSound'
  BY <1>3 DEF CopyIsSound, Holds, TypeOK
<1>6. AttemptsWithinBudget'
  BY <1>1 DEF AttemptsWithinBudget, TypeOK
<1> QED
  BY <1>2, <1>4, <1>5, <1>6

LEMMA SelectIInv ==
  ASSUME IInv, NEW q \in QueueIds, NEW w \in Workers, SelectCandidate(w, q)
  PROVE  IInv'
<1> USE QueueAssumption DEF IInv, SelectCandidate, FirstDue, Due
<1>1. TypeOK'
  BY DEF TypeOK, Local, Steps, Marks
<1>2. StepAndMark'
  BY <1>1 DEF StepAndMark, TypeOK, Local
<1>3. HeldRowIsMine'
  BY DEF HeldRowIsMine, Holds, BeforeRunning, TypeOK
<1>4. CopyIsSound'
  BY DEF CopyIsSound, TypeOK, Row
<1>5. AttemptsWithinBudget'
  BY DEF AttemptsWithinBudget
<1> QED
  BY <1>1, <1>2, <1>3, <1>4, <1>5

LEMMA ClaimIInv ==
  ASSUME IInv, NEW w \in Workers, ClaimCandidate(w)
  PROVE  IInv'
<1> DEFINE q == worker[w].item
<1> USE QueueAssumption DEF IInv, ClaimCandidate, ClaimMatches
<1>1. q \in QueueIds /\ queue[q] \in Row /\ worker[w].row \in Row
  BY DEF TypeOK, Local, StepAndMark
<1>2. Claimed(queue[q], w) \in Row /\ Claimed(worker[w].row, w) \in Row
  BY <1>1, ClaimedType
<1>3. TypeOK'
  BY <1>1, <1>2 DEF TypeOK, Local, Steps, Marks
<1>4. StepAndMark'
  BY <1>1 DEF StepAndMark, TypeOK
<1>5. \A v \in Workers : Holds(v) => v # w /\ worker[v].item # q
  BY DEF Holds, HeldRowIsMine
<1>6. HeldRowIsMine'
  <2> SUFFICES ASSUME NEW v \in Workers, Holds(v)'
               PROVE  /\ queue'[worker'[v].item].claimed_by = v
                      /\ queue'[worker'[v].item].status
                           = IF BeforeRunning(worker'[v]) THEN "claimed" ELSE "running"
    BY DEF HeldRowIsMine, BeforeRunning
  <2>1. CASE v = w
    BY <1>1, <2>1 DEF TypeOK, Claimed, Row, BeforeRunning
  <2>2. CASE v # w
    BY <1>1, <1>5, <2>2 DEF TypeOK, HeldRowIsMine, Holds, BeforeRunning
  <2> QED
    BY <2>1, <2>2
<1>7. CopyIsSound'
  BY <1>1, <1>5 DEF CopyIsSound, TypeOK, Claimed, Row, Holds
<1>8. AttemptsWithinBudget'
  BY <1>1 DEF AttemptsWithinBudget, TypeOK, Claimed, Row
<1> QED
  BY <1>3, <1>4, <1>6, <1>7, <1>8

(* A worker that gives up its candidate, or dies, forgets everything.      *)
LEMMA ForgetIInv ==
  ASSUME IInv, NEW w \in Workers, UNCHANGED <<queue, executions, unlogged, now>>,
         crashes' \in 0 .. MaxCrashes, worker' = [worker EXCEPT ![w] = IdleWorker]
  PROVE  IInv'
<1> USE QueueAssumption DEF IInv, IdleWorker, AbsentRow
<1>1. TypeOK'
  BY DEF TypeOK, Local, Steps, Marks, Row, Status
<1>2. StepAndMark' /\ HeldRowIsMine'
  BY DEF StepAndMark, HeldRowIsMine, Holds, BeforeRunning, TypeOK
<1>3. CopyIsSound' /\ AttemptsWithinBudget'
  BY DEF CopyIsSound, AttemptsWithinBudget, TypeOK
<1> QED
  BY <1>1, <1>2, <1>3

LEMMA GetIInv ==
  ASSUME IInv, NEW w \in Workers, GetItem(w)
  PROVE  IInv'
<1> USE QueueAssumption DEF IInv, GetItem
<1>1. worker[w].item \in QueueIds
  BY DEF TypeOK, Local, StepAndMark
<1>2. TypeOK'
  BY <1>1 DEF TypeOK, Local, Steps
<1>3. StepAndMark' /\ HeldRowIsMine'
  BY <1>1 DEF StepAndMark, HeldRowIsMine, Holds, BeforeRunning, TypeOK, Local
<1>4. CopyIsSound' /\ AttemptsWithinBudget'
  BY <1>1 DEF CopyIsSound, AttemptsWithinBudget, TypeOK, Local
<1> QED
  BY <1>2, <1>3, <1>4

(* What the UPDATE of a mark_* call leaves in the row, as its copy was     *)
(* fresh.                                                                  *)
LEMMA UpdateEffect ==
  ASSUME IInv, NEW w \in Workers, UpdateItem(w)
  PROVE  LET q == worker[w].item  m == worker[w].mark IN
         /\ q \in QueueIds
         /\ m \in {"running", "succeeded", "failed"}
         /\ Holds(w) /\ queue[q].status \in {"claimed", "running"}
         /\ queue'[q] = Marked(m, queue[q])
         /\ queue'[q] \in Row
         /\ \A p \in QueueIds : p # q => queue'[p] = queue[p]
         /\ worker' = [worker EXCEPT ![w] = [step |-> "log", mark |-> m,
                                             item |-> q, row |-> queue'[q]]]
<1> DEFINE q == worker[w].item
           m == worker[w].mark
<1> USE QueueAssumption DEF IInv, UpdateItem
<1>1. q \in QueueIds /\ m \in {"running", "succeeded", "failed"} /\ Holds(w)
  BY DEF TypeOK, Local, StepAndMark, Holds
<1>2. queue[q].status \in {"claimed", "running"}
  BY <1>1 DEF HeldRowIsMine
<1>3. worker[w].row = queue[q] /\ queue[q] \in Row
  BY <1>1 DEF CopyIsSound, TypeOK
<1>4. Written(m, queue[q], Marked(m, queue[q])) = Marked(m, queue[q])
  <2>1. CASE m = "failed"
    BY <1>3, <2>1 DEF Written, Marked, Failed, Row
  <2>2. CASE m \in {"running", "succeeded"}
    BY <1>3, <2>2 DEF Written, Marked, Started, Succeeded, Row
  <2> QED
    BY <1>1, <2>1, <2>2
<1>5. queue'[q] = Marked(m, queue[q]) /\ \A p \in QueueIds : p # q => queue'[p] = queue[p]
  BY <1>1, <1>3, <1>4 DEF TypeOK
<1>6. Marked(m, queue[q]) \in Row
  BY <1>1, <1>3, MarkedType DEF TypeOK, Marks
<1>7. worker' = [worker EXCEPT ![w] = [step |-> "log", mark |-> m,
                                      item |-> q, row |-> queue'[q]]]
  BY <1>3, <1>5 DEF TypeOK
<1> QED
  BY <1>1, <1>2, <1>5, <1>6, <1>7

LEMMA MarkedFields ==
  ASSUME NEW r \in Row, now \in Nat
  PROVE  /\ Marked("running", r).status = "running"
         /\ Marked("running", r).attempts = r.attempts
         /\ Marked("running", r).claimed_by = r.claimed_by
         /\ Marked("succeeded", r).status = "succeeded"
         /\ Marked("succeeded", r).attempts = r.attempts
         /\ Marked("failed", r).attempts = r.attempts + 1
         /\ Marked("failed", r).status
              = IF r.attempts + 1 >= MaxAttempts THEN "failed" ELSE "pending"
<1>1. Failed(r).status = IF Exhausted(r) THEN "failed" ELSE "pending"
  BY DEF Failed, Row
<1>2. Failed(r).attempts = r.attempts + 1
  BY DEF Failed, Row
<1> QED
  BY <1>1, <1>2 DEF Marked, Started, Succeeded, Exhausted, Row

LEMMA UpdateIInv ==
  ASSUME IInv, NEW w \in Workers, UpdateItem(w)
  PROVE  IInv'
<1> DEFINE q == worker[w].item
           m == worker[w].mark
<1> USE QueueAssumption DEF IInv
<1>1. /\ q \in QueueIds /\ m \in {"running", "succeeded", "failed"}
      /\ Holds(w) /\ queue[q].status \in {"claimed", "running"}
      /\ queue'[q] = Marked(m, queue[q]) /\ queue'[q] \in Row
      /\ \A p \in QueueIds : p # q => queue'[p] = queue[p]
      /\ worker' = [worker EXCEPT ![w] = [step |-> "log", mark |-> m,
                                          item |-> q, row |-> queue'[q]]]
  BY UpdateEffect
<1>2. /\ worker'[w] = [step |-> "log", mark |-> m, item |-> q, row |-> queue'[q]]
      /\ \A v \in Workers : v # w => worker'[v] = worker[v]
      /\ UNCHANGED <<executions, unlogged, now, crashes>>
  BY <1>1 DEF UpdateItem, TypeOK
<1>3. queue[q] \in Row /\ now \in Nat
  BY <1>1 DEF TypeOK
<1>4. \A v \in Workers : v # w /\ Holds(v) => worker[v].item # q
  BY <1>1 DEF HeldRowIsMine
<1>5. TypeOK'
  <2>1. [step |-> "log", mark |-> m, item |-> q, row |-> queue'[q]] \in Local
    BY <1>1 DEF Local, Steps, Marks
  <2>2. queue' \in [QueueIds -> Row]
    BY <1>1 DEF UpdateItem, TypeOK
  <2> QED
    BY <1>1, <1>2, <2>1, <2>2 DEF TypeOK
<1>6. StepAndMark'
  BY <1>1, <1>2 DEF StepAndMark
<1>7. HeldRowIsMine'
  <2> SUFFICES ASSUME NEW v \in Workers, Holds(v)'
               PROVE  /\ queue'[worker'[v].item].claimed_by = v
                      /\ queue'[worker'[v].item].status
                           = IF BeforeRunning(worker'[v]) THEN "claimed" ELSE "running"
    BY DEF HeldRowIsMine, BeforeRunning
  <2>1. CASE v = w
    <3>1. m = "running" /\ worker'[w].item = q /\ worker'[w].mark = m /\ worker'[w].step = "log"
      BY <1>1, <1>2, <2>1 DEF Holds
    <3>2. queue'[q].claimed_by = w /\ queue'[q].status = "running"
      BY <1>1, <1>3, <3>1, MarkedFields DEF HeldRowIsMine
    <3> QED
      BY <2>1, <3>1, <3>2 DEF BeforeRunning
  <2>2. CASE v # w
    <3>1. Holds(v) /\ worker'[v] = worker[v] /\ worker[v].item # q
      BY <1>2, <1>4, <2>2 DEF Holds
    <3>2. worker[v].item \in QueueIds
      BY <3>1 DEF TypeOK, Local, StepAndMark, Holds
    <3> QED
      BY <1>1, <3>1, <3>2 DEF HeldRowIsMine, BeforeRunning
  <2> QED
    BY <2>1, <2>2
<1>8. CopyIsSound'
  <2> SUFFICES ASSUME NEW v \in Workers, worker'[v].step \in {"update", "selected"}
               PROVE  LET me == worker'[v] IN
                      /\ me.step = "update" => me.row = queue'[me.item]
                      /\ me.step = "selected" =>
                           /\ me.row.available_at <= now'
                           /\ me.row.attempts <= queue'[me.item].attempts
                           /\ queue'[me.item].status # "absent"
                           /\ (me.row.attempts = queue'[me.item].attempts
                                 => me.row.available_at = queue'[me.item].available_at)
    BY DEF CopyIsSound
  <2>1. v # w /\ worker'[v] = worker[v] /\ worker[v].item \in QueueIds
    BY <1>1, <1>2 DEF TypeOK, Local, StepAndMark
  <2>2. CASE worker[v].item # q
    BY <1>1, <1>2, <2>1, <2>2 DEF CopyIsSound
  <2>3. CASE worker[v].item = q
    <3>1. worker[v].step = "selected"
      BY <1>4, <2>1, <2>3 DEF Holds
    <3>2. /\ worker[v].row.available_at <= now /\ worker[v].row.attempts <= queue[q].attempts
          /\ (worker[v].row.attempts = queue[q].attempts
                => worker[v].row.available_at = queue[q].available_at)
      BY <2>3, <3>1 DEF CopyIsSound
    <3>3. worker[v].row.attempts \in Nat /\ queue[q].attempts \in Nat
      BY <1>3 DEF TypeOK, Local, Row
    <3>4. CASE m = "failed"
      BY <1>1, <1>2, <1>3, <2>1, <2>3, <3>1, <3>2, <3>3, <3>4, MarkedFields
    <3>5. CASE m \in {"running", "succeeded"}
      <4>1. queue'[q].available_at = queue[q].available_at
        BY <1>1, <1>3, <3>5 DEF Marked, Started, Succeeded, Row
      <4> QED
        BY <1>1, <1>2, <1>3, <2>1, <2>3, <3>1, <3>2, <3>5, <4>1, MarkedFields
    <3> QED
      BY <1>1, <3>4, <3>5
  <2> QED
    BY <2>2, <2>3
<1>9. AttemptsWithinBudget'
  <2>1. queue[q].attempts \in Nat /\ queue[q].attempts < MaxAttempts
    BY <1>1, <1>3 DEF AttemptsWithinBudget, Row
  <2>2. /\ queue'[q].attempts <= MaxAttempts
        /\ (queue'[q].status = "failed") <=> (queue'[q].attempts = MaxAttempts)
    BY <1>1, <1>3, <2>1, MarkedFields
  <2> QED
    BY <1>1, <2>2 DEF AttemptsWithinBudget
<1> QED
  BY <1>5, <1>6, <1>7, <1>8, <1>9

LEMMA AppendIInv ==
  ASSUME IInv, NEW w \in Workers, AppendExecution(w)
  PROVE  IInv'
<1> DEFINE q == worker[w].item
<1> USE QueueAssumption DEF IInv, AppendExecution
<1>1. q \in QueueIds /\ worker[w].mark \in {"claimed", "running", "succeeded", "failed"}
  BY DEF TypeOK, Local, StepAndMark, Marks
<1>2. RecordOf(worker[w]) \in Records
  BY <1>1 DEF RecordOf, Records
<1>3. executions' \in [QueueIds -> [Records -> Nat]]
  BY <1>1, <1>2 DEF TypeOK
<1>4. AfterLog(worker[w]) \in Local
  BY <1>1 DEF AfterLog, TypeOK, Local, Steps, Marks, IdleWorker, AbsentRow, Row, Status
<1>5. TypeOK'
  BY <1>3, <1>4 DEF TypeOK
<1>6. /\ worker'[w] = AfterLog(worker[w])
      /\ \A v \in Workers : v # w => worker'[v] = worker[v]
  BY DEF TypeOK
<1>7. \/ /\ worker'[w].step = "get" /\ worker'[w].mark = "running" /\ worker'[w].item = q
         /\ worker[w].mark = "claimed"
      \/ /\ worker'[w].step = "executing" /\ worker'[w].mark = "none" /\ worker'[w].item = q
         /\ worker[w].mark = "running"
      \/ worker'[w] = IdleWorker
  BY <1>1, <1>6 DEF AfterLog, TypeOK, Local
<1>8. StepAndMark'
  BY <1>1, <1>6, <1>7, <1>5 DEF StepAndMark, IdleWorker, TypeOK, Local
<1>9. HeldRowIsMine'
  BY <1>1, <1>6, <1>7 DEF HeldRowIsMine, Holds, BeforeRunning, IdleWorker
<1>10. CopyIsSound' /\ AttemptsWithinBudget'
  BY <1>6, <1>7 DEF CopyIsSound, AttemptsWithinBudget, IdleWorker
<1> QED
  BY <1>5, <1>8, <1>9, <1>10

LEMMA RunIInv ==
  ASSUME IInv, NEW w \in Workers, ExecutionSucceeds(w) \/ ExecutionFails(w) \/ TouchJob(w)
  PROVE  IInv'
<1> USE QueueAssumption DEF IInv, ExecutionSucceeds, ExecutionFails, TouchJob
<1>1. TypeOK'
  BY DEF TypeOK, Local, Steps, Marks
<1>2. worker[w].step \in {"executing", "touch"} /\ Holds(w) /\ ~BeforeRunning(worker[w])
  BY DEF Holds, BeforeRunning, StepAndMark
<1>3. /\ worker'[w].item = worker[w].item /\ worker'[w].row = worker[w].row
      /\ \/ worker'[w].step = "touch" /\ worker'[w].mark = "none"
         \/ worker'[w].step = "get" /\ worker'[w].mark \in {"succeeded", "failed"}
      /\ \A v \in Workers : v # w => worker'[v] = worker[v]
      /\ UNCHANGED <<queue, now>>
  BY <1>2 DEF StepAndMark, TypeOK, Local
<1>4. StepAndMark'
  BY <1>2, <1>3 DEF StepAndMark
<1>5. HeldRowIsMine'
  BY <1>2, <1>3 DEF HeldRowIsMine, Holds, BeforeRunning
<1>6. CopyIsSound' /\ AttemptsWithinBudget'
  BY <1>3 DEF CopyIsSound, AttemptsWithinBudget
<1> QED
  BY <1>1, <1>4, <1>5, <1>6

(* Steps that leave the queue and the workers alone.                       *)
LEMMA AsideIInv ==
  ASSUME IInv, UNCHANGED <<queue, worker>>, now' \in Nat, now <= now',
         crashes' \in 0 .. MaxCrashes, unlogged' \subseteq QueueIds,
         executions' \in [QueueIds -> [Records -> Nat]]
  PROVE  IInv'
<1> USE QueueAssumption DEF IInv
<1>1. TypeOK'
  BY DEF TypeOK
<1>2. StepAndMark' /\ HeldRowIsMine' /\ AttemptsWithinBudget'
  BY DEF StepAndMark, HeldRowIsMine, Holds, BeforeRunning, AttemptsWithinBudget
<1>3. CopyIsSound'
  <2>1. \A w \in Workers : worker[w].row.available_at \in Nat
    BY DEF TypeOK, Local, Row
  <2> QED
    BY <2>1 DEF CopyIsSound, TypeOK
<1> QED
  BY <1>1, <1>2, <1>3

LEMMA StepIInv == IInv /\ [QueueNext]_queueVars => IInv'
<1> SUFFICES ASSUME IInv, [QueueNext]_queueVars PROVE IInv'
  OBVIOUS
<1> USE QueueAssumption
<1>1. ASSUME NEW q \in QueueIds, NEW j \in Jobs, Enqueue(q, j) PROVE IInv'
  BY <1>1, EnqueueIInv
<1>2. ASSUME NEW q \in QueueIds, LogEnqueue(q) PROVE IInv'
  <2>1. executions' \in [QueueIds -> [Records -> Nat]]
    BY <1>2 DEF LogEnqueue, IInv, TypeOK, Records
  <2> QED
    BY <1>2, <2>1, AsideIInv DEF LogEnqueue, IInv, TypeOK
<1>3. ASSUME NEW q \in QueueIds, ProducerCrash(q) PROVE IInv'
  BY <1>3, AsideIInv DEF ProducerCrash, IInv, TypeOK
<1>4. ASSUME NEW w \in Workers, WorkerStep(w) PROVE IInv'
  <2>1. ASSUME NEW q \in QueueIds, SelectCandidate(w, q) PROVE IInv'
    BY <2>1, SelectIInv
  <2>2. CASE ClaimCandidate(w)
    BY <2>2, ClaimIInv
  <2>3. CASE LoseCandidate(w)
    BY <2>3, ForgetIInv DEF LoseCandidate, IInv, TypeOK
  <2>4. CASE GetItem(w)
    BY <2>4, GetIInv
  <2>5. CASE UpdateItem(w)
    BY <2>5, UpdateIInv
  <2>6. CASE AppendExecution(w)
    BY <2>6, AppendIInv
  <2>7. CASE ExecutionSucceeds(w) \/ ExecutionFails(w) \/ TouchJob(w)
    BY <2>7, RunIInv
  <2> QED
    BY <1>4, <2>1, <2>2, <2>3, <2>4, <2>5, <2>6, <2>7 DEF WorkerStep
<1>5. ASSUME NEW w \in Workers, WorkerCrash(w) PROVE IInv'
  <2>1. crashes' \in 0 .. MaxCrashes
    BY <1>5 DEF WorkerCrash, IInv, TypeOK
  <2> QED
    BY <1>5, <2>1, ForgetIInv DEF WorkerCrash
<1>6. CASE Tick
  <2>1. now' \in Nat /\ now <= now'
    BY <1>6 DEF Tick, IInv, TypeOK
  <2> QED
    BY <1>6, <2>1, AsideIInv DEF Tick, IInv, TypeOK
<1>7. CASE UNCHANGED queueVars
  BY <1>7, AsideIInv DEF queueVars, IInv, TypeOK
<1> QED
  BY <1>1, <1>2, <1>3, <1>4, <1>5, <1>6, <1>7 DEF QueueNext

LEMMA Invariance == QueueSpec => []IInv
BY InitIInv, StepIInv, PTL DEF QueueSpec

(***************************************************************************)
(* The history agrees with the rows                                        *)
(***************************************************************************)
(* Workers between the UPDATE of a mark and its record.                    *)
Logging(m, q) ==
  {w \in Workers : worker[w].step = "log" /\ worker[w].mark = m /\ worker[w].item = q}

(* Every claim but the one under way or successful is paid for, be it      *)
(* recorded or about to be.                                                *)
ClaimsPaid(q) ==
  executions[q]["claimed"]
    <= queue[q].attempts
         + IF queue[q].status \in {"claimed", "running", "succeeded"} /\ Logging("claimed", q) = {}
           THEN 1 ELSE 0

(* Recording is a finite set, and so can be counted.                       *)
FailuresCounted(q) ==
  /\ IsFiniteSet(Recording(q))
  /\ FailuresRecorded(q) + Cardinality(Recording(q)) <= queue[q].attempts
  /\ crashes = 0 => FailuresRecorded(q) + Cardinality(Recording(q)) = queue[q].attempts

(* A success is recorded once, by the worker that ended the item.          *)
SuccessIsOne(q) ==
  /\ executions[q]["succeeded"] <= IF queue[q].status = "succeeded" THEN 1 ELSE 0
  /\ \A v \in Logging("succeeded", q) :
       /\ queue[q].status = "succeeded" /\ executions[q]["succeeded"] = 0
       /\ Logging("succeeded", q) = {v}

BlankBefore(q) == queue[q].status = "absent" => queue[q].attempts = 0

HistoryOf(q) == ClaimsPaid(q) /\ FailuresCounted(q) /\ SuccessIsOne(q) /\ BlankBefore(q)

HistoryInv == \A q \in QueueIds : HistoryOf(q)

LEMMA InitHistoryInv == QueueInit => HistoryInv
<1> SUFFICES ASSUME QueueInit, NEW q \in QueueIds PROVE HistoryOf(q)
  BY DEF HistoryInv
<1>1. Logging("claimed", q) = {} /\ Logging("succeeded", q) = {} /\ Recording(q) = {}
  BY DEF QueueInit, IdleWorker, Logging, Recording
<1>2. /\ queue[q] = AbsentRow /\ \A r \in Records : executions[q][r] = 0
  BY DEF QueueInit
<1> QED
  BY <1>1, <1>2, FS_EmptySet
     DEF HistoryOf, ClaimsPaid, FailuresCounted, FailuresRecorded, SuccessIsOne, BlankBefore, AbsentRow, Records

(* What the history of an item depends on.                                 *)
LEMMA SameHistory ==
  ASSUME NEW q \in QueueIds, HistoryOf(q), crashes' = 0 => crashes = 0,
         queue'[q].status = queue[q].status, queue'[q].attempts = queue[q].attempts,
         \A r \in {"claimed", "retried", "failed", "succeeded"} : executions'[q][r] = executions[q][r],
         \A m \in {"claimed", "failed", "succeeded"} : Logging(m, q)' = Logging(m, q)
  PROVE  HistoryOf(q)'
<1>1. Recording(q)' = Recording(q)
  BY DEF Recording, Logging
<1>2. FailuresRecorded(q)' = FailuresRecorded(q)
  BY DEF FailuresRecorded
<1>3. FailuresCounted(q)'
  BY <1>1, <1>2 DEF HistoryOf, FailuresCounted
<1>4. ClaimsPaid(q)' /\ SuccessIsOne(q)' /\ BlankBefore(q)'
  BY DEF HistoryOf, ClaimsPaid, SuccessIsOne, BlankBefore
<1> QED
  BY <1>3, <1>4 DEF HistoryOf

(* A worker changes what it is doing; it was not about to record.          *)
LEMMA LoggingSet ==
  ASSUME TypeOK, NEW w \in Workers, NEW me \in Local, worker' = [worker EXCEPT ![w] = me],
         NEW m, NEW q
  PROVE  Logging(m, q)' =
           IF me.step = "log" /\ me.mark = m /\ me.item = q
           THEN Logging(m, q) \cup {w} ELSE Logging(m, q) \ {w}
BY DEF TypeOK, Logging

LEMMA QuietHistory ==
  ASSUME TypeOK, HistoryInv, NEW w \in Workers, NEW me \in Local,
         worker' = [worker EXCEPT ![w] = me], worker[w].step # "log", me.step # "log",
         crashes' = 0 => crashes = 0, UNCHANGED <<queue, executions>>
  PROVE  HistoryInv'
<1> SUFFICES ASSUME NEW q \in QueueIds PROVE HistoryOf(q)'
  BY DEF HistoryInv
<1>1. \A m : Logging(m, q)' = Logging(m, q)
  BY LoggingSet DEF Logging
<1> QED
  BY <1>1, SameHistory DEF HistoryInv

LEMMA EnqueueHistory ==
  ASSUME IInv, HistoryInv, NEW q \in QueueIds, NEW j \in Jobs, Enqueue(q, j)
  PROVE  HistoryInv'
<1> SUFFICES ASSUME NEW p \in QueueIds PROVE HistoryOf(p)'
  BY DEF HistoryInv
<1>1. /\ \A m : Logging(m, p)' = Logging(m, p)
      /\ UNCHANGED <<executions, crashes>>
      /\ queue' = [queue EXCEPT ![q] = Dispatched(j)]
      /\ queue \in [QueueIds -> Row] /\ executions \in [QueueIds -> [Records -> Nat]]
  BY DEF Enqueue, Logging, IInv, TypeOK
<1>2. CASE p # q
  BY <1>1, <1>2, SameHistory DEF HistoryInv
<1>3. CASE p = q
  <2>1. queue[q].status = "absent" /\ queue[q].attempts = 0 /\ HistoryOf(q)
    BY DEF Enqueue, HistoryInv, HistoryOf, BlankBefore
  <2>2. queue'[q].status = "pending" /\ queue'[q].attempts = 0
    BY <1>1 DEF Dispatched
  <2>3. Recording(q)' = Recording(q) /\ FailuresRecorded(q)' = FailuresRecorded(q)
    BY <1>1 DEF Enqueue, Recording, FailuresRecorded
  <2>4. ClaimsPaid(q)'
    BY <1>1, <2>1, <2>2 DEF HistoryOf, ClaimsPaid
  <2>5. FailuresCounted(q)'
    BY <1>1, <2>1, <2>2, <2>3 DEF HistoryOf, FailuresCounted
  <2>6. executions[q]["succeeded"] = 0 /\ Logging("succeeded", q) = {}
    BY <1>1, <2>1 DEF HistoryOf, SuccessIsOne, Records
  <2>7. SuccessIsOne(q)' /\ BlankBefore(q)'
    <3>1. Logging("succeeded", q)' = {} /\ executions'[q]["succeeded"] = 0
      BY <1>1, <1>3, <2>6
    <3> QED
      BY <2>2, <3>1 DEF SuccessIsOne, BlankBefore
  <2> QED
    BY <1>3, <2>4, <2>5, <2>7 DEF HistoryOf
<1> QED
  BY <1>2, <1>3

LEMMA ClaimHistory ==
  ASSUME IInv, HistoryInv, NEW w \in Workers, ClaimCandidate(w)
  PROVE  HistoryInv'
<1> DEFINE me == [step |-> "log", mark |-> "claimed", item |-> worker[w].item,
                  row |-> Claimed(worker[w].row, w)]
<1> PICK q \in QueueIds : q = worker[w].item
  BY DEF IInv, TypeOK, Local, StepAndMark, ClaimCandidate
<1> SUFFICES ASSUME NEW p \in QueueIds PROVE HistoryOf(p)'
  BY DEF HistoryInv
<1>1. /\ queue[q] \in Row /\ worker[w].row \in Row /\ worker[w].step = "selected"
      /\ queue[q].status = "pending"
  BY DEF IInv, TypeOK, Local, StepAndMark, ClaimCandidate, ClaimMatches
<1>2. me \in Local /\ worker' = [worker EXCEPT ![w] = me]
  BY <1>1, ClaimedType DEF ClaimCandidate, Local, Steps, Marks
<1>3. /\ UNCHANGED <<executions, crashes>>
      /\ queue'[q].status = "claimed" /\ queue'[q].attempts = queue[q].attempts
      /\ p # q => queue'[p] = queue[p]
  BY <1>1 DEF ClaimCandidate, Claimed, IInv, TypeOK, Row
<1>4. /\ \A m : m # "claimed" \/ p # q => Logging(m, p)' = Logging(m, p)
      /\ p = q => Logging("claimed", p)' = Logging("claimed", p) \cup {w}
  <2>1. /\ worker'[w].step = "log" /\ worker'[w].mark = "claimed" /\ worker'[w].item = q
        /\ \A v \in Workers : v # w => worker'[v] = worker[v]
    BY <1>2 DEF IInv, TypeOK
  <2> QED
    BY <1>1, <2>1 DEF Logging
<1>5. CASE p # q
  BY <1>3, <1>4, <1>5, SameHistory DEF HistoryInv
<1>6. CASE p = q
  <2>1. HistoryOf(q) /\ Logging("claimed", q)' # {}
    BY <1>4, <1>6 DEF HistoryInv
  <2>2. Recording(q)' = Recording(q) /\ FailuresRecorded(q)' = FailuresRecorded(q)
    <3>1. \A r \in QueueIds : Recording(r) = Logging("failed", r) /\ Recording(r)' = Logging("failed", r)'
      BY DEF Recording, Logging
    <3> QED
      BY <1>1, <1>3, <1>4, <1>6, <3>1 DEF FailuresRecorded
  <2>3. ClaimsPaid(q)'
    BY <1>1, <1>3, <2>1 DEF HistoryOf, ClaimsPaid
  <2>4. FailuresCounted(q)'
    BY <1>3, <2>1, <2>2 DEF HistoryOf, FailuresCounted
  <2>5. SuccessIsOne(q)' /\ BlankBefore(q)'
    BY <1>1, <1>3, <1>4, <1>6, <2>1 DEF HistoryOf, SuccessIsOne, BlankBefore
  <2> QED
    BY <1>6, <2>3, <2>4, <2>5 DEF HistoryOf
<1> QED
  BY <1>5, <1>6

LEMMA UpdateHistory ==
  ASSUME IInv, HistoryInv, NEW w \in Workers, UpdateItem(w)
  PROVE  HistoryInv'
<1> PICK q \in QueueIds, m \in {"running", "succeeded", "failed"} :
      q = worker[w].item /\ m = worker[w].mark
  BY UpdateEffect
<1> DEFINE me == [step |-> "log", mark |-> m, item |-> q, row |-> queue'[q]]
<1> SUFFICES ASSUME NEW p \in QueueIds PROVE HistoryOf(p)'
  BY DEF HistoryInv
<1>1. /\ Holds(w)
      /\ queue[q].status \in {"claimed", "running"}
      /\ queue'[q] = Marked(m, queue[q]) /\ queue'[q] \in Row
      /\ p # q => queue'[p] = queue[p]
      /\ worker' = [worker EXCEPT ![w] = me]
  BY UpdateEffect
<1>2. queue[q] \in Row /\ now \in Nat /\ executions[q] \in [Records -> Nat]
  BY <1>1 DEF IInv, TypeOK
<1>3. UNCHANGED <<executions, crashes>> /\ worker[w].step = "update"
  BY DEF UpdateItem
<1>4. me \in Local
  BY <1>1 DEF Local, Steps, Marks
<1>5. /\ \A n : n # m \/ p # q => Logging(n, p)' = Logging(n, p)
      /\ p = q => Logging(m, p)' = Logging(m, p) \cup {w}
      /\ \A n : w \notin Logging(n, p)
  <2>1. /\ worker'[w].step = "log" /\ worker'[w].mark = m /\ worker'[w].item = q
        /\ \A v \in Workers : v # w => worker'[v] = worker[v]
    BY <1>1 DEF IInv, TypeOK
  <2> QED
    BY <1>3, <2>1 DEF Logging
<1>6. CASE p # q
  BY <1>1, <1>3, <1>5, <1>6, SameHistory DEF HistoryInv
<1>7. CASE p = q
  <2>1. HistoryOf(q)
    BY <1>1 DEF HistoryInv
  <2>2. \A r \in QueueIds : Recording(r) = Logging("failed", r) /\ Recording(r)' = Logging("failed", r)'
    BY DEF Recording, Logging
  <2>3. FailuresRecorded(q)' = FailuresRecorded(q) /\ FailuresRecorded(q) \in Nat
    BY <1>2, <1>3 DEF FailuresRecorded, Records
  <2>4. CASE m = "failed"
    <3>1. queue'[q].attempts = queue[q].attempts + 1 /\ queue'[q].status \in {"failed", "pending"}
      BY <1>1, <1>2, <2>4, MarkedFields
    <3>2. ClaimsPaid(q)'
      BY <1>2, <1>3, <2>1, <3>1 DEF HistoryOf, ClaimsPaid, Row, Records
    <3>3. /\ IsFiniteSet(Recording(q)') /\ Cardinality(Recording(q)) \in Nat
          /\ Cardinality(Recording(q)') = Cardinality(Recording(q)) + 1
      BY <1>1, <1>5, <1>7, <2>1, <2>2, <2>4, FS_AddElement, FS_CardinalityType DEF HistoryOf, FailuresCounted
    <3>4. FailuresCounted(q)'
      BY <1>2, <1>3, <2>1, <2>3, <3>1, <3>3 DEF HistoryOf, FailuresCounted, Row
    <3>5. SuccessIsOne(q)' /\ BlankBefore(q)'
      BY <1>1, <1>2, <1>3, <1>5, <1>7, <2>1, <2>4, <3>1 DEF HistoryOf, SuccessIsOne, BlankBefore
    <3> QED
      BY <1>7, <3>2, <3>4, <3>5 DEF HistoryOf
  <2>5. CASE m \in {"running", "succeeded"}
    <3>1. queue'[q].attempts = queue[q].attempts /\ queue'[q].status = m
      BY <1>1, <1>2, <2>5, MarkedFields
    <3>2. ClaimsPaid(q)'
      BY <1>1, <1>2, <1>3, <1>5, <1>7, <2>1, <2>5, <3>1 DEF HistoryOf, ClaimsPaid
    <3>3. FailuresCounted(q)'
      BY <1>1, <1>3, <1>5, <1>7, <2>1, <2>2, <2>3, <2>5, <3>1 DEF HistoryOf, FailuresCounted
    <3>4. executions[q]["succeeded"] = 0 /\ Logging("succeeded", q) = {}
      BY <1>1, <1>2, <2>1 DEF HistoryOf, SuccessIsOne, Records
    <3>5. SuccessIsOne(q)'
      BY <1>1, <1>3, <1>5, <1>7, <2>5, <3>1, <3>4 DEF SuccessIsOne
    <3>6. BlankBefore(q)'
      BY <2>5, <3>1 DEF BlankBefore
    <3> QED
      BY <1>7, <3>2, <3>3, <3>5, <3>6 DEF HistoryOf
  <2> QED
    BY <1>1, <2>4, <2>5
<1> QED
  BY <1>6, <1>7

LEMMA AppendHistory ==
  ASSUME IInv, HistoryInv, NEW w \in Workers, AppendExecution(w)
  PROVE  HistoryInv'
<1> PICK q \in QueueIds, m \in {"claimed", "running", "succeeded", "failed"} :
      q = worker[w].item /\ m = worker[w].mark
  BY DEF IInv, TypeOK, Local, StepAndMark, Marks, AppendExecution
<1> DEFINE r == RecordOf(worker[w])
<1> SUFFICES ASSUME NEW p \in QueueIds PROVE HistoryOf(p)'
  BY DEF HistoryInv
<1>1. /\ worker[w].step = "log" /\ queue[q] \in Row /\ executions[q] \in [Records -> Nat]
  BY DEF IInv, TypeOK, Local, StepAndMark, Marks, AppendExecution
<1>2. /\ r \in Records /\ (m = "failed" => r \in {"retried", "failed"}) /\ (m # "failed" => r = m)
  BY <1>1 DEF RecordOf, Records
<1>3. /\ UNCHANGED <<queue, crashes>>
      /\ p # q => executions'[p] = executions[p]
      /\ executions'[q][r] = executions[q][r] + 1
      /\ \A x \in Records : x # r => executions'[q][x] = executions[q][x]
  BY <1>1, <1>2 DEF AppendExecution, IInv, TypeOK
<1>4. AfterLog(worker[w]) \in Local /\ AfterLog(worker[w]).step # "log"
  <2>1. worker[w] \in Local /\ IdleWorker \in Local
    BY QueueAssumption DEF IInv, TypeOK, IdleWorker, AbsentRow, Local, Steps, Marks, Row, Status
  <2> QED
    BY <2>1 DEF AfterLog, IdleWorker, Local, Steps, Marks
<1>5. \A n : Logging(n, p)' = Logging(n, p) \ {w}
  <2>1. /\ worker'[w].step # "log"
        /\ \A v \in Workers : v # w => worker'[v] = worker[v]
    BY <1>4 DEF AppendExecution, IInv, TypeOK
  <2> QED
    BY <2>1 DEF Logging
<1>6. \A n : (w \in Logging(n, p)) <=> (n = m /\ p = q)
  BY <1>1 DEF Logging
<1>7. CASE p # q
  <2>1. \A n : Logging(n, p)' = Logging(n, p)
    BY <1>5, <1>6, <1>7
  <2> QED
    BY <1>3, <1>7, <2>1, SameHistory DEF HistoryInv
<1>8. CASE p = q
  <2>1. HistoryOf(q) /\ \A n : n # m => Logging(n, q)' = Logging(n, q)
    BY <1>1, <1>5, <1>6, <1>8 DEF HistoryInv
  <2>2. \A x \in QueueIds : Recording(x) = Logging("failed", x) /\ Recording(x)' = Logging("failed", x)'
    BY DEF Recording, Logging
  <2>3. CASE m = "failed"
    <3>1. /\ IsFiniteSet(Recording(q)') /\ Cardinality(Recording(q)) \in Nat
          /\ Cardinality(Recording(q)') = Cardinality(Recording(q)) - 1
      <4>1. Recording(q)' = Recording(q) \ {w} /\ w \in Recording(q)
        BY <1>5, <1>6, <1>8, <2>2, <2>3
      <4>2. IsFiniteSet(Recording(q))
        BY <2>1 DEF HistoryOf, FailuresCounted
      <4> QED
        BY <4>1, <4>2, FS_RemoveElement, FS_CardinalityType
    <3>2. FailuresRecorded(q)' = FailuresRecorded(q) + 1 /\ FailuresRecorded(q) \in Nat
      BY <1>1, <1>2, <1>3, <2>3 DEF FailuresRecorded, Records
    <3>3. FailuresCounted(q)'
      BY <1>1, <1>3, <2>1, <3>1, <3>2 DEF HistoryOf, FailuresCounted, Row
    <3>4. ClaimsPaid(q)'
      BY <1>1, <1>2, <1>3, <2>1, <2>3 DEF HistoryOf, ClaimsPaid, Records
    <3>5. SuccessIsOne(q)' /\ BlankBefore(q)'
      BY <1>1, <1>2, <1>3, <2>1, <2>3 DEF HistoryOf, SuccessIsOne, BlankBefore, Records
    <3> QED
      BY <1>8, <3>3, <3>4, <3>5 DEF HistoryOf
  <2>4. CASE m # "failed"
    <3>1. FailuresCounted(q)'
      <4>1. FailuresRecorded(q)' = FailuresRecorded(q)
        BY <1>2, <1>3, <2>4, <1>1 DEF FailuresRecorded, Records
      <4> QED
        BY <1>1, <1>3, <2>1, <2>2, <2>4, <4>1 DEF HistoryOf, FailuresCounted
    <3>2. ClaimsPaid(q)'
      <4>1. CASE m = "claimed"
        <5>1. Holds(w) /\ queue[q].status = "claimed"
          BY <1>1, <4>1 DEF Holds, IInv, HeldRowIsMine, BeforeRunning
        <5>2. \A v \in Logging("claimed", q) : v = w
          BY <1>1, <5>1 DEF Logging, Holds, IInv, HeldRowIsMine
        <5>3. Logging("claimed", q) # {} /\ Logging("claimed", q)' = {}
          BY <1>5, <1>6, <1>8, <4>1, <5>2
        <5>4. executions[q]["claimed"] <= queue[q].attempts
          BY <1>1, <2>1, <5>3 DEF HistoryOf, ClaimsPaid, Row
        <5> QED
          BY <1>1, <1>2, <1>3, <4>1, <5>1, <5>3, <5>4 DEF ClaimsPaid, Row, Records
      <4>2. CASE m # "claimed"
        BY <1>1, <1>2, <1>3, <2>1, <2>4, <4>2 DEF HistoryOf, ClaimsPaid, Records
      <4> QED
        BY <4>1, <4>2
    <3>3. SuccessIsOne(q)'
      <4>1. CASE m = "succeeded"
        <5>1. /\ Logging("succeeded", q) = {w} /\ executions[q]["succeeded"] = 0
              /\ queue[q].status = "succeeded"
          BY <1>6, <1>8, <2>1, <4>1 DEF HistoryOf, SuccessIsOne
        <5>2. Logging("succeeded", q)' = {}
          BY <1>5, <1>8, <5>1
        <5> QED
          BY <1>1, <1>2, <1>3, <4>1, <5>1, <5>2 DEF SuccessIsOne
      <4>2. CASE m # "succeeded"
        BY <1>1, <1>2, <1>3, <2>1, <2>4, <4>2 DEF HistoryOf, SuccessIsOne, Records
      <4> QED
        BY <4>1, <4>2
    <3>4. BlankBefore(q)'
      BY <1>3, <2>1 DEF HistoryOf, BlankBefore
    <3> QED
      BY <1>8, <3>1, <3>2, <3>3, <3>4 DEF HistoryOf
  <2> QED
    BY <2>3, <2>4
<1> QED
  BY <1>7, <1>8

(* A death may lose a record, never add one.                               *)
LEMMA CrashHistory ==
  ASSUME IInv, HistoryInv, NEW w \in Workers, WorkerCrash(w)
  PROVE  HistoryInv'
<1> SUFFICES ASSUME NEW q \in QueueIds PROVE HistoryOf(q)'
  BY DEF HistoryInv
<1>1. IdleWorker \in Local /\ IdleWorker.step # "log"
  BY QueueAssumption DEF IdleWorker, AbsentRow, Local, Steps, Marks, Row, Status
<1>2. UNCHANGED <<queue, executions>> /\ crashes' # 0
  BY QueueAssumption DEF WorkerCrash, IInv, TypeOK
<1>3. \A m : Logging(m, q)' = Logging(m, q) \ {w}
  <2>1. /\ worker'[w].step # "log"
        /\ \A v \in Workers : v # w => worker'[v] = worker[v]
    BY <1>1 DEF WorkerCrash, IInv, TypeOK
  <2> QED
    BY <2>1 DEF Logging
<1>4. HistoryOf(q) /\ queue[q] \in Row /\ executions[q] \in [Records -> Nat]
  BY DEF HistoryInv, IInv, TypeOK
<1>5. ClaimsPaid(q)'
  BY <1>2, <1>3, <1>4 DEF HistoryOf, ClaimsPaid, Row, Records
<1>6. Recording(q) = Logging("failed", q) /\ Recording(q)' = Logging("failed", q)'
  BY DEF Recording, Logging
<1>7. IsFiniteSet(Recording(q)') /\ Cardinality(Recording(q)') <= Cardinality(Recording(q))
      /\ Cardinality(Recording(q)') \in Nat /\ Cardinality(Recording(q)) \in Nat
  <2>1. IsFiniteSet(Recording(q)) /\ Recording(q)' = Recording(q) \ {w}
    BY <1>3, <1>4, <1>6 DEF HistoryOf, FailuresCounted
  <2>2. /\ IsFiniteSet(Recording(q) \ {w})
        /\ Cardinality(Recording(q) \ {w}) =
             IF w \in Recording(q) THEN Cardinality(Recording(q)) - 1 ELSE Cardinality(Recording(q))
    BY <2>1, FS_RemoveElement
  <2>3. Cardinality(Recording(q) \ {w}) \in Nat /\ Cardinality(Recording(q)) \in Nat
    BY <2>1, <2>2, FS_CardinalityType
  <2>4. /\ Recording(q)' = Recording(q) \ {w}
        /\ Cardinality(Recording(q)') = Cardinality(Recording(q) \ {w})
    BY <2>1
  <2> QED
    BY <2>2, <2>3, <2>4
<1>8. FailuresRecorded(q)' = FailuresRecorded(q) /\ FailuresRecorded(q) \in Nat
  BY <1>2, <1>4 DEF FailuresRecorded, Records
<1>9. FailuresCounted(q)'
  BY <1>2, <1>4, <1>7, <1>8 DEF HistoryOf, FailuresCounted, Row
<1>10. SuccessIsOne(q)' /\ BlankBefore(q)'
  BY <1>2, <1>3, <1>4 DEF HistoryOf, SuccessIsOne, BlankBefore
<1> QED
  BY <1>5, <1>9, <1>10 DEF HistoryOf

(* Steps that leave the workers alone, and all records but the first.      *)
LEMMA AsideHistory ==
  ASSUME HistoryInv, UNCHANGED <<queue, worker>>, crashes' = 0 => crashes = 0,
         \A q \in QueueIds, r \in Records \ {"enqueued"} : executions'[q][r] = executions[q][r]
  PROVE  HistoryInv'
<1> SUFFICES ASSUME NEW q \in QueueIds PROVE HistoryOf(q)'
  BY DEF HistoryInv
<1>1. \A m : Logging(m, q)' = Logging(m, q)
  BY DEF Logging
<1> QED
  BY <1>1, SameHistory DEF HistoryInv, Records

LEMMA StepHistoryInv == IInv /\ HistoryInv /\ [QueueNext]_queueVars => HistoryInv'
<1> SUFFICES ASSUME IInv, HistoryInv, [QueueNext]_queueVars PROVE HistoryInv'
  OBVIOUS
<1>0. TypeOK /\ \A w \in Workers : worker[w] \in Local
  BY DEF IInv, TypeOK
<1>1. ASSUME NEW q \in QueueIds, NEW j \in Jobs, Enqueue(q, j) PROVE HistoryInv'
  BY <1>1, EnqueueHistory
<1>2. ASSUME NEW q \in QueueIds, LogEnqueue(q) PROVE HistoryInv'
  BY <1>0, <1>2, AsideHistory DEF LogEnqueue, TypeOK
<1>3. ASSUME NEW q \in QueueIds, ProducerCrash(q) PROVE HistoryInv'
  BY <1>0, <1>3, AsideHistory DEF ProducerCrash, TypeOK
<1>4. ASSUME NEW w \in Workers, WorkerStep(w) PROVE HistoryInv'
  <2>1. ASSUME NEW q \in QueueIds, SelectCandidate(w, q) PROVE HistoryInv'
    <3> DEFINE me == [step |-> "selected", mark |-> "none", item |-> q, row |-> queue[q]]
    <3>1. me \in Local /\ worker[w].step = "idle" /\ worker' = [worker EXCEPT ![w] = me]
      BY <2>1, <1>0 DEF SelectCandidate, TypeOK, Local, Steps, Marks
    <3> QED
      BY <1>0, <2>1, <3>1, QuietHistory DEF SelectCandidate
  <2>2. CASE ClaimCandidate(w)
    BY <2>2, ClaimHistory
  <2>3. CASE LoseCandidate(w)
    <3>1. IdleWorker \in Local /\ IdleWorker.step # "log"
      BY QueueAssumption DEF IdleWorker, AbsentRow, Local, Steps, Marks, Row, Status
    <3> QED
      BY <1>0, <2>3, <3>1, QuietHistory DEF LoseCandidate
  <2>4. CASE GetItem(w)
    <3> DEFINE me == [worker[w] EXCEPT !.step = "update", !.row = queue[worker[w].item]]
    <3>1. me \in Local /\ me.step # "log" /\ worker' = [worker EXCEPT ![w] = me]
      BY <1>0, <2>4 DEF GetItem, IInv, StepAndMark, TypeOK, Local, Steps
    <3> QED
      BY <1>0, <2>4, <3>1, QuietHistory DEF GetItem
  <2>5. CASE UpdateItem(w)
    BY <2>5, UpdateHistory
  <2>6. CASE AppendExecution(w)
    BY <2>6, AppendHistory
  <2>7. CASE ExecutionSucceeds(w) \/ ExecutionFails(w) \/ TouchJob(w)
    <3>1. \E me \in Local : me.step # "log" /\ worker' = [worker EXCEPT ![w] = me]
      <4>1. /\ [worker[w] EXCEPT !.step = "touch"] \in Local
            /\ [worker[w] EXCEPT !.step = "get", !.mark = "failed"] \in Local
            /\ [worker[w] EXCEPT !.step = "get", !.mark = "succeeded"] \in Local
        BY <1>0 DEF Local, Steps, Marks
      <4>2. worker' \in {[worker EXCEPT ![w] = [worker[w] EXCEPT !.step = "touch"]],
                         [worker EXCEPT ![w] = [worker[w] EXCEPT !.step = "get", !.mark = "failed"]],
                         [worker EXCEPT ![w] = [worker[w] EXCEPT !.step = "get", !.mark = "succeeded"]]}
        BY <1>0, <2>7 DEF ExecutionSucceeds, ExecutionFails, TouchJob, TypeOK, Local
      <4> QED
        BY <1>0, <4>1, <4>2 DEF Local
    <3>2. worker[w].step # "log" /\ UNCHANGED <<queue, executions, crashes>>
      BY <2>7 DEF ExecutionSucceeds, ExecutionFails, TouchJob
    <3> QED
      BY <1>0, <3>1, <3>2, QuietHistory
  <2> QED
    BY <1>4, <2>1, <2>2, <2>3, <2>4, <2>5, <2>6, <2>7 DEF WorkerStep
<1>5. ASSUME NEW w \in Workers, WorkerCrash(w) PROVE HistoryInv'
  BY <1>5, CrashHistory
<1>6. CASE Tick \/ UNCHANGED queueVars
  BY <1>6, AsideHistory DEF Tick, queueVars
<1> QED
  BY <1>1, <1>2, <1>3, <1>4, <1>5, <1>6 DEF QueueNext

LEMMA HistoryInvariance == QueueSpec => []HistoryInv
BY InitHistoryInv, StepHistoryInv, Invariance, PTL DEF QueueSpec

(***************************************************************************)
(* Theorems                                                                *)
(***************************************************************************)
(* Every column, record count and piece of worker state keeps its type.    *)
THEOREM TypeCorrect == QueueSpec => []TypeOK
<1>1. IInv => TypeOK
  BY DEF IInv
<1> QED
  BY <1>1, Invariance, PTL

(* However many workers race through claim_next_job_queue_item, and        *)
(* however many die, an item is run by one worker, whose row it is.        *)
THEOREM OwnershipIsExclusive == QueueSpec => [](SingleOwner /\ HeldRowIsMine)
<1>1. IInv => SingleOwner /\ HeldRowIsMine
  BY DEF IInv, SingleOwner, HeldRowIsMine
<1> QED
  BY <1>1, Invariance, PTL

(* The retry accounting of mark_job_queue_failed is exact on every row.    *)
THEOREM BudgetIsRespected == QueueSpec => []AttemptsWithinBudget
<1>1. IInv => AttemptsWithinBudget
  BY DEF IInv
<1> QED
  BY <1>1, Invariance, PTL

(* No item is started more often than max_attempts allows, whichever       *)
(* workers race for it and die with it.                                    *)
THEOREM ClaimsArePaid == QueueSpec => []ClaimsWithinBudget
<1>1. IInv /\ HistoryInv => ClaimsWithinBudget
  <2> SUFFICES ASSUME IInv, HistoryInv, NEW q \in QueueIds
               PROVE  executions[q]["claimed"] <= queue[q].attempts
                        + IF queue[q].status \in {"claimed", "running", "succeeded"} THEN 1 ELSE 0
    BY DEF ClaimsWithinBudget
  <2> QED
    BY DEF IInv, TypeOK, Row, Records, HistoryInv, HistoryOf, ClaimsPaid
<1> QED
  BY <1>1, Invariance, HistoryInvariance, PTL

(* What job_executions tells of an item is what the row has been through.  *)
THEOREM HistoryIsTrue == QueueSpec => []HistoryMatchesQueue
<1>1. HistoryInv => HistoryMatchesQueue
  BY DEF HistoryInv, HistoryOf, FailuresCounted, SuccessIsOne, HistoryMatchesQueue
<1> QED
  BY <1>1, HistoryInvariance, PTL

(* A step changes a row by inserting it, by claiming it while pending, or  *)
(* by closing or starting it in the hands of the worker that holds it.     *)
LEMMA RowStep ==
  ASSUME IInv, [QueueNext]_queueVars, NEW q \in QueueIds
  PROVE  \/ queue'[q] = queue[q]
         \/ queue[q].status = "absent"
         \/ \E w \in Workers : /\ ClaimCandidate(w) /\ worker[w].item = q
                               /\ queue[q].status = "pending"
         \/ \E w \in Workers : UpdateItem(w) /\ worker[w].item = q
<1> USE DEF IInv
<1>1. ASSUME NEW p \in QueueIds, NEW j \in Jobs, Enqueue(p, j)
      PROVE  queue'[q] = queue[q] \/ queue[q].status = "absent"
  BY <1>1 DEF Enqueue, TypeOK
<1>2. ASSUME NEW w \in Workers, ClaimCandidate(w)
      PROVE  \/ queue'[q] = queue[q]
             \/ worker[w].item = q /\ queue[q].status = "pending"
  BY <1>2 DEF ClaimCandidate, ClaimMatches, TypeOK
<1>3. ASSUME NEW w \in Workers, UpdateItem(w)
      PROVE  queue'[q] = queue[q] \/ worker[w].item = q
  BY <1>3, UpdateEffect
<1>4. ASSUME NEW w \in Workers, WorkerStep(w), ~ClaimCandidate(w), ~UpdateItem(w)
      PROVE  UNCHANGED queue
  BY <1>4 DEF WorkerStep, SelectCandidate, LoseCandidate, GetItem, AppendExecution,
              ExecutionSucceeds, ExecutionFails, TouchJob
<1>5. ASSUME \/ \E p \in QueueIds : LogEnqueue(p) \/ ProducerCrash(p)
             \/ \E w \in Workers : WorkerCrash(w)
             \/ Tick
             \/ UNCHANGED queueVars
      PROVE  UNCHANGED queue
  BY <1>5 DEF LogEnqueue, ProducerCrash, WorkerCrash, Tick, queueVars
<1> QED
  BY <1>1, <1>2, <1>3, <1>4, <1>5 DEF QueueNext

(* Neither a late mark_* call nor a late claim reopens a closed item.      *)
THEOREM ClosedItemsStayClosed == QueueSpec => TerminalIsFinal
<1>1. IInv /\ [QueueNext]_queueVars =>
        [\A q \in QueueIds :
           queue[q].status \in Terminal => queue'[q] = queue[q]]_queueVars
  <2> SUFFICES ASSUME IInv, [QueueNext]_queueVars, NEW q \in QueueIds,
                      queue[q].status \in Terminal
               PROVE  queue'[q] = queue[q]
    OBVIOUS
  <2>1. \A w \in Workers : UpdateItem(w) /\ worker[w].item = q
                             => queue[q].status \in {"claimed", "running"}
    BY UpdateEffect
  <2> QED
    BY <2>1, RowStep DEF Terminal
<1> QED
  BY <1>1, Invariance, PTL DEF QueueSpec, TerminalIsFinal

(* The only claim that beats the retry delay is one whose SELECT predates  *)
(* the failure.                                                            *)
THEOREM EarlyClaimsAreStale == QueueSpec => EarlyClaimIsStale
<1>1. IInv /\ [QueueNext]_queueVars =>
        [\A w \in Workers :
           ClaimCandidate(w) =>
             \/ queue[worker[w].item].available_at <= now
             \/ worker[w].row.attempts < queue[worker[w].item].attempts]_queueVars
  <2> SUFFICES ASSUME IInv, NEW w \in Workers, ClaimCandidate(w)
               PROVE  \/ queue[worker[w].item].available_at <= now
                      \/ worker[w].row.attempts < queue[worker[w].item].attempts
    OBVIOUS
  <2>1. worker[w].step = "selected" /\ worker[w].item \in QueueIds
    BY DEF ClaimCandidate, IInv, TypeOK, Local, StepAndMark
  <2>2. worker[w].row.attempts \in Nat /\ queue[worker[w].item].attempts \in Nat
    BY <2>1 DEF IInv, TypeOK, Local, Row
  <2> QED
    BY <2>1, <2>2 DEF IInv, CopyIsSound
<1> QED
  BY <1>1, Invariance, PTL DEF QueueSpec, EarlyClaimIsStale

(* A worker comes to hold an item only by claiming it.                     *)
LEMMA HoldStep ==
  ASSUME IInv, [QueueNext]_queueVars, NEW w \in Workers, Holds(w)'
  PROVE  ClaimCandidate(w) \/ (Holds(w) /\ worker'[w].item = worker[w].item)
<1> USE QueueAssumption DEF IInv, Holds
<1>1. CASE worker'[w] = worker[w]
  BY <1>1
<1>2. CASE WorkerStep(w)
  <2>1. ASSUME NEW q \in QueueIds, SelectCandidate(w, q) PROVE FALSE
    BY <2>1 DEF SelectCandidate, TypeOK
  <2>2. CASE LoseCandidate(w)
    BY <2>2 DEF LoseCandidate, IdleWorker, TypeOK
  <2>3. CASE GetItem(w)
    BY <2>3 DEF GetItem, TypeOK, Local
  <2>4. CASE UpdateItem(w)
    BY <2>4 DEF UpdateItem, TypeOK, Local
  <2>5. CASE AppendExecution(w)
    <3>1. worker'[w] = AfterLog(worker[w])
      BY <2>5 DEF AppendExecution, TypeOK
    <3>2. /\ worker[w].step = "log" /\ worker[w].mark \in {"claimed", "running"}
          /\ worker'[w].item = worker[w].item
      BY <2>5, <3>1 DEF AppendExecution, AfterLog, IdleWorker, TypeOK, Local
    <3> QED
      BY <3>2
  <2>6. CASE ExecutionSucceeds(w) \/ ExecutionFails(w) \/ TouchJob(w)
    BY <2>6 DEF ExecutionSucceeds, ExecutionFails, TouchJob, TypeOK, Local
  <2> QED
    BY <1>2, <2>1, <2>2, <2>3, <2>4, <2>5, <2>6 DEF WorkerStep
<1>3. CASE WorkerCrash(w)
  BY <1>3 DEF WorkerCrash, IdleWorker, TypeOK
<1>4. ASSUME NEW v \in Workers, v # w, WorkerStep(v) \/ WorkerCrash(v)
      PROVE  worker'[w] = worker[w]
  <2>1. \E x : worker' = [worker EXCEPT ![v] = x]
    BY <1>4 DEF WorkerStep, WorkerCrash, SelectCandidate, ClaimCandidate, LoseCandidate,
                GetItem, UpdateItem, AppendExecution, ExecutionSucceeds, ExecutionFails,
                TouchJob
  <2> QED
    BY <1>4, <2>1 DEF TypeOK
<1>5. ASSUME \/ \E q \in QueueIds : \/ \E j \in Jobs : Enqueue(q, j)
                                    \/ LogEnqueue(q)
                                    \/ ProducerCrash(q)
             \/ Tick
             \/ UNCHANGED queueVars
      PROVE  worker' = worker
  BY <1>5 DEF Enqueue, LogEnqueue, ProducerCrash, Tick, queueVars
<1> QED
  BY <1>1, <1>2, <1>3, <1>4, <1>5 DEF QueueNext

(* A death between the claim and the closing UPDATE loses the item for     *)
(* good: the lease it was claimed under is read by no step.                *)
THEOREM StrandedItemsStayStranded == QueueSpec => StrandedIsForever
<1>1. IInv /\ [QueueNext]_queueVars =>
        [\A q \in QueueIds :
           Stranded(q) => Stranded(q)' /\ queue'[q] = queue[q]]_queueVars
  <2> SUFFICES ASSUME IInv, [QueueNext]_queueVars, NEW q \in QueueIds, Stranded(q)
               PROVE  Stranded(q)' /\ queue'[q] = queue[q]
    OBVIOUS
  <2>1. \A w \in Workers : UpdateItem(w) => worker[w].item # q
    BY UpdateEffect DEF Stranded
  <2>2. queue'[q] = queue[q]
    BY <2>1, RowStep DEF Stranded
  <2>3. ASSUME NEW w \in Workers, Holds(w)', worker'[w].item = q
        PROVE  FALSE
    <3>1. ClaimCandidate(w)
      BY <2>3, HoldStep DEF Stranded
    <3>2. worker'[w].item = worker[w].item /\ queue[worker[w].item].status = "pending"
      BY <3>1 DEF ClaimCandidate, ClaimMatches, IInv, TypeOK
    <3> QED
      BY <2>3, <3>2 DEF Stranded
  <2> QED
    BY <2>2, <2>3 DEF Stranded
<1> QED
  BY <1>1, Invariance, PTL DEF QueueSpec, StrandedIsForever

(***************************************************************************)
(* The queue implements DispatchLifecycle                                  *)
(***************************************************************************)
HolderOf(row) == IF PhaseOf(row) = "held" THEN row.claimed_by ELSE NoWorker

PhaseBar == [q \in QueueIds |-> PhaseOf(queue[q])]
HolderBar == [q \in QueueIds |-> HolderOf(queue[q])]
FailuresBar == [q \in QueueIds |-> queue[q].attempts]

(* Rows that keep phase, holder and failures are a stutter.                *)
LEMMA StutterBar ==
  ASSUME \A q \in QueueIds : /\ PhaseOf(queue'[q]) = PhaseOf(queue[q])
                             /\ HolderOf(queue'[q]) = HolderOf(queue[q])
                             /\ queue'[q].attempts = queue[q].attempts
  PROVE  UNCHANGED Lifecycle!lifecycleVars
<1>1. PhaseBar' = PhaseBar /\ HolderBar' = HolderBar /\ FailuresBar' = FailuresBar
  BY DEF PhaseBar, HolderBar, FailuresBar
<1> QED
  BY <1>1 DEF Lifecycle!lifecycleVars, PhaseBar, HolderBar, FailuresBar, HolderOf

(* A step that changes one row is a step of that row's three components.   *)
LEMMA ChangeBar ==
  ASSUME NEW q \in QueueIds, \A p \in QueueIds : p # q => queue'[p] = queue[p]
  PROVE  /\ PhaseBar' = [PhaseBar EXCEPT ![q] = PhaseOf(queue'[q])]
         /\ HolderBar' = [HolderBar EXCEPT ![q] = HolderOf(queue'[q])]
         /\ FailuresBar' = [FailuresBar EXCEPT ![q] = queue'[q].attempts]
<1>1. PhaseBar' = [PhaseBar EXCEPT ![q] = PhaseOf(queue'[q])]
  BY DEF PhaseBar
<1>2. HolderBar' = [HolderBar EXCEPT ![q] = HolderOf(queue'[q])]
  BY DEF HolderBar
<1>3. FailuresBar' = [FailuresBar EXCEPT ![q] = queue'[q].attempts]
  BY DEF FailuresBar
<1> QED
  BY <1>1, <1>2, <1>3

LEMMA EnqueueBar ==
  ASSUME IInv, NEW q \in QueueIds, NEW j \in Jobs, Enqueue(q, j)
  PROVE  Lifecycle!Submit(q)
<1>1. queue'[q] = Dispatched(j) /\ \A p \in QueueIds : p # q => queue'[p] = queue[p]
  BY DEF Enqueue, IInv, TypeOK
<1>2. /\ PhaseOf(queue[q]) = "unknown" /\ HolderOf(queue[q]) = NoWorker
      /\ PhaseOf(queue'[q]) = "ready" /\ HolderOf(queue'[q]) = NoWorker
      /\ queue'[q].attempts = 0
  BY <1>1 DEF Enqueue, PhaseOf, HolderOf, Dispatched
<1>3. HolderBar' = HolderBar
  BY <1>1, <1>2 DEF HolderBar
<1>4. /\ PhaseBar[q] = "unknown" /\ PhaseBar' = [PhaseBar EXCEPT ![q] = "ready"]
      /\ FailuresBar' = [FailuresBar EXCEPT ![q] = 0]
  BY <1>1, <1>2, ChangeBar DEF PhaseBar
<1> QED
  BY <1>3, <1>4 DEF Lifecycle!Submit, PhaseBar, HolderBar, FailuresBar, HolderOf

LEMMA ClaimBar ==
  ASSUME IInv, NEW w \in Workers, ClaimCandidate(w)
  PROVE  \E q \in QueueIds : Lifecycle!HandOver(q, w)
<1> PICK q \in QueueIds : q = worker[w].item
  BY DEF ClaimCandidate, IInv, TypeOK, Local, StepAndMark
<1>1. queue[q].status = "pending" /\ queue[q] \in Row
  BY DEF ClaimCandidate, ClaimMatches, IInv, TypeOK, Local, StepAndMark
<1>2. queue'[q] = Claimed(queue[q], w) /\ \A p \in QueueIds : p # q => queue'[p] = queue[p]
  BY <1>1 DEF ClaimCandidate, IInv, TypeOK
<1>3. /\ PhaseOf(queue[q]) = "ready"
      /\ PhaseOf(queue'[q]) = "held" /\ HolderOf(queue'[q]) = w
      /\ queue'[q].attempts = queue[q].attempts
  BY <1>1, <1>2 DEF PhaseOf, HolderOf, Claimed, Row
<1>4. FailuresBar' = FailuresBar
  BY <1>2, <1>3 DEF FailuresBar
<1>5. /\ PhaseBar[q] = "ready" /\ PhaseBar' = [PhaseBar EXCEPT ![q] = "held"]
      /\ HolderBar' = [HolderBar EXCEPT ![q] = w]
  BY <1>1, <1>2, <1>3, ChangeBar DEF PhaseBar
<1>6. Lifecycle!HandOver(q, w)
  BY <1>4, <1>5 DEF Lifecycle!HandOver, PhaseBar, HolderBar, FailuresBar, HolderOf
<1> QED
  BY <1>6

LEMMA UpdateBar ==
  ASSUME IInv, NEW w \in Workers, UpdateItem(w)
  PROVE  \/ UNCHANGED Lifecycle!lifecycleVars
         \/ \E q \in QueueIds : Lifecycle!Complete(q) \/ Lifecycle!GiveBack(q)
<1> DEFINE m == worker[w].mark
<1> PICK q \in QueueIds : q = worker[w].item
  BY UpdateEffect
<1>1. /\ m \in {"running", "succeeded", "failed"}
      /\ queue[q].status \in {"claimed", "running"}
      /\ queue'[q] = Marked(m, queue[q])
      /\ \A p \in QueueIds : p # q => queue'[p] = queue[p]
      /\ queue[q] \in Row /\ now \in Nat
  BY UpdateEffect DEF IInv, TypeOK
<1>2. PhaseOf(queue[q]) = "held" /\ PhaseBar[q] = "held"
  BY <1>1 DEF PhaseOf, PhaseBar
<1>3. CASE m = "running"
  <2>1. /\ PhaseOf(queue'[q]) = "held" /\ HolderOf(queue'[q]) = HolderOf(queue[q])
        /\ queue'[q].attempts = queue[q].attempts
    BY <1>1, <1>2, <1>3, MarkedFields DEF PhaseOf, HolderOf
  <2> QED
    BY <1>1, <1>2, <2>1, StutterBar
<1>4. CASE m = "succeeded"
  <2>1. /\ PhaseOf(queue'[q]) = "done" /\ HolderOf(queue'[q]) = NoWorker
        /\ queue'[q].attempts = queue[q].attempts
    BY <1>1, <1>4, MarkedFields DEF PhaseOf, HolderOf
  <2>2. FailuresBar' = FailuresBar
    BY <1>1, <2>1 DEF FailuresBar
  <2>3. /\ PhaseBar' = [PhaseBar EXCEPT ![q] = "done"]
        /\ HolderBar' = [HolderBar EXCEPT ![q] = NoWorker]
    BY <1>1, <2>1, ChangeBar
  <2>4. Lifecycle!Complete(q)
    BY <1>2, <2>2, <2>3 DEF Lifecycle!Complete, PhaseBar, HolderBar, FailuresBar, HolderOf
  <2> QED
    BY <2>4
<1>5. CASE m = "failed"
  <2>1. /\ queue'[q].attempts = queue[q].attempts + 1
        /\ PhaseOf(queue'[q])
             = IF queue[q].attempts + 1 >= MaxAttempts THEN "buried" ELSE "ready"
        /\ HolderOf(queue'[q]) = NoWorker
    BY <1>1, <1>5, MarkedFields DEF PhaseOf, HolderOf
  <2>2. /\ FailuresBar[q] = queue[q].attempts
        /\ FailuresBar' = [FailuresBar EXCEPT ![q] = FailuresBar[q] + 1]
        /\ HolderBar' = [HolderBar EXCEPT ![q] = NoWorker]
        /\ PhaseBar' = [PhaseBar EXCEPT ![q] =
             IF FailuresBar[q] + 1 >= MaxAttempts THEN "buried" ELSE "ready"]
    BY <1>1, <2>1, ChangeBar DEF FailuresBar
  <2>3. Lifecycle!GiveBack(q)
    BY <1>2, <2>2 DEF Lifecycle!GiveBack, PhaseBar, HolderBar, FailuresBar, HolderOf
  <2> QED
    BY <2>3
<1> QED
  BY <1>1, <1>3, <1>4, <1>5

LEMMA StepBar ==
  ASSUME IInv, [QueueNext]_queueVars
  PROVE  [Lifecycle!LifecycleNext]_Lifecycle!lifecycleVars
<1>1. ASSUME NEW q \in QueueIds, NEW j \in Jobs, Enqueue(q, j)
      PROVE  Lifecycle!LifecycleNext
  BY <1>1, EnqueueBar DEF Lifecycle!LifecycleNext
<1>2. ASSUME NEW w \in Workers, ClaimCandidate(w)
      PROVE  Lifecycle!LifecycleNext
  BY <1>2, ClaimBar DEF Lifecycle!LifecycleNext
<1>3. ASSUME NEW w \in Workers, UpdateItem(w)
      PROVE  [Lifecycle!LifecycleNext]_Lifecycle!lifecycleVars
  BY <1>3, UpdateBar DEF Lifecycle!LifecycleNext
<1>4. CASE queue' = queue
  BY <1>4, StutterBar
<1>5. ASSUME NEW w \in Workers, WorkerStep(w), ~ClaimCandidate(w), ~UpdateItem(w)
      PROVE  queue' = queue
  BY <1>5 DEF WorkerStep, SelectCandidate, LoseCandidate, GetItem, AppendExecution,
              ExecutionSucceeds, ExecutionFails, TouchJob
<1>6. ASSUME \/ \E q \in QueueIds : LogEnqueue(q) \/ ProducerCrash(q)
             \/ \E w \in Workers : WorkerCrash(w)
             \/ Tick
             \/ UNCHANGED queueVars
      PROVE  queue' = queue
  BY <1>6 DEF LogEnqueue, ProducerCrash, WorkerCrash, Tick, queueVars
<1> QED
  BY <1>1, <1>2, <1>3, <1>4, <1>5, <1>6 DEF QueueNext

(* Statement by statement, with any workers and any deaths, the SQL queue  *)
(* does nothing DispatchLifecycle does not allow.                          *)
THEOREM QueueImplementsLifecycle == QueueSpec => ImplementsLifecycle
<1>1. QueueInit => Lifecycle!LifecycleInit
  BY DEF QueueInit, AbsentRow, PhaseOf, Lifecycle!LifecycleInit
<1>2. IInv /\ [QueueNext]_queueVars => [Lifecycle!LifecycleNext]_Lifecycle!lifecycleVars
  BY StepBar
<1> QED
  BY <1>1, <1>2, Invariance, PTL
     DEF QueueSpec, ImplementsLifecycle, Lifecycle!LifecycleSpec
=============================================================================
