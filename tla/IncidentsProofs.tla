--------------------------- MODULE IncidentsProofs ---------------------------
(***************************************************************************)
(* What holds of Incidents for any number of workers, findings, people's   *)
(* edits and deaths.  None of the three properties is inductive: one has   *)
(* to know what the run in hand has read, listed and sent so far.          *)
(***************************************************************************)
EXTENDS Incidents, TLAPS

-----------------------------------------------------------------------------
(* What a run has in hand.                                                 *)

IdInHand ==
  \A w \in Workers :
    worker[w].step \in {"decide", "post", "record"} => worker[w].id \in Ids

TypeInv == IncidentsTypeOK /\ IdInHand

Listed(w) == worker[w].step \in {"list", "loop", "decide", "post", "record"}

\* A candidate is a finding that is registered, and a run handles candidates only.
CandidatesAreKnown ==
  \A w \in Workers :
    /\ \A i \in Ids : worker[w].candidates[i].seen => i \in known
    /\ \A i \in worker[w].todo : worker[w].candidates[i].seen
    /\ worker[w].step = "decide" => worker[w].candidates[worker[w].id].seen

\* No incident without its finding.
IncidentsAreKnown == \A i \in Ids : incidents[i].stored => i \in known

\* What is stored and is no newcomer is a candidate of every run that has listed.
OldOnesAreSeen ==
  \A w \in Workers : \A i \in Ids \ newcomers[w] :
    Listed(w) /\ incidents[i].stored => worker[w].candidates[i].seen

\* An incident is never removed: what a run read as stored still is.
ReadIsStored ==
  \A w \in Workers :
    worker[w].step = "decide" /\ worker[w].prev.stored =>
      incidents[worker[w].id].stored

ResolveInv ==
  /\ CandidatesAreKnown /\ IncidentsAreKnown /\ OldOnesAreSeen
  /\ ReadIsStored /\ RunsResolveOnlyNewcomers

-----------------------------------------------------------------------------
(* What people asked for.                                                  *)

Tells(row, wish) ==
  /\ row.state = wish.state
  /\ row.notes = wish.notes
  /\ row.owner \in {wish.owner, "registered"}

UnstoredIsBlank ==
  /\ \A i \in Ids : ~incidents[i].stored => incidents[i] = NoIncident
  /\ \A w \in Workers : ~worker[w].prev.stored => worker[w].prev = NoIncident

\* An incident, and the copy a run has of it, tells what people asked for.
RowsTellWishes ==
  \A i \in Ids \ contested :
    /\ Tells(incidents[i], wanted[i])
    /\ \A w \in Workers :
         worker[w].step = "decide" /\ worker[w].id = i
           => Tells(worker[w].prev, wanted[i])

\* What a run is about to close is there, and counts as contested.
StaleIsContested ==
  \A w \in Workers, i \in Ids :
    i \in worker[w].stale => i \in contested /\ incidents[i].stored

WishInv == UnstoredIsBlank /\ RowsTellWishes /\ StaleIsContested

-----------------------------------------------------------------------------
(* What was sent.                                                          *)

Unsent(w, i) ==
  /\ \A d \in Webhooks : posts[w][i][d] = 0
  /\ \A d \in Destinations : deliveries[w][i][d] = 0

\* An incident that is not stored, or was not when the run in hand read it, has
\* been announced to nobody.
UnstoredIsUnsent ==
  \A w \in Workers :
    /\ \A i \in Ids : ~incidents[i].stored => Unsent(w, i)
    /\ worker[w].step = "decide" /\ ~worker[w].prev.stored => Unsent(w, worker[w].id)

\* What a run has sent so far of the incident in hand.
Told(me, sent, recorded) ==
  /\ me.step = "record" => me.dest \in me.dests \cap Webhooks
  /\ \A d \in Destinations : recorded[d] = IF d \in me.dests THEN 0 ELSE 1
  /\ \A d \in Webhooks :
       sent[d] = IF d \in me.dests /\ ~(me.step = "record" /\ me.dest = d) THEN 0 ELSE 1

SentSoFar ==
  \A w \in Workers :
    worker[w].step \in {"post", "record"} =>
      /\ incidents[worker[w].id].stored
      /\ Told(worker[w], posts[w][worker[w].id], deliveries[w][worker[w].id])

AlertInv == UnstoredIsUnsent /\ SentSoFar /\ AlertsMatchIncidents

-----------------------------------------------------------------------------
(* Types.                                                                  *)

LEMMA InitTypeInv == IncidentsInit => TypeInv
<1> SUFFICES ASSUME IncidentsInit PROVE TypeInv
  OBVIOUS
<1>1. NoIncident \in Incident /\ Unseen \in Facts
  BY DEF NoIncident, Incident, Unseen, Facts, OperationalStates, IncidentStates, IncidentOwners
<1>2. NoRun \in Run
  BY <1>1 DEF NoRun, Run, RunSteps
<1>3. QED
  BY <1>1, <1>2, IncidentAssumption
  DEF IncidentsInit, TypeInv, IncidentsTypeOK, IdInHand, NoRun, OperationalStates,
      IncidentStates, IncidentOwners

\* The runs a worker may be left with.
LEMMA BlankRuns ==
  /\ NoRun \in Run /\ NoIncident \in Incident /\ Unseen \in Facts
  /\ NoRun.step = "idle"
  /\ NoRun.stale = {} /\ NoRun.prev = NoIncident
  /\ \A me \in Run :
       /\ BackToLoop(me) \in Run /\ BackToLoop(me).step = "loop"
       /\ BackToLoop(me).stale = me.stale /\ BackToLoop(me).prev = NoIncident
<1>1. NoIncident \in Incident /\ Unseen \in Facts
  BY DEF NoIncident, Incident, Unseen, Facts, OperationalStates, IncidentStates, IncidentOwners
<1>2. NoRun \in Run
  BY <1>1 DEF NoRun, Run, RunSteps
<1>3. ASSUME NEW me \in Run
      PROVE  /\ BackToLoop(me) \in Run /\ BackToLoop(me).step = "loop"
             /\ BackToLoop(me).stale = me.stale /\ BackToLoop(me).prev = NoIncident
  <2>1. BackToLoop(me) \in Run /\ BackToLoop(me).step = "loop"
    BY <1>1 DEF BackToLoop, Run, RunSteps
  <2>2. BackToLoop(me).stale = me.stale /\ BackToLoop(me).prev = NoIncident
    BY DEF BackToLoop, Run
  <2>3. QED BY <2>1, <2>2
<1>4. NoRun.step = "idle" /\ NoRun.stale = {} /\ NoRun.prev = NoIncident
  BY DEF NoRun
<1>5. QED
  BY <1>1, <1>2, <1>3, <1>4

LEMMA CandidatesAreFacts == TypeInv => Candidates \in [Ids -> Facts]
BY BlankRuns DEF TypeInv, IncidentsTypeOK, Candidates, Facts, OperationalStates

\* What a run writes is an incident.
LEMMA WrittenIsIncident ==
  ASSUME NEW prev \in Incident, NEW facts \in Facts
  PROVE  /\ Fresh(facts) \in Incident /\ Fresh(facts).stored
         /\ Updated(prev, facts) \in Incident /\ Updated(prev, facts).stored
BY DEF Fresh, Updated, Incident, Facts, IncidentStates, IncidentOwners

LEMMA StoreTypeInv ==
  ASSUME TypeInv, NEW w \in Workers, NEW row \in Incident, NEW me \in Run,
         worker[w].step = "decide", me.step \in {"post", "loop"}, me.step = "post" => me.id \in Ids,
         incidents' = [incidents EXCEPT ![worker[w].id] = row],
         worker' = [worker EXCEPT ![w] = me],
         newcomers' \in [Workers -> SUBSET Ids],
         UNCHANGED <<known, triage, owned, alerts, edits, wanted, contested, crashes>>
  PROVE  TypeInv'
BY DEF TypeInv, IncidentsTypeOK, IdInHand, alerts

\* What people do to an incident leaves it stored.
LEMMA EditsWriteIncidents ==
  ASSUME TypeInv, NEW i \in Ids,
         SetIncidentState(i) \/ AssignIncidentOwner(i) \/ SetIncidentNote(i)
  PROVE  \E row \in Incident : row.stored /\ EditIncident(i, row)
<1> USE DEF TypeInv, IncidentsTypeOK
<1>1. ASSUME NEW row \in Incident, row.stored = incidents[i].stored, EditIncident(i, row)
      PROVE  row.stored
  BY <1>1 DEF EditIncident
<1>2. CASE SetIncidentState(i)
  <2>1. PICK s \in IncidentStates : EditIncident(i, [incidents[i] EXCEPT !.state = s])
    BY <1>2 DEF SetIncidentState
  <2> DEFINE row == [incidents[i] EXCEPT !.state = s]
  <2>2. row \in Incident /\ row.stored = incidents[i].stored
    BY DEF Incident
  <2> HIDE DEF row
  <2>3. QED BY <1>1, <2>1, <2>2 DEF row
<1>3. CASE AssignIncidentOwner(i)
  <2> DEFINE row == [incidents[i] EXCEPT !.owner = "person"]
  <2>1. row \in Incident /\ row.stored = incidents[i].stored
    <3>1. "person" \in IncidentOwners
      BY DEF IncidentOwners
    <3>2. QED BY <3>1 DEF Incident
  <2>2. EditIncident(i, row)
    BY <1>3 DEF AssignIncidentOwner
  <2> HIDE DEF row
  <2>3. QED BY <1>1, <2>1, <2>2
<1>4. CASE SetIncidentNote(i)
  <2> DEFINE row == [incidents[i] EXCEPT !.notes = TRUE]
  <2>1. row \in Incident /\ row.stored = incidents[i].stored
    BY DEF Incident
  <2>2. EditIncident(i, row)
    BY <1>4 DEF SetIncidentNote
  <2> HIDE DEF row
  <2>3. QED BY <1>1, <2>1, <2>2
<1>5. QED BY <1>2, <1>3, <1>4

\* What each step makes of the run of its worker.
LEMMA RunsStayTyped ==
  ASSUME NEW me \in Run
  PROVE  /\ \A todo, stale \in SUBSET Ids :
              [me EXCEPT !.step = "loop", !.todo = todo, !.stale = stale] \in Run
         /\ \A i \in Ids, row \in Incident :
              [me EXCEPT !.step = "decide", !.id = i, !.todo = @ \ {i}, !.prev = row] \in Run
         /\ [me EXCEPT !.step = "post", !.dests = Destinations] \in Run
         /\ \A d \in Destinations :
              /\ [me EXCEPT !.step = "record", !.dest = d] \in Run
              /\ [me EXCEPT !.step = "post", !.dest = NoId, !.dests = @ \ {d}] \in Run
         /\ \A i \in Ids : [me EXCEPT !.stale = @ \ {i}] \in Run
<1>1. ASSUME NEW todo \in SUBSET Ids, NEW stale \in SUBSET Ids
      PROVE  [me EXCEPT !.step = "loop", !.todo = todo, !.stale = stale] \in Run
  BY DEF Run, RunSteps
<1>2. ASSUME NEW i \in Ids, NEW row \in Incident
      PROVE  [me EXCEPT !.step = "decide", !.id = i, !.todo = @ \ {i}, !.prev = row] \in Run
  BY DEF Run, RunSteps
<1>3. [me EXCEPT !.step = "post", !.dests = Destinations] \in Run
  BY DEF Run, RunSteps
<1>4. ASSUME NEW d \in Destinations
      PROVE  [me EXCEPT !.step = "record", !.dest = d] \in Run
  BY DEF Run, RunSteps
<1>5. ASSUME NEW d \in Destinations
      PROVE  [me EXCEPT !.step = "post", !.dest = NoId, !.dests = @ \ {d}] \in Run
  BY DEF Run, RunSteps
<1>6. ASSUME NEW i \in Ids PROVE [me EXCEPT !.stale = @ \ {i}] \in Run
  BY DEF Run
<1>7. QED BY <1>1, <1>2, <1>3, <1>4, <1>5, <1>6

LEMMA HandTypes ==
  ASSUME TypeInv, NEW w \in Workers, NEW me \in Run, worker' = [worker EXCEPT ![w] = me],
         me.step \in {"decide", "post", "record"} => me.id \in Ids
  PROVE  worker' \in [Workers -> Run] /\ IdInHand'
BY DEF TypeInv, IncidentsTypeOK, IdInHand

LEMMA KeepTypeInv == TypeInv /\ [IncidentsNext]_incidentVars => TypeInv'
<1> SUFFICES ASSUME TypeInv, [IncidentsNext]_incidentVars PROVE TypeInv'
  OBVIOUS
<1> USE DEF TypeInv, IncidentsTypeOK, IdInHand, tables, alerts, people
<1>1. ASSUME NEW w \in Workers, StartRun(w) PROVE TypeInv'
  BY <1>1, BlankRuns DEF StartRun, NoRun, Run, RunSteps
<1>2. ASSUME NEW w \in Workers, NEW i \in Ids, RegisterFinding(w, i) PROVE TypeInv'
  BY <1>2 DEF RegisterFinding
<1>3. ASSUME NEW w \in Workers, ListFindings(w) PROVE TypeInv'
  BY <1>3, BlankRuns, CandidatesAreFacts DEF ListFindings, NoRun, Run, RunSteps
<1>4. ASSUME NEW w \in Workers, ListIncidents(w) PROVE TypeInv'
  <2>1. PICK stale \in SUBSET Ids :
          worker' = [worker EXCEPT ![w] = [worker[w] EXCEPT !.step = "loop",
                                             !.todo = Seen(worker[w]), !.stale = stale]]
    BY <1>4 DEF ListIncidents
  <2> DEFINE me == [worker[w] EXCEPT !.step = "loop", !.todo = Seen(worker[w]), !.stale = stale]
  <2>2. me \in Run
    BY RunsStayTyped DEF Seen
  <2>3. me.step = "loop"
    BY DEF Run
  <2> HIDE DEF me
  <2>4. worker' \in [Workers -> Run] /\ IdInHand'
    BY <2>1, <2>2, <2>3, HandTypes DEF me
  <2>5. QED BY <1>4, <2>4 DEF ListIncidents
<1>5. ASSUME NEW w \in Workers, NEW i \in Ids, GetIncident(w, i) PROVE TypeInv'
  <2> DEFINE me == [worker[w] EXCEPT !.step = "decide", !.id = i, !.todo = @ \ {i},
                                     !.prev = incidents[i]]
  <2>1. me \in Run
    BY RunsStayTyped
  <2>2. me.id = i
    BY DEF Run
  <2>3. worker' = [worker EXCEPT ![w] = me]
    BY <1>5 DEF GetIncident
  <2> HIDE DEF me
  <2>4. worker' \in [Workers -> Run] /\ IdInHand'
    BY <2>1, <2>2, <2>3, HandTypes
  <2>5. QED BY <1>5, <2>4 DEF GetIncident
<1>6. ASSUME NEW w \in Workers, CreateIncident(w) PROVE TypeInv'
  <2> DEFINE me == [worker[w] EXCEPT !.step = "post", !.dests = Destinations]
             row == Fresh(worker[w].candidates[worker[w].id])
  <2>1. row \in Incident
    BY <1>6, WrittenIsIncident DEF CreateIncident, Run
  <2>2. me \in Run /\ me.step = "post" /\ me.id \in Ids
    <3>1. me \in Run
      BY RunsStayTyped
    <3>2. me.step = "post" /\ me.id = worker[w].id
      BY DEF Run
    <3>3. worker[w].id \in Ids
      BY <1>6 DEF CreateIncident
    <3>4. QED BY <3>1, <3>2, <3>3
  <2>3. newcomers' \in [Workers -> SUBSET Ids]
    BY <1>6 DEF CreateIncident
  <2> HIDE DEF me, row
  <2>4. incidents' = [incidents EXCEPT ![worker[w].id] = row] /\ worker' = [worker EXCEPT ![w] = me]
    BY <1>6 DEF CreateIncident, me, row
  <2>5. QED BY <1>6, <2>1, <2>2, <2>3, <2>4, StoreTypeInv DEF CreateIncident
<1>7. ASSUME NEW w \in Workers, UpdateIncident(w) PROVE TypeInv'
  <2> DEFINE me == BackToLoop(worker[w])
             row == Updated(worker[w].prev, worker[w].candidates[worker[w].id])
  <2>1. row \in Incident
    BY <1>7, WrittenIsIncident DEF UpdateIncident, Run
  <2>2. me \in Run /\ me.step = "loop"
    BY BlankRuns
  <2> HIDE DEF me, row
  <2>3. /\ worker' = [worker EXCEPT ![w] = me]
        /\ UNCHANGED incidents \/ incidents' = [incidents EXCEPT ![worker[w].id] = row]
    BY <1>7 DEF UpdateIncident, me, row
  <2>4. incidents' \in [Ids -> Incident]
    BY <2>1, <2>3
  <2>5. worker' \in [Workers -> Run] /\ \A v \in Workers : v # w => worker'[v] = worker[v]
    BY <2>2, <2>3
  <2>6. worker'[w].step = "loop"
    BY <2>2, <2>3
  <2>7. UNCHANGED <<known, triage, owned, alerts, people, crashes>>
    BY <1>7 DEF UpdateIncident
  <2>8. QED BY <2>4, <2>5, <2>6, <2>7
<1>8. ASSUME NEW w \in Workers, FailOnResolved(w) \/ FinishRun(w) \/ AbandonRun(w) PROVE TypeInv'
  <2>1. /\ worker' = [worker EXCEPT ![w] = NoRun]
        /\ UNCHANGED <<tables, alerts, people>>
    BY <1>8 DEF FailOnResolved, FinishRun, AbandonRun
  <2>2. crashes' \in 0 .. MaxCrashes
    BY <1>8, IncidentAssumption DEF FailOnResolved, FinishRun, AbandonRun
  <2>3. QED BY <2>1, <2>2, BlankRuns
<1>9. ASSUME NEW w \in Workers, AlertsDone(w) PROVE TypeInv'
  <2>1. worker' = [worker EXCEPT ![w] = BackToLoop(worker[w])] /\ BackToLoop(worker[w]) \in Run
    BY <1>9, BlankRuns DEF AlertsDone
  <2>2. QED BY <1>9, <2>1, BlankRuns DEF AlertsDone
<1>10. ASSUME NEW w \in Workers, NEW d \in Destinations, PostAlert(w, d) PROVE TypeInv'
  <2>1. posts' \in [Workers -> [Ids -> [Webhooks -> Nat]]]
    BY <1>10 DEF PostAlert
  <2> DEFINE me == [worker[w] EXCEPT !.step = "record", !.dest = d]
  <2>2. me \in Run
    BY RunsStayTyped
  <2>3. me.id = worker[w].id /\ worker[w].id \in Ids
    BY <1>10 DEF PostAlert, Run
  <2>4. worker' = [worker EXCEPT ![w] = me]
    BY <1>10 DEF PostAlert
  <2> HIDE DEF me
  <2>5. worker' \in [Workers -> Run] /\ IdInHand'
    BY <2>2, <2>3, <2>4, HandTypes
  <2>6. QED BY <1>10, <2>1, <2>5 DEF PostAlert
<1>11. ASSUME NEW w \in Workers, NEW d \in Destinations, RecordAlert(w, d) PROVE TypeInv'
  <2>1. deliveries' \in [Workers -> [Ids -> [Destinations -> Nat]]]
    BY <1>11 DEF RecordAlert
  <2> DEFINE me == [worker[w] EXCEPT !.step = "post", !.dest = NoId, !.dests = @ \ {d}]
  <2>2. me \in Run
    BY RunsStayTyped
  <2>3. me.id = worker[w].id /\ worker[w].id \in Ids
    BY <1>11 DEF RecordAlert, Run
  <2>4. worker' = [worker EXCEPT ![w] = me]
    BY <1>11 DEF RecordAlert
  <2> HIDE DEF me
  <2>5. worker' \in [Workers -> Run] /\ IdInHand'
    BY <2>2, <2>3, <2>4, HandTypes
  <2>6. QED BY <1>11, <2>1, <2>5 DEF RecordAlert
<1>12. ASSUME NEW w \in Workers, NEW i \in Ids, ResolveStale(w, i) PROVE TypeInv'
  <2> DEFINE me == [worker[w] EXCEPT !.stale = @ \ {i}]
             row == [incidents[i] EXCEPT !.state = "resolved"]
  <2>1. row \in Incident
    <3>1. "resolved" \in IncidentStates
      BY DEF IncidentStates
    <3>2. incidents[i] \in Incident
      OBVIOUS
    <3>3. QED BY <3>1, <3>2 DEF Incident
  <2>2. me \in Run
    BY RunsStayTyped
  <2>3. me.step = "loop"
    BY <1>12 DEF ResolveStale, Run
  <2>4. worker' = [worker EXCEPT ![w] = me] /\ incidents' = [incidents EXCEPT ![i] = row]
    BY <1>12 DEF ResolveStale
  <2> HIDE DEF me, row
  <2>5. worker' \in [Workers -> Run] /\ IdInHand'
    BY <2>2, <2>3, <2>4, HandTypes
  <2>6. incidents' \in [Ids -> Incident]
    BY <2>1, <2>4
  <2>7. QED BY <1>12, <2>5, <2>6 DEF ResolveStale
<1>13. ASSUME NEW i \in Ids, NEW row \in Incident, EditIncident(i, row) PROVE TypeInv'
  <2>1. Wish(row) \in [state : IncidentStates, notes : BOOLEAN, owner : IncidentOwners]
    BY DEF Wish, Incident
  <2>2. edits' \in 0 .. MaxEdits
    BY <1>13, IncidentAssumption DEF EditIncident, Edit
  <2>3. QED BY <1>13, <2>1, <2>2 DEF EditIncident
<1>14. ASSUME NEW i \in Ids, TriageFinding(i) \/ RegisterOwner(i) PROVE TypeInv'
  <2>1. edits' \in 0 .. MaxEdits
    BY <1>14, IncidentAssumption DEF TriageFinding, RegisterOwner, Edit
  <2>2. triage' \in [Ids -> OperationalStates] /\ owned' \subseteq Ids
    BY <1>14 DEF TriageFinding, RegisterOwner
  <2>3. UNCHANGED <<known, incidents, alerts, worker, wanted, contested, newcomers, crashes>>
    BY <1>14 DEF TriageFinding, RegisterOwner
  <2>4. QED BY <2>1, <2>2, <2>3
<1>15. CASE UNCHANGED incidentVars
  BY <1>15 DEF incidentVars
<1>16. ASSUME NEW i \in Ids,
              SetIncidentState(i) \/ AssignIncidentOwner(i) \/ SetIncidentNote(i)
       PROVE  TypeInv'
  <2>1. PICK row \in Incident : EditIncident(i, row)
    BY <1>16, EditsWriteIncidents
  <2>2. QED BY <1>13, <2>1
<1>17. QED
  BY <1>1, <1>2, <1>3, <1>4, <1>5, <1>6, <1>7, <1>8, <1>9, <1>10, <1>11, <1>12, <1>14, <1>15, <1>16
  DEF IncidentsNext, RunStep, PeopleStep

-----------------------------------------------------------------------------
(* What runs resolve.                                                      *)

LEMMA InitResolveInv == IncidentsInit => ResolveInv
BY DEF IncidentsInit, ResolveInv, CandidatesAreKnown, IncidentsAreKnown, OldOnesAreSeen,
       ReadIsStored, RunsResolveOnlyNewcomers, Listed, NoRun, NoIncident, Unseen

\* A step that gives a worker no new finding or incident, and stores none.
LEMMA HandsKeepResolveInv ==
  ASSUME TypeInv, ResolveInv, UNCHANGED <<known, newcomers>>, NEW w \in Workers,
         NEW me \in Run, worker' = [worker EXCEPT ![w] = me],
         me.candidates = worker[w].candidates, me.todo \subseteq worker[w].todo,
         me.stale \subseteq worker[w].stale, me.step # "decide",
         Listed(w)' => Listed(w),
         \A i \in Ids : incidents'[i].stored = incidents[i].stored
  PROVE  ResolveInv'
<1> USE DEF TypeInv, IncidentsTypeOK, IdInHand, ResolveInv
<1>1. \A v \in Workers : /\ worker'[v].candidates = worker[v].candidates
                          /\ worker'[v].todo \subseteq worker[v].todo
                          /\ worker'[v].stale \subseteq worker[v].stale
                          /\ worker'[v].step = "decide" => worker'[v] = worker[v]
  OBVIOUS
<1>2. \A v \in Workers : Listed(v)' => Listed(v)
  BY DEF Listed
<1>3. CandidatesAreKnown'
  BY <1>1 DEF CandidatesAreKnown
<1>4. IncidentsAreKnown'
  BY DEF IncidentsAreKnown
<1>5. OldOnesAreSeen'
  BY <1>1, <1>2 DEF OldOnesAreSeen
<1>6. ReadIsStored'
  BY <1>1 DEF ReadIsStored
<1>7. RunsResolveOnlyNewcomers'
  BY <1>1 DEF RunsResolveOnlyNewcomers
<1>8. QED BY <1>3, <1>4, <1>5, <1>6, <1>7

\* A run that is over, however it ended.
LEMMA EndKeepsResolveInv ==
  ASSUME TypeInv, ResolveInv, UNCHANGED <<known, newcomers, incidents>>, NEW w \in Workers,
         NEW me \in {NoRun, [NoRun EXCEPT !.step = "persist"]},
         worker' = [worker EXCEPT ![w] = me]
  PROVE  ResolveInv'
<1> USE DEF TypeInv, IncidentsTypeOK, IdInHand, ResolveInv
<1>1. /\ \A i \in Ids : ~worker'[w].candidates[i].seen
      /\ worker'[w].todo = {} /\ worker'[w].stale = {}
      /\ worker'[w].step \in {"idle", "persist"}
      /\ \A v \in Workers : v # w => worker'[v] = worker[v]
  <2>1. worker'[w] = me
    OBVIOUS
  <2>2. /\ me.candidates = NoRun.candidates /\ me.todo = {} /\ me.stale = {}
        /\ me.step \in {"idle", "persist"}
    <3>1. CASE me = NoRun
      BY <3>1 DEF NoRun
    <3>2. CASE me = [NoRun EXCEPT !.step = "persist"]
      BY <3>2 DEF NoRun
    <3>3. QED BY <3>1, <3>2
  <2>3. \A i \in Ids : NoRun.candidates[i] = Unseen /\ ~Unseen.seen
    BY DEF NoRun, Unseen
  <2>4. QED BY <2>1, <2>2, <2>3
<1>2. CandidatesAreKnown'
  BY <1>1 DEF CandidatesAreKnown
<1>3. OldOnesAreSeen'
  BY <1>1 DEF OldOnesAreSeen, Listed
<1>4. ReadIsStored' /\ RunsResolveOnlyNewcomers' /\ IncidentsAreKnown'
  BY <1>1 DEF ReadIsStored, RunsResolveOnlyNewcomers, IncidentsAreKnown
<1>5. QED BY <1>2, <1>3, <1>4

LEMMA KeepResolveInv == TypeInv /\ ResolveInv /\ [IncidentsNext]_incidentVars => ResolveInv'
<1> SUFFICES ASSUME TypeInv, ResolveInv, [IncidentsNext]_incidentVars PROVE ResolveInv'
  OBVIOUS
<1> USE DEF TypeInv, IncidentsTypeOK, IdInHand, tables, alerts, people
<1>1. ASSUME NEW w \in Workers,
             StartRun(w) \/ FailOnResolved(w) \/ FinishRun(w) \/ AbandonRun(w)
      PROVE  ResolveInv'
  <2>1. PICK me \in {NoRun, [NoRun EXCEPT !.step = "persist"]} : worker' = [worker EXCEPT ![w] = me]
    BY <1>1 DEF StartRun, FailOnResolved, FinishRun, AbandonRun
  <2>2. UNCHANGED <<known, newcomers, incidents>>
    BY <1>1 DEF StartRun, FailOnResolved, FinishRun, AbandonRun
  <2>3. QED BY <2>1, <2>2, EndKeepsResolveInv
<1>2. ASSUME NEW w \in Workers, NEW i \in Ids, RegisterFinding(w, i) PROVE ResolveInv'
  BY <1>2 DEF RegisterFinding, ResolveInv, CandidatesAreKnown, IncidentsAreKnown, OldOnesAreSeen,
              Listed, ReadIsStored, RunsResolveOnlyNewcomers
<1>3. ASSUME NEW w \in Workers, ListFindings(w) PROVE ResolveInv'
  <2>1. /\ worker'[w].step = "list" /\ worker'[w].todo = {} /\ worker'[w].stale = {}
        /\ worker'[w].candidates = Candidates /\ newcomers'[w] = {}
        /\ \A v \in Workers : v # w => worker'[v] = worker[v] /\ newcomers'[v] = newcomers[v]
    BY <1>3 DEF ListFindings, NoRun
  <2>2. \A i \in Ids : IF i \in known THEN Candidates[i].seen ELSE ~Candidates[i].seen
    <3> TAKE i \in Ids
    <3>1. ~Skipped(i)
      BY DEF Skipped, OperationalStates
    <3>2. CASE i \in known
      BY <3>1, <3>2 DEF Candidates
    <3>3. CASE i \notin known
      BY <3>3 DEF Candidates, Unseen
    <3>4. QED BY <3>2, <3>3
  <2>3. UNCHANGED <<known, incidents>>
    BY <1>3 DEF ListFindings
  <2> USE DEF ResolveInv
  <2>4. CandidatesAreKnown'
    BY <2>1, <2>2, <2>3 DEF CandidatesAreKnown
  <2>5. IncidentsAreKnown'
    BY <2>3 DEF IncidentsAreKnown
  <2>6. OldOnesAreSeen'
    BY <2>1, <2>2, <2>3 DEF OldOnesAreSeen, IncidentsAreKnown, Listed
  <2>7. ReadIsStored' /\ RunsResolveOnlyNewcomers'
    BY <2>1, <2>3 DEF ReadIsStored, RunsResolveOnlyNewcomers
  <2>8. QED BY <2>4, <2>5, <2>6, <2>7
<1>4. ASSUME NEW w \in Workers, ListIncidents(w) PROVE ResolveInv'
  <2>1. /\ worker'[w].step = "loop" /\ worker'[w].candidates = worker[w].candidates
        /\ worker'[w].todo = Seen(worker[w])
        /\ \A i \in worker'[w].stale :
             i \in Ids /\ incidents[i].stored /\ ~worker[w].candidates[i].seen
        /\ \A v \in Workers : v # w => worker'[v] = worker[v]
    BY <1>4 DEF ListIncidents, Seen
  <2>2. worker[w].step = "list" /\ UNCHANGED <<known, incidents, newcomers>>
    BY <1>4 DEF ListIncidents
  <2> USE DEF ResolveInv
  <2>3. CandidatesAreKnown'
    BY <2>1, <2>2 DEF CandidatesAreKnown, Seen
  <2>4. OldOnesAreSeen'
    BY <2>1, <2>2 DEF OldOnesAreSeen, Listed
  <2>5. RunsResolveOnlyNewcomers'
    BY <2>1, <2>2 DEF RunsResolveOnlyNewcomers, OldOnesAreSeen, Listed
  <2>6. IncidentsAreKnown' /\ ReadIsStored'
    BY <2>1, <2>2 DEF IncidentsAreKnown, ReadIsStored
  <2>7. QED BY <2>3, <2>4, <2>5, <2>6
<1>5. ASSUME NEW w \in Workers, NEW i \in Ids, GetIncident(w, i) PROVE ResolveInv'
  <2>1. /\ worker'[w].step = "decide" /\ worker'[w].candidates = worker[w].candidates
        /\ worker'[w].todo \subseteq worker[w].todo /\ worker'[w].stale = worker[w].stale
        /\ worker'[w].id = i /\ worker'[w].prev = incidents[i]
        /\ \A v \in Workers : v # w => worker'[v] = worker[v]
    BY <1>5 DEF GetIncident, Run
  <2>2. /\ worker[w].step = "loop" /\ i \in worker[w].todo
        /\ UNCHANGED <<known, incidents, newcomers>>
    BY <1>5 DEF GetIncident
  <2> USE DEF ResolveInv
  <2>3. CandidatesAreKnown'
    BY <2>1, <2>2 DEF CandidatesAreKnown
  <2>4. OldOnesAreSeen'
    BY <2>1, <2>2 DEF OldOnesAreSeen, Listed
  <2>5. RunsResolveOnlyNewcomers' /\ IncidentsAreKnown' /\ ReadIsStored'
    BY <2>1, <2>2 DEF RunsResolveOnlyNewcomers, IncidentsAreKnown, ReadIsStored
  <2>6. QED BY <2>3, <2>4, <2>5
<1>6. ASSUME NEW w \in Workers, CreateIncident(w) PROVE ResolveInv'
  <2> DEFINE i == worker[w].id
  <2>1. /\ worker'[w].step = "post" /\ worker'[w].candidates = worker[w].candidates
        /\ worker'[w].todo = worker[w].todo /\ worker'[w].stale = worker[w].stale
        /\ \A v \in Workers : v # w => worker'[v] = worker[v]
    BY <1>6 DEF CreateIncident, Run
  <2>2. /\ worker[w].step = "decide" /\ i \in Ids /\ UNCHANGED known
        /\ incidents'[i].stored /\ \A k \in Ids : k # i => incidents'[k] = incidents[k]
    BY <1>6 DEF CreateIncident, Fresh
  <2>3. /\ \A v \in Workers : newcomers[v] \subseteq newcomers'[v]
        /\ ~incidents[i].stored => \A v \in Workers : i \in newcomers'[v]
    BY <1>6 DEF CreateIncident
  <2>0. \A v \in Workers : worker[v].step = "decide" => worker[v].id \in Ids
    OBVIOUS
  <2> HIDE DEF i, TypeInv, IncidentsTypeOK, IdInHand
  <2> USE DEF ResolveInv
  <2>4. CandidatesAreKnown'
    BY <2>1, <2>2 DEF CandidatesAreKnown
  <2>5. IncidentsAreKnown'
    BY <2>2 DEF IncidentsAreKnown, CandidatesAreKnown, i
  <2>6. OldOnesAreSeen'
    <3> SUFFICES ASSUME NEW v \in Workers, NEW k \in Ids \ newcomers'[v],
                        Listed(v)', incidents'[k].stored
                 PROVE  worker'[v].candidates[k].seen
      BY DEF OldOnesAreSeen
    <3>1. k \notin newcomers[v] /\ Listed(v)
      BY <2>1, <2>2, <2>3 DEF Listed
    <3>2. incidents[k].stored
      BY <2>2, <2>3
    <3>3. worker[v].candidates[k].seen
      BY <3>1, <3>2 DEF OldOnesAreSeen
    <3>4. QED BY <2>1, <3>3
  <2>7. ReadIsStored'
    <3> SUFFICES ASSUME NEW v \in Workers, worker'[v].step = "decide", worker'[v].prev.stored
                 PROVE  incidents'[worker'[v].id].stored
      BY DEF ReadIsStored
    <3>1. worker'[v] = worker[v]
      BY <2>1
    <3>2. incidents[worker[v].id].stored /\ worker[v].id \in Ids
      BY <2>0, <3>1 DEF ReadIsStored
    <3>3. QED BY <2>2, <3>1, <3>2
  <2>8. RunsResolveOnlyNewcomers'
    <3> SUFFICES ASSUME NEW v \in Workers PROVE worker'[v].stale \subseteq newcomers'[v]
      BY DEF RunsResolveOnlyNewcomers
    <3>1. worker'[v].stale = worker[v].stale
      BY <2>1
    <3>2. QED BY <2>3, <3>1 DEF RunsResolveOnlyNewcomers
  <2>9. QED BY <2>4, <2>5, <2>6, <2>7, <2>8
<1>7. ASSUME NEW w \in Workers, UpdateIncident(w) PROVE ResolveInv'
  <2>1. worker' = [worker EXCEPT ![w] = BackToLoop(worker[w])] /\ UNCHANGED <<known, newcomers>>
    BY <1>7 DEF UpdateIncident
  <2>2. \A k \in Ids : incidents'[k].stored = incidents[k].stored
    <3>1. worker[w].step = "decide" /\ worker[w].prev.stored /\ worker[w].id \in Ids
      BY <1>7 DEF UpdateIncident
    <3>2. incidents[worker[w].id].stored
      BY <3>1 DEF ResolveInv, ReadIsStored
    <3> DEFINE row == Updated(worker[w].prev, worker[w].candidates[worker[w].id])
    <3>3. row.stored
      BY DEF Updated
    <3>4. UNCHANGED incidents \/ incidents' = [incidents EXCEPT ![worker[w].id] = row]
      BY <1>7 DEF UpdateIncident
    <3>5. \A k \in Ids : incidents[k].stored \in BOOLEAN /\ incidents'[k].stored \in BOOLEAN
      BY KeepTypeInv DEF Incident
    <3> HIDE DEF row
    <3>6. QED BY <3>1, <3>2, <3>3, <3>4, <3>5
  <2>3. worker[w].step = "decide"
    BY <1>7 DEF UpdateIncident
  <2>4. /\ BackToLoop(worker[w]).candidates = worker[w].candidates
        /\ BackToLoop(worker[w]).todo = worker[w].todo
    BY DEF BackToLoop, Run
  <2>5. QED BY <2>1, <2>2, <2>3, <2>4, BlankRuns, HandsKeepResolveInv DEF Listed
<1>8. ASSUME NEW w \in Workers, AlertsDone(w) PROVE ResolveInv'
  <2>1. /\ worker' = [worker EXCEPT ![w] = BackToLoop(worker[w])] /\ worker[w].step = "post"
        /\ UNCHANGED <<known, newcomers, incidents>>
    BY <1>8 DEF AlertsDone
  <2>2. /\ BackToLoop(worker[w]).candidates = worker[w].candidates
        /\ BackToLoop(worker[w]).todo = worker[w].todo
    BY DEF BackToLoop, Run
  <2>3. QED BY <2>1, <2>2, BlankRuns, HandsKeepResolveInv DEF Listed
<1>9. ASSUME NEW w \in Workers, NEW d \in Destinations, PostAlert(w, d) \/ RecordAlert(w, d)
      PROVE  ResolveInv'
  <2> DEFINE me == worker'[w]
  <2>1. /\ worker' = [worker EXCEPT ![w] = me] /\ me.step \in {"post", "record"}
        /\ me.candidates = worker[w].candidates /\ me.todo = worker[w].todo
        /\ me.stale = worker[w].stale /\ worker[w].step \in {"post", "record"}
    <3>1. worker[w] \in Run
      OBVIOUS
    <3>2. CASE PostAlert(w, d)
      BY <3>1, <3>2 DEF PostAlert, Run
    <3>3. CASE RecordAlert(w, d)
      BY <3>1, <3>3 DEF RecordAlert, Run
    <3>4. QED BY <1>9, <3>2, <3>3
  <2>2. UNCHANGED <<known, newcomers, incidents>>
    BY <1>9 DEF PostAlert, RecordAlert
  <2>3. me \in Run
    BY KeepTypeInv
  <2>4. QED BY <2>1, <2>2, <2>3, HandsKeepResolveInv DEF Listed
<1>10. ASSUME NEW w \in Workers, NEW i \in Ids, ResolveStale(w, i) PROVE ResolveInv'
  <2> DEFINE me == worker'[w]
  <2>1. /\ worker' = [worker EXCEPT ![w] = me] /\ me.step = "loop" /\ worker[w].step = "loop"
        /\ me.candidates = worker[w].candidates /\ me.todo = worker[w].todo
        /\ me.stale \subseteq worker[w].stale
    BY <1>10 DEF ResolveStale, Run
  <2>2. UNCHANGED <<known, newcomers>> /\ \A k \in Ids : incidents'[k].stored = incidents[k].stored
    BY <1>10 DEF ResolveStale, Incident
  <2>3. me \in Run
    BY KeepTypeInv
  <2>4. QED BY <2>1, <2>2, <2>3, HandsKeepResolveInv DEF Listed
<1>11. ASSUME UNCHANGED <<known, newcomers, worker>>,
              \A k \in Ids : incidents'[k].stored = incidents[k].stored
       PROVE  ResolveInv'
  BY <1>11 DEF ResolveInv, CandidatesAreKnown, IncidentsAreKnown, OldOnesAreSeen, Listed,
               ReadIsStored, RunsResolveOnlyNewcomers
<1>12. ASSUME NEW i \in Ids, NEW row \in Incident, row.stored, EditIncident(i, row)
       PROVE  ResolveInv'
  <2>1. \A k \in Ids : incidents'[k].stored = incidents[k].stored
    BY <1>12 DEF EditIncident, Incident
  <2>2. QED BY <1>11, <1>12, <2>1 DEF EditIncident
<1>15. CASE PeopleStep
  <2>1. PICK i \in Ids : \/ SetIncidentState(i) \/ AssignIncidentOwner(i) \/ SetIncidentNote(i)
                         \/ TriageFinding(i) \/ RegisterOwner(i)
    BY <1>15 DEF PeopleStep
  <2>2. CASE TriageFinding(i) \/ RegisterOwner(i)
    BY <1>11, <2>2 DEF TriageFinding, RegisterOwner
  <2>3. CASE \E row \in Incident : row.stored /\ EditIncident(i, row)
    BY <1>12, <2>3
  <2>4. QED BY <2>1, <2>2, <2>3, EditsWriteIncidents
<1>13. CASE UNCHANGED incidentVars
  BY <1>11, <1>13 DEF incidentVars
<1>14. QED
  BY <1>1, <1>2, <1>3, <1>4, <1>5, <1>6, <1>7, <1>8, <1>9, <1>10, <1>13, <1>15
  DEF IncidentsNext, RunStep

-----------------------------------------------------------------------------
(* What people asked for stands.                                           *)

LEMMA InitWishInv == IncidentsInit => WishInv
<1> SUFFICES ASSUME IncidentsInit PROVE WishInv
  OBVIOUS
<1>1. \A w \in Workers : worker[w] = NoRun
  BY DEF IncidentsInit
<1>2. /\ \A i \in Ids : incidents[i] = NoIncident
      /\ \A i \in Ids : wanted[i] = [state |-> "open", notes |-> FALSE, owner |-> "nobody"]
  BY DEF IncidentsInit
<1>3. UnstoredIsBlank
  BY <1>1, <1>2, BlankRuns DEF UnstoredIsBlank
<1>4. RowsTellWishes
  <2>1. Tells(NoIncident, [state |-> "open", notes |-> FALSE, owner |-> "nobody"])
    BY DEF Tells, NoIncident
  <2>2. \A i \in Ids : Tells(incidents[i], wanted[i])
    BY <1>2, <2>1
  <2>3. \A w \in Workers : worker[w].step # "decide"
    BY <1>1, BlankRuns
  <2>4. QED BY <2>2, <2>3 DEF RowsTellWishes
<1>5. StaleIsContested
  BY <1>1, BlankRuns DEF StaleIsContested
<1>6. QED BY <1>3, <1>4, <1>5 DEF WishInv

\* Who has read an incident knows as much as the incident tells.
LEMMA RowsStillTell ==
  ASSUME RowsTellWishes, contested \subseteq contested',
         \A i \in Ids \ contested' : incidents'[i] = incidents[i] /\ wanted'[i] = wanted[i],
         \A w \in Workers :
           worker'[w].step = "decide" =>
             \/ worker'[w] = worker[w]
             \/ worker'[w].prev = incidents[worker'[w].id]
  PROVE  RowsTellWishes'
<1> SUFFICES ASSUME NEW i \in Ids \ contested'
             PROVE  /\ Tells(incidents'[i], wanted'[i])
                    /\ \A w \in Workers :
                         worker'[w].step = "decide" /\ worker'[w].id = i
                           => Tells(worker'[w].prev, wanted'[i])
  BY DEF RowsTellWishes, Tells
<1>1. incidents'[i] = incidents[i] /\ wanted'[i] = wanted[i] /\ Tells(incidents[i], wanted[i])
  BY DEF RowsTellWishes
<1>2. ASSUME NEW w \in Workers, worker'[w].step = "decide", worker'[w].id = i
      PROVE  Tells(worker'[w].prev, wanted[i])
  <2>1. CASE worker'[w] = worker[w]
    BY <1>2, <2>1 DEF RowsTellWishes
  <2>2. CASE worker'[w].prev = incidents[worker'[w].id]
    BY <1>1, <1>2, <2>2
  <2>3. QED BY <1>2, <2>1, <2>2
<1>3. QED BY <1>1, <1>2

\* A step that touches no incident and gives a worker none to decide on.
LEMMA HandsKeepWishInv ==
  ASSUME TypeInv, WishInv, UNCHANGED <<incidents, wanted, contested>>, NEW w \in Workers,
         NEW me \in Run, worker' = [worker EXCEPT ![w] = me],
         me.stale \subseteq worker[w].stale, me.step # "decide",
         me.prev \in {worker[w].prev, NoIncident}
  PROVE  WishInv'
<1> USE DEF TypeInv, IncidentsTypeOK, WishInv
<1>1. \A v \in Workers : /\ worker'[v].stale \subseteq worker[v].stale
                          /\ worker'[v].step = "decide" => worker'[v] = worker[v]
                          /\ worker'[v].prev \in {worker[v].prev, NoIncident}
  OBVIOUS
<1>2. UnstoredIsBlank'
  BY <1>1 DEF UnstoredIsBlank
<1>3. RowsTellWishes'
  BY <1>1, RowsStillTell
<1>4. StaleIsContested'
  BY <1>1 DEF StaleIsContested
<1>5. QED BY <1>2, <1>3, <1>4

\* A run that writes the incident in hand, as it read it but for the owner that is
\* registered.
LEMMA WriteKeepsWishInv ==
  ASSUME TypeInv, WishInv, UNCHANGED <<wanted, contested>>, NEW w \in Workers,
         worker[w].step = "decide", NEW me \in Run, worker' = [worker EXCEPT ![w] = me],
         me.stale = worker[w].stale, me.step # "decide",
         me.prev \in {worker[w].prev, NoIncident},
         NEW row \in Incident, row.stored,
         incidents' = [incidents EXCEPT ![worker[w].id] = row],
         row.state = worker[w].prev.state, row.notes = worker[w].prev.notes,
         row.owner \in {worker[w].prev.owner, "registered"}
  PROVE  WishInv'
<1> USE DEF TypeInv, IncidentsTypeOK, WishInv
<1>1. \A v \in Workers : /\ worker'[v].stale = worker[v].stale
                          /\ worker'[v].step = "decide" => worker'[v] = worker[v]
                          /\ worker'[v].prev \in {worker[v].prev, NoIncident}
  OBVIOUS
<1>2. UnstoredIsBlank'
  BY <1>1 DEF UnstoredIsBlank, IdInHand
<1>3. RowsTellWishes'
  <2> SUFFICES ASSUME NEW i \in Ids \ contested
               PROVE  /\ Tells(incidents[i], wanted[i])'
                      /\ \A v \in Workers :
                           worker'[v].step = "decide" /\ worker'[v].id = i
                             => Tells(worker[v].prev, wanted[i])'
    BY DEF RowsTellWishes
  <2>1. Tells(incidents[i], wanted[i])'
    <3>1. CASE worker[w].id = i
      <4>1. Tells(worker[w].prev, wanted[i])
        BY <3>1 DEF RowsTellWishes
      <4>2. incidents'[i] = row
        BY <3>1
      <4>3. QED BY <4>1, <4>2 DEF Tells
    <3>2. CASE worker[w].id # i
      BY <3>2 DEF RowsTellWishes, Tells
    <3>3. QED BY <3>1, <3>2
  <2>2. ASSUME NEW v \in Workers, worker'[v].step = "decide", worker'[v].id = i
        PROVE  Tells(worker[v].prev, wanted[i])'
    BY <1>1, <2>2 DEF RowsTellWishes, Tells
  <2>3. QED BY <2>1, <2>2
<1>4. StaleIsContested'
  BY <1>1 DEF StaleIsContested
<1>5. QED BY <1>2, <1>3, <1>4

LEMMA KeepWishInv == TypeInv /\ WishInv /\ [IncidentsNext]_incidentVars => WishInv'
<1> SUFFICES ASSUME TypeInv, WishInv, [IncidentsNext]_incidentVars PROVE WishInv'
  OBVIOUS
<1> USE DEF TypeInv, IncidentsTypeOK, tables, alerts, people
<1>0. \A w \in Workers : worker'[w] \in Run
  BY KeepTypeInv
<1>1. ASSUME NEW w \in Workers,
             \/ StartRun(w) \/ FailOnResolved(w) \/ FinishRun(w) \/ AbandonRun(w)
             \/ ListFindings(w)
      PROVE  WishInv'
  <2>1. /\ worker' = [worker EXCEPT ![w] = worker'[w]]
        /\ worker'[w].step # "decide" /\ worker'[w].stale = {} /\ worker'[w].prev = NoIncident
    <3>1. CASE StartRun(w)
      BY <3>1 DEF StartRun, NoRun
    <3>2. CASE FailOnResolved(w) \/ FinishRun(w) \/ AbandonRun(w)
      BY <3>2, BlankRuns DEF FailOnResolved, FinishRun, AbandonRun
    <3>3. CASE ListFindings(w)
      BY <3>3 DEF ListFindings, NoRun
    <3>4. QED BY <1>1, <3>1, <3>2, <3>3
  <2>2. UNCHANGED <<incidents, wanted, contested>>
    BY <1>1 DEF StartRun, FailOnResolved, FinishRun, AbandonRun, ListFindings
  <2>3. QED BY <1>0, <2>1, <2>2, HandsKeepWishInv
<1>2. ASSUME NEW w \in Workers, ListIncidents(w) PROVE WishInv'
  <2>1. /\ worker'[w].step = "loop" /\ worker'[w].prev = worker[w].prev
        /\ contested \subseteq contested' /\ UNCHANGED <<incidents, wanted>>
        /\ \A v \in Workers : v # w => worker'[v] = worker[v]
    BY <1>2 DEF ListIncidents, Run
  <2>2. \A i \in worker'[w].stale : i \in contested' /\ incidents[i].stored
    BY <1>2 DEF ListIncidents, Run
  <2>3. UnstoredIsBlank'
    BY <2>1 DEF WishInv, UnstoredIsBlank
  <2>4. RowsTellWishes'
    BY <2>1, RowsStillTell DEF WishInv
  <2>5. StaleIsContested'
    BY <2>1, <2>2 DEF WishInv, StaleIsContested
  <2>6. QED BY <2>3, <2>4, <2>5 DEF WishInv
<1>3. ASSUME NEW w \in Workers, NEW i \in Ids, GetIncident(w, i) PROVE WishInv'
  <2>1. /\ worker'[w].id = i /\ worker'[w].prev = incidents[i]
        /\ worker'[w].stale = worker[w].stale
        /\ \A v \in Workers : v # w => worker'[v] = worker[v]
        /\ UNCHANGED <<incidents, wanted, contested>>
    BY <1>3 DEF GetIncident, Run
  <2>3. UnstoredIsBlank'
    BY <2>1 DEF WishInv, UnstoredIsBlank
  <2>4. RowsTellWishes'
    BY <2>1, RowsStillTell DEF WishInv
  <2>5. StaleIsContested'
    BY <2>1 DEF WishInv, StaleIsContested
  <2>6. QED BY <2>3, <2>4, <2>5 DEF WishInv
<1>4. ASSUME NEW w \in Workers, CreateIncident(w) PROVE WishInv'
  <2> DEFINE row == Fresh(worker[w].candidates[worker[w].id])
  <2>1. /\ worker' = [worker EXCEPT ![w] = worker'[w]] /\ worker[w].step = "decide"
        /\ worker'[w].step # "decide" /\ worker'[w].stale = worker[w].stale
        /\ worker'[w].prev = worker[w].prev /\ ~worker[w].prev.stored
        /\ UNCHANGED <<wanted, contested>>
    BY <1>4 DEF CreateIncident, Run
  <2>2. incidents' = [incidents EXCEPT ![worker[w].id] = row]
    BY <1>4 DEF CreateIncident
  <2>3. worker[w].candidates[worker[w].id] \in Facts
    BY <2>1 DEF IdInHand, Run
  <2>5. worker[w].prev = NoIncident
    BY <2>1 DEF WishInv, UnstoredIsBlank
  <2>4. row \in Incident /\ row.stored
    BY <2>3, BlankRuns, WrittenIsIncident
  <2>6. /\ row.state = worker[w].prev.state /\ row.notes = worker[w].prev.notes
        /\ row.owner \in {worker[w].prev.owner, "registered"}
    BY <2>5 DEF Fresh, NoIncident
  <2> HIDE DEF row
  <2>7. QED BY <1>0, <2>1, <2>2, <2>4, <2>6, WriteKeepsWishInv
<1>5. ASSUME NEW w \in Workers, UpdateIncident(w) PROVE WishInv'
  <2> DEFINE row == Updated(worker[w].prev, worker[w].candidates[worker[w].id])
  <2>1. worker' = [worker EXCEPT ![w] = BackToLoop(worker[w])] /\ worker[w].step = "decide"
    BY <1>5 DEF UpdateIncident
  <2>2. /\ worker' = [worker EXCEPT ![w] = worker'[w]]
        /\ worker'[w].step # "decide" /\ worker'[w].stale = worker[w].stale
        /\ worker'[w].prev = NoIncident
    BY <2>1, BlankRuns
  <2>3. UNCHANGED incidents \/ incidents' = [incidents EXCEPT ![worker[w].id] = row]
    BY <1>5 DEF UpdateIncident
  <2>4. worker[w].candidates[worker[w].id] \in Facts /\ worker[w].prev \in Incident
    BY <2>1 DEF IdInHand, Run
  <2>5. row \in Incident /\ row.stored
    BY <2>4, WrittenIsIncident
  <2>6. /\ row.state = worker[w].prev.state /\ row.notes = worker[w].prev.notes
        /\ row.owner \in {worker[w].prev.owner, "registered"}
    BY DEF Updated
  <2>7. UNCHANGED <<wanted, contested>>
    BY <1>5 DEF UpdateIncident
  <2> HIDE DEF row
  <2>8. CASE UNCHANGED incidents
    BY <1>0, <2>2, <2>7, <2>8, HandsKeepWishInv
  <2>9. CASE incidents' = [incidents EXCEPT ![worker[w].id] = row]
    BY <1>0, <2>1, <2>2, <2>5, <2>6, <2>7, <2>9, WriteKeepsWishInv
  <2>10. QED BY <2>3, <2>8, <2>9
<1>6. ASSUME NEW w \in Workers, AlertsDone(w) PROVE WishInv'
  <2>1. worker' = [worker EXCEPT ![w] = BackToLoop(worker[w])]
    BY <1>6 DEF AlertsDone
  <2>2. /\ BackToLoop(worker[w]).stale = worker[w].stale
        /\ BackToLoop(worker[w]).prev = NoIncident
    BY BlankRuns
  <2>3. UNCHANGED <<incidents, wanted, contested>>
    BY <1>6 DEF AlertsDone
  <2>4. BackToLoop(worker[w]) \in Run /\ BackToLoop(worker[w]).step # "decide"
    BY BlankRuns
  <2>5. QED BY <2>1, <2>2, <2>3, <2>4, HandsKeepWishInv
<1>7. ASSUME NEW w \in Workers, NEW d \in Destinations, PostAlert(w, d) \/ RecordAlert(w, d)
      PROVE  WishInv'
  <2>1. /\ worker' = [worker EXCEPT ![w] = worker'[w]] /\ worker'[w].step # "decide"
        /\ worker'[w].stale = worker[w].stale /\ worker'[w].prev = worker[w].prev
        /\ UNCHANGED <<incidents, wanted, contested>>
    <3>1. CASE PostAlert(w, d)
      BY <3>1 DEF PostAlert, Run
    <3>2. CASE RecordAlert(w, d)
      BY <3>2 DEF RecordAlert, Run
    <3>3. QED BY <1>7, <3>1, <3>2
  <2>2. QED BY <1>0, <2>1, HandsKeepWishInv
<1>8. ASSUME NEW w \in Workers, NEW i \in Ids, ResolveStale(w, i) PROVE WishInv'
  <2>1. /\ i \in worker[w].stale /\ i \in contested
        /\ worker'[w].stale \subseteq worker[w].stale
        /\ worker'[w].step = "loop" /\ worker'[w].prev = worker[w].prev
        /\ UNCHANGED <<wanted, contested>>
        /\ \A v \in Workers : v # w => worker'[v] = worker[v]
    BY <1>8 DEF ResolveStale, Run, WishInv, StaleIsContested
  <2>2. \A k \in Ids : k # i => incidents'[k] = incidents[k]
    BY <1>8 DEF ResolveStale
  <2>3. incidents[i].stored /\ incidents'[i].stored
    BY <1>8 DEF ResolveStale, WishInv, StaleIsContested, Incident
  <2>4. UnstoredIsBlank'
    BY <2>1, <2>2, <2>3 DEF WishInv, UnstoredIsBlank
  <2>5. RowsTellWishes'
    BY <2>1, <2>2, RowsStillTell DEF WishInv
  <2>6. StaleIsContested'
    BY <2>1, <2>2, <2>3 DEF WishInv, StaleIsContested
  <2>7. QED BY <2>4, <2>5, <2>6 DEF WishInv
<1>9. ASSUME NEW i \in Ids, NEW row \in Incident, row.stored, EditIncident(i, row)
      PROVE  WishInv'
  <2>1. /\ incidents' = [incidents EXCEPT ![i] = row] /\ wanted' = [wanted EXCEPT ![i] = Wish(row)]
        /\ contested' = IF InFlight(i) THEN contested \cup {i} ELSE contested \ {i}
        /\ UNCHANGED worker
    BY <1>9 DEF EditIncident
  <2>2. UnstoredIsBlank'
    BY <1>9, <2>1 DEF WishInv, UnstoredIsBlank
  <2>3. RowsTellWishes'
    BY <2>1 DEF WishInv, RowsTellWishes, Tells, Wish, InFlight
  <2>4. StaleIsContested'
    <3> SUFFICES ASSUME NEW w \in Workers, NEW k \in Ids, k \in worker[w].stale
                 PROVE  k \in contested' /\ incidents'[k].stored
      BY <2>1 DEF StaleIsContested
    <3>1. k \in contested /\ incidents[k].stored
      BY DEF WishInv, StaleIsContested
    <3>2. k = i => InFlight(i)
      BY DEF InFlight
    <3>3. k \in contested'
      BY <2>1, <3>1, <3>2
    <3>4. incidents'[k].stored
      BY <1>9, <2>1, <3>1
    <3>5. QED BY <3>3, <3>4
  <2>5. QED BY <2>2, <2>3, <2>4 DEF WishInv
<1>10. ASSUME UNCHANGED <<incidents, wanted, contested, worker>> PROVE WishInv'
  BY <1>10 DEF WishInv, UnstoredIsBlank, RowsTellWishes, Tells, StaleIsContested
<1>11. CASE PeopleStep
  <2>1. PICK i \in Ids : \/ SetIncidentState(i) \/ AssignIncidentOwner(i) \/ SetIncidentNote(i)
                         \/ TriageFinding(i) \/ RegisterOwner(i)
    BY <1>11 DEF PeopleStep
  <2>2. CASE TriageFinding(i) \/ RegisterOwner(i)
    BY <1>10, <2>2 DEF TriageFinding, RegisterOwner
  <2>3. CASE \E row \in Incident : row.stored /\ EditIncident(i, row)
    BY <1>9, <2>3
  <2>4. QED BY <2>1, <2>2, <2>3, EditsWriteIncidents
<1>12. ASSUME NEW w \in Workers, NEW i \in Ids, RegisterFinding(w, i) PROVE WishInv'
  BY <1>10, <1>12 DEF RegisterFinding
<1>13. CASE UNCHANGED incidentVars
  BY <1>10, <1>13 DEF incidentVars
<1>14. QED
  BY <1>1, <1>2, <1>3, <1>4, <1>5, <1>6, <1>7, <1>8, <1>11, <1>12, <1>13
  DEF IncidentsNext, RunStep

-----------------------------------------------------------------------------
(* Alerts.                                                                 *)

LEMMA InitAlertInv == IncidentsInit => AlertInv
<1> SUFFICES ASSUME IncidentsInit PROVE AlertInv
  OBVIOUS
<1>1. /\ \A w \in Workers, i \in Ids : Unsent(w, i)
      /\ \A w \in Workers : worker[w].step = "idle"
      /\ \A i \in Ids : ~incidents[i].stored
  BY BlankRuns DEF IncidentsInit, Unsent, Destinations, NoIncident
<1>2. UnstoredIsUnsent /\ SentSoFar
  BY <1>1 DEF UnstoredIsUnsent, SentSoFar
<1>3. NoDoubleAnnouncement /\ DeliveriesMatchPosts
  BY <1>1 DEF NoDoubleAnnouncement, DeliveriesMatchPosts, Unsent, Destinations
<1>4. EveryIncidentAnnounced
  BY <1>1 DEF EveryIncidentAnnounced
<1>5. QED BY <1>2, <1>3, <1>4 DEF AlertInv, AlertsMatchIncidents

\* A step that sends nothing, by a worker that is not announcing or, in the course
\* of a run that dies, stops to.
LEMMA SilenceKeepsAlertInv ==
  ASSUME TypeInv, AlertInv, UNCHANGED <<posts, deliveries>>, crashes' \in Nat,
         crashes' = 0 => crashes = 0,
         \A i \in Ids : incidents[i].stored => incidents'[i].stored,
         \A i \in Ids : incidents'[i].stored => incidents[i].stored,
         \A w \in Workers :
           \/ worker'[w] = worker[w]
           \/ /\ worker'[w].step \notin {"decide", "post", "record"}
              /\ worker[w].step \in {"post", "record"} =>
                   \/ crashes' # 0
                   \/ /\ worker[w].step = "post"
                      /\ \A d \in Destinations : deliveries[w][worker[w].id][d] = 1
           \/ /\ worker'[w].step = "decide" /\ worker'[w].id \in Ids
              /\ worker'[w].prev = incidents[worker'[w].id]
              /\ worker[w].step = "loop"
  PROVE  AlertInv'
<1> USE DEF AlertInv, AlertsMatchIncidents
<1>1. UnstoredIsUnsent'
  <2> SUFFICES ASSUME NEW w \in Workers
               PROVE  /\ \A i \in Ids : ~incidents'[i].stored => Unsent(w, i)
                      /\ worker'[w].step = "decide" /\ ~worker'[w].prev.stored
                           => Unsent(w, worker'[w].id)
    BY DEF UnstoredIsUnsent, Unsent
  <2>1. \A i \in Ids : ~incidents'[i].stored => Unsent(w, i)
    BY DEF UnstoredIsUnsent
  <2>2. ASSUME worker'[w].step = "decide", ~worker'[w].prev.stored PROVE Unsent(w, worker'[w].id)
    <3>1. CASE worker'[w] = worker[w]
      BY <2>2, <3>1 DEF UnstoredIsUnsent
    <3>2. CASE worker'[w].id \in Ids /\ worker'[w].prev = incidents[worker'[w].id]
      BY <2>2, <3>2 DEF UnstoredIsUnsent
    <3>3. QED BY <2>2, <3>1, <3>2
  <2>3. QED BY <2>1, <2>2
<1>2. SentSoFar'
  <2> SUFFICES ASSUME NEW w \in Workers, worker'[w].step \in {"post", "record"}
               PROVE  /\ worker'[w] = worker[w]
                      /\ incidents'[worker[w].id].stored
    BY DEF SentSoFar, Told
  <2>1. worker'[w] = worker[w]
    OBVIOUS
  <2>2. worker[w].id \in Ids
    BY <2>1 DEF TypeInv, IdInHand
  <2>3. QED BY <2>1, <2>2 DEF SentSoFar
<1>3. NoDoubleAnnouncement'
  <2> SUFFICES ASSUME NEW w \in Workers, NEW i \in Ids
               PROVE  /\ \A d \in Webhooks : posts[w][i][d] <= 1
                      /\ \A d \in Destinations :
                           deliveries[w][i][d] <= IF incidents'[i].stored THEN 1 ELSE 0
    BY DEF NoDoubleAnnouncement
  <2>1. CASE incidents[i].stored
    BY <2>1 DEF NoDoubleAnnouncement
  <2>2. CASE ~incidents[i].stored
    BY <2>2 DEF NoDoubleAnnouncement
  <2>3. QED BY <2>1, <2>2
<1>4. \A w \in Workers, i \in Ids :
        crashes' = 0 /\ Announcing(w, i) =>
          \/ worker'[w] = worker[w]
          \/ worker[w].step = "post" /\ \A d \in Destinations : deliveries[w][i][d] = 1
  BY DEF Announcing
<1>5. DeliveriesMatchPosts'
  BY <1>4 DEF DeliveriesMatchPosts, Announcing
<1>6. EveryIncidentAnnounced'
  <2> SUFFICES ASSUME crashes' = 0, NEW i \in Ids, incidents'[i].stored
               PROVE  \E w \in Workers : \/ Announcing(w, i)'
                                         \/ \A d \in Destinations : deliveries[w][i][d] = 1
    BY DEF EveryIncidentAnnounced
  <2>1. PICK w \in Workers : \/ Announcing(w, i)
                             \/ \A d \in Destinations : deliveries[w][i][d] = 1
    BY DEF EveryIncidentAnnounced
  <2>2. worker'[w] = worker[w] /\ Announcing(w, i) => Announcing(w, i)'
    BY DEF Announcing
  <2>3. QED BY <1>4, <2>1, <2>2
<1>7. QED BY <1>1, <1>2, <1>3, <1>5, <1>6

LEMMA CreateKeepsAlertInv ==
  ASSUME TypeInv, AlertInv, NEW w \in Workers, CreateIncident(w)
  PROVE  AlertInv'
<1> DEFINE i == worker[w].id
<1>1. /\ worker[w].step = "decide" /\ ~worker[w].prev.stored /\ i \in Ids
      /\ UNCHANGED <<posts, deliveries, crashes>>
      /\ worker' = [worker EXCEPT ![w] = [worker[w] EXCEPT !.step = "post",
                                                           !.dests = Destinations]]
  BY DEF CreateIncident, TypeInv, IdInHand, alerts
<1>2. /\ worker'[w].step = "post" /\ worker'[w].id = i /\ worker'[w].dests = Destinations
      /\ \A v \in Workers : v # w => worker'[v] = worker[v]
  BY <1>1 DEF TypeInv, IncidentsTypeOK, Run
<1>3. incidents'[i].stored /\ \A k \in Ids : k # i => incidents'[k] = incidents[k]
  BY <1>1 DEF CreateIncident, Fresh, TypeInv, IncidentsTypeOK
<1>4. \A v \in Workers : worker[v].step \in {"decide", "post", "record"} => worker[v].id \in Ids
  BY DEF TypeInv, IdInHand
<1>5. Unsent(w, i)
  BY <1>1 DEF AlertInv, UnstoredIsUnsent
<1> HIDE DEF i
<1>6. UnstoredIsUnsent'
  <2> SUFFICES ASSUME NEW v \in Workers
               PROVE  /\ \A k \in Ids : ~incidents'[k].stored => Unsent(v, k)
                      /\ worker'[v].step = "decide" /\ ~worker'[v].prev.stored
                           => Unsent(v, worker'[v].id)
    BY <1>1 DEF UnstoredIsUnsent, Unsent
  <2>1. \A k \in Ids : ~incidents'[k].stored => Unsent(v, k)
    BY <1>3 DEF AlertInv, UnstoredIsUnsent
  <2>2. worker'[v].step = "decide" /\ ~worker'[v].prev.stored => Unsent(v, worker'[v].id)
    BY <1>2 DEF AlertInv, UnstoredIsUnsent
  <2>3. QED BY <2>1, <2>2
<1>7. SentSoFar'
  <2> SUFFICES ASSUME NEW v \in Workers, worker'[v].step \in {"post", "record"}
               PROVE  /\ incidents'[worker'[v].id].stored
                      /\ Told(worker'[v], posts[v][worker'[v].id], deliveries[v][worker'[v].id])
    BY <1>1 DEF SentSoFar, Told
  <2>1. CASE v = w
    BY <1>2, <1>3, <1>5, <2>1 DEF Unsent, Destinations, Told
  <2>2. CASE v # w
    <3>1. worker'[v] = worker[v] /\ worker[v].id \in Ids
      BY <1>2, <1>4, <2>2
    <3>2. /\ incidents[worker[v].id].stored
          /\ Told(worker[v], posts[v][worker[v].id], deliveries[v][worker[v].id])
      BY <3>1 DEF AlertInv, SentSoFar
    <3>3. incidents'[worker[v].id].stored
      BY <1>3, <3>1, <3>2
    <3>4. QED BY <3>1, <3>2, <3>3
  <2>3. QED BY <2>1, <2>2
<1>8. NoDoubleAnnouncement'
  <2> SUFFICES ASSUME NEW v \in Workers, NEW k \in Ids
               PROVE  /\ \A d \in Webhooks : posts[v][k][d] <= 1
                      /\ \A d \in Destinations :
                           deliveries[v][k][d] <= IF incidents'[k].stored THEN 1 ELSE 0
    BY <1>1 DEF NoDoubleAnnouncement
  <2>1. CASE incidents[k].stored
    BY <1>3, <2>1 DEF AlertInv, AlertsMatchIncidents, NoDoubleAnnouncement
  <2>2. CASE ~incidents[k].stored
    BY <2>2 DEF AlertInv, AlertsMatchIncidents, NoDoubleAnnouncement, UnstoredIsUnsent, Unsent
  <2>3. QED BY <2>1, <2>2
<1>9. \A v \in Workers, k \in Ids : Announcing(v, k) => worker'[v] = worker[v]
  BY <1>1, <1>2 DEF Announcing
<1>10. DeliveriesMatchPosts'
  BY <1>1, <1>9 DEF AlertInv, AlertsMatchIncidents, DeliveriesMatchPosts, Announcing
<1>11. EveryIncidentAnnounced'
  <2> SUFFICES ASSUME crashes = 0, NEW k \in Ids, incidents'[k].stored
               PROVE  \E v \in Workers : \/ Announcing(v, k)'
                                         \/ \A d \in Destinations : deliveries[v][k][d] = 1
    BY <1>1 DEF EveryIncidentAnnounced
  <2>1. CASE k = i
    BY <1>2, <2>1 DEF Announcing
  <2>2. CASE k # i
    <3>1. PICK v \in Workers : \/ Announcing(v, k)
                               \/ \A d \in Destinations : deliveries[v][k][d] = 1
      BY <1>3, <2>2 DEF AlertInv, AlertsMatchIncidents, EveryIncidentAnnounced
    <3>2. Announcing(v, k) => Announcing(v, k)'
      BY <1>9 DEF Announcing
    <3>3. QED BY <3>1, <3>2
  <2>3. QED BY <2>1, <2>2
<1>12. QED BY <1>6, <1>7, <1>8, <1>10, <1>11 DEF AlertInv, AlertsMatchIncidents

\* The request comes first, the row that records it second.
LEMMA PostTold ==
  ASSUME NEW me \in Run, NEW sent \in [Webhooks -> Nat], NEW recorded, Told(me, sent, recorded),
         me.step = "post", NEW d \in me.dests \cap Webhooks
  PROVE  Told([me EXCEPT !.step = "record", !.dest = d], [sent EXCEPT ![d] = @ + 1], recorded)
BY DEF Told, Run

LEMMA RecordTold ==
  ASSUME NEW me \in Run, NEW sent, NEW recorded \in [Destinations -> Nat], Told(me, sent, recorded),
         NEW d \in Destinations,
         \/ me.step = "record" /\ d = me.dest
         \/ me.step = "post" /\ d \in me.dests \cap Emails
  PROVE  Told([me EXCEPT !.step = "post", !.dest = NoId, !.dests = @ \ {d}],
              sent, [recorded EXCEPT ![d] = @ + 1])
<1> DEFINE next == [me EXCEPT !.step = "post", !.dest = NoId, !.dests = @ \ {d}]
<1>1. next.step = "post" /\ next.dests = me.dests \ {d} /\ d \in me.dests
  BY DEF Run, Told
<1> HIDE DEF next
<1>2. \A e \in Destinations : [recorded EXCEPT ![d] = @ + 1][e] = IF e \in next.dests THEN 0 ELSE 1
  BY <1>1 DEF Told
<1>3. \A e \in Webhooks : sent[e] = IF e \in next.dests THEN 0 ELSE 1
  BY <1>1, IncidentAssumption DEF Told
<1>4. Told(next, sent, [recorded EXCEPT ![d] = @ + 1])
  BY <1>1, <1>2, <1>3 DEF Told
<1>5. QED BY <1>4 DEF next

\* A step of the worker that is announcing an incident and goes on to do so.
LEMMA TellingKeepsAlertInv ==
  ASSUME TypeInv, AlertInv, NEW w \in Workers, NEW i \in Ids,
         worker[w].step \in {"post", "record"}, worker[w].id = i,
         worker'[w].step \in {"post", "record"}, worker'[w].id = i,
         Told(worker'[w], posts'[w][i], deliveries'[w][i]),
         \A v \in Workers : v # w => worker'[v] = worker[v],
         \A v \in Workers, k \in Ids :
           v # w \/ k # i => posts'[v][k] = posts[v][k] /\ deliveries'[v][k] = deliveries[v][k],
         UNCHANGED <<incidents, crashes>>
  PROVE  AlertInv'
<1> DEFINE me == worker'[w]
           sent == posts'[w][i]
           recorded == deliveries'[w][i]
<1>1. /\ worker'[w] = me /\ posts'[w][i] = sent /\ deliveries'[w][i] = recorded
      /\ \A v \in Workers : v # w => worker'[v] = worker[v]
  OBVIOUS
<1>2. \A v \in Workers, k \in Ids :
        v # w \/ k # i => posts'[v][k] = posts[v][k] /\ deliveries'[v][k] = deliveries[v][k]
  OBVIOUS
<1>3. incidents[i].stored
  BY DEF AlertInv, SentSoFar
<1>4. \A v \in Workers : worker[v].step \in {"decide", "post", "record"} => worker[v].id \in Ids
  BY DEF TypeInv, IdInHand
<1>5. UnstoredIsUnsent'
  <2> SUFFICES ASSUME NEW v \in Workers
               PROVE  /\ \A k \in Ids : ~incidents[k].stored => Unsent(v, k)'
                      /\ worker'[v].step = "decide" /\ ~worker'[v].prev.stored
                           => Unsent(v, worker[v].id)'
    BY DEF UnstoredIsUnsent
  <2>1. \A k \in Ids : v # w \/ k # i => (Unsent(v, k) => Unsent(v, k)')
    BY <1>2 DEF Unsent
  <2>2. \A k \in Ids : ~incidents[k].stored => Unsent(v, k)'
    BY <1>3, <2>1 DEF AlertInv, UnstoredIsUnsent
  <2>3. ASSUME worker'[v].step = "decide", ~worker'[v].prev.stored
        PROVE  Unsent(v, worker[v].id)'
    <3>1. v # w /\ worker'[v] = worker[v]
      BY <1>1, <2>3
    <3>2. worker[v].id \in Ids /\ Unsent(v, worker[v].id)
      BY <1>4, <2>3, <3>1 DEF AlertInv, UnstoredIsUnsent
    <3>3. /\ posts'[v][worker[v].id] = posts[v][worker[v].id]
          /\ deliveries'[v][worker[v].id] = deliveries[v][worker[v].id]
      BY <1>2, <3>1, <3>2
    <3>4. QED BY <3>1, <3>2, <3>3 DEF Unsent
  <2>4. QED BY <2>2, <2>3
<1>6. SentSoFar'
  <2> SUFFICES ASSUME NEW v \in Workers, worker'[v].step \in {"post", "record"}
               PROVE  /\ incidents[worker'[v].id].stored
                      /\ Told(worker'[v], posts'[v][worker'[v].id], deliveries'[v][worker'[v].id])
    BY DEF SentSoFar, Told
  <2>1. CASE v = w
    BY <1>1, <1>3, <2>1
  <2>2. CASE v # w
    <3>1. worker'[v] = worker[v] /\ worker[v].id \in Ids
      BY <1>1, <1>4, <2>2
    <3>2. /\ posts'[v][worker[v].id] = posts[v][worker[v].id]
          /\ deliveries'[v][worker[v].id] = deliveries[v][worker[v].id]
      BY <1>2, <2>2, <3>1
    <3>3. QED BY <3>1, <3>2 DEF AlertInv, SentSoFar
  <2>3. QED BY <2>1, <2>2
<1>7. \A d \in Destinations : recorded[d] \in {0, 1}
  BY DEF Told
<1>8. \A d \in Webhooks : sent[d] \in {0, 1}
  BY DEF Told
<1>9. NoDoubleAnnouncement'
  <2> SUFFICES ASSUME NEW v \in Workers, NEW k \in Ids
               PROVE  /\ \A d \in Webhooks : posts'[v][k][d] <= 1
                      /\ \A d \in Destinations :
                           deliveries'[v][k][d] <= IF incidents[k].stored THEN 1 ELSE 0
    BY DEF NoDoubleAnnouncement
  <2>1. CASE v = w /\ k = i
    BY <1>1, <1>3, <1>7, <1>8, <2>1
  <2>2. CASE v # w \/ k # i
    BY <1>2, <2>2 DEF AlertInv, AlertsMatchIncidents, NoDoubleAnnouncement
  <2>3. QED BY <2>1, <2>2
<1>10. \A v \in Workers, k \in Ids : Announcing(v, k) => Announcing(v, k)'
  BY <1>1 DEF Announcing
<1>11. DeliveriesMatchPosts'
  <2> SUFFICES ASSUME NEW v \in Workers, NEW k \in Ids, NEW d \in Webhooks
               PROVE  /\ deliveries'[v][k][d] <= posts'[v][k][d]
                      /\ crashes = 0 /\ deliveries'[v][k][d] < posts'[v][k][d] =>
                           Announcing(v, k)' /\ worker'[v].step = "record" /\ worker'[v].dest = d
    BY DEF DeliveriesMatchPosts
  <2>1. CASE v = w /\ k = i
    <3>1. d \in Destinations /\ Announcing(w, i)'
      BY <1>1 DEF Destinations, Announcing
    <3>2. recorded[d] <= sent[d] /\ (recorded[d] < sent[d] => me.step = "record" /\ me.dest = d)
      BY <3>1 DEF Told
    <3>3. QED BY <1>1, <2>1, <3>1, <3>2
  <2>2. CASE v # w
    BY <1>1, <1>2, <1>10, <2>2 DEF AlertInv, AlertsMatchIncidents, DeliveriesMatchPosts
  <2>3. CASE k # i /\ v = w
    BY <1>2, <2>3 DEF AlertInv, AlertsMatchIncidents, DeliveriesMatchPosts, Announcing
  <2>4. QED BY <2>1, <2>2, <2>3
<1>12. EveryIncidentAnnounced'
  <2> SUFFICES ASSUME crashes = 0, NEW k \in Ids, incidents[k].stored
               PROVE  \E v \in Workers : \/ Announcing(v, k)'
                                         \/ \A d \in Destinations : deliveries'[v][k][d] = 1
    BY DEF EveryIncidentAnnounced
  <2>1. PICK v \in Workers : \/ Announcing(v, k)
                             \/ \A d \in Destinations : deliveries[v][k][d] = 1
    BY DEF AlertInv, AlertsMatchIncidents, EveryIncidentAnnounced
  <2>2. CASE v = w /\ k = i
    BY <1>10, <2>2 DEF Announcing
  <2>3. CASE v # w \/ k # i
    BY <1>2, <1>10, <2>1, <2>3
  <2>4. QED BY <2>2, <2>3
<1>13. QED BY <1>5, <1>6, <1>9, <1>11, <1>12 DEF AlertInv, AlertsMatchIncidents

LEMMA KeepAlertInv ==
  TypeInv /\ ResolveInv /\ AlertInv /\ [IncidentsNext]_incidentVars => AlertInv'
<1> SUFFICES ASSUME TypeInv, ResolveInv, AlertInv, [IncidentsNext]_incidentVars PROVE AlertInv'
  OBVIOUS
<1> USE DEF TypeInv, IncidentsTypeOK, tables, alerts, people
<1>1. TypeInv' /\ crashes' \in Nat
  BY KeepTypeInv
<1>2. ASSUME NEW w \in Workers,
             \/ StartRun(w) \/ FailOnResolved(w) \/ FinishRun(w)
             \/ ListFindings(w) \/ ListIncidents(w)
      PROVE  AlertInv'
  <2>1. UNCHANGED <<posts, deliveries, crashes, incidents>>
    BY <1>2 DEF StartRun, FailOnResolved, FinishRun, ListFindings, ListIncidents
  <2>2. /\ worker[w].step \notin {"post", "record"}
        /\ \A v \in Workers : v # w => worker'[v] = worker[v]
    BY <1>2 DEF StartRun, FailOnResolved, FinishRun, ListFindings, ListIncidents
  <2>3. worker'[w].step \notin {"decide", "post", "record"}
    <3>1. CASE StartRun(w)
      BY <3>1 DEF StartRun, NoRun
    <3>2. CASE FailOnResolved(w) \/ FinishRun(w)
      BY <3>2, BlankRuns DEF FailOnResolved, FinishRun
    <3>3. CASE ListIncidents(w)
      BY <3>3 DEF ListIncidents, Run
    <3>4. CASE ListFindings(w)
      BY <3>4 DEF ListFindings, NoRun
    <3>5. QED BY <1>2, <3>1, <3>2, <3>3, <3>4
  <2>4. QED BY <1>1, <2>1, <2>2, <2>3, SilenceKeepsAlertInv
<1>3. ASSUME NEW w \in Workers, AbandonRun(w) PROVE AlertInv'
  <2>1. /\ UNCHANGED <<posts, deliveries, incidents>> /\ crashes' # 0
        /\ worker'[w] = NoRun /\ \A v \in Workers : v # w => worker'[v] = worker[v]
    BY <1>3 DEF AbandonRun
  <2>2. QED BY <1>1, <2>1, BlankRuns, SilenceKeepsAlertInv
<1>4. ASSUME NEW w \in Workers, NEW i \in Ids, GetIncident(w, i) PROVE AlertInv'
  <2>1. /\ UNCHANGED <<posts, deliveries, incidents, crashes>> /\ worker[w].step = "loop"
        /\ worker'[w].step = "decide" /\ worker'[w].id = i /\ worker'[w].prev = incidents[i]
        /\ \A v \in Workers : v # w => worker'[v] = worker[v]
    BY <1>4 DEF GetIncident, Run
  <2>2. QED BY <1>1, <2>1, SilenceKeepsAlertInv
<1>5. ASSUME NEW w \in Workers, NEW i \in Ids, ResolveStale(w, i) PROVE AlertInv'
  <2>1. /\ UNCHANGED <<posts, deliveries, crashes>> /\ worker[w].step = "loop"
        /\ worker'[w].step = "loop"
        /\ \A v \in Workers : v # w => worker'[v] = worker[v]
    BY <1>5 DEF ResolveStale, Run
  <2>2. \A k \in Ids : incidents'[k].stored = incidents[k].stored
    BY <1>5 DEF ResolveStale, Incident
  <2>3. QED BY <1>1, <2>1, <2>2, SilenceKeepsAlertInv
<1>6. ASSUME UNCHANGED <<posts, deliveries, crashes, worker>>,
             \A k \in Ids : incidents'[k].stored = incidents[k].stored
      PROVE  AlertInv'
  BY <1>1, <1>6, SilenceKeepsAlertInv
<1>7. ASSUME NEW i \in Ids, NEW row \in Incident, row.stored, EditIncident(i, row)
      PROVE  AlertInv'
  <2>1. \A k \in Ids : incidents'[k].stored = incidents[k].stored
    BY <1>7 DEF EditIncident, Incident
  <2>2. QED BY <1>6, <1>7, <2>1 DEF EditIncident
<1>8. CASE PeopleStep
  <2>1. PICK i \in Ids : \/ SetIncidentState(i) \/ AssignIncidentOwner(i) \/ SetIncidentNote(i)
                         \/ TriageFinding(i) \/ RegisterOwner(i)
    BY <1>8 DEF PeopleStep
  <2>2. CASE TriageFinding(i) \/ RegisterOwner(i)
    BY <1>6, <2>2 DEF TriageFinding, RegisterOwner
  <2>3. CASE \E row \in Incident : row.stored /\ EditIncident(i, row)
    BY <1>7, <2>3
  <2>4. QED BY <2>1, <2>2, <2>3, EditsWriteIncidents
<1>9. ASSUME NEW w \in Workers, NEW i \in Ids, RegisterFinding(w, i) PROVE AlertInv'
  BY <1>6, <1>9 DEF RegisterFinding
<1>10. CASE UNCHANGED incidentVars
  BY <1>6, <1>10 DEF incidentVars
<1>11. ASSUME NEW w \in Workers, UpdateIncident(w) PROVE AlertInv'
  <2>1. /\ worker' = [worker EXCEPT ![w] = BackToLoop(worker[w])]
        /\ UNCHANGED <<posts, deliveries, crashes>> /\ worker[w].step = "decide"
        /\ worker[w].prev.stored /\ worker[w].id \in Ids
    BY <1>11 DEF UpdateIncident, IdInHand
  <2>2. worker'[w].step = "loop" /\ \A v \in Workers : v # w => worker'[v] = worker[v]
    BY <2>1, BlankRuns
  <2> DEFINE row == Updated(worker[w].prev, worker[w].candidates[worker[w].id])
  <2>3. UNCHANGED incidents \/ incidents' = [incidents EXCEPT ![worker[w].id] = row]
    BY <1>11 DEF UpdateIncident
  <2>4. row.stored /\ incidents[worker[w].id].stored
    BY <2>1 DEF Updated, ResolveInv, ReadIsStored
  <2>0. incidents \in [Ids -> Incident] /\ worker[w].id \in Ids
    BY <2>1
  <2> HIDE DEF row, TypeInv
  <2>5. ASSUME NEW k \in Ids
        PROVE  /\ incidents[k].stored => incidents'[k].stored
               /\ incidents'[k].stored => incidents[k].stored
    <3>1. CASE k = worker[w].id
      BY <2>0, <2>3, <2>4, <3>1
    <3>2. CASE k # worker[w].id
      BY <2>0, <2>3, <3>2
    <3>3. QED BY <3>1, <3>2
  <2>6. UNCHANGED <<posts, deliveries>> /\ crashes' \in Nat /\ (crashes' = 0 => crashes = 0)
    BY <1>1, <2>1
  <2>7. QED BY <2>1, <2>2, <2>5, <2>6, SilenceKeepsAlertInv
<1>12. ASSUME NEW w \in Workers, NEW d \in Destinations, PostAlert(w, d) \/ RecordAlert(w, d)
       PROVE  AlertInv'
  <2> DEFINE i == worker[w].id
  <2>1. /\ worker[w].step \in {"post", "record"} /\ i \in Ids /\ UNCHANGED <<incidents, crashes>>
        /\ worker[w] \in Run
    BY <1>12 DEF PostAlert, RecordAlert, IdInHand
  <2>2. Told(worker[w], posts[w][i], deliveries[w][i])
    BY <2>1 DEF AlertInv, SentSoFar
  <2>3. posts[w][i] \in [Webhooks -> Nat] /\ deliveries[w][i] \in [Destinations -> Nat]
    BY <2>1
  <2>4. CASE PostAlert(w, d)
    <3> DEFINE me == [worker[w] EXCEPT !.step = "record", !.dest = d]
               sent == [posts[w][i] EXCEPT ![d] = @ + 1]
    <3>1. Told(me, sent, deliveries[w][i])
      BY <2>1, <2>2, <2>3, <2>4, PostTold DEF PostAlert
    <3>2. me.step = "record" /\ me.id = i
      BY <2>1 DEF Run
    <3>3. /\ worker' = [worker EXCEPT ![w] = me] /\ posts' = [posts EXCEPT ![w][i] = sent]
          /\ UNCHANGED deliveries
      BY <2>4 DEF PostAlert
    <3> HIDE DEF me, sent
    <3>4. /\ worker'[w] = me /\ posts'[w][i] = sent
          /\ \A v \in Workers : v # w => worker'[v] = worker[v]
      BY <2>1, <3>3
    <3>5. \A v \in Workers, k \in Ids : v # w \/ k # i => posts'[v][k] = posts[v][k]
      BY <2>1, <3>3
    <3>6. Told(worker'[w], posts'[w][i], deliveries'[w][i])
      BY <3>1, <3>3, <3>4
    <3>7. worker'[w].step \in {"post", "record"} /\ worker'[w].id = i
      BY <3>2, <3>4
    <3>8. \A v \in Workers, k \in Ids :
           v # w \/ k # i => posts'[v][k] = posts[v][k] /\ deliveries'[v][k] = deliveries[v][k]
      BY <3>3, <3>5
    <3>9. QED BY <2>1, <3>4, <3>6, <3>7, <3>8, TellingKeepsAlertInv
  <2>5. CASE RecordAlert(w, d)
    <3> DEFINE me == [worker[w] EXCEPT !.step = "post", !.dest = NoId, !.dests = @ \ {d}]
               recorded == [deliveries[w][i] EXCEPT ![d] = @ + 1]
    <3>1. Told(me, posts[w][i], recorded)
      BY <2>1, <2>2, <2>3, <2>5, RecordTold DEF RecordAlert
    <3>2. me.step = "post" /\ me.id = i
      BY <2>1 DEF Run
    <3>3. /\ worker' = [worker EXCEPT ![w] = me]
          /\ deliveries' = [deliveries EXCEPT ![w][i] = recorded]
          /\ UNCHANGED posts
      BY <2>5 DEF RecordAlert
    <3> HIDE DEF me, recorded
    <3>4. /\ worker'[w] = me /\ deliveries'[w][i] = recorded
          /\ \A v \in Workers : v # w => worker'[v] = worker[v]
      BY <2>1, <3>3
    <3>5. \A v \in Workers, k \in Ids : v # w \/ k # i => deliveries'[v][k] = deliveries[v][k]
      BY <2>1, <3>3
    <3>6. Told(worker'[w], posts'[w][i], deliveries'[w][i])
      BY <3>1, <3>3, <3>4
    <3>7. worker'[w].step \in {"post", "record"} /\ worker'[w].id = i
      BY <3>2, <3>4
    <3>8. \A v \in Workers, k \in Ids :
           v # w \/ k # i => posts'[v][k] = posts[v][k] /\ deliveries'[v][k] = deliveries[v][k]
      BY <3>3, <3>5
    <3>9. QED BY <2>1, <3>4, <3>6, <3>7, <3>8, TellingKeepsAlertInv
  <2>6. QED BY <1>12, <2>4, <2>5
<1>13. ASSUME NEW w \in Workers, AlertsDone(w) PROVE AlertInv'
  <2>1. /\ worker[w].step = "post" /\ worker[w].dests = {}
        /\ worker' = [worker EXCEPT ![w] = BackToLoop(worker[w])]
        /\ UNCHANGED <<posts, deliveries, crashes, incidents>>
    BY <1>13 DEF AlertsDone
  <2>2. \A d \in Destinations : deliveries[w][worker[w].id][d] = 1
    BY <2>1 DEF AlertInv, SentSoFar, Told
  <2>3. worker'[w].step = "loop" /\ \A v \in Workers : v # w => worker'[v] = worker[v]
    BY <2>1, BlankRuns
  <2>4. QED BY <1>1, <2>1, <2>2, <2>3, SilenceKeepsAlertInv
<1>14. QED
  BY <1>2, <1>3, <1>4, <1>5, <1>8, <1>9, <1>10, <1>11, <1>12, <1>13, CreateKeepsAlertInv
  DEF IncidentsNext, RunStep

-----------------------------------------------------------------------------
\* Tables, runs and histories keep their types, and a run that decides or announces
\* has an incident in hand.
THEOREM IncidentTypes == IncidentsSpec => []TypeInv
<1>1. IncidentsInit => TypeInv
  BY InitTypeInv
<1>2. TypeInv /\ [IncidentsNext]_incidentVars => TypeInv'
  BY KeepTypeInv
<1>3. QED BY <1>1, <1>2, PTL DEF IncidentsSpec

LEMMA AlwaysResolveInv == IncidentsSpec => []ResolveInv
<1>1. IncidentsInit => ResolveInv
  BY InitResolveInv
<1>2. TypeInv /\ ResolveInv /\ [IncidentsNext]_incidentVars => ResolveInv'
  BY KeepResolveInv
<1>3. QED BY <1>1, <1>2, IncidentTypes, PTL DEF IncidentsSpec

\* What a run closes as gone are findings that others registered since it listed
\* them: no finding ever goes.
THEOREM OnlyNewcomersAreClosed == IncidentsSpec => []RunsResolveOnlyNewcomers
<1>1. ResolveInv => RunsResolveOnlyNewcomers
  BY DEF ResolveInv
<1>2. QED BY <1>1, AlwaysResolveInv, PTL

\* What people did to an incident stands, unless a run had read or listed it before.
THEOREM EditsStand == IncidentsSpec => []UncontestedEditsHold
<1>1. IncidentsInit => WishInv
  BY InitWishInv
<1>2. TypeInv /\ WishInv /\ [IncidentsNext]_incidentVars => WishInv'
  BY KeepWishInv
<1>3. WishInv => UncontestedEditsHold
  BY DEF WishInv, RowsTellWishes, Tells, UncontestedEditsHold
<1>4. QED BY <1>1, <1>2, <1>3, IncidentTypes, PTL DEF IncidentsSpec

\* Requests, the rows that record them, and incidents tell one story: no worker
\* announces an incident twice to one destination, a request unrecorded is under way,
\* and unless a run died every incident is announced to all, or is being so.
THEOREM AlertsTellIncidents == IncidentsSpec => []AlertsMatchIncidents
<1>1. IncidentsInit => AlertInv
  BY InitAlertInv
<1>2. TypeInv /\ ResolveInv /\ AlertInv /\ [IncidentsNext]_incidentVars => AlertInv'
  BY KeepAlertInv
<1>3. AlertInv => AlertsMatchIncidents
  BY DEF AlertInv
<1>4. QED BY <1>1, <1>2, <1>3, IncidentTypes, AlwaysResolveInv, PTL DEF IncidentsSpec
=============================================================================
