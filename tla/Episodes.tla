------------------------------ MODULE Episodes ------------------------------
(***************************************************************************)
(* Episodes: atlas-correlation groups the active findings of a transition  *)
(* by host and environment, atlas-episodes names and classes the groups.   *)
(*                                                                         *)
(* Everything here is computed from the reports of Drift, again and from   *)
(* the first snapshot at every run.  Scores, titles and texts are left out.*)
(***************************************************************************)
EXTENDS Drift

CONSTANT Base     \* base_resource: a URL without its scheme, all else as it is

\* build_affinity_key.
Affinity(f) == <<Base[f.resource], EnvironmentOf(policy, f.resource)>>

Environs(findings) == {EnvironmentOf(policy, f.resource) : f \in findings}
NamesOf(findings) == {f.category : f \in findings}

\* infer_kind: the first that applies.
KindOf(findings) ==
    IF "admin" \in Environs(findings) THEN "administrative_exposure"
    ELSE IF Environs(findings) \cap {"development", "staging", "test"} # {} THEN "nonproduction_leak"
    ELSE IF {"service_backend_changed", "service_fingerprint_changed"} \subseteq NamesOf(findings)
         THEN "infrastructure_shift"
    ELSE IF "service_became_available" \in NamesOf(findings) /\ Cardinality(findings) >= 2
         THEN "risky_deployment"
    ELSE IF \E f \in findings : f.state \in {"recurring", "persistent"} THEN "recurring_surface_change"
    ELSE IF Cardinality(findings) >= 2 THEN "service_expansion"
    ELSE "unknown_composite"

\* What build_cluster_id takes the hash of; transition k lies between the
\* timestamps k and k + 1.
ClusterId(k, findings) ==
    [resources |-> {f.resource : f \in findings}, categories |-> NamesOf(findings),
     started |-> k, kind |-> KindOf(findings)]

\* infer_episode_state.
EpisodeState(findings) ==
    IF \E f \in findings : f.state = "persistent" THEN "persistent"
    ELSE IF \E f \in findings : f.state = "recurring" THEN "recurring"
    ELSE "new"

Episode(k, findings) ==
    [id |-> ClusterId(k, findings), findings |-> findings, state |-> EpisodeState(findings),
     resources |-> {f.resource : f \in findings}, started |-> k, ended |-> k + 1]

\* correlate_report and build_episodes for one transition.
EpisodesOf(k) ==
    LET found == reports[k].active
    IN  {Episode(k, {f \in found : Affinity(f) = a}) : a \in {Affinity(f) : f \in found}}

\* build_episodes_for_timeline.
Episodes == UNION {EpisodesOf(k) : k \in DOMAIN reports}

(***************************************************************************)
(* Properties                                                              *)
(***************************************************************************)
\* Different episodes have different ids, which are the keys of their rows and
\* of their nodes, and a resource is in one episode of a transition at most.
EpisodesAreDistinct ==
    /\ \A d, e \in Episodes : d.id = e.id => d = e
    /\ \A k \in DOMAIN reports : \A d, e \in EpisodesOf(k) :
          d.resources \cap e.resources # {} => d = e

\* An episode is persistent if something in it has been active at least twice
\* before, recurring if something has been once, and new otherwise.
EpisodeStateTellsHistory ==
    \A k \in DOMAIN reports : \A e \in EpisodesOf(k) :
        LET Times(f) == Cardinality({j \in 1 .. k - 1 : \E g \in reports[j].active : Key(g) = Key(f)})
        IN  e.state = IF \E f \in e.findings : Times(f) >= 2 THEN "persistent"
                      ELSE IF \E f \in e.findings : Times(f) = 1 THEN "recurring"
                      ELSE "new"

\* The states and scores of findings and of episodes are those of the history
\* of the timeline, at any place in it.
StatesTellHistory == StateTellsHistory /\ ScoresGrowWithinBonus /\ EpisodeStateTellsHistory

\* What would be stored of a timeline tells what came, went and changed, and
\* no row of findings or episodes stands for two of them: keys within a
\* transition, and ids over the timeline, tell apart what is different.
RowsTellChanges ==
    /\ AppearsAfterGoing
    /\ SilenceMeansSame
    /\ KeysAreUnique
    /\ EpisodesAreDistinct
============================================================================
