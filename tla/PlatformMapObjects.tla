------------------------- MODULE PlatformMapObjects -------------------------
(***************************************************************************)
(* The PlatformMap custom resource as the API server stores it, and the    *)
(* status that one reconcile computes for it                               *)
(* (api/v1alpha1/platformmap_types.go, internal/graph,                     *)
(* internal/controller).                                                   *)
(*                                                                         *)
(* Of the spec only autoDiscover is kept: every other field selects what a *)
(* discovery source looks at, and is represented by the generation the API *)
(* server increments whenever the spec changes.  The topology is kept per  *)
(* discovery source: the version of that source's data in the cluster that *)
(* its nodes were built from, 0 when the source contributed no node.       *)
(***************************************************************************)
EXTENDS Naturals, FiniteSets

CONSTANTS
    Maps,              \* the names (namespace/name) of PlatformMaps
    Sources,           \* the discovery engines, DiscoveryResult.Source
    Core,              \* the engines no flag can disable (K8s)
    ResourceVersions,  \* metadata.resourceVersion: opaque tokens
    MaxBirths,         \* bound: PlatformMaps ever created
    MaxGen,            \* bound: metadata.generation
    MaxVersion         \* bound: versions of a source's data in the cluster

ASSUME CoreAssumption == Core \subseteq Sources /\ Core # {}
ASSUME BoundsAssumption ==
    /\ MaxBirths \in Nat \ {0}
    /\ MaxGen \in Nat \ {0}
    /\ MaxVersion \in Nat \ {0}
ASSUME ResourceVersionsAssumption == 0 \notin ResourceVersions

-----------------------------------------------------------------------------
(* A condition "<Source>Detected".  "canceled" is a False condition too,   *)
(* kept apart because the failure is the manager's own shutdown and says   *)
(* nothing of the source.                                                  *)
Conditions == [health : {"unset", "ok", "failed", "canceled"}, gen : 0..MaxGen]

Unset == [health |-> "unset", gen |-> 0]

(* status.topology and status.conditions.  uid and gen identify the object *)
(* and the generation that the pass which wrote the topology had read; uid *)
(* is 0 exactly while status.lastDiscoveryTime is unset.                   *)
Statuses == [uid  : 0..MaxBirths,
             gen  : 0..MaxGen,
             part : [Sources -> 0..MaxVersion],
             cond : [Sources -> Conditions]]

Blank == [uid  |-> 0,
          gen  |-> 0,
          part |-> [s \in Sources |-> 0],
          cond |-> [s \in Sources |-> Unset]]

(* A PlatformMap; uid and rv are metadata.uid and resourceVersion.         *)
Objects == [uid    : 0..MaxBirths,
            rv     : ResourceVersions \cup {0},
            gen    : 0..MaxGen,
            auto   : BOOLEAN,
            status : Statuses]

(* What a read of a name that has no object yields.                        *)
Absent == [uid |-> 0, rv |-> 0, gen |-> 0, auto |-> FALSE, status |-> Blank]

Exists(obj) == obj.uid # 0

-----------------------------------------------------------------------------
(* The result of one Discover call: its error, if any, and the version of  *)
(* the source's data in the nodes it returned.  "unencodable": no error,   *)
(* but a metric sample json.Marshal rejects (NaN).  "none": the engine is  *)
(* not registered; "pending": the call has not returned.                   *)
Results == [health : {"none", "pending", "ok", "unencodable", "failed", "canceled"},
            ver    : 0..MaxVersion]

(* The condition the controller derives from a result: any error makes it  *)
(* False, a result without an error True, with the generation that was     *)
(* read.                                                                   *)
DiscoveryCondition(res, generation) ==
    [health |-> IF res.health \in {"failed", "canceled"} THEN res.health ELSE "ok",
     gen    |-> generation]

(* Mutants: conditions rebuilt from scratch instead of upserted, and a     *)
(* topology merged into the previous one instead of rebuilt.               *)
ReconciledStatusFromScratch(obj, results) ==
    [uid  |-> obj.uid,
     gen  |-> obj.gen,
     part |-> [s \in Sources |-> results[s].ver],
     cond |-> [s \in {t \in Sources : results[t].health # "none"} |->
                  DiscoveryCondition(results[s], obj.gen)]]

ReconciledStatusCarriedOver(obj, results) ==
    [uid  |-> obj.uid,
     gen  |-> obj.gen,
     part |-> [s \in Sources |-> IF results[s].health = "none"
                                 THEN obj.status.part[s] ELSE results[s].ver],
     cond |-> [s \in Sources |->
                  IF results[s].health = "none"
                  THEN obj.status.cond[s]
                  ELSE DiscoveryCondition(results[s], obj.gen)]]

(* The status a pass over obj computes from its results.  The topology is  *)
(* rebuilt from this pass's results alone; a condition is upserted for     *)
(* every registered engine, and one of an engine that is not registered    *)
(* stays as it was read.                                                   *)
ReconciledStatus(obj, results) ==
    [uid  |-> obj.uid,
     gen  |-> obj.gen,
     part |-> [s \in Sources |-> results[s].ver],
     cond |-> [s \in Sources |->
                  IF results[s].health = "none"
                  THEN obj.status.cond[s]
                  ELSE DiscoveryCondition(results[s], obj.gen)]]
=============================================================================
