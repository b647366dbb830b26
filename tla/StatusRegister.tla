--------------------------- MODULE StatusRegister ---------------------------
(***************************************************************************)
(* What the whole controller promises to a reader of PlatformMaps, whether *)
(* it is kubectl, the read API or the dashboard: an object changes by the  *)
(* user's requests, and its status by publications.  A publication happens *)
(* in one step, for the spec that is stored at that moment, and is the     *)
(* outcome of one discovery.  Nothing is said of managers, caches, queues, *)
(* retries or resource versions.                                           *)
(***************************************************************************)
EXTENDS PlatformMapObjects

VARIABLES
    shown,    \* the object of each name; its rv is not part of the promise
    created,  \* the number of objects created so far
    world     \* the version of each source's data

registerVars == <<shown, created, world>>

Init ==
    /\ shown = [k \in Maps |-> Absent]
    /\ created = 0
    /\ world = [s \in Sources |-> 1]

Create(k) ==
    /\ ~Exists(shown[k])
    /\ created < MaxBirths
    /\ created' = created + 1
    /\ \E auto \in BOOLEAN :
          shown' = [shown EXCEPT ![k] =
                       [Absent EXCEPT !.uid = created + 1, !.gen = 1, !.auto = auto]]
    /\ UNCHANGED world

EditSpec(k) ==
    /\ Exists(shown[k])
    /\ shown[k].gen < MaxGen
    /\ \E auto \in BOOLEAN :
          shown' = [shown EXCEPT ![k] = [shown[k] EXCEPT !.gen = shown[k].gen + 1,
                                                         !.auto = auto]]
    /\ UNCHANGED <<created, world>>

Delete(k) ==
    /\ Exists(shown[k])
    /\ shown' = [shown EXCEPT ![k] = Absent]
    /\ UNCHANGED <<created, world>>

WorldChanges(s) ==
    /\ world[s] < MaxVersion
    /\ world' = [world EXCEPT ![s] = @ + 1]
    /\ UNCHANGED <<shown, created>>

(* What a publication may say of a source that had an engine: it failed or *)
(* not, and shows nothing or data no older than what was shown, that the   *)
(* source had at some moment up to now.                                    *)
Reports(old, s) ==
    [health : {"ok", "failed"},
     ver    : {0} \cup {v \in 1..world[s] : v >= old.part[s]}]

(* The status one discovery by these engines yields.  A source without an  *)
(* engine is not shown and keeps its condition.                            *)
Publication(obj, enabled, report) ==
    [uid  |-> obj.uid,
     gen  |-> obj.gen,
     part |-> [s \in Sources |-> IF s \in enabled THEN report[s].ver ELSE 0],
     cond |-> [s \in Sources |->
                  IF s \in enabled
                  THEN [health |-> report[s].health, gen |-> obj.gen]
                  ELSE obj.status.cond[s]]]

Publish(k) ==
    /\ Exists(shown[k])
    /\ shown[k].auto
    /\ \E enabled \in SUBSET Sources :
          /\ Core \subseteq enabled
          /\ \E report \in [enabled -> UNION {Reports(shown[k].status, s) : s \in enabled}] :
                /\ \A s \in enabled : report[s] \in Reports(shown[k].status, s)
                /\ shown' = [shown EXCEPT ![k].status =
                                Publication(shown[k], enabled, report)]
    /\ UNCHANGED <<created, world>>

Next ==
    \/ \E k \in Maps : Create(k) \/ EditSpec(k) \/ Delete(k) \/ Publish(k)
    \/ \E s \in Sources : WorldChanges(s)

Spec == Init /\ [][Next]_registerVars
=============================================================================
