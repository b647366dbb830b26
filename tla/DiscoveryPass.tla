--------------------------- MODULE DiscoveryPass ---------------------------
(***************************************************************************)
(* What one discovery pass promises to Reconcile: each engine answers once *)
(* and stands by its answer, whatever the others do; when all of them have *)
(* answered, all that they said is published in one step.  Nothing is said *)
(* of calls, services, errors, timeouts, or the order of the engines.      *)
(***************************************************************************)
EXTENDS Topology

CONSTANTS
    Engines,  \* the engines the manager was started with
    Nothing   \* the status before the pass is over

VARIABLES
    answers,  \* of the engines that answered: [nodes, edges, ok]
    status

Init ==
    /\ answers = [e \in {} |-> {}]
    /\ status = Nothing

Answer(e) ==
    /\ e \in DOMAIN answers' \ DOMAIN answers
    /\ answers' = [x \in DOMAIN answers \cup {e} |->
                     IF x = e THEN answers'[e] ELSE answers[x]]
    /\ UNCHANGED status

(* Everything the engines said: where two speak of the same entity they    *)
(* agree.                                                                  *)
AllNodes == UNION {answers[e].nodes : e \in DOMAIN answers}

Publish ==
    /\ DOMAIN answers = Engines
    /\ status = Nothing
    /\ \A x, y \in AllNodes : x.id = y.id => Agree(x, y)
    /\ status' = [topology |-> United(AllNodes),
                  edges    |-> UNION {answers[e].edges : e \in DOMAIN answers},
                  detected |-> [e \in Engines |-> answers[e].ok]]
    /\ UNCHANGED answers

Next == Publish \/ \E e \in Engines : Answer(e)

Spec == Init /\ [][Next]_<<answers, status>>
=============================================================================
