-------------------------- MODULE QuorumEvaluation --------------------------
(***************************************************************************)
(* The quorum predicates of LocalNode against their definitions, as        *)
(* statements come in: pNodes are the nodes whose latest statement passes  *)
(* the filter of a federated vote, decided those of them whose statement   *)
(* is an EXTERNALIZE.                                                      *)
(***************************************************************************)
EXTENDS LocalNode

VARIABLES pNodes, decided

FilterInit == pNodes = {} /\ decided = {}

(* The latest statement of m comes to pass the filter (recordEnvelope). *)
Passes(m) ==
    /\ m \notin pNodes
    /\ pNodes' = pNodes \cup {m}
    /\ UNCHANGED decided

Externalizes(m) ==
    /\ m \notin decided
    /\ pNodes' = pNodes \cup {m}
    /\ decided' = decided \cup {m}

FilterNext == \E m \in Node : Passes(m) \/ Externalizes(m)

filterVars == <<pNodes, decided>>
FilterSpec == FilterInit /\ [][FilterNext]_filterVars

(* A quorum is a set of nodes that contains a slice of the local node and  *)
(* one of each of its members; isQuorum finds whether there is one among   *)
(* pNodes, by dropping nodes until nothing changes.                        *)
QuorumIsGreatestFixpoint ==
    \A q \in QSetId :
        isQuorum(q, pNodes, decided)
          <=> \E U \in SUBSET pNodes :
                 /\ isQuorumSlice(q, U)
                 /\ \A m \in U \ decided : isQuorumSlice(QSetOf[m], U)

(* A v-blocking set is one that meets every slice; isVBlockingInternal     *)
(* counts entries instead.                                                 *)
VBlockingMeetsSlices ==
    \A q \in QSetId :
        isVBlocking(q, pNodes)
          <=> \A S \in SUBSET Node : isQuorumSlice(q, S) => S \cap pNodes # {}

(* Statements that only get stronger never take a quorum away: what        *)
(* federatedRatify has confirmed, and mHeardFromQuorum, stay true.         *)
QuorumStays ==
    [][\A q \in QSetId : isQuorum(q, pNodes, decided)
                           => isQuorum(q, pNodes', decided')]_filterVars
=============================================================================
