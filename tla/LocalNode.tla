----------------------------- MODULE LocalNode -----------------------------
(***************************************************************************)
(* Quorum-set evaluation: src/src/scp/LocalNode.cpp and the federated      *)
(* voting rules of src/src/scp/Slot.cpp.                                   *)
(*                                                                         *)
(* A quorum set is an entry of the table QSets, named by a number (the     *)
(* code names it by its hash).  Its inner sets are named by smaller        *)
(* numbers, so evaluation is a recursive function over the table.          *)
(***************************************************************************)
EXTENDS Nodes, Naturals, FiniteSets

CONSTANTS
    QSets,     \* number -> [threshold, validators, innerSets]
    QSetOf     \* the quorum set each node declares in its statements

QSetId == DOMAIN QSets

(* isQuorumSetSane, restricted to what the evaluation depends on: every    *)
(* threshold is between 1 and the number of entries (checkSanity).         *)
ASSUME QSetAssumption ==
    /\ IsFiniteSet(Node)
    /\ QSetId \subseteq Nat
    /\ QSetOf \in [Node -> QSetId]
    /\ \A q \in QSetId :
          /\ QSets[q].validators \subseteq Node
          /\ QSets[q].innerSets \subseteq {i \in QSetId : i < q}
          /\ QSets[q].threshold \in 1..(Cardinality(QSets[q].validators)
                                          + Cardinality(QSets[q].innerSets))

(* LocalNode::isQuorumSliceInternal: at least threshold entries of the     *)
(* quorum set are in nodeSet or are inner sets so satisfied.               *)
isQuorumSliceInternal(qset, nodeSet) ==
    LET sat[q \in QSetId] ==
            Cardinality(QSets[q].validators \cap nodeSet)
              + Cardinality({i \in QSets[q].innerSets : sat[i]})
            >= QSets[q].threshold
    IN  sat[qset]

(* Slip: blocked already when exactly threshold entries remain. *)
isVBlockingOneShort(qset, nodeSet) ==
    LET blocked[q \in QSetId] ==
            Cardinality(QSets[q].validators \cap nodeSet)
              + Cardinality({i \in QSets[q].innerSets : blocked[i]})
              + QSets[q].threshold
            >= Cardinality(QSets[q].validators) + Cardinality(QSets[q].innerSets)
    IN  blocked[qset]

(* LocalNode::isVBlockingInternal: so many entries are blocked that fewer  *)
(* than threshold remain.                                                  *)
isVBlockingInternal(qset, nodeSet) ==
    LET blocked[q \in QSetId] ==
            Cardinality(QSets[q].validators \cap nodeSet)
              + Cardinality({i \in QSets[q].innerSets : blocked[i]})
              + QSets[q].threshold
            > Cardinality(QSets[q].validators) + Cardinality(QSets[q].innerSets)
    IN  blocked[qset]

(* The two predicates as relations, which TLC computes once. *)
QuorumSlices ==
    {r \in QSetId \X (SUBSET Node) : isQuorumSliceInternal(r[1], r[2])}
VBlocking ==
    {r \in QSetId \X (SUBSET Node) : isVBlockingInternal(r[1], r[2])}

isQuorumSlice(qset, nodeSet) == <<qset, nodeSet>> \in QuorumSlices
isVBlocking(qset, nodeSet) == <<qset, nodeSet>> \in VBlocking

(* Slips: the sender of an EXTERNALIZE is not exempt; one pass only. *)
remainingNodesDropsExternalized(pNodes, externalized) ==
    {m \in pNodes \ externalized : isQuorumSlice(QSetOf[m], pNodes \ externalized)}
remainingNodesOnePass(pNodes, externalized) ==
    {m \in pNodes : m \in externalized \/ isQuorumSlice(QSetOf[m], pNodes)}

(* LocalNode::isQuorum: repeatedly drop the nodes whose own quorum set is  *)
(* not satisfied by the remaining ones, then ask whether the local quorum  *)
(* set is.  pNodes are the nodes whose statement passed the filter; the    *)
(* statement of a node in externalized carries the singleton quorum set of *)
(* its sender (Slot::getQuorumSetFromStatement).  The loop stops when a    *)
(* pass drops nobody, which happens within |Node| passes.                  *)
remainingNodes(pNodes, externalized) ==
    LET pass[k \in 0..Cardinality(Node)] ==
            IF k = 0
            THEN pNodes
            ELSE LET before == pass[k - 1]
                 IN  {m \in before : m \in externalized
                                       \/ isQuorumSlice(QSetOf[m], before)}
    IN  pass[Cardinality(Node)]

Quorums ==
    {r \in QSetId \X (SUBSET Node) \X (SUBSET Node) :
       isQuorumSlice(r[1], remainingNodes(r[2], r[3]))}

isQuorum(qset, pNodes, externalized) == <<qset, pNodes, externalized>> \in Quorums

(* Slot::federatedAccept for node n: the nodes that accepted form a        *)
(* v-blocking set, or those that accepted or voted form a quorum.          *)
federatedAccept(n, voted, accepted, externalized) ==
    \/ isVBlocking(QSetOf[n], accepted)
    \/ isQuorum(QSetOf[n], voted \cup accepted, externalized)

(* Slot::federatedRatify for node n. *)
federatedRatify(n, voted, externalized) ==
    isQuorum(QSetOf[n], voted, externalized)
=============================================================================
