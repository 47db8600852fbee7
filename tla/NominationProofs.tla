-------------------------- MODULE NominationProofs --------------------------
(***************************************************************************)
(* The safety properties of NominationProtocol, for every network, every   *)
(* table of quorum sets, every choice of valid values and any number of    *)
(* rounds and restarts, and those of QuorumEvaluation, the predicates that *)
(* nomination runs on.                                                     *)
(***************************************************************************)
EXTENDS NominationProtocol, QuorumEvaluation, LocalNodeProofs

(* What n votes for in a statement of another node is valid at n, and new. *)
LEMMA NewValuesValid ==
    ASSUME NEW n \in Node, NEW r, NEW votes, NEW st \in Statement
    PROVE  getNewValueFromNomination(n, r, votes, st) \in SUBSET Valid[n]
BY NominationAssumption DEF getNewValueFromNomination, NewValues, Statement

(* nominate takes values over from the leaders, keeps the votes it has and *)
(* votes for nothing it has not validated.                                 *)
LEMMA TakesValid ==
    ASSUME NEW n \in Node, NEW r, NEW leaders, NEW own \in SUBSET Valid[n],
           NEW M \in [Node -> Statement]
    PROVE  /\ own \subseteq takeFromLeaders(n, r, leaders, own, M)
           /\ takeFromLeaders(n, r, leaders, own, M) \in SUBSET Valid[n]
<1> DEFINE N == Len(NodeOrder)
           Dom == 0..N
           T == SUBSET Valid[n]
           More(votes, m) == IF m \in leaders
                             THEN votes \cup getNewValueFromNomination(n, r, votes, M[m])
                             ELSE votes
           Step == [k \in Dom |-> [g \in [Dom -> T] |->
                      IF k = 0 THEN own ELSE More(g[k - 1], NodeOrder[k])]]
           Eqn(h) == h = [k \in Dom |->
                            IF k = 0 THEN own ELSE More(h[k - 1], NodeOrder[k])]
           taken == CHOOSE h : Eqn(h)
<1>1. N \in Nat /\ Dom \in SUBSET Nat /\ 0 \in Dom /\ N \in Dom
  BY NominationAssumption, SeqElements
<1>2. \A k \in Dom : k # 0 => k - 1 \in Dom /\ k - 1 < k /\ NodeOrder[k] \in Node
  BY <1>1, NominationAssumption, SeqElements
<1>3. \A S \in T, m \in Node : More(S, m) \in T /\ S \subseteq More(S, m)
  BY NewValuesValid
<1>4. takeFromLeaders(n, r, leaders, own, M) = taken[N]
  BY DEF takeFromLeaders
<1> HIDE DEF Dom, N, More, T
<1>5. own \in T
  BY DEF T
<1>6. RecursiveStep(Step, Dom, T)
  <2>1. Step \in [Dom -> [[Dom -> T] -> T]]
    BY <1>2, <1>3, <1>5
  <2>2. DependsBelow(Step, Dom, T)
    BY <1>2 DEF DependsBelow
  <2> QED
    BY <2>1, <2>2 DEF RecursiveStep
<1>7. PICK g : Solves(g, Step, Dom, T)
  <2> HIDE DEF Step
  <2> QED
    BY <1>1, <1>5, <1>6, RecursionExists
<1>8. Eqn(g)
  BY <1>7 DEF Solves
<1>9. Eqn(taken)
  <2> HIDE DEF Eqn
  <2> QED
    BY <1>8
<1> HIDE DEF taken
<1>10. \A k \in Dom : taken[k] = IF k = 0 THEN own ELSE More(taken[k - 1], NodeOrder[k])
  BY Zenon, <1>9
<1> DEFINE Good == {k \in Nat : k \in Dom => own \subseteq taken[k] /\ taken[k] \in T}
<1>11. 0 \in Good
  BY <1>5, <1>10
<1>12. ASSUME NEW k \in Nat, k \in Good PROVE k + 1 \in Good
  <2> SUFFICES ASSUME k + 1 \in Dom
               PROVE  own \subseteq taken[k + 1] /\ taken[k + 1] \in T
    OBVIOUS
  <2>1. k \in Dom /\ k + 1 # 0 /\ (k + 1) - 1 = k
    BY <1>1 DEF Dom
  <2>2. taken[k + 1] = More(taken[k], NodeOrder[k + 1]) /\ NodeOrder[k + 1] \in Node
    BY <1>2, <1>10, <2>1
  <2>3. own \subseteq taken[k] /\ taken[k] \in T
    BY <1>12, <2>1
  <2> QED
    BY <1>3, <2>2, <2>3
<1>13. \A k \in Nat : k \in Good
  <2> HIDE DEF Good
  <2> QED
    BY <1>11, <1>12, SetInduction
<1> QED
  BY <1>1, <1>4, <1>13 DEF T

(* The nodes a quorum set names, at any depth, are nodes of the network.   *)
LEMMA QSetNodesAreNodes ==
    ASSUME NEW n \in Node
    PROVE  QSetNodes(n) \in SUBSET Node
<1> DEFINE T == SUBSET Node
           Union(g, q) == QSets[q].validators \cup UNION {g[i] : i \in QSets[q].innerSets}
           Step == [q \in QSetId |-> [g \in [QSetId -> T] |-> Union(g, q)]]
           Eqn(h) == h = [q \in QSetId |-> Union(h, q)]
           nodes == CHOOSE h : Eqn(h)
<1>1. QSetId \in SUBSET Nat /\ QSetOf[n] \in QSetId /\ {} \in T
  BY QSetAssumption
<1>2. \A q \in QSetId : \A i \in QSets[q].innerSets : i \in QSetId /\ i < q /\ q \in Nat /\ i \in Nat
  BY Zenon, QSetAssumption
<1>3. \A q \in QSetId : QSets[q].validators \in T
  BY QSetAssumption
<1>4. QSetNodes(n) = nodes[QSetOf[n]]
  BY DEF QSetNodes
<1>5. ASSUME NEW q \in QSetId, NEW g, \A i \in QSets[q].innerSets : g[i] \in T
      PROVE  Union(g, q) \in T
  BY <1>3, <1>5
<1>6. RecursiveStep(Step, QSetId, T)
  <2>1. Step \in [QSetId -> [[QSetId -> T] -> T]]
    <3> SUFFICES ASSUME NEW q \in QSetId, NEW g \in [QSetId -> T] PROVE Union(g, q) \in T
      OBVIOUS
    <3> QED
      BY <1>2, <1>5
  <2>2. DependsBelow(Step, QSetId, T)
    <3> SUFFICES ASSUME NEW q \in QSetId,
                        NEW a \in [QSetId -> T], NEW b \in [QSetId -> T],
                        \A i \in QSetId : i < q => a[i] = b[i]
                 PROVE  Union(a, q) = Union(b, q)
      BY DEF DependsBelow
    <3>1. {a[i] : i \in QSets[q].innerSets} = {b[i] : i \in QSets[q].innerSets}
      BY <1>2
    <3> QED
      BY <3>1
  <2> QED
    BY <2>1, <2>2 DEF RecursiveStep
<1>7. PICK g : Solves(g, Step, QSetId, T)
  <2> HIDE DEF Step, T
  <2> QED
    BY <1>1, <1>6, RecursionExists
<1>8. Eqn(g)
  <2> HIDE DEF Union
  <2> QED
    BY <1>7 DEF Solves
<1>9. Eqn(nodes)
  <2> HIDE DEF Eqn
  <2> QED
    BY <1>8
<1> HIDE DEF nodes
<1>10. \A q \in QSetId : nodes[q] = Union(nodes, q)
  <2> HIDE DEF Union
  <2> QED
    BY <1>9
<1> DEFINE Bad == {q \in QSetId : nodes[q] \notin T}
<1>11. CASE Bad # {}
  <2>1. PICK q \in Bad : \A k \in Bad : q <= k
    <3> HIDE DEF Bad
    <3> Bad \in SUBSET Nat
      BY Zenon, <1>1 DEF Bad
    <3> QED
      BY <1>11, LeastNatural
  <2>2. \A i \in QSets[q].innerSets : nodes[i] \in T
    BY <1>2, <2>1
  <2>3. Union(nodes, q) \in T
    <3> HIDE DEF Union
    <3> QED
      BY Zenon, <1>5, <2>1, <2>2
  <2> HIDE DEF Union
  <2> QED
    BY Zenon, <1>10, <2>1, <2>3
<1> QED
  BY <1>1, <1>4, <1>11

-----------------------------------------------------------------------------
(* The inductive invariant.  NoFault needs that the record of the node     *)
(* itself never runs ahead of its votes, and lags behind them while it     *)
(* emits; VotesValid needs the same of every set a statement is made from; *)
(* CompositeCurrent needs that, in the middle of an event, candidates that *)
(* the composite value misses are remembered in newCandidates.             *)

Own(s) == [votes |-> s.votes, accepted |-> s.accepted]

(* What a handler leaves behind, before the nested calls return. *)
Handled(n, s) ==
    /\ s \in NodeState
    /\ ~s.started /\ ~s.stopped => s.round = 0
    /\ ~s.fault
    /\ s.votes \subseteq Valid[n] /\ s.accepted \subseteq Valid[n]
    /\ s.last.votes \subseteq Valid[n] /\ s.last.accepted \subseteq Valid[n]
    /\ s.M[n].votes \subseteq s.votes /\ s.M[n].accepted \subseteq s.accepted
    /\ s.emitting => s.M[n] # Own(s)
    /\ s.newCandidates \/ s.composite = s.candidates

NodeInv(n, s) ==
    /\ Handled(n, s)
    /\ ~s.emitting => ~s.newCandidates

IInv ==
    /\ TypeOK
    /\ \A n \in Node : NodeInv(n, node[n])
    /\ VotesValid

(* A fresh object. *)
LEMMA InitNodeInv ==
    ASSUME NEW n \in Node
    PROVE  NodeInv(n, InitNode)
<1>1. NoStatement \in Statement /\ NoStatement.votes = {} /\ NoStatement.accepted = {}
  BY DEF Statement, NoStatement
<1>2. [m \in Node |-> NoStatement] \in [Node -> Statement] /\ 0 \in 0..MaxRounds
  BY <1>1, NominationAssumption
<1> HIDE DEF NoStatement
<1>3. InitNode \in NodeState
  BY Zenon, <1>1, <1>2 DEF InitNode, NodeState
<1> QED
  BY <1>1, <1>3 DEF NodeInv, Handled, InitNode

(* The calls return, and the candidates are combined. *)
LEMMA UnwindInv ==
    ASSUME NEW n \in Node, NEW s, Handled(n, s)
    PROVE  NodeInv(n, Unwind(s))
BY Zenon DEF NodeInv, Handled, Unwind, NodeState, Own

(* promote accepts and votes for valid values only, and keeps what there   *)
(* was.                                                                    *)
LEMMA PromoteValid ==
    ASSUME NEW n \in Node, NEW t \in NodeState, NEW st \in Statement,
           t.votes \subseteq Valid[n], t.accepted \subseteq Valid[n]
    PROVE  LET u == promote(n, t, st)
           IN  /\ \E votes, accepted \in SUBSET Valid[n] :
                     /\ u = [t EXCEPT !.votes = votes, !.accepted = accepted]
                     /\ t.votes \subseteq votes /\ t.accepted \subseteq accepted
<1> DEFINE supported == {v \in st.votes \ t.accepted :
                           federatedAccept(n, voters(t, v), accepters(t, v), {})}
           valid == supported \cap Valid[n]
           variations == {Extracted[n][v] : v \in supported \ valid} \ {NoValue}
           votes == t.votes \cup valid \cup variations
           accepted == t.accepted \cup valid
<1>1. promote(n, t, st) = [t EXCEPT !.votes = votes, !.accepted = accepted]
  <2> HIDE DEF supported
  <2>1. promote(n, t, st) = [t EXCEPT !.accepted = accepted, !.votes = votes]
    BY DEF promote, supported
  <2> QED
    BY Zenon, <2>1 DEF NodeState
<1>2. supported \in SUBSET Value
  BY DEF Statement
<1>3. valid \in SUBSET Valid[n]
  OBVIOUS
<1>4. variations \in SUBSET Valid[n]
  <2> HIDE DEF supported
  <2> QED
    BY <1>2, NominationAssumption
<1>5. votes \in SUBSET Valid[n] /\ accepted \in SUBSET Valid[n]
  <2> HIDE DEF valid, variations
  <2> QED
    BY <1>3, <1>4
<1>6. t.votes \subseteq votes /\ t.accepted \subseteq accepted
  OBVIOUS
<1> HIDE DEF votes, accepted
<1> QED
  BY Zenon, <1>1, <1>5, <1>6

(* processEnvelope, of a statement of another node or of the statement the *)
(* node is about to emit.                                                  *)
LEMMA ProcessHandled ==
    ASSUME NEW n \in Node, NEW m \in Node, NEW s, Handled(n, s),
           NEW st \in Statement, m = n => st = Own(s)
    PROVE  Handled(n, processEnvelope(n, s, m, st))
<1> DEFINE r == [s EXCEPT !.M[m] = st]
           w == processEnvelope(n, s, m, st)
<1>1. s \in NodeState /\ s.M \in [Node -> Statement]
  BY DEF Handled, NodeState
<1>2. /\ r \in NodeState
      /\ r.M[n].votes \subseteq r.votes /\ r.M[n].accepted \subseteq r.accepted
      /\ r.votes \subseteq Valid[n] /\ r.accepted \subseteq Valid[n]
  <2>1. r \in NodeState
    BY <1>1 DEF NodeState
  <2>2. r.M[n] = IF m = n THEN st ELSE s.M[n]
    BY <1>1 DEF NodeState
  <2>3. r.votes = s.votes /\ r.accepted = s.accepted
    BY <1>1 DEF NodeState
  <2> QED
    BY <2>1, <2>2, <2>3 DEF Handled, Own
<1>3. CASE ~r.started
  <2>1. w = [r EXCEPT !.emitting = FALSE]
    BY <1>3 DEF processEnvelope
  <2> HIDE DEF w
  <2>2. /\ r.started = s.started /\ r.stopped = s.stopped /\ r.round = s.round
        /\ r.fault = s.fault /\ r.last = s.last
        /\ r.newCandidates = s.newCandidates
        /\ r.composite = s.composite /\ r.candidates = s.candidates
    BY <1>1 DEF NodeState
  <2> HIDE DEF r
  <2>3. /\ w \in NodeState /\ w.emitting = FALSE
        /\ w.started = s.started /\ w.stopped = s.stopped /\ w.round = s.round
        /\ w.fault = s.fault /\ w.last = s.last
        /\ w.newCandidates = s.newCandidates
        /\ w.composite = s.composite /\ w.candidates = s.candidates
        /\ w.votes = r.votes /\ w.accepted = r.accepted /\ w.M = r.M
    BY ZenonT(30), <1>2, <2>1, <2>2 DEF NodeState
  <2>4. Handled(n, w)
    BY <1>2, <2>3 DEF Handled
  <2> QED
    BY <2>4 DEF w
<1>4. CASE r.started
  <2>1. PICK votes \in SUBSET Valid[n], accepted \in SUBSET Valid[n] :
          /\ promote(n, r, st) = [r EXCEPT !.votes = votes, !.accepted = accepted]
          /\ r.votes \subseteq votes /\ r.accepted \subseteq accepted
    <3> HIDE DEF r
    <3> QED
      BY ZenonT(60), <1>2, PromoteValid
  <2> DEFINE u == promote(n, r, st)
             t == ratify(n, u, st)
             found == {v \in u.accepted : federatedRatify(n, accepters(u, v), {})}
             new == IF t.candidates = {} /\ m \in t.leaders
                    THEN getNewValueFromNomination(n, t.round, t.votes, st) ELSE {}
  <2>2. w = afterProcess(r, [t EXCEPT !.votes = @ \cup new])
    BY <1>4 DEF processEnvelope
  <2>3. new \in SUBSET Valid[n]
    BY NewValuesValid
  <2>4. t = [u EXCEPT !.candidates = @ \cup found]
    BY DEF ratify
  <2>5. found \in SUBSET accepted
    BY Zenon, <1>2, <2>1 DEF NodeState
  <2> HIDE DEF found, new, t, w
  <2>6. Valid[n] \in SUBSET Value
    BY NominationAssumption
  <2>7. /\ t \in NodeState
        /\ t.votes = votes /\ t.accepted = accepted
        /\ t.M = r.M /\ t.started = TRUE /\ t.fault = s.fault /\ t.last = s.last
        /\ t.newCandidates = s.newCandidates /\ t.composite = s.composite
        /\ t.candidates = s.candidates \cup found
    <3>1. /\ r.started = s.started /\ r.fault = s.fault /\ r.last = s.last
          /\ r.newCandidates = s.newCandidates
          /\ r.composite = s.composite /\ r.candidates = s.candidates
      BY <1>1 DEF NodeState
    <3> HIDE DEF r
    <3>2. r.candidates \cup found \in SUBSET Value
      BY <1>2, <2>5, <2>6 DEF NodeState
    <3>3. votes \in SUBSET Value /\ accepted \in SUBSET Value
      BY <2>6
    <3>4. t = [r EXCEPT !.votes = votes, !.accepted = accepted,
                        !.candidates = r.candidates \cup found]
      BY <1>2, <2>1, <2>4 DEF NodeState
    <3>5. t \in NodeState
      BY ZenonT(30), <1>2, <3>2, <3>3, <3>4 DEF NodeState
    <3> QED
      BY <1>2, <1>4, <3>1, <3>4, <3>5 DEF NodeState
  <2>8. r.candidates = s.candidates
    BY <1>1 DEF NodeState
  <2> HIDE DEF r, u
  <2> DEFINE x == [t EXCEPT !.votes = @ \cup new]
  <2>9. /\ x \in NodeState
        /\ x.votes = votes \cup new /\ x.accepted = accepted
        /\ x.M = r.M /\ x.started = TRUE /\ x.fault = s.fault /\ x.last = s.last
        /\ x.newCandidates = s.newCandidates /\ x.composite = s.composite
        /\ x.candidates = s.candidates \cup found
    BY <2>3, <2>6, <2>7 DEF NodeState
  <2>10. w = [x EXCEPT !.emitting = x.votes # r.votes \/ x.accepted # r.accepted,
                       !.newCandidates = @ \/ x.candidates # r.candidates]
    BY <2>2 DEF afterProcess
  <2> HIDE DEF x
  <2>11. /\ w \in NodeState
         /\ w.votes = votes \cup new /\ w.accepted = accepted
         /\ w.M = r.M /\ w.started = TRUE /\ w.fault = s.fault /\ w.last = s.last
         /\ w.newCandidates = (s.newCandidates \/ w.candidates # s.candidates)
         /\ w.composite = s.composite
         /\ w.emitting = (w.votes # r.votes \/ w.accepted # r.accepted)
    BY ZenonT(30), <2>8, <2>9, <2>10 DEF NodeState
  <2>12. w.emitting => w.M[n] # Own(w)
    <3> SUFFICES ASSUME w.M[n] = Own(w)
                 PROVE  w.votes = r.votes /\ w.accepted = r.accepted
      BY Zenon, <2>11
    <3>1. w.votes \subseteq r.votes /\ w.accepted \subseteq r.accepted
      BY <1>2, <2>11 DEF Own
    <3>2. r.votes \subseteq w.votes /\ r.accepted \subseteq w.accepted
      BY <2>1, <2>11
    <3> QED
      BY Zenon, <3>1, <3>2
  <2>13. w.M[n].votes \subseteq w.votes /\ w.M[n].accepted \subseteq w.accepted
    BY <1>2, <2>1, <2>11
  <2>14. w.newCandidates \/ w.composite = w.candidates
    BY Zenon, <2>11 DEF Handled
  <2> QED
    BY <2>3, <2>11, <2>12, <2>13, <2>14 DEF Handled, w
<1> QED
  BY <1>2, <1>3, <1>4 DEF NodeState

(* nominate, at the start and when the timer fires. *)
LEMMA NominateHandled ==
    ASSUME NEW n \in Node, NEW s, Handled(n, s), s.round < MaxRounds
    PROVE  Handled(n, nominate(n, s))
<1> DEFINE r == s.round + 1
           leaders == s.leaders \cup updateRoundLeaders(n, r)
           own == s.votes \cup (IF n \in leaders THEN {Proposal[n]} ELSE {})
           votes == takeFromLeaders(n, r, leaders, own, s.M)
           w == nominate(n, s)
<1>1. s \in NodeState /\ s.M \in [Node -> Statement]
  BY DEF Handled, NodeState
<1>2. r \in 0..MaxRounds
  BY <1>1, NominationAssumption DEF NodeState
<1>3. leaders \in SUBSET Node
  BY <1>1, QSetNodesAreNodes DEF updateRoundLeaders, NodeState
<1>4. own \in SUBSET Valid[n] /\ s.votes \subseteq own
  BY NominationAssumption DEF Handled
<1>5. votes \in SUBSET Valid[n] /\ s.votes \subseteq votes
  <2> HIDE DEF own, leaders, r
  <2> QED
    BY <1>1, <1>4, TakesValid
<1>6. votes \in SUBSET Value
  BY Zenon, <1>5, NominationAssumption
<1>7. w = [s EXCEPT !.started = TRUE, !.round = r, !.leaders = leaders,
                    !.votes = votes, !.timer = TRUE, !.emitting = votes # s.votes]
  BY DEF nominate
<1> HIDE DEF r, leaders, votes, w
<1>8. /\ w \in NodeState /\ w.started = TRUE
      /\ w.votes = votes /\ w.emitting = (votes # s.votes)
      /\ w.fault = s.fault /\ w.last = s.last /\ w.M = s.M /\ w.accepted = s.accepted
      /\ w.newCandidates = s.newCandidates
      /\ w.composite = s.composite /\ w.candidates = s.candidates
  BY Zenon, <1>1, <1>2, <1>3, <1>6, <1>7 DEF NodeState
<1>9. w.emitting => w.M[n] # Own(w)
  <2> SUFFICES ASSUME w.M[n] = Own(w) PROVE votes = s.votes
    BY Zenon, <1>8
  <2>1. votes \subseteq s.votes
    BY <1>8 DEF Own, Handled
  <2> QED
    BY Zenon, <1>5, <2>1
<1>10. Handled(n, w)
  BY <1>5, <1>8, <1>9 DEF Handled
<1> QED
  BY <1>10 DEF w

(* The timer of a node that has stopped, and stopNomination. *)
LEMMA TimerOffHandled ==
    ASSUME NEW n \in Node, NEW s, Handled(n, s)
    PROVE  Handled(n, [s EXCEPT !.timer = FALSE])
<1> DEFINE w == [s EXCEPT !.timer = FALSE]
<1>1. s \in NodeState
  BY DEF Handled
<1>2. /\ w \in NodeState
      /\ w.started = s.started /\ w.stopped = s.stopped /\ w.round = s.round
      /\ w.last = s.last /\ w.fault = s.fault /\ w.votes = s.votes
      /\ w.accepted = s.accepted /\ w.M = s.M /\ w.emitting = s.emitting
      /\ w.newCandidates = s.newCandidates
      /\ w.composite = s.composite /\ w.candidates = s.candidates
  BY Zenon, <1>1 DEF NodeState
<1> HIDE DEF w
<1>3. Handled(n, w)
  BY <1>2 DEF Handled, Own
<1> QED
  BY <1>3 DEF w

LEMMA StoppedInv ==
    ASSUME NEW n \in Node, NEW s, NodeInv(n, s)
    PROVE  NodeInv(n, [s EXCEPT !.started = FALSE, !.stopped = TRUE])
<1> DEFINE w == [s EXCEPT !.started = FALSE, !.stopped = TRUE]
<1>1. s \in NodeState
  BY DEF NodeInv, Handled
<1>2. /\ w \in NodeState /\ w.stopped = TRUE
      /\ w.last = s.last /\ w.fault = s.fault /\ w.votes = s.votes
      /\ w.accepted = s.accepted /\ w.M = s.M /\ w.emitting = s.emitting
      /\ w.newCandidates = s.newCandidates
      /\ w.composite = s.composite /\ w.candidates = s.candidates
  BY Zenon, <1>1 DEF NodeState
<1> HIDE DEF w
<1>3. NodeInv(n, w)
  BY <1>2 DEF NodeInv, Handled, Own
<1> QED
  BY <1>3 DEF w

-----------------------------------------------------------------------------
(* A step that changes one object only. *)
LEMMA OneNodeChanges ==
    ASSUME IInv, NEW n \in Node, NEW s, NodeInv(n, s),
           node' = [node EXCEPT ![n] = s]
    PROVE  /\ node' \in [Node -> NodeState]
           /\ \A k \in Node : NodeInv(k, node'[k])
BY DEF IInv, TypeOK, NodeInv, Handled

(* A handler that leaves what was sent alone. *)
LEMMA HandlerKeepsInv ==
    ASSUME IInv, NEW n \in Node, NEW s, NodeInv(n, s),
           node' = [node EXCEPT ![n] = s], sent' = sent, restarts' \in 0..MaxRestarts
    PROVE  IInv'
BY ZenonT(30), OneNodeChanges DEF IInv, TypeOK, VotesValid

LEMMA AdvanceNodeInv ==
    ASSUME IInv, NEW n \in Node, AdvanceNode(n)
    PROVE  IInv'
<1> DEFINE s == node[n]
           st == Own(s)
           t == processEnvelope(n, s, n, st)
           emits == ~t.emitting /\ isNewerStatement(s.last, st)
           u == IF emits THEN [t EXCEPT !.last = st] ELSE t
<1>1. Handled(n, s) /\ s \in NodeState /\ s.emitting
  BY DEF IInv, NodeInv, Handled, AdvanceNode
<1>2. st \in Statement /\ st.votes \subseteq Valid[n] /\ st.accepted \subseteq Valid[n]
  BY <1>1 DEF Own, Handled, NodeState, Statement
<1>3. isNewerStatement(s.M[n], st)
  BY <1>1 DEF Handled, isNewerStatement, Own
<1>4. isSane(st)
  <2> SUFFICES ASSUME st = NoStatement PROVE s.M[n] = st
    BY <1>1 DEF isSane, Handled
  <2>1. s.M[n] \in Statement
    BY <1>1 DEF NodeState
  <2>2. st.votes = {} /\ st.accepted = {}
    BY DEF NoStatement
  <2>3. s.M[n].votes = {} /\ s.M[n].accepted = {}
    BY <1>3, <2>2 DEF isNewerStatement
  <2> QED
    BY Zenon, <2>1, <2>3 DEF Statement, NoStatement
<1>5. /\ node' = [node EXCEPT ![n] = Unwind(u)]
      /\ sent' = [sent EXCEPT ![n] = IF emits THEN @ \cup {st} ELSE @]
      /\ restarts' = restarts
  BY Zenon, <1>3, <1>4 DEF AdvanceNode, Set, Own
<1>6. Handled(n, t)
  BY <1>1, <1>2, ProcessHandled
<1>7. Handled(n, u)
  <2> HIDE DEF t, st, s
  <2>1. t \in NodeState
    BY <1>6 DEF Handled
  <2> DEFINE v == [t EXCEPT !.last = st]
  <2>2. /\ v \in NodeState /\ v.last = st
        /\ v.started = t.started /\ v.stopped = t.stopped /\ v.round = t.round
        /\ v.fault = t.fault /\ v.votes = t.votes /\ v.accepted = t.accepted
        /\ v.M = t.M /\ v.emitting = t.emitting /\ v.newCandidates = t.newCandidates
        /\ v.composite = t.composite /\ v.candidates = t.candidates
    BY <1>2, <2>1 DEF NodeState
  <2> HIDE DEF v
  <2>3. Handled(n, v)
    BY <1>2, <1>6, <2>2 DEF Handled, Own
  <2> QED
    BY <1>6, <2>3 DEF v
<1>8. NodeInv(n, Unwind(u))
  <2> HIDE DEF u
  <2> QED
    BY <1>7, UnwindInv
<1> HIDE DEF u, emits, t, s, st
<1>9. node' \in [Node -> NodeState] /\ \A k \in Node : NodeInv(k, node'[k])
  BY ZenonT(30), <1>5, <1>8, OneNodeChanges
<1>10. sent' \in [Node -> SUBSET Statement] /\ VotesValid'
  <2>1. sent \in [Node -> SUBSET Statement] /\ VotesValid
    BY DEF IInv, TypeOK
  <2> QED
    BY <1>2, <1>5, <2>1 DEF VotesValid
<1> QED
  BY <1>5, <1>9, <1>10 DEF IInv, TypeOK

(* Every step keeps the invariant. *)
LEMMA NextInv == IInv /\ [Next]_vars => IInv'
<1> SUFFICES ASSUME IInv, [Next]_vars PROVE IInv'
  OBVIOUS
<1>1. CASE UNCHANGED vars
  BY <1>1 DEF vars, IInv, TypeOK, VotesValid
<1>2. ASSUME NEW n \in Node, AdvanceNode(n) PROVE IInv'
  BY <1>2, AdvanceNodeInv
<1>3. \A n \in Node : Handled(n, node[n]) /\ node[n] \in NodeState
  BY DEF IInv, NodeInv, Handled
<1>4. restarts \in 0..MaxRestarts
  BY DEF IInv, TypeOK
<1>5. ASSUME NEW n \in Node, Nominate(n) PROVE IInv'
  <2>1. node[n].round < MaxRounds
    BY <1>3, <1>5, NominationAssumption DEF Nominate, Handled
  <2>2. NodeInv(n, Unwind(nominate(n, node[n])))
    BY <1>3, <2>1, NominateHandled, UnwindInv
  <2> QED
    BY Zenon, <1>4, <1>5, <2>2, HandlerKeepsInv DEF Nominate, Set
<1>6. ASSUME NEW n \in Node, NominationTimerExpired(n) PROVE IInv'
  <2> DEFINE s == IF node[n].started THEN nominate(n, node[n])
                  ELSE [node[n] EXCEPT !.timer = FALSE]
  <2>1. Handled(n, [node[n] EXCEPT !.timer = FALSE])
    BY <1>3, TimerOffHandled
  <2>3. Handled(n, s)
    BY <1>3, <1>6, <2>1, NominateHandled DEF NominationTimerExpired
  <2> HIDE DEF s
  <2>4. NodeInv(n, Unwind(s))
    BY <2>3, UnwindInv
  <2> QED
    BY Zenon, <1>4, <1>6, <2>4, HandlerKeepsInv DEF NominationTimerExpired, Set, s
<1>7. ASSUME NEW n \in Node, NEW m \in Node \ {n}, NEW st \in sent[m],
             ReceiveEnvelope(n, m, st)
      PROVE  IInv'
  <2>1. st \in Statement
    BY DEF IInv, TypeOK
  <2>2. NodeInv(n, Unwind(processEnvelope(n, node[n], m, st)))
    BY <1>3, <2>1, ProcessHandled, UnwindInv
  <2> QED
    BY Zenon, <1>4, <1>7, <2>2, HandlerKeepsInv DEF ReceiveEnvelope, Set
<1>8. ASSUME NEW n \in Node, StopNomination(n) PROVE IInv'
  <2> DEFINE s == [node[n] EXCEPT !.started = FALSE, !.stopped = TRUE]
  <2>1. NodeInv(n, s)
    BY Zenon, StoppedInv DEF IInv
  <2>2. node' = [node EXCEPT ![n] = s]
    BY <1>8 DEF StopNomination, IInv, TypeOK, NodeState
  <2> HIDE DEF s
  <2> QED
    BY Zenon, <1>4, <1>8, <2>1, <2>2, HandlerKeepsInv DEF StopNomination
<1>9. ASSUME NEW n \in Node, Restart(n) PROVE IInv'
  <2> DEFINE s == setStateFromEnvelope(n, node[n].last)
  <2>1. node[n].last \in Statement
    BY <1>3 DEF NodeState
  <2>2. NodeInv(n, s)
    <3>1. InitNode \in NodeState
      BY InitNodeInv DEF NodeInv, Handled
    <3>2. /\ s \in NodeState
          /\ s.M[n] = node[n].last /\ s.last = node[n].last
          /\ s.votes = node[n].last.votes /\ s.accepted = node[n].last.accepted
          /\ s.round = 0 /\ s.fault = FALSE /\ s.emitting = FALSE
          /\ s.newCandidates = FALSE /\ s.composite = {} /\ s.candidates = {}
      BY ZenonT(30), <2>1, <3>1 DEF setStateFromEnvelope, InitNode, NodeState, Statement
    <3> HIDE DEF s
    <3> QED
      BY <1>3, <3>2 DEF NodeInv, Handled
  <2>3. node' = [node EXCEPT ![n] = s] /\ sent' = sent /\ restarts' \in 0..MaxRestarts
    BY <1>4, <1>9, NominationAssumption DEF Restart
  <2> HIDE DEF s
  <2> QED
    BY Zenon, <2>2, <2>3, HandlerKeepsInv
<1> QED
  BY <1>1, <1>2, <1>5, <1>6, <1>7, <1>8, <1>9 DEF Next

LEMMA InvariantHolds == Spec => []IInv
<1>1. Init => IInv
  <2> SUFFICES ASSUME Init PROVE IInv
    OBVIOUS
  <2>1. \A n \in Node : NodeInv(n, node[n])
    BY InitNodeInv DEF Init
  <2>2. \A n \in Node : node[n] \in NodeState
    BY <2>1 DEF NodeInv, Handled
  <2> QED
    BY <2>1, <2>2, NominationAssumption DEF Init, IInv, TypeOK, VotesValid
<1> QED
  BY <1>1, NextInv, PTL DEF Spec

(* The objects and the statements in flight have their types; in           *)
(* particular the round never exceeds the number of rounds allowed.        *)
THEOREM TypeCorrect == Spec => []TypeOK
<1>1. IInv => TypeOK
  BY DEF IInv
<1> QED
  BY <1>1, InvariantHolds, PTL

(* emitNomination never throws "moved to a bad state (nomination)".        *)
THEOREM NeverBadState == Spec => []NoFault
<1>1. IInv => NoFault
  BY DEF IInv, NodeInv, Handled, NoFault
<1> QED
  BY <1>1, InvariantHolds, PTL

(* A node hands to the overlay only statements whose values it validated   *)
(* itself, whatever the other nodes support.                               *)
THEOREM OnlyValidValues == Spec => []VotesValid
<1>1. IInv => VotesValid
  BY DEF IInv
<1> QED
  BY <1>1, InvariantHolds, PTL

(* However deep the emissions nest, combineCandidates has been given all   *)
(* the candidates when an event is over.                                   *)
THEOREM CompositeIsCurrent == Spec => []CompositeCurrent
<1>1. IInv => CompositeCurrent
  BY DEF IInv, NodeInv, Handled, CompositeCurrent, Idle
<1> QED
  BY <1>1, InvariantHolds, PTL

-----------------------------------------------------------------------------
(* The quorum predicates themselves, which nomination and the ballots both *)
(* run on: the properties of QuorumEvaluation.                             *)

FilterTypeOK == pNodes \in SUBSET Node /\ decided \in SUBSET Node

(* The statements that pass the filter are the statements of nodes. *)
LEMMA FilterTypeCorrect == FilterSpec => []FilterTypeOK
<1>1. FilterInit => FilterTypeOK
  BY DEF FilterInit, FilterTypeOK
<1>2. FilterTypeOK /\ [FilterNext]_filterVars => FilterTypeOK'
  BY DEF FilterTypeOK, FilterNext, Passes, Externalizes, filterVars
<1> QED
  BY <1>1, <1>2, PTL DEF FilterSpec

(* LocalNode::isQuorum, which drops nodes until a pass drops nobody, finds *)
(* a quorum exactly when there is one, whatever the nesting.               *)
THEOREM QuorumFound == FilterSpec => []QuorumIsGreatestFixpoint
<1>1. FilterTypeOK => QuorumIsGreatestFixpoint
  BY QuorumMeaning DEF FilterTypeOK, QuorumIsGreatestFixpoint
<1> QED
  BY <1>1, FilterTypeCorrect, PTL

(* LocalNode::isVBlockingInternal, which counts entries, is exactly the    *)
(* predicate "meets every slice".                                          *)
THEOREM BlockingMeetsSlices == FilterSpec => []VBlockingMeetsSlices
<1>1. ASSUME FilterTypeOK, NEW q \in QSetId
      PROVE  isVBlocking(q, pNodes)
               <=> \A S \in SUBSET Node :
                      isQuorumSlice(q, S) => S \cap pNodes # {}
  <2> pNodes \in SUBSET Node
    BY <1>1 DEF FilterTypeOK
  <2>1. isVBlocking(q, pNodes) <=> ~isQuorumSlice(q, Node \ pNodes)
    BY SliceRelation, BlockingIsDual
  <2>2. ASSUME NEW S \in SUBSET Node, isQuorumSlice(q, S), S \cap pNodes = {}
        PROVE  isQuorumSlice(q, Node \ pNodes)
    <3>1. S \subseteq Node \ pNodes
      BY <2>2
    <3> QED
      BY <2>2, <3>1, SliceRelation, SliceMonotone
  <2>3. Node \ pNodes \in SUBSET Node /\ (Node \ pNodes) \cap pNodes = {}
    OBVIOUS
  <2> QED
    BY <2>1, <2>2, <2>3
<1>2. FilterTypeOK => VBlockingMeetsSlices
  BY <1>1 DEF VBlockingMeetsSlices
<1> QED
  BY <1>2, FilterTypeCorrect, PTL

(* Statements that only get stronger never take a quorum away: what        *)
(* federatedRatify confirmed once stays confirmed.                         *)
THEOREM QuorumPersists == FilterSpec => QuorumStays
<1>1. ASSUME FilterTypeOK, FilterTypeOK', [FilterNext]_filterVars, NEW q \in QSetId,
             isQuorum(q, pNodes, decided)
      PROVE  isQuorum(q, pNodes', decided')
  <2>1. pNodes \subseteq pNodes' /\ decided \subseteq decided'
    BY <1>1 DEF FilterNext, Passes, Externalizes, filterVars
  <2> QED
    BY <1>1, <2>1, QuorumMonotone DEF FilterTypeOK
<1>2. FilterTypeOK /\ FilterTypeOK' /\ [FilterNext]_filterVars
        => [\A q \in QSetId : isQuorum(q, pNodes, decided)
                                => isQuorum(q, pNodes', decided')]_filterVars
  BY <1>1
<1> QED
  BY <1>2, FilterTypeCorrect, PTL DEF FilterSpec, QuorumStays
=============================================================================
