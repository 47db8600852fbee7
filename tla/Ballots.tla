------------------------------ MODULE Ballots ------------------------------
(***************************************************************************)
(* Ballots and ballot-protocol statements: their order, their sanity rules *)
(* and what a statement says about a ballot.  These are the static helpers *)
(* of src/src/scp/BallotProtocol.cpp.                                      *)
(*                                                                         *)
(* A value is a positive number, ordered as the code orders opaque values; *)
(* 0 is the empty value.  A null ballot pointer and the default SCPBallot  *)
(* are both NoBallot, which is below every ballot.                         *)
(***************************************************************************)
EXTENDS Integers

CONSTANTS
    Value,          \* the values nomination may produce
    UINT32_MAX      \* the largest ballot counter

ASSUME BallotAssumption ==
    /\ Value \subseteq Nat \ {0}
    /\ UINT32_MAX \in Nat \ {0}

Counter == 0..UINT32_MAX
Ballot == [n : Counter, x : Value \cup {0}]
NoBallot == [n |-> 0, x |-> 0]
MakeBallot(counter, value) == [n |-> counter, x |-> value]

(* compareBallots(b1, b2) < 0: ballots are ordered by counter, then value. *)
Less(b1, b2) == b1.n < b2.n \/ (b1.n = b2.n /\ b1.x < b2.x)
LessEq(b1, b2) == b1 = b2 \/ Less(b1, b2)

areBallotsCompatible(b1, b2) == b1.x = b2.x
areBallotsLessAndIncompatible(b1, b2) == b1.x # b2.x /\ Less(b1, b2)
areBallotsLessAndCompatible(b1, b2) == b1.x = b2.x /\ b1.n <= b2.n

-----------------------------------------------------------------------------
(* Statements.  One record shape serves the three pledges:                 *)
(*   PREPARE      b, p, pp, nC, nH                                         *)
(*   CONFIRM      b, nP (nPrepared), nC (nCommit), nH                      *)
(*   EXTERNALIZE  b (commit), nH                                           *)
(* NoStatement stands for a node that has no entry in mLatestEnvelopes.    *)

StatementType == {"NONE", "PREPARE", "CONFIRM", "EXTERNALIZE"}

Statement == [type : StatementType, b : Ballot, p : Ballot, pp : Ballot,
              nP : Counter, nC : Counter, nH : Counter]

NoStatement == [type |-> "NONE", b |-> NoBallot, p |-> NoBallot,
                pp |-> NoBallot, nP |-> 0, nC |-> 0, nH |-> 0]

Prepare(b, p, pp, nC, nH) ==
    [NoStatement EXCEPT !.type = "PREPARE", !.b = b, !.p = p, !.pp = pp,
                        !.nC = nC, !.nH = nH]
Confirm(b, nP, nC, nH) ==
    [NoStatement EXCEPT !.type = "CONFIRM", !.b = b, !.nP = nP,
                        !.nC = nC, !.nH = nH]
Externalize(c, nH) ==
    [NoStatement EXCEPT !.type = "EXTERNALIZE", !.b = c, !.nH = nH]

typeOrder(t) ==
    CASE t = "NONE" -> 0 [] t = "PREPARE" -> 1
      [] t = "CONFIRM" -> 2 [] t = "EXTERNALIZE" -> 3

(* The total order on the statements of one node: (b, p, p', h) within     *)
(* PREPARE, (b, nPrepared, nH) within CONFIRM; nC does not take part, and  *)
(* an EXTERNALIZE is never superseded.                                     *)
isNewerStatement(oldst, st) ==
    \/ typeOrder(oldst.type) < typeOrder(st.type)
    \/ /\ oldst.type = st.type
       /\ st.type \in {"PREPARE", "CONFIRM"}
       /\ \/ Less(oldst.b, st.b)
          \/ /\ oldst.b = st.b
             /\ \/ Less(oldst.p, st.p)
                \/ oldst.p = st.p /\ Less(oldst.pp, st.pp)
                \/ /\ oldst.p = st.p /\ oldst.pp = st.pp
                   /\ \/ oldst.nP < st.nP
                      \/ oldst.nP = st.nP /\ oldst.nH < st.nH

isStatementSane(st, self) ==
    \/ /\ st.type = "PREPARE"
       /\ self \/ st.b.n > 0
       /\ \/ st.pp = NoBallot \/ st.p = NoBallot
          \/ areBallotsLessAndIncompatible(st.pp, st.p)
       /\ st.nH = 0 \/ (st.p # NoBallot /\ st.nH <= st.p.n)
       /\ st.nC = 0 \/ (st.nH # 0 /\ st.b.n >= st.nH /\ st.nH >= st.nC)
    \/ /\ st.type = "CONFIRM"
       /\ st.b.n > 0 /\ st.nH <= st.b.n /\ st.nC <= st.nH
    \/ /\ st.type = "EXTERNALIZE"
       /\ st.b.n > 0 /\ st.nH >= st.b.n

-----------------------------------------------------------------------------
(* What a statement votes for and accepts. *)

votesPrepare(ballot, st) ==
    \/ st.type = "PREPARE" /\ areBallotsLessAndCompatible(ballot, st.b)
    \/ /\ st.type \in {"CONFIRM", "EXTERNALIZE"}
       /\ areBallotsCompatible(ballot, st.b)

hasPreparedBallot(ballot, st) ==
    \/ /\ st.type = "PREPARE"
       /\ \/ st.p # NoBallot /\ areBallotsLessAndCompatible(ballot, st.p)
          \/ st.pp # NoBallot /\ areBallotsLessAndCompatible(ballot, st.pp)
    \/ /\ st.type = "CONFIRM"
       /\ areBallotsLessAndCompatible(ballot, MakeBallot(st.nP, st.b.x))
    \/ st.type = "EXTERNALIZE" /\ areBallotsCompatible(ballot, st.b)

votesCommit(value, low, high, st) ==
    /\ st.b.x = value
    /\ \/ st.type = "PREPARE" /\ st.nC # 0 /\ st.nC <= low /\ high <= st.nH
       \/ st.type = "CONFIRM" /\ st.nC <= low
       \/ st.type = "EXTERNALIZE" /\ st.b.n <= low

(* Slip: an EXTERNALIZE does not count as having accepted the commit. *)
commitPredicateConfirmOnly(value, low, high, st) ==
    st.b.x = value /\ st.type = "CONFIRM" /\ st.nC <= low /\ high <= st.nH

commitPredicate(value, low, high, st) ==
    /\ st.b.x = value
    /\ \/ st.type = "CONFIRM" /\ st.nC <= low /\ high <= st.nH
       \/ st.type = "EXTERNALIZE" /\ st.b.n <= low

statementBallotCounter(st) ==
    IF st.type = "EXTERNALIZE" THEN UINT32_MAX ELSE st.b.n

(* b for PREPARE, (nCommit, value) for CONFIRM, c for EXTERNALIZE. *)
getWorkingBallot(st) ==
    IF st.type = "CONFIRM" THEN MakeBallot(st.nC, st.b.x) ELSE st.b

getStatementValues(st) ==
    {b.x : b \in {st.b, st.p, st.pp}} \ {0}
=============================================================================
