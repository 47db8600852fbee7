# Verification of a ThiumCore node

This directory holds TLA+ models of the node in `src/`, the TLC runs that check
them on small instances, and proofs checked by TLAPS. Every module names the
source file it translates; `PROJECT.json` maps each definition to its lines.
Paths below are relative to `src/src/`.

## The system

A node of the network is one process. Almost everything runs on one main thread
that takes events from a queue (messages of peers, timers, results of background
work), so an event handler is atomic with respect to other handlers of the same
process; nested calls inside a handler, background threads (bucket merges, quorum
analysis, child processes) and other nodes are what interleaves.

| Part | Source | State | Operations | Talks to |
|---|---|---|---|---|
| Quorum evaluation | `scp/LocalNode.cpp` | none (pure) | isQuorumSlice, isVBlocking, isQuorum | the two protocols |
| Nomination | `scp/NominationProtocol.cpp` | votes, accepted, candidates, leaders, latest statements | nominate, processEnvelope, stopNomination, setStateFromEnvelope | herder (values), ballot protocol |
| Ballot protocol | `scp/BallotProtocol.cpp` | phase, b, p, p', h, c, latest statements, timer | bumpState, processEnvelope, advanceSlot, timer, setStateFromEnvelope | nomination, herder, peers |
| Slot, SCP | `scp/Slot.cpp`, `scp/SCP.cpp` | slots, fully-validated flag | dispatch, purge | herder |
| SCP driver | `herder/HerderSCPDriver.cpp` | timers, tracking state | validateValue, combineCandidates, valueExternalized | ledger manager |
| Herder | `herder/HerderImpl.cpp` | tracking slot, persisted SCP state | recvSCPEnvelope, triggerNextLedger, ledgerClosed | everything |
| Pending envelopes | `herder/PendingEnvelopes.cpp` | per slot: fetching, ready, processed, discarded | recvSCPEnvelope, recvTxSet, recvSCPQuorumSet, pop | item fetcher |
| Item fetcher | `overlay/ItemFetcher.cpp`, `overlay/Tracker.cpp` | trackers, peers asked, timer | fetch, stopFetch, doesntHave, recv | peers |
| Transaction queue | `herder/TransactionQueue.cpp` | per account transactions, bans, fees, sizes | tryAdd, removeApplied, shift, ban | herder |
| Flooding | `overlay/Floodgate.cpp` | flood records | addRecord, broadcast, clearBelow | peers |
| Ledger manager, catchup | `ledger/`, `catchup/` | last closed ledger, buffered ledgers, catchup work | valueExternalized, processLedger, startCatchup | herder, works |
| Works | `work/` | a tree of state machines | crankWork, shutdown, retry, wakeUp | the clock |
| History | `history/`, `historywork/` | publish queue | queueCurrentHistory, publish | buckets, processes |
| Buckets | `bucket/` | levels, merges in progress | addBatch, prepare, commit, garbage collection | worker threads |
| Processes | `process/` | pending and running children | runProcess, tryProcessShutdown | operating system |
| Transactions | `transactions/`, `ledger/LedgerTxn.cpp` | ledger entries | apply of each operation | ledger manager |

What must hold: no two nodes externalize different values for a slot; a node
never contradicts a vote to commit it has made public, not even across a restart;
assertions of the code never fail; a slot that one node decided is decided by the
others; queues and caches keep their books; work that was started finishes.

What makes it hard: peers are anywhere in the protocol at once, envelopes are
lost, delayed and reordered, timers race with late answers, handlers re-enter
themselves (`advanceSlot` up to 50 levels deep, `emitNomination` inside
`processEnvelope`, externalizing inside receiving a transaction set), a process
stops between two events and resumes from one saved envelope.

## Modules and how they correspond to the code

### Consensus

**Nodes** declares the set of nodes that both views of consensus share.
**LocalNode** translates `isQuorumSliceInternal`, `isVBlockingInternal`,
`isQuorum` and the two federated voting tests of `Slot`. A quorum set is a record
(threshold, validators, inner sets) in a table `QSets`. An EXTERNALIZE statement
counts with the singleton quorum set of its node (`getQuorumSetFromStatement`).
**QuorumEvaluation** compares these algorithms with their definitions: the result
of the removal loop is the greatest fixpoint, a v-blocking set meets every slice.
Its state is a node's view of one question: who was heard, and who has decided.

**Ballots** has ballots, statements, their order (`isNewerStatement`), the sanity
rules and what each statement votes for or accepts.

**BallotNode** is one `BallotProtocol` object as a record and its methods as
functions from state to state. `advanceSlot` calls itself through
`emitCurrentStateStatement`; the model keeps a stack of activations (the hint
statement and the next of the five attempts), so that every nested call happens
where it happens in the code, and the depth limit `MAX_ADVANCE_SLOT_RECURSION` is
kept. `mLastEnvelope` is set before instead of after the nested call, which is
equivalent because only `sendLatestEnvelope`, at the end of the outermost call,
reads it. A null ballot and a default ballot are both `NoBallot`.

**BallotProtocol** composes the nodes of a network for one slot. Actions: one
step of an `advanceSlot` in progress, a new composite value from nomination
(`bumpState`), an envelope of a peer (any statement that the peer ever sent, so
loss, delay, duplication and reordering are covered), the ballot timer, a
restart from the last envelope (persisted before it is broadcast). Events of other
nodes wait while one node is inside a handler; a handler's intermediate states are
not visible to other processes, so nothing is lost.

**FederatedBallot** is the abstract specification: votes, accepts and confirms of
prepare and commit as sets, with ill-behaved nodes that say anything.
**BallotRefinement** maps BallotProtocol to it, restarts included: TLC checks the
refinement on an instance, TLAPS proves it.

**NominationProtocol** is nomination for one slot: rounds and leaders, votes taken
over from leaders, promotion and ratification, nested emission, timer,
`stopNomination` and restart. Priorities and value hashes are constants. The
composite value is the set that `combineCandidates` was given.

### Herder

**EnvelopeFetching** is how a node in sync holds envelopes back until it has
their quorum set and transaction sets: `PendingEnvelopes`, `ItemFetcher` and
`Tracker`, with the parts of `HerderImpl` that call them (`recvSCPEnvelope`,
`processSCPQueue`, `valueExternalized`, `ledgerClosed`). One event runs at a time,
but loops nest: receiving an item delivers envelopes, SCP may externalize, which
starts slots and delivers more. `stack` holds the loops in progress and each
iteration is a step. Clean-up is posted to the main loop as in
`ItemFetcher::stopFetchingBelow`. Peers answer, refuse or say nothing; the order
in which they are asked is arbitrary. The capacity of the caches and the back-off
times are left out.

**TxSet** has trimming, validity and surge pricing of `TxSetFrame` from protocol
11 on, and `checkValid` of a transaction and of a fee bump: the kind of envelope the
protocol takes, the sequence number, what the fee source can pay, and one answer of
the outside for signatures and time bounds. **TransactionQueue** has every operation of the queue and the two places
where the herder uses it: `updateTransactionQueue` when a ledger closes and the
first half of `triggerNextLedger`. Submitted transactions, the transactions of a
closed ledger (which the queue need not have seen), balances and the limit of the
ledger header are inputs. At most one transaction becomes invalid by itself
between two proposals. Order by hash, `sortForApply` and the base fee are left
out. The upgrade to protocol 13 lifts every ban (`maybeVersionUpgraded` empties the
list), so that a transaction banned before it can be added again at once under its
new hash, while `TransactionQueue.h:45-47` says that banned transactions cannot for
`banDepth` ledgers. The model does what the code does, and NothingDead speaks of the
bans the queue knows of.

### Works and processes

**ProcessManager** is the POSIX process manager: queue, start, termination and
`tryProcessShutdown`. **WorkTree** is the work framework with every transition of
`BasicWork`, `Work`, `WorkSequence`, `BatchWork`, `ConditionalWork` and
`WorkScheduler`, driving the tree of a replay: scheduler → batch of checkpoints →
per checkpoint a sequence of get-and-unzip (two commands) and application, which
waits for the checkpoint before it and, ledger by ledger, for bucket merges; next
to it a command of another work. An operator that stands for a method takes the
record of the application and returns the new one, so nested calls are calls.
`ans` is what the outside answers during a crank: good, a failure, "merges not
done", or, in `work_throws`, an exception from `closeLedger`. It passes through two
works that stay running and is caught by the third. A work that is scheduled while the
scheduler aborts makes `addWorkWithCallback` throw; nobody catches it and the process
ends (`threw`), which WorksEnd and ShutdownCompletes except. Nothing is scheduled once
the scheduler is ABORTED.

Not part of it: the wait for the publish queue (`waitForPublish` is false), the
final `ProcessManagerImpl::shutdown` and the destructor (after the scheduler is
ABORTED), Windows. The order of posted handlers is relaxed: any may run next. A
cancelled `VirtualTimer` calls its handler at once. All spawns of one step fail or
none does. The entry of `mKillable` goes when its command is reset.

### Ledgers, buckets and history

Five modules, each extending the one before, share one record `node`.

* **Buckets**: a bucket is its protocol version and the set of ledgers whose
  changes it holds; the schedule of levels and the closed forms of
  `sizeOfCurr`, `sizeOfSnap` and the `oldestLedgerIn` functions. Every ledger
  changes entries of its own, so that merging is union: entries with equal keys,
  and with them what shadows hide, are left out.
* **BucketManager**: `FutureBucket` with its five states, merges on worker
  threads shared by key, adoption, and the three ways in which files are
  collected (after a close, when stopping, when assuming a state).
* **BucketList**: `prepare`, `commit`, `snap`, `addBatch`, `restartMerges`, and
  what a HistoryArchiveState stores.
* **HistoryManager**: the publish queue, the count of buckets it references,
  `prepareForPublish`, the works of a publication and `historyPublished`.
* **LedgerManager**: the actions. `closeLedger` is three steps (sealing the ledger
  into the open transaction and queueing the checkpoint; commit; publishing and
  collection), so that the process can die between any two. Merges end, futures
  become ready, a snapshot is resolved and written, files are put, the state file
  goes to its two places in either order, a put fails, the maintainer deletes old
  rows, a node at the genesis ledger catches up from the buckets of any published
  state in three steps, the process crashes, is stopped, starts, or gets a new
  database.

The database is one transaction at a time. A merge that ends is adopted and its
future becomes ready in one step: the worker holds the output in between. The
outputs of finished merges that are kept for the publish queue are slightly
over-approximated, since which of two equal inputs is seen first depends on hashes.
Genesis is at protocol 11 (as with `USE_CONFIG_FOR_GENESIS`), so buckets without a
META entry, and merges with empty results, do not occur. There is one archive,
initialised with an empty state. The rows that `ApplyBucketsWork` writes are not
modelled; `HistoryExact` checks the ledger ranges its deletion relies on.

## Runs

| Run | Checks | Shows |
|---|---|---|
| `ballot` | NoFault, CommitAgreement, CommitVotesKept, TimerJustified, EmitsNewer, HeardStays, ImplementsFederated | two quorums pulling one node to different values, a timeout and a restart anywhere, envelopes lost, late and repeated |
| `ballot_spread` | SentValidated, ExternalizeSpreads, UnanimityDecides | under fairness one decision becomes everyone's, also for a node that cannot validate the value and whose timer fires |
| `federated` | IInv, Agreement, QuorumIsGreatestFixpoint, VBlockingMeetsSlices, QuorumStays | five nodes with nested quorum sets, two of them ill-behaved: the inductive invariant of the proof and agreement; the quorum algorithms compute their definitions, and a quorum stays one as nodes externalize |
| `nomination` | NoFault, VotesValid, CompositeCurrent, CandidatesSpread, CandidateFound | leaders and validity differ between nodes, one restarts, one stops |
| `fetch` | TrackerOutlivesLoop, DeliveredOnce, NothingLeftBehind, StillAsked, FetchCompletes | envelopes, answers, refusals, timers, own proposals, closing slots and clean-up in any order |
| `queue` | NoFault, Consecutive, NothingDead, BooksExact, WithinLimits, ProposalValid, SurgeFills | two accounts, replacement and fee bumps across accounts, foreign ledgers, upgrade |
| `work` | NoFault, CommandsAccounted, AppliedInOrder, WorksEnd, ShutdownCompletes | failures and a shutdown anywhere in a replay, as long as `closeLedger` does not throw |
| `ledger` | NoFault, HistoryExact, CheckpointsPublished | crashes, stops, failed publications, a new database and catchup from buckets, across an upgrade |
| `ballot_high`, `ballot_restart_timeout`, `fetch_shared`, `work_throws` | one property each | the code disagrees with its own assertions and comments (below) |

The type invariants of the consensus, fetching and queue modules hold on the same
instances.

### Bounds

* Consensus: networks have two to four nodes, and five for abstract voting,
  where quorum sets nest and the removal of nodes takes several rounds. Three in a chain of two-node quorums
  is the smallest network in which two quorums meet in one node, which is where a
  decision can go wrong. A timeout takes the middle node one counter up, so that a
  node can be behind, abandon a ballot and be overtaken; `ballot_high` has two.
  Two values give every conflict of ballots (statements only compare values);
  nomination uses three. One restart lets a node resume in every reachable state.
  Two rounds of nomination: one with disagreeing leaders, one that settles.
* Fetching: four envelopes of two slots, a window of one slot, one peer, one
  refusal; the slots close three times, so the window passes every envelope.
* Queue: five transactions, of which two are fee bumps paid by the other account;
  sequence numbers up to 2, expiry and bans after two ledgers, set limits of 1 and 2
  operations (a queue of 2 or 4), so that each limit is met and passed.
* Works: two checkpoints of two ledgers, one retry, two unfavourable answers;
  either two processes, or one for which another command competes. So no command
  is pending while an abort frees one of several slots: that takes two processes and
  two other commands, 23.5 million states with one failure and a shutdown anywhere. On
  these the three invariants hold; the liveness properties were not tried there.
* Ledgers: three levels, checkpoints every 4 ledgers (the code has 64, or 8 in
  tests), 8 ledgers, the upgrade to protocol 12 between the checkpoints, two quiet
  ledgers that make equal buckets, one trouble (crash, stop, failed put) for each
  of two databases. The two invariants also hold in these variants: checkpoints every
  8 over 17 ledgers without troubles, the upgrade at ledger 1, at 3 with 12 ledgers,
  or never.

Deadlock is not an error where a bound ends the behaviour: a slot that has been
externalized, a replay that is over, the last ledger.

### Fairness

* Consensus: a handler that began finishes; an armed nomination timer fires; the
  herder triggers the slot; the newest envelope of a node is not undelivered for
  ever, because the herder rebroadcasts it (`HerderImpl::rebroadcast`). Stated as
  `[]<>` over the enabling conditions. The ballot timer is not assumed to fire.
* Fetching: the main loop becomes idle again, a request is answered or given up,
  an armed timer fires.
* Works: weak fairness of the crank while it is scheduled (the clock's loop), of
  process exits, exit handlers and timers. Failures and the shutdown are not fair.
* Ledgers: while the node owes a step (a ledger to close, a merge to end, a step of
  a publication, a start) some such step is taken. Each brings a bounded count
  forward, so fairness of their disjunction is enough. `beat` flips with these
  steps and keeps the condition cheap to evaluate. Troubles are not fair.

## What TLC found

* `ballot_high`: `bumpToBallot` clears `mHighBallot` but not `mCommit` when it
  moves to an incompatible ballot; `checkInvariants` then fails.
* `ballot_restart_timeout`: `mValueOverride` is not restored, so a restarted node
  with a vote to commit may not abandon its ballot when its timer expires, and does
  not arm the timer again.
* `fetch_shared`: `stopFetch` leaves a cancelled tracker behind; another envelope
  that needs the same transaction set only listens to it, and nobody asks.
* `work_throws`: when `closeLedger` throws, `ApplyCheckpointWork` fails and its reset
  destroys a `ConditionalWork` that is still running; the assertion in the destructor
  of `BasicWork` stops the process.
* Nomination: a node that starts late, after the others have said everything,
  depends on its timer to find a candidate (CandidatesSpread needs the second
  round).
* Works: `tryProcessShutdown` frees a process slot without starting a pending
  command. In the instances it does no harm, as WorksEnd shows: the exit that leads to
  an abort drains the queue. With two processes and two other commands CommandsAccounted, which
  holds there too, is the argument: as long as a command that nobody aborts is pending, some process runs, and its exit
  starts the next one.

`PROJECT.json` lists the hazards, each with the properties that cover it or the
reason why none does.

## Proofs

Every theorem holds for all values of the constants that satisfy the named
assumptions: any number of nodes, values, quorum sets, counters, timeouts,
restarts, envelopes and peers. Eight modules hold proofs.

| Module | Theorem | States |
|---|---|---|
| NominationProofs | QuorumFound | QuorumIsGreatestFixpoint |
| | BlockingMeetsSlices | VBlockingMeetsSlices |
| | QuorumPersists | QuorumStays |
| | NeverBadState, OnlyValidValues, CompositeIsCurrent | NoFault, VotesValid, CompositeCurrent |
| BallotProofs | VotesToCommitKept | CommitVotesKept |
| | AlwaysNewer, NoFlipFlop | EmitsNewer, HeardStays |
| | TimerOnlyWithQuorum, OnlyValidatedSent | TimerJustified, SentValidated |
| FederatedBallotProofs | AgreementHolds, InvariantHolds | Agreement, IInv |
| BallotRefinementProofs | BallotsImplementFederated | ImplementsFederated |
| | NodesAgree, HonestNodesAgree | CommitAgreement, and the same for the honest nodes |
| | NodesStandByVotes | RInv, the invariant of the refinement |
| EnvelopeFetchingProofs | TrackersOutliveLoops, AtMostOnce, QueueEmptied | TrackerOutlivesLoop, DeliveredOnce, NothingLeftBehind |

The protocol modules have a theorem `TypeCorrect` as well. **LocalNodeProofs**,
**BallotOutcomeProofs** and **BallotMoveProofs** hold lemmas only. The four modules
about ballots open with `USE Zenon`: a leaf that names no prover is Zenon's, one that
needs arithmetic says `SMT`. Lemmas that serve one proof only are steps of that proof
with a name of their own (`<1>RecursionUnique`).

### Quorum predicates

`isQuorumSliceInternal` and `isVBlockingInternal` recurse through nested quorum sets
and `isQuorum` repeats a removal pass. In the model these are recursive functions.
LocalNodeProofs begins with what is needed to reason about them with first-order
lemmas: the induction hypothesis is a *set*, the recursive step a *function*, and a
table of quorum sets in which inner sets have smaller numbers makes the recursion well
founded. `RecursionExists` shows that such a recursive definition has one solution;
facts about finite sets and cardinality follow from it. Then it shows that the two
predicates unfold, are monotone and dual to each other (`q` is satisfied by the
complement of `B` exactly when `B` does not block it), and that the removal loop
keeps every quorum and ends in one (`QuorumMeaning`). NominationProofs, in
its last section, proves the properties of QuorumEvaluation from these lemmas.
`QSetAssumption` asks for
thresholds between 1 and the number of entries, as `isQuorumSetSane` does, for
validators that are nodes, and for inner sets with smaller numbers: in the code they
are nested values, so there are no cycles.

### Nomination

The invariant says, per node, that votes, accepted values and the last statement are
within what the node validated, that its recorded statement is a subset of its state
and differs from it while an emission is due (so that `emitNomination` always has
something newer to say and never throws), and that a composite value that misses
candidates is remembered in `newCandidates`. CompositeCurrent alone is not inductive:
it is false in the middle of nested emissions.

### Ballot protocol

`BallotProofs!IInv` is one invariant for all six properties. For each node it says:

* `Own`: the statement a node recorded for itself is what `createStatement` yields
  for its fields, and these satisfy `checkInvariants`; `mLastEnvelope` is that
  statement as soon as there is a ballot.
* `Ordered`, `VotesKept`, `Trusted`: all that was sent is older than what is to be
  sent next, its votes to commit are kept by it or aborted by an accepted ballot,
  and it names validated values only.
* `HeardOK`, `TimerOK`: a quorum is at the counter whenever the flag is set. That the
  flag never goes off at the same counter rests on QuorumMonotone: statements of
  peers only get newer, and nodes that externalize stay in.
* `Restorable`, `Sound`: what was emitted comes from a state that satisfies
  `checkInvariants`, so that `setStateFromEnvelope` resumes from it.

`advanceSlot` calls itself from inside each attempt. BallotOutcomeProofs reduces what
an attempt does to one of five moves (`Moved`: accepts or confirms prepared, accepts or
confirms a commit, bumps). BallotProofs shows for each move what it preserves
(`OutcomeInv`), and follows the stack of activations by the relation `Along`. The proof takes the failure of an
assertion as a stop of the process: NoFault itself does not hold in general, as
`ballot_high` shows.

### Agreement and refinement

`FederatedBallotProofs` proves Agreement of abstract federated voting under
`NetworkAssumption`: two quorums of well-behaved nodes share a well-behaved node, and
the ill-behaved nodes alone block no well-behaved one. Agreement is not inductive. The
strengthening says where a commit comes from: an accepted commit has at its root a
ballot that a quorum's well-behaved members voted to commit and a well-behaved node
accepted as prepared; and a ballot that some well-behaved node accepted as aborted is
dead: the well-behaved members of some quorum voted to abort it, without a vote to
commit it, and can never cast one. Two different committed values would make the lower
one dead and alive at once, and intersection gives the contradiction.

`BallotRefinementProofs` carries this over to the code. `HSpec` is BallotProtocol with
history variables that collect what the statements of a node voted for and accepted;
they restrict nothing. BallotMoveProofs takes the five moves
one by one and shows which step of federated voting the statement that tells of it is
(`SpeakStep`); `BallotsImplementFederated` concludes that each step is a step of
federated voting or adds nothing to the history. The rules of federated voting speak
of all that a node ever said, the code looks only at latest statements, so the
invariant `RInv` relates the two: in PREPARE a node has voted to prepare nothing above
its ballot, and each ballot it voted to commit it still votes for or has accepted as
aborted (`Standing`). The quorums of the code are those of the abstract specification
by the lemmas of LocalNodeProofs.

`Honest` has the nodes of which this holds: all of them if no process restarts;
otherwise those that never meet a value they cannot validate. A node in doubt keeps
deciding without sending, and after a restart has forgotten what it told itself, so
that it may contradict it. It counts as ill-behaved, which
`IntersectionAssumption` (quorums meet in an honest node, the others block nobody)
has to tolerate. `NodesAgree` is for networks in which everybody is honest in this
sense.

### Fetching

The invariant `Inv` has four parts. `LoopsOK`: a loop of `ItemFetcher::recv` in
progress has its tracker. `QueueOK`: while ready envelopes wait, a loop that takes
them is on the stack and reaches far enough. `ReadyOK`, `ScpOK`: what is ready, or was
given to SCP and is still in the window, is in `processed` and not in `fetching`,
which is what `recvSCPEnvelope` looks at before it accepts an envelope again. Most
operations leave these books alone (`QuietStep`); the proof is about those that do not.

### Checked by TLC only

* Liveness (ExternalizeSpreads, UnanimityDecides, CandidatesSpread, CandidateFound,
  FetchCompletes, WorksEnd, ShutdownCompletes, CheckpointsPublished): the prover does
  not reason about fairness.
* BallotProtocol's NoFault and the fetching module's StillAsked: true on the
  instances of their runs, false in general (`ballot_high`, `fetch_shared`).
* Agreement of nodes that doubt a value and restart: not honest in the sense above.
* TransactionQueue: its operations are folds over sequences of operations whose
  results cannot be established without induction over an operator.
* Works, buckets, history and ledgers: they use RECURSIVE operators for the tree of
  works and the levels of the bucket list, which the prover does not support.

## Abstractions of the consensus models

* Crashes happen between events: the herder persists before it broadcasts and
  delivery may lose anything, so a crash inside a handler looks like one before it.
* The validity of a value does not change during a slot.
* Envelopes are signed; a well-behaved node is only ever quoted truthfully.
* After externalizing, the recording of further statements for reports is left out.
## Not modelled

* *Catchup coordination*: the buffer of ledgers that arrive during a catchup, the
  choice of ranges and the check of the chain of headers.
* *The herder out of sync*: tracking state, `triggerNextLedger` together with
  consensus, SCP state of several slots in the database.
* *The SCP driver's rules for values* (close times, upgrades, `combineCandidates`):
  inputs of the consensus models.
* *Overlay*: handshake, flooding, lists of peers, load. The models assume what it
  gives: authenticated messages that may be lost, repeated and reordered.
* *Ledger transactions, operations and offers*: sequential code on 64-bit amounts;
  a closed ledger is one atomic change here.
* *The quorum intersection checker*: a search whose pruning matters only at sizes
  out of reach.
* SQL and file access, configuration, command line, HTTP commands and logging
  (input and output without a protocol); cryptography (taken as ideal); generated
  serialisation; third-party libraries; test and simulation support.

The third-party code under `src/lib` is most of the repository's lines, and the
transaction engine most of the rest; what is modelled is the part of the node where
processes, threads, messages and restarts interleave.

## Next theorems

The books of the transaction queue, once its folds are recursive functions like those
of LocalNode; the legality of work transitions; agreement for nodes that doubt a value
and restart, which needs an account of what such a node said only to itself.
