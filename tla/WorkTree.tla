------------------------------ MODULE WorkTree ------------------------------
(***************************************************************************)
(* The work framework, driving the replay of history during catchup.  The  *)
(* WorkScheduler cranks a tree of works on the main thread: a              *)
(* DownloadApplyTxsWork holds one sequence per checkpoint, which gets and  *)
(* unzips a file with two commands and then closes the ledgers of the      *)
(* checkpoint, each as soon as the bucket merges allow.  Between two       *)
(* cranks, processes exit, timers fire, and the application may shut down. *)
(*                                                                         *)
(* An operator that stands for a method takes the record of the            *)
(* application and gives back the new one; `ans' is what the outside       *)
(* answers when a work asks it during the step.                            *)
(***************************************************************************)
EXTENDS ProcessManager

CONSTANTS
    Checkpoints, \* checkpoints to replay
    Frequency,   \* ledgers in a checkpoint
    Settings,    \* of a run: MAX_CONCURRENT_SUBPROCESSES, how many commands the
                 \* publication of a checkpoint runs meanwhile, and whether
                 \* closeLedger may throw
    FirstLcl,    \* last closed ledger when catchup starts
    Retries,     \* RETRY_A_LOT: attempts a download may repeat
    MaxFailures  \* bound: unfavourable answers of the outside in a behaviour

ASSUME WorkAssumption ==
    /\ Checkpoints \in Nat \ {0}
    /\ Frequency \in Nat \ {0}
    /\ Settings \subseteq [processes : Nat \ {0}, puts : Nat, throws : BOOLEAN]
    /\ Settings # {}
    /\ FirstLcl \in 0 .. Frequency - 1
    /\ Retries \in Nat
    /\ MaxFailures \in Nat

VARIABLES
    app,  \* the application
    beat  \* alternates with the cranks

vars == <<app, beat>>

(* The works, named by their class and the checkpoint they work for. *)
Scheduler == <<"scheduler", 0>>
Batch == <<"batch", 0>>
Works(class) == {<<class, k>> : k \in 1 .. Checkpoints}
Puts == Max({s.puts : s \in Settings})
Put == {<<"put", i>> : i \in 1 .. Puts}
Command == Works("get") \cup Works("gunzip") \cup Put
Conditional == (Works("conditional") \ {<<"conditional", 1>>}) \cup Works("mergeWait")
Parallel == {Scheduler, Batch} \cup Works("getAndUnzip")   \* subclasses of Work
Work == Command \cup Conditional \cup Parallel
          \cup Works("sequence") \cup Works("apply") \cup Works("close")

(* The works that x creates, in the order in which it starts them. *)
Parts(x) ==
    LET k == x[2] IN
    CASE x = Scheduler -> <<Batch>> \o [i \in 1 .. Puts |-> <<"put", i>>]
      [] x = Batch -> [i \in 1 .. Checkpoints |-> <<"sequence", i>>]
      [] x[1] = "sequence" ->
           <<<<"getAndUnzip", k>>, IF k = 1 THEN <<"apply", k>> ELSE <<"conditional", k>>>>
      [] x[1] = "getAndUnzip" -> <<<<"get", k>>, <<"gunzip", k>>>>
      [] x[1] = "conditional" -> <<<<"apply", k>>>>
      [] x[1] = "apply" -> <<<<"mergeWait", k>>>>
      [] x[1] = "mergeWait" -> <<<<"close", k>>>>
      [] OTHER -> <<>>

Parent == [x \in Work \ {Scheduler} |-> CHOOSE p \in Work : x \in ToSet(Parts(p))]
MaxRetries(x) == IF x[1] = "getAndUnzip" THEN Retries ELSE 0
FirstLedger(k) == (k - 1) * Frequency + 1
LastLedger(k) == k * Frequency

(* One object of any class.  mNextChild is the index of a child, 0 at the  *)
(* end of the list.  `pos' is how far the work has come with its parts: the *)
(* next of a sequence, of a batch or of a download, the headers read by an *)
(* ApplyCheckpointWork, 2 once a ConditionalWork has dropped mCondition.   *)
(* `current' says that mCurrentExecuting, mConditionalWork or mExitEvent   *)
(* is set, or mWorkStarted.                                                *)
NewWork == [st |-> "PENDING", retries |-> 0, retryTimer |-> FALSE, children |-> <<>>,
            next |-> 0, abortChildren |-> FALSE, batch |-> {}, pos |-> 1,
            current |-> FALSE, exit |-> "none"]

Fault(a, ok) == IF ok THEN a ELSE [a EXCEPT !.fault = TRUE]
Result(a, st) == [app |-> a, st |-> st]
-----------------------------------------------------------------------------
(* BasicWork: the states of one work. *)

ALLOWED_TRANSITIONS ==
    {<<"PENDING", "RUNNING">>, <<"PENDING", "ABORTING">>, <<"WAITING", "RUNNING">>,
     <<"WAITING", "ABORTING">>, <<"RETRYING", "WAITING">>, <<"ABORTING", "ABORTING">>,
     <<"ABORTING", "ABORTED">>}
    \cup {"RUNNING"} \X {"RUNNING", "WAITING", "SUCCESS", "FAILURE", "RETRYING", "ABORTING"}
    \cup {"SUCCESS", "FAILURE", "ABORTED"} \X {"PENDING"}

isDone(a, x) == a.work[x].st \in {"SUCCESS", "FAILURE", "ABORTED"}

getState(a, x) ==
    LET st == a.work[x].st IN
    CASE st \in {"RUNNING", "PENDING", "ABORTING"} -> "RUNNING"
      [] st \in {"WAITING", "RETRYING"} -> "WAITING"
      [] OTHER -> st

scheduleOne(a) == [a EXCEPT !.scheduled = TRUE]

(* A waiting work runs again and so do those above it; the scheduler asks  *)
(* for a crank.  The first one that does not wait ends the chain.          *)
RECURSIVE wakeUp(_, _)
wakeUp(a, x) ==
    IF a.work[x].st # "WAITING" THEN a
    ELSE LET b == [a EXCEPT !.work[x].st = "RUNNING"]
         IN  IF x = Scheduler THEN scheduleOne(b) ELSE wakeUp(b, Parent[x])

(* The handler of mRetryTimer, called when it expires and when it is       *)
(* cancelled.                                                              *)
retryHandler(a, x) ==
    LET st == a.work[x].st
    IN  IF st = "WAITING"
        THEN wakeUp([a EXCEPT !.work[x].retries = @ + 1, !.work[x].retryTimer = FALSE], x)
        ELSE Fault(a, st \in {"ABORTED", "ABORTING"})

allChildrenDone(a, x) == \A c \in ToSet(a.work[x].children) : isDone(a, c)
allChildrenSuccessful(a, x) ==
    \A c \in ToSet(a.work[x].children) : getState(a, c) = "SUCCESS"
anyChildRaiseFailure(a, x) ==
    \E c \in ToSet(a.work[x].children) : getState(a, c) = "FAILURE"
anyChildRunning(a, x) ==
    \E c \in ToSet(a.work[x].children) : getState(a, c) = "RUNNING"

clearChildren(a, x) ==
    [Fault(a, allChildrenDone(a, x)) EXCEPT
       !.work[x].children = <<>>, !.work[x].next = 0]

(* doReset of a download also removes its files. *)
workOnReset(a, x) ==
    LET b == [clearChildren(a, x) EXCEPT
                !.work[x].abortChildren = FALSE, !.work[x].batch = {}, !.work[x].pos = 1]
    IN  IF x[1] = "getAndUnzip" THEN [b EXCEPT !.files = @ \ {x[2]}] ELSE b

sequenceOnReset(a, x) ==
    [Fault(a, \A i \in 1 .. a.work[x].pos - 1 : isDone(a, Parts(x)[i])) EXCEPT
       !.work[x].pos = 1, !.work[x].current = FALSE]

(* With mExitEvent gone nobody can name the event in mKillable, and a      *)
(* handler that is still posted sets what the next start resets.           *)
commandOnReset(a, x) ==
    [a EXCEPT !.work[x].exit = "none", !.work[x].current = FALSE,
              !.killable = @ \ {x}, !.exits[x] = "none"]

conditionalOnReset(a, x) == [a EXCEPT !.work[x].current = FALSE]

(* Dropping mConditionalWork destroys it: it must be done. *)
applyOnReset(a, x) ==
    [Fault(a, a.work[x].current => isDone(a, Parts(x)[1])) EXCEPT
       !.work[x].pos = 0, !.work[x].current = FALSE]

onReset(a, x) ==
    CASE x \in Parallel -> workOnReset(a, x)
      [] x[1] = "sequence" -> sequenceOnReset(a, x)
      [] x \in Command -> commandOnReset(a, x)
      [] x \in Conditional -> conditionalOnReset(a, x)
      [] x[1] = "apply" -> applyOnReset(a, x)
      [] OTHER -> a

reset(a, x) ==
    LET b == IF a.work[x].retryTimer THEN retryHandler(a, x) ELSE a
    IN  onReset([b EXCEPT !.work[x].retryTimer = FALSE], x)

waitForRetry(a, x) ==
    [Fault(a, ~a.work[x].retryTimer) EXCEPT
       !.work[x].retryTimer = TRUE, !.work[x].st = "WAITING"]

arrive(a, x) == IF a.work[x].st = "RETRYING" THEN waitForRetry(a, x) ELSE a

setState(a, x, to) ==
    LET w == a.work[x]
        st == IF to = "FAILURE" /\ w.retries < MaxRetries(x) THEN "RETRYING" ELSE to
        starts == w.st = "PENDING" /\ st = "RUNNING"
        valid == Fault(a, <<w.st, st>> \in ALLOWED_TRANSITIONS)
        ready == IF starts \/ st \in {"FAILURE", "RETRYING", "ABORTED"}
                 THEN reset(valid, x) ELSE valid
    IN  arrive([ready EXCEPT !.work[x].st = st,
                             !.work[x].retries = IF starts THEN 0 ELSE @], x)

noRetries(a, x) == Fault(a, a.work[x].retries = 0)

startWork(a, x) ==
    LET b == IF a.work[x].st = "PENDING" THEN a ELSE setState(a, x, "PENDING")
    IN  noRetries(setState(b, x, "RUNNING"), x)

(* The works x consists of are created when x is. *)
RECURSIVE Below(_)
Below(x) == {x} \cup UNION {Below(p) : p \in ToSet(Parts(x))}

create(a, x) ==
    [a EXCEPT !.work = [y \in Work |-> IF y \in Below(x) THEN NewWork ELSE @[y]],
              !.exits = [c \in Command |-> IF c \in Below(x) THEN "none" ELSE @[c]]]
-----------------------------------------------------------------------------
(* Work: a work with children. *)

addChild(a, x, c) ==
    [a EXCEPT !.work[x].children = Append(@, c),
              !.work[x].next = IF a.work[x].children = <<>> THEN 1 ELSE @]

(* A work that is aborting takes no more children: an exception, which     *)
(* nobody catches.                                                         *)
addWork(a, x, c) ==
    IF a.work[x].st = "ABORTING" THEN [a EXCEPT !.threw = TRUE]
    ELSE wakeUp(startWork(addChild(create(a, c), x, c), c), x)

(* The next child that can be cranked, once around the list, and the done  *)
(* ones on the way leave the list; then the turn of doWork comes.          *)
yieldNextRunningChild(a, x) ==
    LET w == a.work[x]
        n == Len(w.children)
        from == IF w.next = 0 THEN n + 1 ELSE w.next
        found == {i \in from .. n : getState(a, w.children[i]) = "RUNNING"}
        upTo == IF found = {} THEN n ELSE Min(found) - 1
        kept == SubSeq(w.children, 1, from - 1)
                  \o SelectSeq(SubSeq(w.children, from, upTo), LAMBDA c : ~isDone(a, c))
        left == kept \o SubSeq(w.children, upTo + 1, n)
        next == IF found = {} THEN 1 ELSE Len(kept) + 2
    IN  [app |-> [a EXCEPT !.work[x].children = left,
                           !.work[x].next = IF next > Len(left) THEN 0 ELSE next],
         child |-> {w.children[i] : i \in IF found = {} THEN {} ELSE {Min(found)}}]

basicShutdown(a, x) == IF isDone(a, x) THEN a ELSE setState(a, x, "ABORTING")

(* mCurrentExecuting, mConditionedWork, mConditionalWork. *)
Current(a, x) == IF x[1] = "sequence" THEN Parts(x)[a.work[x].pos] ELSE Parts(x)[1]

(* Slip: only a Work passes a shutdown on. *)
ExecutingChildren(a, x) ==
    IF x \in Parallel THEN SelectSeq(a.work[x].children, LAMBDA c : ~isDone(a, c)) ELSE <<>>

(* What each class shuts down before itself. *)
Executing(a, x) ==
    IF x \in Parallel THEN SelectSeq(a.work[x].children, LAMBDA c : ~isDone(a, c))
    ELSE IF ~a.work[x].current \/ x \in Command THEN <<>>
    ELSE <<Current(a, x)>>

RECURSIVE shutdown(_, _)
shutdownChildren(a, x) == FoldLeft(shutdown, a, Executing(a, x))
shutdown(a, x) == basicShutdown(shutdownChildren(a, x), x)

schedulerDoWork(a) ==
    Result(a, IF anyChildRunning(a, Scheduler) THEN "RUNNING" ELSE "WAITING")

(* The batch keeps at most maxProcesses children going. *)
addMoreWorkIfNeeded(a) ==
    LET w == a.work[Batch]
        room == a.maxProcesses - Cardinality(w.batch)
        more == SubSeq(Parts(Batch), w.pos, Min({w.pos + room - 1, Checkpoints}))
    IN  [FoldLeft(LAMBDA b, c : addWork(b, Batch, c), Fault(a, w.st # "ABORTING"), more)
           EXCEPT !.work[Batch].batch = @ \cup ToSet(more),
                  !.work[Batch].pos = @ + Len(more)]

batchState(a) ==
    Result(a, IF allChildrenSuccessful(a, Batch) THEN "SUCCESS"
              ELSE IF anyChildRunning(a, Batch) THEN "RUNNING" ELSE "WAITING")

(* Slip: a failed child is not looked for. *)
batchDoWorkUnchecked(a) ==
    batchState(addMoreWorkIfNeeded(
        [a EXCEPT !.work[Batch].batch = {c \in @ : ~isDone(a, c)}]))

batchDoWork(a) ==
    IF anyChildRaiseFailure(a, Batch) THEN Result(a, "FAILURE")
    ELSE batchState(addMoreWorkIfNeeded(
             [a EXCEPT !.work[Batch].batch = {c \in @ : getState(a, c) # "SUCCESS"}]))

(* GetAndUnzipRemoteFileWork: start the download, check it and start the   *)
(* unzipping, check that the file is there.                                *)
getAndUnzipDoWork(a, x, ans) ==
    LET pos == a.work[x].pos
        add == Result([addWork(a, x, Parts(x)[pos]) EXCEPT !.work[x].pos = pos + 1], "RUNNING")
        st == getState(a, Parts(x)[pos - 1])
    IN  IF pos = 1 \/ (pos = 2 /\ st = "SUCCESS" /\ ans # "fails") THEN add
        ELSE IF st = "SUCCESS" /\ (pos = 2 \/ x[2] \notin a.files) THEN Result(a, "FAILURE")
        ELSE Result(a, st)

doWork(a, x, ans) ==
    CASE x = Scheduler -> schedulerDoWork(a)
      [] x = Batch -> batchDoWork(a)
      [] OTHER -> getAndUnzipDoWork(a, x, ans)
-----------------------------------------------------------------------------
(* onRun and onAbort of the classes. *)

commandOnRun(a, x, ans) ==
    IF a.work[x].exit # "none"
    THEN Result(a, IF a.work[x].exit = "ok" THEN "SUCCESS" ELSE "FAILURE")
    ELSE LET b == runProcess(a, x, ans # "fails")
         IN  IF EventExists(b, x)
             THEN Result([b EXCEPT !.work[x].current = TRUE], "WAITING")
             ELSE Result([b EXCEPT !.exits[x] = "none"], "FAILURE")

(* Slip: the process is left to itself. *)
commandOnAbortLeaves(a, x, ans) == [app |-> a, done |-> TRUE]

commandOnAbort(a, x, ans) ==
    IF a.work[x].current /\ EventExists(a, x) THEN tryProcessShutdown(a, x, ans # "fails")
    ELSE [app |-> a, done |-> TRUE]

(* The condition: the sequence of the checkpoint before has succeeded; the *)
(* merges the next ledger needs are resolved.                              *)
Condition(a, x, ans) ==
    IF x[1] = "conditional" THEN getState(a, <<"sequence", x[2] - 1>>) = "SUCCESS"
    ELSE ans # "merging"

(* closeLedger may throw, in a crank of mConditionalWork that gets that    *)
(* far.  The exception passes through the crankWork of both works, which   *)
(* stay RUNNING.                                                           *)
closeThrows(a, w, ans) ==
    ans = "throws" /\ a.work[w].st = "RUNNING" /\ (a.work[w].current \/ Condition(a, w, ans))

closeOnRun(a) == Result([a EXCEPT !.lcl = @ + 1], "SUCCESS")

(* The next header of the checkpoint: one the node already has is skipped, *)
(* the one after the last closed ledger is applied, anything else fails.   *)
applyNext(a, x, ans) ==
    LET k == x[2]
        header == FirstLedger(k) + a.work[x].pos
        b == [a EXCEPT !.work[x].pos = @ + 1]
    IN  CASE a.work[x].pos = 0 /\ k \notin a.files -> Result(a, "FAILURE")
          [] a.lcl = LastLedger(k) -> Result(a, "SUCCESS")
          [] header > LastLedger(k) \/ header > a.lcl + 1 \/ ans = "fails" -> Result(b, "FAILURE")
          [] header <= a.lcl -> Result(b, "RUNNING")
          [] OTHER ->
               LET wait == Parts(x)[1]
               IN  Result([startWork(create(b, wait), wait) EXCEPT !.work[x].current = TRUE],
                          "RUNNING")

RECURSIVE crankWork(_, _, _), onRun(_, _, _), onAbort(_, _, _)

(* What Work::onRun makes of the result of doWork. *)
afterDoWork(d, x) ==
    CASE d.st = "SUCCESS" ->
           Result(clearChildren(Fault(d.app, allChildrenSuccessful(d.app, x)), x), "SUCCESS")
      [] d.st = "FAILURE" /\ ~allChildrenDone(d.app, x) ->
           Result([shutdownChildren(d.app, x) EXCEPT !.work[x].abortChildren = TRUE], "RUNNING")
      [] OTHER -> d

workOnRun(a, x, ans) ==
    LET y == yieldNextRunningChild(a, x)
    IN  IF a.work[x].abortChildren
        THEN LET r == onAbort(a, x, ans)
             IN  Result(r.app, IF r.done THEN "FAILURE" ELSE "RUNNING")
        ELSE IF y.child # {}
        THEN Result(crankWork(y.app, CHOOSE c \in y.child : TRUE, ans), "RUNNING")
        ELSE afterDoWork(doWork(y.app, x, ans), x)

workOnAbort(a, x, ans) ==
    LET y == yieldNextRunningChild(a, x)
        c == CHOOSE c \in y.child : TRUE
    IN  IF y.child = {} THEN [app |-> y.app, done |-> allChildrenDone(y.app, x)]
        ELSE [app |-> crankWork(Fault(y.app, y.app.work[c].st = "ABORTING"), c, ans),
              done |-> FALSE]

sequenceOnRun(a, x, ans) ==
    LET pos == a.work[x].pos
        w == Parts(x)[pos]
    IN  CASE pos > Len(Parts(x)) -> Result(a, "SUCCESS")
          [] ~a.work[x].current ->
               Result(crankWork([startWork(a, w) EXCEPT !.work[x].current = TRUE], w, ans),
                      "RUNNING")
          [] getState(a, w) = "SUCCESS" ->
               onRun([a EXCEPT !.work[x].current = FALSE, !.work[x].pos = pos + 1], x, ans)
          [] getState(a, w) # "RUNNING" -> Result(a, getState(a, w))
          [] OTHER -> Result(crankWork(a, w, ans), "RUNNING")

conditionalOnRun(a, x, ans) ==
    LET w == Parts(x)[1]
        b == Fault(a, a.work[x].pos = 1)   \* mCondition is still there
    IN  IF a.work[x].current
        THEN LET c == crankWork(a, w, ans) IN Result(c, getState(c, w))
        ELSE IF ~Condition(a, x, ans)
        THEN Result(b, "WAITING")   \* and sleep
        ELSE onRun([startWork(b, w) EXCEPT !.work[x].current = TRUE, !.work[x].pos = 2], x, ans)

(* An exception, from below or because the ledger that was closed has      *)
(* another hash than the archive says, is a failure.                       *)
applyOnRun(a, x, ans) ==
    LET w == Parts(x)[1]
        b == crankWork(a, w, ans)
    IN  CASE ~a.work[x].current -> applyNext(a, x, ans)
          [] a.work[x].current /\ closeThrows(a, w, ans) -> Result(a, "FAILURE")
          [] OTHER -> IF getState(b, w) # "SUCCESS" THEN Result(b, getState(b, w))
                      ELSE IF ans = "fails" THEN Result(b, "FAILURE")
                      ELSE applyNext(b, x, ans)

onRun(a, x, ans) ==
    CASE x \in Parallel -> workOnRun(a, x, ans)
      [] x[1] = "sequence" -> sequenceOnRun(a, x, ans)
      [] x \in Command -> commandOnRun(a, x, ans)
      [] x \in Conditional -> conditionalOnRun(a, x, ans)
      [] x[1] = "apply" -> applyOnRun(a, x, ans)
      [] OTHER -> closeOnRun(a)

(* A sequence, a ConditionalWork and an ApplyCheckpointWork wait for the   *)
(* one work they execute.                                                  *)
singleOnAbort(a, x, ans) ==
    LET w == Current(a, x)
    IN  IF a.work[x].current /\ ~isDone(a, w)
        THEN [app |-> crankWork(a, w, ans), done |-> FALSE]
        ELSE [app |-> a, done |-> TRUE]

onAbort(a, x, ans) ==
    CASE x \in Parallel -> workOnAbort(a, x, ans)
      [] x \in Command -> commandOnAbort(a, x, ans)
      [] OTHER -> singleOnAbort(a, x, ans)

abortResult(r) == Result(r.app, IF r.done THEN "ABORTED" ELSE "ABORTING")
enter(r, x) == setState(r.app, x, r.st)

crankWork(a, x, ans) ==
    LET b == Fault(a, ~isDone(a, x) /\ a.work[x].st # "WAITING")
    IN  enter(IF a.work[x].st = "ABORTING" THEN abortResult(onAbort(b, x, ans))
              ELSE onRun(b, x, ans), x)
-----------------------------------------------------------------------------
(* The application. *)

(* WorkScheduler::create has started the scheduler and cranked it once. *)
Init ==
    /\ \E s \in Settings : app =
          [maxProcesses |-> s.processes, puts |-> s.puts, throws |-> s.throws,
           work |-> [x \in Work |-> IF x = Scheduler THEN [NewWork EXCEPT !.st = "WAITING"]
                                    ELSE NewWork],
           scheduled |-> FALSE, shutdown |-> FALSE, fault |-> FALSE, threw |-> FALSE, failures |-> 0,
           pending |-> <<>>, procs |-> {}, killable |-> {},
           exits |-> [c \in Command |-> "none"],
           lcl |-> FirstLcl, files |-> {}]
    /\ beat = 0

(* A failed assertion or an uncaught exception stops the process. *)
Up(a) == ~a.fault /\ ~a.threw
Become(a) == Up(app) /\ app' = a

(* A work is scheduled, once; a handler that was posted before a shutdown  *)
(* may do it while the scheduler aborts.                                   *)
scheduleWork(x) ==
    /\ app.work[x].st = "PENDING"
    /\ x \in Put => x[2] <= app.puts
    /\ app.work[Scheduler].st # "ABORTED"
    /\ Become(addWork(app, Scheduler, x))

(* The crank that scheduleOne has posted. *)
again(a) == IF getState(a, Scheduler) = "RUNNING" THEN scheduleOne(a) ELSE a
cranked(ans) == again(crankWork([app EXCEPT !.scheduled = FALSE], Scheduler, ans))

(* Only an answer that makes a difference counts as a failure. *)
Unfavourable == {"fails", "merging"} \cup (IF app.throws THEN {"throws"} ELSE {})
Answered(to) ==
    \/ Become(to["good"])
    \/ \E ans \in Unfavourable :
          /\ app.failures < MaxFailures
          /\ to[ans] # to["good"]
          /\ Become([to[ans] EXCEPT !.failures = @ + 1])

Crank ==
    /\ app.scheduled
    /\ beat' = 1 - beat
    /\ Answered([ans \in {"good"} \cup Unfavourable |-> cranked(ans)])

(* SIGCHLD: the process of c has ended; a successful gunzip has left its   *)
(* file.  `ok': the processes that now have room can be started.           *)
ProcessExits(c, ec, ok) ==
    LET a == handleProcessTermination(app, c, ec, ok)
        failures == app.failures + (IF ec = "error" THEN 1 ELSE 0) + (IF ok THEN 0 ELSE 1)
    IN  /\ c \in app.procs
        /\ ~ok => app.pending # <<>>
        /\ failures <= MaxFailures
        /\ Become([a EXCEPT !.failures = failures,
                            !.files = IF c[1] = "gunzip" /\ ec = "ok" THEN @ \cup {c[2]} ELSE @])

(* asio calls the handler that RunCommandWork waits with. *)
ExitHandler(c) ==
    /\ app.exits[c] # "none"
    /\ Become(wakeUp([app EXCEPT !.exits[c] = "none", !.work[c].exit = app.exits[c]], c))

RetryTimerExpires(x) ==
    /\ app.work[x].retryTimer
    /\ Become(retryHandler(app, x))

(* A ConditionalWork sleeps while it waits and has started nothing. *)
SleepTimerExpires(x) ==
    /\ app.work[x].st = "WAITING"
    /\ ~app.work[x].current
    /\ Become(wakeUp(app, x))

(* Slip: the shutdown does not ask for a crank. *)
shutdownUnscheduled ==
    /\ ~app.shutdown
    /\ Become([shutdown(app, Scheduler) EXCEPT !.shutdown = TRUE])

(* gracefulStop, which then cranks the clock until the scheduler is        *)
(* ABORTED.                                                                *)
shutdownWorkScheduler ==
    /\ ~app.shutdown
    /\ Become(scheduleOne([shutdown(app, Scheduler) EXCEPT !.shutdown = TRUE]))

Event ==
    \/ \E x \in ToSet(Parts(Scheduler)) : scheduleWork(x)
    \/ \E c \in Command : ExitHandler(c)
    \/ \E c \in Command, ec \in {"ok", "error"}, ok \in BOOLEAN : ProcessExits(c, ec, ok)
    \/ \E x \in Works("getAndUnzip") : RetryTimerExpires(x)
    \/ \E x \in Conditional : SleepTimerExpires(x)
    \/ shutdownWorkScheduler

Next == Crank \/ (Event /\ UNCHANGED beat)

(* The main loop runs what is posted, every timer comes up, processes end. *)
Fairness ==
    /\ WF_beat(app.scheduled /\ Up(app) /\ beat' = 1 - beat)   \* Crank
    /\ \A c \in Command :
          /\ WF_app(ExitHandler(c))
          /\ WF_app(ProcessExits(c, "ok", TRUE) \/ ProcessExits(c, "error", TRUE))
    /\ \A x \in Works("getAndUnzip") : WF_app(RetryTimerExpires(x))
    /\ \A x \in Conditional : WF_app(SleepTimerExpires(x))

Spec == Init /\ [][Next]_vars /\ Fairness
-----------------------------------------------------------------------------
(* Properties. *)

(* No work makes an illegal transition, is cranked while it waits or when  *)
(* it is done, is reset with children that still run, or destroyed while   *)
(* it runs, wherever the shutdown and the failures come: no assertion of   *)
(* the framework fails.  This holds as long as closeLedger does not throw, *)
(* and leaves out the refusal of a work that is scheduled while the        *)
(* scheduler aborts, which is an exception and no assertion.               *)
NoFault == ~app.fault

(* A command that waits has its process queued or running, or its exit     *)
(* handler posted (so it will be woken), and no process is queued or       *)
(* running for a work that has ended: aborting a work leaves no subprocess *)
(* behind that still counts against MAX_CONCURRENT_SUBPROCESSES.  While a  *)
(* command that nobody aborts is queued, a process runs whose end will     *)
(* start it: tryProcessShutdown, which starts nothing, never takes the     *)
(* last one.                                                               *)
CommandsAccounted ==
    \A c \in Command :
        LET queued == c \in ToSet(app.pending) \cup app.procs
        IN  /\ app.work[c].st = "WAITING" => queued \/ app.exits[c] # "none"
            /\ queued => app.work[c].st \in {"WAITING", "ABORTING"}
            /\ c \in ToSet(app.pending) /\ app.work[c].st = "WAITING" => app.procs # {}

(* The checkpoints are applied in order although they are downloaded       *)
(* concurrently, each only when its file is there, and the batch succeeds  *)
(* only when all of them have been: yieldNextRunningChild drops done       *)
(* children, failed ones included, and the batch must still see each       *)
(* failure.                                                                *)
AppliedInOrder ==
    /\ \A k \in 1 .. Checkpoints :
          app.work[<<"apply", k>>].st \in {"RUNNING", "WAITING"}
            => k \in app.files /\ app.lcl \in LastLedger(k - 1) .. LastLedger(k)
    /\ app.work[Batch].st = "SUCCESS" => app.lcl = LastLedger(Checkpoints)

(* Every work that is scheduled ends: no wakeUp is lost on the way to the  *)
(* scheduler, no ConditionalWork sleeps for ever, and a command that waits *)
(* for room gets it.  Only the exception of a work that is scheduled while *)
(* the scheduler aborts ends the process before.                           *)
WorksEnd ==
    \A x \in ToSet(Parts(Scheduler)) :
        app.work[x].st # "PENDING" ~> isDone(app, x) \/ app.threw

(* ApplicationImpl::shutdownWorkScheduler cranks the clock until the       *)
(* scheduler is ABORTED: that comes, whatever the works were doing, unless *)
(* a work is scheduled meanwhile and its exception ends the process.       *)
ShutdownCompletes == app.shutdown ~> app.work[Scheduler].st = "ABORTED" \/ app.threw
=============================================================================
