--------------------------- MODULE ProcessManager ---------------------------
(***************************************************************************)
(* The process manager: commands wait in mPending, run in mProcesses, at   *)
(* most a.maxProcesses (MAX_CONCURRENT_SUBPROCESSES) at a time, and stay   *)
(* in mKillable once they have been told to stop.  Its state is part of    *)
(* the record `a' of the application; a.exits holds the exit handlers that *)
(* asio has still to call.                                                 *)
(*                                                                         *)
(* `ok' is the answer of the operating system: whether a process can be    *)
(* started, whether a signal can be sent.                                  *)
(***************************************************************************)
EXTENDS Integers, FiniteSets, SequencesExt

(* The ProcessExitEvent of c, which work only refers to weakly, exists. *)
EventExists(a, c) == c \in ToSet(a.pending) \cup a.procs \cup a.killable

(* Every process of the queue for which there is room; one that cannot be  *)
(* started takes no room, and its handler is called with an error.         *)
maybeRunPendingProcesses(a, ok) ==
    LET room == a.maxProcesses - Cardinality(a.procs)
        n == IF room <= 0 THEN 0
             ELSE IF ok /\ room < Len(a.pending) THEN room ELSE Len(a.pending)
        first == ToSet(SubSeq(a.pending, 1, n))
        rest == SubSeq(a.pending, n + 1, Len(a.pending))
    IN  IF ok
        THEN [a EXCEPT !.pending = rest, !.procs = @ \cup first]
        ELSE [a EXCEPT !.pending = rest,
                       !.exits = [c \in DOMAIN @ |-> IF c \in first THEN "error" ELSE @[c]]]

runProcess(a, c, ok) ==
    maybeRunPendingProcesses(
        [a EXCEPT !.pending = Append(@, c), !.killable = @ \ {c}], ok)

(* Slip: the room is not given to the next in the queue. *)
handleProcessTerminationOnly(a, c, ec, ok) ==
    [a EXCEPT !.procs = @ \ {c}, !.exits[c] = ec]

(* handleSignalWait finds that the process of c has ended. *)
handleProcessTermination(a, c, ec, ok) ==
    LET b == maybeRunPendingProcesses([a EXCEPT !.procs = @ \ {c}], ok)
    IN  [b EXCEPT !.exits[c] = ec]

(* A queued command is taken out of the queue; a running process gets      *)
(* SIGINT and is forgotten; one that already got it gets SIGKILL.          *)
tryProcessShutdown(a, c, ok) ==
    CASE c \in a.killable -> [app |-> a, done |-> TRUE]
      [] c \in ToSet(a.pending) ->
           [app |-> [a EXCEPT !.exits[c] = "error",
                              !.pending = SelectSeq(@, LAMBDA d : d # c)],
            done |-> TRUE]
      [] c \in a.procs ->
           [app |-> [a EXCEPT !.killable = @ \cup {c}, !.exits[c] = "error",
                              !.procs = @ \ {c}],
            done |-> ok]
      [] OTHER -> [app |-> a, done |-> FALSE]
=============================================================================
