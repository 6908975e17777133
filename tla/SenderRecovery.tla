--------------------------- MODULE SenderRecovery ---------------------------
(***************************************************************************)
(* The Senders stage (execution/stagedsync/stage_senders.go): one call of  *)
(* SpawnRecoverSendersStage with its three kinds of goroutine.             *)
(*                                                                         *)
(*   main       walks the canonical blocks 1..To, sends a job for each     *)
(*              block that needs one, then closes, waits and concludes     *)
(*   workers    recoverSenders: take a job, recover, send the result       *)
(*   collector  takes the results, collects the senders, reports errors    *)
(*                                                                         *)
(* Channels: jobs and out hold BatchSize elements, errCh holds none, so a  *)
(* report is one step of the collector and of main together.  A closed     *)
(* errCh is always ready to be received from, with a nil error.            *)
(*                                                                         *)
(* Block numbers count from the progress of the stage, which is 0.  Of a   *)
(* block the model keeps what the stage tells apart: its senders are       *)
(* stored already, its header or body is missing, they can be recovered,   *)
(* or not.  The canonical hashes end at To, where Headers and Bodies are.  *)
(* Log ticks are left out.                                                 *)
(***************************************************************************)
EXTENDS Integers, Sequences, FiniteSets

CONSTANTS
  To,            \* the block the stage has to reach (the progress of Bodies)
  Workers,       \* the goroutines of recoverSenders
  BatchSize,     \* capacity of jobs and of out (1000 in the code)
  LoadCheck,     \* Load looks at quit every so many elements (1024)
  Kinds,         \* the kinds of block that occur, a subset of AllKinds
  BadBlockHalt,  \* cfg.badBlockHalt
  Quits,         \* the context of the node may be cancelled
  CollectFails   \* Collect may fail (it writes a file when its buffer is full)

AllKinds == {"stored", "missing", "good", "bad"}

ASSUME SenderAssumption ==
  /\ To \in Nat \ {0}
  /\ Workers # {}
  /\ BatchSize \in Nat \ {0}
  /\ LoadCheck \in Nat \ {0}
  /\ Kinds \subseteq AllKinds
  /\ BadBlockHalt \in BOOLEAN
  /\ Quits \in BOOLEAN
  /\ CollectFails \in BOOLEAN

Blocks == 1..To

VARIABLES
  kind,       \* [Blocks -> Kinds], fixed
  main,       \* where the calling goroutine is
  next,       \* the block under its cursor
  jobs,       \* channel of blocks
  closed,     \* the channels main has closed, a subset of {"jobs", "out"}
  worker,     \* [Workers -> [at, job]]
  out,        \* channel of jobs with a result
  collector,  \* [at, job]: the collector and the job it reports
  collected,  \* the blocks in collectorSenders
  cancelled,  \* cancelWorkers was called
  quit,       \* quitCh is closed
  failed,     \* a Collect has failed (history)
  min,        \* [num, err]: minBlockNum and minBlockErr
  db          \* [senders, progress, unwind, result]: what the call leaves

vars == <<kind, main, next, jobs, closed, worker, out, collector, collected,
          cancelled, quit, failed, min, db>>

\* senderRecoveryJob: the block and j.err.
Job == [block : Blocks \cup {0}, err : {"nil", "invalid", "stopped"}]
NoJob == [block |-> 0, err |-> "nil"]

\* Mutant: minBlockNum starts at zero.
MaxBlockNumZero == 0

\* minBlockNum starts at MaxUint64.
MaxBlockNum == To + 1

\* A block that was downloaded and whose senders the table does not hold.
NeedsJob(b) == kind[b] \in {"good", "bad"}

TypeOK ==
  /\ kind \in [Blocks -> Kinds]
  /\ main \in {"loop", "select", "wait", "drain", "end", "done"}
  /\ next \in 1..(To + 1)
  /\ jobs \in Seq(Blocks) /\ Len(jobs) <= BatchSize
  /\ closed \subseteq {"jobs", "out"}
  /\ worker \in [Workers -> [at : {"select", "recover", "send", "gone"}, job : Job]]
  /\ out \in Seq(Job) /\ Len(out) <= BatchSize
  /\ collector \in [at : {"select", "report", "exit", "gone"}, job : Job]
  /\ collected \subseteq Blocks
  /\ cancelled \in BOOLEAN /\ quit \in BOOLEAN /\ failed \in BOOLEAN
  /\ min \in [num : 1..MaxBlockNum, err : {"nil", "invalid", "stopped"}]
  /\ db \in [senders : SUBSET Blocks, progress : 0..To, unwind : -1..To,
             result : {"none", "updated", "unwound", "error"}]

NoUnwind == -1

Init ==
  /\ kind \in [Blocks -> Kinds]
  /\ main = "loop" /\ next = 1
  /\ jobs = <<>> /\ out = <<>> /\ closed = {}
  /\ worker = [w \in Workers |-> [at |-> "select", job |-> NoJob]]
  /\ collector = [at |-> "select", job |-> NoJob]
  /\ collected = {}
  /\ cancelled = FALSE /\ quit = FALSE /\ failed = FALSE
  /\ min = [num |-> MaxBlockNum, err |-> "nil"]
  /\ db = [senders |-> {b \in Blocks : kind[b] = "stored"}, progress |-> 0,
           unwind |-> NoUnwind, result |-> "none"]
-----------------------------------------------------------------------------
(***************************************************************************)
(* The calling goroutine.                                                  *)
(***************************************************************************)
mainVars == <<main, next, jobs, closed, min, db, cancelled>>
othersVars == <<kind, worker, out, collector, collected, quit, failed>>

\* A return of an error: the deferred cancelWorkers runs, nothing is written.
ReturnError ==
  /\ main' = "done"
  /\ cancelled' = TRUE
  /\ db' = [db EXCEPT !.result = "error"]

\* The head of the loop: Stopped(quitCh) first, then the block under the
\* cursor; has, a nil header and a nil body all continue.
Iterate ==
  /\ main = "loop" /\ next <= To
  /\ IF quit
     THEN ReturnError /\ UNCHANGED next
     ELSE /\ IF NeedsJob(next) THEN main' = "select" /\ next' = next
                               ELSE main' = "loop" /\ next' = next + 1
          /\ UNCHANGED <<cancelled, db>>
  /\ UNCHANGED <<jobs, closed, min, othersVars>>

\* case jobs <- j
SendJob ==
  /\ main = "select" /\ Len(jobs) < BatchSize
  /\ jobs' = Append(jobs, next)
  /\ main' = "loop" /\ next' = next + 1
  /\ UNCHANGED <<closed, min, db, cancelled, othersVars>>

\* case recoveryErr := <-errCh with a nil error: a report of a failed Collect,
\* or the zero value of a closed channel.  The job j is not sent.
DropJob ==
  /\ main' = "loop" /\ next' = next + 1
  /\ UNCHANGED <<jobs, closed, min, db, cancelled>>

ReceiveClosed ==
  /\ main = "select" /\ collector.at = "gone"
  /\ DropJob
  /\ UNCHANGED othersVars

\* handleRecoverErr: keep the error of the lowest block.
handleRecoverErr(j) ==
  min' = IF j.block < min.num THEN [num |-> j.block, err |-> j.err] ELSE min

\* The collector's send on errCh and its return.
Reported == collector' = [collector EXCEPT !.at = "exit"]

\* case recoveryErr := <-errCh of the select: an error ends the loop.
ReceiveReport ==
  /\ main = "select" /\ collector.at = "report"
  /\ Reported
  /\ IF collector.job.err = "nil"
     THEN DropJob
     ELSE /\ cancelled' = TRUE
          /\ handleRecoverErr(collector.job)
          /\ closed' = closed \cup {"jobs"}
          /\ main' = "wait"
          /\ UNCHANGED <<next, jobs, db>>
  /\ UNCHANGED <<kind, worker, out, collected, quit, failed>>

\* The cursor is past To: close(jobs).
CloseJobs ==
  /\ main = "loop" /\ next > To
  /\ closed' = closed \cup {"jobs"}
  /\ main' = "wait"
  /\ UNCHANGED <<next, jobs, min, db, cancelled, othersVars>>

\* Mutant: wg.Wait() is missing.
WaitWorkersNot ==
  /\ main = "wait"
  /\ closed' = closed \cup {"out"}
  /\ main' = "drain"
  /\ UNCHANGED <<next, jobs, min, db, cancelled, othersVars>>

\* wg.Wait(), close(out)
WaitWorkers ==
  /\ main = "wait" /\ \A w \in Workers : worker[w].at = "gone"
  /\ closed' = closed \cup {"out"}
  /\ main' = "drain"
  /\ UNCHANGED <<next, jobs, min, db, cancelled, othersVars>>

\* for recoveryErr := range errCh
DrainReport ==
  /\ main = "drain" /\ collector.at = "report"
  /\ Reported
  /\ IF collector.job.err = "nil"
     THEN UNCHANGED <<cancelled, min>>
     ELSE cancelled' = TRUE /\ handleRecoverErr(collector.job)
  /\ UNCHANGED <<main, next, jobs, closed, db>>
  /\ UNCHANGED <<kind, worker, out, collected, quit, failed>>

DrainDone ==
  /\ main = "drain" /\ collector.at = "gone"
  /\ main' = "end"
  /\ UNCHANGED <<next, jobs, closed, min, db, cancelled, othersVars>>

\* collectorSenders.Load stops on quit, but looks at it rarely.
LoadStops == quit /\ Cardinality(collected) >= LoadCheck

\* What follows the channels: an error halts or unwinds to the block below,
\* otherwise the senders are loaded and the progress is saved.
Conclude ==
  /\ main = "end"
  /\ main' = "done" /\ cancelled' = TRUE
  /\ db' = CASE min.err # "nil" /\ BadBlockHalt -> [db EXCEPT !.result = "error"]
             [] min.err # "nil" /\ ~BadBlockHalt ->
                  [db EXCEPT !.unwind = min.num - 1, !.result = "unwound"]
             [] min.err = "nil" /\ LoadStops -> [db EXCEPT !.result = "error"]
             [] min.err = "nil" /\ ~LoadStops ->
                  [db EXCEPT !.senders = @ \cup collected, !.progress = To,
                             !.result = "updated"]
  /\ UNCHANGED <<next, jobs, closed, min, othersVars>>
-----------------------------------------------------------------------------
(***************************************************************************)
(* recoverSenders.                                                         *)
(***************************************************************************)
workerFrame == <<kind, main, next, closed, collector, collected, cancelled,
                 quit, failed, min, db>>

\* case job, ok = <-in
TakeJob(w) ==
  /\ worker[w].at = "select" /\ jobs # <<>>
  /\ worker' = [worker EXCEPT ![w] = [at |-> "recover",
                                      job |-> [block |-> Head(jobs), err |-> "nil"]]]
  /\ jobs' = Tail(jobs)
  /\ UNCHANGED <<out, workerFrame>>

\* Mutant: a closed channel is not noticed.
StopWaitingOnDone(w) ==
  /\ worker[w].at = "select" /\ (cancelled \/ quit)
  /\ worker' = [worker EXCEPT ![w] = [at |-> "gone", job |-> NoJob]]
  /\ UNCHANGED <<jobs, out, workerFrame>>

\* A closed and empty channel, ctx.Done() or quit: return.
StopWaiting(w) ==
  /\ worker[w].at = "select"
  /\ \/ jobs = <<>> /\ "jobs" \in closed
     \/ cancelled
     \/ quit
  /\ worker' = [worker EXCEPT ![w] = [at |-> "gone", job |-> NoJob]]
  /\ UNCHANGED <<jobs, out, workerFrame>>

\* Mutant: job.err = common.Stopped(...) whatever it returns.
jobErrOverwritten(b) == IF quit \/ cancelled THEN "stopped" ELSE "nil"

\* Recover the senders; then quit and ctx overwrite j.err.
jobErr(b) == IF quit \/ cancelled THEN "stopped"
             ELSE IF kind[b] = "bad" THEN "invalid" ELSE "nil"

Recover(w) ==
  /\ worker[w].at = "recover"
  /\ LET b == worker[w].job.block
     IN  worker' = [worker EXCEPT ![w] = [at |-> "send", job |-> [block |-> b, err |-> jobErr(b)]]]
  /\ UNCHANGED <<jobs, out, workerFrame>>

\* Mutant: a send that does not block.
SendResultOrDrop(w) ==
  /\ worker[w].at = "send"
  /\ out' = IF Len(out) < BatchSize THEN Append(out, worker[w].job) ELSE out
  /\ worker' = [worker EXCEPT ![w] =
       [at |-> IF worker[w].job.err = "stopped" THEN "gone" ELSE "select", job |-> NoJob]]
  /\ UNCHANGED <<jobs, workerFrame>>

\* out <- job, whoever still receives; a stopped worker returns after it.
SendResult(w) ==
  /\ worker[w].at = "send" /\ Len(out) < BatchSize
  /\ out' = Append(out, worker[w].job)
  /\ worker' = [worker EXCEPT ![w] =
       [at |-> IF worker[w].job.err = "stopped" THEN "gone" ELSE "select", job |-> NoJob]]
  /\ UNCHANGED <<jobs, workerFrame>>
-----------------------------------------------------------------------------
(***************************************************************************)
(* The collector.                                                          *)
(***************************************************************************)
collectorFrame == <<kind, main, next, jobs, closed, worker, quit, min, db>>

\* case <-quitCh, or a closed and empty out: return.
StopCollecting ==
  /\ collector.at = "select"
  /\ \/ quit
     \/ out = <<>> /\ "out" \in closed
  /\ collector' = [at |-> "exit", job |-> NoJob]
  /\ UNCHANGED <<out, collected, cancelled, failed, collectorFrame>>

\* case j, ok = <-out: an error is reported under its block; a failed Collect
\* is reported as j.err, which is nil there.
Collect ==
  /\ collector.at = "select" /\ out # <<>>
  /\ out' = Tail(out)
  /\ LET j == Head(out) IN
     \/ /\ j.err # "nil"
        /\ collector' = [at |-> "report", job |-> j]
        /\ UNCHANGED <<collected, failed>>
     \/ /\ j.err = "nil"
        /\ collected' = collected \cup {j.block}
        /\ UNCHANGED <<collector, failed>>
     \/ /\ j.err = "nil" /\ CollectFails
        /\ collector' = [at |-> "report", job |-> NoJob]
        /\ failed' = TRUE
        /\ UNCHANGED collected
  /\ UNCHANGED <<cancelled, collectorFrame>>

\* The deferred calls: cancelWorkers, then close(errCh).
CollectorExit ==
  /\ collector.at = "exit"
  /\ collector' = [at |-> "gone", job |-> NoJob]
  /\ cancelled' = TRUE
  /\ UNCHANGED <<out, collected, failed, collectorFrame>>
-----------------------------------------------------------------------------
\* The node is stopped while the stage runs.
Quit ==
  /\ Quits /\ ~quit /\ main # "done"
  /\ quit' = TRUE
  /\ UNCHANGED <<kind, worker, out, collector, collected, failed, mainVars>>

Main == \/ Iterate \/ SendJob \/ ReceiveClosed \/ ReceiveReport \/ CloseJobs
        \/ WaitWorkers \/ DrainReport \/ DrainDone \/ Conclude
Worker(w) == TakeJob(w) \/ StopWaiting(w) \/ Recover(w) \/ SendResult(w)
Collector == StopCollecting \/ Collect \/ CollectorExit

Next == Main \/ (\E w \in Workers : Worker(w)) \/ Collector \/ Quit

Spec == Init /\ [][Next]_vars

\* The Go scheduler runs every goroutine that can run; the node need not stop.
FairSpec == Spec /\ WF_vars(Main) /\ WF_vars(Collector)
                 /\ \A w \in Workers : WF_vars(Worker(w))
-----------------------------------------------------------------------------
(***************************************************************************)
(* Properties.                                                             *)
(***************************************************************************)
Stage == INSTANCE SenderStage WITH disturbed <- quit \/ failed

\* The stage keeps its promise (stage_senders.go:198-308): whatever the
\* goroutines do, undisturbed calls store the senders of all blocks up to the
\* new progress, or name a block that is really bad; disturbed ones at least
\* never store senders that were not recovered.
KeepsPromise == Stage!Spec

\* When the stage concludes, no goroutine of it is left that could still use
\* the collector, the crypto contexts or send to a closed channel
\* (stage_senders.go:263-265, 359 "prevent sending to close channel").
NothingOutlivesTheStage ==
  main = "end" => /\ collector.at = "gone"
                  /\ \A w \in Workers : worker[w].at = "gone"

\* No block is lost on its way (stage_senders.go:198-261): as long as nothing
\* went wrong, each block that needs its senders and lies behind the cursor is
\* in exactly one of: jobs, a worker, out, the collector.
Places(b) == {<<"jobs", i>> : i \in {i \in DOMAIN jobs : jobs[i] = b}}
        \cup {<<"worker", w>> : w \in {w \in Workers : worker[w].job.block = b}}
        \cup {<<"out", i>> : i \in {i \in DOMAIN out : out[i].block = b}}
        \cup {<<"collector", b>> : c \in {c \in {collector} : c.job.block = b}}
        \cup {<<"collected", b>> : c \in collected \cap {b}}

NoBlockLost ==
  ~quit /\ ~failed /\ min.err = "nil" /\ collector.at \in {"select", "report"} =>
    \A b \in Blocks : NeedsJob(b) /\ b < next => Cardinality(Places(b)) = 1

\* The stage returns if its jobs fit into a channel, or if nothing disturbs it
\* and no block is bad (stage_senders.go:119-120, 359-365): the collector may
\* leave results behind, but then the workers still find room for theirs.
Undisturbed == ~quit /\ ~failed /\ Stage!Bad = {}

StageEnds ==
  (Cardinality({b \in Blocks : NeedsJob(b)}) <= BatchSize \/ []Undisturbed)
    => <>(main = "done")

\* The stage always returns (stage.go:47 "Should always end with `s.Done()` to
\* allow going to the next stage").
AlwaysEnds == <>(main = "done")

\* What the README of the stages promises, without a condition
\* (README.md:84 "recovers and stores senders for each transaction in each
\* downloaded block").
StoresAllSenders ==
  db.result = "updated" => \A b \in Blocks : NeedsJob(b) => b \in db.senders
=============================================================================
