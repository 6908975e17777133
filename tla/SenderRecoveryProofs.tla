------------------------ MODULE SenderRecoveryProofs ------------------------
(***************************************************************************)
(* For any number of blocks and workers and any capacity of the channels:  *)
(* the goroutines of the Senders stage implement SenderStage, none of them *)
(* is left when the stage concludes, and no block is lost between them.    *)
(***************************************************************************)
EXTENDS SenderRecovery, FiniteSetTheorems, TLAPS

\* The inductive invariant behind KeepsPromise and NothingOutlivesTheStage.
\* A result is right about its block unless quit came in between; the channels
\* are closed in order, out after the last worker has gone; and as long as
\* nothing went wrong (Clean) a block behind the cursor is somewhere on its way,
\* a worker goes only when no job is left, the collector when no result is.
Clean == ~quit /\ ~failed /\ min.err = "nil"

ResultIsRight(j) ==
  /\ j.block \in Blocks /\ NeedsJob(j.block)
  /\ j.err = "nil" => kind[j.block] = "good"
  /\ j.err = "invalid" => kind[j.block] = "bad"
  /\ j.err = "stopped" => quit \/ collector.at \in {"exit", "gone"}

OnItsWay(b) ==
  \/ \E i \in DOMAIN jobs : jobs[i] = b
  \/ \E w \in Workers : worker[w].job.block = b
  \/ \E i \in DOMAIN out : out[i].block = b
  \/ collector.job.block = b
  \/ b \in collected

JobsRight == \A i \in DOMAIN jobs : NeedsJob(jobs[i])
WorkersRight ==
  \A w \in Workers :
    /\ worker[w].at \in {"select", "gone"} => worker[w].job = NoJob
    /\ worker[w].at = "recover" => worker[w].job.block \in Blocks
                                   /\ NeedsJob(worker[w].job.block)
    /\ worker[w].at = "send" => ResultIsRight(worker[w].job)
OutRight == \A i \in DOMAIN out : ResultIsRight(out[i])
ReportRight ==
  collector.at = "report" => \/ collector.job = NoJob /\ failed
                             \/ collector.job.err # "nil" /\ ResultIsRight(collector.job)
CollectedRight == \A b \in collected : kind[b] = "good"
MinRight ==
  /\ min.err # "nil" => min.num \in Blocks /\ (quit \/ kind[min.num] = "bad")
  /\ min.err = "nil" => min.num = MaxBlockNum
CancelRight == cancelled => quit \/ collector.at \in {"exit", "gone"}

ResultsRight == /\ JobsRight /\ WorkersRight /\ OutRight /\ ReportRight
                /\ CollectedRight /\ MinRight /\ CancelRight

InOrder ==
  /\ main \in {"loop", "select"} => closed = {}
  /\ main = "wait" => closed = {"jobs"}
  /\ main \in {"drain", "end"} => closed = {"jobs", "out"}
  /\ "out" \in closed => \A w \in Workers : worker[w].at = "gone"
  /\ main = "end" => collector.at = "gone"
  /\ main = "select" => next \in Blocks /\ NeedsJob(next)
  /\ db.result = "none" <=> main # "done"

NothingLost ==
  Clean =>
    /\ \A b \in Blocks : NeedsJob(b) /\ b < next => OnItsWay(b)
    /\ collector.at \in {"exit", "gone"} => out = <<>> /\ "out" \in closed
    /\ "jobs" \in closed => next = To + 1
    /\ \A w \in Workers : worker[w].at = "gone" => jobs = <<>> /\ "jobs" \in closed
    /\ collector.at # "report" => collector.job = NoJob

SenderInv == TypeOK /\ ResultsRight /\ InOrder /\ NothingLost

-----------------------------------------------------------------------------
(* The states have their types.                                            *)
LEMMA TypesStep == SenderInv /\ [Next]_vars => TypeOK'
<1> SUFFICES ASSUME SenderInv, [Next]_vars PROVE TypeOK'
  OBVIOUS
<1> USE SenderAssumption DEF TypeOK, Job, NoJob, MaxBlockNum, NoUnwind, Blocks
<1>a. TypeOK
  BY DEF SenderInv
<1>b. ResultsRight /\ InOrder
  BY DEF SenderInv
<1> USE <1>a
<1>1. CASE Iterate
  <2>1. CASE quit
    <3>1. db' = [db EXCEPT !.result = "error"] /\ main' = "done" /\ cancelled' = TRUE
      BY <1>1, <2>1 DEF Iterate, ReturnError
    <3>2. db' \in [senders : SUBSET Blocks, progress : 0..To, unwind : -1..To,
                   result : {"none", "updated", "unwound", "error"}]
      BY <3>1, Zenon
    <3>3. UNCHANGED <<next, jobs, closed, min, othersVars>>
      BY <1>1, <2>1 DEF Iterate
    <3> HIDE DEF Job, Blocks, MaxBlockNum
    <3> QED
      BY <3>1, <3>2, <3>3, Zenon DEF othersVars
  <2>2. CASE ~quit
    <3>1. next' \in 1..(To + 1) /\ main' \in {"loop", "select"}
      BY <1>1, <2>2 DEF Iterate
    <3> QED
      BY <1>1, <2>2, <3>1 DEF Iterate, othersVars
  <2> QED
    BY <2>1, <2>2, Zenon
<1>2. CASE SendJob
  BY <1>2, <1>b DEF SendJob, othersVars, InOrder
<1>3. CASE ReceiveClosed
  BY <1>3, <1>b DEF ReceiveClosed, DropJob, othersVars, InOrder
<1>4. CASE ReceiveReport
  <2>1. collector' \in [at : {"select", "report", "exit", "gone"}, job : Job]
    BY <1>4, Zenon DEF ReceiveReport, Reported
  <2>2. CASE collector.job.err = "nil"
    <3>1. next' \in 1..(To + 1)
      BY <1>4, <2>2, <1>b DEF ReceiveReport, DropJob, InOrder
    <3>2. main' = "loop" /\ UNCHANGED <<jobs, closed, min, db, cancelled>>
      BY <1>4, <2>2, Zenon DEF ReceiveReport, DropJob
    <3>3. UNCHANGED <<kind, worker, out, collected, quit, failed>>
      BY <1>4, Zenon DEF ReceiveReport
    <3> QED
      BY <2>1, <3>1, <3>2, <3>3, Zenon
  <2>3. CASE collector.job.err # "nil"
    <3>1. collector.job.block \in Blocks
      BY <1>4, <2>3, <1>b DEF ReceiveReport, ResultsRight, ReportRight, OutRight, ResultIsRight
    <3>2. min' \in [num : 1..MaxBlockNum, err : {"nil", "invalid", "stopped"}]
      BY <1>4, <2>3, <3>1 DEF ReceiveReport, handleRecoverErr
    <3>3. closed' = closed \cup {"jobs"} /\ main' = "wait" /\ cancelled' = TRUE
      BY <1>4, <2>3 DEF ReceiveReport
    <3>4. UNCHANGED <<next, jobs, db, kind, worker, out, collected, quit, failed>>
      BY <1>4, <2>3 DEF ReceiveReport
    <3> HIDE DEF Job, Blocks, MaxBlockNum
    <3> QED
      BY <2>1, <3>2, <3>3, <3>4
  <2> QED
    BY <2>2, <2>3, Zenon
<1>5. CASE CloseJobs
  BY <1>5 DEF CloseJobs, othersVars
<1>6. CASE WaitWorkers
  BY <1>6 DEF WaitWorkers, othersVars
<1>7. CASE DrainReport
  <2>1. collector' \in [at : {"select", "report", "exit", "gone"}, job : Job]
    BY <1>7, Zenon DEF DrainReport, Reported
  <2>2. min' \in [num : 1..MaxBlockNum, err : {"nil", "invalid", "stopped"}]
    <3>1. CASE collector.job.err # "nil"
      <4>1. collector.job.block \in Blocks
        BY <1>7, <3>1, <1>b DEF DrainReport, ResultsRight, ReportRight, OutRight, ResultIsRight
      <4> QED
        BY <1>7, <3>1, <4>1 DEF DrainReport, handleRecoverErr
    <3> QED
      BY <1>7, <3>1 DEF DrainReport
  <2>3. cancelled' \in BOOLEAN
    BY <1>7, Zenon DEF DrainReport
  <2> QED
    BY <1>7, <2>1, <2>2, <2>3 DEF DrainReport
<1>8. CASE DrainDone
  BY <1>8 DEF DrainDone, othersVars
<1>9. CASE Conclude
  <2>1. db' \in [senders : SUBSET Blocks, progress : 0..To, unwind : -1..To,
                 result : {"none", "updated", "unwound", "error"}]
    <3>1. CASE min.err # "nil"
      <4>1. min.num - 1 \in -1..To
        OBVIOUS
      <4> QED
        BY <1>9, <3>1, <4>1, Zenon DEF Conclude
    <3>2. CASE min.err = "nil"
      <4>1. db' = [db EXCEPT !.result = "error"]
            \/ db' = [db EXCEPT !.senders = @ \cup collected, !.progress = To,
                                !.result = "updated"]
        BY <1>9, <3>2 DEF Conclude
      <4>2. CASE db' = [db EXCEPT !.result = "error"]
        BY <4>2, Zenon
      <4>3. CASE db' = [db EXCEPT !.senders = @ \cup collected, !.progress = To,
                                  !.result = "updated"]
        <5>1. db.senders \cup collected \in SUBSET Blocks
          <6> HIDE DEF Blocks
          <6> QED
            OBVIOUS
        <5>2. To \in 0..To
          OBVIOUS
        <5> HIDE DEF Blocks
        <5> QED
          BY <4>3, <5>1, <5>2, Zenon
      <4> QED
        BY <4>1, <4>2, <4>3
    <3> QED
      BY <3>1, <3>2
  <2>2. main' = "done" /\ cancelled' = TRUE
    BY <1>9 DEF Conclude
  <2>3. UNCHANGED <<next, jobs, closed, min, othersVars>>
    BY <1>9 DEF Conclude
  <2> HIDE DEF Job, Blocks, MaxBlockNum
  <2> QED
    BY <2>1, <2>2, <2>3 DEF othersVars
<1>10. ASSUME NEW w \in Workers, TakeJob(w) PROVE TypeOK'
  <2>1. Head(jobs) \in Blocks /\ Tail(jobs) \in Seq(Blocks) /\ Len(Tail(jobs)) <= BatchSize
    <3>1. jobs \in Seq(Blocks) /\ jobs # <<>> /\ Len(jobs) <= BatchSize
      BY <1>10 DEF TakeJob
    <3> HIDE <1>a DEF TypeOK, Job, NoJob, Blocks, MaxBlockNum
    <3> QED
      BY <3>1
  <2>2. [block |-> Head(jobs), err |-> "nil"] \in Job
    BY <2>1
  <2>3. worker' \in [Workers -> [at : {"select", "recover", "send", "gone"}, job : Job]]
    <3>1. worker' = [worker EXCEPT ![w] = [at |-> "recover",
                                          job |-> [block |-> Head(jobs), err |-> "nil"]]]
      BY <1>10 DEF TakeJob
    <3> HIDE DEF Job, Blocks, MaxBlockNum
    <3> QED
      BY <2>2, <3>1
  <2>4. jobs' \in Seq(Blocks) /\ Len(jobs') <= BatchSize
    BY <1>10, <2>1 DEF TakeJob
  <2>5. UNCHANGED <<out, workerFrame>>
    BY <1>10 DEF TakeJob
  <2> HIDE DEF Job, Blocks, MaxBlockNum
  <2> QED
    BY <2>3, <2>4, <2>5 DEF workerFrame
<1>11. ASSUME NEW w \in Workers, StopWaiting(w) PROVE TypeOK'
  BY <1>11 DEF StopWaiting, workerFrame
<1>12. ASSUME NEW w \in Workers, Recover(w) PROVE TypeOK'
  <2>1. jobErr(worker[w].job.block) \in {"nil", "invalid", "stopped"}
    BY DEF jobErr
  <2>2. [block |-> worker[w].job.block, err |-> jobErr(worker[w].job.block)] \in Job
    BY <2>1
  <2>3. worker' \in [Workers -> [at : {"select", "recover", "send", "gone"}, job : Job]]
    BY <1>12, <2>2 DEF Recover
  <2> QED
    BY <1>12, <2>3 DEF Recover, workerFrame
<1>13. ASSUME NEW w \in Workers, SendResult(w) PROVE TypeOK'
  BY <1>13 DEF SendResult, workerFrame
<1>14. CASE StopCollecting
  BY <1>14 DEF StopCollecting, collectorFrame
<1>15. CASE Collect
  <2>1. Head(out) \in Job /\ Tail(out) \in Seq(Job) /\ Len(Tail(out)) <= BatchSize
    <3> HIDE DEF Job
    <3> QED
      BY <1>15 DEF Collect
  <2>2. collector' \in [at : {"select", "report", "exit", "gone"}, job : Job]
    <3>1. NoJob \in Job
      OBVIOUS
    <3> HIDE DEF Job, NoJob
    <3> QED
      BY <1>15, <2>1, <3>1 DEF Collect
  <2>3. collected' \subseteq Blocks
    <3>1. Head(out).block \in Blocks
      <4>1. 1 \in DOMAIN out /\ Head(out) = out[1]
        BY <1>15 DEF Collect
      <4> QED
        BY <4>1, <1>b DEF ResultsRight, ReportRight, OutRight, ResultIsRight
    <3>2. collected' = collected \/ collected' = collected \cup {Head(out).block}
      BY <1>15, Zenon DEF Collect
    <3>3. collected \subseteq Blocks
      OBVIOUS
    <3> QED
      BY <3>1, <3>2, <3>3, Zenon
  <2>4. failed' \in BOOLEAN
    BY <1>15, Zenon DEF Collect
  <2>5. /\ UNCHANGED <<kind, main, next, jobs, closed, worker, quit, min, db, cancelled>>
        /\ out' \in Seq(Job) /\ Len(out') <= BatchSize
    BY <1>15, <2>1 DEF Collect, collectorFrame
  <2> HIDE DEF Job
  <2> QED
    BY <2>2, <2>3, <2>4, <2>5, Zenon
<1>16. CASE CollectorExit
  BY <1>16 DEF CollectorExit, collectorFrame
<1>17. CASE Quit
  BY <1>17 DEF Quit, mainVars
<1>18. CASE UNCHANGED vars
  BY <1>18 DEF vars
<1> QED
  <2> HIDE DEF TypeOK
  <2> QED
    BY <1>1, <1>2, <1>3, <1>4, <1>5, <1>6, <1>7, <1>8, <1>9, <1>10, <1>11,
       <1>12, <1>13, <1>14, <1>15, <1>16, <1>17, <1>18
    DEF Next, Main, Worker, Collector
-----------------------------------------------------------------------------
(* What Head, Tail and Append do to the elements of a channel.             *)
LEMMA TailElements ==
  ASSUME NEW S, NEW s \in Seq(S), s # <<>>
  PROVE  /\ 1 \in DOMAIN s /\ s[1] = Head(s)
         /\ \A i \in DOMAIN Tail(s) : /\ i \in Nat /\ i > 0
                                      /\ i + 1 \in DOMAIN s /\ s[i + 1] = Tail(s)[i]
         /\ \A i \in DOMAIN s : i = 1 \/ (i - 1 \in DOMAIN Tail(s) /\ Tail(s)[i - 1] = s[i])
  OBVIOUS

LEMMA AppendElements ==
  ASSUME NEW S, NEW s \in Seq(S), NEW x \in S
  PROVE  /\ \A i \in DOMAIN s : i \in DOMAIN Append(s, x) /\ Append(s, x)[i] = s[i]
         /\ Len(s) + 1 \in DOMAIN Append(s, x) /\ Append(s, x)[Len(s) + 1] = x
         /\ \A i \in DOMAIN Append(s, x) :
              \/ i \in DOMAIN s /\ Append(s, x)[i] = s[i]
              \/ i = Len(s) + 1 /\ Append(s, x)[i] = x
  OBVIOUS

(* kind never changes, quit is never taken back and the collector never    *)
(* comes back: what is right stays right while it is not touched.          *)
LEMMA Monotone ==
  ASSUME TypeOK, [Next]_vars
  PROVE  /\ kind' = kind
         /\ quit => quit'
         /\ collector.at \in {"exit", "gone"} => collector'.at \in {"exit", "gone"}
<1>1. kind' = kind /\ (quit => quit')
  BY DEF Next, Main, Worker, Collector, Iterate, SendJob, ReceiveClosed, ReceiveReport,
     CloseJobs, WaitWorkers, DrainReport, DrainDone, Conclude, TakeJob, StopWaiting,
     Recover, SendResult, StopCollecting, Collect, CollectorExit, Quit, vars,
     othersVars, workerFrame, collectorFrame
<1>2. collector.at \in {"exit", "gone"} => collector'.at \in {"exit", "gone"}
  <2> SUFFICES ASSUME collector.at \in {"exit", "gone"} PROVE collector'.at \in {"exit", "gone"}
    OBVIOUS
  <2>1. CASE collector' = collector
    BY <2>1
  <2>2. CASE collector' = [at |-> "gone", job |-> NoJob]
    BY <2>2
  <2>3. collector' = collector \/ collector' = [at |-> "gone", job |-> NoJob]
    BY DEF Next, Main, Worker, Collector, Iterate, SendJob, ReceiveClosed, ReceiveReport,
       CloseJobs, WaitWorkers, DrainReport, DrainDone, Conclude, TakeJob, StopWaiting,
       Recover, SendResult, StopCollecting, Collect, CollectorExit, Quit, vars,
       othersVars, workerFrame, collectorFrame, mainVars
  <2> QED
    BY <2>1, <2>2, <2>3
<1> QED
  BY <1>1, <1>2

LEMMA RightFrame ==
  ASSUME SenderInv, [Next]_vars
  PROVE  /\ \A j : ResultIsRight(j) => ResultIsRight(j)'
         /\ jobs' = jobs => JobsRight'
         /\ worker' = worker => WorkersRight'
         /\ out' = out => OutRight'
         /\ collector' = collector /\ failed' = failed => ReportRight'
         /\ collected' = collected => CollectedRight'
         /\ min' = min => MinRight'
         /\ cancelled' = cancelled => CancelRight'
<1>a. TypeOK /\ ResultsRight
  BY DEF SenderInv
<1>1. kind' = kind
  BY <1>a, Monotone
<1>2. quit => quit'
  BY <1>a, Monotone
<1>3. collector.at \in {"exit", "gone"} => collector'.at \in {"exit", "gone"}
  BY <1>a, Monotone
<1>4. ASSUME NEW j, ResultIsRight(j) PROVE ResultIsRight(j)'
  BY <1>1, <1>2, <1>3, <1>4 DEF ResultIsRight, NeedsJob
<1>5. jobs' = jobs => JobsRight'
  BY <1>a, <1>1 DEF ResultsRight, JobsRight, NeedsJob
<1>6. worker' = worker => WorkersRight'
  BY <1>a, <1>1, <1>4 DEF ResultsRight, WorkersRight, NeedsJob
<1>7. out' = out => OutRight'
  BY <1>a, <1>4 DEF ResultsRight, OutRight
<1>8. collector' = collector /\ failed' = failed => ReportRight'
  BY <1>a, <1>4 DEF ResultsRight, ReportRight
<1>9. collected' = collected => CollectedRight'
  BY <1>a, <1>1 DEF ResultsRight, CollectedRight
<1>10. min' = min => MinRight'
  BY <1>a, <1>1, <1>2 DEF ResultsRight, MinRight
<1>11. cancelled' = cancelled => CancelRight'
  BY <1>a, <1>2, <1>3 DEF ResultsRight, CancelRight
<1> QED
  BY <1>4, <1>5, <1>6, <1>7, <1>8, <1>9, <1>10, <1>11

LEMMA RightStep == SenderInv /\ [Next]_vars => ResultsRight'
<1> SUFFICES ASSUME SenderInv, [Next]_vars PROVE ResultsRight'
  OBVIOUS
<1>a. TypeOK /\ ResultsRight /\ InOrder
  BY DEF SenderInv
<1>f. /\ jobs' = jobs => JobsRight'
      /\ worker' = worker => WorkersRight'
      /\ out' = out => OutRight'
      /\ collector' = collector /\ failed' = failed => ReportRight'
      /\ collected' = collected => CollectedRight'
      /\ min' = min => MinRight'
      /\ cancelled' = cancelled => CancelRight'
  BY RightFrame
<1>s. \A j : ResultIsRight(j) => ResultIsRight(j)'
  BY RightFrame
<1>k. kind' = kind
  BY <1>a, Monotone
<1>m. ASSUME collector.at = "report", collector.job.err # "nil"
      PROVE  collector.job.block \in Blocks /\ (quit \/ kind[collector.job.block] = "bad")
  <2>1. ResultIsRight(collector.job)
    BY <1>a, <1>m DEF ResultsRight, ReportRight, NoJob
  <2>2. collector.job.err \in {"invalid", "stopped"}
    BY <1>a, <1>m DEF TypeOK, Job
  <2> QED
    BY <1>m, <2>1, <2>2 DEF ResultIsRight
<1> USE DEF ResultsRight
<1>1. CASE Iterate
  <2>1. CancelRight'
    BY <1>1, <1>f, Zenon DEF Iterate, ReturnError, CancelRight, othersVars
  <2> QED
    BY <1>1, <1>f, <2>1 DEF Iterate, othersVars
<1>2. CASE SendJob
  <2>1. next \in Blocks /\ NeedsJob(next)
    BY <1>2, <1>a DEF SendJob, InOrder
  <2>2. \A i \in DOMAIN jobs' : jobs'[i] = next \/ (i \in DOMAIN jobs /\ jobs'[i] = jobs[i])
    BY <1>2, <1>a, <2>1, AppendElements DEF SendJob, TypeOK
  <2>3. JobsRight'
    BY <1>a, <1>k, <2>1, <2>2 DEF JobsRight, NeedsJob
  <2> QED
    BY <1>2, <1>f, <2>3 DEF SendJob, othersVars
<1>3. CASE ReceiveClosed
  BY <1>3, <1>f DEF ReceiveClosed, DropJob, othersVars
<1>4. CASE ReceiveReport
  <2>1. collector'.at = "exit"
    BY <1>4, <1>a DEF ReceiveReport, Reported, TypeOK
  <2>2. ReportRight' /\ CancelRight'
    BY <2>1 DEF ReportRight, CancelRight
  <2>3. MinRight'
    <3>1. CASE collector.job.err = "nil"
      BY <1>4, <3>1, <1>f DEF ReceiveReport, DropJob
    <3>2. CASE collector.job.err # "nil"
      <4>1. min' = min \/ min' = [num |-> collector.job.block, err |-> collector.job.err]
        BY <1>4, <3>2 DEF ReceiveReport, handleRecoverErr
      <4>2. quit' = quit /\ collector.at = "report"
        BY <1>4 DEF ReceiveReport
      <4> QED
        BY <1>f, <1>k, <1>m, <3>2, <4>1, <4>2 DEF MinRight
    <3> QED
      BY <3>1, <3>2
  <2> QED
    BY <1>4, <1>f, <2>2, <2>3 DEF ReceiveReport, DropJob
<1>5. CASE CloseJobs
  BY <1>5, <1>f DEF CloseJobs, othersVars
<1>6. CASE WaitWorkers
  BY <1>6, <1>f DEF WaitWorkers, othersVars
<1>7. CASE DrainReport
  <2>1. collector'.at = "exit"
    BY <1>7, <1>a DEF DrainReport, Reported, TypeOK
  <2>2. ReportRight' /\ CancelRight'
    BY <2>1 DEF ReportRight, CancelRight
  <2>3. MinRight'
    <3>1. CASE collector.job.err = "nil"
      BY <1>7, <3>1, <1>f DEF DrainReport
    <3>2. CASE collector.job.err # "nil"
      <4>1. min' = min \/ min' = [num |-> collector.job.block, err |-> collector.job.err]
        BY <1>7, <3>2 DEF DrainReport, handleRecoverErr
      <4>2. quit' = quit /\ collector.at = "report"
        BY <1>7 DEF DrainReport
      <4> QED
        BY <1>f, <1>k, <1>m, <3>2, <4>1, <4>2 DEF MinRight
    <3> QED
      BY <3>1, <3>2
  <2> QED
    BY <1>7, <1>f, <2>2, <2>3 DEF DrainReport
<1>8. CASE DrainDone
  BY <1>8, <1>f DEF DrainDone, othersVars
<1>9. CASE Conclude
  <2>1. CancelRight'
    BY <1>9, <1>a DEF Conclude, InOrder, CancelRight, othersVars
  <2> QED
    BY <1>9, <1>f, <2>1 DEF Conclude, othersVars
<1>10. ASSUME NEW w \in Workers, TakeJob(w) PROVE ResultsRight'
  <2>1. 1 \in DOMAIN jobs /\ jobs[1] = Head(jobs) /\ Head(jobs) \in Blocks
    BY <1>10, <1>a, TailElements DEF TakeJob, TypeOK
  <2>2. \A i \in DOMAIN jobs' : i + 1 \in DOMAIN jobs /\ jobs[i + 1] = jobs'[i]
    BY <1>10, <1>a, TailElements DEF TakeJob, TypeOK
  <2>3. JobsRight'
    BY <1>a, <1>k, <2>2 DEF JobsRight, NeedsJob
  <2>4. NeedsJob(Head(jobs))
    BY <1>a, <2>1 DEF JobsRight
  <2>5. worker'[w] = [at |-> "recover", job |-> [block |-> Head(jobs), err |-> "nil"]]
    BY <1>10, <1>a DEF TakeJob, TypeOK
  <2>6. \A v \in Workers \ {w} : worker'[v] = worker[v]
    BY <1>10, <1>a DEF TakeJob, TypeOK
  <2>7. WorkersRight'
    BY <1>a, <1>k, <1>s, <2>1, <2>4, <2>5, <2>6 DEF WorkersRight, NeedsJob
  <2> QED
    BY <1>10, <1>f, <2>3, <2>7 DEF TakeJob, workerFrame
<1>11. ASSUME NEW w \in Workers, StopWaiting(w) PROVE ResultsRight'
  <2>1. worker'[w] = [at |-> "gone", job |-> NoJob]
    BY <1>11, <1>a DEF StopWaiting, TypeOK
  <2>2. \A v \in Workers \ {w} : worker'[v] = worker[v]
    BY <1>11, <1>a DEF StopWaiting, TypeOK
  <2>3. WorkersRight'
    BY <1>a, <1>k, <1>s, <2>1, <2>2 DEF WorkersRight, NeedsJob
  <2> QED
    BY <1>11, <1>f, <2>3 DEF StopWaiting, workerFrame
<1>12. ASSUME NEW w \in Workers, Recover(w) PROVE ResultsRight'
  <2> DEFINE b == worker[w].job.block
             j == [block |-> b, err |-> jobErr(b)]
  <2>1. worker'[w] = [at |-> "send", job |-> j]
    BY <1>12, <1>a DEF Recover, TypeOK
  <2>2. \A v \in Workers \ {w} : worker'[v] = worker[v]
    BY <1>12, <1>a DEF Recover, TypeOK
  <2>3. b \in Blocks /\ NeedsJob(b)
    BY <1>12, <1>a DEF Recover, WorkersRight
  <2>4. jobErr(b) = "nil" => kind[b] = "good"
    BY <2>3 DEF jobErr, NeedsJob
  <2>5. jobErr(b) = "invalid" => kind[b] = "bad"
    BY DEF jobErr
  <2>6. jobErr(b) = "stopped" => quit \/ collector.at \in {"exit", "gone"}
    BY <1>a DEF jobErr, CancelRight
  <2>7. ResultIsRight(j)
    BY <2>3, <2>4, <2>5, <2>6 DEF ResultIsRight
  <2>8. WorkersRight'
    <3> HIDE DEF j
    <3> QED
      BY <1>a, <1>k, <1>s, <2>1, <2>2, <2>7 DEF WorkersRight, NeedsJob
  <2> QED
    BY <1>12, <1>f, <2>8 DEF Recover, workerFrame
<1>13. ASSUME NEW w \in Workers, SendResult(w) PROVE ResultsRight'
  <2>1. worker[w].job \in Job /\ ResultIsRight(worker[w].job)
    BY <1>13, <1>a DEF SendResult, WorkersRight, TypeOK
  <2>2. \A i \in DOMAIN out' : out'[i] = worker[w].job \/ (i \in DOMAIN out /\ out'[i] = out[i])
    BY <1>13, <1>a, <2>1, AppendElements DEF SendResult, TypeOK
  <2>3. OutRight'
    BY <1>a, <1>s, <2>1, <2>2 DEF OutRight
  <2>4. worker'[w].at \in {"gone", "select"} /\ worker'[w].job = NoJob
    BY <1>13, <1>a DEF SendResult, TypeOK
  <2>5. \A v \in Workers \ {w} : worker'[v] = worker[v]
    BY <1>13, <1>a DEF SendResult, TypeOK
  <2>6. WorkersRight'
    BY <1>a, <1>k, <1>s, <2>4, <2>5 DEF WorkersRight, NeedsJob
  <2> QED
    BY <1>13, <1>f, <2>3, <2>6 DEF SendResult, workerFrame
<1>14. CASE StopCollecting
  <2>1. ReportRight' /\ CancelRight'
    BY <1>14 DEF StopCollecting, ReportRight, CancelRight
  <2> QED
    BY <1>14, <1>f, <2>1 DEF StopCollecting, collectorFrame
<1>15. CASE Collect
  <2>1. 1 \in DOMAIN out /\ out[1] = Head(out) /\ Head(out) \in Job
    <3>1. out \in Seq(Job) /\ out # <<>>
      BY <1>15, <1>a DEF Collect, TypeOK
    <3> QED
      BY <3>1, TailElements
  <2>2. \A i \in DOMAIN out' : i + 1 \in DOMAIN out /\ out[i + 1] = out'[i]
    BY <1>15, <1>a, TailElements DEF Collect, TypeOK
  <2>3. OutRight'
    BY <1>a, <1>s, <2>2 DEF OutRight
  <2>4. ResultIsRight(Head(out))
    BY <1>a, <2>1 DEF OutRight
  <2>5. CancelRight'
    BY <1>15, <1>f DEF Collect, collectorFrame
  <2>6. ReportRight' /\ CollectedRight'
    <3>1. CASE Head(out).err # "nil" /\ collector' = [at |-> "report", job |-> Head(out)]
               /\ UNCHANGED <<collected, failed>>
      BY <3>1, <1>f, <1>s, <2>4 DEF ReportRight
    <3>2. CASE Head(out).err = "nil" /\ collected' = collected \cup {Head(out).block}
               /\ UNCHANGED <<collector, failed>>
      <4>1. kind[Head(out).block] = "good"
        BY <3>2, <2>4 DEF ResultIsRight
      <4> QED
        BY <1>a, <1>f, <1>k, <3>2, <4>1 DEF CollectedRight
    <3>3. CASE collector' = [at |-> "report", job |-> NoJob] /\ failed' = TRUE
               /\ UNCHANGED collected
      BY <3>3, <1>f DEF ReportRight
    <3> QED
      BY <1>15, <3>1, <3>2, <3>3, Zenon DEF Collect
  <2> QED
    BY <1>15, <1>f, <2>3, <2>5, <2>6 DEF Collect, collectorFrame
<1>16. CASE CollectorExit
  <2>1. ReportRight' /\ CancelRight'
    BY <1>16 DEF CollectorExit, ReportRight, CancelRight
  <2> QED
    BY <1>16, <1>f, <2>1 DEF CollectorExit, collectorFrame
<1>17. CASE Quit
  BY <1>17, <1>f DEF Quit, mainVars
<1>18. CASE UNCHANGED vars
  BY <1>18, <1>f DEF vars
<1> QED
  <2> HIDE DEF ResultsRight
  <2> QED
    BY <1>1, <1>2, <1>3, <1>4, <1>5, <1>6, <1>7, <1>8, <1>9, <1>10, <1>11,
       <1>12, <1>13, <1>14, <1>15, <1>16, <1>17, <1>18
    DEF Next, Main, Worker, Collector
-----------------------------------------------------------------------------
(* Channels are closed in the order the stage promises: jobs behind the    *)
(* last job, out behind the last worker.                                   *)
LEMMA OrderStep == SenderInv /\ [Next]_vars => InOrder'
<1> SUFFICES ASSUME SenderInv, [Next]_vars PROVE InOrder'
  OBVIOUS
<1>a. TypeOK /\ ResultsRight /\ InOrder
  BY DEF SenderInv
<1>k. kind' = kind
  BY <1>a, Monotone
<1> USE DEF InOrder
<1>1. CASE Iterate
  <2>1. CASE quit
    BY <1>1, <1>a, <2>1 DEF Iterate, ReturnError, othersVars, TypeOK
  <2>2. CASE ~quit
    BY <1>1, <1>a, <1>k, <2>2 DEF Iterate, othersVars, NeedsJob, TypeOK, Blocks
  <2> QED
    BY <2>1, <2>2
<1>2. CASE SendJob
  BY <1>2, <1>a DEF SendJob, othersVars
<1>3. CASE ReceiveClosed
  BY <1>3, <1>a DEF ReceiveClosed, DropJob, othersVars
<1>4. CASE ReceiveReport
  BY <1>4, <1>a DEF ReceiveReport, DropJob
<1>5. CASE CloseJobs
  BY <1>5, <1>a DEF CloseJobs, othersVars
<1>6. CASE WaitWorkers
  BY <1>6, <1>a DEF WaitWorkers, othersVars
<1>7. CASE DrainReport
  BY <1>7, <1>a DEF DrainReport
<1>8. CASE DrainDone
  BY <1>8, <1>a DEF DrainDone, othersVars
<1>9. CASE Conclude
  <2>1. db'.result # "none"
    BY <1>9, <1>a DEF Conclude, TypeOK
  <2> QED
    BY <1>9, <1>a, <2>1 DEF Conclude, othersVars
<1>10. ASSUME NEW w \in Workers, Worker(w) PROVE InOrder'
  <2>1. worker[w].at # "gone" /\ UNCHANGED workerFrame
    BY <1>10 DEF Worker, TakeJob, StopWaiting, Recover, SendResult
  <2>2. "out" \notin closed
    BY <1>a, <2>1
  <2> QED
    BY <1>a, <1>k, <2>1, <2>2 DEF workerFrame, NeedsJob
<1>11. CASE Collector
  <2>1. collector.at # "gone" /\ UNCHANGED collectorFrame
    BY <1>11 DEF Collector, StopCollecting, Collect, CollectorExit
  <2> QED
    BY <1>a, <2>1 DEF collectorFrame, NeedsJob
<1>12. CASE Quit
  BY <1>12, <1>a DEF Quit, mainVars, NeedsJob
<1>13. CASE UNCHANGED vars
  BY <1>13, <1>a DEF vars, NeedsJob
<1> QED
  <2> HIDE DEF InOrder
  <2> QED
    BY <1>1, <1>2, <1>3, <1>4, <1>5, <1>6, <1>7, <1>8, <1>9, <1>10, <1>11,
       <1>12, <1>13 DEF Next, Main
-----------------------------------------------------------------------------
(* As long as nothing went wrong no block is lost.                         *)
LEMMA CleanBefore ==
  ASSUME SenderInv, [Next]_vars, Clean'
  PROVE  Clean /\ min' = min
<1>a. TypeOK /\ ResultsRight /\ InOrder
  BY DEF SenderInv
<1>1. ~quit /\ ~failed
  <2>1. quit => quit'
    BY <1>a, Monotone
  <2>2. failed => failed'
    BY Zenon DEF Next, Main, Worker, Collector, Iterate, SendJob, ReceiveClosed, ReceiveReport,
       CloseJobs, WaitWorkers, DrainReport, DrainDone, Conclude, TakeJob, StopWaiting,
       Recover, SendResult, StopCollecting, Collect, CollectorExit, Quit, vars,
       othersVars, workerFrame, collectorFrame
  <2> QED
    BY <2>1, <2>2 DEF Clean
<1>2. min' = min
  <2>1. CASE ReceiveReport \/ DrainReport
    <3>1. CASE collector.job.err = "nil"
      BY <2>1, <3>1 DEF ReceiveReport, DrainReport, DropJob
    <3>2. CASE collector.job.err # "nil"
      BY <2>1, <3>2 DEF ReceiveReport, DrainReport, handleRecoverErr, Clean
    <3> QED
      BY <3>1, <3>2
  <2> QED
    BY <2>1 DEF Next, Main, Worker, Collector, Iterate, SendJob, ReceiveClosed,
       CloseJobs, WaitWorkers, DrainDone, Conclude, TakeJob, StopWaiting, DropJob,
       Recover, SendResult, StopCollecting, Collect, CollectorExit, Quit, vars,
       workerFrame, collectorFrame, mainVars
<1> QED
  BY <1>1, <1>2 DEF Clean

(* A report that leaves the stage clean is impossible.                     *)
LEMMA ReportSpoils ==
  ASSUME SenderInv, [Next]_vars, Clean'
  PROVE  ~ReceiveReport /\ ~DrainReport
<1> SUFFICES ASSUME ReceiveReport \/ DrainReport PROVE FALSE
  OBVIOUS
<1>a. TypeOK /\ ResultsRight /\ InOrder
  BY DEF SenderInv
<1>1. Clean /\ min' = min
  BY CleanBefore
<1>2. collector.at = "report"
  BY DEF ReceiveReport, DrainReport
<1>3. ResultIsRight(collector.job) /\ collector.job.err # "nil"
  BY <1>a, <1>1, <1>2 DEF ResultsRight, ReportRight, Clean
<1>4. collector.job.block < min.num
  BY <1>a, <1>1, <1>3, SenderAssumption
  DEF ResultIsRight, ResultsRight, MinRight, Clean, MaxBlockNum, Blocks
<1>5. min'.err # "nil"
  BY <1>3, <1>4 DEF ReceiveReport, DrainReport, handleRecoverErr
<1> QED
  BY <1>5 DEF Clean

LEMMA LostStep == SenderInv /\ [Next]_vars => NothingLost'
<1> SUFFICES ASSUME SenderInv, [Next]_vars, Clean'
             PROVE  /\ \A b \in Blocks : NeedsJob(b)' /\ b < next' => OnItsWay(b)'
                    /\ collector'.at \in {"exit", "gone"} => out' = <<>> /\ "out" \in closed'
                    /\ "jobs" \in closed' => next' = To + 1
                    /\ \A w \in Workers : worker'[w].at = "gone" => jobs' = <<>> /\ "jobs" \in closed'
                    /\ collector'.at # "report" => collector'.job = NoJob
  BY DEF NothingLost
<1> DEFINE Way == \A b \in Blocks : NeedsJob(b) /\ b < next => OnItsWay(b)
           Results == collector.at \in {"exit", "gone"} => out = <<>> /\ "out" \in closed
           Cursor == "jobs" \in closed => next = To + 1
           Gone == \A w \in Workers : worker[w].at = "gone" => jobs = <<>> /\ "jobs" \in closed
           Idle == collector.at # "report" => collector.job = NoJob
<1> SUFFICES Way' /\ Results' /\ Cursor' /\ Gone' /\ Idle'
  OBVIOUS
<1>a. TypeOK /\ ResultsRight /\ InOrder
  BY DEF SenderInv
<1>b. Clean
  BY CleanBefore
<1>c. Way /\ Results /\ Cursor /\ Gone /\ Idle
  BY <1>b DEF SenderInv, NothingLost
<1>k. kind' = kind
  BY <1>a, Monotone
<1>n. \A b \in Blocks : NeedsJob(b)' <=> NeedsJob(b)
  BY <1>k DEF NeedsJob
<1>z. \A b \in Blocks : b # NoJob.block
  BY DEF NoJob, Blocks
<1>e. "out" \notin closed => collector.at \in {"select", "report"}
  BY <1>a, <1>c DEF TypeOK
(* A worker that is not gone: out is open, so nobody is cancelled.         *)
<1>w. ASSUME NEW w \in Workers, worker[w].at # "gone"
      PROVE  ~cancelled /\ collector.at \in {"select", "report"}
  <2>1. collector.at \in {"select", "report"}
    BY <1>a, <1>e, <1>w DEF InOrder
  <2> QED
    BY <1>a, <1>b, <2>1 DEF ResultsRight, CancelRight, Clean
<1>1. CASE Iterate
  <2>1. jobs' = jobs /\ worker' = worker /\ out' = out /\ collector' = collector
        /\ collected' = collected /\ closed' = closed
    BY <1>1 DEF Iterate, othersVars
  <2>2. \A b : OnItsWay(b) => OnItsWay(b)'
    BY <2>1 DEF OnItsWay
  <2>3. closed = {}
    BY <1>1, <1>a DEF Iterate, InOrder
  <2>4. next' = next \/ (next' = next + 1 /\ ~NeedsJob(next))
    BY <1>1, <1>b DEF Iterate, Clean
  <2>5. Way'
    <3> SUFFICES ASSUME NEW b \in Blocks, NeedsJob(b), b < next' PROVE OnItsWay(b)'
      BY <1>n
    <3>1. b < next
      BY <1>a, <2>4 DEF TypeOK, Blocks
    <3> QED
      BY <1>c, <2>2, <3>1
  <2> QED
    BY <1>c, <2>1, <2>3, <2>5
<1>2. CASE SendJob
  <2>1. worker' = worker /\ out' = out /\ collector' = collector
        /\ collected' = collected /\ closed' = closed
    BY <1>2 DEF SendJob, othersVars
  <2>2. closed = {} /\ next \in Blocks /\ next' = next + 1
    BY <1>2, <1>a DEF SendJob, InOrder
  <2>3. /\ \A i \in DOMAIN jobs : i \in DOMAIN jobs' /\ jobs'[i] = jobs[i]
        /\ Len(jobs) + 1 \in DOMAIN jobs' /\ jobs'[Len(jobs) + 1] = next
    BY <1>2, <1>a, <2>2, AppendElements DEF SendJob, TypeOK
  <2>4. Way'
    <3> SUFFICES ASSUME NEW b \in Blocks, NeedsJob(b), b < next' PROVE OnItsWay(b)'
      BY <1>n
    <3>1. b < next \/ b = next
      BY <1>a, <2>2 DEF TypeOK, Blocks
    <3>2. CASE b = next
      BY <2>3, <3>2 DEF OnItsWay
    <3>3. CASE b < next
      <4>1. OnItsWay(b)
        BY <1>c, <3>3
      <4> QED
        BY <4>1, <2>1, <2>3 DEF OnItsWay
    <3> QED
      BY <3>1, <3>2, <3>3
  <2> QED
    BY <1>c, <2>1, <2>2, <2>4
<1>3. CASE ReceiveClosed
  BY <1>3, <1>a, <1>c DEF ReceiveClosed, InOrder
<1>4. CASE ReceiveReport \/ DrainReport
  BY <1>4, ReportSpoils
<1>5. CASE CloseJobs \/ WaitWorkers \/ DrainDone \/ Conclude \/ UNCHANGED vars
  <2>1. jobs' = jobs /\ worker' = worker /\ out' = out /\ collector' = collector
        /\ collected' = collected /\ next' = next /\ closed \subseteq closed'
    BY <1>5 DEF CloseJobs, WaitWorkers, DrainDone, Conclude, othersVars, vars
  <2>2. \A b : OnItsWay(b) => OnItsWay(b)'
    BY <2>1 DEF OnItsWay
  <2>3. Way'
    BY <1>c, <1>n, <2>1, <2>2
  <2>4. Cursor'
    <3>1. CASE CloseJobs
      BY <3>1, <1>a, SenderAssumption DEF CloseJobs, TypeOK
    <3>2. CASE ~CloseJobs
      BY <3>2, <1>5, <1>c DEF WaitWorkers, DrainDone, Conclude, vars
    <3> QED
      BY <3>1, <3>2
  <2> QED
    BY <1>c, <2>1, <2>3, <2>4
<1>6. ASSUME NEW w \in Workers, TakeJob(w) PROVE Way' /\ Results' /\ Cursor' /\ Gone' /\ Idle'
  <2>1. out' = out /\ collector' = collector /\ collected' = collected
        /\ next' = next /\ closed' = closed /\ jobs # <<>>
    BY <1>6 DEF TakeJob, workerFrame
  <2>2. worker'[w] = [at |-> "recover", job |-> [block |-> Head(jobs), err |-> "nil"]]
    BY <1>6, <1>a DEF TakeJob, TypeOK
  <2>3. \A v \in Workers \ {w} : worker'[v] = worker[v]
    BY <1>6, <1>a DEF TakeJob, TypeOK
  <2>4. worker[w].job = NoJob
    BY <1>6, <1>a DEF TakeJob, ResultsRight, WorkersRight
  <2>5. \A i \in DOMAIN jobs : jobs[i] = Head(jobs) \/ (i - 1 \in DOMAIN jobs' /\ jobs'[i - 1] = jobs[i])
    BY <1>6, <1>a, <2>1, TailElements DEF TakeJob, TypeOK
  <2>6. Way'
    <3> SUFFICES ASSUME NEW b \in Blocks, NeedsJob(b), b < next PROVE OnItsWay(b)'
      BY <1>n, <2>1
    <3>1. OnItsWay(b)
      BY <1>c
    <3>2. CASE \E i \in DOMAIN jobs : jobs[i] = b
      <4>1. worker'[w].job.block = b \/ \E i \in DOMAIN jobs' : jobs'[i] = b
        BY <2>2, <2>5, <3>2
      <4> QED
        BY <4>1 DEF OnItsWay
    <3>3. CASE \E v \in Workers : worker[v].job.block = b
      <4>1. PICK v \in Workers : worker[v].job.block = b
        BY <3>3
      <4>2. v # w
        BY <4>1, <2>4, <1>z
      <4> QED
        BY <4>1, <4>2, <2>3 DEF OnItsWay
    <3> QED
      BY <2>1, <3>1, <3>2, <3>3 DEF OnItsWay
  <2>7. Gone'
    <3>1. worker'[w].at # "gone"
      BY <2>2
    <3>2. jobs # <<>>
      BY <1>6, Zenon DEF TakeJob
    <3>3. \A v \in Workers : worker[v].at # "gone"
      BY <1>c, <3>2, Zenon
    <3>4. \A v \in Workers : worker'[v].at # "gone"
      BY <2>3, <3>1, <3>3, Zenon
    <3> QED
      BY <3>4, Zenon
  <2> QED
    BY <1>c, <2>1, <2>6, <2>7
<1>7. ASSUME NEW w \in Workers, StopWaiting(w) PROVE Way' /\ Results' /\ Cursor' /\ Gone' /\ Idle'
  <2>1. out' = out /\ collector' = collector /\ collected' = collected
        /\ next' = next /\ closed' = closed /\ jobs' = jobs /\ worker[w].at = "select"
    BY <1>7 DEF StopWaiting, workerFrame
  <2>2. worker'[w] = [at |-> "gone", job |-> NoJob]
    BY <1>7, <1>a DEF StopWaiting, TypeOK
  <2>3. \A v \in Workers \ {w} : worker'[v] = worker[v]
    BY <1>7, <1>a DEF StopWaiting, TypeOK
  <2>4. worker[w].job = NoJob
    BY <2>1, <1>a DEF ResultsRight, WorkersRight
  <2>5. ~cancelled /\ ~quit
    BY <1>b, <1>w, <2>1 DEF Clean
  <2>6. jobs = <<>> /\ "jobs" \in closed
    BY <1>7, <2>5 DEF StopWaiting
  <2>7. Way'
    <3> SUFFICES ASSUME NEW b \in Blocks, NeedsJob(b), b < next PROVE OnItsWay(b)'
      BY <1>n, <2>1
    <3>1. OnItsWay(b)
      BY <1>c
    <3>2. CASE \E v \in Workers : worker[v].job.block = b
      <4>1. PICK v \in Workers : worker[v].job.block = b
        BY <3>2
      <4>2. v # w
        BY <4>1, <2>4, <1>z
      <4> QED
        BY <4>1, <4>2, <2>3 DEF OnItsWay
    <3> QED
      BY <2>1, <3>1, <3>2 DEF OnItsWay
  <2> QED
    BY <1>c, <2>1, <2>6, <2>7
<1>8. ASSUME NEW w \in Workers, Recover(w) PROVE Way' /\ Results' /\ Cursor' /\ Gone' /\ Idle'
  <2>1. out' = out /\ collector' = collector /\ collected' = collected
        /\ next' = next /\ closed' = closed /\ jobs' = jobs
    BY <1>8 DEF Recover, workerFrame
  <2>2. worker'[w].at = "send" /\ worker'[w].job.block = worker[w].job.block
    BY <1>8, <1>a DEF Recover, TypeOK
  <2>3. \A v \in Workers \ {w} : worker'[v] = worker[v]
    BY <1>8, <1>a DEF Recover, TypeOK
  <2>4. \A v \in Workers : worker'[v].job.block = worker[v].job.block
    BY <2>2, <2>3
  <2>5. \A b : OnItsWay(b) => OnItsWay(b)'
    BY <2>1, <2>4 DEF OnItsWay
  <2>6. Way'
    BY <1>c, <1>n, <2>1, <2>5
  <2>7. Gone'
    BY <1>c, <2>1, <2>2, <2>3
  <2> QED
    BY <1>c, <2>1, <2>6, <2>7
<1>9. ASSUME NEW w \in Workers, SendResult(w) PROVE Way' /\ Results' /\ Cursor' /\ Gone' /\ Idle'
  <2>1. collector' = collector /\ collected' = collected
        /\ next' = next /\ closed' = closed /\ jobs' = jobs /\ worker[w].at = "send"
    BY <1>9 DEF SendResult, workerFrame
  <2>2. collector.at \in {"select", "report"}
    BY <1>w, <2>1
  <2>3. worker[w].job \in Job /\ ResultIsRight(worker[w].job)
    BY <1>a, <2>1 DEF ResultsRight, WorkersRight, TypeOK
  <2>4. worker[w].job.err # "stopped"
    BY <1>b, <2>2, <2>3 DEF ResultIsRight, Clean
  <2>5. worker'[w] = [at |-> "select", job |-> NoJob]
    BY <1>9, <1>a, <2>4 DEF SendResult, TypeOK
  <2>6. \A v \in Workers \ {w} : worker'[v] = worker[v]
    BY <1>9, <1>a DEF SendResult, TypeOK
  <2>7. /\ \A i \in DOMAIN out : i \in DOMAIN out' /\ out'[i] = out[i]
        /\ Len(out) + 1 \in DOMAIN out' /\ out'[Len(out) + 1] = worker[w].job
    <3>1. out' = Append(out, worker[w].job)
      BY <1>9, <2>4 DEF SendResult
    <3>2. out \in Seq(Job)
      BY <1>a DEF TypeOK
    <3> QED
      BY <2>3, <3>1, <3>2, AppendElements
  <2>8. Way'
    <3> SUFFICES ASSUME NEW b \in Blocks, NeedsJob(b), b < next PROVE OnItsWay(b)'
      BY <1>n, <2>1
    <3>1. OnItsWay(b)
      BY <1>c
    <3>2. CASE \E v \in Workers : worker[v].job.block = b
      <4>1. PICK v \in Workers : worker[v].job.block = b
        BY <3>2
      <4>2. CASE v = w
        BY <4>1, <4>2, <2>7 DEF OnItsWay
      <4>3. CASE v # w
        BY <4>1, <4>3, <2>6 DEF OnItsWay
      <4> QED
        BY <4>2, <4>3
    <3>3. CASE \E i \in DOMAIN out : out[i].block = b
      BY <3>3, <2>7 DEF OnItsWay
    <3> QED
      BY <2>1, <3>1, <3>2, <3>3 DEF OnItsWay
  <2>9. Gone'
    BY <1>c, <2>1, <2>5, <2>6
  <2> QED
    BY <1>c, <2>1, <2>2, <2>8, <2>9
<1>10. CASE StopCollecting
  <2>1. out' = out /\ collected' = collected /\ next' = next /\ closed' = closed
        /\ jobs' = jobs /\ worker' = worker /\ collector' = [at |-> "exit", job |-> NoJob]
    BY <1>10 DEF StopCollecting, collectorFrame
  <2>2. collector.job = NoJob
    BY <1>10, <1>c DEF StopCollecting
  <2>3. out = <<>> /\ "out" \in closed
    BY <1>10, <1>b DEF StopCollecting, Clean
  <2>4. \A b : OnItsWay(b) => OnItsWay(b)'
    BY <2>1, <2>2 DEF OnItsWay
  <2> QED
    BY <1>c, <1>n, <2>1, <2>3, <2>4
<1>11. CASE Collect
  <2>1. next' = next /\ closed' = closed /\ jobs' = jobs /\ worker' = worker
    BY <1>11 DEF Collect, collectorFrame
  <2>2. collector.at = "select" /\ collector.job = NoJob
    BY <1>11, <1>c DEF Collect
  <2>3. \A i \in DOMAIN out : out[i] = Head(out) \/ (i - 1 \in DOMAIN out' /\ out'[i - 1] = out[i])
    BY <1>11, <1>a, TailElements DEF Collect, TypeOK
  <2>4. \/ collector' = [at |-> "report", job |-> Head(out)] /\ collected' = collected
        \/ collector' = collector /\ collected' = collected \cup {Head(out).block}
    BY <1>11, <1>b DEF Collect, Clean
  <2>5. Way'
    <3> SUFFICES ASSUME NEW b \in Blocks, NeedsJob(b), b < next PROVE OnItsWay(b)'
      BY <1>n, <2>1
    <3>1. OnItsWay(b)
      BY <1>c
    <3>2. CASE \E i \in DOMAIN out : out[i].block = b
      <4>1. Head(out).block = b \/ \E i \in DOMAIN out' : out'[i].block = b
        BY <2>3, <3>2
      <4>2. Head(out).block = b => collector'.job.block = b \/ b \in collected'
        BY <2>4
      <4> QED
        BY <4>1, <4>2 DEF OnItsWay
    <3>3. collector.job.block # b
      BY <1>z, <2>2
    <3>4. collected \subseteq collected'
      BY <2>4
    <3> QED
      BY <2>1, <3>1, <3>2, <3>3, <3>4 DEF OnItsWay
  <2>6. Results' /\ Idle'
    BY <1>c, <2>2, <2>4
  <2> QED
    BY <1>c, <2>1, <2>5, <2>6
<1>12. CASE CollectorExit
  <2>1. out' = out /\ collected' = collected /\ next' = next /\ closed' = closed
        /\ jobs' = jobs /\ worker' = worker /\ collector' = [at |-> "gone", job |-> NoJob]
    BY <1>12 DEF CollectorExit, collectorFrame
  <2>2. collector.at = "exit" /\ collector.job = NoJob
    BY <1>12, <1>c DEF CollectorExit
  <2>3. \A b : OnItsWay(b) => OnItsWay(b)'
    BY <2>1, <2>2 DEF OnItsWay
  <2> QED
    BY <1>c, <1>n, <2>1, <2>2, <2>3
<1>13. CASE Quit
  BY <1>13 DEF Quit, Clean
<1> QED
  <2> HIDE DEF Way, Results, Cursor, Gone, Idle
  <2> QED
    BY <1>1, <1>2, <1>3, <1>4, <1>5, <1>6, <1>7, <1>8, <1>9, <1>10, <1>11,
       <1>12, <1>13 DEF Next, Main, Worker, Collector
-----------------------------------------------------------------------------
LEMMA InvAlways == Spec => []SenderInv
<1>1. Init => SenderInv
  <2> SUFFICES ASSUME Init PROVE SenderInv
    OBVIOUS
  <2> USE SenderAssumption DEF Init
  <2>1. db \in [senders : SUBSET Blocks, progress : 0..To, unwind : -1..To,
                result : {"none", "updated", "unwound", "error"}]
    BY DEF NoUnwind, Blocks
  <2>2. TypeOK
    <3>1. NoJob \in Job
      BY DEF Job, NoJob
    <3>2. worker \in [Workers -> [at : {"select", "recover", "send", "gone"}, job : Job]]
          /\ collector \in [at : {"select", "report", "exit", "gone"}, job : Job]
      BY <3>1
    <3>3. /\ next \in 1..(To + 1)
          /\ min \in [num : 1..MaxBlockNum, err : {"nil", "invalid", "stopped"}]
          /\ Len(jobs) <= BatchSize /\ Len(out) <= BatchSize
      BY DEF MaxBlockNum
    <3>4. jobs \in Seq(Blocks) /\ out \in Seq(Job) /\ closed \subseteq {"jobs", "out"}
          /\ collected \subseteq Blocks /\ main \in {"loop", "select", "wait", "drain", "end", "done"}
      OBVIOUS
    <3>5. cancelled \in BOOLEAN /\ quit \in BOOLEAN /\ failed \in BOOLEAN
      BY Zenon
    <3>6. kind \in [Blocks -> Kinds]
      OBVIOUS
    <3> HIDE DEF Init
    <3> QED
      BY <2>1, <3>2, <3>3, <3>4, <3>5, <3>6, Zenon DEF TypeOK
  <2>3. ResultsRight
    <3>1. JobsRight /\ OutRight
      BY DEF JobsRight, OutRight
    <3>2. WorkersRight /\ ReportRight
      BY DEF WorkersRight, ReportRight, NoJob
    <3>3. CollectedRight /\ MinRight /\ CancelRight
      BY DEF CollectedRight, MinRight, CancelRight
    <3> QED
      BY <3>1, <3>2, <3>3 DEF ResultsRight
  <2>4. InOrder
    BY DEF InOrder
  <2>5. NothingLost
    BY DEF NothingLost, Blocks
  <2> QED
    BY <2>2, <2>3, <2>4, <2>5 DEF SenderInv
<1>2. SenderInv /\ [Next]_vars => SenderInv'
  BY TypesStep, RightStep, OrderStep, LostStep DEF SenderInv
<1> QED
  BY <1>1, <1>2, PTL DEF Spec

(* The states have their types: channels hold at most BatchSize elements   *)
(* and the cursor never passes To + 1 (stage_senders.go:119-120, 198-207). *)
THEOREM TypeCorrect == Spec => []TypeOK
<1>1. SenderInv => TypeOK
  BY DEF SenderInv
<1> QED
  BY <1>1, InvAlways, PTL

(* When the stage concludes its goroutines are gone                        *)
(* (stage_senders.go:258-261), for any number of workers.                  *)
THEOREM NothingEverOutlives == Spec => []NothingOutlivesTheStage
<1>1. SenderInv => NothingOutlivesTheStage
  BY DEF SenderInv, InOrder, NothingOutlivesTheStage
<1> QED
  BY <1>1, InvAlways, PTL

(* One call of SpawnRecoverSendersStage, goroutines and all, implements    *)
(* SenderStage for any number of blocks, workers and any capacity of the   *)
(* channels: undisturbed, it stores the senders of every downloaded block  *)
(* before it saves its progress, or blames a block that is really bad.     *)
THEOREM StageKeepsPromise == Spec => KeepsPromise
<1>1. Init => Stage!Init
  BY DEF Init, Stage!Init, Blocks, NoUnwind
<1>2. SenderInv /\ [Next]_vars => [Stage!Next]_(Stage!vars)
  <2> SUFFICES ASSUME SenderInv, [Next]_vars PROVE [Stage!Next]_(Stage!vars)
    OBVIOUS
  <2>a. TypeOK /\ ResultsRight /\ InOrder
    BY DEF SenderInv
  <2>k. kind' = kind
    BY <2>a, Monotone
  <2>1. CASE Iterate
    <3>1. CASE quit
      BY <2>1, <2>a, <2>k, <3>1 DEF Iterate, ReturnError, InOrder, Stage!Next, Stage!Fail,
         othersVars
    <3>2. CASE ~quit
      BY <2>1, <3>2 DEF Iterate, othersVars, Stage!vars
    <3> QED
      BY <3>1, <3>2
  <2>2. CASE Conclude
    <3>1. db.result = "none" /\ UNCHANGED <<kind, quit, failed>>
      BY <2>2, <2>a DEF Conclude, InOrder, othersVars
    <3>2. CASE min.err # "nil"
      <4>1. min.num \in 1..To /\ (quit \/ min.num \in Stage!Bad)
        BY <2>a, <3>2 DEF ResultsRight, MinRight, Stage!Bad, Blocks
      <4>2. CASE BadBlockHalt
        BY <2>2, <3>1, <3>2, <4>1, <4>2 DEF Conclude, Stage!Next, Stage!Fail
      <4>3. CASE ~BadBlockHalt
        BY <2>2, <3>1, <3>2, <4>1, <4>3 DEF Conclude, Stage!Next, Stage!Reject
      <4> QED
        BY <4>2, <4>3
    <3>3. CASE min.err = "nil" /\ LoadStops
      BY <2>2, <3>1, <3>3 DEF Conclude, LoadStops, Stage!Next, Stage!Fail
    <3>4. CASE min.err = "nil" /\ ~LoadStops
      <4>1. collected \in SUBSET Stage!Recoverable
        BY <2>a DEF TypeOK, ResultsRight, CollectedRight, Stage!Recoverable, Blocks
      <4>2. quit \/ failed \/ (collected = Stage!Recoverable /\ Stage!Bad = {})
        <5> SUFFICES ASSUME ~quit, ~failed PROVE collected = Stage!Recoverable /\ Stage!Bad = {}
          OBVIOUS
        <5>1. Clean
          BY <3>4 DEF Clean
        <5>2. closed = {"jobs", "out"} /\ collector.at = "gone"
          BY <2>2, <2>a DEF Conclude, InOrder
        <5>3. \A w \in Workers : worker[w].at = "gone"
          BY <2>a, <5>2 DEF InOrder
        <5>4. \A w \in Workers : worker[w].job = NoJob
          BY <2>a, <5>3 DEF ResultsRight, WorkersRight
        <5>5. out = <<>> /\ jobs = <<>> /\ next = To + 1 /\ collector.job = NoJob
          BY <5>1, <5>2, <5>3, SenderAssumption DEF SenderInv, NothingLost
        <5>6. \A b \in Blocks : NeedsJob(b) => OnItsWay(b)
          BY <5>1, <5>5, SenderAssumption DEF SenderInv, NothingLost, Blocks
        <5>7. \A b \in Blocks : NeedsJob(b) => b \in collected
          BY <5>4, <5>5, <5>6 DEF OnItsWay, NoJob, Blocks
        <5>8. \A b \in collected : kind[b] = "good"
          BY <2>a DEF ResultsRight, CollectedRight
        <5>9. Stage!Recoverable \subseteq collected
          BY <5>7 DEF NeedsJob, Stage!Recoverable, Blocks
        <5>10. Stage!Bad = {}
          BY <5>7, <5>8 DEF NeedsJob, Stage!Bad, Blocks
        <5> QED
          BY <4>1, <5>9, <5>10
      <4>3. db' = [db EXCEPT !.senders = @ \cup collected, !.progress = To,
                             !.result = "updated"]
        BY <2>2, <3>4 DEF Conclude
      <4>4. Stage!Advance
        BY <3>1, <4>1, <4>2, <4>3 DEF Stage!Advance
      <4> QED
        BY <4>4 DEF Stage!Next
    <3> QED
      BY <3>2, <3>3, <3>4
  <2>3. CASE Quit
    BY <2>3 DEF Quit, mainVars, Stage!Next, Stage!Disturb
  <2>4. CASE Collect
    <3>1. CASE failed' = TRUE
      BY <2>4, <3>1 DEF Collect, collectorFrame, Stage!Next, Stage!Disturb
    <3>2. CASE failed' = failed
      BY <2>4, <3>2 DEF Collect, collectorFrame, Stage!vars
    <3> QED
      BY <2>4, <3>1, <3>2, Zenon DEF Collect
  <2>5. CASE UNCHANGED <<kind, quit, failed, db>>
    BY <2>5 DEF Stage!vars
  <2> QED
    BY <2>1, <2>2, <2>3, <2>4, <2>5
    DEF Next, Main, Worker, Collector, SendJob, ReceiveClosed, ReceiveReport, DropJob,
        CloseJobs, WaitWorkers, DrainReport, DrainDone, TakeJob, StopWaiting,
        Recover, SendResult, StopCollecting, CollectorExit, vars,
        othersVars, workerFrame, collectorFrame
<1> QED
  BY <1>1, <1>2, InvAlways, PTL DEF Spec, KeepsPromise, Stage!Spec
-----------------------------------------------------------------------------
\* Why no block is in two places: a place holds a block at most once, the
\* places exclude one another, and only blocks behind the cursor are in one.
InJobs(b) == \E i \in DOMAIN jobs : jobs[i] = b
AtWorker(b) == \E w \in Workers : worker[w].job.block = b
InOut(b) == \E i \in DOMAIN out : out[i].block = b
AtCollector(b) == collector.job.block = b

OnceEach(b) ==
  /\ \A i, j \in DOMAIN jobs : jobs[i] = b /\ jobs[j] = b => i = j
  /\ \A v, w \in Workers : worker[v].job.block = b /\ worker[w].job.block = b => v = w
  /\ \A i, j \in DOMAIN out : out[i].block = b /\ out[j].block = b => i = j

Apart(b) ==
  /\ InJobs(b) => ~AtWorker(b) /\ ~InOut(b) /\ ~AtCollector(b) /\ b \notin collected
  /\ AtWorker(b) => ~InOut(b) /\ ~AtCollector(b) /\ b \notin collected
  /\ InOut(b) => ~AtCollector(b) /\ b \notin collected
  /\ AtCollector(b) => b \notin collected

OnePlace ==
  \A b \in Blocks : OnceEach(b) /\ Apart(b) /\ (OnItsWay(b) => b < next)

-----------------------------------------------------------------------------
(* A step that moves no block leaves each in its one place.                *)
LEMMA UnmovedBlocks ==
  ASSUME TypeOK, TypeOK', OnePlace, jobs' = jobs, out' = out, collected' = collected,
         \A w \in Workers : worker'[w].job.block = worker[w].job.block,
         collector'.job.block = collector.job.block \/ collector'.job.block = 0,
         next' >= next
  PROVE  OnePlace'
<1> SUFFICES ASSUME NEW b \in Blocks
             PROVE  OnceEach(b)' /\ Apart(b)' /\ (OnItsWay(b)' => b < next')
  BY DEF OnePlace
<1>1. b \in Int /\ b > 0 /\ next \in Int /\ next' \in Int
  BY SenderAssumption DEF TypeOK, Blocks
<1>2. OnceEach(b) /\ Apart(b) /\ (OnItsWay(b) => b < next)
  BY DEF OnePlace
<1>3. OnceEach(b)'
  BY <1>2 DEF OnceEach
<1>4. /\ InJobs(b)' <=> InJobs(b)
      /\ AtWorker(b)' <=> AtWorker(b)
      /\ InOut(b)' <=> InOut(b)
      /\ AtCollector(b)' => AtCollector(b)
      /\ b \in collected' <=> b \in collected
  <2>1. InJobs(b)' <=> InJobs(b)
    BY DEF InJobs
  <2>2. AtWorker(b)' <=> AtWorker(b)
    BY DEF AtWorker
  <2>3. InOut(b)' <=> InOut(b)
    BY DEF InOut
  <2>4. AtCollector(b)' => AtCollector(b)
    BY <1>1 DEF AtCollector
  <2> QED
    BY <2>1, <2>2, <2>3, <2>4
<1>5. Apart(b)'
  BY <1>2, <1>4 DEF Apart
<1>6. OnItsWay(b)' => OnItsWay(b)
  BY <1>4 DEF OnItsWay, InJobs, AtWorker, InOut, AtCollector
<1> QED
  BY <1>1, <1>2, <1>3, <1>5, <1>6

LEMMA OneStep == SenderInv /\ TypeOK' /\ OnePlace /\ [Next]_vars => OnePlace'
<1> SUFFICES ASSUME SenderInv, TypeOK', OnePlace, [Next]_vars PROVE OnePlace'
  OBVIOUS
<1>a. TypeOK /\ ResultsRight /\ InOrder
  BY DEF SenderInv
<1>b. \A b \in Blocks : OnceEach(b) /\ Apart(b) /\ (OnItsWay(b) => b < next)
  BY DEF OnePlace
<1>i. next \in Nat /\ next' \in Nat /\ \A b \in Blocks : b \in Nat /\ b > 0
  BY <1>a, SenderAssumption DEF TypeOK, Blocks
<1>1. CASE Iterate \/ ReceiveClosed \/ CloseJobs \/ WaitWorkers \/ DrainDone \/ Conclude
           \/ Quit \/ UNCHANGED vars
  <2>1. jobs' = jobs /\ worker' = worker /\ out' = out /\ collector' = collector
        /\ collected' = collected
    BY <1>1 DEF Iterate, ReceiveClosed, DropJob, CloseJobs, WaitWorkers, DrainDone,
       Conclude, Quit, vars, othersVars, mainVars
  <2>2. next' = next \/ next' = next + 1
    BY <1>1 DEF Iterate, ReceiveClosed, DropJob, CloseJobs, WaitWorkers, DrainDone,
       Conclude, Quit, vars, mainVars
  <2> QED
    BY <1>a, <1>i, <2>1, <2>2, UnmovedBlocks
<1>2. CASE ReceiveReport \/ DrainReport
  <2>1. jobs' = jobs /\ worker' = worker /\ out' = out /\ collected' = collected
    BY <1>2 DEF ReceiveReport, DrainReport, DropJob
  <2>2. next' = next \/ next' = next + 1
    BY <1>2 DEF ReceiveReport, DrainReport, DropJob
  <2>3. collector'.job = collector.job
    BY <1>2, <1>a DEF ReceiveReport, DrainReport, Reported, TypeOK
  <2> QED
    BY <1>a, <1>i, <2>1, <2>2, <2>3, UnmovedBlocks
<1>3. CASE StopCollecting \/ CollectorExit
  <2>1. jobs' = jobs /\ worker' = worker /\ out' = out /\ collected' = collected
        /\ next' = next /\ collector'.job.block = 0
    BY <1>3 DEF StopCollecting, CollectorExit, collectorFrame, NoJob
  <2> QED
    BY <1>a, <1>i, <2>1, UnmovedBlocks
<1>4. ASSUME NEW w \in Workers, StopWaiting(w) \/ Recover(w) PROVE OnePlace'
  <2>1. jobs' = jobs /\ out' = out /\ collected' = collected
        /\ next' = next /\ collector' = collector
    BY <1>4 DEF StopWaiting, Recover, workerFrame
  <2>2. worker[w].at = "select" => worker[w].job = NoJob
    BY <1>a DEF ResultsRight, WorkersRight
  <2>3. \A v \in Workers : worker'[v].job.block = worker[v].job.block
    <3>1. CASE StopWaiting(w)
      BY <1>a, <2>2, <3>1 DEF StopWaiting, TypeOK
    <3>2. CASE Recover(w)
      BY <1>a, <3>2 DEF Recover, TypeOK
    <3> QED
      BY <1>4, <3>1, <3>2
  <2> QED
    BY <1>a, <1>i, <2>1, <2>3, UnmovedBlocks
<1>5. CASE SendJob
  <2>1. /\ worker' = worker /\ out' = out /\ collector' = collector
        /\ collected' = collected /\ next' = next + 1 /\ next \in Blocks
    BY <1>5, <1>a DEF SendJob, othersVars, InOrder
  <2>2. \A i \in DOMAIN jobs' : \/ i \in DOMAIN jobs /\ jobs'[i] = jobs[i]
                                \/ i = Len(jobs) + 1 /\ jobs'[i] = next
    <3>1. jobs \in Seq(Blocks) /\ jobs' = Append(jobs, next)
      BY <1>5, <1>a DEF SendJob, TypeOK
    <3> QED
      BY <2>1, <3>1, AppendElements
  <2> SUFFICES ASSUME NEW b \in Blocks
               PROVE  OnceEach(b)' /\ Apart(b)' /\ (OnItsWay(b)' => b < next')
    BY DEF OnePlace
  <2>3. OnceEach(b) /\ Apart(b) /\ (OnItsWay(b) => b < next)
    BY <1>b
  <2>4. b = next => ~InJobs(b) /\ ~AtWorker(b) /\ ~InOut(b) /\ ~AtCollector(b) /\ b \notin collected
    BY <1>i, <2>3 DEF OnItsWay, InJobs, AtWorker, InOut, AtCollector
  <2>5. /\ InJobs(b)' => InJobs(b) \/ b = next
        /\ AtWorker(b)' <=> AtWorker(b)
        /\ InOut(b)' <=> InOut(b)
        /\ AtCollector(b)' <=> AtCollector(b)
    BY <2>1, <2>2 DEF InJobs, AtWorker, InOut, AtCollector
  <2>6. OnceEach(b)'
    BY <2>1, <2>2, <2>3, <2>4 DEF OnceEach, InJobs
  <2>7. Apart(b)'
    BY <2>1, <2>3, <2>4, <2>5 DEF Apart
  <2>8. OnItsWay(b)' => OnItsWay(b) \/ b = next
    BY <2>1, <2>5 DEF OnItsWay, InJobs, AtWorker, InOut, AtCollector
  <2> QED
    BY <1>i, <2>1, <2>3, <2>6, <2>7, <2>8
<1>6. ASSUME NEW w \in Workers, TakeJob(w) PROVE OnePlace'
  <2>1. /\ out' = out /\ collector' = collector /\ collected' = collected
        /\ next' = next /\ jobs # <<>>
    BY <1>6 DEF TakeJob, workerFrame
  <2> DEFINE h == Head(jobs)
  <2>2. h = jobs[1] /\ 1 \in DOMAIN jobs /\ h \in Blocks
    BY <1>a, <2>1 DEF TypeOK
  <2>3. /\ worker'[w].job.block = h
        /\ \A v \in Workers : v # w => worker'[v] = worker[v]
    BY <1>6, <1>a DEF TakeJob, TypeOK
  <2>4. \A i \in DOMAIN jobs' : i \in Nat /\ i > 0 /\ i + 1 \in DOMAIN jobs /\ jobs'[i] = jobs[i + 1]
    <3>1. jobs \in Seq(Blocks) /\ jobs' = Tail(jobs)
      BY <1>6, <1>a DEF TakeJob, TypeOK
    <3> QED
      BY <2>1, <3>1, TailElements
  <2> HIDE DEF h
  <2> SUFFICES ASSUME NEW b \in Blocks
               PROVE  OnceEach(b)' /\ Apart(b)' /\ (OnItsWay(b)' => b < next')
    BY DEF OnePlace
  <2>5. OnceEach(b) /\ Apart(b) /\ (OnItsWay(b) => b < next)
    BY <1>b
  <2>6. /\ InJobs(b)' => InJobs(b) /\ b # h
        /\ AtWorker(b)' => AtWorker(b) \/ b = h
        /\ InOut(b)' <=> InOut(b)
        /\ AtCollector(b)' <=> AtCollector(b)
        /\ b = h => InJobs(b)
    <3>1. InJobs(b)' => InJobs(b)
      BY <2>4 DEF InJobs
    <3>2. InJobs(b)' => b # h
      <4> SUFFICES ASSUME NEW i \in DOMAIN jobs', jobs'[i] = b, b = h PROVE FALSE
        BY DEF InJobs
      <4>1. i + 1 \in DOMAIN jobs /\ jobs[i + 1] = b /\ i + 1 # 1
        BY <2>4
      <4> QED
        BY <4>1, <2>2, <2>5 DEF OnceEach
    <3> QED
      BY <2>1, <2>2, <2>3, <3>1, <3>2 DEF InJobs, AtWorker, InOut, AtCollector
  <2>7. OnceEach(b)'
    <3>1. \A i, j \in DOMAIN jobs' : jobs'[i] = b /\ jobs'[j] = b => i = j
      <4> SUFFICES ASSUME NEW i \in DOMAIN jobs', NEW j \in DOMAIN jobs',
                          jobs'[i] = b, jobs'[j] = b
                   PROVE  i = j
        OBVIOUS
      <4>1. i + 1 \in DOMAIN jobs /\ j + 1 \in DOMAIN jobs /\ jobs[i + 1] = b /\ jobs[j + 1] = b
        BY <2>4
      <4>2. i + 1 = j + 1
        BY <4>1, <2>5 DEF OnceEach
      <4> QED
        BY <4>2, <2>4
    <3>2. \A u, v \in Workers : worker'[u].job.block = b /\ worker'[v].job.block = b => u = v
      BY <2>2, <2>3, <2>5, <2>6 DEF OnceEach, Apart, AtWorker
    <3> QED
      BY <2>1, <2>5, <3>1, <3>2 DEF OnceEach
  <2>8. Apart(b)'
    BY <2>1, <2>5, <2>6 DEF Apart
  <2>9. OnItsWay(b)' => OnItsWay(b)
    BY <2>1, <2>6 DEF OnItsWay, InJobs, AtWorker, InOut, AtCollector
  <2> QED
    BY <2>1, <2>5, <2>7, <2>8, <2>9
<1>7. ASSUME NEW w \in Workers, SendResult(w) PROVE OnePlace'
  <2>1. /\ jobs' = jobs /\ collector' = collector /\ collected' = collected
        /\ next' = next
    BY <1>7 DEF SendResult, workerFrame
  <2> DEFINE h == worker[w].job.block
  <2>2. h \in Blocks
    BY <1>7, <1>a DEF SendResult, ResultsRight, WorkersRight, ResultIsRight
  <2>3. /\ worker'[w].job.block = 0
        /\ \A v \in Workers : v # w => worker'[v] = worker[v]
    BY <1>7, <1>a DEF SendResult, TypeOK, NoJob
  <2>4. \A i \in DOMAIN out' : \/ i \in DOMAIN out /\ out'[i] = out[i]
                               \/ i = Len(out) + 1 /\ out'[i].block = h
    <3>1. worker[w].job \in Job
      BY <1>a, Zenon DEF TypeOK
    <3>2. out \in Seq(Job) /\ out' = Append(out, worker[w].job)
      BY <1>7, <1>a DEF SendResult, TypeOK
    <3> QED
      BY <3>1, <3>2, AppendElements
  <2> SUFFICES ASSUME NEW b \in Blocks
               PROVE  OnceEach(b)' /\ Apart(b)' /\ (OnItsWay(b)' => b < next')
    BY DEF OnePlace
  <2>5. OnceEach(b) /\ Apart(b) /\ (OnItsWay(b) => b < next) /\ b # 0
    BY <1>b, <1>i
  <2>6. /\ InJobs(b)' <=> InJobs(b)
        /\ AtWorker(b)' => AtWorker(b) /\ b # h
        /\ InOut(b)' => InOut(b) \/ b = h
        /\ AtCollector(b)' <=> AtCollector(b)
        /\ b = h => AtWorker(b)
    <3>1. AtWorker(b)' => AtWorker(b) /\ b # h
      BY <2>3, <2>5 DEF AtWorker, OnceEach
    <3> QED
      BY <2>1, <2>4, <3>1 DEF InJobs, AtWorker, InOut, AtCollector
  <2> HIDE DEF h
  <2>7. OnceEach(b)'
    <3>1. b = h => ~InOut(b)
      BY <2>5, <2>6 DEF Apart
    <3>2. \A i, j \in DOMAIN out' : out'[i].block = b /\ out'[j].block = b => i = j
      BY <2>4, <2>5, <3>1 DEF OnceEach, InOut
    <3>3. \A u, v \in Workers : worker'[u].job.block = b /\ worker'[v].job.block = b => u = v
      BY <2>3, <2>5 DEF OnceEach
    <3> QED
      BY <2>1, <2>5, <3>2, <3>3 DEF OnceEach
  <2>8. Apart(b)'
    BY <2>1, <2>5, <2>6 DEF Apart
  <2>9. OnItsWay(b)' => OnItsWay(b)
    BY <2>1, <2>6 DEF OnItsWay, InJobs, AtWorker, InOut, AtCollector
  <2> QED
    BY <2>1, <2>5, <2>7, <2>8, <2>9
<1>8. CASE Collect
  <2>1. jobs' = jobs /\ worker' = worker /\ next' = next /\ out # <<>>
    BY <1>8 DEF Collect, collectorFrame
  <2> DEFINE h == Head(out).block
  <2>2. h = out[1].block /\ 1 \in DOMAIN out
    BY <1>a, <2>1 DEF TypeOK
  <2>3. \/ collector'.job.block = h /\ collected' = collected
        \/ collector' = collector /\ collected' = collected \cup {h}
        \/ collector'.job.block = 0 /\ collected' = collected
    BY <1>8 DEF Collect, NoJob
  <2>4. \A i \in DOMAIN out' : i \in Nat /\ i > 0 /\ i + 1 \in DOMAIN out /\ out'[i] = out[i + 1]
    <3>1. out \in Seq(Job) /\ out' = Tail(out)
      BY <1>8, <1>a DEF Collect, TypeOK
    <3> QED
      BY <2>1, <3>1, TailElements
  <2> HIDE DEF h
  <2> SUFFICES ASSUME NEW b \in Blocks
               PROVE  OnceEach(b)' /\ Apart(b)' /\ (OnItsWay(b)' => b < next')
    BY DEF OnePlace
  <2>5. OnceEach(b) /\ Apart(b) /\ (OnItsWay(b) => b < next) /\ b # 0
    BY <1>b, <1>i
  <2>6. /\ InJobs(b)' <=> InJobs(b)
        /\ AtWorker(b)' <=> AtWorker(b)
        /\ InOut(b)' => InOut(b) /\ b # h
        /\ b = h => InOut(b)
    <3>1. InOut(b)' => InOut(b)
      BY <2>4 DEF InOut
    <3>2. InOut(b)' => b # h
      <4> SUFFICES ASSUME NEW i \in DOMAIN out', out'[i].block = b, b = h PROVE FALSE
        BY DEF InOut
      <4>1. i + 1 \in DOMAIN out /\ out[i + 1].block = b /\ i + 1 # 1
        BY <2>4
      <4> QED
        BY <4>1, <2>2, <2>5 DEF OnceEach
    <3> QED
      BY <2>1, <2>2, <3>1, <3>2 DEF InJobs, AtWorker, InOut
  <2>7. OnceEach(b)'
    <3>1. \A i, j \in DOMAIN out' : out'[i].block = b /\ out'[j].block = b => i = j
      <4> SUFFICES ASSUME NEW i \in DOMAIN out', NEW j \in DOMAIN out',
                          out'[i].block = b, out'[j].block = b
                   PROVE  i = j
        OBVIOUS
      <4>1. i + 1 \in DOMAIN out /\ j + 1 \in DOMAIN out
            /\ out[i + 1].block = b /\ out[j + 1].block = b
        BY <2>4
      <4>2. i + 1 = j + 1
        BY <4>1, <2>5 DEF OnceEach
      <4> QED
        BY <4>2, <2>4
    <3> QED
      BY <2>1, <2>5, <3>1 DEF OnceEach
  <2>8. Apart(b)' /\ (OnItsWay(b)' => OnItsWay(b))
    <3>1. CASE collector'.job.block = h /\ collected' = collected
      BY <2>1, <2>5, <2>6, <3>1 DEF Apart, OnItsWay, InJobs, AtWorker, InOut, AtCollector
    <3>2. CASE collector' = collector /\ collected' = collected \cup {h}
      BY <2>1, <2>5, <2>6, <3>2 DEF Apart, OnItsWay, InJobs, AtWorker, InOut, AtCollector
    <3>3. CASE collector'.job.block = 0 /\ collected' = collected
      BY <2>1, <2>5, <2>6, <3>3 DEF Apart, OnItsWay, InJobs, AtWorker, InOut, AtCollector
    <3> QED
      BY <2>3, <3>1, <3>2, <3>3
  <2> QED
    BY <2>1, <2>5, <2>7, <2>8
<1> QED
  BY <1>1, <1>2, <1>3, <1>4, <1>5, <1>6, <1>7, <1>8 DEF Next, Main, Worker, Collector

LEMMA OneAlways == Spec => []OnePlace
<1>1. Init => OnePlace
  <2> SUFFICES ASSUME Init, NEW b \in Blocks
               PROVE  OnceEach(b) /\ Apart(b) /\ (OnItsWay(b) => b < next)
    BY DEF OnePlace
  <2>1. b \in Nat /\ b > 0
    BY SenderAssumption DEF Blocks
  <2>2. ~InJobs(b) /\ ~AtWorker(b) /\ ~InOut(b) /\ ~AtCollector(b) /\ b \notin collected
    <3>1. /\ jobs = <<>> /\ out = <<>> /\ collected = {} /\ collector.job = NoJob
          /\ \A w \in Workers : worker[w].job = NoJob
      BY DEF Init
    <3>2. NoJob.block # b
      BY <2>1 DEF NoJob
    <3>3. ~InJobs(b) /\ ~InOut(b)
      BY <3>1 DEF InJobs, InOut
    <3>4. ~AtWorker(b) /\ ~AtCollector(b)
      BY <3>1, <3>2, Zenon DEF AtWorker, AtCollector
    <3> QED
      BY <3>1, <3>3, <3>4, Zenon
  <2>3. OnceEach(b)
    BY <2>2 DEF OnceEach, InJobs, AtWorker, InOut
  <2>4. Apart(b) /\ ~OnItsWay(b)
    BY <2>2 DEF Apart, OnItsWay, InJobs, AtWorker, InOut, AtCollector
  <2> QED
    BY <2>3, <2>4
<1>2. SenderInv /\ SenderInv' /\ OnePlace /\ [Next]_vars => OnePlace'
  BY OneStep DEF SenderInv
<1> QED
  BY <1>1, <1>2, InvAlways, PTL DEF Spec

(* No block is lost on its way and none is there twice                     *)
(* (stage_senders.go:198-261): until something goes wrong, each block that *)
(* needs its senders and lies behind the cursor is in exactly one place,   *)
(* for any number of blocks and workers and any capacity of the channels.  *)
THEOREM NoBlockEverLost == Spec => []NoBlockLost
<1>1. SenderInv /\ OnePlace => NoBlockLost
  <2> SUFFICES ASSUME SenderInv, OnePlace, Clean,
                      NEW b \in Blocks, NeedsJob(b), b < next
               PROVE  Cardinality(Places(b)) = 1
    BY DEF NoBlockLost, Clean
  <2>1. OnceEach(b) /\ Apart(b) /\ OnItsWay(b)
    BY DEF OnePlace, SenderInv, NothingLost
  <2> SUFFICES \E p : Places(b) = {p}
    BY FS_Singleton
  <2>2. \A i \in DOMAIN jobs : jobs[i] = b => Places(b) = {<<"jobs", i>>}
    <3> SUFFICES ASSUME NEW i \in DOMAIN jobs, jobs[i] = b
                 PROVE  Places(b) = {<<"jobs", i>>}
      OBVIOUS
    <3>1. InJobs(b)
      BY DEF InJobs
    <3>2. ~AtWorker(b) /\ ~InOut(b) /\ ~AtCollector(b) /\ b \notin collected
      BY <2>1, <3>1 DEF Apart
    <3>3. {k \in DOMAIN jobs : jobs[k] = b} = {i}
      BY <2>1 DEF OnceEach
    <3> QED
      BY <3>2, <3>3 DEF Places, AtWorker, InOut, AtCollector
  <2>3. \A w \in Workers : worker[w].job.block = b => Places(b) = {<<"worker", w>>}
    <3> SUFFICES ASSUME NEW w \in Workers, worker[w].job.block = b
                 PROVE  Places(b) = {<<"worker", w>>}
      OBVIOUS
    <3>1. AtWorker(b)
      BY DEF AtWorker
    <3>2. ~InJobs(b) /\ ~InOut(b) /\ ~AtCollector(b) /\ b \notin collected
      BY <2>1, <3>1 DEF Apart
    <3>3. {v \in Workers : worker[v].job.block = b} = {w}
      BY <2>1 DEF OnceEach
    <3> QED
      BY <3>2, <3>3 DEF Places, InJobs, InOut, AtCollector
  <2>4. \A i \in DOMAIN out : out[i].block = b => Places(b) = {<<"out", i>>}
    <3> SUFFICES ASSUME NEW i \in DOMAIN out, out[i].block = b
                 PROVE  Places(b) = {<<"out", i>>}
      OBVIOUS
    <3>1. InOut(b)
      BY DEF InOut
    <3>2. ~InJobs(b) /\ ~AtWorker(b) /\ ~AtCollector(b) /\ b \notin collected
      BY <2>1, <3>1 DEF Apart
    <3>3. {k \in DOMAIN out : out[k].block = b} = {i}
      BY <2>1 DEF OnceEach
    <3> QED
      BY <3>2, <3>3 DEF Places, InJobs, AtWorker, AtCollector
  <2>5. AtCollector(b) => Places(b) = {<<"collector", b>>}
    <3> SUFFICES ASSUME AtCollector(b) PROVE Places(b) = {<<"collector", b>>}
      OBVIOUS
    <3>1. ~InJobs(b) /\ ~AtWorker(b) /\ ~InOut(b) /\ b \notin collected
      BY <2>1 DEF Apart
    <3> QED
      BY <3>1 DEF Places, InJobs, AtWorker, InOut, AtCollector
  <2>6. b \in collected => Places(b) = {<<"collected", b>>}
    <3> SUFFICES ASSUME b \in collected PROVE Places(b) = {<<"collected", b>>}
      OBVIOUS
    <3>1. ~InJobs(b) /\ ~AtWorker(b) /\ ~InOut(b) /\ ~AtCollector(b)
      BY <2>1 DEF Apart
    <3> QED
      BY <3>1 DEF Places, InJobs, AtWorker, InOut, AtCollector
  <2> QED
    BY <2>1, <2>2, <2>3, <2>4, <2>5, <2>6, Zenon DEF OnItsWay, AtCollector
<1> QED
  BY <1>1, InvAlways, OneAlways, PTL
=============================================================================
