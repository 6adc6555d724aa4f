--------------------------- MODULE IndexJobProofs ---------------------------
(***************************************************************************)
(* Facts of IndexJob for any number of jobs and restarts.                  *)
(*                                                                         *)
(* That a finished job reports on something newer than its start is known  *)
(* only when it finishes, from a status read before and a baseline read    *)
(* before that.  JobInv says what these stale readings still tell while    *)
(* the indexer stays up: reports of passes that were over are only ever    *)
(* replaced by those of passes that were not (Newer), a baseline is what   *)
(* an old report would have to be (Compared), and a lock seen held was     *)
(* released by a pass that is new (Seen).                                  *)
(***************************************************************************)
EXTENDS IndexJob, TLAPS

\* A pass is sent once; a dispatch is answered about its own pass.
Passes ==
    \A j \in Jobs : /\ jobs[j].pc \in {"queued", "baseline"} => pass[j] = "none"
                    /\ dispatch[j] \in {"none", "waiting", "error", j, Refused}
                    /\ j \notin past[j] /\ past[j] \subseteq Jobs \cup {OldReport, NoReport}
                    /\ {OldReport, NoReport} \subseteq past[j]
                    /\ \A k \in past[j] \cap Jobs : pass[k] = "over"

\* The report in memory, and the one on disk when there is none, is the one
\* that job j compares with or newer than the start of j.
Newer(j, report, file, baseline) ==
    /\ report \in past[j] /\ report # NoReport => report = baseline
    /\ report = NoReport => file = baseline \/ file \notin past[j]
Compared(j) ==
    /\ jobs[j].pc = "baseline" /\ lastReport \in past[j] => lastReport = jobs[j].last
    /\ jobs[j].pc \in {"loop", "asked"} => Newer(j, lastReport, saved, jobs[j].baseline)
    /\ jobs[j].pc = "asked" => Newer(j, jobs[j].last, saved, jobs[j].baseline)

\* A job that has seen the lock held.
Seen(j) ==
    /\ (jobs[j].pc \in {"loop", "asked"} /\ (jobs[j].observed \/ jobs[j].running)) =>
           Locked \/ lastReport \notin past[j]
    /\ (jobs[j].pc = "asked" /\ jobs[j].observed /\ ~jobs[j].running) => jobs[j].last \notin past[j]

Fresh(j) == jobs[j].pc = "done" => jobs[j].report \notin past[j]

JobInv ==
    /\ TypeOK
    /\ ~faulty => Passes /\ \A j \in Jobs : Compared(j) /\ Seen(j) /\ Fresh(j)

----------------------------------------------------------------------------
(* Types                                                                   *)

LEMMA ReportTyped ==
  /\ Refused \in Report /\ NoReport \in Report /\ OldReport \in Report
  /\ \A j \in Jobs : j \in Report
  /\ \A r \in Report : r \notin {"none", "waiting", "error"}
BY JobAssumption DEF Report

LEMMA NewJobTyped ==
  ASSUME NEW pc \in {"queued", "baseline", "loop", "asked", "done", "failed"},
         NEW baseline \in Report, NEW report \in Report
  PROVE  /\ NewJob \in Job
         /\ [NewJob EXCEPT !.pc = pc] \in Job
         /\ [NewJob EXCEPT !.pc = pc, !.baseline = baseline] \in Job
         /\ [NewJob EXCEPT !.pc = pc, !.report = report] \in Job
<1>1. NewJob \in Job
  BY ReportTyped DEF NewJob, Job, UnreachableLimit
<1>2. ASSUME NEW x \in Job
      PROVE  /\ [x EXCEPT !.pc = pc] \in Job
             /\ [x EXCEPT !.pc = pc, !.baseline = baseline] \in Job
             /\ [x EXCEPT !.pc = pc, !.report = report] \in Job
  BY DEF Job
<1>3. QED
  BY <1>1, <1>2

LEMMA UpdateTyped ==
  ASSUME TypeOK, NEW j \in Jobs, NEW x \in Job, Update(j, x)
  PROVE  /\ jobs' \in [Jobs -> Job] /\ jobs'[j] = x
         /\ \A i \in Jobs \ {j} : jobs'[i] = jobs[i]
BY DEF TypeOK, Update

\* The end of a job.
LEMMA FinishEffect ==
  ASSUME TypeOK, NEW j \in Jobs, NEW pc \in {"done", "failed"}, NEW r \in Report, Finish(j, pc, r)
  PROVE  /\ jobs' \in [Jobs -> Job] /\ dispatch' = [dispatch EXCEPT ![j] = "none"]
         /\ jobs'[j].pc = pc /\ jobs'[j].report = r
         /\ \A i \in Jobs \ {j} : jobs'[i] = jobs[i]
<1> DEFINE x == [NewJob EXCEPT !.pc = pc, !.report = r]
<1>1. x \in Job
  BY NewJobTyped, ReportTyped
<1>2. x.pc = pc /\ x.report = r
  BY DEF NewJob
<1>3. Update(j, x) /\ dispatch' = [dispatch EXCEPT ![j] = "none"]
  BY DEF Finish
<1> HIDE DEF x
<1>4. QED
  BY <1>1, <1>2, <1>3, UpdateTyped

\* The deadlines end a job or leave it what it has got to.
LEMMA CheckDeadlinesEffect ==
  ASSUME TypeOK, NEW j \in Jobs, NEW job \in Job, CheckDeadlines(j, job)
  PROVE  /\ jobs' \in [Jobs -> Job] /\ \A i \in Jobs \ {j} : jobs'[i] = jobs[i]
         /\ \/ jobs'[j].pc = "failed" /\ dispatch' = [dispatch EXCEPT ![j] = "none"]
            \/ /\ jobs'[j].pc = "loop" /\ jobs'[j].running = FALSE /\ UNCHANGED dispatch
               /\ jobs'[j].baseline = job.baseline /\ jobs'[j].observed = job.observed
<1>1. CASE Failed(j)
  BY <1>1, FinishEffect, ReportTyped DEF Failed
<1>2. CASE Update(j, [WithoutStatus(job) EXCEPT !.pc = "loop"]) /\ UNCHANGED dispatch
  <2> DEFINE x == [WithoutStatus(job) EXCEPT !.pc = "loop"]
  <2>1. /\ x \in Job /\ x.pc = "loop" /\ x.running = FALSE
        /\ x.baseline = job.baseline /\ x.observed = job.observed
    BY ReportTyped DEF WithoutStatus, Job
  <2> HIDE DEF x
  <2>2. Update(j, x)
    BY <1>2 DEF x
  <2>3. QED
    BY <1>2, <2>1, <2>2, UpdateTyped
<1>3. QED
  BY <1>1, <1>2 DEF CheckDeadlines

LEMMA StartJobEffect ==
  ASSUME TypeOK, NEW j \in Jobs, StartJob(j)
  PROVE  /\ jobs' \in [Jobs -> Job] /\ \A i \in Jobs \ {j} : jobs'[i] = jobs[i]
         /\ jobs'[j].pc = "baseline" /\ jobs'[j].last = lastReport
<1> DEFINE x == [StatusRead(j) EXCEPT !.pc = "baseline"]
<1>1. jobs[j] \in Job /\ lastReport \in Report /\ Locked \in BOOLEAN
  BY DEF TypeOK, Locked
<1>2. x \in Job /\ x.pc = "baseline" /\ x.last = lastReport
  BY <1>1 DEF StatusRead, Job
<1>3. Update(j, x)
  BY DEF StartJob
<1> HIDE DEF x
<1>4. QED
  BY <1>2, <1>3, UpdateTyped

LEMMA StatusReportTyped ==
  ASSUME TypeOK, NEW j \in Jobs
  PROVE  StatusReport(j) \in Report
BY DEF TypeOK, Job, StatusReport

LEMMA DispatchEffect ==
  ASSUME TypeOK, NEW j \in Jobs, Dispatch(j)
  PROVE  /\ jobs' \in [Jobs -> Job] /\ \A i \in Jobs \ {j} : jobs'[i] = jobs[i]
         /\ jobs'[j].pc = "loop" /\ jobs'[j].observed = FALSE /\ jobs'[j].running = FALSE
         /\ faulty' \/ (jobs'[j].baseline = StatusReport(j) /\ UNCHANGED faulty)
<1> DEFINE x == [NewJob EXCEPT !.pc = "loop", !.baseline = StatusReport(j)]
           y == [NewJob EXCEPT !.pc = "loop"]
<1>1. /\ x \in Job /\ x.pc = "loop" /\ x.observed = FALSE /\ x.running = FALSE
      /\ x.baseline = StatusReport(j)
      /\ y \in Job /\ y.pc = "loop" /\ y.observed = FALSE /\ y.running = FALSE
  <2>1. x \in Job /\ y \in Job
    BY NewJobTyped, StatusReportTyped, ReportTyped
  <2>2. QED
    BY <2>1 DEF NewJob
<1>2. CASE Update(j, x) /\ UNCHANGED faulty
  <2> HIDE DEF x
  <2>1. QED
    BY <1>1, <1>2, UpdateTyped
<1>3. CASE Update(j, y) /\ faulty' = TRUE
  <2> HIDE DEF y
  <2>1. QED
    BY <1>1, <1>3, UpdateTyped
<1>4. QED
  BY <1>2, <1>3 DEF Dispatch

LEMMA PollEffect ==
  ASSUME TypeOK, NEW j \in Jobs, Poll(j)
  PROVE  /\ jobs' \in [Jobs -> Job] /\ \A i \in Jobs \ {j} : jobs'[i] = jobs[i]
         /\ \/ /\ dispatch[j] \in Report /\ jobs'[j].pc = "done" /\ jobs'[j].report = dispatch[j]
               /\ dispatch' = [dispatch EXCEPT ![j] = "none"]
            \/ /\ jobs'[j].pc = "asked" /\ UNCHANGED dispatch
               /\ jobs'[j].running = Locked /\ jobs'[j].last = lastReport
               /\ jobs'[j].baseline = jobs[j].baseline /\ jobs'[j].observed = jobs[j].observed
<1>1. CASE dispatch[j] \in Report /\ Done(j, dispatch[j])
  BY <1>1, FinishEffect DEF Done
<1>2. CASE /\ Update(j, [StatusRead(j) EXCEPT !.pc = "asked",
                                               !.dispatchFailed = @ \/ dispatch[j] = "error"])
           /\ UNCHANGED dispatch
  <2>1. jobs[j] \in Job /\ lastReport \in Report /\ Locked \in BOOLEAN
    BY DEF TypeOK, Locked
  <2>2. ASSUME NEW b \in BOOLEAN
        PROVE  LET x == [StatusRead(j) EXCEPT !.pc = "asked", !.dispatchFailed = b]
               IN  /\ x \in Job /\ x.pc = "asked" /\ x.running = Locked /\ x.last = lastReport
                   /\ x.baseline = jobs[j].baseline /\ x.observed = jobs[j].observed
    BY <2>1 DEF StatusRead, Job
  <2> DEFINE failed == StatusRead(j).dispatchFailed \/ dispatch[j] = "error"
             x == [StatusRead(j) EXCEPT !.pc = "asked", !.dispatchFailed = failed]
  <2>3. failed \in BOOLEAN
    BY <2>1 DEF StatusRead, Job
  <2>4. Update(j, x)
    BY <1>2
  <2> HIDE DEF failed
  <2>5. /\ x \in Job /\ x.pc = "asked" /\ x.running = Locked /\ x.last = lastReport
        /\ x.baseline = jobs[j].baseline /\ x.observed = jobs[j].observed
    BY <2>2, <2>3
  <2> HIDE DEF x
  <2>6. QED
    BY <1>2, <2>4, <2>5, UpdateTyped
<1>3. QED
  BY <1>1, <1>2 DEF Poll

LEMMA StatusArrivesEffect ==
  ASSUME TypeOK, NEW j \in Jobs, StatusArrives(j)
  PROVE  /\ jobs' \in [Jobs -> Job] /\ \A i \in Jobs \ {j} : jobs'[i] = jobs[i]
         /\ \/ jobs'[j].pc = "failed" /\ dispatch' = [dispatch EXCEPT ![j] = "none"]
            \/ /\ jobs'[j].pc = "loop" /\ jobs'[j].running = FALSE /\ UNCHANGED dispatch
               /\ jobs'[j].baseline = jobs[j].baseline
               /\ jobs'[j].observed => jobs[j].running \/ jobs[j].observed
            \/ /\ jobs'[j].pc = "done" /\ jobs'[j].report = StatusReport(j)
               /\ dispatch' = [dispatch EXCEPT ![j] = "none"]
               /\ ~jobs[j].running /\ (jobs[j].observed \/ StatusReport(j) # jobs[j].baseline)
<1>1. jobs[j] \in Job /\ 0 \in 0 .. UnreachableLimit
  BY DEF TypeOK, UnreachableLimit
<1>2. ASSUME NEW x \in Job, NEW n \in 0 .. UnreachableLimit
      PROVE  LET y == [x EXCEPT !.unreachable = n, !.observed = TRUE]
                 z == [x EXCEPT !.unreachable = n]
             IN  /\ y \in Job /\ y.baseline = x.baseline /\ y.observed = TRUE
                 /\ z \in Job /\ z.baseline = x.baseline /\ z.observed = x.observed
  BY DEF Job
<1>3. CASE /\ jobs[j].running
           /\ CheckDeadlines(j, [jobs[j] EXCEPT !.unreachable = 0, !.observed = TRUE])
  <2> DEFINE x == [jobs[j] EXCEPT !.unreachable = 0, !.observed = TRUE]
  <2>1. x \in Job /\ x.baseline = jobs[j].baseline /\ CheckDeadlines(j, x)
    BY <1>1, <1>2, <1>3
  <2> HIDE DEF x
  <2>2. QED
    BY <1>3, <2>1, CheckDeadlinesEffect
<1>4. CASE /\ ~jobs[j].running /\ Done(j, StatusReport(j))
           /\ jobs[j].observed \/ StatusReport(j) # jobs[j].baseline
  BY <1>4, FinishEffect, StatusReportTyped DEF Done
<1>5. CASE CheckDeadlines(j, [jobs[j] EXCEPT !.unreachable = 0])
  <2> DEFINE x == [jobs[j] EXCEPT !.unreachable = 0]
  <2>1. /\ x \in Job /\ x.baseline = jobs[j].baseline /\ x.observed = jobs[j].observed
        /\ CheckDeadlines(j, x)
    BY <1>1, <1>2, <1>5
  <2> HIDE DEF x
  <2>2. QED
    BY <2>1, CheckDeadlinesEffect
<1>6. QED
  BY <1>3, <1>4, <1>5 DEF StatusArrives

LEMMA StatusFailsEffect ==
  ASSUME TypeOK, NEW j \in Jobs, StatusFails(j)
  PROVE  /\ jobs' \in [Jobs -> Job] /\ \A i \in Jobs \ {j} : jobs'[i] = jobs[i]
         /\ \/ jobs'[j].pc = "failed" /\ dispatch' = [dispatch EXCEPT ![j] = "none"]
            \/ /\ jobs'[j].pc = "loop" /\ jobs'[j].running = FALSE /\ UNCHANGED dispatch
               /\ jobs'[j].baseline = jobs[j].baseline /\ jobs'[j].observed = jobs[j].observed
<1> DEFINE n == IF jobs[j].unreachable < UnreachableLimit THEN jobs[j].unreachable + 1 ELSE UnreachableLimit
           x == [jobs[j] EXCEPT !.unreachable = n]
<1>1. jobs[j] \in Job
  BY DEF TypeOK
<1>2. n \in 0 .. UnreachableLimit
  BY <1>1 DEF Job, UnreachableLimit
<1>3. CASE Failed(j)
  BY <1>3, FinishEffect, ReportTyped DEF Failed
<1>4. CASE CheckDeadlines(j, x)
  <2> HIDE DEF n
  <2>1. x \in Job /\ x.baseline = jobs[j].baseline /\ x.observed = jobs[j].observed
    BY <1>1, <1>2 DEF Job
  <2> HIDE DEF x
  <2>2. QED
    BY <1>4, <2>1, CheckDeadlinesEffect
<1>5. QED
  BY <1>3, <1>4 DEF StatusFails

\* Time passing is seen in the flags of the deadlines alone.
LEMMA TimeEffect ==
  ASSUME TypeOK, NEW j \in Jobs, GracePasses(j) \/ DeadlinePasses(j)
  PROVE  /\ jobs' \in [Jobs -> Job] /\ \A i \in Jobs \ {j} : jobs'[i] = jobs[i]
         /\ jobs'[j].pc = jobs[j].pc /\ jobs'[j].baseline = jobs[j].baseline
         /\ jobs'[j].observed = jobs[j].observed /\ jobs'[j].running = jobs[j].running
         /\ jobs'[j].last = jobs[j].last /\ jobs'[j].report = jobs[j].report
<1>1. ASSUME NEW x \in Job
      PROVE  LET y == [x EXCEPT !.graceOver = TRUE]
                 z == [x EXCEPT !.deadlineOver = TRUE]
             IN  /\ y \in Job /\ y.pc = x.pc /\ y.baseline = x.baseline /\ y.observed = x.observed
                 /\ y.running = x.running /\ y.last = x.last /\ y.report = x.report
                 /\ z \in Job /\ z.pc = x.pc /\ z.baseline = x.baseline /\ z.observed = x.observed
                 /\ z.running = x.running /\ z.last = x.last /\ z.report = x.report
  BY DEF Job
<1>2. jobs[j] \in Job
  BY DEF TypeOK
<1>3. CASE Update(j, [jobs[j] EXCEPT !.graceOver = TRUE])
  <2> DEFINE x == [jobs[j] EXCEPT !.graceOver = TRUE]
  <2>1. /\ x \in Job /\ x.pc = jobs[j].pc /\ x.baseline = jobs[j].baseline
        /\ x.observed = jobs[j].observed /\ x.running = jobs[j].running /\ x.last = jobs[j].last
        /\ x.report = jobs[j].report /\ Update(j, x)
    BY <1>1, <1>2, <1>3
  <2> HIDE DEF x
  <2>2. QED
    BY <2>1, UpdateTyped
<1>4. CASE Update(j, [jobs[j] EXCEPT !.deadlineOver = TRUE])
  <2> DEFINE x == [jobs[j] EXCEPT !.deadlineOver = TRUE]
  <2>1. /\ x \in Job /\ x.pc = jobs[j].pc /\ x.baseline = jobs[j].baseline
        /\ x.observed = jobs[j].observed /\ x.running = jobs[j].running /\ x.last = jobs[j].last
        /\ x.report = jobs[j].report /\ Update(j, x)
    BY <1>1, <1>2, <1>4
  <2> HIDE DEF x
  <2>2. QED
    BY <2>1, UpdateTyped
<1>5. QED
  BY <1>3, <1>4 DEF GracePasses, DeadlinePasses

----------------------------------------------------------------------------
(* Invariance                                                              *)

\* What a step that leaves the indexer alone leaves of the other jobs.
LEMMA OtherJobs ==
  ASSUME NEW i \in Jobs, Compared(i), Seen(i), Fresh(i),
         jobs'[i] = jobs[i], UNCHANGED <<pass, lastReport, saved>>, past'[i] = past[i]
  PROVE  Compared(i)' /\ Seen(i)' /\ Fresh(i)'
BY DEF Compared, Newer, Seen, Fresh, Locked, InProgress

LEMMA InitInv ==
  ASSUME Init
  PROVE  JobInv
<1>1. TypeOK
  <2>1. NewJob \in Job
    BY NewJobTyped, ReportTyped
  <2>2. {OldReport, NoReport} \in SUBSET Report
    BY ReportTyped
  <2>3. lastReport \in Report /\ saved \in Report /\ restarts \in 0 .. MaxRestarts
    BY ReportTyped, JobAssumption DEF Init
  <2>4. QED
    BY <2>1, <2>2, <2>3 DEF Init, TypeOK
<1>2. \A j \in Jobs : jobs[j].pc = "queued" /\ past[j] = {OldReport, NoReport}
  BY DEF Init, NewJob
<1>3. Passes
  <2>1. \A j \in Jobs : pass[j] = "none" /\ dispatch[j] = "none"
    BY DEF Init
  <2>2. \A j \in Jobs : past[j] \cap Jobs = {} /\ j \notin past[j]
    BY <1>2, JobAssumption
  <2>3. QED
    BY <1>2, <2>1, <2>2 DEF Passes
<1>4. \A j \in Jobs : Compared(j) /\ Seen(j) /\ Fresh(j)
  BY <1>2 DEF Compared, Seen, Fresh
<1>5. QED
  BY <1>1, <1>3, <1>4 DEF JobInv

LEMMA StartJobInv ==
  ASSUME JobInv, NEW j \in Jobs, StartJob(j)
  PROVE  JobInv'
<1>1. TypeOK
  BY DEF JobInv
<1>2. /\ jobs' \in [Jobs -> Job] /\ \A i \in Jobs \ {j} : jobs'[i] = jobs[i]
      /\ jobs'[j].pc = "baseline" /\ jobs'[j].last = lastReport
  BY <1>1, StartJobEffect
<1>3. /\ jobs[j].pc = "queued" /\ UNCHANGED <<dispatch, pass, lastReport, saved, restarts, faulty>>
      /\ past' = [past EXCEPT ![j] = {OldReport, NoReport} \cup {k \in Jobs : pass[k] = "over"}]
  BY DEF StartJob, indexerVars
<1>4. /\ past'[j] = {OldReport, NoReport} \cup {k \in Jobs : pass[k] = "over"}
      /\ \A i \in Jobs \ {j} : past'[i] = past[i]
  BY <1>1, <1>3 DEF TypeOK
<1>5. TypeOK'
  <2>1. {OldReport, NoReport} \cup {k \in Jobs : pass[k] = "over"} \in SUBSET Report
    BY ReportTyped
  <2>2. past' \in [Jobs -> SUBSET Report]
    BY <1>1, <1>3, <2>1 DEF TypeOK
  <2>3. QED
    BY <1>1, <1>2, <1>3, <2>2 DEF TypeOK
<1>6. ASSUME ~faulty
      PROVE  Passes' /\ \A i \in Jobs : Compared(i)' /\ Seen(i)' /\ Fresh(i)'
  <2>1. Passes /\ \A i \in Jobs : Compared(i) /\ Seen(i) /\ Fresh(i)
    BY <1>6 DEF JobInv
  <2>2. Passes'
    <3>1. pass[j] = "none"
      BY <1>3, <2>1 DEF Passes
    <3>2. j \notin past'[j]
      BY <1>4, <3>1, JobAssumption
    <3>3. \A k \in past'[j] \cap Jobs : pass'[k] = "over"
      BY <1>3, <1>4, JobAssumption
    <3>4. QED
      BY <1>2, <1>3, <1>4, <2>1, <3>1, <3>2, <3>3 DEF Passes
  <2>3. \A i \in Jobs \ {j} : Compared(i)' /\ Seen(i)' /\ Fresh(i)'
    BY <1>2, <1>3, <1>4, <2>1, OtherJobs
  <2>4. Compared(j)' /\ Seen(j)' /\ Fresh(j)'
    BY <1>2, <1>3 DEF Compared, Seen, Fresh
  <2>5. QED
    BY <2>2, <2>3, <2>4
<1>7. QED
  BY <1>3, <1>5, <1>6 DEF JobInv

LEMMA DispatchInv ==
  ASSUME JobInv, NEW j \in Jobs, Dispatch(j)
  PROVE  JobInv'
<1>1. TypeOK
  BY DEF JobInv
<1>2. /\ jobs' \in [Jobs -> Job] /\ \A i \in Jobs \ {j} : jobs'[i] = jobs[i]
      /\ jobs'[j].pc = "loop" /\ jobs'[j].observed = FALSE /\ jobs'[j].running = FALSE
      /\ faulty' \/ (jobs'[j].baseline = StatusReport(j) /\ UNCHANGED faulty)
  BY <1>1, DispatchEffect
<1>3. /\ jobs[j].pc = "baseline" /\ UNCHANGED <<lastReport, saved, restarts, past>>
      /\ dispatch' = [dispatch EXCEPT ![j] = "waiting"] /\ pass' = [pass EXCEPT ![j] = "sent"]
      /\ faulty' \in BOOLEAN
  BY <1>1 DEF Dispatch, TypeOK
<1>4. TypeOK'
  BY <1>1, <1>2, <1>3 DEF TypeOK
<1>5. ASSUME ~faulty'
      PROVE  Passes' /\ \A i \in Jobs : Compared(i)' /\ Seen(i)' /\ Fresh(i)'
  <2>1. Passes /\ \A i \in Jobs : Compared(i) /\ Seen(i) /\ Fresh(i)
    BY <1>2, <1>5 DEF JobInv
  <2>2. pass[j] = "none" /\ NoReport \in past[j]
    BY <1>3, <2>1 DEF Passes
  <2>3. \A i \in Jobs : j \notin past[i]
    BY <2>1, <2>2 DEF Passes
  <2>4. Passes'
    BY <1>1, <1>2, <1>3, <2>1, <2>3 DEF Passes, TypeOK
  <2>5. Locked' = Locked
    BY <1>1, <1>3, <2>2 DEF Locked, InProgress, TypeOK
  <2>6. ASSUME NEW i \in Jobs \ {j}
        PROVE  Compared(i)' /\ Seen(i)' /\ Fresh(i)'
    BY <1>2, <1>3, <2>1, <2>5 DEF Compared, Newer, Seen, Fresh
  <2>7. Compared(j)'
    BY <1>2, <1>3, <1>5, <2>1, <2>2 DEF Compared, Newer, StatusReport
  <2>8. Seen(j)' /\ Fresh(j)'
    BY <1>2 DEF Seen, Fresh
  <2>9. QED
    BY <2>4, <2>6, <2>7, <2>8
<1>6. QED
  BY <1>4, <1>5 DEF JobInv

\* A step of a job that leaves the indexer alone.
LEMMA FollowInv ==
  ASSUME JobInv, NEW j \in Jobs, jobs[j].pc \in {"loop", "asked"},
         UNCHANGED <<indexerVars, past, faulty>>,
         jobs' \in [Jobs -> Job], \A i \in Jobs \ {j} : jobs'[i] = jobs[i],
         dispatch' = [dispatch EXCEPT ![j] = "none"] \/ UNCHANGED dispatch,
         jobs'[j].pc \in {"loop", "asked", "done", "failed"},
         ~faulty /\ Passes /\ Compared(j) /\ Seen(j) => Compared(j)' /\ Seen(j)' /\ Fresh(j)'
  PROVE  JobInv'
<1>1. TypeOK
  BY DEF JobInv
<1>2. UNCHANGED <<pass, lastReport, saved, restarts, past, faulty>>
  BY DEF indexerVars
<1>3. TypeOK'
  BY <1>1, <1>2 DEF TypeOK
<1>4. ASSUME ~faulty
      PROVE  Passes' /\ \A i \in Jobs : Compared(i)' /\ Seen(i)' /\ Fresh(i)'
  <2>1. Passes /\ \A i \in Jobs : Compared(i) /\ Seen(i) /\ Fresh(i)
    BY <1>4 DEF JobInv
  <2>2. Passes'
    BY <1>1, <1>2, <2>1 DEF Passes, TypeOK
  <2>3. \A i \in Jobs \ {j} : Compared(i)' /\ Seen(i)' /\ Fresh(i)'
    BY <1>2, <2>1, OtherJobs
  <2>4. QED
    BY <1>4, <2>1, <2>2, <2>3
<1>5. QED
  BY <1>2, <1>3, <1>4 DEF JobInv

LEMMA PollInv ==
  ASSUME JobInv, NEW j \in Jobs, Poll(j)
  PROVE  JobInv'
<1>1. TypeOK
  BY DEF JobInv
<1>2. jobs[j].pc = "loop" /\ UNCHANGED <<indexerVars, past, faulty>>
  BY DEF Poll
<1>3. jobs' \in [Jobs -> Job] /\ \A i \in Jobs \ {j} : jobs'[i] = jobs[i]
  BY <1>1, PollEffect
<1>4. CASE /\ dispatch[j] \in Report /\ jobs'[j].pc = "done" /\ jobs'[j].report = dispatch[j]
           /\ dispatch' = [dispatch EXCEPT ![j] = "none"]
  <2>1. ASSUME Passes
        PROVE  dispatch[j] \notin past[j]
    BY <1>4, <2>1, ReportTyped, JobAssumption DEF Passes
  <2>2. Passes => Compared(j)' /\ Seen(j)' /\ Fresh(j)'
    BY <1>2, <1>4, <2>1 DEF Compared, Seen, Fresh
  <2>3. QED
    BY <1>2, <1>3, <1>4, <2>2, FollowInv
<1>5. CASE /\ jobs'[j].pc = "asked" /\ UNCHANGED dispatch
           /\ jobs'[j].running = Locked /\ jobs'[j].last = lastReport
           /\ jobs'[j].baseline = jobs[j].baseline /\ jobs'[j].observed = jobs[j].observed
  <2>1. UNCHANGED <<pass, lastReport, saved, past>> /\ Locked' = Locked
    BY <1>2 DEF indexerVars, Locked, InProgress
  <2>2. Compared(j) => Compared(j)'
    BY <1>2, <1>5, <2>1 DEF Compared, Newer
  <2>3. Seen(j) => Seen(j)'
    BY <1>2, <1>5, <2>1 DEF Seen
  <2>4. Fresh(j)'
    BY <1>5 DEF Fresh
  <2>5. QED
    BY <1>2, <1>3, <1>5, <2>2, <2>3, <2>4, FollowInv
<1>6. QED
  BY <1>1, <1>4, <1>5, PollEffect

\* A poll that has not decided the job.
LEMMA UndecidedInv ==
  ASSUME JobInv, NEW j \in Jobs, jobs[j].pc = "asked", UNCHANGED <<indexerVars, past, faulty>>,
         jobs' \in [Jobs -> Job], \A i \in Jobs \ {j} : jobs'[i] = jobs[i],
         \/ jobs'[j].pc = "failed" /\ dispatch' = [dispatch EXCEPT ![j] = "none"]
         \/ /\ jobs'[j].pc = "loop" /\ jobs'[j].running = FALSE /\ UNCHANGED dispatch
            /\ jobs'[j].baseline = jobs[j].baseline
            /\ jobs'[j].observed => jobs[j].running \/ jobs[j].observed
  PROVE  JobInv'
<1>1. UNCHANGED <<pass, lastReport, saved, past>> /\ Locked' = Locked
  BY DEF indexerVars, Locked, InProgress
<1>2. Compared(j) => Compared(j)'
  BY <1>1 DEF Compared, Newer
<1>3. Seen(j) => Seen(j)'
  BY <1>1 DEF Seen
<1>4. Fresh(j)'
  BY DEF Fresh
<1>5. QED
  BY <1>2, <1>3, <1>4, FollowInv

LEMMA StatusFailsInv ==
  ASSUME JobInv, NEW j \in Jobs, StatusFails(j)
  PROVE  JobInv'
<1>1. TypeOK /\ jobs[j].pc = "asked" /\ UNCHANGED <<indexerVars, past, faulty>>
  BY DEF JobInv, StatusFails
<1>2. QED
  BY <1>1, StatusFailsEffect, UndecidedInv

LEMMA StatusArrivesInv ==
  ASSUME JobInv, NEW j \in Jobs, StatusArrives(j)
  PROVE  JobInv'
<1>1. TypeOK /\ jobs[j].pc = "asked" /\ UNCHANGED <<indexerVars, past, faulty>>
  BY DEF JobInv, StatusArrives
<1>2. jobs' \in [Jobs -> Job] /\ \A i \in Jobs \ {j} : jobs'[i] = jobs[i]
  BY <1>1, StatusArrivesEffect
<1>3. CASE /\ jobs'[j].pc = "done" /\ jobs'[j].report = StatusReport(j)
           /\ dispatch' = [dispatch EXCEPT ![j] = "none"]
           /\ ~jobs[j].running /\ (jobs[j].observed \/ StatusReport(j) # jobs[j].baseline)
  <2>1. ASSUME Passes, Compared(j), Seen(j)
        PROVE  StatusReport(j) \notin past[j]
    <3>1. NoReport \in past[j]
      BY <2>1 DEF Passes
    <3>2. CASE jobs[j].observed
      BY <1>1, <1>3, <2>1, <3>1, <3>2 DEF Seen, StatusReport
    <3>3. CASE StatusReport(j) # jobs[j].baseline
      BY <1>1, <2>1, <3>1, <3>3 DEF Compared, Newer, StatusReport
    <3>4. QED
      BY <1>3, <3>2, <3>3
  <2>2. Passes /\ Compared(j) /\ Seen(j) => Compared(j)' /\ Seen(j)' /\ Fresh(j)'
    BY <1>1, <1>3, <2>1 DEF Compared, Seen, Fresh
  <2>3. QED
    BY <1>1, <1>2, <1>3, <2>2, FollowInv
<1>4. CASE \/ jobs'[j].pc = "failed" /\ dispatch' = [dispatch EXCEPT ![j] = "none"]
           \/ /\ jobs'[j].pc = "loop" /\ jobs'[j].running = FALSE /\ UNCHANGED dispatch
              /\ jobs'[j].baseline = jobs[j].baseline
              /\ jobs'[j].observed => jobs[j].running \/ jobs[j].observed
  BY <1>1, <1>2, <1>4, UndecidedInv
<1>5. QED
  BY <1>1, <1>3, <1>4, StatusArrivesEffect

LEMMA TimeInv ==
  ASSUME JobInv, NEW j \in Jobs, GracePasses(j) \/ DeadlinePasses(j)
  PROVE  JobInv'
<1>1. /\ TypeOK /\ jobs[j].pc \in {"loop", "asked"} /\ UNCHANGED dispatch
      /\ UNCHANGED <<indexerVars, past, faulty>>
  BY DEF JobInv, GracePasses, DeadlinePasses, Following
<1>2. /\ jobs' \in [Jobs -> Job] /\ \A i \in Jobs \ {j} : jobs'[i] = jobs[i]
      /\ jobs'[j].pc = jobs[j].pc /\ jobs'[j].baseline = jobs[j].baseline
      /\ jobs'[j].observed = jobs[j].observed /\ jobs'[j].running = jobs[j].running
      /\ jobs'[j].last = jobs[j].last /\ jobs'[j].report = jobs[j].report
  BY <1>1, TimeEffect
<1>3. UNCHANGED <<pass, lastReport, saved, past>> /\ Locked' = Locked
  BY <1>1 DEF indexerVars, Locked, InProgress
<1>4. Compared(j) /\ Seen(j) => Compared(j)' /\ Seen(j)' /\ Fresh(j)'
  BY <1>1, <1>2, <1>3 DEF Compared, Newer, Seen, Fresh
<1>5. QED
  BY <1>1, <1>2, <1>4, FollowInv

LEMMA DispatchFailsInv ==
  ASSUME JobInv, NEW j \in Jobs, DispatchFails(j)
  PROVE  JobInv'
<1>1. /\ UNCHANGED <<jobs, pass, lastReport, saved, restarts, past, faulty>>
      /\ dispatch' = [dispatch EXCEPT ![j] = "error"]
  BY DEF DispatchFails, indexerVars
<1>2. TypeOK /\ TypeOK'
  BY <1>1 DEF JobInv, TypeOK
<1>3. Passes => Passes'
  BY <1>1, <1>2 DEF Passes, TypeOK
<1>4. \A i \in Jobs : Compared(i) /\ Seen(i) /\ Fresh(i) => Compared(i)' /\ Seen(i)' /\ Fresh(i)'
  BY <1>1, OtherJobs
<1>5. QED
  BY <1>1, <1>2, <1>3, <1>4 DEF JobInv

----------------------------------------------------------------------------
(* Steps of the indexer.                                                   *)

\* An answer reaches its own job only.
LEMMA AnswerEffect ==
  ASSUME TypeOK, NEW j \in Jobs, NEW r \in Report, Answer(j, r)
  PROVE  /\ dispatch' \in [Jobs -> {"none", "waiting", "error"} \cup Report]
         /\ dispatch'[j] \in {dispatch[j], r}
         /\ \A i \in Jobs \ {j} : dispatch'[i] = dispatch[i]
BY DEF TypeOK, Answer

LEMMA IndexRepositoryInv ==
  ASSUME JobInv, NEW j \in Jobs, IndexRepository(j)
  PROVE  JobInv'
<1>1. /\ TypeOK /\ pass[j] = "sent" /\ UNCHANGED <<jobs, lastReport, saved, restarts, past, faulty>>
  BY DEF JobInv, IndexRepository
<1>2. PICK p \in {"over", "indexing"} : pass' = [pass EXCEPT ![j] = p]
  BY DEF IndexRepository
<1>3. /\ dispatch' \in [Jobs -> {"none", "waiting", "error"} \cup Report]
      /\ dispatch'[j] \in {dispatch[j], Refused}
      /\ \A i \in Jobs \ {j} : dispatch'[i] = dispatch[i]
  BY <1>1, AnswerEffect, ReportTyped DEF IndexRepository, TypeOK
<1>4. TypeOK'
  BY <1>1, <1>2, <1>3 DEF TypeOK
<1>5. Passes => Passes'
  BY <1>1, <1>2, <1>3 DEF Passes, TypeOK
<1>6. Locked => Locked'
  BY <1>1, <1>2 DEF Locked, InProgress, TypeOK
<1>7. \A i \in Jobs : Compared(i) /\ Seen(i) /\ Fresh(i) => Compared(i)' /\ Seen(i)' /\ Fresh(i)'
  BY <1>1, <1>6 DEF Compared, Newer, Seen, Fresh
<1>8. QED
  BY <1>1, <1>4, <1>5, <1>7 DEF JobInv

LEMMA PassSavesInv ==
  ASSUME JobInv, NEW j \in Jobs, PassSaves(j)
  PROVE  JobInv'
<1>1. /\ TypeOK /\ pass[j] = "indexing" /\ saved' = j /\ pass' = [pass EXCEPT ![j] = "saved"]
      /\ UNCHANGED <<jobs, dispatch, lastReport, restarts, past, faulty>>
  BY DEF JobInv, PassSaves
<1>2. TypeOK'
  BY <1>1, ReportTyped DEF TypeOK
<1>3. ASSUME Passes
      PROVE  Passes' /\ \A i \in Jobs : j \notin past[i]
  BY <1>1, <1>3 DEF Passes, TypeOK
<1>4. Locked'
  BY <1>1 DEF Locked, InProgress, TypeOK
<1>5. Passes => \A i \in Jobs : Compared(i) /\ Seen(i) /\ Fresh(i) => Compared(i)' /\ Seen(i)' /\ Fresh(i)'
  BY <1>1, <1>3, <1>4 DEF Compared, Newer, Seen, Fresh
<1>6. QED
  BY <1>1, <1>2, <1>3, <1>5 DEF JobInv

LEMMA PassReturnsInv ==
  ASSUME JobInv, NEW j \in Jobs, PassReturns(j)
  PROVE  JobInv'
<1>1. /\ TypeOK /\ pass[j] = "saved" /\ lastReport' = j /\ pass' = [pass EXCEPT ![j] = "over"]
      /\ UNCHANGED <<jobs, saved, restarts, past, faulty>> /\ j \in Report /\ j # NoReport
  BY ReportTyped, JobAssumption DEF JobInv, PassReturns
<1>2. /\ dispatch' \in [Jobs -> {"none", "waiting", "error"} \cup Report]
      /\ dispatch'[j] \in {dispatch[j], j}
      /\ \A i \in Jobs \ {j} : dispatch'[i] = dispatch[i]
  BY <1>1, AnswerEffect DEF PassReturns
<1>3. TypeOK'
  BY <1>1, <1>2 DEF TypeOK
<1>4. ASSUME Passes
      PROVE  Passes' /\ \A i \in Jobs : j \notin past[i]
  BY <1>1, <1>2, <1>4 DEF Passes, TypeOK
<1>5. Passes => \A i \in Jobs : Compared(i) /\ Seen(i) /\ Fresh(i) => Compared(i)' /\ Seen(i)' /\ Fresh(i)'
  BY <1>1, <1>4 DEF Compared, Newer, Seen, Fresh
<1>6. QED
  BY <1>1, <1>3, <1>4, <1>5 DEF JobInv

LEMMA RestartInv ==
  ASSUME JobInv, Restart
  PROVE  JobInv'
<1>1. TypeOK'
  <2>1. pass' \in [Jobs -> {"none", "sent", "indexing", "saved", "over"}]
    BY DEF Restart
  <2>2. restarts' \in 0 .. MaxRestarts
    BY JobAssumption DEF JobInv, TypeOK, Restart
  <2>3. QED
    BY <2>1, <2>2, ReportTyped DEF JobInv, TypeOK, Restart
<1>2. QED
  BY <1>1 DEF JobInv, Restart

LEMMA StutterInv ==
  ASSUME JobInv, UNCHANGED vars
  PROVE  JobInv'
BY DEF JobInv, TypeOK, Passes, Compared, Newer, Seen, Fresh, Locked, InProgress, vars

\* The invariant of the gateway's jobs and the indexer's passes.
THEOREM JobInvariant == Spec => []JobInv
<1>1. Init => JobInv
  BY InitInv
<1>2. JobInv /\ [Next]_vars => JobInv'
  <2> SUFFICES ASSUME JobInv, [Next]_vars
               PROVE  JobInv'
    OBVIOUS
  <2>1. ASSUME NEW j \in Jobs,
               JobStep(j) \/ GracePasses(j) \/ DeadlinePasses(j)
        PROVE  JobInv'
    BY <2>1, StartJobInv, DispatchInv, PollInv, StatusArrivesInv, StatusFailsInv, TimeInv DEF JobStep
  <2>2. ASSUME NEW j \in Jobs,
               DispatchFails(j) \/ IndexRepository(j) \/ PassSaves(j) \/ PassReturns(j)
        PROVE  JobInv'
    BY <2>2, DispatchFailsInv, IndexRepositoryInv, PassSavesInv, PassReturnsInv
  <2>3. QED
    BY <2>1, <2>2, RestartInv, StutterInv DEF Next
<1>3. QED
  BY <1>1, <1>2, PTL DEF Spec

\* The records of the gateway's jobs, the answers to its dispatches and the
\* indexer's reports stay of their kinds (_IndexJob, IndexReport).
THEOREM JobTyped == Spec => []TypeOK
<1>1. JobInv => TypeOK
  BY DEF JobInv
<1>2. QED
  BY <1>1, JobInvariant, PTL

\* _follow_index_job never passes an old report off as the job's own: for any
\* number of concurrent jobs and any loss or delay of calls, a job that is done
\* reports on a pass that was not over when it started, or that it was refused,
\* if it has a baseline and the indexer stays up.
THEOREM JobReportFresh == Spec => []FreshReport
<1>1. JobInv => FreshReport
  BY DEF JobInv, Fresh, FreshReport
<1>2. QED
  BY <1>1, JobInvariant, PTL
=============================================================================
