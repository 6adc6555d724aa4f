------------------------------ MODULE IndexJob ------------------------------
(***************************************************************************)
(* Index jobs: the gateway's background job (gateway/app.py) that starts   *)
(* an index pass on the indexer agent (agents/indexer) and follows it by   *)
(* polling, because the pass outlives every request timeout.               *)
(*                                                                         *)
(* The gateway and the indexer are two processes.  A dispatch may be       *)
(* answered, refused, lost, or time out while its request is under way or  *)
(* being served; a status poll may fail; the indexer may crash and restart *)
(* and then has only the report on disk.                                   *)
(*                                                                         *)
(* Abstractions.  Every job starts at most one pass, so a report is named  *)
(* by the job whose pass it reports on.  Deadlines are two flags per job   *)
(* that time sets.  That a status takes the report from disk only when the *)
(* agent has none is kept; node counts are left out, and so are passes of  *)
(* clients that talk to the indexer without the gateway.                   *)
(***************************************************************************)
EXTENDS Naturals, FiniteSets

CONSTANTS Jobs,         \* POST /api/index
          OldReport,    \* on disk from an earlier life of the indexer
          NoReport, Refused,
          MaxRestarts   \* bound: crashes of the indexer

ASSUME JobAssumption == /\ MaxRestarts \in Nat
                        /\ OldReport \notin Jobs \cup {NoReport, Refused}
                        /\ NoReport \notin Jobs \cup {Refused}
                        /\ Refused \notin Jobs
                        /\ {"none", "waiting", "error"} \cap (Jobs \cup {OldReport, NoReport, Refused}) = {}

\* _UNREACHABLE_POLL_LIMIT; further failed polls do not change anything.
UnreachableLimit == 2

VARIABLES jobs,       \* the gateway's job coroutines
          dispatch,   \* the gateway's side of each index_repository call
          pass,       \* the indexer's side of it; one in progress holds _index_lock
          lastReport, \* indexer: _last_report
          saved,      \* the report file
          restarts,
          past,       \* history: the passes over when a job started
          faulty      \* history: a restart, or a job without a baseline

indexerVars == <<pass, lastReport, saved, restarts>>
vars == <<jobs, dispatch, pass, lastReport, saved, restarts, past, faulty>>

Report == Jobs \cup {OldReport, NoReport, Refused}

Job == [pc : {"queued", "baseline", "loop", "asked", "done", "failed"},
        baseline : Report, report : Report,
        dispatchFailed : BOOLEAN, observed : BOOLEAN, unreachable : 0 .. UnreachableLimit,
        running : BOOLEAN, last : Report,          \* the status being answered
        graceOver : BOOLEAN, deadlineOver : BOOLEAN]

NewJob == [pc |-> "queued", baseline |-> NoReport, report |-> NoReport,
           dispatchFailed |-> FALSE, observed |-> FALSE, unreachable |-> 0,
           running |-> FALSE, last |-> NoReport, graceOver |-> FALSE, deadlineOver |-> FALSE]

TypeOK == /\ jobs \in [Jobs -> Job]
          /\ dispatch \in [Jobs -> {"none", "waiting", "error"} \cup Report]
          /\ pass \in [Jobs -> {"none", "sent", "indexing", "saved", "over"}]
          /\ lastReport \in Report /\ saved \in Report
          /\ restarts \in 0 .. MaxRestarts
          /\ past \in [Jobs -> SUBSET Report]
          /\ faulty \in BOOLEAN

Init == /\ jobs = [j \in Jobs |-> NewJob]
        /\ dispatch = [j \in Jobs |-> "none"]
        /\ pass = [j \in Jobs |-> "none"]
        /\ lastReport = NoReport
        /\ saved \in {NoReport, OldReport}
        /\ restarts = 0
        /\ past = [j \in Jobs |-> {OldReport, NoReport}]
        /\ faulty = FALSE

-----------------------------------------------------------------------------
(* The indexer agent.                                                       *)

InProgress(j) == pass[j] \in {"indexing", "saved"}
Locked == \E j \in Jobs : InProgress(j)

\* The answer reaches the gateway if it still waits for one.
Answer(j, report) == dispatch' = [dispatch EXCEPT ![j] = IF @ = "waiting" THEN report ELSE @]

\* index_repository: refused while the lock is held, else the pass starts.
IndexRepository(j) ==
    /\ pass[j] = "sent"
    /\ \/ /\ Locked
          /\ Answer(j, Refused)
          /\ pass' = [pass EXCEPT ![j] = "over"]
       \/ /\ ~Locked
          /\ pass' = [pass EXCEPT ![j] = "indexing"]
          /\ UNCHANGED dispatch
    /\ UNCHANGED <<jobs, lastReport, saved, restarts, past, faulty>>

\* The thread of the pass writes its report, whether it succeeded or not.
PassSaves(j) ==
    /\ pass[j] = "indexing"
    /\ saved' = j
    /\ pass' = [pass EXCEPT ![j] = "saved"]
    /\ UNCHANGED <<jobs, dispatch, lastReport, restarts, past, faulty>>

\* Back on the event loop: the report is published and the lock released.
PassReturns(j) ==
    /\ pass[j] = "saved"
    /\ lastReport' = j
    /\ pass' = [pass EXCEPT ![j] = "over"]
    /\ Answer(j, j)
    /\ UNCHANGED <<jobs, saved, restarts, past, faulty>>

\* The agent dies and comes back; requests under way die with it.
Restart ==
    /\ restarts < MaxRestarts
    /\ restarts' = restarts + 1
    /\ lastReport' = NoReport
    /\ pass' = [j \in Jobs |-> IF pass[j] = "none" THEN "none" ELSE "over"]
    /\ faulty' = TRUE
    /\ UNCHANGED <<jobs, dispatch, saved, past>>

\* The transport gives up on a dispatch, whatever has become of the request.
DispatchFails(j) ==
    /\ dispatch[j] = "waiting"
    /\ dispatch' = [dispatch EXCEPT ![j] = "error"]
    /\ UNCHANGED <<jobs, indexerVars, past, faulty>>

-----------------------------------------------------------------------------
(* The gateway's job coroutine.                                             *)

Update(j, job) == jobs' = [jobs EXCEPT ![j] = job]

\* get_index_status: lock and _last_report are read together ...
StatusRead(j) == [jobs[j] EXCEPT !.running = Locked, !.last = lastReport]
\* ... and the file only then, when there is no report in memory.
StatusReport(j) == IF jobs[j].last = NoReport THEN saved ELSE jobs[j].last
WithoutStatus(job) == [job EXCEPT !.running = FALSE, !.last = NoReport]

\* _run_index_job: asks for the baseline.
StartJob(j) ==
    /\ jobs[j].pc = "queued"
    /\ Update(j, [StatusRead(j) EXCEPT !.pc = "baseline"])
    /\ past' = [past EXCEPT ![j] = {OldReport, NoReport} \cup {k \in Jobs : pass[k] = "over"}]
    /\ UNCHANGED <<dispatch, indexerVars, faulty>>

\* The baseline, or None when the indexer did not answer; then the dispatch.
Dispatch(j) ==
    /\ jobs[j].pc = "baseline"
    /\ \/ /\ Update(j, [NewJob EXCEPT !.pc = "loop", !.baseline = StatusReport(j)])
          /\ UNCHANGED faulty
       \/ /\ Update(j, [NewJob EXCEPT !.pc = "loop"])
          /\ faulty' = TRUE
    /\ dispatch' = [dispatch EXCEPT ![j] = "waiting"]
    /\ pass' = [pass EXCEPT ![j] = "sent"]
    /\ UNCHANGED <<lastReport, saved, restarts, past>>

\* The end of the job; its dispatch is abandoned, which says nothing about the
\* pass.
Finish(j, pc, report) ==
    /\ Update(j, [NewJob EXCEPT !.pc = pc, !.report = report])
    /\ dispatch' = [dispatch EXCEPT ![j] = "none"]

Done(j, report) == Finish(j, "done", report)
Failed(j) == Finish(j, "failed", NoReport)

\* (mutant) a dispatch that is done is taken for an answer
PollAnyOutcome(j) ==
    /\ jobs[j].pc = "loop"
    /\ \/ dispatch[j] # "waiting" /\ Done(j, dispatch[j])
       \/ /\ dispatch[j] = "waiting"
          /\ Update(j, [StatusRead(j) EXCEPT !.pc = "asked"])
          /\ UNCHANGED dispatch
    /\ UNCHANGED <<indexerVars, past, faulty>>

\* _follow_index_job, top of the loop: has the dispatch answered for itself?
Poll(j) ==
    /\ jobs[j].pc = "loop"
    /\ \/ dispatch[j] \in Report /\ Done(j, dispatch[j])
       \/ /\ dispatch[j] \notin Report
          /\ Update(j, [StatusRead(j) EXCEPT !.pc = "asked",
                                             !.dispatchFailed = @ \/ dispatch[j] = "error"])
          /\ UNCHANGED dispatch
    /\ UNCHANGED <<indexerVars, past, faulty>>

\* The deadlines, looked at when a poll has not decided the job.
CheckDeadlines(j, job) ==
    \/ /\ job.deadlineOver \/ (~job.observed /\ job.graceOver)
       /\ Failed(j)
    \/ /\ ~(job.deadlineOver \/ (~job.observed /\ job.graceOver))
       /\ Update(j, [WithoutStatus(job) EXCEPT !.pc = "loop"])
       /\ UNCHANGED dispatch

\* (mutant) an idle indexer is taken for one that has finished
StatusArrivesNoBaseline(j) ==
    /\ jobs[j].pc = "asked"
    /\ \/ /\ jobs[j].running
          /\ CheckDeadlines(j, [jobs[j] EXCEPT !.unreachable = 0, !.observed = TRUE])
       \/ /\ ~jobs[j].running
          /\ Done(j, StatusReport(j))
    /\ UNCHANGED <<indexerVars, past, faulty>>

StatusArrives(j) ==
    /\ jobs[j].pc = "asked"
    /\ \/ /\ jobs[j].running
          /\ CheckDeadlines(j, [jobs[j] EXCEPT !.unreachable = 0, !.observed = TRUE])
       \/ /\ ~jobs[j].running
          /\ jobs[j].observed \/ StatusReport(j) # jobs[j].baseline
          /\ Done(j, StatusReport(j))
       \/ /\ ~jobs[j].running
          /\ ~jobs[j].observed /\ StatusReport(j) = jobs[j].baseline
          /\ CheckDeadlines(j, [jobs[j] EXCEPT !.unreachable = 0])
    /\ UNCHANGED <<indexerVars, past, faulty>>

\* (mutant) a poll that fails goes on to the next one
StatusFailsAndContinues(j) ==
    /\ jobs[j].pc = "asked"
    /\ LET unreachable == IF jobs[j].unreachable < UnreachableLimit
                            THEN jobs[j].unreachable + 1 ELSE UnreachableLimit
       IN \/ /\ jobs[j].dispatchFailed /\ unreachable = UnreachableLimit
             /\ Failed(j)
          \/ /\ ~(jobs[j].dispatchFailed /\ unreachable = UnreachableLimit)
             /\ Update(j, [WithoutStatus(jobs[j]) EXCEPT !.pc = "loop", !.unreachable = unreachable])
             /\ UNCHANGED dispatch
    /\ UNCHANGED <<indexerVars, past, faulty>>

StatusFails(j) ==
    /\ jobs[j].pc = "asked"
    /\ LET unreachable == IF jobs[j].unreachable < UnreachableLimit
                            THEN jobs[j].unreachable + 1 ELSE UnreachableLimit
       IN \/ /\ jobs[j].dispatchFailed /\ unreachable = UnreachableLimit
             /\ Failed(j)
          \/ /\ ~(jobs[j].dispatchFailed /\ unreachable = UnreachableLimit)
             /\ CheckDeadlines(j, [jobs[j] EXCEPT !.unreachable = unreachable])
    /\ UNCHANGED <<indexerVars, past, faulty>>

Ended(j) == jobs[j].pc \in {"done", "failed"}

\* index_start_grace_s and index_timeout_s run from the dispatch.
Following(j) == jobs[j].pc \in {"loop", "asked"}
GracePasses(j) ==
    /\ Following(j) /\ ~jobs[j].graceOver
    /\ ~jobs[j].observed /\ ~jobs[j].deadlineOver  \* else it does not matter
    /\ Update(j, [jobs[j] EXCEPT !.graceOver = TRUE])
    /\ UNCHANGED <<dispatch, indexerVars, past, faulty>>
DeadlinePasses(j) ==
    /\ Following(j) /\ ~jobs[j].deadlineOver
    /\ Update(j, [jobs[j] EXCEPT !.deadlineOver = TRUE])
    /\ UNCHANGED <<dispatch, indexerVars, past, faulty>>

-----------------------------------------------------------------------------
JobStep(j) == StartJob(j) \/ Dispatch(j) \/ Poll(j) \/ StatusArrives(j) \/ StatusFails(j)

Next == \/ \E j \in Jobs : \/ JobStep(j) \/ GracePasses(j) \/ DeadlinePasses(j)
                           \/ DispatchFails(j)
                           \/ IndexRepository(j) \/ PassSaves(j) \/ PassReturns(j)
        \/ Restart

\* A poll is answered or times out, and time passes.  A dispatch may be lost
\* and a pass may hang, so the indexer's steps are not fair.
Fairness == \A j \in Jobs : /\ WF_vars(JobStep(j))
                            /\ WF_vars(DeadlinePasses(j))

Spec == Init /\ [][Next]_vars /\ Fairness

-----------------------------------------------------------------------------
(* A job that is done reports on a pass that was not over when the job      *)
(* started, or that it was refused, whatever other jobs do and whichever    *)
(* calls are lost or late, as long as it has a baseline to compare with and *)
(* the indexer stays up.                                                    *)
FreshReport == ~faulty => \A j \in Jobs : jobs[j].pc = "done" => jobs[j].report \notin past[j]

(* Every accepted job ends, also when the indexer never answers again.      *)
JobEnds == \A j \in Jobs : jobs[j].pc = "queued" ~> Ended(j)
=============================================================================
