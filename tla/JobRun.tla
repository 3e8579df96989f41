------------------------------- MODULE JobRun -------------------------------
(***************************************************************************)
(* session.run() and the Job it returns: Job.wait(), cancel(), retry() and *)
(* refresh() of ragnerock/resources/job.py, and the exit code of the       *)
(* command `ragnerock run --wait`.                                         *)
(*                                                                         *)
(* The server works on one job per document while the caller sleeps, asks  *)
(* and waits for answers; the caller sees one of the jobs, by polling.     *)
(***************************************************************************)
EXTENDS Integers

CONSTANTS
  Jobs,     \* how many jobs the run has, one per document; the Job is number 1
  Timeouts, \* the timeouts wait() is called with; Forever for None
  Poll,     \* poll_interval, in units of the clock
  Latency,  \* how long a request may take
  Callers,  \* "library": a program using the Job; "cli": ragnerock run --wait
  Env       \* what may happen: see EnvEvents

Forever == -1

\* fail:   a request of the caller is refused, or its answer is lost
\* others: another client of the project retries or cancels a job
EnvEvents == {"fail", "others"}

ASSUME JobRunAssumption ==
  /\ Jobs \in Nat \ {0}
  /\ Timeouts \subseteq Nat \cup {Forever}
  /\ Poll \in Nat \ {0}
  /\ Latency \in Nat
  /\ Callers \subseteq {"library", "cli"}
  /\ Env \subseteq EnvEvents

NotStarted == 1
InProgress == 2
Succeeded  == 3
Failed     == 4
JobStatus  == {NotStarted, InProgress, Succeeded, Failed}

Terminal(s) == s \in {Succeeded, Failed}

VARIABLES
  job,     \* the server's jobs
  seen,    \* status of the caller's Job
  phase,   \* "idle", or in wait(): "check", "sleep", "ask", "answer"; "reget"
           \* after the first request of cancel() and retry()
  reply,   \* the status on its way to the caller
  timeout, \* of the current or last wait()
  elapsed, \* time since it was called; stays 0 without a timeout
  left,    \* time the sleep or the request in progress still takes, at most
  result,  \* how the last call ended: "none", "returned", "timeout", "raised"
  exit,    \* exit code of the command; NoExit while it runs, NoCommand in a program
  ended,    \* history: when the first job's present terminal status was reached
  disturbed \* history: another client acted, or a call of ours raised midway

handle  == <<seen, reply, result, exit>>
clock   == <<timeout, elapsed, left>>
history == <<ended, disturbed>>
vars    == <<job, phase, handle, clock, history>>

NoExit    == -1
NoCommand == -2

\* session.run() has returned.
Init ==
  /\ job = [j \in 1..Jobs |-> NotStarted]
  /\ seen = NotStarted
  /\ phase = "idle"
  /\ reply = NotStarted
  /\ timeout = Forever
  /\ elapsed = 0
  /\ left = 0
  /\ result = "none"
  /\ exit \in {IF c = "cli" THEN NoExit ELSE NoCommand : c \in Callers}
  /\ ended = 0
  /\ disturbed = FALSE

-----------------------------------------------------------------------------
(* The server *)

SetStatus(j, s) ==
  /\ job' = [job EXCEPT ![j] = s]
  /\ ended' = IF j = 1 /\ Terminal(s) /\ ~ Terminal(job[1]) THEN elapsed ELSE ended

Start(j) ==
  /\ job[j] = NotStarted
  /\ SetStatus(j, InProgress)
  /\ UNCHANGED <<phase, handle, clock, disturbed>>

Finish(j) ==
  /\ job[j] = InProgress
  /\ \E s \in {Succeeded, Failed} : SetStatus(j, s)
  /\ UNCHANGED <<phase, handle, clock, disturbed>>

\* What the two requests do to a job; a terminal one cannot be cancelled, and a
\* cancelled one may take its time to stop.
Requeued(j)  == SetStatus(j, NotStarted)
Cancelled(j) == IF Terminal(job[j]) THEN UNCHANGED <<job, ended>>
                ELSE \E s \in {job[j], Failed} : SetStatus(j, s)

OtherClient(j) ==
  /\ "others" \in Env
  /\ Requeued(j) \/ Cancelled(j)
  /\ disturbed' = TRUE
  /\ UNCHANGED <<phase, handle, clock>>

\* Time passes while the caller sleeps or waits for an answer.
Tick ==
  /\ phase \in {"sleep", "ask", "answer"}
  /\ left > 0
  /\ left' = left - 1
  /\ elapsed' = IF timeout = Forever THEN elapsed ELSE elapsed + 1
  /\ UNCHANGED <<job, phase, handle, timeout, history>>

-----------------------------------------------------------------------------
(* wait() *)

Wait ==
  /\ phase = "idle"
  /\ exit # NoCommand => result = "none"
  /\ timeout' \in Timeouts
  /\ phase' = "check"
  /\ elapsed' = 0
  /\ left' = 0
  /\ result' = "none"
  /\ ended' = 0
  /\ UNCHANGED <<job, seen, reply, exit, disturbed>>

TimeUp == timeout # Forever /\ elapsed >= timeout

WaitReturns ==
  /\ phase = "check"
  /\ Terminal(seen)
  /\ phase' = "idle"
  /\ result' = "returned"
  /\ UNCHANGED <<job, seen, reply, exit, clock, history>>

WaitTimesOut ==
  /\ phase = "check"
  /\ ~ Terminal(seen)
  /\ TimeUp
  /\ phase' = "idle"
  /\ result' = "timeout"
  /\ UNCHANGED <<job, seen, reply, exit, clock, history>>

SlipSleep ==         \* the deadline is looked at when it has passed by a poll
  /\ phase = "check"
  /\ ~ Terminal(seen)
  /\ phase' = "sleep"
  /\ left' = Poll
  /\ UNCHANGED <<job, handle, timeout, elapsed, history>>

Sleep ==
  /\ phase = "check"
  /\ ~ Terminal(seen)
  /\ ~ TimeUp
  /\ phase' = "sleep"
  /\ left' = Poll
  /\ UNCHANGED <<job, handle, timeout, elapsed, history>>

SlipGivesUp ==       \* the deadline is looked at before the job is refreshed
  /\ phase = "sleep"
  /\ left = 0
  /\ IF TimeUp THEN phase' = "idle" /\ result' = "timeout" /\ UNCHANGED left
               ELSE phase' = "ask" /\ left' = Latency /\ UNCHANGED result
  /\ UNCHANGED <<job, seen, reply, exit, timeout, elapsed, history>>

\* After the sleep the job is refreshed before anything else is looked at.
Ask ==
  /\ phase = "sleep"
  /\ left = 0
  /\ phase' = "ask"
  /\ left' = Latency
  /\ UNCHANGED <<job, handle, timeout, elapsed, history>>

Answered ==
  /\ phase = "ask"
  /\ reply' = job[1]
  /\ phase' = "answer"
  /\ UNCHANGED <<job, seen, result, exit, clock, history>>

SlipForgets ==       \* the answer is not copied to the Job
  /\ phase = "answer"
  /\ phase' = "check"
  /\ UNCHANGED <<job, handle, clock, history>>

Receive ==
  /\ phase = "answer"
  /\ seen' = reply
  /\ phase' = "check"
  /\ UNCHANGED <<job, reply, result, exit, clock, history>>

\* An exception of the refresh leaves wait().
AskFails ==
  /\ "fail" \in Env
  /\ phase \in {"ask", "answer"}
  /\ phase' = "idle"
  /\ result' = "raised"
  /\ UNCHANGED <<job, seen, reply, exit, clock, history>>

WaitStep == WaitReturns \/ WaitTimesOut \/ Sleep \/ Ask \/ Answered \/ Receive \/ AskFails

-----------------------------------------------------------------------------
(* refresh(), cancel() and retry() *)

Idle == phase = "idle" /\ exit = NoCommand

\* The first request is carried out, or it raises, carried out or not.
Control(effect) ==
  /\ Idle
  /\ \/ effect /\ phase' = "reget" /\ result' = "none" /\ UNCHANGED disturbed
     \/ "fail" \in Env /\ effect /\ result' = "raised" /\ disturbed' = TRUE /\ UNCHANGED phase
     \/ "fail" \in Env /\ result' = "raised" /\ UNCHANGED <<job, history, phase>>
  /\ UNCHANGED <<seen, reply, exit, clock>>

Retry  == Control(Requeued(1))
Cancel == Control(Cancelled(1))

SlipNoRefresh ==     \* retry() and cancel() leave the Job as it was
  /\ phase = "reget"
  /\ phase' = "idle"
  /\ UNCHANGED <<job, handle, clock, history>>

\* The second request of both: the Job's own refresh().
Reget ==
  /\ phase = "reget"
  /\ \/ seen' = job[1] /\ UNCHANGED <<result, disturbed>>
     \/ "fail" \in Env /\ result' = "raised" /\ disturbed' = TRUE /\ UNCHANGED seen
  /\ phase' = "idle"
  /\ UNCHANGED <<job, reply, exit, clock, ended>>

Refresh ==
  /\ Idle
  /\ phase' = "reget"
  /\ result' = "none"
  /\ UNCHANGED <<job, seen, reply, exit, clock, history>>

-----------------------------------------------------------------------------
(* ragnerock run --wait *)

SlipExitOnReturn == CASE result = "timeout" -> 2 [] result = "raised" -> 1
                      [] result = "returned" -> 0      \* whatever the status
SlipExitStatus == CASE result = "timeout" -> 2 [] result = "raised" -> 1
                    [] result = "returned" -> seen     \* the status itself

ExitCode == CASE result = "timeout" -> 2
              [] result = "raised" -> 1
              [] result = "returned" -> IF seen = Succeeded THEN 0 ELSE 2

Exit ==
  /\ phase = "idle" /\ result # "none" /\ exit = NoExit
  /\ exit' = ExitCode
  /\ UNCHANGED <<job, phase, seen, reply, result, clock, history>>

-----------------------------------------------------------------------------

ServerStep == \E j \in 1..Jobs : Start(j) \/ Finish(j)

Next ==
  \/ ServerStep \/ Tick
  \/ \E j \in 1..Jobs : OtherClient(j)
  \/ Wait \/ WaitStep
  \/ Retry \/ Cancel \/ Reget \/ Refresh \/ Exit

Spec == Init /\ [][Next]_vars

\* The server gets on with its jobs, the clock runs and the thread is scheduled.
FairSpec == Spec /\ WF_vars(ServerStep) /\ WF_vars(Tick) /\ WF_vars(WaitStep)

-----------------------------------------------------------------------------
(* Properties *)

TypeOK ==
  /\ job \in [1..Jobs -> JobStatus]
  /\ seen \in JobStatus
  /\ phase \in {"idle", "check", "sleep", "ask", "answer", "reget"}
  /\ reply \in JobStatus
  /\ timeout \in Nat \cup {Forever}
  /\ elapsed \in Nat
  /\ left \in Nat
  /\ result \in {"none", "returned", "timeout", "raised"}
  /\ exit \in {NoCommand, NoExit, 0, 1, 2}
  /\ ended \in Nat
  /\ disturbed \in BOOLEAN

\* wait(timeout=t) is over less than one poll and one request after t, whatever
\* the server does.
WaitBound == timeout # Forever => elapsed < timeout + Poll + Latency

\* A job that ended early enough for the last refresh to see it is never
\* reported as timed out: when TimeoutError is raised for a job that has ended,
\* it ended no sooner than one request before the timeout.
NoFalseTimeout ==
  result = "timeout" /\ Terminal(job[1]) => ended + Latency >= timeout

\* What wait() returned with is what became of the job, across retries and
\* cancellations by the caller, unless another client interfered or one of the
\* caller's own calls raised between its request and its refresh.
WaitTellsOutcome == result = "returned" /\ ~ disturbed => seen = job[1]

\* The exit code tells what became of the job: 0 that it succeeded, 2 that it
\* failed or ended too late for the last refresh to see it, unless another client
\* interfered.
ExitTellsOutcome ==
  ~ disturbed =>
  /\ exit = 0 => job[1] = Succeeded
  /\ exit = 2 /\ job[1] = Succeeded => ended + Latency >= timeout /\ timeout # Forever

\* wait() ends: with a timeout by the clock, without one by the job's end (which
\* others may put off for ever by requeueing it).
WaitEnds ==
  phase = "check" ~> phase = "idle" \/ (disturbed /\ timeout = Forever)

\* The command is documented to block until the workflow completes.
ExitMeansComplete == exit = 0 => \A j \in 1..Jobs : Terminal(job[j])
=============================================================================
