---------------------------- MODULE JobRunProofs ----------------------------
(* Proofs about JobRun: how long wait() takes and when it may time out, for *)
(* every timeout, poll interval, latency and number of jobs.                *)
EXTENDS JobRun, TLAPS

-----------------------------------------------------------------------------
(* Types *)

LEMMA InitType == Init => TypeOK
<1>1. Init => disturbed \in BOOLEAN
  BY DEF Init
<1> QED
  BY <1>1, JobRunAssumption
  DEF Init, TypeOK, JobStatus, NotStarted, InProgress, Succeeded, Failed

\* What any change of one job's status keeps: types, and that a terminal status
\* of the first job is either the old one or dates from now.
LEMMA StatusSet ==
  ASSUME TypeOK, NEW j \in 1..Jobs, NEW s \in JobStatus, SetStatus(j, s)
  PROVE  /\ job' \in [1..Jobs -> JobStatus] /\ ended' \in Nat
         /\ Terminal(job[1])' => (Terminal(job[1]) /\ ended' = ended) \/ ended' = elapsed
<1>1. 1 \in 1..Jobs
  BY JobRunAssumption
<1>2. job' = [job EXCEPT ![j] = s]
      /\ ended' = IF j = 1 /\ Terminal(s) /\ ~ Terminal(job[1]) THEN elapsed ELSE ended
  BY DEF SetStatus
<1>3. job' \in [1..Jobs -> JobStatus] /\ ended' \in Nat
  BY <1>2 DEF TypeOK
<1>4. CASE j = 1
  BY <1>1, <1>2, <1>4 DEF TypeOK, Terminal
<1>5. CASE j # 1
  <2>1. job'[1] = job[1] /\ ended' = ended
    BY <1>1, <1>2, <1>5 DEF TypeOK
  <2> QED
    BY <1>3, <2>1 DEF Terminal
<1> QED
  BY <1>3, <1>4, <1>5

\* The server, another client, or the first request of retry() and cancel().
JobMoves == \E j \in 1..Jobs : \/ \E s \in JobStatus : SetStatus(j, s)
                               \/ UNCHANGED <<job, ended>>

LEMMA Moves ==
  ASSUME TypeOK, JobMoves
  PROVE  /\ job' \in [1..Jobs -> JobStatus] /\ ended' \in Nat
         /\ Terminal(job[1])' => (Terminal(job[1]) /\ ended' = ended) \/ ended' = elapsed
<1>1. CASE \E j \in 1..Jobs : \E s \in JobStatus : SetStatus(j, s)
  BY <1>1, StatusSet
<1>2. CASE UNCHANGED <<job, ended>>
  BY <1>2 DEF TypeOK, Terminal
<1> QED
  BY <1>1, <1>2 DEF JobMoves

LEMMA ServerMoves ==
  ASSUME TypeOK, ServerStep \/ \E j \in 1..Jobs : OtherClient(j)
  PROVE  JobMoves /\ disturbed' \in BOOLEAN /\ UNCHANGED <<phase, handle, clock>>
<1>1. PICK j \in 1..Jobs : Start(j) \/ Finish(j) \/ OtherClient(j)
  BY DEF ServerStep
<1>2. job[j] \in JobStatus
  BY DEF TypeOK
<1>3. \/ \E s \in JobStatus : SetStatus(j, s)
      \/ UNCHANGED <<job, ended>>
  BY <1>1, <1>2 DEF Start, Finish, OtherClient, Requeued, Cancelled, JobStatus,
                    NotStarted, InProgress, Succeeded, Failed
<1> QED
  BY <1>1, <1>3 DEF JobMoves, Start, Finish, OtherClient, TypeOK

LEMMA ControlMoves ==
  ASSUME TypeOK, Retry \/ Cancel
  PROVE  /\ JobMoves /\ disturbed' \in BOOLEAN /\ phase = "idle" /\ phase' \in {"idle", "reget"}
         /\ result' \in {"none", "raised"}
         /\ UNCHANGED <<seen, reply, exit, clock>>
<1>1. 1 \in 1..Jobs
  BY JobRunAssumption
<1>2. job[1] \in JobStatus
  BY <1>1 DEF TypeOK
<1>3. \/ \E s \in JobStatus : SetStatus(1, s)
      \/ UNCHANGED <<job, ended>>
  BY <1>2 DEF Retry, Cancel, Control, history, Requeued, Cancelled, JobStatus,
              NotStarted, InProgress, Succeeded, Failed
<1> QED
  BY <1>1, <1>3 DEF JobMoves, Retry, Cancel, Control, Idle, TypeOK, history

LEMMA NextType == TypeOK /\ [Next]_vars => TypeOK'
<1> SUFFICES ASSUME TypeOK, [Next]_vars PROVE TypeOK'
  OBVIOUS
<1>1. job[1] \in JobStatus
  BY JobRunAssumption DEF TypeOK
<1>2. CASE ServerStep \/ \E j \in 1..Jobs : OtherClient(j)
  BY <1>2, ServerMoves, Moves DEF TypeOK, handle, clock, history
<1>3. CASE Retry \/ Cancel
  BY <1>3, ControlMoves, Moves DEF TypeOK, clock, history
<1>4. CASE Tick
  BY <1>4 DEF TypeOK, Tick, handle, history
<1>5. CASE Wait
  BY <1>5, JobRunAssumption DEF TypeOK, Wait, history
<1>6. CASE WaitStep
  BY <1>1, <1>6, JobRunAssumption
  DEF TypeOK, WaitStep, WaitReturns, WaitTimesOut, Sleep, Ask, Answered, Receive,
      AskFails, handle, clock, history
<1>7. CASE Reget \/ Refresh
  BY <1>1, <1>7 DEF TypeOK, Reget, Refresh, Idle, clock, history
<1>8. CASE Exit
  BY <1>8 DEF TypeOK, Exit, ExitCode, clock, history
<1>9. CASE UNCHANGED vars
  BY <1>9 DEF TypeOK, vars, handle, clock, history
<1> QED
  BY <1>2, <1>3, <1>4, <1>5, <1>6, <1>7, <1>8, <1>9 DEF Next

\* Every reachable state is typed, for every number of jobs and every timing.
THEOREM TypeCorrect == Spec => []TypeOK
  BY InitType, NextType, PTL DEF Spec

-----------------------------------------------------------------------------
(* How long wait() takes *)

\* A sleep starts before the timeout, a request at most one poll later.
TimeInv ==
  timeout # Forever =>
    /\ elapsed < timeout + Poll + Latency
    /\ phase = "sleep" => elapsed + left < timeout + Poll
    /\ phase \in {"ask", "answer"} => elapsed + left < timeout + Poll + Latency

\* Neither a poll interval nor a latency makes a wait shorter than none at all.
LEMMA Positive == \A t \in Nat : 0 < t + Poll + Latency
<1>1. Poll \in Nat /\ Poll > 0 /\ Latency \in Nat
  BY JobRunAssumption
<1> QED
  BY <1>1

LEMMA NextTime == TypeOK /\ TimeInv /\ [Next]_vars => TimeInv'
<1> SUFFICES ASSUME TypeOK, TimeInv, [Next]_vars PROVE TimeInv'
  OBVIOUS
<1> USE JobRunAssumption DEF TypeOK, TimeInv, Forever
<1>1. CASE UNCHANGED <<phase, clock>>
  BY <1>1 DEF clock, history
<1>2. CASE Tick
  BY <1>2 DEF Tick, history
<1>3. CASE Wait
  <2>1. phase' = "check" /\ elapsed' = 0 /\ timeout' \in Nat \cup {Forever}
    BY <1>3 DEF Wait
  <2>2. timeout' # Forever => 0 < timeout' + Poll + Latency
    BY <2>1, Positive
  <2> QED
    BY <2>1, <2>2
<1>4. CASE Sleep
  BY <1>4 DEF Sleep, TimeUp, history
<1>5. CASE Ask
  BY <1>5 DEF Ask, history
<1>6. CASE phase' \notin {"sleep", "ask", "answer"} /\ UNCHANGED clock
  BY <1>6 DEF clock, history
<1>7. CASE Answered
  BY <1>7 DEF Answered, clock, history
<1>8. CASE Retry \/ Cancel
  BY <1>6, <1>8, ControlMoves
<1>9. CASE ServerStep \/ \E j \in 1..Jobs : OtherClient(j)
  BY <1>1, <1>9, ServerMoves
<1> QED
  BY <1>1, <1>2, <1>3, <1>4, <1>5, <1>6, <1>7, <1>8, <1>9
  DEF Next, WaitStep, WaitReturns, WaitTimesOut, Receive, AskFails, Reget, Refresh,
      Exit, vars, history

\* wait(timeout=t) is over less than a poll and a request after t.
THEOREM WaitIsBounded == Spec => []WaitBound
<1>1. Init => TimeInv
  BY DEF Init, TimeInv
<1>2. TypeOK /\ TimeInv => WaitBound
  BY DEF TimeInv, WaitBound
<1> QED
  BY <1>1, <1>2, NextTime, TypeCorrect, PTL DEF Spec

-----------------------------------------------------------------------------
(* When wait() may time out *)

\* A job that has ended although the caller does not know it yet ended after
\* the caller last looked, which is less than one request ago.
SeenInv ==
  /\ phase \in {"ask", "answer"} => left <= Latency
  /\ phase \in {"check", "sleep", "ask", "answer"} => result = "none"
  /\ result = "timeout" => timeout # Forever /\ elapsed >= timeout
  /\ timeout # Forever /\ Terminal(job[1]) =>
       /\ phase = "answer" /\ ~ Terminal(reply) => ended + Latency >= elapsed + left
       /\ phase = "check" /\ ~ Terminal(seen) => ended + Latency >= elapsed
       /\ result = "timeout" => ended + Latency >= timeout

LEMMA NextSeen == TypeOK /\ SeenInv /\ [Next]_vars => SeenInv'
<1> SUFFICES ASSUME TypeOK, SeenInv, [Next]_vars PROVE SeenInv'
  OBVIOUS
<1> USE JobRunAssumption DEF TypeOK, SeenInv, Forever
<1>1. CASE JobMoves /\ UNCHANGED <<phase, handle, clock>>
  BY <1>1, Moves DEF handle, clock, history
<1>2. CASE Retry \/ Cancel
  BY <1>2, ControlMoves DEF clock, history
<1>3. CASE Tick
  BY <1>3 DEF Tick, handle, history
<1>4. CASE Wait
  BY <1>4 DEF Wait, history
<1>5. CASE WaitReturns \/ WaitTimesOut
  BY <1>5 DEF WaitReturns, WaitTimesOut, TimeUp, clock, history
<1>6. CASE Sleep \/ Ask
  BY <1>6 DEF Sleep, Ask, handle, history
<1>7. CASE Answered
  BY <1>7 DEF Answered, clock, history
<1>8. CASE Receive
  BY <1>8 DEF Receive, clock, history
<1>9. CASE AskFails \/ Reget \/ Refresh
  BY <1>9 DEF AskFails, Reget, Refresh, Idle, clock, history
<1>10. CASE Exit \/ UNCHANGED vars
  BY <1>10 DEF Exit, vars, handle, clock, history
<1> QED
  BY <1>1, <1>2, <1>3, <1>4, <1>5, <1>6, <1>7, <1>8, <1>9, <1>10, ServerMoves
  DEF Next, WaitStep

\* TimeoutError is never raised for a job that ended in time to be seen.
THEOREM TimeoutIsHonest == Spec => []NoFalseTimeout
<1>1. Init => SeenInv
  BY DEF Init, SeenInv
<1>2. TypeOK /\ SeenInv => NoFalseTimeout
  BY DEF SeenInv, NoFalseTimeout
<1> QED
  BY <1>1, <1>2, NextSeen, TypeCorrect, PTL DEF Spec

-----------------------------------------------------------------------------
(* What wait() and the exit code tell                                       *)

\* As long as nobody else touches the job, a terminal status that the caller knows
\* or is about to learn is the job's own; only between the two requests of retry()
\* and cancel() may the Job be behind.
TruthInv ==
  ~ disturbed =>
    /\ Terminal(seen) /\ phase # "reget" => job[1] = seen
    /\ Terminal(reply) /\ phase = "answer" => job[1] = reply
    /\ result = "returned" => Terminal(seen) /\ phase # "reget"

\* What the exit code was made from is still there: a command makes no further call.
ExitInv ==
  /\ exit \in {0, 1, 2} => phase = "idle" /\ result # "none"
  /\ exit = 0 => result = "returned" /\ seen = Succeeded
  /\ exit = 2 => result = "timeout" \/ (result = "returned" /\ seen # Succeeded)

\* The server leaves a job alone that has ended.
LEMMA ServerLeaves ==
  ASSUME TypeOK, ServerStep
  PROVE  (Terminal(job[1]) => job'[1] = job[1]) /\ UNCHANGED <<phase, handle, clock, disturbed>>
<1>1. PICK j \in 1..Jobs : Start(j) \/ Finish(j)
  BY DEF ServerStep
<1>2. /\ ~ Terminal(job[j]) /\ \E s \in JobStatus : job' = [job EXCEPT ![j] = s]
      /\ UNCHANGED <<phase, handle, clock, disturbed>>
  BY <1>1 DEF Start, Finish, SetStatus, Terminal, JobStatus, NotStarted, InProgress, Succeeded, Failed
<1>3. 1 \in 1..Jobs
  BY JobRunAssumption
<1> QED
  BY <1>2, <1>3 DEF TypeOK

LEMMA NextTruth == TypeOK /\ SeenInv /\ TruthInv /\ [Next]_vars => TruthInv'
<1> SUFFICES ASSUME TypeOK, SeenInv, TruthInv, [Next]_vars, ~ disturbed' PROVE TruthInv'
  BY DEF TruthInv
<1>1. ~ disturbed
  BY DEF Next, ServerStep, Start, Finish, OtherClient, Tick, Wait, WaitStep, WaitReturns,
         WaitTimesOut, Sleep, Ask, Answered, Receive, AskFails, Retry, Cancel, Control,
         Reget, Refresh, Exit, vars, history
<1>2. /\ Terminal(seen) /\ phase # "reget" => job[1] = seen
      /\ Terminal(reply) /\ phase = "answer" => job[1] = reply
      /\ result = "returned" => Terminal(seen) /\ phase # "reget"
  BY <1>1 DEF TruthInv
<1>3. CASE ServerStep
  BY <1>2, <1>3, ServerLeaves DEF TruthInv, handle
<1>4. CASE Tick \/ Wait \/ Exit \/ UNCHANGED vars
  BY <1>2, <1>4 DEF TruthInv, Tick, Wait, Exit, vars, handle
<1>5. CASE WaitStep
  <2>1. CASE WaitReturns \/ WaitTimesOut \/ AskFails
    BY <1>2, <2>1 DEF TruthInv, WaitReturns, WaitTimesOut, AskFails
  <2>2. CASE Sleep \/ Ask
    BY <1>2, <2>2 DEF TruthInv, Sleep, Ask, handle
  <2>3. CASE Answered
    BY <1>2, <2>3 DEF TruthInv, Answered
  <2>4. CASE Receive
    <3>1. phase = "answer" /\ phase' = "check" /\ seen' = reply /\ UNCHANGED <<job, reply, result>>
      BY <2>4 DEF Receive
    <3>2. result # "returned"
      BY <1>2, <3>1 DEF SeenInv
    <3> QED
      BY <1>2, <3>1, <3>2 DEF TruthInv
  <2> QED
    BY <1>5, <2>1, <2>2, <2>3, <2>4 DEF WaitStep
<1>6. CASE Retry \/ Cancel
  <2>1. phase = "idle" /\ UNCHANGED <<seen, reply>>
    BY <1>6, ControlMoves
  <2>2. \/ phase' = "reget" /\ result' = "none"
        \/ phase' = "idle" /\ result' = "raised" /\ job' = job
    BY <1>6, <2>1 DEF Retry, Cancel, Control
  <2> QED
    BY <1>2, <2>1, <2>2 DEF TruthInv
<1>7. CASE Reget \/ Refresh
  BY <1>2, <1>7 DEF TruthInv, Reget, Refresh, Idle, clock
<1>8. ~ \E j \in 1..Jobs : OtherClient(j)
  BY DEF OtherClient
<1> QED
  BY <1>3, <1>4, <1>5, <1>6, <1>7, <1>8 DEF Next

LEMMA NextExit == TypeOK /\ ExitInv /\ [Next]_vars => ExitInv'
<1> SUFFICES ASSUME TypeOK, ExitInv, [Next]_vars PROVE ExitInv'
  OBVIOUS
<1>1. CASE UNCHANGED <<phase, handle>>
  BY <1>1 DEF ExitInv, handle
<1>2. CASE Wait
  BY <1>2 DEF ExitInv, Wait, NoCommand
<1>3. CASE WaitStep
  BY <1>3 DEF ExitInv, WaitStep, WaitReturns, WaitTimesOut, Sleep, Ask, Answered, Receive,
              AskFails, handle
<1>4. CASE Retry \/ Cancel
  BY <1>4, ControlMoves DEF ExitInv, Retry, Cancel, Control, Idle, NoCommand
<1>5. CASE Reget \/ Refresh
  BY <1>5 DEF ExitInv, Reget, Refresh, Idle, NoCommand
<1>6. CASE Exit
  <2>1. /\ phase = "idle" /\ result # "none" /\ exit' = ExitCode
        /\ UNCHANGED <<phase, seen, result>>
    BY <1>6 DEF Exit
  <2>2. result \in {"returned", "timeout", "raised"}
    BY <2>1 DEF TypeOK
  <2> QED
    BY <2>1, <2>2 DEF ExitInv, ExitCode
<1>7. ServerStep \/ (\E j \in 1..Jobs : OtherClient(j)) => UNCHANGED <<phase, handle>>
  BY ServerMoves
<1>8. CASE Tick
  BY <1>8 DEF ExitInv, Tick, handle
<1>9. CASE UNCHANGED vars
  BY <1>1, <1>9 DEF vars
<1> QED
  BY <1>1, <1>2, <1>3, <1>4, <1>5, <1>6, <1>7, <1>8, <1>9 DEF Next

\* What wait() returned with is what became of the job.
THEOREM WaitIsTrue == Spec => []WaitTellsOutcome
<1>1. Init => TruthInv /\ SeenInv
  BY DEF Init, TruthInv, SeenInv, Terminal, NotStarted, Succeeded, Failed
<1>2. TruthInv => WaitTellsOutcome
  BY DEF TruthInv, WaitTellsOutcome
<1> QED
  BY <1>1, <1>2, NextTruth, NextSeen, TypeCorrect, PTL DEF Spec

\* The exit code tells what became of the job.
THEOREM ExitIsTrue == Spec => []ExitTellsOutcome
<1>1. Init => TruthInv /\ ExitInv /\ SeenInv
  BY DEF Init, TruthInv, ExitInv, SeenInv, Terminal, NotStarted, Succeeded, Failed, NoExit, NoCommand
<1>2. TypeOK /\ TruthInv /\ ExitInv /\ SeenInv => ExitTellsOutcome
  BY DEF TypeOK, TruthInv, ExitInv, SeenInv, ExitTellsOutcome, Terminal
<1> QED
  BY <1>1, <1>2, NextTruth, NextExit, NextSeen, TypeCorrect, PTL DEF Spec
=============================================================================
