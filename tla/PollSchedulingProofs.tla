------------------------ MODULE PollSchedulingProofs ------------------------
(* Proofs about PollScheduling for any accounts and platforms and any       *)
(* number of attempts, failures, restarts and changes.                      *)
EXTENDS PollScheduling, TLAPS

JobRecord == [state : JobState, tried : 0 .. MaxAttempts, stalls : 0 .. 2]

\* How many attempts a job in each state may have used up, and why it is failed.
Spent(j) ==
  /\ j.state \in {"waiting", "active", "delayed"} => j.tried < MaxAttempts /\ j.stalls <= 1
  /\ j.state = "failed" => j.tried = MaxAttempts \/ j.stalls = 2

\* The inductive invariant: types, a running step exactly for an active job, and
\* attempts left for every job that may still run.
JobsSound ==
  /\ TypeOK
  /\ WorkerHoldsJob
  /\ \A a \in Accounts : Spent(job[a])

\* A job that throws in its attempt is delayed with an attempt left or failed
\* with none.
LEMMA ThrownSound ==
  ASSUME NEW j \in JobRecord, j.tried < MaxAttempts, j.stalls <= 1
  PROVE  /\ Thrown(j) \in JobRecord
         /\ Thrown(j).state # "active"
         /\ Spent(Thrown(j))
<1>1. j.tried \in Nat /\ MaxAttempts \in Nat
  BY ConstantsAssumption DEF JobRecord
<1>2. Thrown(j).tried = j.tried + 1 /\ Thrown(j).stalls = j.stalls
  BY DEF JobRecord, Thrown
<1>3. Thrown(j).state = IF j.tried + 1 < MaxAttempts THEN "delayed" ELSE "failed"
  BY DEF JobRecord, Thrown
<1>4. j.tried + 1 \in 0 .. MaxAttempts
  BY <1>1
<1>5. Thrown(j) \in JobRecord
  BY <1>4 DEF Thrown, JobRecord, JobState
<1>. QED BY <1>1, <1>2, <1>3, <1>5 DEF Spent

\* After a restart an active job waits again or is failed as stalled twice.
LEMMA StalledSound ==
  ASSUME NEW j \in JobRecord, Spent(j)
  PROVE  /\ Stalled(j) \in JobRecord
         /\ Stalled(j).state # "active"
         /\ Spent(Stalled(j))
<1>1. CASE j.state # "active"
  BY <1>1 DEF Stalled
<1>2. CASE j.state = "active"
  <2>1. j.stalls \in {0, 1} /\ j.tried < MaxAttempts
    BY <1>2 DEF JobRecord, Spent
  <2>2. Stalled(j).tried = j.tried /\ Stalled(j).stalls = j.stalls + 1
    BY <1>2 DEF Stalled, JobRecord
  <2>3. Stalled(j).state = IF j.stalls = 0 THEN "waiting" ELSE "failed"
    BY <1>2 DEF Stalled, JobRecord
  <2>4. j.stalls + 1 \in 0 .. 2
    BY <2>1
  <2>5. Stalled(j) \in JobRecord
    BY <1>2, <2>4 DEF Stalled, JobRecord, JobState
  <2>. QED BY <2>1, <2>2, <2>3, <2>5 DEF Spent
<1>. QED BY <1>1, <1>2

\* The first state is sound: no account has a job.
LEMMA JobsSoundInit == Init => JobsSound
<1>. SUFFICES ASSUME Init PROVE JobsSound
  OBVIOUS
<1>1. NoJob \in JobRecord /\ NoJob.state = "none"
  BY ConstantsAssumption DEF NoJob, JobRecord, JobState
<1>2. TypeOK
  <2>1. status \in [Accounts -> Status] /\ due \in [Accounts -> BOOLEAN]
    BY DEF Init, Status, Active
  <2>2. drivers \in SUBSET Platforms
    BY ConstantsAssumption DEF Init, ActivePlatforms
  <2>3. job \in [Accounts -> JobRecord] /\ step \in [Accounts -> Step]
    BY <1>1 DEF Init, Step
  <2>. QED BY <2>1, <2>2, <2>3, ConstantsAssumption DEF Init, TypeOK, JobRecord
<1>3. WorkerHoldsJob
  BY <1>1 DEF Init, WorkerHoldsJob
<1>4. \A a \in Accounts : Spent(job[a])
  BY <1>1 DEF Init, Spent
<1>. QED BY <1>2, <1>3, <1>4 DEF JobsSound

\* One action after the other; only the actions of a job touch job and step.
LEMMA JobsSoundStep == JobsSound /\ [Next]_vars => JobsSound'
<1>. SUFFICES ASSUME JobsSound, [Next]_vars PROVE JobsSound'
  OBVIOUS
<1>. USE ConstantsAssumption DEF JobsSound
<1>t. job \in [Accounts -> JobRecord]
  BY DEF TypeOK, JobRecord
<1>n. NoJob \in JobRecord /\ NoJob.state = "none" /\ NoJob.tried = 0
  BY DEF NoJob, JobRecord, JobState
\* When neither job nor step changes, only the types of the rest matter.
<1>k. TypeOK' /\ UNCHANGED <<job, step>> => JobsSound'
  BY DEF WorkerHoldsJob, Spent
\* When they change for one account, its new pair has to fit.
<1>o. ASSUME NEW a \in Accounts, TypeOK',
             job'[a].state = "active" <=> step'[a] # "idle", Spent(job'[a]),
             \A b \in Accounts : b # a => job'[b] = job[b] /\ step'[b] = step[b]
      PROVE  JobsSound'
  BY <1>o DEF WorkerHoldsJob, Spent
<1>1. CASE ReadAccounts
  <2>1. TypeOK'
    BY <1>1 DEF ReadAccounts, TypeOK
  <2>. QED BY <1>1, <1>k, <2>1 DEF ReadAccounts
<1>2. CASE Restart
  <2>1. \A a \in Accounts : /\ job'[a] \in JobRecord
                            /\ job'[a].state # "active" /\ Spent(job'[a])
    BY <1>t, <1>2, StalledSound DEF Restart
  <2>2. job' \in [Accounts -> JobRecord]
    BY <1>2, <2>1 DEF Restart
  <2>3. drivers' \in SUBSET Platforms
    BY <1>2 DEF Restart, ActivePlatforms
  <2>4. TypeOK'
    BY <1>2, <2>2, <2>3 DEF Restart, Trouble, TypeOK, JobRecord, Step
  <2>. QED BY <1>2, <2>1, <2>4 DEF Restart, WorkerHoldsJob, Spent
<1>3. ASSUME NEW a \in Accounts, ConnectEmail(a) \/ ConnectX(a) PROVE JobsSound'
  <2>1. PICK row \in BOOLEAN, session \in BOOLEAN, now \in BOOLEAN : Save(a, row, session, now)
    <3>1. CASE ConnectEmail(a)
      BY <3>1 DEF ConnectEmail
    <3>2. CASE ConnectX(a)
      <4>1. PICK row \in BOOLEAN, session \in BOOLEAN : Save(a, row, session, FALSE)
        BY <3>2 DEF ConnectX
      <4>. QED BY <4>1
    <3>. QED BY <1>3, <3>1, <3>2
  <2>2. status' \in [Accounts -> Status] /\ due' \in [Accounts -> BOOLEAN]
    BY <2>1 DEF Save, TypeOK, Status
  <2>3. sessions' \in SUBSET Sessions /\ drivers' \in SUBSET Platforms
    BY <1>3, <2>1 DEF Save, ConnectEmail, ConnectX, TypeOK
  <2>4. /\ changes' \in 0 .. MaxChanges
        /\ UNCHANGED <<toAdd, job, step, troubles>>
    <3>1. Change /\ UNCHANGED <<toAdd, job, step, troubles>>
      BY <1>3 DEF ConnectEmail, ConnectX
    <3>. QED BY <3>1 DEF Change, TypeOK
  <2>5. TypeOK'
    BY <2>2, <2>3, <2>4 DEF TypeOK
  <2>. QED BY <1>3, <1>k, <2>5 DEF ConnectEmail, ConnectX
<1>4. ASSUME NEW a \in Accounts, Suspend(a) PROVE JobsSound'
  <2>1. TypeOK'
    BY <1>4 DEF Suspend, Change, TypeOK, Status
  <2>. QED BY <1>4, <1>k, <2>1 DEF Suspend
<1>5. ASSUME NEW a \in Accounts, BecomeDue(a) PROVE JobsSound'
  <2>1. TypeOK'
    BY <1>5 DEF BecomeDue, TypeOK
  <2>. QED BY <1>5, <1>k, <2>1 DEF BecomeDue
<1>6. ASSUME NEW a \in Accounts, AddJob(a) PROVE JobsSound'
  <2>1. CASE job[a].state = "none"
    <3>1. NewJob \in JobRecord /\ NewJob.state = "waiting" /\ Spent(NewJob)
      BY DEF NewJob, JobRecord, JobState, Spent
    <3>2. job' = [job EXCEPT ![a] = NewJob] /\ UNCHANGED step
      BY <1>6, <2>1 DEF AddJob
    <3>3. job' \in [Accounts -> JobRecord]
      BY <1>t, <3>1, <3>2
    <3>4. TypeOK'
      BY <1>6, <3>3 DEF AddJob, TypeOK, JobRecord
    <3>5. step[a] = "idle"
      BY <2>1 DEF WorkerHoldsJob
    <3>. QED BY <1>t, <1>o, <3>1, <3>2, <3>4, <3>5
  <2>2. CASE job[a].state # "none"
    <3>1. TypeOK' /\ UNCHANGED <<job, step>>
      BY <1>6, <2>2 DEF AddJob, TypeOK
    <3>. QED BY <1>k, <3>1
  <2>. QED BY <2>1, <2>2
<1>7. ASSUME NEW a \in Accounts, TakeJob(a) PROVE JobsSound'
  <2>. DEFINE k == [job[a] EXCEPT !.state = "active"]
  <2>1. k \in JobRecord /\ k.state = "active" /\ k.tried = job[a].tried
    BY <1>t DEF JobRecord, JobState
  <2>2. job[a].state = "waiting"
    BY <1>7 DEF TakeJob
  <2>3. Spent(k)
    BY <2>1, <2>2 DEF Spent
  <2>4. job' = [job EXCEPT ![a] = k]
    BY <1>7 DEF TakeJob
  <2>. HIDE DEF k
  <2>5. job' \in [Accounts -> JobRecord]
    BY <1>t, <2>1, <2>4
  <2>6. TypeOK'
    BY <1>7, <2>5 DEF TakeJob, TypeOK, JobRecord, Step
  <2>7. step'[a] = "load"
    BY <1>7, <2>2 DEF TakeJob, TypeOK, WorkerHoldsJob
  <2>8. \A b \in Accounts : b # a => job'[b] = job[b] /\ step'[b] = step[b]
    BY <1>7, <2>4, <1>t DEF TakeJob, TypeOK
  <2>9. job'[a] = k
    BY <1>t, <2>4
  <2>. QED BY <1>o, <2>1, <2>3, <2>6, <2>7, <2>8, <2>9
<1>8. ASSUME NEW a \in Accounts, DelayEnds(a) PROVE JobsSound'
  <2>. DEFINE k == [job[a] EXCEPT !.state = "waiting"]
  <2>1. k \in JobRecord /\ k.state = "waiting" /\ k.tried = job[a].tried
    BY <1>t DEF JobRecord, JobState
  <2>2. job[a].state = "delayed"
    BY <1>8 DEF DelayEnds
  <2>3. Spent(k)
    BY <2>1, <2>2 DEF Spent
  <2>4. job' = [job EXCEPT ![a] = k]
    BY <1>8 DEF DelayEnds
  <2>. HIDE DEF k
  <2>5. job' \in [Accounts -> JobRecord]
    BY <1>t, <2>1, <2>4
  <2>6. TypeOK'
    BY <1>8, <2>5 DEF DelayEnds, TypeOK, JobRecord, Step
  <2>7. step'[a] = "idle"
    BY <1>8, <2>2 DEF DelayEnds, TypeOK, WorkerHoldsJob
  <2>8. \A b \in Accounts : b # a => job'[b] = job[b] /\ step'[b] = step[b]
    BY <1>8, <2>4, <1>t DEF DelayEnds, TypeOK
  <2>9. job'[a] = k
    BY <1>t, <2>4
  <2>. QED BY <1>o, <2>1, <2>3, <2>6, <2>7, <2>8, <2>9
<1>9. ASSUME NEW a \in Accounts, Load(a) PROVE JobsSound'
  <2>1. job[a].state = "active"
    BY <1>9 DEF Load, WorkerHoldsJob
  <2>2. CASE MayPoll(a)
    <3>1. TypeOK'
      BY <1>9, <2>2 DEF Load, TypeOK, Step
    <3>2. UNCHANGED job /\ step' = [step EXCEPT ![a] = "poll"]
      BY <1>9, <2>2 DEF Load
    <3>. QED BY <1>o, <2>1, <3>1, <3>2 DEF TypeOK
  <2>3. CASE ~MayPoll(a)
    <3>1. job' = [job EXCEPT ![a] = NoJob] /\ step' = [step EXCEPT ![a] = "idle"]
      BY <1>9, <2>3 DEF Load
    <3>2. job' \in [Accounts -> JobRecord]
      BY <1>t, <1>n, <3>1
    <3>3. TypeOK'
      BY <1>9, <3>1, <3>2 DEF Load, TypeOK, JobRecord, Step
    <3>. QED BY <1>o, <1>t, <1>n, <3>1, <3>3 DEF TypeOK, Spent
  <2>. QED BY <2>2, <2>3
<1>10. ASSUME NEW a \in Accounts, PollAnswers(a) \/ PollBacksOff(a) PROVE JobsSound'
  <2>1. job[a].state = "active"
    BY <1>10 DEF PollAnswers, PollBacksOff, WorkerHoldsJob
  <2>2. TypeOK'
    <3>1. CASE PollAnswers(a)
      BY <3>1 DEF PollAnswers, TypeOK, Step
    <3>2. CASE PollBacksOff(a)
      BY <3>2 DEF PollBacksOff, Trouble, TypeOK, Step
    <3>. QED BY <1>10, <3>1, <3>2
  <2>3. UNCHANGED job /\ step'[a] # "idle" /\ \A b \in Accounts : b # a => step'[b] = step[b]
    BY <1>10 DEF PollAnswers, PollBacksOff, TypeOK
  <2>. QED BY <1>o, <2>1, <2>2, <2>3
<1>11. ASSUME NEW a \in Accounts, ThrowBackoff(a) \/ PollThrows(a) PROVE JobsSound'
  <2>1. /\ job[a].state = "active" /\ job[a] \in JobRecord
        /\ job[a].tried < MaxAttempts /\ job[a].stalls <= 1
    BY <1>11, <1>t DEF ThrowBackoff, PollThrows, WorkerHoldsJob, Spent
  <2>2. /\ job' = [job EXCEPT ![a] = Thrown(job[a])]
        /\ step' = [step EXCEPT ![a] = "idle"]
    BY <1>11 DEF ThrowBackoff, PollThrows, FailAttempt
  <2>3. /\ Thrown(job[a]) \in JobRecord
        /\ Thrown(job[a]).state # "active"
        /\ Spent(Thrown(job[a]))
    BY <2>1, ThrownSound
  <2>4. job' \in [Accounts -> JobRecord]
    BY <1>t, <2>2, <2>3
  <2>5. troubles' \in 0 .. MaxTroubles
    BY <1>11 DEF ThrowBackoff, PollThrows, Trouble, TypeOK
  <2>6. TypeOK'
    BY <1>11, <2>2, <2>4, <2>5 DEF ThrowBackoff, PollThrows, TypeOK, JobRecord, Step
  <2>. QED BY <1>o, <1>t, <2>2, <2>3, <2>6 DEF TypeOK
<1>12. ASSUME NEW a \in Accounts, Finish(a) PROVE JobsSound'
  <2>1. job' = [job EXCEPT ![a] = NoJob] /\ step' = [step EXCEPT ![a] = "idle"]
    BY <1>12 DEF Finish
  <2>2. job' \in [Accounts -> JobRecord]
    BY <1>t, <1>n, <2>1
  <2>3. TypeOK'
    BY <1>12, <2>1, <2>2 DEF Finish, TypeOK, JobRecord, Step
  <2>. QED BY <1>o, <1>t, <1>n, <2>1, <2>3 DEF TypeOK, Spent
<1>13. CASE UNCHANGED vars
  <2>1. TypeOK' /\ UNCHANGED <<job, step>>
    BY <1>13 DEF vars, TypeOK
  <2>. QED BY <1>k, <2>1
<1>. QED
  BY <1>1, <1>2, <1>3, <1>4, <1>5, <1>6, <1>7, <1>8, <1>9, <1>10, <1>11, <1>12, <1>13
     DEF Next, ProcessJob

\* The inductive invariant holds throughout.
THEOREM JobsAlwaysSound == Spec => []JobsSound
BY JobsSoundInit, JobsSoundStep, PTL DEF Spec

\* The scheduler's state keeps its type, and no job counts more attempts than it
\* was given.
THEOREM TypeCorrect == Spec => []TypeOK
<1>1. JobsSound => TypeOK
  BY DEF JobsSound
<1>. QED BY <1>1, JobsAlwaysSound, PTL

\* No poll job is active with nobody working on it, so that the jobKey of an
\* account is never blocked by an abandoned active job.
THEOREM WorkerAlwaysHoldsJob == Spec => []WorkerHoldsJob
<1>1. JobsSound => WorkerHoldsJob
  BY DEF JobsSound
<1>. QED BY <1>1, JobsAlwaysSound, PTL

\* An account's jobKey is only kept as failed after every attempt of the job
\* threw or after a second crash hit it.
THEOREM FailedAlwaysForCause == Spec => []FailedForCause
<1>1. JobsSound => FailedForCause
  BY DEF JobsSound, Spent, FailedForCause
<1>. QED BY <1>1, JobsAlwaysSound, PTL
=============================================================================
