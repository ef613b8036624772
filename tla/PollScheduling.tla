--------------------------- MODULE PollScheduling ---------------------------
(***************************************************************************)
(* When an account is polled: RegistryService looks every 30 s for active  *)
(* accounts whose interval has passed and adds a poll job under the        *)
(* account's jobKey; PollProcessor runs the job; BullMQ retries it, keeps  *)
(* it when its attempts are used up, and ignores an added job whose id it  *)
(* still knows.  Drivers of platforms without an active account are        *)
(* dropped when the process starts.                                        *)
(*                                                                         *)
(* The accounts are those of X and Email: Telegram accounts get no poll    *)
(* jobs.  Each account has its own jobKey.                                 *)
(***************************************************************************)
EXTENDS Naturals

CONSTANTS
  Accounts,
  Platforms,
  PlatformOf,     \* the platform of each account
  Registers,      \* platforms whose connection registers the driver again and
                  \* writes account and session side by side (allSettled)
  Sessions,       \* rows social_media_sessions may have: a user and a platform
  SessionOf,      \* the row that holds the access token of each account
  MaxAttempts,    \* attempts of a poll job
  MaxTroubles,    \* bound: failing polls, backoffs and restarts
  MaxChanges      \* bound: connections and suspensions

ASSUME ConstantsAssumption ==
  /\ PlatformOf \in [Accounts -> Platforms]
  /\ Registers \subseteq Platforms
  /\ SessionOf \in [Accounts -> Sessions]
  /\ MaxAttempts \in Nat \ {0}
  /\ MaxTroubles \in Nat
  /\ MaxChanges \in Nat

VARIABLES
  status,    \* connected_accounts.status; "none" before the row exists
  sessions,  \* the rows with an access token in social_media_sessions
  due,       \* the polling interval has passed since lastPolledAt
  drivers,   \* platforms in the ProviderRegistry
  toAdd,     \* accounts a running schedulePollJobs has read and not yet added
  job,       \* what BullMQ keeps under the account's jobKey
  step,      \* where PollProcessor.process is, for an active job
  troubles, changes

vars == <<status, sessions, due, drivers, toAdd, job, step, troubles, changes>>

Status == {"none", "active", "suspended"}
JobState == {"none", "waiting", "active", "delayed", "failed"}
NoJob == [state |-> "none", tried |-> 0, stalls |-> 0]
NewJob == [state |-> "waiting", tried |-> 0, stalls |-> 0]
Step == {"idle", "load", "poll", "finish", "backoff"}

TypeOK ==
  /\ status \in [Accounts -> Status]
  /\ sessions \in SUBSET Sessions
  /\ due \in [Accounts -> BOOLEAN]
  /\ drivers \in SUBSET Platforms
  /\ toAdd \in SUBSET Accounts
  /\ job \in [Accounts -> [state : JobState, tried : 0 .. MaxAttempts, stalls : 0 .. 2]]
  /\ step \in [Accounts -> Step]
  /\ troubles \in 0 .. MaxTroubles
  /\ changes \in 0 .. MaxChanges

Active(a) == status[a] = "active"
ActivePlatforms == {PlatformOf[a] : a \in {b \in Accounts : Active(b)}}

\* The process starts with whatever was connected before.  An account is active
\* without a session only where its row was written beside it.
Init ==
  /\ status \in [Accounts -> {"none", "active"}]
  /\ sessions \in SUBSET Sessions
  /\ \A a \in Accounts :
       Active(a) => SessionOf[a] \in sessions \/ PlatformOf[a] \in Registers
  /\ due = [a \in Accounts |-> Active(a)]
  /\ drivers = ActivePlatforms
  /\ toAdd = {}
  /\ job = [a \in Accounts |-> NoJob]
  /\ step = [a \in Accounts |-> "idle"]
  /\ troubles = 0
  /\ changes = 0

Trouble == troubles < MaxTroubles /\ troubles' = troubles + 1
Change == changes < MaxChanges /\ changes' = changes + 1

-----------------------------------------------------------------------------
(* Connections *)

\* A connection, the first or another, has written the account's row, its session,
\* both or neither.
Save(a, row, session, dueNow) ==
  /\ status' = IF row THEN [status EXCEPT ![a] = "active"] ELSE status
  /\ due' = IF row THEN [due EXCEPT ![a] = dueNow] ELSE due
  /\ sessions' = IF session THEN sessions \cup {SessionOf[a]} ELSE sessions

\* Email: first the session, then the row, which is due at once (epoch).
ConnectEmail(a) ==
  /\ PlatformOf[a] \notin Registers
  /\ Change
  /\ \E row, session \in BOOLEAN : (row => session) /\ Save(a, row, session, TRUE)
  /\ UNCHANGED <<drivers, toAdd, job, step, troubles>>

\* X: both side by side, and what became of either is not looked at; the row is
\* due after one interval (now).  The driver is registered in any case.
ConnectX(a) ==
  /\ PlatformOf[a] \in Registers
  /\ Change
  /\ \E row, session \in BOOLEAN : Save(a, row, session, FALSE)
  /\ drivers' = drivers \cup {PlatformOf[a]}
  /\ UNCHANGED <<toAdd, job, step, troubles>>

\* deactivatePlatform: the row is marked; the poll queue is left as it is.
Suspend(a) ==
  /\ Active(a)
  /\ Change
  /\ status' = [status EXCEPT ![a] = "suspended"]
  /\ UNCHANGED <<sessions, due, drivers, toAdd, job, step, troubles>>

\* pollingInterval passes.
BecomeDue(a) ==
  /\ Active(a)
  /\ ~due[a]
  /\ due' = [due EXCEPT ![a] = TRUE]
  /\ UNCHANGED <<status, sessions, drivers, toAdd, job, step, troubles, changes>>

-----------------------------------------------------------------------------
(* RegistryService *)

\* A tick of the 30 s interval reads the accounts; ticks do not wait for each
\* other.
ReadAccounts ==
  /\ toAdd' = toAdd \cup {a \in Accounts : Active(a) /\ due[a]}
  /\ UNCHANGED <<status, sessions, due, drivers, job, step, troubles, changes>>

\* pollQueue.add: ignored while BullMQ has a job of that id, whatever its state.
AddJob(a) ==
  /\ a \in toAdd
  /\ toAdd' = toAdd \ {a}
  /\ job' = IF job[a].state = "none" THEN [job EXCEPT ![a] = NewJob] ELSE job
  /\ UNCHANGED <<status, sessions, due, drivers, step, troubles, changes>>

-----------------------------------------------------------------------------
(* PollProcessor *)

TakeJob(a) ==
  /\ job[a].state = "waiting"
  /\ job' = [job EXCEPT ![a].state = "active"]
  /\ step' = [step EXCEPT ![a] = "load"]
  /\ UNCHANGED <<status, sessions, due, drivers, toAdd, troubles, changes>>

\* The account, the access token of its session and the driver are looked up one
\* after the other; a job that finds one missing returns, and so completes,
\* without touching the account.
MayPoll(a) ==
  /\ Active(a)
  /\ SessionOf[a] \in sessions
  /\ PlatformOf[a] \in drivers

\* Mutant: a job that cannot poll is put back instead of being completed.
LoadPutsBack(a) ==
  /\ step[a] = "load"
  /\ IF MayPoll(a)
       THEN /\ step' = [step EXCEPT ![a] = "poll"]
            /\ UNCHANGED job
       ELSE /\ step' = [step EXCEPT ![a] = "idle"]
            /\ job' = [job EXCEPT ![a].state = "waiting"]
  /\ UNCHANGED <<status, sessions, due, drivers, toAdd, troubles, changes>>

Load(a) ==
  /\ step[a] = "load"
  /\ IF MayPoll(a)
       THEN /\ step' = [step EXCEPT ![a] = "poll"]
            /\ UNCHANGED job
       ELSE /\ step' = [step EXCEPT ![a] = "idle"]
            /\ job' = [job EXCEPT ![a] = NoJob]
  /\ UNCHANGED <<status, sessions, due, drivers, toAdd, troubles, changes>>

\* Mutant: lastPolledAt is not written.
PollAnswersUnsaved(a) ==
  /\ step[a] = "poll"
  /\ step' = [step EXCEPT ![a] = "finish"]
  /\ UNCHANGED <<status, sessions, due, drivers, toAdd, job, troubles, changes>>

\* The driver answers and updateAccountAfterPoll writes cursor and lastPolledAt.
PollAnswers(a) ==
  /\ step[a] = "poll"
  /\ due' = [due EXCEPT ![a] = FALSE]
  /\ step' = [step EXCEPT ![a] = "finish"]
  /\ UNCHANGED <<status, sessions, drivers, toAdd, job, troubles, changes>>

\* The answer asks for a backoff: the account is written all the same.
PollBacksOff(a) ==
  /\ step[a] = "poll"
  /\ Trouble
  /\ due' = [due EXCEPT ![a] = FALSE]
  /\ step' = [step EXCEPT ![a] = "backoff"]
  /\ UNCHANGED <<status, sessions, drivers, toAdd, job, changes>>

\* Mutant: an attempt too many.
ThrownMore(j) ==
  [j EXCEPT !.tried = j.tried + 1, !.state = IF j.tried < MaxAttempts THEN "delayed" ELSE "failed"]

\* BullMQ's reaction to a job that throws: wait and retry, or keep it as failed.
Thrown(j) ==
  [j EXCEPT !.tried = j.tried + 1, !.state = IF j.tried + 1 < MaxAttempts THEN "delayed" ELSE "failed"]

FailAttempt(a) == job' = [job EXCEPT ![a] = Thrown(job[a])]

\* handleBackoff throws after everything was done.
ThrowBackoff(a) ==
  /\ step[a] = "backoff"
  /\ FailAttempt(a)
  /\ step' = [step EXCEPT ![a] = "idle"]
  /\ UNCHANGED <<status, sessions, due, drivers, toAdd, troubles, changes>>

\* The driver throws, or account or session cannot be read or written; process
\* logs it and throws on.
PollThrows(a) ==
  /\ step[a] \in {"load", "poll"}
  /\ Trouble
  /\ FailAttempt(a)
  /\ step' = [step EXCEPT ![a] = "idle"]
  /\ UNCHANGED <<status, sessions, due, drivers, toAdd, changes>>

Finish(a) ==
  /\ step[a] = "finish"
  /\ job' = [job EXCEPT ![a] = NoJob]
  /\ step' = [step EXCEPT ![a] = "idle"]
  /\ UNCHANGED <<status, sessions, due, drivers, toAdd, troubles, changes>>

\* The exponential delay of a failed attempt has passed.
DelayEnds(a) ==
  /\ job[a].state = "delayed"
  /\ job' = [job EXCEPT ![a].state = "waiting"]
  /\ UNCHANGED <<status, sessions, due, drivers, toAdd, step, troubles, changes>>

-----------------------------------------------------------------------------
(* The process dies and starts again *)

\* Mutant: the first stall already ends the job.
StalledAtOnce(j) ==
  IF j.state # "active" THEN j
  ELSE [j EXCEPT !.stalls = j.stalls + 1, !.state = "failed"]

\* An active job stalls: it is handed out once more, the second time it is
\* failed (maxStalledCount).
Stalled(j) ==
  IF j.state # "active" THEN j
  ELSE [j EXCEPT !.stalls = j.stalls + 1, !.state = IF j.stalls = 0 THEN "waiting" ELSE "failed"]

\* Boot registers every driver, then removes those of inactive platforms.
Restart ==
  /\ Trouble
  /\ drivers' = ActivePlatforms
  /\ toAdd' = {}
  /\ job' = [a \in Accounts |-> Stalled(job[a])]
  /\ step' = [a \in Accounts |-> "idle"]
  /\ UNCHANGED <<status, sessions, due, changes>>

ProcessJob(a) == Load(a) \/ PollAnswers(a) \/ ThrowBackoff(a) \/ Finish(a)

Next ==
  \/ ReadAccounts \/ Restart
  \/ \E a \in Accounts :
       \/ ConnectEmail(a) \/ ConnectX(a) \/ Suspend(a) \/ BecomeDue(a)
       \/ AddJob(a) \/ TakeJob(a) \/ ProcessJob(a)
       \/ PollBacksOff(a) \/ PollThrows(a) \/ DelayEnds(a)

Spec == Init /\ [][Next]_vars

\* setInterval keeps ticking, an added job is added, the worker takes jobs and
\* runs them to their end, and time passes.
Fairness ==
  /\ WF_vars(ReadAccounts)
  /\ \A a \in Accounts :
       /\ WF_vars(AddJob(a))
       /\ WF_vars(TakeJob(a))
       /\ WF_vars(ProcessJob(a))
       /\ WF_vars(DelayEnds(a))
       /\ WF_vars(BecomeDue(a))

FairSpec == Spec /\ Fairness
-----------------------------------------------------------------------------
(* Properties *)

\* A poll is running exactly for the jobs BullMQ holds active, across retries,
\* late additions of the scheduler and restarts: no job is active with nobody
\* working on it, so no jobKey is blocked by an abandoned active job.
WorkerHoldsJob == \A a \in Accounts : step[a] # "idle" <=> job[a].state = "active"

\* A job key is only given up as failed after all its attempts threw or after a
\* second crash hit the same job; one crash, or one crash and fewer than all
\* attempts, do not suffice.
FailedForCause ==
  \A a \in Accounts :
    job[a].state = "failed" => job[a].tried = MaxAttempts \/ job[a].stalls = 2

\* An active account whose interval has passed is polled, unless it is suspended
\* or one of the three things that end its polling without a word happened: its
\* job key is kept as failed, its platform lost its driver, or its session was
\* not written when it was connected.
Excused(a) ==
  \/ job[a].state = "failed"
  \/ PlatformOf[a] \notin drivers
  \/ SessionOf[a] \notin sessions
DueIsPolledOrExcused ==
  \A a \in Accounts : (Active(a) /\ due[a]) ~> (~due[a] \/ ~Active(a) \/ Excused(a))

\* Suspending an account drains its poll job, whatever retries were pending.
Drained(a) == a \notin toAdd /\ job[a].state \in {"none", "failed"}
SuspendedFallsSilent ==
  \A a \in Accounts : status[a] = "suspended" ~> (Active(a) \/ Drained(a))

=============================================================================
