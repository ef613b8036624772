---------------------------- MODULE OutboundMail ----------------------------
(***************************************************************************)
(* One request to send an email on behalf of an assistant, from the        *)
(* webhook's job to the message row that names who sent it.                *)
(* PusherWebhookProcessor sends through MessagingService and EmailProvider *)
(* and then records in OutboundMessageActorService which user acted; the   *)
(* poll finds the copy in the Sent folder, and the MessageProcessor job    *)
(* for that copy takes the actor from there.  The job has three attempts,  *)
(* so one request may send several mails, numbered here.                   *)
(*                                                                         *)
(* Each call that leaves the process is one step.  Both ways a mail gets a *)
(* row are taken to find the same conversation (EmailThreading has the     *)
(* cases where they do not).  Mappings expire from Redis after seven days,  *)
(* which is left out.                                                      *)
(***************************************************************************)
EXTENDS Naturals, FiniteSets

CONSTANTS
  Savers,          \* MessageProcessor jobs running at once
  MaxAttempts,     \* attempts of the webhook's job
  MaxMishaps,      \* bound: failing calls, crashes and times Redis goes away
  MaxReads         \* bound: copies handed to MessageProcessor

MaxSends == MaxAttempts + 1
Mails == 1 .. MaxSends

ASSUME ConstantsAssumption ==
  /\ MaxAttempts \in Nat \ {0}
  /\ MaxMishaps \in Nat
  /\ MaxReads \in Nat
  /\ IsFiniteSet(Savers)

VARIABLES
  job,        \* the webhook's job in BullMQ
  step,       \* where its processor is
  sent,       \* mails the SMTP server accepted
  copies,     \* mails that are in the Sent folder
  row,        \* who the message row of each mail names, if there is one
  redis,      \* the Redis client is ready
  cache,      \* mails whose actor is in Redis
  table,      \* mails whose actor is in message_actor_mappings
  saver,      \* each MessageProcessor job
  forgotten,  \* history: mails whose actor was not cached because Redis was away
  cut,        \* history: mails whose attempt did not get to record them
  overtaken,  \* history: mails the poll stored while the attempt was about to
  mishaps, reads

jobVars == <<job, step>>
mailVars == <<sent, copies>>
actorVars == <<redis, cache, table, forgotten>>
bounds == <<mishaps, reads>>
vars == <<jobVars, mailVars, row, actorVars, saver, cut, overtaken, bounds>>

Step == {"idle", "prepare", "send", "append", "find", "insert", "cache", "record", "announce"}
JobState == {"waiting", "active", "delayed", "done", "failed"}
Owner == {"none", "owner", "actor"}
Idle == [pc |-> "idle"]
SaverPc == {"find", "readCache", "readTable", "moveCache", "moveTable", "write"}
SaverState == {Idle} \cup [pc : SaverPc, mail : Mails, known : BOOLEAN, new : BOOLEAN]

TypeOK ==
  /\ job \in [state : JobState, tried : 0 .. MaxAttempts, stalled : BOOLEAN]
  /\ step \in Step
  /\ sent \in 0 .. MaxSends
  /\ copies \in SUBSET Mails
  /\ row \in [Mails -> Owner]
  /\ redis \in BOOLEAN
  /\ cache \in SUBSET Mails
  /\ table \in SUBSET Mails
  /\ saver \in [Savers -> SaverState]
  /\ forgotten \in SUBSET Mails
  /\ cut \in SUBSET Mails
  /\ overtaken \in SUBSET Mails
  /\ mishaps \in 0 .. MaxMishaps
  /\ reads \in 0 .. MaxReads

Init ==
  /\ job = [state |-> "waiting", tried |-> 0, stalled |-> FALSE]
  /\ step = "idle"
  /\ sent = 0
  /\ copies = {}
  /\ row = [m \in Mails |-> "none"]
  /\ redis = TRUE
  /\ cache = {}
  /\ table = {}
  /\ saver = [s \in Savers |-> Idle]
  /\ forgotten = {}
  /\ cut = {}
  /\ overtaken = {}
  /\ mishaps = 0
  /\ reads = 0

\* The attempt for mail m ends before the row names the sender.
CutOff(m) == cut \cup {n \in {m} : row[n] # "actor"}

Mishap == mishaps < MaxMishaps /\ mishaps' = mishaps + 1 /\ UNCHANGED reads

-----------------------------------------------------------------------------
(* The webhook's job; in the steps after "send" the mail it is about is the *)
(* last one sent.                                                           *)

TakeJob ==
  /\ job.state = "waiting"
  /\ job' = [job EXCEPT !.state = "active"]
  /\ step' = "prepare"
  /\ UNCHANGED <<mailVars, row, actorVars, saver, cut, overtaken, bounds>>

\* The session, the conversation, its recipients and the sender's permission.
Prepare ==
  /\ step = "prepare"
  /\ step' = "send"
  /\ UNCHANGED <<job, mailVars, row, actorVars, saver, cut, overtaken, bounds>>

Send ==
  /\ step = "send"
  /\ sent' = sent + 1
  /\ step' = "append"
  /\ UNCHANGED <<job, copies, row, actorVars, saver, cut, overtaken, bounds>>

\* The provider reports a failure; that the server accepted the mail all the
\* same cannot be excluded.  sendMessage returns, nothing throws.
SendRefused ==
  /\ step = "send"
  /\ Mishap
  /\ \/ UNCHANGED <<sent, copies, cut>>
     \/ /\ sent' = sent + 1
        /\ copies' \in {copies, copies \cup {sent'}}
        /\ cut' = cut \cup {sent'}
  /\ step' = "announce"
  /\ UNCHANGED <<job, row, actorVars, saver, overtaken>>

\* appendToSentFolder twice, its errors swallowed; some servers keep a copy on
\* their own.
Append ==
  /\ step = "append"
  /\ copies' \in {copies, copies \cup {sent}}
  /\ step' = "find"
  /\ UNCHANGED <<job, sent, row, actorVars, saver, cut, overtaken, bounds>>

\* Mutant: a row that is already there is left as it is.
PersistKeeps ==
  /\ step = "find"
  /\ step' = IF row[sent] # "none" THEN "cache" ELSE "insert"
  /\ UNCHANGED <<job, mailVars, row, actorVars, saver, cut, overtaken, bounds>>

\* persistOutboundMessage: an existing row is given its sender.
PersistFinds ==
  /\ step = "find"
  /\ IF row[sent] # "none"
       THEN row' = [row EXCEPT ![sent] = "actor"] /\ step' = "cache"
       ELSE UNCHANGED row /\ step' = "insert"
  /\ UNCHANGED <<job, mailVars, actorVars, saver, cut, overtaken, bounds>>

\* A row the poll inserted meanwhile makes the insert fail, which is only logged.
PersistInserts ==
  /\ step = "insert"
  /\ IF row[sent] = "none"
       THEN row' = [row EXCEPT ![sent] = "actor"] /\ UNCHANGED overtaken
       ELSE overtaken' = overtaken \cup {sent} /\ UNCHANGED row
  /\ step' = "cache"
  /\ UNCHANGED <<job, mailVars, actorVars, saver, cut, bounds>>

\* Any other error of persistOutboundMessage is only logged, too.
PersistFails ==
  /\ step \in {"find", "insert"}
  /\ Mishap
  /\ step' = "cache"
  /\ cut' = CutOff(sent)
  /\ UNCHANGED <<job, mailVars, row, actorVars, saver, overtaken>>

Cached(m) == IF redis THEN cache \cup {m} ELSE cache

\* Mutant: the command waits in the client until Redis is back.
RecordCachesWhenReady ==
  /\ step = "cache"
  /\ redis
  /\ cache' = Cached(sent)
  /\ step' = "record"
  /\ UNCHANGED <<job, mailVars, row, redis, table, forgotten, saver, cut, overtaken, bounds>>

\* recordMapping, first in Redis, which is skipped when the client is not ready,
RecordCaches ==
  /\ step = "cache"
  /\ cache' = Cached(sent)
  /\ step' = "record"
  /\ UNCHANGED <<job, mailVars, row, redis, table, forgotten, saver, cut, overtaken, bounds>>

\* then in the database.
RecordStores ==
  /\ step = "record"
  /\ table' = table \cup {sent}
  /\ step' = "announce"
  /\ UNCHANGED <<job, mailVars, row, redis, cache, forgotten, saver, cut, overtaken, bounds>>

RecordFails ==
  /\ step = "record"
  /\ Mishap
  /\ step' = "announce"
  /\ UNCHANGED <<job, mailVars, row, actorVars, saver, cut, overtaken>>

\* The client is told, of success or of the failure, and the job is done.
Announce ==
  /\ step = "announce"
  /\ job' = [job EXCEPT !.state = "done"]
  /\ step' = "idle"
  /\ UNCHANGED <<mailVars, row, actorVars, saver, cut, overtaken, bounds>>

\* Mutant: an attempt too many.
RetriedMore(j) ==
  [j EXCEPT !.tried = @ + 1, !.state = IF j.tried < MaxAttempts THEN "delayed" ELSE "failed"]

Retried(j) ==
  [j EXCEPT !.tried = @ + 1, !.state = IF j.tried + 1 < MaxAttempts THEN "delayed" ELSE "failed"]

\* Anything outside MessagingService's own handler throws: before the mail is
\* sent, when the sender's role is looked up, or when the client is told.
Throw ==
  /\ step \in {"prepare", "cache", "announce"}
  /\ Mishap
  /\ job' = Retried(job)
  /\ step' = "idle"
  /\ cut' = IF step = "cache" THEN CutOff(sent) ELSE cut
  /\ UNCHANGED <<mailVars, row, actorVars, saver, overtaken>>

DelayEnds ==
  /\ job.state = "delayed"
  /\ job' = [job EXCEPT !.state = "waiting"]
  /\ UNCHANGED <<step, mailVars, row, actorVars, saver, cut, overtaken, bounds>>

-----------------------------------------------------------------------------
(* MessageProcessor.saveMessage for a copy the poll found in Sent *)

At(s, pc) == saver[s].pc = pc
MailOf(s) == saver[s].mail
Goto(s, pc) == saver' = [saver EXCEPT ![s].pc = pc]

TakeCopy(s, m) ==
  /\ saver[s] = Idle
  /\ m \in copies
  /\ reads < MaxReads
  /\ reads' = reads + 1
  /\ saver' = [saver EXCEPT ![s] = [pc |-> "find", mail |-> m, known |-> FALSE, new |-> FALSE]]
  /\ UNCHANGED <<jobVars, mailVars, row, actorVars, cut, overtaken, mishaps>>

FindRow(s) ==
  /\ At(s, "find")
  /\ saver' = [saver EXCEPT ![s].pc = "readCache", ![s].new = (row[MailOf(s)] = "none")]
  /\ UNCHANGED <<jobVars, mailVars, row, actorVars, cut, overtaken, bounds>>

ReadCache(s) ==
  /\ At(s, "readCache")
  /\ IF redis /\ MailOf(s) \in cache
       THEN saver' = [saver EXCEPT ![s].pc = "write", ![s].known = TRUE]
       ELSE Goto(s, "readTable")
  /\ UNCHANGED <<jobVars, mailVars, row, actorVars, cut, overtaken, bounds>>

ReadTable(s) ==
  /\ At(s, "readTable")
  /\ IF MailOf(s) \in table
       THEN saver' = [saver EXCEPT ![s].pc = "moveCache", ![s].known = TRUE]
       ELSE Goto(s, "write")
  /\ UNCHANGED <<jobVars, mailVars, row, actorVars, cut, overtaken, bounds>>

\* An error of that lookup counts as no mapping.
ReadTableFails(s) ==
  /\ At(s, "readTable")
  /\ Mishap
  /\ Goto(s, "write")
  /\ cut' = CutOff(MailOf(s))
  /\ UNCHANGED <<jobVars, mailVars, row, actorVars, overtaken>>

\* Mutant: the row is deleted before the mapping is cached.
MoveCachesLate(s) ==
  /\ At(s, "moveCache")
  /\ table' = table \ {MailOf(s)}
  /\ Goto(s, "moveTable")
  /\ UNCHANGED <<jobVars, mailVars, row, redis, cache, forgotten, cut, overtaken, bounds>>

\* A mapping found in the table moves to Redis
MoveCaches(s) ==
  /\ At(s, "moveCache")
  /\ cache' = Cached(MailOf(s))
  /\ forgotten' = IF redis THEN forgotten ELSE forgotten \cup {MailOf(s)}
  /\ Goto(s, "moveTable")
  /\ UNCHANGED <<jobVars, mailVars, row, redis, table, cut, overtaken, bounds>>

\* and leaves the table, whether it was cached or not.
MoveDeletes(s) ==
  /\ At(s, "moveTable")
  /\ table' = table \ {MailOf(s)}
  /\ Goto(s, "write")
  /\ UNCHANGED <<jobVars, mailVars, row, redis, cache, forgotten, cut, overtaken, bounds>>

\* Without a mapping a new row names the account's owner and an old row, also
\* one that made the insert fail, is left alone.
WriteRow(s) ==
  /\ At(s, "write")
  /\ row' = [row EXCEPT ![MailOf(s)] =
               IF saver[s].known THEN "actor"
               ELSE IF saver[s].new /\ @ = "none" THEN "owner" ELSE @]
  /\ saver' = [saver EXCEPT ![s] = Idle]
  /\ UNCHANGED <<jobVars, mailVars, actorVars, cut, overtaken, bounds>>

SaverFails(s) ==
  /\ saver[s] # Idle
  /\ Mishap
  /\ saver' = [saver EXCEPT ![s] = Idle]
  /\ UNCHANGED <<jobVars, mailVars, row, actorVars, cut, overtaken>>

-----------------------------------------------------------------------------
RedisChanges ==
  /\ redis' = ~redis
  /\ IF redis THEN Mishap ELSE UNCHANGED bounds
  /\ UNCHANGED <<jobVars, mailVars, row, cache, table, saver, forgotten, cut, overtaken>>

\* The process dies: the job is handed out once more, the second time it fails.
Crash ==
  /\ Mishap
  /\ job' = IF job.state # "active" THEN job
            ELSE [job EXCEPT !.state = IF job.stalled THEN "failed" ELSE "waiting", !.stalled = TRUE]
  /\ cut' = IF step \in {"append", "find", "insert", "cache"} THEN CutOff(sent) ELSE cut
  /\ step' = "idle"
  /\ saver' = [s \in Savers |-> Idle]
  /\ UNCHANGED <<mailVars, row, actorVars, overtaken>>

Process ==
  \/ Prepare \/ Send \/ Append \/ PersistFinds \/ PersistInserts
  \/ RecordCaches \/ RecordStores \/ Announce

SaverStep(s) ==
  \/ FindRow(s) \/ ReadCache(s) \/ ReadTable(s) \/ MoveCaches(s) \/ MoveDeletes(s) \/ WriteRow(s)

Next ==
  \/ TakeJob \/ Process \/ SendRefused \/ PersistFails \/ RecordFails \/ Throw \/ DelayEnds
  \/ \E s \in Savers : (\E m \in Mails : TakeCopy(s, m)) \/ SaverStep(s) \/ ReadTableFails(s) \/ SaverFails(s)
  \/ RedisChanges \/ Crash

Spec == Init /\ [][Next]_vars

\* The worker takes the job and runs it to its end, and delays pass.
FairSpec == Spec /\ WF_vars(TakeJob) /\ WF_vars(Process) /\ WF_vars(DelayEnds)

-----------------------------------------------------------------------------
(* Properties *)

\* Who sent a mail is not forgotten once it is recorded, not while a reader
\* moves the mapping from the table to Redis and another reads it, and not by a
\* crash in between: it is in one of the two, unless Redis was away when the
\* reader was to cache it.
ActorKept == [][cache \cup table \subseteq cache' \cup table' \cup forgotten']_vars

\* A mail of an assistant shows up as the owner's only until its attempt gets to
\* name the sender, unless that attempt was cut off or the poll overtook it.
Underway(m) == m = sent /\ step \in {"append", "find", "insert"}
NamedForCause ==
  \A m \in Mails : row[m] = "owner" => Underway(m) \/ m \in cut \cup overtaken

\* However attempts fail, one request never sends more mails than its attempts
\* and the one run BullMQ grants a stalled job.
SendsBounded == sent <= MaxAttempts + (IF job.stalled THEN 1 ELSE 0)

\* Every request comes to an end.
RequestEnds == <>(job.state \in {"done", "failed"})
=============================================================================
