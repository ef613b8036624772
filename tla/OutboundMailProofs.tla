-------------------------- MODULE OutboundMailProofs --------------------------
(* Proofs about OutboundMail for any number of readers, attempts, failures  *)
(* and copies read.                                                         *)
EXTENDS OutboundMail, TLAPS

JobRecord == [state : JobState, tried : 0 .. MaxAttempts, stalled : BOOLEAN]
Reading == [pc : SaverPc, mail : Mails, known : BOOLEAN, new : BOOLEAN]

\* The runs the job has had before the one under way.
RunsBefore == job.tried + (IF job.stalled THEN 1 ELSE 0)

\* What the attempts used up say of the mails sent: none more than runs.
AttemptsSound ==
  /\ job.state = "active" <=> step # "idle"
  /\ job.state \in {"waiting", "active", "delayed"} => job.tried < MaxAttempts
  /\ job.state \in {"waiting", "delayed"} \/ step \in {"prepare", "send"} => sent <= RunsBefore
  /\ job.state = "active" => sent <= RunsBefore + 1
  /\ SendsBounded

\* Only mails that were sent have rows, copies and readers, and in the steps after
\* the send there is one.
OnlySent ==
  /\ step \in {"append", "find", "insert", "cache", "record"} => sent > 0
  /\ \A m \in copies : m <= sent
  /\ \A m \in Mails : row[m] # "none" => m <= sent
  /\ \A s \in Savers : saver[s] # Idle => saver[s].mail <= sent

\* A mail whose attempt is past naming the sender has been named or has a cause.
Settled ==
  \A m \in Mails : m <= sent => Underway(m) \/ row[m] = "actor" \/ m \in cut \cup overtaken

\* Who is about to delete a mapping has cached it, or found Redis away.
MovedFirst ==
  \A s \in Savers : At(s, "moveTable") => saver[s].mail \in cache \cup forgotten

\* The inductive invariant.
MailSound ==
  /\ TypeOK
  /\ AttemptsSound
  /\ OnlySent
  /\ Settled
  /\ MovedFirst

LEMMA MailSoundInit == Init => MailSound
<1>. SUFFICES ASSUME Init PROVE MailSound
  OBVIOUS
<1>. USE ConstantsAssumption DEF Init
<1>1. TypeOK
  BY DEF TypeOK, JobState, Step, Owner, SaverState, MaxSends
<1>2. AttemptsSound
  BY DEF AttemptsSound, RunsBefore, SendsBounded
<1>3. OnlySent /\ Settled /\ MovedFirst
  BY DEF OnlySent, Settled, MovedFirst, Mails, Idle, At
<1>. QED BY <1>1, <1>2, <1>3 DEF MailSound

\* A reader that is not at rest has a mail.
LEMMA ReadingOf ==
  ASSUME TypeOK, NEW s \in Savers, saver[s] # Idle
  PROVE  saver[s] \in Reading
BY DEF TypeOK, SaverState, Reading

LEMMA AtReading ==
  ASSUME TypeOK, NEW s \in Savers, NEW pc \in SaverPc, At(s, pc)
  PROVE  saver[s] \in Reading
BY ReadingOf DEF At, SaverPc, Idle

\* The last mail sent is one of the mails.
LEMMA SentIsMail == MailSound /\ sent > 0 => sent \in Mails
BY ConstantsAssumption DEF MailSound, TypeOK, Mails, MaxSends

\* A job that throws with an attempt left is delayed or failed.
LEMMA RetriedFacts ==
  ASSUME NEW j \in JobRecord, j.tried < MaxAttempts
  PROVE  /\ Retried(j) \in JobRecord
         /\ Retried(j).tried = j.tried + 1
         /\ Retried(j).stalled = j.stalled
         /\ Retried(j).state = IF j.tried + 1 < MaxAttempts THEN "delayed" ELSE "failed"
<1>1. j.tried + 1 \in 0 .. MaxAttempts
  BY ConstantsAssumption DEF JobRecord
<1>. QED BY <1>1 DEF Retried, JobRecord, JobState

-----------------------------------------------------------------------------
(* The readers' steps leave the job and the mails alone.                    *)

SaverAction(s) ==
  \/ \E m \in Mails : TakeCopy(s, m)
  \/ SaverStep(s) \/ ReadTableFails(s) \/ SaverFails(s)

\* What every step of a reader does.
LEMMA SaverFacts ==
  ASSUME MailSound, NEW s \in Savers, SaverAction(s)
  PROVE  /\ UNCHANGED <<job, step, sent, copies, redis, overtaken>>
         /\ mishaps' \in 0 .. MaxMishaps /\ reads' \in 0 .. MaxReads
         /\ \E k \in SaverState : saver' = [saver EXCEPT ![s] = k]
         /\ cut \subseteq cut' /\ cut' \in SUBSET Mails
         /\ cache \subseteq cache' /\ cache' \in SUBSET Mails
         /\ forgotten \subseteq forgotten' /\ forgotten' \in SUBSET Mails
         /\ table' \in SUBSET Mails
<1>. USE ConstantsAssumption DEF MailSound
<1>i. Idle \in SaverState
  BY DEF SaverState
<1>r. Reading \subseteq SaverState
  BY DEF Reading, SaverState
<1>1. CASE \E m \in Mails : TakeCopy(s, m)
  <2>. PICK m \in Mails : TakeCopy(s, m)
    BY <1>1
  <2>1. [pc |-> "find", mail |-> m, known |-> FALSE, new |-> FALSE] \in SaverState
    BY DEF SaverState, SaverPc
  <2>2. reads' \in 0 .. MaxReads
    BY DEF TakeCopy, TypeOK
  <2>. QED BY <2>1, <2>2 DEF TakeCopy, jobVars, mailVars, actorVars, TypeOK
<1>2. CASE FindRow(s)
  <2>. DEFINE k == [saver[s] EXCEPT !.pc = "readCache", !.new = (row[MailOf(s)] = "none")]
  <2>1. saver[s] \in Reading
    BY <1>2, AtReading DEF FindRow, SaverPc
  <2>2. k \in Reading
    BY <2>1 DEF Reading, SaverPc
  <2>3. saver' = [saver EXCEPT ![s] = k]
    BY <1>2 DEF FindRow
  <2>. QED BY <1>2, <1>r, <2>2, <2>3 DEF FindRow, jobVars, mailVars, actorVars, bounds, TypeOK
<1>3. CASE ReadCache(s)
  <2>1. saver[s] \in Reading
    BY <1>3, AtReading DEF ReadCache, SaverPc
  <2>2. /\ [saver[s] EXCEPT !.pc = "write", !.known = TRUE] \in Reading
        /\ [saver[s] EXCEPT !.pc = "readTable"] \in Reading
    BY <2>1 DEF Reading, SaverPc
  <2>. QED BY <1>3, <1>r, <2>2 DEF ReadCache, Goto, jobVars, mailVars, actorVars, bounds, TypeOK
<1>4. CASE ReadTable(s)
  <2>1. saver[s] \in Reading
    BY <1>4, AtReading DEF ReadTable, SaverPc
  <2>2. /\ [saver[s] EXCEPT !.pc = "moveCache", !.known = TRUE] \in Reading
        /\ [saver[s] EXCEPT !.pc = "write"] \in Reading
    BY <2>1 DEF Reading, SaverPc
  <2>. QED BY <1>4, <1>r, <2>2 DEF ReadTable, Goto, jobVars, mailVars, actorVars, bounds, TypeOK
<1>5. CASE ReadTableFails(s)
  <2>1. saver[s] \in Reading
    BY <1>5, AtReading DEF ReadTableFails, SaverPc
  <2>2. [saver[s] EXCEPT !.pc = "write"] \in Reading /\ saver[s].mail \in Mails
    BY <2>1 DEF Reading, SaverPc
  <2>3. cut \subseteq cut' /\ cut' \in SUBSET Mails
    BY <1>5, <2>2 DEF ReadTableFails, CutOff, MailOf, TypeOK
  <2>4. mishaps' \in 0 .. MaxMishaps /\ reads' = reads
    BY <1>5 DEF ReadTableFails, Mishap, TypeOK
  <2>. QED BY <1>5, <1>r, <2>2, <2>3, <2>4
       DEF ReadTableFails, Goto, jobVars, mailVars, actorVars, TypeOK
<1>6. CASE MoveCaches(s)
  <2>1. saver[s] \in Reading
    BY <1>6, AtReading DEF MoveCaches, SaverPc
  <2>2. [saver[s] EXCEPT !.pc = "moveTable"] \in Reading /\ saver[s].mail \in Mails
    BY <2>1 DEF Reading, SaverPc
  <2>. QED BY <1>6, <1>r, <2>2
       DEF MoveCaches, Goto, Cached, MailOf, jobVars, mailVars, bounds, TypeOK
<1>7. CASE MoveDeletes(s)
  <2>1. saver[s] \in Reading
    BY <1>7, AtReading DEF MoveDeletes, SaverPc
  <2>2. [saver[s] EXCEPT !.pc = "write"] \in Reading
    BY <2>1 DEF Reading, SaverPc
  <2>. QED BY <1>7, <1>r, <2>2 DEF MoveDeletes, Goto, jobVars, mailVars, bounds, TypeOK
<1>8. CASE WriteRow(s)
  BY <1>8, <1>i DEF WriteRow, jobVars, mailVars, actorVars, bounds, TypeOK
<1>9. CASE SaverFails(s)
  <2>1. saver' = [saver EXCEPT ![s] = Idle] /\ UNCHANGED <<jobVars, mailVars, actorVars, cut, overtaken>>
    BY <1>9 DEF SaverFails
  <2>2. mishaps' \in 0 .. MaxMishaps /\ reads' = reads
    BY <1>9 DEF SaverFails, Mishap, TypeOK
  <2>. QED BY <1>i, <2>1, <2>2 DEF jobVars, mailVars, actorVars, TypeOK
<1>. QED
  BY <1>1, <1>2, <1>3, <1>4, <1>5, <1>6, <1>7, <1>8, <1>9 DEF SaverAction, SaverStep

\* A reader changes a row only to name somebody in it, never from the actor to the
\* owner.
LEMMA SaverRowFacts ==
  ASSUME MailSound, NEW s \in Savers, SaverAction(s)
  PROVE  /\ row' \in [Mails -> Owner]
         /\ \A m \in Mails : row[m] = "actor" => row'[m] = "actor"
         /\ \A m \in Mails : row'[m] # row[m] => m <= sent
<1>. USE DEF MailSound
<1>1. CASE WriteRow(s)
  <2>1. saver[s] \in Reading /\ saver[s].mail \in Mails /\ saver[s].mail <= sent
    BY <1>1, AtReading, ReadingOf DEF WriteRow, SaverPc, OnlySent, Reading, At, Idle
  <2>2. row' = [row EXCEPT ![saver[s].mail] =
                  IF saver[s].known THEN "actor"
                  ELSE IF saver[s].new /\ @ = "none" THEN "owner" ELSE @]
    BY <1>1 DEF WriteRow, MailOf
  <2>. QED BY <2>1, <2>2 DEF TypeOK, Owner
<1>2. ~WriteRow(s) => UNCHANGED row
  BY DEF SaverAction, SaverStep, TakeCopy, FindRow, ReadCache, ReadTable, ReadTableFails,
         MoveCaches, MoveDeletes, SaverFails
<1>. QED BY <1>1, <1>2 DEF TypeOK

\* A reader keeps to a mail that was sent, and caches the mapping before it gets
\* to delete it.
LEMMA SaverReadsSent ==
  ASSUME MailSound, NEW s \in Savers, SaverAction(s)
  PROVE  /\ saver'[s] # Idle => saver'[s].mail <= sent
         /\ saver'[s].pc = "moveTable" => saver'[s].mail \in cache' \cup forgotten'
<1>. USE DEF MailSound
<1>1. ASSUME NEW m \in Mails, TakeCopy(s, m)
      PROVE  saver'[s].mail = m /\ saver'[s].pc = "find" /\ m \in copies
  BY <1>1 DEF TakeCopy, TypeOK
<1>2. CASE FindRow(s) \/ ReadCache(s) \/ ReadTable(s) \/ ReadTableFails(s)
  <2>1. saver[s] \in Reading /\ saver[s] # Idle
    BY <1>2, AtReading DEF FindRow, ReadCache, ReadTable, ReadTableFails, SaverPc, At, Idle
  <2>2. saver'[s].mail = saver[s].mail /\ saver'[s].pc # "moveTable"
    BY <1>2, <2>1 DEF FindRow, ReadCache, ReadTable, ReadTableFails, Goto, TypeOK, Reading
  <2>. QED BY <2>1, <2>2 DEF OnlySent
<1>3. CASE MoveCaches(s)
  <2>1. saver[s] \in Reading /\ saver[s] # Idle
    BY <1>3, AtReading DEF MoveCaches, SaverPc, At, Idle
  <2>2. saver'[s].mail = saver[s].mail
    BY <1>3, <2>1 DEF MoveCaches, Goto, TypeOK, Reading
  <2>3. saver[s].mail \in cache' \cup forgotten'
    BY <1>3, <2>1 DEF MoveCaches, Cached, MailOf, TypeOK, Reading
  <2>. QED BY <2>1, <2>2, <2>3 DEF OnlySent
<1>4. CASE MoveDeletes(s)
  <2>1. saver[s] \in Reading /\ saver[s] # Idle
    BY <1>4, AtReading DEF MoveDeletes, SaverPc, At, Idle
  <2>2. saver'[s].mail = saver[s].mail /\ saver'[s].pc = "write"
    BY <1>4, <2>1 DEF MoveDeletes, Goto, TypeOK, Reading
  <2>. QED BY <2>1, <2>2 DEF OnlySent
<1>5. CASE WriteRow(s) \/ SaverFails(s)
  <2>1. saver'[s] = Idle
    BY <1>5 DEF WriteRow, SaverFails, TypeOK
  <2>. QED BY <2>1 DEF Idle
<1>. QED
  BY <1>1, <1>2, <1>3, <1>4, <1>5 DEF SaverAction, SaverStep, OnlySent

LEMMA SaverKeepsSound ==
  ASSUME MailSound, NEW s \in Savers, SaverAction(s)
  PROVE  MailSound'
<1>. USE DEF MailSound
<1>. PICK k \in SaverState : saver' = [saver EXCEPT ![s] = k]
  BY SaverFacts
<1>1. /\ UNCHANGED <<job, step, sent, copies, redis, overtaken>>
      /\ cut \subseteq cut' /\ cache \subseteq cache' /\ forgotten \subseteq forgotten'
  BY SaverFacts
<1>2. \A t \in Savers : t # s => saver'[t] = saver[t]
  BY DEF TypeOK
<1>3. TypeOK'
  BY <1>1, SaverFacts, SaverRowFacts DEF TypeOK
<1>4. AttemptsSound'
  BY <1>1 DEF AttemptsSound, RunsBefore, SendsBounded
<1>5. OnlySent'
  BY <1>1, <1>2, SaverRowFacts, SaverReadsSent DEF OnlySent
<1>6. Settled'
  BY <1>1, SaverRowFacts DEF Settled, Underway
<1>7. MovedFirst'
  BY <1>1, <1>2, SaverReadsSent DEF MovedFirst, At
<1>. QED BY <1>3, <1>4, <1>5, <1>6, <1>7

-----------------------------------------------------------------------------
(* The job's steps leave the readers alone, but for a crash.                *)

\* A step that changes nothing of the job, of the mails and of the rows but adds to
\* what is remembered keeps the invariant.
LEMMA QuietKeepsSound ==
  ASSUME MailSound, TypeOK', UNCHANGED <<job, step, sent, copies, row, saver, cache>>,
         cut \subseteq cut', overtaken \subseteq overtaken', forgotten \subseteq forgotten'
  PROVE  MailSound'
BY DEF MailSound, AttemptsSound, RunsBefore, SendsBounded, OnlySent, Settled, Underway,
       MovedFirst, At

\* The processor goes on to a later step of the same run.
LEMMA GoesOn ==
  ASSUME MailSound, TypeOK', UNCHANGED <<job, saver>>,
         job.state = "active", step' \notin {"idle", "prepare", "send"},
         sent' <= RunsBefore + 1, sent <= sent',
         \A m \in copies' : m <= sent',
         \A m \in Mails : row'[m] # row[m] => m <= sent' /\ row'[m] = "actor",
         step' # "announce" => sent' > 0,
         \A m \in Mails : m <= sent' =>
           Underway(m)' \/ row'[m] = "actor" \/ m \in cut' \cup overtaken',
         cache \subseteq cache', forgotten \subseteq forgotten'
  PROVE  MailSound'
<1>. USE DEF MailSound
<1>1. sent \in Nat /\ sent' \in Nat
  BY ConstantsAssumption DEF TypeOK, MaxSends
<1>2. AttemptsSound'
  <2>1. job.tried \in Nat /\ MaxAttempts \in Nat /\ job.tried < MaxAttempts
    BY ConstantsAssumption DEF AttemptsSound, TypeOK
  <2>2. SendsBounded'
    BY <1>1, <2>1 DEF RunsBefore, SendsBounded
  <2>. QED BY <2>2 DEF AttemptsSound, RunsBefore
<1>3. OnlySent'
  <2>1. \A m \in Mails : row'[m] # "none" => m <= sent'
    BY <1>1 DEF OnlySent, Mails
  <2>2. \A s \in Savers : saver'[s] # Idle => saver'[s].mail <= sent'
    <3>1. \A s \in Savers : saver[s] # Idle => saver[s].mail \in Nat
      BY ReadingOf DEF Reading, Mails
    <3>. QED BY <1>1, <3>1 DEF OnlySent
  <2>. QED BY <2>1, <2>2 DEF OnlySent
<1>4. Settled' /\ MovedFirst'
  BY DEF Settled, MovedFirst, At
<1>. QED BY <1>2, <1>3, <1>4

\* The run ends in any way and the job's state follows; the mail it was about has
\* been named or has a cause.
LEMMA RunEnds ==
  ASSUME MailSound, TypeOK', UNCHANGED <<sent, copies, row, cache, forgotten, overtaken>>,
         job.state = "active", step' = "idle", job'.state # "active",
         job'.state \in {"waiting", "delayed"} => job'.tried < MaxAttempts /\ sent <= RunsBefore',
         sent <= MaxAttempts + (IF job'.stalled THEN 1 ELSE 0),
         cut \subseteq cut',
         \A m \in Mails : Underway(m) => row[m] = "actor" \/ m \in cut',
         \A s \in Savers : saver'[s] \in {saver[s], Idle}
  PROVE  MailSound'
<1>. USE DEF MailSound
<1>1. AttemptsSound'
  BY DEF AttemptsSound, SendsBounded
<1>2. OnlySent'
  BY DEF OnlySent
<1>3. Settled'
  BY DEF Settled
<1>4. MovedFirst'
  BY DEF MovedFirst, At, Idle
<1>. QED BY <1>1, <1>2, <1>3, <1>4

LEMMA MailSoundStep == MailSound /\ [Next]_vars => MailSound'
<1>. SUFFICES ASSUME MailSound, [Next]_vars PROVE MailSound'
  OBVIOUS
<1>. USE ConstantsAssumption DEF MailSound
<1>t. /\ job \in JobRecord /\ job.tried \in Nat /\ MaxAttempts \in Nat /\ sent \in Nat
      /\ RunsBefore \in Nat
  BY DEF TypeOK, JobRecord, MaxSends, RunsBefore
\* In a step of the processor the job is active and has an attempt left.
<1>a. step # "idle" => job.state = "active" /\ job.tried < MaxAttempts /\ sent <= RunsBefore + 1
  BY DEF AttemptsSound
<1>m. step \in {"append", "find", "insert", "cache", "record"} => sent \in Mails
  BY SentIsMail DEF OnlySent
\* Sending once more is within the bound.
<1>s. step = "send" => sent + 1 <= MaxSends /\ sent + 1 \in Mails /\ sent + 1 <= RunsBefore + 1
  BY <1>t, <1>a DEF AttemptsSound, MaxSends, Mails, RunsBefore
<1>u. \A m \in Mails : step \notin {"append", "find", "insert"} => ~Underway(m)
  BY DEF Underway
<1>1. CASE TakeJob
  <2>1. /\ job.state = "waiting" /\ job' = [job EXCEPT !.state = "active"] /\ step' = "prepare"
        /\ UNCHANGED <<sent, copies, row, redis, cache, table, forgotten, saver, cut, overtaken,
                       mishaps, reads>>
    BY <1>1 DEF TakeJob, mailVars, actorVars, bounds
  <2>2. /\ job' \in JobRecord /\ job'.state = "active" /\ job'.tried = job.tried
        /\ job'.stalled = job.stalled
    BY <1>t, <2>1 DEF JobRecord, JobState
  <2>3. TypeOK'
    BY <2>1, <2>2 DEF TypeOK, JobRecord, Step
  <2>4. AttemptsSound'
    BY <1>t, <2>1, <2>2 DEF AttemptsSound, RunsBefore, SendsBounded
  <2>5. OnlySent' /\ Settled' /\ MovedFirst'
    <3>1. step = "idle"
      BY <2>1 DEF AttemptsSound
    <3>. QED BY <2>1, <3>1 DEF OnlySent, Settled, Underway, MovedFirst, At
  <2>. QED BY <2>3, <2>4, <2>5
<1>2. CASE DelayEnds
  <2>1. /\ job.state = "delayed" /\ job' = [job EXCEPT !.state = "waiting"]
        /\ UNCHANGED <<step, sent, copies, row, redis, cache, table, forgotten, saver, cut, overtaken,
                       mishaps, reads>>
    BY <1>2 DEF DelayEnds, mailVars, actorVars, bounds
  <2>2. /\ job' \in JobRecord /\ job'.state = "waiting" /\ job'.tried = job.tried
        /\ job'.stalled = job.stalled
    BY <1>t, <2>1 DEF JobRecord, JobState
  <2>3. TypeOK'
    BY <2>1, <2>2 DEF TypeOK, JobRecord
  <2>4. AttemptsSound'
    BY <1>t, <2>1, <2>2 DEF AttemptsSound, RunsBefore, SendsBounded
  <2>5. OnlySent' /\ Settled' /\ MovedFirst'
    BY <2>1 DEF OnlySent, Settled, Underway, MovedFirst, At
  <2>. QED BY <2>3, <2>4, <2>5
<1>3. CASE Prepare
  <2>1. /\ step = "prepare" /\ step' = "send"
        /\ UNCHANGED <<job, sent, copies, row, redis, cache, table, forgotten, saver, cut, overtaken,
                       mishaps, reads>>
    BY <1>3 DEF Prepare, mailVars, actorVars, bounds
  <2>2. TypeOK'
    BY <2>1 DEF TypeOK, Step
  <2>. QED BY <2>1, <2>2
       DEF AttemptsSound, RunsBefore, SendsBounded, OnlySent, Settled, Underway, MovedFirst, At
<1>4. CASE Send
  <2>1. /\ step = "send" /\ sent' = sent + 1 /\ step' = "append"
        /\ UNCHANGED <<job, copies, row, redis, cache, table, forgotten, saver, cut, overtaken,
                       mishaps, reads>>
    BY <1>4 DEF Send, actorVars, bounds
  <2>2. TypeOK'
    BY <1>t, <1>s, <2>1 DEF TypeOK, Step
  <2>3. \A m \in copies' : m <= sent'
    BY <1>t, <2>1 DEF OnlySent, TypeOK, Mails
  <2>4. \A m \in Mails : m <= sent' => Underway(m)' \/ row'[m] = "actor" \/ m \in cut' \cup overtaken'
    BY <1>t, <2>1 DEF Settled, Underway, Mails
  <2>. QED BY <1>t, <1>a, <1>s, <2>1, <2>2, <2>3, <2>4, GoesOn
<1>5. CASE SendRefused
  <2>1. /\ step = "send" /\ step' = "announce"
        /\ UNCHANGED <<job, row, redis, cache, table, forgotten, saver, overtaken>>
        /\ \/ UNCHANGED <<sent, copies, cut>>
           \/ /\ sent' = sent + 1
              /\ copies' \in {copies, copies \cup {sent'}}
              /\ cut' = cut \cup {sent'}
    BY <1>5 DEF SendRefused, actorVars
  <2>2. mishaps' \in 0 .. MaxMishaps /\ reads' = reads
    BY <1>5 DEF SendRefused, Mishap, TypeOK
  <2>3. TypeOK'
    <3>1. sent' \in 0 .. MaxSends /\ cut' \in SUBSET Mails /\ copies' \in SUBSET Mails
      BY <1>t, <1>s, <2>1 DEF TypeOK
    <3>. QED BY <2>1, <2>2, <3>1 DEF TypeOK, Step
  <2>4. sent <= sent' /\ sent' <= RunsBefore + 1 /\ \A m \in copies' : m <= sent'
    <3>1. \A m \in copies : m \in Nat /\ m <= sent
      BY DEF OnlySent, TypeOK, Mails
    <3>2. sent' = sent \/ sent' = sent + 1
      BY <2>1
    <3>3. sent <= sent' /\ sent' <= RunsBefore + 1
      BY <1>t, <1>a, <1>s, <2>1, <3>2
    <3>4. copies' \subseteq copies \cup {sent'}
      BY <2>1
    <3>. QED BY <1>t, <3>1, <3>2, <3>3, <3>4
  <2>5. \A m \in Mails : m <= sent' => row'[m] = "actor" \/ m \in cut' \cup overtaken'
    BY <1>t, <1>u, <2>1 DEF Settled, Mails
  <2>. QED BY <1>a, <2>1, <2>3, <2>4, <2>5, GoesOn
<1>6. CASE Append
  <2>1. /\ step = "append" /\ step' = "find" /\ copies' \in {copies, copies \cup {sent}}
        /\ UNCHANGED <<job, sent, row, redis, cache, table, forgotten, saver, cut, overtaken,
                       mishaps, reads>>
    BY <1>6 DEF Append, actorVars, bounds
  <2>2. TypeOK'
    BY <1>m, <2>1 DEF TypeOK, Step
  <2>3. \A m \in copies' : m <= sent'
    BY <1>t, <2>1 DEF OnlySent
  <2>4. \A m \in Mails : m <= sent' => Underway(m)' \/ row'[m] = "actor" \/ m \in cut' \cup overtaken'
    BY <2>1 DEF Settled, Underway
  <2>. QED BY <1>t, <1>a, <2>1, <2>2, <2>3, <2>4, GoesOn DEF OnlySent
<1>7. CASE PersistFinds
  <2>1. /\ step = "find"
        /\ UNCHANGED <<job, sent, copies, redis, cache, table, forgotten, saver, cut, overtaken,
                       mishaps, reads>>
        /\ \/ row[sent] # "none" /\ row' = [row EXCEPT ![sent] = "actor"] /\ step' = "cache"
           \/ UNCHANGED row /\ step' = "insert"
    BY <1>7 DEF PersistFinds, mailVars, actorVars, bounds
  <2>2. TypeOK'
    BY <1>m, <2>1 DEF TypeOK, Step, Owner
  <2>3. \A m \in Mails : row'[m] # row[m] => m <= sent' /\ row'[m] = "actor"
    BY <1>m, <1>t, <2>1 DEF TypeOK
  <2>4. \A m \in Mails : m <= sent' => Underway(m)' \/ row'[m] = "actor" \/ m \in cut' \cup overtaken'
    BY <1>m, <2>1 DEF Settled, Underway, TypeOK
  <2>. QED BY <1>t, <1>a, <2>1, <2>2, <2>3, <2>4, GoesOn DEF OnlySent
<1>8. CASE PersistInserts
  <2>1. /\ step = "insert" /\ step' = "cache"
        /\ UNCHANGED <<job, sent, copies, redis, cache, table, forgotten, saver, cut, mishaps, reads>>
        /\ \/ row' = [row EXCEPT ![sent] = "actor"] /\ UNCHANGED overtaken
           \/ overtaken' = overtaken \cup {sent} /\ UNCHANGED row
    BY <1>8 DEF PersistInserts, mailVars, actorVars, bounds
  <2>2. TypeOK'
    BY <1>m, <2>1 DEF TypeOK, Step, Owner
  <2>3. \A m \in Mails : row'[m] # row[m] => m <= sent' /\ row'[m] = "actor"
    BY <1>m, <1>t, <2>1 DEF TypeOK
  <2>4. \A m \in Mails : m <= sent' => row'[m] = "actor" \/ m \in cut' \cup overtaken'
    BY <1>m, <2>1 DEF Settled, Underway, TypeOK
  <2>. QED BY <1>t, <1>a, <2>1, <2>2, <2>3, <2>4, GoesOn DEF OnlySent
<1>9. CASE PersistFails
  <2>1. /\ step \in {"find", "insert"} /\ step' = "cache" /\ cut' = CutOff(sent)
        /\ UNCHANGED <<job, sent, copies, row, redis, cache, table, forgotten, saver, overtaken>>
    BY <1>9 DEF PersistFails, mailVars, actorVars
  <2>2. mishaps' \in 0 .. MaxMishaps /\ reads' = reads
    BY <1>9 DEF PersistFails, Mishap, TypeOK
  <2>3. TypeOK'
    BY <1>m, <2>1, <2>2 DEF TypeOK, Step, CutOff
  <2>4. \A m \in Mails : m <= sent' => row'[m] = "actor" \/ m \in cut' \cup overtaken'
    BY <2>1 DEF Settled, Underway, CutOff
  <2>. QED BY <1>t, <1>a, <2>1, <2>3, <2>4, GoesOn DEF OnlySent
<1>10. CASE RecordCaches
  <2>1. /\ step = "cache" /\ step' = "record" /\ cache' = Cached(sent)
        /\ UNCHANGED <<job, sent, copies, row, redis, table, forgotten, saver, cut, overtaken,
                       mishaps, reads>>
    BY <1>10 DEF RecordCaches, mailVars, bounds
  <2>2. TypeOK' /\ cache \subseteq cache'
    BY <1>m, <2>1 DEF TypeOK, Step, Cached
  <2>3. \A m \in Mails : m <= sent' => row'[m] = "actor" \/ m \in cut' \cup overtaken'
    BY <1>u, <2>1 DEF Settled
  <2>. QED BY <1>t, <1>a, <2>1, <2>2, <2>3, GoesOn DEF OnlySent
<1>11. CASE RecordStores \/ RecordFails
  <2>1. /\ step = "record" /\ step' = "announce" /\ table' \in {table, table \cup {sent}}
        /\ UNCHANGED <<job, sent, copies, row, redis, cache, forgotten, saver, cut, overtaken>>
    BY <1>11 DEF RecordStores, RecordFails, mailVars, actorVars
  <2>2. mishaps' \in 0 .. MaxMishaps /\ reads' = reads
    BY <1>11 DEF RecordStores, RecordFails, Mishap, bounds, TypeOK
  <2>3. TypeOK'
    BY <1>m, <2>1, <2>2 DEF TypeOK, Step
  <2>4. \A m \in Mails : m <= sent' => row'[m] = "actor" \/ m \in cut' \cup overtaken'
    BY <1>u, <2>1 DEF Settled
  <2>. QED BY <1>t, <1>a, <2>1, <2>3, <2>4, GoesOn DEF OnlySent
<1>12. CASE Announce
  <2>1. /\ step = "announce" /\ step' = "idle" /\ job' = [job EXCEPT !.state = "done"]
        /\ UNCHANGED <<sent, copies, row, redis, cache, table, forgotten, saver, cut, overtaken,
                       mishaps, reads>>
    BY <1>12 DEF Announce, mailVars, actorVars, bounds
  <2>2. job' \in JobRecord /\ job'.state = "done" /\ job'.stalled = job.stalled
    BY <1>t, <2>1 DEF JobRecord, JobState
  <2>3. TypeOK'
    BY <2>1, <2>2 DEF TypeOK, JobRecord, Step
  <2>. QED BY <1>a, <1>u, <2>1, <2>2, <2>3, RunEnds DEF AttemptsSound, SendsBounded
<1>13. CASE Throw
  <2>1. /\ step \in {"prepare", "cache", "announce"} /\ step' = "idle" /\ job' = Retried(job)
        /\ cut' = IF step = "cache" THEN CutOff(sent) ELSE cut
        /\ UNCHANGED <<sent, copies, row, redis, cache, table, forgotten, saver, overtaken>>
    BY <1>13 DEF Throw, mailVars, actorVars
  <2>2. mishaps' \in 0 .. MaxMishaps /\ reads' = reads
    BY <1>13 DEF Throw, Mishap, TypeOK
  <2>3. /\ job' \in JobRecord /\ job'.tried = job.tried + 1 /\ job'.stalled = job.stalled
        /\ job'.state = IF job.tried + 1 < MaxAttempts THEN "delayed" ELSE "failed"
    BY <1>t, <1>a, <2>1, RetriedFacts
  <2>4. cut \subseteq cut' /\ cut' \in SUBSET Mails
    BY <1>m, <2>1 DEF CutOff, TypeOK
  <2>5. TypeOK'
    BY <2>1, <2>2, <2>3, <2>4 DEF TypeOK, JobRecord, Step
  <2>6. sent <= RunsBefore' /\ RunsBefore' <= MaxAttempts + (IF job'.stalled THEN 1 ELSE 0)
    BY <1>t, <1>a, <2>1, <2>3 DEF RunsBefore
  <2>7. sent <= MaxAttempts + (IF job'.stalled THEN 1 ELSE 0)
    BY <2>3 DEF AttemptsSound, SendsBounded
  <2>. QED BY <1>a, <1>u, <2>1, <2>3, <2>4, <2>5, <2>6, <2>7, RunEnds
<1>14. CASE RedisChanges
  <2>1. UNCHANGED <<job, step, sent, copies, row, cache, table, saver, forgotten, cut, overtaken>>
    BY <1>14 DEF RedisChanges, jobVars, mailVars
  <2>2. redis' \in BOOLEAN /\ mishaps' \in 0 .. MaxMishaps /\ reads' = reads
    BY <1>14 DEF RedisChanges, Mishap, bounds, TypeOK
  <2>3. TypeOK'
    BY <2>1, <2>2 DEF TypeOK
  <2>. QED BY <2>1, <2>3, QuietKeepsSound
<1>15. CASE Crash
  <2>1. /\ step' = "idle" /\ saver' = [s \in Savers |-> Idle]
        /\ job' = IF job.state # "active" THEN job
                  ELSE [job EXCEPT !.state = IF job.stalled THEN "failed" ELSE "waiting", !.stalled = TRUE]
        /\ cut' = IF step \in {"append", "find", "insert", "cache"} THEN CutOff(sent) ELSE cut
        /\ UNCHANGED <<sent, copies, row, redis, cache, table, forgotten, overtaken>>
    BY <1>15 DEF Crash, mailVars, actorVars
  <2>2. mishaps' \in 0 .. MaxMishaps /\ reads' = reads
    BY <1>15 DEF Crash, Mishap, TypeOK
  <2>3. saver' \in [Savers -> SaverState] /\ \A s \in Savers : saver'[s] = Idle
    BY <2>1 DEF SaverState
  <2>4. cut \subseteq cut' /\ cut' \in SUBSET Mails
    BY <1>m, <2>1 DEF CutOff, TypeOK
  <2>5. CASE job.state # "active"
    <3>1. job' = job /\ step = "idle" /\ cut' = cut
      BY <2>1, <2>5 DEF AttemptsSound
    <3>2. TypeOK'
      BY <2>1, <2>2, <2>3, <3>1 DEF TypeOK
    <3>. QED BY <2>1, <2>3, <3>1, <3>2
         DEF AttemptsSound, RunsBefore, SendsBounded, OnlySent, Settled, Underway, MovedFirst, At, Idle
  <2>6. CASE job.state = "active"
    <3>1. job' = [job EXCEPT !.state = IF job.stalled THEN "failed" ELSE "waiting", !.stalled = TRUE]
      BY <2>1, <2>6
    <3>2. /\ job' \in JobRecord /\ job'.stalled /\ job'.tried = job.tried
          /\ job'.state = IF job.stalled THEN "failed" ELSE "waiting"
      BY <1>t, <3>1 DEF JobRecord, JobState
    <3>3. TypeOK'
      BY <2>1, <2>2, <2>3, <2>4, <3>2 DEF TypeOK, JobRecord, Step
    <3>4. step # "idle"
      BY <2>6 DEF AttemptsSound
    <3>5. job'.state = "waiting" => sent <= RunsBefore'
      BY <1>t, <1>a, <3>2, <3>4 DEF RunsBefore
    <3>6. sent <= MaxAttempts + 1
      BY <1>t DEF AttemptsSound, SendsBounded
    <3>7. \A m \in Mails : Underway(m) => row[m] = "actor" \/ m \in cut'
      BY <2>1 DEF Underway, CutOff
    <3>. QED BY <1>a, <2>1, <2>3, <2>4, <2>6, <3>2, <3>3, <3>4, <3>5, <3>6, <3>7, RunEnds
  <2>. QED BY <2>5, <2>6
<1>16. ASSUME NEW s \in Savers, SaverAction(s) PROVE MailSound'
  BY <1>16, SaverKeepsSound
<1>17. CASE UNCHANGED vars
  <2>1. UNCHANGED <<job, step, sent, copies, row, redis, cache, table, saver, forgotten, cut, overtaken,
                    mishaps, reads>>
    BY <1>17 DEF vars, jobVars, mailVars, actorVars, bounds
  <2>2. TypeOK'
    BY <2>1 DEF TypeOK
  <2>. QED BY <2>1, <2>2, QuietKeepsSound
<1>. QED
  BY <1>1, <1>2, <1>3, <1>4, <1>5, <1>6, <1>7, <1>8, <1>9, <1>10, <1>11, <1>12, <1>13, <1>14,
     <1>15, <1>16, <1>17
     DEF Next, Process, SaverAction

-----------------------------------------------------------------------------
\* The inductive invariant holds throughout.
THEOREM MailAlwaysSound == Spec => []MailSound
BY MailSoundInit, MailSoundStep, PTL DEF Spec

\* The request, its mails, rows and mappings keep their types.
THEOREM TypeCorrect == Spec => []TypeOK
<1>1. MailSound => TypeOK
  BY DEF MailSound
<1>. QED BY <1>1, MailAlwaysSound, PTL

\* One request sends no more mails than its attempts and the run BullMQ grants a
\* stalled job.
THEOREM SendsAlwaysBounded == Spec => []SendsBounded
<1>1. MailSound => SendsBounded
  BY DEF MailSound, AttemptsSound
<1>. QED BY <1>1, MailAlwaysSound, PTL

\* A mail of an assistant shows up as the owner's only while its attempt is about
\* to name the sender, or when that attempt was cut off or overtaken by the poll.
THEOREM AlwaysNamedForCause == Spec => []NamedForCause
<1>1. MailSound => NamedForCause
  BY DEF MailSound, OnlySent, Settled, NamedForCause
<1>. QED BY <1>1, MailAlwaysSound, PTL

\* A recorded actor stays in Redis or in the table, unless Redis was away.
THEOREM ActorAlwaysKept == Spec => ActorKept
<1>1. MailSound /\ [Next]_vars => [cache \cup table \subseteq cache' \cup table' \cup forgotten']_vars
  <2>. SUFFICES ASSUME MailSound, Next
                PROVE  cache \cup table \subseteq cache' \cup table' \cup forgotten'
    OBVIOUS
  <2>1. ASSUME NEW s \in Savers, MoveDeletes(s)
        PROVE  cache \cup table \subseteq cache' \cup table' \cup forgotten'
    BY <2>1 DEF MoveDeletes, MailSound, MovedFirst, MailOf
  <2>2. (\A s \in Savers : ~MoveDeletes(s)) => cache \subseteq cache' /\ table \subseteq table'
    BY DEF Next, Process, SaverStep, TakeJob, Prepare, Send, SendRefused, Append, PersistFinds,
           PersistInserts, PersistFails, RecordCaches, RecordStores, RecordFails, Announce, Throw,
           DelayEnds, TakeCopy, FindRow, ReadCache, ReadTable, ReadTableFails, MoveCaches, WriteRow,
           SaverFails, RedisChanges, Crash, Cached, actorVars
  <2>. QED BY <2>1, <2>2
<1>. QED BY <1>1, MailAlwaysSound, PTL DEF Spec, ActorKept
=============================================================================
