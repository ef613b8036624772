------------------------ MODULE MessageIngestProofs ------------------------
(* Proofs about MessageIngest for every number of events, conversations,    *)
(* workers and mishaps, and every page size; in the second half, that it    *)
(* implements the ledger, that the cursor only moves over what is accounted *)
(* for, and that a lost race for a conversation has a winner.               *)
EXTENDS MessageIngest, FiniteSetTheorems, TLAPS

\* A busy worker holds a job; an idle one does not.
LEMMA WorkerFacts ==
  ASSUME TypeOK, NEW w \in Workers
  PROVE  /\ Busy(w) => worker[w] \in [pc : WorkerPc, job : Job]
         /\ Busy(w) => EventAt(w) \in Events /\ ChatAt(w) \in Chats
         /\ worker[w].pc \in WorkerPc => Busy(w)
<1>1. worker[w] \in WorkerState
  BY DEF TypeOK
<1>2. Idle.pc \notin WorkerPc
  BY DEF Idle, WorkerPc
<1>3. Busy(w) => worker[w] \in [pc : WorkerPc, job : Job]
  BY <1>1 DEF WorkerState, Busy
<1>4. Busy(w) => EventAt(w) \in Events /\ ChatAt(w) \in Chats
  BY <1>3, ConstantsAssumption DEF EventAt, ChatAt, Job
<1>. QED BY <1>2, <1>3, <1>4 DEF Busy

\* Moving a worker to another step, or to idle, keeps it well-typed.
LEMMA WorkerMoves ==
  ASSUME TypeOK, NEW w \in Workers
  PROVE  /\ \A pc \in WorkerPc : Busy(w) /\ Goto(w, pc) => worker' \in [Workers -> WorkerState]
         /\ Finish(w) => worker' \in [Workers -> WorkerState]
<1>1. ASSUME NEW pc \in WorkerPc, Busy(w), Goto(w, pc)
      PROVE  worker' \in [Workers -> WorkerState]
  <2>1. worker[w] \in [pc : WorkerPc, job : Job]
    BY <1>1, WorkerFacts
  <2>2. [worker[w] EXCEPT !.pc = pc] \in WorkerState
    BY <2>1 DEF WorkerState
  <2>. QED BY <1>1, <2>2 DEF Goto, TypeOK
<1>2. Finish(w) => worker' \in [Workers -> WorkerState]
  BY DEF Finish, TypeOK, WorkerState
<1>. QED BY <1>1, <1>2

\* Naming a reason keeps the history well-typed.
LEMMA LoseTyped ==
  ASSUME TypeOK, NEW S, NEW why \in Reason, Lose(S, why)
  PROVE  lost' \in [Events -> SUBSET Reason]
BY DEF TypeOK, Lose

\* After a crash a job waits as often as before, plus once for every worker
\* that was running it for the first time.
LEMMA InFlightCount ==
  ASSUME NEW j
  PROVE  /\ InFlight(j) \in Nat
         /\ InFlight(j) > 0 <=> \E w \in Workers : Busy(w) /\ worker[w].job = j
<1>. DEFINE S == {w \in Workers : Busy(w) /\ worker[w].job = j}
<1>1. IsFiniteSet(S)
  BY ConstantsAssumption, FS_Subset
<1>2. Cardinality(S) \in Nat /\ (Cardinality(S) = 0 <=> S = {})
  BY <1>1, FS_CardinalityType, FS_EmptySet
<1>. QED BY <1>2 DEF InFlight

\* The first state has the types.
LEMMA TypeInit == Init => TypeOK
BY ConstantsAssumption DEF Init, TypeOK, Events, Resting, PollPc, WorkerState, Idle

\* Every step keeps the types.
LEMMA TypeStep == TypeOK /\ [Next]_vars => TypeOK'
<1>. SUFFICES ASSUME TypeOK, [Next]_vars PROVE TypeOK'
  OBVIOUS
<1>. USE ConstantsAssumption
<1>1. CASE Post
  BY <1>1 DEF Post, TypeOK, Events
<1>2. CASE PollFetch
  BY <1>2 DEF PollFetch, TypeOK, Page, PollPc
<1>3. CASE PersistCursor
  <2>1. "skipped" \in Reason
    BY DEF Reason
  <2>2. lost' \in [Events -> SUBSET Reason]
    BY <1>3, <2>1, LoseTyped DEF PersistCursor
  <2>3. cursor' \in 0 .. MaxEvent
    BY <1>3 DEF PersistCursor, Oldest, TypeOK, Events
  <2>4. poll' \in [pc : PollPc, todo : SUBSET Events]
    BY <1>3 DEF PersistCursor, TypeOK, PollPc
  <2>. QED BY <1>3, <2>2, <2>3, <2>4 DEF PersistCursor, TypeOK
<1>4. CASE PersistFails
  BY <1>4 DEF PersistFails, Mishap, TypeOK, Resting, PollPc
<1>5. CASE EnqueueNext
  <2>. PICK e \in poll.todo : /\ queue[Fresh(e)] < MaxCopies
                             /\ queue' = [queue EXCEPT ![Fresh(e)] = @ + 1]
                             /\ poll' = [poll EXCEPT !.todo = @ \ {e}]
                             /\ pushed' = IF e \in rows THEN pushed ELSE pushed \cup {e}
    BY <1>5 DEF EnqueueNext
  <2>1. e \in Events /\ Fresh(e) \in Job
    BY DEF TypeOK, Fresh, Job
  <2>2. queue' \in [Job -> 0 .. MaxCopies]
    BY <2>1 DEF TypeOK
  <2>. QED BY <1>5, <2>1, <2>2 DEF EnqueueNext, TypeOK
<1>6. CASE PushFails
  <2>. PICK e \in poll.todo : /\ queue[Fresh(e)] < MaxCopies
                             /\ queue' = [queue EXCEPT ![Fresh(e)] = @ + 1]
                             /\ poll' = [poll EXCEPT !.todo = @ \ {e}]
    BY <1>6 DEF PushFails
  <2>1. e \in Events /\ Fresh(e) \in Job
    BY DEF TypeOK, Fresh, Job
  <2>2. queue' \in [Job -> 0 .. MaxCopies]
    BY <2>1 DEF TypeOK
  <2>. QED BY <1>6, <2>1, <2>2 DEF PushFails, Mishap, TypeOK
<1>7. CASE EnqueueFails
  <2>. PICK e \in poll.todo : /\ poll' = [poll EXCEPT !.todo = @ \ {e}]
                             /\ Lose({e}, "notEnqueued")
    BY <1>7 DEF EnqueueFails
  <2>1. lost' \in [Events -> SUBSET Reason]
    BY LoseTyped DEF Reason
  <2>. QED BY <1>7, <2>1 DEF EnqueueFails, Mishap, TypeOK
<1>8. CASE PollDone
  BY <1>8 DEF PollDone, TypeOK, Resting, PollPc
<1>9. ASSUME NEW w \in Workers, NEW j \in Job, TakeJob(w, j) PROVE TypeOK'
  <2>1. queue' \in [Job -> 0 .. MaxCopies]
    BY <1>9 DEF TakeJob, TypeOK
  <2>2. worker' \in [Workers -> WorkerState]
    BY <1>9 DEF TakeJob, TypeOK, WorkerState, WorkerPc
  <2>. QED BY <1>9, <2>1, <2>2 DEF TakeJob, TypeOK
<1>10. ASSUME NEW w \in Workers, ProcessStep(w) PROVE TypeOK'
  <2>1. Busy(w) /\ EventAt(w) \in Events /\ ChatAt(w) \in Chats
    <3>1. worker[w].pc \in WorkerPc
      BY <1>10 DEF ProcessStep, FindChat, TouchChat, CreateChat, CreateChatFails,
                   FindMessage, InsertMessage, WorkerPc
    <3>. QED BY <3>1, WorkerFacts
  <2>2. worker' \in [Workers -> WorkerState]
    <3>1. (\E pc \in WorkerPc : Goto(w, pc)) \/ Finish(w)
      BY <1>10 DEF ProcessStep, FindChat, TouchChat, CreateChat, CreateChatFails,
                   FindMessage, InsertMessage, WorkerPc
    <3>. QED BY <2>1, <3>1, WorkerMoves
  <2>3. lost' \in [Events -> SUBSET Reason]
    <3>1. CASE CreateChatFails(w)
      BY <3>1, LoseTyped DEF CreateChatFails, Reason
    <3>2. CASE ~CreateChatFails(w)
      BY <1>10, <3>2 DEF ProcessStep, FindChat, TouchChat, CreateChat, FindMessage,
                         InsertMessage, TypeOK
    <3>. QED BY <3>1, <3>2
  <2>4. chats' \in SUBSET Chats /\ rows' \in SUBSET Events
    BY <1>10, <2>1 DEF ProcessStep, FindChat, TouchChat, CreateChat, CreateChatFails,
                       FindMessage, InsertMessage, TypeOK
  <2>5. preview' \in [Chats -> 0 .. MaxEvent]
    <3>1. EventAt(w) \in 0 .. MaxEvent
      BY <2>1 DEF Events
    <3>. QED BY <1>10, <3>1 DEF ProcessStep, FindChat, TouchChat, CreateChat,
                  CreateChatFails, FindMessage, InsertMessage, TypeOK
  <2>6. UNCHANGED <<posted, cursor, poll, queue, pushed, mishaps>>
    BY <1>10 DEF ProcessStep, FindChat, TouchChat, CreateChat, CreateChatFails,
                 FindMessage, InsertMessage
  <2>. QED BY <2>2, <2>3, <2>4, <2>5, <2>6 DEF TypeOK
<1>11. ASSUME NEW w \in Workers, JobError(w) PROVE TypeOK'
  <2>1. lost' \in [Events -> SUBSET Reason]
    BY <1>11, LoseTyped DEF JobError, Reason
  <2>2. worker' \in [Workers -> WorkerState]
    BY <1>11, WorkerMoves DEF JobError
  <2>. QED BY <1>11, <2>1, <2>2 DEF JobError, Mishap, TypeOK
<1>12. CASE Crash
  <2>1. \A j \in Job : Recovered(j) \in Nat
    BY InFlightCount DEF Recovered
  <2>2. queue' \in [Job -> 0 .. MaxCopies]
    BY <1>12, <2>1 DEF Crash, TypeOK
  <2>3. lost' \in [Events -> SUBSET Reason]
    BY <1>12 DEF Crash, TypeOK, Reason
  <2>. QED BY <1>12, <2>2, <2>3 DEF Crash, Mishap, TypeOK, Resting, PollPc, WorkerState
<1>13. CASE UNCHANGED vars
  BY <1>13 DEF vars, TypeOK
<1>. QED
  BY <1>1, <1>2, <1>3, <1>4, <1>5, <1>6, <1>7, <1>8, <1>9, <1>10, <1>11, <1>12, <1>13
     DEF Next, PollStep

\* Every variable of the ingestion keeps its type: in particular no save-message
\* job is ever handed out that nobody enqueued, and the cursor is an event id.
THEOREM TypeCorrect == Spec => []TypeOK
BY TypeInit, TypeStep, PTL DEF Spec

-----------------------------------------------------------------------------
(* What keeps a message: a waiting job, a job at one of the steps P, its    *)
(* row, or one of the reasons R for having abandoned it.                    *)

At(e, P) == \E w \in Workers : Busy(w) /\ EventAt(w) = e /\ worker[w].pc \in P
Kept(e, P, R) == Waiting(e) \/ At(e, P) \/ e \in rows \/ lost[e] \cap R # {}

Fatal == {"jobError", "stalledTwice"}
PastCreation == WorkerPc \ {"createChat"}

\* The two instances used: a message whose job was enqueued, and one that cannot
\* lose the race for its conversation because the conversation exists.
Keeps(e, P, R) ==
  /\ Fatal \subseteq R
  /\ \/ P = WorkerPc /\ "chatRace" \in R
     \/ P = PastCreation /\ ChatOf[e] \in chats

\* Naming a reason for the events of S adds to the history and removes nothing.
LEMMA LoseGrows ==
  ASSUME TypeOK, NEW S, NEW why, Lose(S, why), NEW e \in Events
  PROVE  /\ lost[e] \subseteq lost'[e]
         /\ lost'[e] \subseteq lost[e] \cup {why}
         /\ e \in S => why \in lost'[e]
         /\ e \notin S => lost'[e] = lost[e]
BY DEF Lose, TypeOK

\* A step of one worker leaves what the other workers hold alone.
LEMMA OthersKept ==
  ASSUME TypeOK, NEW w \in Workers, NEW v \in Workers, v # w,
         Finish(w) \/ \E pc \in WorkerPc : Goto(w, pc)
  PROVE  worker'[v] = worker[v]
BY DEF TypeOK, Finish, Goto

\* A worker that goes on to another step keeps its job.
LEMMA OwnKept ==
  ASSUME TypeOK, NEW w \in Workers, NEW pc \in WorkerPc, Busy(w), Goto(w, pc)
  PROVE  Busy(w)' /\ worker'[w].job = worker[w].job /\ worker'[w].pc = pc
<1>1. worker[w] \in [pc : WorkerPc, job : Job]
  BY WorkerFacts
<1>2. worker'[w] = [worker[w] EXCEPT !.pc = pc]
  BY DEF Goto, TypeOK
<1>3. worker'[w].job = worker[w].job /\ worker'[w].pc = pc
  BY <1>1, <1>2
<1>4. Idle.pc \notin WorkerPc
  BY DEF Idle, WorkerPc
<1>. QED BY <1>3, <1>4 DEF Busy

\* What a step of a worker does to its own job, and that it leaves the rest.
LEMMA ProcessFacts ==
  ASSUME TypeOK, NEW w \in Workers, ProcessStep(w)
  PROVE  /\ Busy(w) /\ worker[w].pc \in WorkerPc
         /\ Finish(w) \/ \E pc \in WorkerPc : Goto(w, pc)
         /\ Finish(w) => CreateChatFails(w) \/ EventAt(w) \in rows'
         /\ UNCHANGED <<posted, cursor, poll, queue, pushed>>
         /\ rows \subseteq rows' /\ chats \subseteq chats'
         /\ \A e \in Events : lost[e] \subseteq lost'[e]
         /\ ~CreateChatFails(w) => UNCHANGED lost
         /\ Goto(w, "createChat") => ChatAt(w) \notin chats
<1>1. worker[w].pc \in WorkerPc
  BY DEF ProcessStep, FindChat, TouchChat, CreateChat, CreateChatFails, FindMessage,
         InsertMessage, WorkerPc
<1>2. Busy(w) /\ worker[w] \in [pc : WorkerPc, job : Job]
  BY <1>1, WorkerFacts
<1>3. Finish(w) \/ \E pc \in WorkerPc : Goto(w, pc)
  BY DEF ProcessStep, FindChat, TouchChat, CreateChat, CreateChatFails, FindMessage,
         InsertMessage, WorkerPc
<1>4. Finish(w) => worker'[w] = Idle
  BY DEF Finish, TypeOK
<1>5. \A pc \in WorkerPc : Goto(w, pc) => worker'[w].pc = pc /\ worker'[w] # Idle
  BY <1>2, OwnKept DEF Busy
<1>6. Finish(w) => CreateChatFails(w) \/ EventAt(w) \in rows'
  BY <1>4, <1>5 DEF ProcessStep, FindChat, TouchChat, CreateChat, FindMessage,
         InsertMessage, WorkerPc
<1>7. Goto(w, "createChat") => ChatAt(w) \notin chats
  BY <1>4, <1>5 DEF ProcessStep, FindChat, TouchChat, CreateChat, CreateChatFails,
         FindMessage, InsertMessage, WorkerPc
<1>8. \A e \in Events : lost[e] \subseteq lost'[e]
  BY LoseGrows DEF ProcessStep, FindChat, TouchChat, CreateChat, CreateChatFails,
         FindMessage, InsertMessage
<1>9. /\ UNCHANGED <<posted, cursor, poll, queue, pushed>>
      /\ rows \subseteq rows' /\ chats \subseteq chats'
      /\ ~CreateChatFails(w) => UNCHANGED lost
  BY DEF ProcessStep, FindChat, TouchChat, CreateChat, CreateChatFails, FindMessage,
         InsertMessage
<1>. QED BY <1>1, <1>2, <1>3, <1>6, <1>7, <1>8, <1>9

\* Adding the job of n: what waited still waits, and n waits, too.
LEMMA EnqueueFacts ==
  ASSUME TypeOK, NEW n \in Events, queue' = [queue EXCEPT ![Fresh(n)] = @ + 1]
  PROVE  /\ \A e \in Events : Waiting(e)' <=> Waiting(e) \/ e = n
<1>1. Fresh(n) \in Job /\ Fresh(n).ev = n
  BY DEF Fresh, Job
<1>2. \A j \in Job : queue[j] \in Nat /\ (j # Fresh(n) => queue'[j] = queue[j])
  BY <1>1, ConstantsAssumption DEF TypeOK
<1>3. queue'[Fresh(n)] > 0
  BY <1>1, <1>2 DEF TypeOK
<1>. QED BY <1>1, <1>2, <1>3 DEF Waiting

\* Taking a job moves its event from the queue to the worker.
LEMMA TakeFacts ==
  ASSUME TypeOK, NEW w \in Workers, NEW j \in Job, TakeJob(w, j)
  PROVE  /\ worker'[w] = [pc |-> "findChat", job |-> j] /\ Busy(w)'
         /\ ~Busy(w) /\ Waiting(j.ev)
         /\ \A v \in Workers : v # w => worker'[v] = worker[v]
         /\ \A k \in Job : k # j => queue'[k] = queue[k]
         /\ queue'[j] \in Nat /\ queue'[j] = queue[j] - 1
<1>1. worker'[w] = [pc |-> "findChat", job |-> j]
  BY DEF TakeJob, TypeOK
<1>2. worker'[w] # Idle
  BY <1>1 DEF Idle
<1>3. queue[j] \in Nat /\ queue[j] > 0
  BY ConstantsAssumption DEF TypeOK, TakeJob
<1>. QED BY <1>1, <1>2, <1>3 DEF TakeJob, TypeOK, Busy, Waiting

\* After a crash exactly the jobs that waited and the first-time jobs of workers
\* wait; second-time jobs are given up.
LEMMA CrashFacts ==
  ASSUME TypeOK, Crash, NEW e \in Events
  PROVE  /\ lost[e] \subseteq lost'[e]
         /\ Waiting(e) => Waiting(e)'
         /\ Waiting(e)' => Waiting(e) \/ Working(e)
         /\ Working(e) => Waiting(e)' \/ "stalledTwice" \in lost'[e]
         /\ ~Working(e)'
<1>1. lost[e] \subseteq lost'[e]
  BY DEF Crash
<1>2. \A j \in Job : queue[j] \in Nat /\ Recovered(j) \in Nat /\ queue'[j] = queue[j] + Recovered(j)
  BY InFlightCount DEF Crash, Recovered, TypeOK
<1>3. Waiting(e) => Waiting(e)'
  BY <1>2 DEF Waiting
<1>4. ASSUME Waiting(e)' PROVE Waiting(e) \/ Working(e)
  <2>1. PICK j \in Job : j.ev = e /\ queue'[j] > 0
    BY <1>4 DEF Waiting
  <2>2. CASE queue[j] > 0
    BY <2>1, <2>2 DEF Waiting
  <2>3. CASE ~(queue[j] > 0)
    <3>1. Recovered(j) > 0
      BY <1>2, <2>1, <2>3
    <3>2. InFlight(Fresh(e)) > 0
      BY <2>1, <3>1 DEF Recovered
    <3>3. PICK w \in Workers : Busy(w) /\ worker[w].job = Fresh(e)
      BY <3>2, InFlightCount
    <3>. QED BY <3>3 DEF Working, EventAt, Fresh
  <2>. QED BY <2>2, <2>3
<1>5. ASSUME Working(e) PROVE Waiting(e)' \/ "stalledTwice" \in lost'[e]
  <2>1. PICK w \in Workers : Busy(w) /\ EventAt(w) = e
    BY <1>5 DEF Working
  <2>2. worker[w].job \in Job /\ worker[w].job.ev = e
    BY <2>1, WorkerFacts DEF EventAt
  <2>3. CASE worker[w].job.stalled
    <3>1. worker[w].job = [ev |-> e, stalled |-> TRUE]
      BY <2>2, <2>3 DEF Job
    <3>. QED BY <2>1, <3>1 DEF Crash
  <2>4. CASE ~worker[w].job.stalled
    <3>. DEFINE k == [ev |-> e, stalled |-> TRUE]
    <3>1. worker[w].job = Fresh(e)
      BY <2>2, <2>4 DEF Job, Fresh
    <3>2. InFlight(Fresh(e)) > 0
      BY <2>1, <3>1, InFlightCount
    <3>3. k \in Job /\ k.ev = e /\ Recovered(k) = InFlight(Fresh(e))
      BY DEF Job, Recovered
    <3>4. queue'[k] > 0
      BY <1>2, <3>2, <3>3
    <3>. QED BY <3>3, <3>4 DEF Waiting
  <2>. QED BY <2>3, <2>4
<1>6. ~Working(e)'
  BY DEF Crash, Working, Busy
<1>. QED BY <1>1, <1>3, <1>4, <1>5, <1>6

\* Once kept, a message stays kept, in either of the two senses.
LEMMA KeptStep ==
  ASSUME TypeOK, [Next]_vars, NEW e \in Events, NEW P, NEW R, Keeps(e, P, R), Kept(e, P, R)
  PROVE  Kept(e, P, R)'
<1>. USE DEF Kept
<1>p. P \subseteq WorkerPc /\ "findChat" \in P /\ Fatal \subseteq R
  BY DEF Keeps, PastCreation, WorkerPc
<1>1. CASE UNCHANGED <<queue, worker, rows>> /\ lost[e] \subseteq lost'[e]
  BY <1>1 DEF Waiting, At, EventAt, Busy
<1>2. ASSUME NEW n \in Events, queue' = [queue EXCEPT ![Fresh(n)] = @ + 1],
             UNCHANGED <<worker, rows, lost>>
      PROVE  Kept(e, P, R)'
  BY <1>2, EnqueueFacts DEF At, EventAt, Busy
<1>3. CASE Post \/ PollFetch \/ PersistFails \/ PollDone \/ UNCHANGED vars
  BY <1>1, <1>3 DEF Post, PollFetch, PersistFails, PollDone, vars
<1>4. CASE PersistCursor \/ EnqueueFails
  <2>1. lost[e] \subseteq lost'[e]
    BY <1>4, LoseGrows DEF PersistCursor, EnqueueFails
  <2>. QED BY <1>1, <1>4, <2>1 DEF PersistCursor, EnqueueFails
<1>5. CASE EnqueueNext \/ PushFails
  <2>. PICK n \in poll.todo : queue' = [queue EXCEPT ![Fresh(n)] = @ + 1]
    BY <1>5 DEF EnqueueNext, PushFails
  <2>1. n \in Events
    BY DEF TypeOK
  <2>. QED BY <1>2, <1>5, <2>1 DEF EnqueueNext, PushFails
<1>6. ASSUME NEW w \in Workers, NEW j \in Job, TakeJob(w, j) PROVE Kept(e, P, R)'
  <2>1. CASE Waiting(e)
    <3>1. PICK k \in Job : k.ev = e /\ queue[k] > 0
      BY <2>1 DEF Waiting
    <3>2. CASE k = j
      <4>0. worker'[w] = [pc |-> "findChat", job |-> j] /\ Busy(w)'
        BY <1>6, TakeFacts
      <4>1. worker'[w].pc = "findChat" /\ worker'[w].job.ev = e /\ Busy(w)'
        BY <3>1, <3>2, <4>0
      <4>. QED BY <1>p, <4>1 DEF At, EventAt, Busy
    <3>3. CASE k # j
      <4>1. queue'[k] = queue[k]
        BY <1>6, <3>3, TakeFacts
      <4>. QED BY <3>1, <4>1 DEF Waiting
    <3>. QED BY <3>2, <3>3
  <2>2. CASE At(e, P)
    <3>1. PICK v \in Workers : Busy(v) /\ EventAt(v) = e /\ worker[v].pc \in P
      BY <2>2 DEF At
    <3>2. v # w
      BY <1>6, <3>1, TakeFacts
    <3>. QED BY <1>6, <3>1, <3>2, TakeFacts DEF At, EventAt, Busy
  <2>. QED BY <1>6, <2>1, <2>2 DEF TakeJob
<1>7. ASSUME NEW w \in Workers, ProcessStep(w) PROVE Kept(e, P, R)'
  <2>1. CASE At(e, P)
    <3>1. PICK v \in Workers : Busy(v) /\ EventAt(v) = e /\ worker[v].pc \in P
      BY <2>1 DEF At
    <3>2. CASE v # w
      <4>1. worker'[v] = worker[v]
        BY <1>7, <3>2, ProcessFacts, OthersKept
      <4>. QED BY <3>1, <4>1 DEF At, EventAt, Busy
    <3>3. CASE v = w /\ Finish(w)
      <4>1. CASE CreateChatFails(w)
        <5>1. worker[w].pc = "createChat" /\ Lose({EventAt(w)}, "chatRace")
          BY <4>1 DEF CreateChatFails
        <5>2. "chatRace" \in R
          BY <3>1, <3>3, <5>1 DEF Keeps, PastCreation
        <5>. QED BY <3>1, <3>3, <5>1, <5>2, LoseGrows
      <4>. QED BY <1>7, <3>1, <3>3, <4>1, ProcessFacts
    <3>4. CASE v = w /\ \E pc \in WorkerPc : Goto(w, pc)
      <4>. PICK pc \in WorkerPc : Goto(w, pc)
        BY <3>4
      <4>1. Busy(w)' /\ worker'[w].job = worker[w].job /\ worker'[w].pc = pc
        BY <3>1, <3>4, OwnKept
      <4>2. pc = "createChat" => ChatOf[e] \notin chats
        BY <1>7, <3>1, <3>4, ProcessFacts DEF ChatAt
      <4>3. pc \in P
        BY <4>2 DEF Keeps, PastCreation
      <4>. QED BY <3>1, <3>4, <4>1, <4>3 DEF At, EventAt
    <3>. QED BY <1>7, <3>2, <3>3, <3>4, ProcessFacts
  <2>2. Waiting(e) => Waiting(e)'
    BY <1>7, ProcessFacts DEF Waiting
  <2>. QED BY <1>7, <2>1, <2>2, ProcessFacts
<1>8. ASSUME NEW w \in Workers, JobError(w) PROVE Kept(e, P, R)'
  <2>1. lost[e] \subseteq lost'[e] /\ (e = EventAt(w) => lost'[e] \cap R # {})
    BY <1>8, <1>p, LoseGrows DEF JobError, Fatal
  <2>2. \A v \in Workers : v # w => worker'[v] = worker[v]
    BY <1>8, OthersKept DEF JobError
  <2>. QED BY <1>8, <2>1, <2>2 DEF JobError, Waiting, At, EventAt, Busy
<1>9. CASE Crash
  <2>1. At(e, P) => Working(e)
    BY DEF At, Working
  <2>2. "stalledTwice" \in R
    BY <1>p DEF Fatal
  <2>. QED BY <1>9, <2>1, <2>2, CrashFacts DEF Crash
<1>. QED
  BY <1>3, <1>4, <1>5, <1>6, <1>7, <1>8, <1>9 DEF Next, PollStep

\* A worker on a message is at one of the steps.
LEMMA WorkingAt ==
  ASSUME TypeOK, NEW e
  PROVE  Working(e) <=> At(e, WorkerPc)
BY WorkerFacts DEF Working, At

-----------------------------------------------------------------------------
(* Accounted: a message at or below the cursor is never silently gone.      *)

Held(e) == Polled(e) \/ Waiting(e) \/ Working(e) \/ e \in rows \/ lost[e] # {}

\* Reasons are only ever added.
LEMMA LostGrows ==
  ASSUME TypeOK, [Next]_vars, NEW e \in Events
  PROVE  lost[e] \subseteq lost'[e]
<1>1. CASE PersistCursor \/ EnqueueFails \/ \E w \in Workers : JobError(w)
  BY <1>1, LoseGrows DEF PersistCursor, EnqueueFails, JobError
<1>2. CASE Crash
  BY <1>2, CrashFacts
<1>3. ASSUME NEW w \in Workers, ProcessStep(w) PROVE lost[e] \subseteq lost'[e]
  BY <1>3, ProcessFacts
<1>4. CASE UNCHANGED lost
  BY <1>4
<1>5. CASE \/ Post \/ PollFetch \/ PersistFails \/ EnqueueNext \/ PushFails \/ PollDone
           \/ \E w \in Workers, j \in Job : TakeJob(w, j)
  BY <1>4, <1>5 DEF Post, PollFetch, PersistFails, EnqueueNext, PushFails, PollDone, TakeJob
<1>. QED BY <1>1, <1>2, <1>3, <1>4, <1>5 DEF Next, PollStep, vars

\* An event of the page being enqueued stays there, or its job is added, or the
\* failure is recorded.
LEMMA PolledStep ==
  ASSUME TypeOK, [Next]_vars, NEW e \in Events, Polled(e)
  PROVE  Held(e)'
<1>1. CASE EnqueueNext \/ PushFails
  <2>. PICK n \in poll.todo : /\ queue' = [queue EXCEPT ![Fresh(n)] = @ + 1]
                             /\ poll' = [poll EXCEPT !.todo = @ \ {n}]
    BY <1>1 DEF EnqueueNext, PushFails
  <2>1. n \in Events
    BY DEF TypeOK
  <2>2. CASE e = n
    BY <2>1, <2>2, EnqueueFacts DEF Held
  <2>3. CASE e # n
    BY <2>3 DEF Polled, Held, TypeOK
  <2>. QED BY <2>2, <2>3
<1>2. CASE EnqueueFails
  <2>. PICK n \in poll.todo : /\ poll' = [poll EXCEPT !.todo = @ \ {n}]
                             /\ Lose({n}, "notEnqueued")
    BY <1>2 DEF EnqueueFails
  <2>1. e = n => lost'[e] # {}
    BY LoseGrows
  <2>. QED BY <2>1 DEF Polled, Held, TypeOK
<1>3. CASE Crash
  BY <1>3 DEF Crash, Polled, Held
<1>4. CASE UNCHANGED poll
  BY <1>4 DEF Held, Polled
<1>5. ~(PollFetch \/ PersistCursor \/ PersistFails \/ PollDone)
  BY DEF Polled, PollFetch, PersistCursor, PersistFails, PollDone
<1>6. CASE Post \/ \E w \in Workers : (\E j \in Job : TakeJob(w, j)) \/ JobError(w)
  BY <1>4, <1>6 DEF Post, TakeJob, JobError
<1>7. CASE \E w \in Workers : ProcessStep(w)
  BY <1>4, <1>7, ProcessFacts
<1>. QED BY <1>1, <1>2, <1>3, <1>4, <1>5, <1>6, <1>7 DEF Next, PollStep, vars

\* Once held, a message stays held or is stored or abandoned.
LEMMA HeldStep ==
  ASSUME TypeOK, [Next]_vars, NEW e \in Events, Held(e)
  PROVE  Held(e)'
<1>1. CASE Polled(e)
  BY <1>1, PolledStep
<1>2. CASE lost[e] # {}
  BY <1>2, LostGrows DEF Held
<1>3. CASE Waiting(e) \/ Working(e) \/ e \in rows
  <2>1. Kept(e, WorkerPc, Reason) /\ Keeps(e, WorkerPc, Reason)
    BY <1>3, WorkingAt DEF Kept, Keeps, Fatal, Reason
  <2>2. Kept(e, WorkerPc, Reason)'
    BY <2>1, KeptStep
  <2>3. At(e, WorkerPc)' => Working(e)'
    BY DEF At, Working
  <2>. QED BY <2>2, <2>3 DEF Kept, Held
<1>. QED BY <1>1, <1>2, <1>3 DEF Held

\* Only the cursor write brings a message under the cursor, and it puts the
\* message it stops at in the hands of the enqueueing loop.
LEMMA AccountedStep == TypeOK /\ Accounted /\ [Next]_vars => Accounted'
<1>. SUFFICES ASSUME TypeOK, Accounted, [Next]_vars, NEW e \in Events, e <= cursor'
              PROVE  Held(e)'
  BY DEF Accounted, Held
<1>1. CASE e <= cursor
  BY <1>1, HeldStep DEF Accounted, Held
<1>2. CASE ~(e <= cursor)
  <2>1. PersistCursor
    BY <1>2 DEF Next, vars, PollStep, Post, PollFetch, PersistFails, EnqueueNext, PushFails,
         EnqueueFails, PollDone, TakeJob, ProcessStep, FindChat, TouchChat, CreateChat,
         CreateChatFails, FindMessage, InsertMessage, JobError, Crash
  <2>2. PICK o \in poll.todo : /\ Oldest(poll.todo, o)
                              /\ cursor' = o
                              /\ Lose({x \in Events : cursor < x /\ x < o}, "skipped")
    BY <2>1 DEF PersistCursor
  <2>3. CASE e = o
    BY <2>1, <2>3 DEF PersistCursor, Held, Polled, TypeOK
  <2>4. CASE e # o
    <3>1. cursor < e /\ e < o
      BY <1>2, <2>2, <2>4 DEF TypeOK, Events
    <3>2. "skipped" \in lost'[e]
      BY <2>2, <3>1, LoseGrows
    <3>. QED BY <3>2 DEF Held
  <2>. QED BY <2>3, <2>4
<1>. QED BY <1>1, <1>2

\* The order of the poll (persist the cursor, then enqueue) loses a message only
\* through one of the named failures, whatever crashes, retries and duplicate
\* jobs occur and however many messages and workers there are.
THEOREM AccountedAlways == Spec => []Accounted
<1>1. Init => Accounted
  BY ConstantsAssumption DEF Init, Accounted, Events
<1>. QED BY <1>1, TypeCorrect, AccountedStep, PTL DEF Spec

-----------------------------------------------------------------------------
(* PushedIsKept: what the clients were told of is not dropped silently.     *)

JobReasons == {"chatRace", "jobError", "stalledTwice"}

\* In terms of what keeps a message.
LEMMA PushedIsKeptAs ==
  ASSUME TypeOK
  PROVE  PushedIsKept <=> \A e \in pushed : Kept(e, WorkerPc, JobReasons)
BY WorkingAt DEF PushedIsKept, Kept, JobReasons

\* Only a step that adds the job of a message announces it.
LEMMA PushedIsKeptStep == TypeOK /\ PushedIsKept /\ [Next]_vars => PushedIsKept'
<1>. SUFFICES ASSUME TypeOK, PushedIsKept, [Next]_vars, NEW e \in pushed'
              PROVE  Kept(e, WorkerPc, JobReasons)'
  BY DEF PushedIsKept, Kept, At, Working, JobReasons
<1>0. e \in Events
  <2>1. pushed' \subseteq pushed \cup Events
    <3>1. ASSUME NEW w \in Workers, ProcessStep(w) PROVE UNCHANGED pushed
      BY <3>1, ProcessFacts
    <3>2. CASE EnqueueNext
      BY <3>2 DEF EnqueueNext, TypeOK
    <3>. QED BY <3>1, <3>2 DEF Next, vars, PollStep, Post, PollFetch, PersistCursor,
                   PersistFails, PushFails, EnqueueFails, PollDone, TakeJob, JobError, Crash
  <2>. QED BY <2>1 DEF TypeOK
<1>1. CASE e \in pushed
  <2>1. Kept(e, WorkerPc, JobReasons)
    BY <1>1, PushedIsKeptAs
  <2>2. Keeps(e, WorkerPc, JobReasons)
    BY DEF Keeps, Fatal, JobReasons
  <2>. QED BY <1>0, <2>1, <2>2, KeptStep
<1>2. CASE e \notin pushed
  <2>1. ASSUME NEW w \in Workers, ProcessStep(w) PROVE UNCHANGED pushed
    BY <2>1, ProcessFacts
  <2>2. EnqueueNext
    BY <1>2, <2>1 DEF Next, vars, PollStep, Post, PollFetch, PersistCursor, PersistFails,
         PushFails, EnqueueFails, PollDone, TakeJob, JobError, Crash
  <2>3. PICK n \in poll.todo : /\ queue' = [queue EXCEPT ![Fresh(n)] = @ + 1]
                              /\ pushed' = IF n \in rows THEN pushed ELSE pushed \cup {n}
    BY <2>2 DEF EnqueueNext
  <2>4. n = e /\ n \in Events
    BY <1>2, <2>3 DEF TypeOK
  <2>. QED BY <2>3, <2>4, EnqueueFacts DEF Kept
<1>. QED BY <1>1, <1>2

\* The clients are told of a message before it is stored, but whatever happens
\* then, the message is stored, or processing it is what failed.
THEOREM PushedAlwaysKept == Spec => []PushedIsKept
<1>1. Init => PushedIsKept
  BY DEF Init, PushedIsKept
<1>. QED BY <1>1, TypeCorrect, PushedIsKeptStep, PTL DEF Spec

-----------------------------------------------------------------------------
(* StoredInChat: rows, and the jobs about to write them, have their         *)
(* conversation.                                                            *)

AfterChat == {"touchChat", "findMessage", "insert"}
ChatFirst ==
  /\ StoredInChat
  /\ \A w \in Workers : worker[w].pc \in AfterChat => ChatAt(w) \in chats

\* Conversations are never removed, and a job only gets past their creation when
\* its conversation is there.
LEMMA ChatFirstStep == TypeOK /\ ChatFirst /\ [Next]_vars => ChatFirst'
<1>. SUFFICES ASSUME TypeOK, ChatFirst, [Next]_vars PROVE ChatFirst'
  OBVIOUS
<1>1. CASE UNCHANGED <<worker, chats, preview, rows>>
  BY <1>1 DEF ChatFirst, StoredInChat, ChatAt, EventAt
<1>2. CASE \/ Post \/ PollFetch \/ PersistCursor \/ PersistFails \/ EnqueueNext
           \/ PushFails \/ EnqueueFails \/ PollDone \/ UNCHANGED vars
  BY <1>1, <1>2 DEF Post, PollFetch, PersistCursor, PersistFails, EnqueueNext, PushFails,
       EnqueueFails, PollDone, vars
<1>3. ASSUME NEW w \in Workers, NEW j \in Job, TakeJob(w, j) PROVE ChatFirst'
  <2>0. worker'[w] = [pc |-> "findChat", job |-> j]
    BY <1>3, TakeFacts
  <2>1. worker'[w].pc = "findChat"
    BY <2>0
  <2>2. \A v \in Workers : v # w => worker'[v] = worker[v]
    BY <1>3, TakeFacts
  <2>3. UNCHANGED <<chats, preview, rows>>
    BY <1>3 DEF TakeJob
  <2>. QED BY <2>1, <2>2, <2>3 DEF ChatFirst, StoredInChat, AfterChat, ChatAt, EventAt
<1>4. ASSUME NEW w \in Workers, Finish(w), UNCHANGED <<chats, preview, rows>> PROVE ChatFirst'
  <2>1. worker'[w].pc \notin AfterChat
    BY <1>4 DEF Finish, TypeOK, Idle, AfterChat
  <2>2. \A v \in Workers : v # w => worker'[v] = worker[v]
    BY <1>4, OthersKept
  <2>. QED BY <1>4, <2>1, <2>2 DEF ChatFirst, StoredInChat, ChatAt, EventAt
<1>5. CASE Crash
  <2>1. \A w \in Workers : worker'[w].pc \notin AfterChat
    BY <1>5 DEF Crash, Idle, AfterChat
  <2>. QED BY <1>5, <2>1 DEF Crash, ChatFirst, StoredInChat
<1>6. ASSUME NEW w \in Workers, ProcessStep(w) PROVE ChatFirst'
  <2>1. /\ Busy(w) /\ EventAt(w) \in Events /\ ChatAt(w) \in Chats
        /\ EventAt(w) # 0 /\ ChatAt(w) = ChatOf[EventAt(w)]
    BY <1>6, ProcessFacts, WorkerFacts, ConstantsAssumption DEF Events, ChatAt
  <2>2. ASSUME NEW pc \in WorkerPc, Goto(w, pc), chats \subseteq chats',
               pc \in AfterChat => ChatAt(w) \in chats', StoredInChat'
        PROVE  ChatFirst'
    <3>1. worker'[w].job = worker[w].job /\ worker'[w].pc = pc
      BY <2>1, <2>2, OwnKept
    <3>2. \A v \in Workers : v # w => worker'[v] = worker[v]
      BY <2>2, OthersKept
    <3>. QED BY <2>2, <3>1, <3>2 DEF ChatFirst, ChatAt, EventAt
  <2>3. CASE FindChat(w)
    BY <2>2, <2>3 DEF FindChat, ChatFirst, StoredInChat, WorkerPc, AfterChat
  <2>4. CASE TouchChat(w)
    <3>1. ChatAt(w) \in chats /\ preview' = [preview EXCEPT ![ChatAt(w)] = EventAt(w)]
      BY <2>4 DEF TouchChat, ChatFirst, AfterChat
    <3>2. StoredInChat'
      BY <2>1, <2>4, <3>1 DEF TouchChat, ChatFirst, StoredInChat, TypeOK
    <3>. QED BY <2>2, <2>4, <3>1, <3>2 DEF TouchChat, WorkerPc
  <2>5. CASE CreateChat(w)
    <3>1. StoredInChat'
      BY <2>1, <2>5 DEF CreateChat, ChatFirst, StoredInChat, TypeOK
    <3>. QED BY <2>2, <2>5, <3>1 DEF CreateChat, WorkerPc
  <2>6. CASE CreateChatFails(w)
    BY <1>4, <2>6 DEF CreateChatFails
  <2>7. CASE FindMessage(w)
    <3>1. ChatAt(w) \in chats
      BY <2>7 DEF FindMessage, ChatFirst, AfterChat
    <3>2. CASE EventAt(w) \in rows
      BY <1>4, <2>7, <3>2 DEF FindMessage
    <3>3. CASE EventAt(w) \notin rows
      BY <2>2, <2>7, <3>1, <3>3 DEF FindMessage, ChatFirst, StoredInChat, WorkerPc
    <3>. QED BY <3>2, <3>3
  <2>8. CASE InsertMessage(w)
    <3>1. ChatAt(w) \in chats
      BY <2>8 DEF InsertMessage, ChatFirst, AfterChat
    <3>2. StoredInChat'
      BY <2>1, <2>8, <3>1 DEF InsertMessage, ChatFirst, StoredInChat
    <3>3. worker'[w].pc \notin AfterChat /\ \A v \in Workers : v # w => worker'[v] = worker[v]
      BY <2>8, OthersKept DEF InsertMessage, Finish, TypeOK, Idle, AfterChat
    <3>. QED BY <2>8, <3>2, <3>3 DEF InsertMessage, ChatFirst, ChatAt, EventAt
  <2>. QED BY <1>6, <2>3, <2>4, <2>5, <2>6, <2>7, <2>8 DEF ProcessStep
<1>7. ASSUME NEW w \in Workers, JobError(w) PROVE ChatFirst'
  BY <1>4, <1>7 DEF JobError
<1>. QED BY <1>2, <1>3, <1>5, <1>6, <1>7 DEF Next, PollStep

\* The first state has no rows and no jobs.
LEMMA ChatFirstInit == Init => ChatFirst
BY DEF Init, ChatFirst, StoredInChat, Idle, AfterChat

\* No message is stored without its conversation, and the preview of a
\* conversation is one of its own messages, under any concurrency of workers.
THEOREM StoredAlwaysInChat == Spec => []StoredInChat
<1>1. ChatFirst => StoredInChat
  BY DEF ChatFirst
<1>. QED BY <1>1, ChatFirstInit, ChatFirstStep, TypeCorrect, PTL DEF Spec

-----------------------------------------------------------------------------
(* The ledger, the cursor and the race *)

\* A page that was fetched and not yet persisted lies above the cursor.
PageAhead == poll.pc = "fetched" => \A e \in poll.todo : cursor < e

\* Only a poll reads a page and only a poll moves the cursor.
LEMMA PageAheadStep == TypeOK /\ PageAhead /\ [Next]_vars => PageAhead'
<1>. SUFFICES ASSUME TypeOK, PageAhead, [Next]_vars PROVE PageAhead'
  OBVIOUS
<1>1. CASE UNCHANGED <<cursor, poll>>
  BY <1>1 DEF PageAhead
<1>2. CASE PollFetch
  BY <1>2 DEF PollFetch, PageAhead, Page
<1>3. CASE PersistCursor \/ PersistFails \/ EnqueueNext \/ PushFails \/ EnqueueFails \/ PollDone \/ Crash
  <2>1. poll'.pc # "fetched"
    <3>1. CASE PersistCursor
      BY <3>1 DEF PersistCursor, TypeOK
    <3>2. CASE EnqueueNext \/ PushFails \/ EnqueueFails
      BY <3>2 DEF EnqueueNext, PushFails, EnqueueFails, TypeOK
    <3>3. CASE PersistFails \/ PollDone \/ Crash
      BY <3>3 DEF PersistFails, PollDone, Crash, Resting
    <3>. QED BY <1>3, <3>1, <3>2, <3>3
  <2>. QED BY <2>1 DEF PageAhead
<1>4. ASSUME NEW w \in Workers, ProcessStep(w) PROVE UNCHANGED <<cursor, poll>>
  BY <1>4, ProcessFacts
<1>5. CASE Post \/ UNCHANGED vars \/ \E w \in Workers : (\E j \in Job : TakeJob(w, j)) \/ JobError(w)
  BY <1>1, <1>5 DEF Post, vars, TakeJob, JobError
<1>. QED BY <1>1, <1>2, <1>3, <1>4, <1>5 DEF Next, PollStep

\* What persisting the cursor does.
LEMMA PersistFacts ==
  ASSUME TypeOK, PageAhead, PersistCursor
  PROVE  \E o \in Events :
           /\ o \in poll.todo /\ cursor < o /\ cursor' = o
           /\ \A e \in Events : cursor < e /\ e < o => "skipped" \in lost'[e]
           /\ \A e \in Events : ~(cursor < e /\ e < o) => lost'[e] = lost[e]
           /\ \A e \in Events : Polled(e)' <=> e \in poll.todo
           /\ UNCHANGED <<queue, worker, rows>>
<1>1. PICK o \in poll.todo : /\ Oldest(poll.todo, o)
                            /\ cursor' = o
                            /\ Lose({e \in Events : cursor < e /\ e < o}, "skipped")
  BY DEF PersistCursor
<1>2. o \in Events /\ cursor < o
  BY DEF TypeOK, PageAhead, PersistCursor
<1>3. \A e \in Events : Polled(e)' <=> e \in poll.todo
  BY DEF PersistCursor, Polled, TypeOK
<1>4. \A e \in Events : /\ cursor < e /\ e < o => "skipped" \in lost'[e]
                        /\ ~(cursor < e /\ e < o) => lost'[e] = lost[e]
  BY <1>1, LoseGrows
<1>5. UNCHANGED <<queue, worker, rows>>
  BY DEF PersistCursor
<1>. QED BY <1>1, <1>2, <1>3, <1>4, <1>5

\* Every other step leaves the cursor.
LEMMA CursorKept ==
  ASSUME TypeOK, [Next]_vars, ~PersistCursor
  PROVE  UNCHANGED cursor
<1>1. ASSUME NEW w \in Workers, ProcessStep(w) PROVE UNCHANGED cursor
  BY <1>1, ProcessFacts
<1>. QED BY <1>1 DEF Next, PollStep, vars, Post, PollFetch, PersistFails, EnqueueNext, PushFails,
              EnqueueFails, PollDone, TakeJob, JobError, Crash

\* Persisting the cursor moves it up to an event that is then being enqueued.
LEMMA CursorAdvancesStep == TypeOK /\ PageAhead /\ [Next]_vars =>
  /\ cursor <= cursor'
  /\ \A e \in Events : cursor < e /\ e <= cursor' => Polled(e)' \/ "skipped" \in lost'[e]
<1>. SUFFICES ASSUME TypeOK, PageAhead, [Next]_vars
              PROVE  /\ cursor <= cursor'
                     /\ \A e \in Events : cursor < e /\ e <= cursor' => Polled(e)' \/ "skipped" \in lost'[e]
  OBVIOUS
<1>0. cursor \in Nat
  BY ConstantsAssumption DEF TypeOK
<1>1. CASE PersistCursor
  <2>. PICK o \in Events : /\ o \in poll.todo /\ cursor < o /\ cursor' = o
                           /\ \A e \in Events : cursor < e /\ e < o => "skipped" \in lost'[e]
                           /\ \A e \in Events : Polled(e)' <=> e \in poll.todo
    BY <1>1, PersistFacts
  <2>. QED BY <1>0 DEF Events
<1>2. CASE ~PersistCursor
  BY <1>0, <1>2, CursorKept DEF Events
<1>. QED BY <1>1, <1>2

\* The first state has no page.
LEMMA PageAheadInit == Init => PageAhead
BY DEF Init, PageAhead, Resting

\* The cursor never moves back, and it passes a message only by handing it to
\* the enqueueing loop or by the one known gap, a page that starts above it.
THEOREM CursorOnlyAdvances == Spec => CursorAdvances
<1>1. TypeOK /\ PageAhead /\ [Next]_vars =>
        [/\ cursor <= cursor'
         /\ \A e \in Events : cursor < e /\ e <= cursor' => Polled(e)' \/ "skipped" \in lost'[e]]_vars
  BY CursorAdvancesStep
<1>2. Spec => []PageAhead
  BY PageAheadInit, PageAheadStep, TypeCorrect, PTL DEF Spec
<1>. QED BY <1>1, <1>2, TypeCorrect, PTL DEF Spec, CursorAdvances

-----------------------------------------------------------------------------
(* The refinement                                                           *)

\* Custody and what was given up only change hands as Drop allows.
DropLike ==
  /\ Custody' \subseteq Custody
  /\ \A e \in Events : lost[e] \subseteq lost'[e] /\ (lost'[e] = lost[e] \/ e \in Custody)
  /\ \A e \in Custody : e \in Custody' \/ e \in rows \/ lost'[e] # {}
  /\ UNCHANGED <<cursor, rows>>

\* Such a step is a Drop of the ledger.
LEMMA DropLikeDrops == DropLike => Ledger!Drop
BY DEF DropLike, Ledger!Drop, Abandoned, Custody

\* A step that stores nothing and leaves the cursor is a Drop if custody does not
\* grow and only messages in custody are given up; nothing held is forgotten.
LEMMA DropBy ==
  ASSUME TypeOK, [Next]_vars, UNCHANGED <<cursor, rows>>,
         Custody' \subseteq Custody,
         \A e \in Events : lost'[e] = lost[e] \/ e \in Custody
  PROVE  Ledger!Drop
<1>1. \A e \in Events : lost[e] \subseteq lost'[e]
  BY LostGrows
<1>2. ASSUME NEW e \in Custody PROVE e \in Custody' \/ e \in rows \/ lost'[e] # {}
  <2>1. e \in Events /\ Held(e)
    BY DEF Custody, Held
  <2>2. Held(e)'
    BY <2>1, HeldStep
  <2>. QED BY <2>1, <2>2 DEF Custody, Held
<1>. QED BY <1>1, <1>2, DropLikeDrops DEF DropLike

\* Persisting the cursor advances the mark over the page and the gap below it.
LEMMA PersistAdvances ==
  ASSUME TypeOK, PageAhead, PersistCursor
  PROVE  \E m \in Events : Ledger!Advance(m)
<1>. PICK o \in Events : /\ o \in poll.todo /\ cursor < o /\ cursor' = o
                         /\ \A e \in Events : cursor < e /\ e < o => "skipped" \in lost'[e]
                         /\ \A e \in Events : ~(cursor < e /\ e < o) => lost'[e] = lost[e]
                         /\ \A e \in Events : Polled(e)' <=> e \in poll.todo
                         /\ UNCHANGED <<queue, worker, rows>>
  BY PersistFacts
<1>. DEFINE missed == {e \in Events : cursor < e /\ e < o}
<1>1. poll.todo \in SUBSET Events /\ missed \in SUBSET Events
  BY DEF TypeOK
<1>2. {x \in Events : cursor < x /\ x <= o} \subseteq poll.todo \cup missed
  BY DEF Events
<1>3. \A e \in Events : ~Polled(e)
  BY DEF PersistCursor, Polled
<1>4. \A e \in Events : (Waiting(e)' <=> Waiting(e)) /\ (Working(e)' <=> Working(e))
  BY DEF Waiting, Working, EventAt, Busy
<1>5. Custody' = Custody \cup poll.todo
  BY <1>1, <1>3, <1>4 DEF Custody
<1>6. \A e \in Events : lost'[e] # {} <=> lost[e] # {} \/ e \in missed
  OBVIOUS
<1>7. Abandoned' = Abandoned \cup missed
  BY <1>6 DEF Abandoned
<1>. QED BY <1>1, <1>2, <1>5, <1>7 DEF Ledger!Advance

\* Storing a message ends at most the custody of its worker.
LEMMA InsertStores ==
  ASSUME TypeOK, NEW w \in Workers, InsertMessage(w)
  PROVE  \E x \in Events : Ledger!Store(x)
<1>. DEFINE x == EventAt(w)
<1>1. Busy(w) /\ x \in Events
  BY WorkerFacts DEF InsertMessage, WorkerPc
<1>2. x \in Custody
  BY <1>1 DEF Custody, Working
<1>3. \A v \in Workers : v # w => worker'[v] = worker[v]
  BY OthersKept DEF InsertMessage
<1>4. worker'[w] = Idle
  BY DEF InsertMessage, Finish, TypeOK
<1>5. \A e \in Events : (Working(e)' => Working(e)) /\ (e # x /\ Working(e) => Working(e)')
  BY <1>3, <1>4 DEF Working, EventAt, Busy
<1>6. \A e \in Events : (Polled(e)' <=> Polled(e)) /\ (Waiting(e)' <=> Waiting(e))
  BY DEF InsertMessage, Polled, Waiting
<1>7. Custody' \in {Custody, Custody \ {x}}
  BY <1>5, <1>6 DEF Custody
<1>8. rows' = rows \cup {x} /\ UNCHANGED <<cursor, lost>>
  BY DEF InsertMessage
<1>9. Abandoned' = Abandoned
  BY <1>8 DEF Abandoned
<1>. QED BY <1>1, <1>2, <1>7, <1>8, <1>9 DEF Ledger!Store

\* Every step of the ingestion is a step of the ledger or leaves it alone.
LEMMA LedgerStep == TypeOK /\ PageAhead /\ [Next]_vars => [Ledger!LedgerNext]_(Ledger!ledgerVars)
<1>. SUFFICES ASSUME TypeOK, PageAhead, [Next]_vars
              PROVE  Ledger!LedgerNext \/ UNCHANGED Ledger!ledgerVars
  OBVIOUS
<1>1. CASE PersistCursor
  BY <1>1, PersistAdvances DEF Ledger!LedgerNext
<1>2. CASE \E w \in Workers : InsertMessage(w)
  BY <1>2, InsertStores DEF Ledger!LedgerNext
<1>s. ASSUME UNCHANGED <<cursor, rows>>, Custody' \subseteq Custody,
             \A e \in Events : lost'[e] = lost[e] \/ e \in Custody
      PROVE  Ledger!LedgerNext
  BY <1>s, DropBy DEF Ledger!LedgerNext
<1>3. CASE Post \/ PollFetch \/ PersistFails \/ PollDone \/ UNCHANGED vars
  <2>1. UNCHANGED <<cursor, rows, lost, queue, worker>>
    BY <1>3 DEF Post, PollFetch, PersistFails, PollDone, vars
  <2>2. \A e \in Events : Polled(e)' <=> Polled(e)
    BY <1>3 DEF Post, PollFetch, PersistFails, PollDone, vars, Polled, Resting, TypeOK
  <2>3. \A e \in Events : (Waiting(e)' <=> Waiting(e)) /\ (Working(e)' <=> Working(e))
    BY <2>1 DEF Waiting, Working, EventAt, Busy
  <2>4. Custody' = Custody
    BY <2>2, <2>3 DEF Custody
  <2>. QED BY <1>s, <2>1, <2>4
<1>4. CASE EnqueueNext \/ PushFails
  <2>. PICK n \in poll.todo : /\ queue' = [queue EXCEPT ![Fresh(n)] = @ + 1]
                             /\ poll' = [poll EXCEPT !.todo = @ \ {n}]
    BY <1>4 DEF EnqueueNext, PushFails
  <2>1. n \in Events /\ Polled(n)
    BY <1>4 DEF TypeOK, Polled, EnqueueNext, PushFails
  <2>2. UNCHANGED <<cursor, rows, lost, worker>>
    BY <1>4 DEF EnqueueNext, PushFails
  <2>3. \A e \in Events : Polled(e)' => Polled(e)
    BY DEF Polled, TypeOK
  <2>4. \A e \in Events : (Waiting(e)' => Waiting(e) \/ Polled(e)) /\ (Working(e)' <=> Working(e))
    BY <2>1, <2>2, EnqueueFacts DEF Working, EventAt, Busy
  <2>5. Custody' \subseteq Custody
    BY <2>3, <2>4 DEF Custody
  <2>. QED BY <1>s, <2>2, <2>5
<1>5. CASE EnqueueFails
  <2>. PICK n \in poll.todo : /\ poll' = [poll EXCEPT !.todo = @ \ {n}]
                             /\ Lose({n}, "notEnqueued")
    BY <1>5 DEF EnqueueFails
  <2>1. n \in Events /\ Polled(n)
    BY <1>5 DEF TypeOK, Polled, EnqueueFails
  <2>2. UNCHANGED <<cursor, rows, queue, worker>>
    BY <1>5 DEF EnqueueFails
  <2>3. \A e \in Events : Polled(e)' => Polled(e)
    BY DEF Polled, TypeOK
  <2>4. \A e \in Events : (Waiting(e)' <=> Waiting(e)) /\ (Working(e)' <=> Working(e))
    BY <2>2 DEF Waiting, Working, EventAt, Busy
  <2>5. Custody' \subseteq Custody
    BY <2>3, <2>4 DEF Custody
  <2>6. \A e \in Events : lost'[e] = lost[e] \/ e \in Custody
    BY <2>1, LoseGrows DEF Custody
  <2>. QED BY <1>s, <2>2, <2>5, <2>6
<1>6. ASSUME NEW w \in Workers, NEW j \in Job, TakeJob(w, j) PROVE Ledger!LedgerNext
  <2>1. UNCHANGED <<cursor, rows, lost, poll>>
    BY <1>6 DEF TakeJob
  <2>2. \A e \in Events : Waiting(e)' => Waiting(e)
    <3>1. ASSUME NEW k \in Job, queue'[k] > 0 PROVE queue[k] > 0
      <4>1. k # j => queue'[k] = queue[k]
        BY <1>6, TakeFacts
      <4>. QED BY <1>6, <3>1, <4>1 DEF TakeJob
    <3>. QED BY <3>1 DEF Waiting
  <2>3. \A e \in Events : Working(e)' => Working(e) \/ Waiting(e)
    <3>0. worker'[w] = [pc |-> "findChat", job |-> j] /\ Waiting(j.ev)
      BY <1>6, TakeFacts
    <3>1. worker'[w].job = j
      BY <3>0
    <3>2. \A v \in Workers : v # w => worker'[v] = worker[v]
      BY <1>6, TakeFacts
    <3>. QED BY <3>0, <3>1, <3>2 DEF Working, EventAt, Busy
  <2>4. Custody' \subseteq Custody
    BY <2>1, <2>2, <2>3 DEF Custody, Polled
  <2>. QED BY <1>s, <2>1, <2>4
<1>7. ASSUME NEW w \in Workers, ProcessStep(w) \/ JobError(w), ~InsertMessage(w)
      PROVE  Ledger!LedgerNext
  <2>1. UNCHANGED <<cursor, rows, poll, queue>>
    <3>1. CASE JobError(w)
      BY <3>1 DEF JobError
    <3>2. CASE ProcessStep(w)
      BY <1>7, <3>2 DEF ProcessStep, FindChat, TouchChat, CreateChat, CreateChatFails, FindMessage
    <3>. QED BY <1>7, <3>1, <3>2
  <2>2. /\ Busy(w) /\ EventAt(w) \in Events
        /\ Finish(w) \/ \E pc \in WorkerPc : Goto(w, pc)
    BY <1>7, ProcessFacts, WorkerFacts DEF JobError
  <2>3. \A v \in Workers : v # w => worker'[v] = worker[v]
    BY <2>2, OthersKept
  <2>4. Busy(w)' => worker'[w].job = worker[w].job
    <3>1. Finish(w) => ~Busy(w)'
      BY DEF Finish, TypeOK, Busy
    <3>. QED BY <2>2, <3>1, OwnKept
  <2>5. \A e \in Events : Working(e)' => Working(e)
    <3>. SUFFICES ASSUME NEW e \in Events, NEW v \in Workers, Busy(v)', worker'[v].job.ev = e
                  PROVE  Working(e)
      BY DEF Working, EventAt
    <3>1. CASE v = w
      BY <2>2, <2>4, <3>1 DEF Working, EventAt
    <3>2. CASE v # w
      BY <2>3, <3>2 DEF Working, EventAt, Busy
    <3>. QED BY <3>1, <3>2
  <2>6. Custody' \subseteq Custody
    BY <2>1, <2>5 DEF Custody, Polled, Waiting
  <2>7. EventAt(w) \in Custody
    BY <2>2 DEF Custody, Working
  <2>8. \A e \in Events : lost'[e] = lost[e] \/ e = EventAt(w)
    <3>1. CASE JobError(w)
      BY <3>1, LoseGrows DEF JobError
    <3>2. CASE CreateChatFails(w)
      BY <3>2, LoseGrows DEF CreateChatFails
    <3>3. CASE ProcessStep(w) /\ ~CreateChatFails(w)
      BY <3>3, ProcessFacts
    <3>. QED BY <1>7, <3>1, <3>2, <3>3
  <2>. QED BY <1>s, <2>1, <2>6, <2>7, <2>8
<1>8. CASE Crash
  <2>1. \A e \in Events : ~Polled(e)'
    BY <1>8 DEF Crash, Polled, Resting
  <2>2. Custody' \subseteq Custody
    BY <1>8, <2>1, CrashFacts DEF Custody
  <2>3. ASSUME NEW e \in Events PROVE lost'[e] = lost[e] \/ e \in Custody
    <3>1. lost'[e] = lost[e] \/ Polled(e) \/ \E w \in Workers : Busy(w) /\ worker[w].job.ev = e
      BY <1>8 DEF Crash, Polled
    <3>. QED BY <3>1 DEF Custody, Working, EventAt
  <2>. QED BY <1>s, <1>8, <2>2, <2>3 DEF Crash
<1>. QED
  BY <1>1, <1>2, <1>3, <1>4, <1>5, <1>6, <1>7, <1>8 DEF Next, PollStep

\* The first state is the empty ledger.
LEMMA LedgerStart == Init => Ledger!LedgerInit
<1>. SUFFICES ASSUME Init PROVE Ledger!LedgerInit
  OBVIOUS
<1>1. Custody = {}
  BY DEF Init, Custody, Polled, Waiting, Working, Busy, Resting
<1>2. Abandoned = {}
  BY DEF Init, Abandoned
<1>. QED BY <1>1, <1>2 DEF Init, Ledger!LedgerInit

\* Polling, queueing, concurrent workers, retries and crashes implement the
\* ledger: a message is only stored out of custody, and custody ends only with
\* the message stored or given up.
THEOREM IngestImplementsLedger == Spec => ImplementsLedger
<1>1. Spec => []PageAhead
  BY PageAheadInit, PageAheadStep, TypeCorrect, PTL DEF Spec
<1>. QED BY <1>1, LedgerStart, LedgerStep, TypeCorrect, PTL
     DEF Spec, ImplementsLedger, Ledger!LedgerSpec

-----------------------------------------------------------------------------
(* RaceHasWinner: a conversation that exists has a message that cannot lose *)
(* the race for creating it.                                                *)

Winner(f) == Kept(f, PastCreation, Fatal)
ChatsHaveWinners ==
  /\ \A c \in chats : \E f \in Events : ChatOf[f] = c /\ Winner(f)
  /\ \A e \in Events : "chatRace" \in lost[e] => ChatOf[e] \in chats

\* A winner stays one, a conversation is created by a job that becomes one, and
\* the race is only lost for a conversation that exists.
LEMMA WinnersStep == TypeOK /\ ChatsHaveWinners /\ [Next]_vars => ChatsHaveWinners'
<1>. SUFFICES ASSUME TypeOK, ChatsHaveWinners, [Next]_vars PROVE ChatsHaveWinners'
  OBVIOUS
<1>1. ASSUME NEW f \in Events, ChatOf[f] \in chats, Winner(f) PROVE Winner(f)'
  <2>1. Keeps(f, PastCreation, Fatal)
    BY <1>1 DEF Keeps
  <2>. QED BY <1>1, <2>1, KeptStep DEF Winner
<1>2. chats \subseteq chats'
  <2>1. ASSUME NEW w \in Workers, ProcessStep(w) PROVE chats \subseteq chats'
    BY <2>1, ProcessFacts
  <2>. QED BY <2>1 DEF Next, PollStep, vars, Post, PollFetch, PersistCursor, PersistFails,
             EnqueueNext, PushFails, EnqueueFails, PollDone, TakeJob, JobError, Crash
<1>3. ASSUME NEW c \in chats', c \notin chats
      PROVE  \E f \in Events : ChatOf[f] = c /\ Winner(f)'
  <2>1. PICK w \in Workers : CreateChat(w)
    <3>1. ASSUME NEW w \in Workers, ProcessStep(w), ~CreateChat(w) PROVE UNCHANGED chats
      BY <3>1 DEF ProcessStep, FindChat, TouchChat, CreateChatFails, FindMessage, InsertMessage
    <3>2. \/ \E w \in Workers : ProcessStep(w)
          \/ UNCHANGED chats
      BY DEF Next, PollStep, vars, Post, PollFetch, PersistCursor, PersistFails,
             EnqueueNext, PushFails, EnqueueFails, PollDone, TakeJob, JobError, Crash
    <3>. QED BY <1>3, <3>1, <3>2
  <2>2. c = ChatAt(w) /\ Goto(w, "findMessage")
    BY <1>3, <2>1 DEF CreateChat
  <2>3. Busy(w) /\ EventAt(w) \in Events
    BY <2>1, WorkerFacts DEF CreateChat, WorkerPc
  <2>4. Busy(w)' /\ worker'[w].job = worker[w].job /\ worker'[w].pc = "findMessage"
    BY <2>2, <2>3, OwnKept DEF WorkerPc
  <2>. PICK f \in Events : f = EventAt(w)
    BY <2>3
  <2>5. At(f, PastCreation)'
    BY <2>4 DEF At, EventAt, PastCreation, WorkerPc
  <2>6. ChatOf[f] = c
    BY <2>2 DEF ChatAt
  <2>. QED BY <2>5, <2>6 DEF Winner, Kept
<1>4. ASSUME NEW e \in Events, "chatRace" \in lost'[e], "chatRace" \notin lost[e]
      PROVE  ChatOf[e] \in chats
  <2>1. PICK w \in Workers : CreateChatFails(w)
    <3>1. ASSUME NEW w \in Workers, ProcessStep(w), ~CreateChatFails(w) PROVE UNCHANGED lost
      BY <3>1, ProcessFacts
    <3>a. ASSUME NEW S, NEW why, Lose(S, why), why # "chatRace" PROVE FALSE
      <4>1. lost'[e] \subseteq lost[e] \cup {why}
        BY <3>a, LoseGrows
      <4>. QED BY <1>4, <3>a, <4>1
    <3>2. ~(PersistCursor \/ EnqueueFails \/ \E w \in Workers : JobError(w))
      BY <3>a DEF PersistCursor, EnqueueFails, JobError
    <3>3. ~Crash
      <4>. SUFFICES ASSUME Crash PROVE FALSE
        OBVIOUS
      <4>1. lost'[e] \subseteq lost[e] \cup {"pollCrash", "stalledTwice"}
        BY DEF Crash
      <4>. QED BY <1>4, <4>1
    <3>. QED BY <1>4, <3>1, <3>2, <3>3 DEF Next, PollStep, vars, Post, PollFetch, PersistFails,
               EnqueueNext, PushFails, PollDone, TakeJob
  <2>2. ChatAt(w) \in chats /\ Lose({EventAt(w)}, "chatRace")
    BY <2>1 DEF CreateChatFails
  <2>3. e = EventAt(w)
    BY <1>4, <2>2, LoseGrows
  <2>. QED BY <2>2, <2>3 DEF ChatAt
<1>5. ASSUME NEW c \in chats' PROVE \E f \in Events : ChatOf[f] = c /\ Winner(f)'
  BY <1>1, <1>3, <1>5 DEF ChatsHaveWinners
<1>6. ASSUME NEW e \in Events, "chatRace" \in lost'[e] PROVE ChatOf[e] \in chats'
  BY <1>2, <1>4, <1>6 DEF ChatsHaveWinners
<1>. QED BY <1>5, <1>6 DEF ChatsHaveWinners

\* Two jobs that race to create a conversation cost at most one of the two
\* messages: the conversation has another message that is stored, on its way, or
\* was abandoned by a different failure.
THEOREM RaceAlwaysHasWinner == Spec => []RaceHasWinner
<1>1. Init => ChatsHaveWinners
  BY DEF Init, ChatsHaveWinners
<1>2. TypeOK /\ ChatsHaveWinners => RaceHasWinner
  <2>. SUFFICES ASSUME TypeOK, ChatsHaveWinners, NEW e \in Events, "chatRace" \in lost[e]
                PROVE  \E f \in Events :
                         /\ ChatOf[f] = ChatOf[e]
                         /\ \/ f \in rows \/ Working(f) \/ Waiting(f)
                            \/ lost[f] \cap {"jobError", "stalledTwice"} # {}
    BY DEF RaceHasWinner
  <2>1. PICK f \in Events : ChatOf[f] = ChatOf[e] /\ Winner(f)
    BY DEF ChatsHaveWinners
  <2>. QED BY <2>1 DEF Winner, Kept, At, Working, Fatal
<1>. QED BY <1>1, <1>2, WinnersStep, TypeCorrect, PTL DEF Spec
=============================================================================
