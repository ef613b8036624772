--------------------------- MODULE MessageIngest ---------------------------
(***************************************************************************)
(* How a direct message of one polled (non-email) account reaches the      *)
(* database: XProvider.poll reads a page of events from the platform,      *)
(* PollProcessor persists the account's cursor and then enqueues one       *)
(* save-message job per event, and the MessageProcessor workers turn each  *)
(* job into a conversation row and a message row.                          *)
(*                                                                         *)
(* Events are numbered in the order the platform received them, 1..posted. *)
(* Every await that reaches Redis or PostgreSQL is one atomic step; the    *)
(* code between two awaits belongs to the step that follows.               *)
(***************************************************************************)
EXTENDS Naturals, FiniteSets

CONSTANTS
  MaxEvent,     \* bound: events the platform ever receives
  PageSize,     \* events in one answer of the platform (max_results)
  Chats,        \* conversations of the account
  ChatOf,       \* the conversation of each event
  Workers,      \* concurrent MessageProcessor jobs
  MaxCopies,    \* bound: waiting jobs with the same payload
  MaxMishaps    \* bound: crashes and failed writes

Events == 1 .. MaxEvent

ASSUME ConstantsAssumption ==
  /\ MaxEvent \in Nat
  /\ PageSize \in Nat \ {0}
  /\ ChatOf \in [Events -> Chats]
  /\ MaxCopies \in Nat \ {0}
  /\ MaxMishaps \in Nat
  /\ IsFiniteSet(Workers)

VARIABLES
  posted,    \* number of events the platform holds
  cursor,    \* connected_accounts.cursor.since_id; 0 when null
  poll,      \* the running poll job: its step and the events still to enqueue
  queue,     \* waiting save-message jobs, as a bag
  worker,    \* what each MessageProcessor job is doing
  chats,     \* conversation rows; (platform, external_id) is unique
  preview,   \* conversations.text: the event it was last taken from, or 0
  rows,      \* message rows; (external_message_id, conversation_id) is unique
  pushed,    \* events announced to the clients on the messaging channel
  lost,      \* history: why a copy of an event was abandoned
  mishaps

vars == <<posted, cursor, poll, queue, worker, chats, preview, rows, pushed, lost, mishaps>>

(***************************************************************************)
(* A job carries the event and BullMQ's stalled count: a job found active  *)
(* after a crash is handed out once more, the second time it is failed.    *)
(***************************************************************************)
Job == [ev : Events, stalled : BOOLEAN]
Fresh(e) == [ev |-> e, stalled |-> FALSE]

Reason == {"skipped", "notEnqueued", "pollCrash", "chatRace", "jobError", "stalledTwice"}

WorkerPc == {"findChat", "touchChat", "createChat", "findMessage", "insert"}
Idle == [pc |-> "idle"]
WorkerState == {Idle} \cup [pc : WorkerPc, job : Job]
Busy(w) == worker[w] # Idle
EventAt(w) == worker[w].job.ev
ChatAt(w) == ChatOf[EventAt(w)]

Resting == [pc |-> "idle", todo |-> {}]
PollPc == {"idle", "fetched", "enqueue"}

TypeOK ==
  /\ posted \in 0 .. MaxEvent
  /\ cursor \in 0 .. MaxEvent
  /\ poll \in [pc : PollPc, todo : SUBSET Events]
  /\ queue \in [Job -> 0 .. MaxCopies]
  /\ worker \in [Workers -> WorkerState]
  /\ chats \in SUBSET Chats
  /\ preview \in [Chats -> 0 .. MaxEvent]
  /\ rows \in SUBSET Events
  /\ pushed \in SUBSET Events
  /\ lost \in [Events -> SUBSET Reason]
  /\ mishaps \in 0 .. MaxMishaps

Init ==
  /\ posted = 0
  /\ cursor = 0
  /\ poll = Resting
  /\ queue = [j \in Job |-> 0]
  /\ worker = [w \in Workers |-> Idle]
  /\ chats = {}
  /\ preview = [c \in Chats |-> 0]
  /\ rows = {}
  /\ pushed = {}
  /\ lost = [e \in Events |-> {}]
  /\ mishaps = 0

Lose(S, why) == lost' = [e \in Events |-> IF e \in S THEN lost[e] \cup {why} ELSE lost[e]]
Mishap == mishaps < MaxMishaps /\ mishaps' = mishaps + 1

-----------------------------------------------------------------------------
(* The platform and the poll job *)

Post ==
  /\ posted < MaxEvent
  /\ posted' = posted + 1
  /\ UNCHANGED <<cursor, poll, queue, worker, chats, preview, rows, pushed, lost, mishaps>>

\* Mutant: the newest event is left out.
PageWithoutNewest == {e \in Events : cursor < e /\ e < posted /\ posted < e + PageSize}

\* The newest PageSize events after the cursor (the platform lists newest first).
Page == {e \in Events : cursor < e /\ e <= posted /\ posted < e + PageSize}

\* Bound: a poll starts only while each of its events may be queued once more.
RoomFor(S) == \A e \in S : queue[Fresh(e)] < MaxCopies

PollFetch ==
  /\ poll.pc = "idle"
  /\ Page # {}
  /\ RoomFor(Page)
  /\ poll' = [pc |-> "fetched", todo |-> Page]
  /\ UNCHANGED <<posted, cursor, queue, worker, chats, preview, rows, pushed, lost, mishaps>>

\* nextCursor is the id of the last element of the answer, i.e. its oldest event.
Oldest(S, o) == o \in S /\ \A e \in S : o <= e
Newest(S, n) == n \in S /\ \A e \in S : e <= n

\* Mutant: the cursor is written as the id after the oldest event.
PersistCursorPast ==
  /\ poll.pc = "fetched"
  /\ \E o \in poll.todo :
       /\ Oldest(poll.todo, o)
       /\ cursor' = o + 1
       /\ Lose({e \in Events : cursor < e /\ e < o}, "skipped")
  /\ poll' = [poll EXCEPT !.pc = "enqueue"]
  /\ UNCHANGED <<posted, queue, worker, chats, preview, rows, pushed, mishaps>>

\* updateAccountAfterPoll: the cursor is written before anything is enqueued.
\* The events between the old cursor and the page were never read.
PersistCursor ==
  /\ poll.pc = "fetched"
  /\ \E o \in poll.todo :
       /\ Oldest(poll.todo, o)
       /\ cursor' = o
       /\ Lose({e \in Events : cursor < e /\ e < o}, "skipped")
  /\ poll' = [poll EXCEPT !.pc = "enqueue"]
  /\ UNCHANGED <<posted, queue, worker, chats, preview, rows, pushed, mishaps>>

\* The write of the cursor fails: the job throws and a later attempt starts over.
PersistFails ==
  /\ poll.pc = "fetched"
  /\ Mishap
  /\ poll' = Resting
  /\ UNCHANGED <<posted, cursor, queue, worker, chats, preview, rows, pushed, lost>>

\* Mutant: the loop returns after its first message.
EnqueueOnlyOne ==
  /\ poll.pc = "enqueue"
  /\ \E e \in poll.todo :
       /\ Newest(poll.todo, e)
       /\ queue[Fresh(e)] < MaxCopies
       /\ queue' = [queue EXCEPT ![Fresh(e)] = @ + 1]
       /\ poll' = [poll EXCEPT !.todo = {}]
       /\ pushed' = IF e \in rows THEN pushed ELSE pushed \cup {e}
  /\ UNCHANGED <<posted, cursor, worker, chats, preview, rows, lost, mishaps>>

\* handlePolledMessages walks the answer in its order, newest first.  An event
\* with no row yet is announced to the clients once its job is in the queue.  The
\* look-up, the enqueue and the announcement are one step: a row stored in between
\* is announced once more.
EnqueueNext ==
  /\ poll.pc = "enqueue"
  /\ \E e \in poll.todo :
       /\ Newest(poll.todo, e)
       /\ queue[Fresh(e)] < MaxCopies
       /\ queue' = [queue EXCEPT ![Fresh(e)] = @ + 1]
       /\ poll' = [poll EXCEPT !.todo = @ \ {e}]
       /\ pushed' = IF e \in rows THEN pushed ELSE pushed \cup {e}
  /\ UNCHANGED <<posted, cursor, worker, chats, preview, rows, lost, mishaps>>

\* The announcement fails after the job was added: caught by the same handler.
PushFails ==
  /\ poll.pc = "enqueue"
  /\ Mishap
  /\ \E e \in poll.todo \ rows :
       /\ Newest(poll.todo, e)
       /\ queue[Fresh(e)] < MaxCopies
       /\ queue' = [queue EXCEPT ![Fresh(e)] = @ + 1]
       /\ poll' = [poll EXCEPT !.todo = @ \ {e}]
  /\ UNCHANGED <<posted, cursor, worker, chats, preview, rows, pushed, lost>>

\* Mutant: the clients are told before queue.add is tried.
EnqueueFailsTold ==
  /\ poll.pc = "enqueue"
  /\ Mishap
  /\ \E e \in poll.todo :
       /\ Newest(poll.todo, e)
       /\ poll' = [poll EXCEPT !.todo = @ \ {e}]
       /\ Lose({e}, "notEnqueued")
       /\ pushed' = pushed \cup {e}
  /\ UNCHANGED <<posted, cursor, queue, worker, chats, preview, rows>>

\* A failing lookup or queue.add is caught and logged; the loop goes on.
EnqueueFails ==
  /\ poll.pc = "enqueue"
  /\ Mishap
  /\ \E e \in poll.todo :
       /\ Newest(poll.todo, e)
       /\ poll' = [poll EXCEPT !.todo = @ \ {e}]
       /\ Lose({e}, "notEnqueued")
  /\ UNCHANGED <<posted, cursor, queue, worker, chats, preview, rows, pushed>>

PollDone ==
  /\ poll.pc = "enqueue"
  /\ poll.todo = {}
  /\ poll' = Resting
  /\ UNCHANGED <<posted, cursor, queue, worker, chats, preview, rows, pushed, lost, mishaps>>

-----------------------------------------------------------------------------
(* One MessageProcessor job *)

Goto(w, pc) == worker' = [worker EXCEPT ![w].pc = pc]
Finish(w) == worker' = [worker EXCEPT ![w] = Idle]

TakeJob(w, j) ==
  /\ ~Busy(w)
  /\ queue[j] > 0
  /\ queue' = [queue EXCEPT ![j] = @ - 1]
  /\ worker' = [worker EXCEPT ![w] = [pc |-> "findChat", job |-> j]]
  /\ UNCHANGED <<posted, cursor, poll, chats, preview, rows, pushed, lost, mishaps>>

FindChat(w) ==
  /\ worker[w].pc = "findChat"
  /\ Goto(w, IF ChatAt(w) \in chats THEN "touchChat" ELSE "createChat")
  /\ UNCHANGED <<posted, cursor, poll, queue, chats, preview, rows, pushed, lost, mishaps>>

TouchChat(w) ==
  /\ worker[w].pc = "touchChat"
  /\ preview' = [preview EXCEPT ![ChatAt(w)] = EventAt(w)]
  /\ Goto(w, "findMessage")
  /\ UNCHANGED <<posted, cursor, poll, queue, chats, rows, pushed, lost, mishaps>>

\* Mutant: the job ends once the conversation exists.
CreateChatEnds(w) ==
  /\ worker[w].pc = "createChat"
  /\ ChatAt(w) \notin chats
  /\ chats' = chats \cup {ChatAt(w)}
  /\ preview' = [preview EXCEPT ![ChatAt(w)] = EventAt(w)]
  /\ Finish(w)
  /\ UNCHANGED <<posted, cursor, poll, queue, rows, pushed, lost, mishaps>>

CreateChat(w) ==
  /\ worker[w].pc = "createChat"
  /\ ChatAt(w) \notin chats
  /\ chats' = chats \cup {ChatAt(w)}
  /\ preview' = [preview EXCEPT ![ChatAt(w)] = EventAt(w)]
  /\ Goto(w, "findMessage")
  /\ UNCHANGED <<posted, cursor, poll, queue, rows, pushed, lost, mishaps>>

\* Another job created the conversation since FindChat: the insert violates the
\* unique key, nothing catches it, and a save-message job has one attempt.
CreateChatFails(w) ==
  /\ worker[w].pc = "createChat"
  /\ ChatAt(w) \in chats
  /\ Lose({EventAt(w)}, "chatRace")
  /\ Finish(w)
  /\ UNCHANGED <<posted, cursor, poll, queue, chats, preview, rows, pushed, mishaps>>

\* Mutant: any message of the conversation counts as this one.
FindMessageByChat(w) ==
  /\ worker[w].pc = "findMessage"
  /\ IF \E e \in rows : ChatOf[e] = ChatAt(w) THEN Finish(w) ELSE Goto(w, "insert")
  /\ UNCHANGED <<posted, cursor, poll, queue, chats, preview, rows, pushed, lost, mishaps>>

FindMessage(w) ==
  /\ worker[w].pc = "findMessage"
  /\ IF EventAt(w) \in rows THEN Finish(w) ELSE Goto(w, "insert")
  /\ UNCHANGED <<posted, cursor, poll, queue, chats, preview, rows, pushed, lost, mishaps>>

\* A second row for the same message is refused by the unique key; saveMessage
\* catches that error, so the job succeeds either way.
InsertMessage(w) ==
  /\ worker[w].pc = "insert"
  /\ rows' = rows \cup {EventAt(w)}
  /\ Finish(w)
  /\ UNCHANGED <<posted, cursor, poll, queue, chats, preview, pushed, lost, mishaps>>

\* Any other database error fails the job for good.
JobError(w) ==
  /\ Busy(w)
  /\ Mishap
  /\ Lose({EventAt(w)}, "jobError")
  /\ Finish(w)
  /\ UNCHANGED <<posted, cursor, poll, queue, chats, preview, rows, pushed>>

-----------------------------------------------------------------------------
(* A crash of the process, which runs the poll job and every worker *)

InFlight(j) == Cardinality({w \in Workers : Busy(w) /\ worker[w].job = j})
Recovered(j) == IF j.stalled THEN InFlight(Fresh(j.ev)) ELSE 0

Crash ==
  /\ Mishap
  /\ \A j \in Job : queue[j] + Recovered(j) <= MaxCopies
  /\ queue' = [j \in Job |-> queue[j] + Recovered(j)]
  /\ lost' = [e \in Events |->
       lost[e]
       \cup (IF poll.pc = "enqueue" /\ e \in poll.todo THEN {"pollCrash"} ELSE {})
       \cup (IF \E w \in Workers : Busy(w) /\ worker[w].job = [ev |-> e, stalled |-> TRUE]
             THEN {"stalledTwice"} ELSE {})]
  /\ poll' = Resting
  /\ worker' = [w \in Workers |-> Idle]
  /\ UNCHANGED <<posted, cursor, chats, preview, rows, pushed>>

-----------------------------------------------------------------------------
PollStep == PollFetch \/ PersistCursor \/ EnqueueNext \/ PollDone

ProcessStep(w) ==
  \/ FindChat(w) \/ TouchChat(w) \/ CreateChat(w) \/ CreateChatFails(w)
  \/ FindMessage(w) \/ InsertMessage(w)

Next ==
  \/ Post \/ PollStep \/ PersistFails \/ PushFails \/ EnqueueFails
  \/ \E w \in Workers : (\E j \in Job : TakeJob(w, j)) \/ ProcessStep(w) \/ JobError(w)
  \/ Crash

Spec == Init /\ [][Next]_vars

\* The account stays due and pollable, running code is not starved by the event
\* loop, and BullMQ hands out waiting jobs first in, first out.
Fairness ==
  /\ WF_vars(PollStep)
  /\ \A w \in Workers : WF_vars(ProcessStep(w))
  /\ \A j \in Job : SF_vars(\E w \in Workers : TakeJob(w, j))

FairSpec == Spec /\ Fairness

-----------------------------------------------------------------------------
(* Properties *)

Waiting(e) == \E j \in Job : j.ev = e /\ queue[j] > 0
Working(e) == \E w \in Workers : Busy(w) /\ EventAt(w) = e
Polled(e) == poll.pc = "enqueue" /\ e \in poll.todo

\* No message disappears without a cause: an event at or below the cursor, which
\* no later poll will return, is still to be enqueued, waiting, being processed
\* or stored, unless one of the named failures abandoned it.  (The cursor is
\* saved before the jobs exist, so this is where a message could fall through.)
Accounted ==
  \A e \in Events : e <= cursor =>
    \/ Polled(e) \/ Waiting(e) \/ Working(e)
    \/ e \in rows
    \/ lost[e] # {}

\* The clients are told of a message before it is stored, but not before its job
\* is safe in the queue: an announced message waits, is being processed or is
\* stored, unless the processing of that job was abandoned.
PushedIsKept ==
  \A e \in pushed :
    \/ Waiting(e) \/ Working(e) \/ e \in rows
    \/ lost[e] \cap {"chatRace", "jobError", "stalledTwice"} # {}

\* A message row is only ever written under a conversation that exists, and the
\* preview of a conversation comes from one of its own events.
StoredInChat ==
  /\ \A e \in rows : ChatOf[e] \in chats
  /\ \A c \in Chats : preview[c] # 0 => c \in chats /\ ChatOf[preview[c]] = c

\* Losing the race to create a conversation is not losing the conversation: some
\* event of it got past the creation, and is stored, still being worked on, or
\* was itself abandoned by another failure.
RaceHasWinner ==
  \A e \in Events : "chatRace" \in lost[e] =>
    \E f \in Events :
      /\ ChatOf[f] = ChatOf[e]
      /\ \/ f \in rows \/ Working(f) \/ Waiting(f)
         \/ lost[f] \cap {"jobError", "stalledTwice"} # {}

\* The cursor never moves back, and it never passes an event of a conversation
\* without that event having been handed to the loop that enqueues it.
CursorAdvances ==
  [][/\ cursor <= cursor'
     /\ \A e \in Events : cursor < e /\ e <= cursor' =>
          Polled(e)' \/ "skipped" \in lost'[e]]_vars

\* Every event the platform receives ends up stored or is abandoned by a failure.
EventuallySettled ==
  \A e \in Events : (e <= posted) ~> (e \in rows \/ lost[e] # {})

\* Queues, workers, retries and crashes implement the ledger of MessageLedger.
Custody == {e \in Events : Polled(e) \/ Waiting(e) \/ Working(e)}
Abandoned == {e \in Events : lost[e] # {}}
Ledger == INSTANCE MessageLedger WITH
  Messages <- Events, mark <- cursor, custody <- Custody, stored <- rows, givenUp <- Abandoned
ImplementsLedger == Ledger!LedgerSpec
=============================================================================
