--------------------------- MODULE TelegramMessages ---------------------------
(***************************************************************************)
(* The rows of outgoing Telegram messages in one conversation.  A message  *)
(* the backend sends has a temporary id until Telegram has accepted it;    *)
(* one sent from another device has its final id from the start.           *)
(*                                                                         *)
(* Five pieces of code write the row, none waiting for another: the         *)
(* handlers of TelegramEventListener for a new message, for an accepted    *)
(* one and for a read one, MessagingService for the webhook's job that     *)
(* sent it, and ConnectorProcessor with the chat's fetched history.  Each  *)
(* looks the row up and writes it in a later step, by primary key and only *)
(* the columns that differ from what it looked up.                         *)
(***************************************************************************)
EXTENDS Naturals, FiniteSets

CONSTANTS
  Messages,
  Foreign,     \* messages sent from another device
  MaxMishaps   \* bound: failing database calls

ASSUME ConstantsAssumption ==
  /\ Foreign \subseteq Messages
  /\ MaxMishaps \in Nat

Writers == {"new", "sent", "read", "persist", "fetch"}
Rows == {"heard", "fetched"}   \* the row of the new-message handler, the one of the history

VARIABLES
  stage,    \* how far each message is at Telegram
  row,      \* the rows of each message
  writer,   \* the code that writes them
  missed,   \* history: writers that looked for a row before there was one
  refused,  \* history: writers whose write met the unique index
  failed,   \* history: writers whose call failed
  early,    \* history: messages in a history fetched before they were accepted
  mishaps

history == <<missed, refused, failed, early>>
vars == <<stage, row, writer, history, mishaps>>

Stage == {"unsent", "pending", "accepted", "read"}
Status == {"delivered", "sent", "read"}
Ids == {"temporary", "final"}
Absent == [status |-> "absent"]
RowState == {Absent} \cup [id : Ids, status : Status, by : {"owner", "actor"}]
Waiting == [pc |-> "waiting"]
Done == [pc |-> "done"]
WriterState ==
  {Waiting, Done} \cup [pc : {"look", "insert"}, id : Ids]
    \cup [pc : {"update"}, row : Rows, seen : Status]

TypeOK ==
  /\ stage \in [Messages -> Stage]
  /\ row \in [Messages -> [Rows -> RowState]]
  /\ writer \in [Messages -> [Writers -> WriterState]]
  /\ missed \subseteq Messages \X Writers
  /\ refused \subseteq Messages \X Writers
  /\ failed \subseteq Messages \X Writers
  /\ early \subseteq Messages
  /\ mishaps \in 0 .. MaxMishaps

Init ==
  /\ stage = [m \in Messages |-> "unsent"]
  /\ row = [m \in Messages |-> [r \in Rows |-> Absent]]
  /\ writer = [m \in Messages |-> [w \in Writers |-> Waiting]]
  /\ missed = {}
  /\ refused = {}
  /\ failed = {}
  /\ early = {}
  /\ mishaps = 0

-----------------------------------------------------------------------------
(* Telegram *)

Send(m) ==
  /\ stage[m] = "unsent"
  /\ stage' = [stage EXCEPT ![m] = IF m \in Foreign THEN "accepted" ELSE "pending"]
  /\ UNCHANGED <<row, writer, history, mishaps>>

Accept(m) ==
  /\ stage[m] = "pending"
  /\ stage' = [stage EXCEPT ![m] = "accepted"]
  /\ UNCHANGED <<row, writer, history, mishaps>>

BeRead(m) ==
  /\ stage[m] = "accepted"
  /\ stage' = [stage EXCEPT ![m] = "read"]
  /\ UNCHANGED <<row, writer, history, mishaps>>

-----------------------------------------------------------------------------
(* The writers *)

IdAtTelegram(m) == IF stage[m] = "pending" THEN "temporary" ELSE "final"

\* The id a message had when it was sent.
FirstId(m) == IF m \in Foreign THEN "final" ELSE "temporary"

\* What each writer looks for and from when on.  The history is fetched at any
\* time, also while the message is on its way.
Begins(m, w) ==
  CASE w \in {"sent", "persist"} -> m \notin Foreign /\ (w = "sent" => stage[m] \in {"accepted", "read"})
    [] w = "read" -> stage[m] = "read"
    [] OTHER -> TRUE

\* Mutant: the webhook's job asks for the final id.
SoughtFinal(m, w) ==
  CASE w \in {"new", "sent"} -> FirstId(m)
    [] w \in {"read", "persist"} -> "final"
    [] OTHER -> IdAtTelegram(m)

\* The sent handler looks for the old id over all conversations; the model knows one,
\* in which no other message has that id.
Sought(m, w) ==
  CASE w \in {"new", "persist", "sent"} -> FirstId(m)
    [] w = "read" -> "final"
    [] OTHER -> IdAtTelegram(m)

Begin(m, w) ==
  /\ stage[m] # "unsent"
  /\ writer[m][w] = Waiting
  /\ Begins(m, w)
  /\ writer' = [writer EXCEPT ![m][w] = [pc |-> "look", id |-> Sought(m, w)]]
  /\ early' = IF w = "fetch" /\ stage[m] = "pending" THEN early \cup {m} ELSE early
  /\ UNCHANGED <<stage, row, missed, refused, failed, mishaps>>

With(m, id) == {r \in Rows : row[m][r] # Absent /\ row[m][r].id = id}
Inserts(w) == w \in {"new", "fetch"}

\* Only the new-message handler and the history make a row; the history leaves an
\* existing one alone.
Look(m, w) ==
  /\ writer[m][w].pc = "look"
  /\ LET found == With(m, writer[m][w].id) IN
       IF found = {}
         THEN /\ writer' = [writer EXCEPT ![m][w] = IF Inserts(w) THEN [@ EXCEPT !.pc = "insert"] ELSE Done]
              /\ missed' = IF Inserts(w) THEN missed ELSE missed \cup {<<m, w>>}
         ELSE \E r \in found :
              /\ writer' = [writer EXCEPT ![m][w] =
                   IF w = "fetch" THEN Done ELSE [pc |-> "update", row |-> r, seen |-> row[m][r].status]]
              /\ UNCHANGED missed
  /\ UNCHANGED <<stage, row, refused, failed, early, mishaps>>

Finish(m, w) == writer' = [writer EXCEPT ![m][w] = Done]

\* Mutant: the table has no unique index.
InsertAnyway(m, w) ==
  /\ writer[m][w].pc = "insert"
  /\ row' = [row EXCEPT ![m][IF w = "new" THEN "heard" ELSE "fetched"] =
                [id |-> writer[m][w].id, status |-> "delivered", by |-> "owner"]]
  /\ Finish(m, w)
  /\ UNCHANGED <<stage, missed, refused, failed, early, mishaps>>

\* saveOutboundMessage and storeMessagesForConversation; the unique index over id
\* and conversation refuses a second row with the id.
Insert(m, w) ==
  /\ writer[m][w].pc = "insert"
  /\ LET id == writer[m][w].id IN
       IF With(m, id) = {}
         THEN /\ row' = [row EXCEPT ![m][IF w = "new" THEN "heard" ELSE "fetched"] =
                           [id |-> id, status |-> "delivered", by |-> "owner"]]
              /\ UNCHANGED refused
         ELSE /\ refused' = refused \cup {<<m, w>>}
              /\ UNCHANGED row
  /\ Finish(m, w)
  /\ UNCHANGED <<stage, missed, failed, early, mishaps>>

StatusBy(w) == CASE w = "new" -> "delivered" [] w = "read" -> "read" [] OTHER -> "sent"

\* Mutant: the row is written back as it was looked up, but for the change.
WrittenWhole(old, w, seen) ==
  [id     |-> IF w = "sent" THEN "final" ELSE old.id,
   status |-> StatusBy(w),
   by     |-> IF w = "persist" THEN "actor" ELSE "owner"]

\* The row after an update by w, which had looked up the status seen.
Written(old, w, seen) ==
  [id     |-> IF w = "sent" THEN "final" ELSE old.id,
   status |-> IF StatusBy(w) = seen THEN old.status ELSE StatusBy(w),
   by     |-> IF w = "persist" THEN "actor" ELSE old.by]

Update(m, w) ==
  /\ writer[m][w].pc = "update"
  /\ LET r == writer[m][w].row
         new == Written(row[m][r], w, writer[m][w].seen) IN
       IF With(m, new.id) \subseteq {r}
         THEN row' = [row EXCEPT ![m][r] = new] /\ UNCHANGED refused
         ELSE refused' = refused \cup {<<m, w>>} /\ UNCHANGED row
  /\ Finish(m, w)
  /\ UNCHANGED <<stage, missed, failed, early, mishaps>>

\* The handlers and the webhook's job catch and log the error of a call and are not
\* tried again.  The history's job rethrows it and is: a later attempt looks for the
\* same id, which comes to a fetch that looks that much later.
Fail(m, w) ==
  /\ writer[m][w] \notin {Waiting, Done}
  /\ mishaps < MaxMishaps
  /\ mishaps' = mishaps + 1
  /\ failed' = failed \cup {<<m, w>>}
  /\ Finish(m, w)
  /\ UNCHANGED <<stage, row, missed, refused, early>>

Next == \E m \in Messages :
  \/ Send(m) \/ Accept(m) \/ BeRead(m)
  \/ \E w \in Writers : Begin(m, w) \/ Look(m, w) \/ Insert(m, w) \/ Update(m, w) \/ Fail(m, w)

Spec == Init /\ [][Next]_vars

-----------------------------------------------------------------------------
(* Properties *)

Ended(m, w) == writer[m][w] = Done
Present(m, r) == row[m][r] # Absent
Astray(m, w) == <<m, w>> \in missed \cup refused \cup failed

\* A message of another device has one row, and one the backend sent has one once
\* Telegram's acceptance has been handled, unless that handler came before the
\* row, or failed, or met the history's row, or the history had been fetched while
\* the message was on its way.
ShownOnce ==
  \A m \in Messages : Present(m, "heard") /\ Present(m, "fetched") =>
    /\ m \notin Foreign
    /\ Ended(m, "sent") => Astray(m, "sent") \/ m \in early

\* A message that has been read stays read, unless a writer had looked its row up
\* before that, or its new-message handler comes after the history was stored and
\* takes it for delivered.
Regresses(m, w, r) ==
  /\ writer[m][w].pc = "update"
  /\ writer[m][w].row = r
  /\ writer[m][w].seen # "read" \/ w = "new"
ReadStays ==
  [][\A m \in Messages, r \in Rows :
       Present(m, r) /\ row[m][r].status = "read" /\ row'[m][r].status # "read" =>
         \E w \in Writers : Regresses(m, w, r)]_vars

\* A message an assistant sent keeps naming the assistant, whoever writes its row
\* later, unless the job that sent it asked for the row too early or too late.
NamesActor ==
  \A m \in Messages \ Foreign : Ended(m, "persist") /\ ~Astray(m, "persist") =>
    \E r \in Rows : Present(m, r) /\ row[m][r].by = "actor"
=============================================================================
