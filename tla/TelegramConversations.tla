------------------------- MODULE TelegramConversations -------------------------
(***************************************************************************)
(* Which conversation row a Telegram chat has, and which its messages are  *)
(* stored under.  Three pieces of code find or create it, each on its own: *)
(* TelegramEventListener for a new message and for a new chat, and          *)
(* ConnectorProcessor for a chat of the fetched history.  All look for the *)
(* chat's name first and take the row they find, and only then for its id; *)
(* a row holds the plain id or, from the history of a private chat, the    *)
(* id with a prefix.  Ids are unique, names are not.  Rows are looked for    *)
(* among those of one user, but ids are unique over all of them.            *)
(*                                                                         *)
(* A chat is a chat as one user's account sees it: a group two users are in *)
(* is two chats of one id.  A lookup and the write that depends on it are   *)
(* separate steps; a write changes the columns that differ from what was    *)
(* looked up.                                                              *)
(***************************************************************************)
EXTENDS Naturals, FiniteSets

CONSTANTS
  Chats,
  UserOf,      \* the user whose account sees the chat
  IdOf,        \* the chat's id at Telegram
  Private,     \* chats with one person
  Names,       \* titles of chats
  Jobs,        \* handlers and history jobs running at once
  MaxRows,     \* bound: conversation rows
  MaxRenames,  \* bound: changes of a title
  MaxJobs,     \* bound: handlers and jobs started
  MaxFailures  \* bound: handlers and jobs of which a call fails

ASSUME ConversationsAssumption ==
  /\ \A c, d \in Chats : UserOf[c] = UserOf[d] /\ IdOf[c] = IdOf[d] => c = d
  /\ Private \subseteq Chats
  /\ Chats \cap Names = {}
  /\ MaxRows \in Nat /\ MaxRenames \in Nat /\ MaxJobs \in Nat /\ MaxFailures \in Nat

VARIABLES
  title,     \* each chat's title at Telegram
  contact,   \* the display name of the chat's contact, if it has one
  conv,      \* the conversation rows
  stored,    \* for each stored message, its chat and its row
  job,       \* each handler or job
  used,      \* history: the names each chat was looked up by
  twice,     \* history: chats that have had two rows
  lost,      \* history: chats of which a message was given up though no call failed
  renames, started, failures

histories == <<used, twice, lost>>
conversationsVars == <<title, contact, conv, stored, job, histories, renames, started, failures>>

NoName == "none"
NoConv == [name |-> NoName]
RowIds == 1 .. MaxRows
Kinds == {"message", "chat", "history"}
ExtId == [chat : Chats, prefixed : BOOLEAN]
\* A chat stands for its own id where that serves as a name.
AnyName == Names \cup Chats
ConvState == {NoConv} \cup [ext : ExtId, name : AnyName]
Idle == [pc |-> "idle"]
Task == [kind : Kinds, chat : Chats, name : AnyName]
JobState ==
  {Idle} \cup [pc : {"byName", "byId", "create", "again"}, task : Task]
    \cup [pc : {"update"}, task : Task, row : RowIds, seen : ConvState]
    \cup [pc : {"insert"}, task : Task, row : RowIds]

ConversationsTypeOK ==
  /\ title \in [Chats -> Names]
  /\ contact \in [Chats -> Names \cup {NoName}]
  /\ conv \in [RowIds -> ConvState]
  /\ stored \subseteq [chat : Chats, row : RowIds]
  /\ job \in [Jobs -> JobState]
  /\ used \in [Chats -> SUBSET AnyName]
  /\ twice \subseteq Chats
  /\ lost \subseteq Chats
  /\ renames \in 0 .. MaxRenames
  /\ started \in 0 .. MaxJobs
  /\ failures \in 0 .. MaxFailures

ConversationsInit ==
  /\ title \in [Chats -> Names]
  /\ contact = [c \in Chats |-> NoName]
  /\ conv = [k \in RowIds |-> NoConv]
  /\ stored = {}
  /\ job = [j \in Jobs |-> Idle]
  /\ used = [c \in Chats |-> {}]
  /\ twice = {}
  /\ lost = {}
  /\ renames = 0
  /\ started = 0
  /\ failures = 0

-----------------------------------------------------------------------------
Rename(c, n) ==
  /\ renames < MaxRenames
  /\ title[c] # n
  /\ title' = [title EXCEPT ![c] = n]
  /\ renames' = renames + 1
  /\ UNCHANGED <<contact, conv, stored, job, histories, started, failures>>

\* The contact of a private chat is stored or updated.
SyncContact(c) ==
  /\ c \in Private
  /\ contact[c] # title[c]
  /\ contact' = [contact EXCEPT ![c] = title[c]]
  /\ UNCHANGED <<title, conv, stored, job, histories, renames, started, failures>>

IsConv(k) == conv[k] # NoConv
Convs == {k \in RowIds : IsConv(k)}
WithExt(x) == {k \in Convs : conv[k].ext = x}

\* The rows of chat c's user that go by name n.
WithName(c, n) == {k \in Convs : UserOf[conv[k].ext.chat] = UserOf[c] /\ conv[k].name = n}

\* The rows of any user that have id x.
Occupied(x) == {k \in Convs : IdOf[conv[k].ext.chat] = IdOf[x.chat] /\ conv[k].ext.prefixed = x.prefixed}

Plain(c) == [chat |-> c, prefixed |-> FALSE]
Prefixed(c) == [chat |-> c, prefixed |-> TRUE]

\* The id a writer gives the row it finds.
Target(t) == IF t.kind = "history" /\ t.chat \in Private THEN Prefixed(t.chat) ELSE Plain(t.chat)

\* resolveConversationNameFromContact: a message brings no title.
NameFor(kind, c) ==
  CASE kind = "chat" -> title[c]
    [] kind = "message" -> IF contact[c] # NoName THEN contact[c] ELSE c
    [] kind = "history" -> IF contact[c] # NoName THEN contact[c] ELSE title[c]

Start(j, kind, c) ==
  /\ job[j] = Idle
  /\ started < MaxJobs
  /\ started' = started + 1
  /\ job' = [job EXCEPT ![j] = [pc |-> "byName", task |-> [kind |-> kind, chat |-> c, name |-> NameFor(kind, c)]]]
  /\ used' = [used EXCEPT ![c] = @ \cup {NameFor(kind, c)}]
  /\ UNCHANGED <<title, contact, conv, stored, twice, lost, renames, failures>>

At(j, pc) == job[j].pc = pc
TaskOf(j) == job[j].task
Take(j, k) == job' = [job EXCEPT ![j] = [pc |-> "update", task |-> TaskOf(j), row |-> k, seen |-> conv[k]]]
Goto(j, pc) == job' = [job EXCEPT ![j] = [pc |-> pc, task |-> TaskOf(j)]]

\* findConversationByName: any row of the user of that name, whichever chat it is of.
FindByName(j) ==
  /\ At(j, "byName")
  /\ LET named == WithName(TaskOf(j).chat, TaskOf(j).name) IN
       IF named # {} THEN \E k \in named : Take(j, k)
       ELSE Goto(j, "byId")
  /\ UNCHANGED <<title, contact, conv, stored, histories, renames, started, failures>>

\* Mutant: only the form of the id is compared.
FoundByForm(t) == {k \in Convs : conv[k].ext.prefixed = Target(t).prefixed}

\* The listener also finds the row with the prefix; the history, which looks for
\* the prefixed id of a private chat, does not find the one without.
FoundById(t) ==
  IF t.kind = "history" \/ WithExt(Plain(t.chat)) # {} THEN WithExt(Target(t))
  ELSE WithExt(Prefixed(t.chat))

FindById(j) ==
  /\ At(j, "byId")
  /\ IF FoundById(TaskOf(j)) # {}
       THEN \E k \in FoundById(TaskOf(j)) : Take(j, k)
       ELSE Goto(j, "create")
  /\ UNCHANGED <<title, contact, conv, stored, histories, renames, started, failures>>

Twice(rows) == {c \in Chats : Cardinality({k \in RowIds : rows[k] # NoConv /\ rows[k].ext.chat = c}) > 1}

\* The row is given to the chat; the messages come next, a new chat has none.
Settle(j, k) ==
  job' = [job EXCEPT ![j] = IF TaskOf(j).kind = "chat" THEN Idle ELSE [pc |-> "insert", task |-> TaskOf(j), row |-> k]]

\* A history is fetched again another time, a message that arrived is not.
GiveUp(j) ==
  /\ job' = [job EXCEPT ![j] = Idle]
  /\ lost' = IF TaskOf(j).kind = "message" THEN lost \cup {TaskOf(j).chat} ELSE lost

\* A message that knows the chat by nothing but its id leaves the row's name.
NewName(t, old) == IF t.name = t.chat THEN old ELSE t.name

Changed(old, seen, value) == IF value = seen THEN old ELSE value

\* updateConversationFields; a row that has the id already makes the write fail,
\* and with it the whole handler.
UpdateConv(j) ==
  /\ At(j, "update")
  /\ LET t == TaskOf(j)
         k == job[j].row
         seen == job[j].seen
         new == [ext |-> Changed(conv[k].ext, seen.ext, Target(t)),
                 name |-> Changed(conv[k].name, seen.name, NewName(t, seen.name))] IN
       IF Occupied(new.ext) \subseteq {k}
         THEN /\ conv' = [conv EXCEPT ![k] = new]
              /\ twice' = twice \cup Twice(conv')
              /\ Settle(j, k)
              /\ UNCHANGED lost
         ELSE GiveUp(j) /\ UNCHANGED <<conv, twice>>
  /\ UNCHANGED <<title, contact, stored, used, renames, started, failures>>

\* createNewConversation; the listener looks again when the id exists by now,
\* whoever's it is.
Create(j) ==
  /\ At(j, "create")
  /\ LET t == TaskOf(j) IN
       IF Occupied(Target(t)) = {}
         THEN \E k \in RowIds \ Convs :
              /\ conv' = [conv EXCEPT ![k] = [ext |-> Target(t), name |-> t.name]]
              /\ k = Cardinality(Convs) + 1
              /\ twice' = twice \cup Twice(conv')
              /\ Settle(j, k)
              /\ UNCHANGED lost
         ELSE /\ IF t.kind = "history" THEN GiveUp(j) ELSE Goto(j, "again") /\ UNCHANGED lost
              /\ UNCHANGED <<conv, twice>>
  /\ UNCHANGED <<title, contact, stored, used, renames, started, failures>>

\* Mutant: the row is not looked for again.
NotFoundAgain(j) ==
  /\ At(j, "again")
  /\ GiveUp(j)
  /\ UNCHANGED <<title, contact, conv, stored, used, twice, renames, started, failures>>

\* The row the other writer made is taken as it is, if it is the user's;
\* handleNewChat sets its name.
FindAgain(j) ==
  /\ At(j, "again")
  /\ IF FoundById(TaskOf(j)) # {}
       THEN \E k \in FoundById(TaskOf(j)) :
              /\ conv' = IF TaskOf(j).kind = "chat" THEN [conv EXCEPT ![k].name = TaskOf(j).name] ELSE conv
              /\ Settle(j, k)
              /\ UNCHANGED lost
       ELSE GiveUp(j) /\ UNCHANGED conv
  /\ UNCHANGED <<title, contact, stored, used, twice, renames, started, failures>>

StoreMessage(j) ==
  /\ At(j, "insert")
  /\ stored' = stored \cup {[chat |-> TaskOf(j).chat, row |-> job[j].row]}
  /\ job' = [job EXCEPT ![j] = Idle]
  /\ UNCHANGED <<title, contact, conv, histories, renames, started, failures>>

\* Any call of a handler or job may fail, whether or not its write went through: a
\* handler only logs it, and the message is lost; a history job is tried again,
\* as another one.
JobFails(j) ==
  /\ job[j] # Idle
  /\ failures < MaxFailures
  /\ failures' = failures + 1
  /\ job' = [job EXCEPT ![j] = Idle]
  /\ UNCHANGED <<title, contact, conv, stored, histories, renames, started>>

JobStep(j) ==
  \/ FindByName(j) \/ FindById(j) \/ UpdateConv(j) \/ Create(j)
  \/ FindAgain(j) \/ StoreMessage(j) \/ JobFails(j)

ConversationsNext ==
  \/ \E c \in Chats : SyncContact(c) \/ \E n \in Names : Rename(c, n)
  \/ \E j \in Jobs : JobStep(j) \/ \E kind \in Kinds, c \in Chats : Start(j, kind, c)

ConversationsSpec == ConversationsInit /\ [][ConversationsNext]_conversationsVars

-----------------------------------------------------------------------------
(* Properties *)

\* No two chats of a user have gone by one name.
NamesApart == \A c, d \in Chats : UserOf[c] = UserOf[d] /\ c # d => used[c] \cap used[d] = {}

\* The messages of a chat are stored under a conversation of that chat, and stay
\* there, as long as no two chats of a user have gone by one name.
UnderItsChat == NamesApart => \A s \in stored : conv[s.row].ext.chat = s.chat

\* Chats of which another user has a conversation.
Elsewhere == {c \in Chats : \E k \in Convs : conv[k].ext.chat # c /\ IdOf[conv[k].ext.chat] = IdOf[c]}

\* A message no call of whose handler failed is given up only when two chats of a
\* user have gone by one name, its chat has had two conversations, or another user
\* has the conversation of the same chat.
StoredUnlessClash == NamesApart => lost \subseteq twice \cup Elsewhere
=============================================================================
