------------------------ MODULE TelegramMessagesProofs ------------------------
(***************************************************************************)
(* Proofs about TelegramMessages, for any messages and number of failing   *)
(* calls, and about TelegramConversations, for any chats, titles, jobs and *)
(* rows.                                                                   *)
(***************************************************************************)
EXTENDS TelegramMessages, TelegramConversations, FiniteSetTheorems, TLAPS

Row == [id : Ids, status : Status, by : {"owner", "actor"}]
Looking == [pc : {"look", "insert"}, id : Ids]
Updating == [pc : {"update"}, row : Rows, seen : Status]

\* What a writer is after: its id, and whom it may make or change.
WriterSound(m, w) ==
  LET at == writer[m][w] IN
  /\ at.pc \in {"look", "insert"} =>
       /\ w \in {"new", "sent", "persist"} => at.id = FirstId(m)
       /\ w = "read" => at.id = "final"
       /\ w = "fetch" /\ (m \in Foreign \/ m \notin early) => at.id = "final"
  /\ at.pc = "insert" => Inserts(w)
  /\ at.pc = "update" =>
       /\ w # "fetch"
       /\ Present(m, at.row)
       /\ w = "read" => row[m][at.row].id = "final"
       /\ w \in {"sent", "persist"} => at.seen # "read"

\* Each maker makes its row once, and a read row has its final id.
RowsSound(m) ==
  /\ writer[m]["new"].pc \in {"waiting", "look", "insert"} => ~Present(m, "heard")
  /\ writer[m]["fetch"].pc \in {"waiting", "look", "insert"} => ~Present(m, "fetched")
  /\ \A r \in Rows : Present(m, r) /\ row[m][r].status = "read" => row[m][r].id = "final"

\* A message of another device has one row, with its final id.
ForeignSound(m) ==
  m \in Foreign =>
    /\ stage[m] # "pending"
    /\ writer[m]["sent"] = Waiting /\ writer[m]["persist"] = Waiting
    /\ \A r \in Rows : Present(m, r) => row[m][r].id = "final"
    /\ ~(Present(m, "heard") /\ Present(m, "fetched"))

\* A message of the backend whose history came late: the handler of its acceptance
\* gives the final id to the row of the new-message handler, which is the only one.
OwnSound(m) ==
  m \notin Foreign /\ m \notin early =>
    /\ Present(m, "fetched") => row[m]["fetched"].id = "final"
    /\ writer[m]["sent"].pc = "update" => writer[m]["sent"].row = "heard"
    /\ Ended(m, "sent") /\ ~Astray(m, "sent") =>
         Present(m, "heard") /\ row[m]["heard"].id = "final" /\ ~Present(m, "fetched")

ActorSound(m) ==
  m \notin Foreign /\ Ended(m, "persist") /\ ~Astray(m, "persist") =>
    \E r \in Rows : Present(m, r) /\ row[m][r].by = "actor"

MessageSound(m) ==
  /\ \A w \in Writers : WriterSound(m, w)
  /\ RowsSound(m) /\ ForeignSound(m) /\ OwnSound(m) /\ ActorSound(m)

\* The inductive invariant.
MessagesSound == TypeOK /\ \A m \in Messages : MessageSound(m)

-----------------------------------------------------------------------------
LEMMA WriterKinds ==
  ASSUME TypeOK, NEW m \in Messages
  PROVE  /\ \A w \in Writers :
              /\ writer[m][w] \in WriterState
              /\ writer[m][w].pc \in {"look", "insert"} => writer[m][w] \in Looking
              /\ writer[m][w].pc = "update" => writer[m][w] \in Updating
              /\ writer[m][w].pc = "waiting" <=> writer[m][w] = Waiting
              /\ writer[m][w].pc = "done" <=> writer[m][w] = Done
              /\ writer[m][w].pc \in {"waiting", "look", "insert", "update", "done"}
         /\ \A r \in Rows : Present(m, r) => row[m][r] \in Row
         /\ stage[m] \in Stage
<1>1. \A x \in WriterState :
        /\ x.pc \in {"look", "insert"} => x \in Looking
        /\ x.pc = "update" => x \in Updating
        /\ x.pc = "waiting" <=> x = Waiting
        /\ x.pc = "done" <=> x = Done
        /\ x.pc \in {"waiting", "look", "insert", "update", "done"}
  BY DEF WriterState, Looking, Updating, Waiting, Done
<1>2. \A w \in Writers : writer[m][w] \in WriterState
  BY DEF TypeOK
<1>3. \A r \in Rows : row[m][r] \in RowState
  BY DEF TypeOK
<1>4. stage[m] \in Stage
  BY DEF TypeOK
<1>5. \A r \in Rows : Present(m, r) => row[m][r] \in Row
  BY <1>3 DEF Present, RowState, Row
<1>. QED BY <1>1, <1>2, <1>4, <1>5

\* One writer goes on.
LEMMA WriterMoves ==
  ASSUME TypeOK, NEW m \in Messages, NEW w \in Writers, NEW x \in WriterState,
         writer' = [writer EXCEPT ![m][w] = x]
  PROVE  /\ writer' \in [Messages -> [Writers -> WriterState]]
         /\ writer'[m][w] = x
         /\ \A v \in Writers \ {w} : writer'[m][v] = writer[m][v]
         /\ \A n \in Messages \ {m} : writer'[n] = writer[n]
BY DEF TypeOK

\* One row is written.
LEMMA RowWritten ==
  ASSUME TypeOK, NEW m \in Messages, NEW r \in Rows, NEW x \in Row,
         row' = [row EXCEPT ![m][r] = x]
  PROVE  /\ row' \in [Messages -> [Rows -> RowState]]
         /\ row'[m][r] = x /\ row'[m][r] # Absent
         /\ \A s \in Rows \ {r} : row'[m][s] = row[m][s]
         /\ \A n \in Messages \ {m} : row'[n] = row[n]
<1>1. x \in RowState /\ x # Absent
  BY DEF Row, RowState, Absent
<1>. QED BY <1>1 DEF TypeOK

\* Steps on another message.
LEMMA Untouched ==
  ASSUME NEW n \in Messages, MessageSound(n), stage'[n] = stage[n], row'[n] = row[n],
         writer'[n] = writer[n], early \subseteq early', missed \subseteq missed',
         refused \subseteq refused', failed \subseteq failed'
  PROVE  MessageSound(n)'
<1>1. \A w \in Writers : WriterSound(n, w)'
  BY DEF MessageSound, WriterSound, Present
<1>2. RowsSound(n)' /\ ForeignSound(n)'
  BY DEF MessageSound, RowsSound, ForeignSound, Present
<1>3. OwnSound(n)'
  BY DEF MessageSound, OwnSound, Present, Ended, Astray
<1>4. ActorSound(n)'
  BY DEF MessageSound, ActorSound, Present, Ended, Astray
<1>. QED BY <1>1, <1>2, <1>3, <1>4 DEF MessageSound

LEMMA MessagesSoundInit == Init => MessagesSound
<1>. SUFFICES ASSUME Init PROVE MessagesSound
  OBVIOUS
<1>. USE DEF Init
<1>1. TypeOK
  BY ConstantsAssumption DEF TypeOK, Stage, RowState, WriterState
<1>2. ASSUME NEW m \in Messages PROVE MessageSound(m)
  <2>1. /\ stage[m] = "unsent" /\ \A r \in Rows : ~Present(m, r)
        /\ \A w \in Writers : writer[m][w] = Waiting /\ writer[m][w].pc = "waiting" /\ ~Ended(m, w)
    BY DEF Present, Waiting, Done, Ended
  <2>. QED BY <2>1 DEF MessageSound, WriterSound, RowsSound, ForeignSound, OwnSound, ActorSound, Writers, Rows
<1>. QED BY <1>1, <1>2 DEF MessagesSound

-----------------------------------------------------------------------------
(* Telegram's steps *)
LEMMA StageStep ==
  ASSUME MessagesSound, NEW m \in Messages, Send(m) \/ Accept(m) \/ BeRead(m)
  PROVE  MessagesSound'
<1>1. PICK s \in Stage : stage' = [stage EXCEPT ![m] = s] /\ (m \in Foreign => s # "pending")
  BY DEF Send, Accept, BeRead, Stage
<1>2. UNCHANGED <<row, writer, missed, refused, failed, early, mishaps>>
  BY DEF Send, Accept, BeRead, history
<1>3. TypeOK'
  BY <1>1, <1>2 DEF MessagesSound, TypeOK
<1>4. stage'[m] = s /\ \A n \in Messages \ {m} : stage'[n] = stage[n]
  BY <1>1 DEF MessagesSound, TypeOK
<1>5. MessageSound(m)'
  <2>1. \A w \in Writers : WriterSound(m, w)'
    BY <1>2 DEF MessagesSound, MessageSound, WriterSound, Present
  <2>2. RowsSound(m)' /\ ForeignSound(m)'
    BY <1>1, <1>2, <1>4 DEF MessagesSound, MessageSound, RowsSound, ForeignSound, Present
  <2>3. OwnSound(m)'
    BY <1>2 DEF MessagesSound, MessageSound, OwnSound, Present, Ended, Astray
  <2>4. ActorSound(m)'
    BY <1>2 DEF MessagesSound, MessageSound, ActorSound, Present, Ended, Astray
  <2>. QED BY <2>1, <2>2, <2>3, <2>4 DEF MessageSound
<1>6. ASSUME NEW n \in Messages \ {m} PROVE MessageSound(n)'
  BY <1>2, <1>4, <1>6, Untouched DEF MessagesSound
<1>. QED BY <1>3, <1>5, <1>6 DEF MessagesSound

-----------------------------------------------------------------------------
(* The writers' steps *)

\* A step of one writer that leaves the rows alone is sound when what it turns to is.
LEMMA MoveStep ==
  ASSUME MessagesSound, NEW m \in Messages, NEW w \in Writers, NEW x \in WriterState,
         writer' = [writer EXCEPT ![m][w] = x], UNCHANGED <<stage, row>>,
         missed \subseteq missed', refused \subseteq refused', failed \subseteq failed',
         early \subseteq early', TypeOK', WriterSound(m, w)',
         m \in Foreign => w \notin {"sent", "persist"},
         x.pc \in {"waiting", "look", "insert"} => writer[m][w].pc \in {"waiting", "look", "insert"},
         w = "sent" /\ m \notin early' /\ x.pc = "update" => x.row = "heard",
         x = Done => w \notin {"sent", "persist"} \/ <<m, w>> \in missed' \cup refused' \cup failed'
  PROVE  MessagesSound'
<1>1. /\ writer'[m][w] = x /\ \A v \in Writers \ {w} : writer'[m][v] = writer[m][v]
      /\ \A n \in Messages \ {m} : writer'[n] = writer[n]
  BY WriterMoves DEF MessagesSound
<1>2. \A v \in Writers \ {w} : WriterSound(m, v)'
  BY <1>1 DEF MessagesSound, MessageSound, WriterSound, Present
<1>3. RowsSound(m)'
  <2>1. \A v \in Writers : writer'[m][v].pc \in {"waiting", "look", "insert"}
                             => writer[m][v].pc \in {"waiting", "look", "insert"}
    BY <1>1
  <2>2. "new" \in Writers /\ "fetch" \in Writers
    BY DEF Writers
  <2>. QED BY <2>1, <2>2 DEF MessagesSound, MessageSound, RowsSound, Present
<1>4. ForeignSound(m)'
  <2>1. m \in Foreign => writer'[m]["sent"] = writer[m]["sent"] /\ writer'[m]["persist"] = writer[m]["persist"]
    BY <1>1 DEF Writers
  <2>. QED BY <2>1 DEF MessagesSound, MessageSound, ForeignSound, Present
<1>5. OwnSound(m)'
  <2>1. CASE w = "sent"
    BY <1>1, <2>1 DEF MessagesSound, MessageSound, OwnSound, Present, Ended, Astray
  <2>2. CASE w # "sent"
    <3>1. writer'[m]["sent"] = writer[m]["sent"]
      BY <1>1, <2>2 DEF Writers
    <3>. QED BY <3>1 DEF MessagesSound, MessageSound, OwnSound, Present, Ended, Astray
  <2>. QED BY <2>1, <2>2
<1>6. ActorSound(m)'
  <2>1. CASE w = "persist"
    BY <1>1, <2>1 DEF ActorSound, Ended, Astray
  <2>2. CASE w # "persist"
    <3>1. writer'[m]["persist"] = writer[m]["persist"]
      BY <1>1, <2>2 DEF Writers
    <3>. QED BY <3>1 DEF MessagesSound, MessageSound, ActorSound, Present, Ended, Astray
  <2>. QED BY <2>1, <2>2
<1>7. MessageSound(m)'
  BY <1>2, <1>3, <1>4, <1>5, <1>6 DEF MessageSound
<1>8. ASSUME NEW n \in Messages \ {m} PROVE MessageSound(n)'
  BY <1>1, <1>8, Untouched DEF MessagesSound
<1>. QED BY <1>7, <1>8 DEF MessagesSound

LEMMA BeginStep ==
  ASSUME MessagesSound, NEW m \in Messages, NEW w \in Writers, Begin(m, w)
  PROVE  MessagesSound'
<1>. DEFINE x == [pc |-> "look", id |-> Sought(m, w)]
<1>t. TypeOK /\ ForeignSound(m)
  BY DEF MessagesSound, MessageSound
<1>1. /\ writer[m][w] = Waiting /\ writer' = [writer EXCEPT ![m][w] = x]
      /\ UNCHANGED <<stage, row, missed, refused, failed, mishaps>>
      /\ early' = IF w = "fetch" /\ stage[m] = "pending" THEN early \cup {m} ELSE early
  BY DEF Begin
<1>2. Sought(m, w) \in Ids
  BY DEF Sought, FirstId, IdAtTelegram, Ids
<1>3. x \in WriterState /\ x.pc = "look" /\ x.id = Sought(m, w) /\ x # Done
  BY <1>2 DEF WriterState, Done
<1>4. m \in Foreign => w \notin {"sent", "persist"}
  BY DEF Begin, Begins
<1>5. /\ w \in {"new", "sent", "persist"} => Sought(m, w) = FirstId(m)
      /\ w = "read" => Sought(m, w) = "final"
      /\ w = "fetch" /\ (m \in Foreign \/ m \notin early') => Sought(m, w) = "final"
  <2>1. w = "fetch" => Sought(m, w) = IdAtTelegram(m)
    BY DEF Sought
  <2>2. w = "fetch" /\ (m \in Foreign \/ m \notin early') => stage[m] # "pending"
    BY <1>t, <1>1 DEF ForeignSound
  <2>3. w = "fetch" /\ (m \in Foreign \/ m \notin early') => Sought(m, w) = "final"
    BY <2>1, <2>2 DEF IdAtTelegram
  <2>. QED BY <2>3 DEF Sought
<1>. HIDE DEF x
<1>6. writer'[m][w] = x /\ writer' \in [Messages -> [Writers -> WriterState]]
  BY <1>1, <1>3, <1>t, WriterMoves
<1>7. TypeOK'
  BY <1>1, <1>6, <1>t DEF TypeOK
<1>8. WriterSound(m, w)'
  BY <1>3, <1>5, <1>6 DEF WriterSound, FirstId
<1>9. writer[m][w].pc = "waiting" /\ early \subseteq early'
  BY <1>1 DEF Waiting
<1>. QED BY <1>1, <1>3, <1>4, <1>7, <1>8, <1>9, MoveStep

LEMMA LookStep ==
  ASSUME MessagesSound, NEW m \in Messages, NEW w \in Writers, Look(m, w)
  PROVE  MessagesSound'
<1>t. /\ TypeOK /\ WriterSound(m, w) /\ RowsSound(m) /\ ForeignSound(m) /\ OwnSound(m)
      /\ writer[m][w] \in Looking /\ writer[m][w].pc = "look"
  <2>1. writer[m][w].pc = "look"
    BY DEF Look
  <2>. QED BY <2>1, WriterKinds DEF MessagesSound, MessageSound
<1>1. UNCHANGED <<stage, row, refused, failed, early, mishaps>>
  BY DEF Look
<1>2. m \in Foreign => w \notin {"sent", "persist"}
  BY <1>t DEF ForeignSound, Waiting
<1>3. CASE With(m, writer[m][w].id) = {}
  <2>1. CASE Inserts(w)
    <3>1. missed' = missed /\ writer' = [writer EXCEPT ![m][w] = [writer[m][w] EXCEPT !.pc = "insert"]]
      BY <1>3, <2>1, <1>t DEF Look, TypeOK
    <3>. DEFINE x == [writer[m][w] EXCEPT !.pc = "insert"]
    <3>2. x \in Looking /\ x.pc = "insert" /\ x.id = writer[m][w].id
      BY <1>t DEF Looking
    <3>3. x \in WriterState /\ x # Done
      BY <3>2 DEF Looking, WriterState, Done
    <3>. HIDE DEF x
    <3>4. writer'[m][w] = x /\ writer' \in [Messages -> [Writers -> WriterState]]
      BY <1>t, <3>1, <3>3, WriterMoves DEF x
    <3>5. TypeOK'
      BY <1>1, <1>t, <3>1, <3>4 DEF TypeOK
    <3>6. WriterSound(m, w)'
      BY <1>1, <1>t, <2>1, <3>2, <3>4 DEF WriterSound
    <3>7. writer' = [writer EXCEPT ![m][w] = x]
      BY <3>1 DEF x
    <3>. QED BY <1>1, <1>2, <1>t, <3>1, <3>2, <3>3, <3>5, <3>6, <3>7, MoveStep
  <2>2. CASE ~Inserts(w)
    <3>1. missed' = missed \cup {<<m, w>>} /\ writer' = [writer EXCEPT ![m][w] = Done]
      BY <1>3, <2>2 DEF Look
    <3>2. Done \in WriterState /\ Done.pc = "done"
      BY DEF WriterState, Done
    <3>3. writer'[m][w] = Done /\ writer' \in [Messages -> [Writers -> WriterState]]
      BY <1>t, <3>1, <3>2, WriterMoves
    <3>4. TypeOK'
      BY <1>1, <1>t, <3>1, <3>3 DEF TypeOK
    <3>5. WriterSound(m, w)'
      BY <3>2, <3>3 DEF WriterSound
    <3>. QED BY <1>1, <1>2, <3>1, <3>2, <3>4, <3>5, MoveStep
  <2>. QED BY <2>1, <2>2
<1>4. CASE With(m, writer[m][w].id) # {}
  <2>1. PICK r \in With(m, writer[m][w].id) :
          writer' = [writer EXCEPT ![m][w] =
            IF w = "fetch" THEN Done ELSE [pc |-> "update", row |-> r, seen |-> row[m][r].status]]
    BY <1>4 DEF Look
  <2>2. /\ missed' = missed /\ r \in Rows /\ Present(m, r) /\ row[m][r].id = writer[m][w].id
        /\ row[m][r].status \in Status
    <3>1. missed' = missed
      BY <1>4 DEF Look
    <3>2. r \in Rows /\ Present(m, r) /\ row[m][r].id = writer[m][w].id
      BY <2>1 DEF With, Present
    <3>. QED BY <1>t, <3>1, <3>2, WriterKinds DEF Row
  <2>. DEFINE x == IF w = "fetch" THEN Done ELSE [pc |-> "update", row |-> r, seen |-> row[m][r].status]
  <2>3. /\ x \in WriterState
        /\ w = "fetch" => x = Done /\ x.pc = "done"
        /\ w # "fetch" => x # Done /\ x.pc = "update" /\ x.row = r /\ x.seen = row[m][r].status
    BY <2>2 DEF WriterState, Done
  <2>. HIDE DEF x
  <2>4. writer' = [writer EXCEPT ![m][w] = x]
    BY <2>1 DEF x
  <2>5. writer'[m][w] = x /\ writer' \in [Messages -> [Writers -> WriterState]]
    BY <1>t, <2>3, <2>4, WriterMoves
  <2>6. TypeOK'
    BY <1>1, <1>t, <2>2, <2>5 DEF TypeOK
  <2>7. w \in {"sent", "persist"} => row[m][r].status # "read" /\ row[m][r].id = "temporary"
    <3>1. w \in {"sent", "persist"} => row[m][r].id = "temporary"
      BY <1>2, <1>t, <2>2 DEF WriterSound, FirstId
    <3>. QED BY <1>t, <2>2, <3>1 DEF RowsSound
  <2>8. w = "read" => row[m][r].id = "final"
    BY <1>t, <2>2 DEF WriterSound
  <2>9. WriterSound(m, w)'
    BY <1>1, <2>2, <2>3, <2>5, <2>7, <2>8 DEF WriterSound, Present
  <2>10. w = "sent" /\ m \notin early' => r = "heard"
    BY <1>1, <1>2, <1>t, <2>2, <2>7 DEF OwnSound, Rows
  <2>. QED BY <1>1, <1>2, <2>2, <2>3, <2>4, <2>6, <2>9, <2>10, MoveStep
<1>. QED BY <1>3, <1>4

LEMMA FailStep ==
  ASSUME MessagesSound, NEW m \in Messages, NEW w \in Writers, Fail(m, w)
  PROVE  MessagesSound'
<1>t. TypeOK /\ ForeignSound(m)
  BY DEF MessagesSound, MessageSound
<1>1. /\ writer' = [writer EXCEPT ![m][w] = Done] /\ failed' = failed \cup {<<m, w>>}
      /\ UNCHANGED <<stage, row, missed, refused, early>>
      /\ mishaps < MaxMishaps /\ mishaps' = mishaps + 1 /\ writer[m][w] # Waiting
  BY DEF Fail, Finish
<1>2. Done \in WriterState /\ Done.pc = "done"
  BY DEF WriterState, Done
<1>3. writer'[m][w] = Done /\ writer' \in [Messages -> [Writers -> WriterState]]
  BY <1>t, <1>1, <1>2, WriterMoves
<1>4. TypeOK'
  <2>1. mishaps' \in 0 .. MaxMishaps
    BY <1>1, <1>t, ConstantsAssumption DEF TypeOK
  <2>. QED BY <1>1, <1>3, <1>t, <2>1 DEF TypeOK
<1>5. WriterSound(m, w)'
  BY <1>2, <1>3 DEF WriterSound
<1>6. m \in Foreign => w \notin {"sent", "persist"}
  BY <1>1, <1>t DEF ForeignSound
<1>. QED BY <1>1, <1>2, <1>4, <1>5, <1>6, MoveStep

\* A writer that meets the unique index leaves the row alone.
LEMMA RefusedStep ==
  ASSUME MessagesSound, NEW m \in Messages, NEW w \in Writers,
         writer[m][w].pc \in {"insert", "update"},
         refused' = refused \cup {<<m, w>>}, Finish(m, w),
         UNCHANGED <<stage, row, missed, failed, early, mishaps>>
  PROVE  MessagesSound'
<1>t. TypeOK /\ ForeignSound(m)
  BY DEF MessagesSound, MessageSound
<1>1. writer' = [writer EXCEPT ![m][w] = Done]
  BY DEF Finish
<1>2. Done \in WriterState /\ Done.pc = "done"
  BY DEF WriterState, Done
<1>3. writer'[m][w] = Done /\ writer' \in [Messages -> [Writers -> WriterState]]
  BY <1>t, <1>1, <1>2, WriterMoves
<1>4. TypeOK'
  BY <1>3, <1>t DEF TypeOK
<1>5. WriterSound(m, w)'
  BY <1>2, <1>3 DEF WriterSound
<1>6. m \in Foreign => w \notin {"sent", "persist"}
  BY <1>t DEF ForeignSound, Waiting
<1>. QED BY <1>1, <1>2, <1>4, <1>5, <1>6, MoveStep

LEMMA InsertStep ==
  ASSUME MessagesSound, NEW m \in Messages, NEW w \in Writers, Insert(m, w)
  PROVE  MessagesSound'
<1>t. /\ TypeOK /\ MessageSound(m) /\ WriterSound(m, w) /\ RowsSound(m) /\ ForeignSound(m)
      /\ OwnSound(m) /\ ActorSound(m)
      /\ writer[m][w] \in Looking /\ writer[m][w].pc = "insert" /\ w \in {"new", "fetch"}
  <2>1. writer[m][w].pc = "insert"
    BY DEF Insert
  <2>2. WriterSound(m, w)
    BY DEF MessagesSound, MessageSound
  <2>. QED BY <2>1, <2>2, WriterKinds DEF MessagesSound, MessageSound, WriterSound, Inserts
<1>. DEFINE id == writer[m][w].id
            r == IF w = "new" THEN "heard" ELSE "fetched"
            x == [id |-> id, status |-> "delivered", by |-> "owner"]
<1>1. CASE With(m, id) # {}
  BY <1>1, <1>t, RefusedStep DEF Insert
<1>2. CASE With(m, id) = {}
  <2>1. row' = [row EXCEPT ![m][r] = x] /\ UNCHANGED <<stage, missed, refused, failed, early, mishaps>>
    BY <1>2 DEF Insert
  <2>2. x \in Row /\ x.id = id /\ x.status = "delivered" /\ r \in Rows
    BY <1>t DEF Row, Looking, Status, Rows
  <2>. HIDE DEF x
  <2>3. /\ row' \in [Messages -> [Rows -> RowState]]
        /\ row'[m][r] = x /\ row'[m][r] # Absent
        /\ \A s \in Rows \ {r} : row'[m][s] = row[m][s]
        /\ \A n \in Messages \ {m} : row'[n] = row[n]
    <3>. HIDE DEF r
    <3>. QED BY <1>t, <2>1, <2>2, RowWritten
  <2>4. Done \in WriterState /\ Done.pc = "done"
    BY DEF WriterState, Done
  <2>5. /\ writer' \in [Messages -> [Writers -> WriterState]] /\ writer'[m][w] = Done
        /\ \A v \in Writers \ {w} : writer'[m][v] = writer[m][v]
        /\ \A n \in Messages \ {m} : writer'[n] = writer[n]
    BY <1>t, <2>4, WriterMoves DEF Insert, Finish
  <2>6. TypeOK'
    BY <1>t, <2>1, <2>3, <2>5 DEF TypeOK
  <2>7. ~Present(m, r) /\ \A s \in Rows : Present(m, s) => row'[m][s] = row[m][s] /\ row[m][s].id # id
    <3>1. ~Present(m, r)
      BY <1>t DEF RowsSound
    <3>. QED BY <1>2, <2>3, <3>1 DEF With, Present
  <2>8. \A v \in Writers : WriterSound(m, v)'
    <3>1. WriterSound(m, w)'
      BY <2>4, <2>5 DEF WriterSound
    <3>2. ASSUME NEW v \in Writers \ {w} PROVE WriterSound(m, v)'
      <4>1. WriterSound(m, v) /\ writer'[m][v] = writer[m][v]
        BY <1>t, <2>5 DEF MessageSound
      <4>2. writer[m][v].pc = "update" => writer[m][v].row \in Rows
        BY <1>t, WriterKinds DEF Updating
      <4>. QED BY <2>1, <2>7, <4>1, <4>2 DEF WriterSound, Present
    <3>. QED BY <3>1, <3>2
  <2>9. RowsSound(m)'
    BY <1>t, <2>2, <2>3, <2>4, <2>5 DEF RowsSound, Present, Writers, Rows
  <2>10. ForeignSound(m)'
    <3>1. ASSUME m \in Foreign PROVE id = "final" /\ \A s \in Rows : ~Present(m, s)
      BY <1>t, <2>7, <3>1 DEF ForeignSound, WriterSound, FirstId
    <3>2. writer'[m]["sent"] = writer[m]["sent"] /\ writer'[m]["persist"] = writer[m]["persist"]
      BY <1>t, <2>5 DEF Writers
    <3>. QED BY <1>t, <2>1, <2>2, <2>3, <3>1, <3>2 DEF ForeignSound, Present, Rows
  <2>11. OwnSound(m)'
    <3>1. writer'[m]["sent"] = writer[m]["sent"]
      BY <1>t, <2>5 DEF Writers
    <3>2. m \notin early /\ w = "fetch" => id = "final"
      BY <1>t DEF WriterSound
    <3>3. m \notin Foreign /\ m \notin early => ~(Ended(m, "sent") /\ ~Astray(m, "sent"))
      BY <1>t, <2>7, <3>2 DEF OwnSound, Rows
    <3>. QED BY <1>t, <2>1, <2>2, <2>3, <3>1, <3>2, <3>3 DEF OwnSound, Present, Ended, Astray, Rows
  <2>12. ActorSound(m)'
    <3>1. writer'[m]["persist"] = writer[m]["persist"]
      BY <1>t, <2>5 DEF Writers
    <3>. QED BY <1>t, <2>1, <2>7, <3>1 DEF ActorSound, Present, Ended, Astray
  <2>13. MessageSound(m)'
    BY <2>8, <2>9, <2>10, <2>11, <2>12 DEF MessageSound
  <2>14. ASSUME NEW n \in Messages \ {m} PROVE MessageSound(n)'
    BY <2>1, <2>3, <2>5, <2>14, Untouched DEF MessagesSound
  <2>. QED BY <2>6, <2>13, <2>14 DEF MessagesSound
<1>. QED BY <1>1, <1>2

LEMMA UpdateStep ==
  ASSUME MessagesSound, NEW m \in Messages, NEW w \in Writers, Update(m, w)
  PROVE  MessagesSound'
<1>. DEFINE r == writer[m][w].row
            seen == writer[m][w].seen
            x == Written(row[m][r], w, seen)
<1>t. /\ TypeOK /\ MessageSound(m) /\ WriterSound(m, w) /\ RowsSound(m) /\ ForeignSound(m)
      /\ OwnSound(m) /\ ActorSound(m)
      /\ writer[m][w].pc = "update" /\ r \in Rows /\ Present(m, r) /\ row[m][r] \in Row
  <2>1. writer[m][w].pc = "update"
    BY DEF Update
  <2>2. MessageSound(m) /\ WriterSound(m, w)
    BY DEF MessagesSound, MessageSound
  <2>3. r \in Rows /\ Present(m, r)
    BY <2>1, <2>2, WriterKinds DEF MessagesSound, WriterSound, Updating
  <2>. QED BY <2>1, <2>2, <2>3, WriterKinds DEF MessagesSound, MessageSound
<1>1. CASE ~(With(m, x.id) \subseteq {r})
  BY <1>1, <1>t, RefusedStep DEF Update
<1>2. CASE With(m, x.id) \subseteq {r}
  <2>1. row' = [row EXCEPT ![m][r] = x] /\ UNCHANGED <<stage, missed, refused, failed, early, mishaps>>
    BY <1>2 DEF Update
  <2>2. /\ x \in Row
        /\ x.id = IF w = "sent" THEN "final" ELSE row[m][r].id
        /\ x.status \in {row[m][r].status, StatusBy(w)}
        /\ x.by = IF w = "persist" THEN "actor" ELSE row[m][r].by
    BY <1>t DEF Written, StatusBy, Row, Ids, Status
  <2>0. /\ \A s \in Rows : Present(m, s) /\ row[m][s].id = x.id => s = r
    BY <1>2 DEF With, Present
  <2>. HIDE DEF x
  <2>3. /\ row' \in [Messages -> [Rows -> RowState]]
        /\ row'[m][r] = x /\ row'[m][r] # Absent
        /\ \A s \in Rows \ {r} : row'[m][s] = row[m][s]
        /\ \A n \in Messages \ {m} : row'[n] = row[n]
    BY <1>t, <2>1, <2>2, RowWritten
  <2>4. Done \in WriterState /\ Done.pc = "done"
    BY DEF WriterState, Done
  <2>5. /\ writer' \in [Messages -> [Writers -> WriterState]] /\ writer'[m][w] = Done
        /\ \A v \in Writers \ {w} : writer'[m][v] = writer[m][v]
        /\ \A n \in Messages \ {m} : writer'[n] = writer[n]
    BY <1>t, <2>4, WriterMoves DEF Update, Finish
  <2>6. TypeOK'
    BY <1>t, <2>1, <2>3, <2>5 DEF TypeOK
  <2>7. \A s \in Rows :
          /\ (row'[m][s] # Absent) <=> Present(m, s)
          /\ Present(m, s) /\ row[m][s].id = "final" => row'[m][s].id = "final"
          /\ Present(m, s) /\ row[m][s].by = "actor" => row'[m][s].by = "actor"
    BY <1>t, <2>2, <2>3 DEF Present
  <2>8. \A v \in Writers : WriterSound(m, v)'
    <3>1. WriterSound(m, w)'
      BY <2>4, <2>5 DEF WriterSound
    <3>2. ASSUME NEW v \in Writers \ {w} PROVE WriterSound(m, v)'
      <4>1. WriterSound(m, v) /\ writer'[m][v] = writer[m][v]
        BY <1>t, <2>5 DEF MessageSound
      <4>2. writer[m][v].pc = "update" => writer[m][v].row \in Rows
        BY <1>t, WriterKinds DEF Updating
      <4>. QED BY <2>1, <2>7, <4>1, <4>2 DEF WriterSound, Present
    <3>. QED BY <3>1, <3>2
  <2>9. RowsSound(m)'
    <3>1. x.status = "read" => x.id = "final"
      <4>1. CASE w = "read"
        BY <1>t, <2>2, <4>1 DEF WriterSound
      <4>2. CASE w # "read"
        <5>1. StatusBy(w) # "read"
          BY <4>2 DEF StatusBy, Writers
        <5>. QED BY <1>t, <2>2, <5>1 DEF RowsSound
      <4>. QED BY <4>1, <4>2
    <3>2. \A v \in {"new", "fetch"} : writer'[m][v].pc \in {"waiting", "look", "insert"}
            => writer[m][v].pc \in {"waiting", "look", "insert"}
      BY <2>4, <2>5 DEF Writers
    <3>3. \A s \in Rows : row'[m][s] # Absent /\ row'[m][s].status = "read" => row'[m][s].id = "final"
      BY <1>t, <2>3, <3>1 DEF RowsSound, Present
    <3>. QED BY <1>t, <2>7, <3>2, <3>3 DEF RowsSound, Present, Rows
  <2>10. ForeignSound(m)'
    <3>1. m \in Foreign => w \notin {"sent", "persist"}
      BY <1>t DEF ForeignSound, Waiting
    <3>2. m \in Foreign => writer'[m]["sent"] = writer[m]["sent"] /\ writer'[m]["persist"] = writer[m]["persist"]
      BY <2>5, <3>1 DEF Writers
    <3>. QED BY <1>t, <2>1, <2>7, <3>2 DEF ForeignSound, Present, Rows
  <2>11. OwnSound(m)'
    <3>1. CASE w = "sent"
      <4>1. SUFFICES ASSUME m \notin Foreign, m \notin early PROVE OwnSound(m)'
        BY <2>1 DEF OwnSound
      <4>2. r = "heard" /\ x.id = "final"
        BY <1>t, <2>2, <3>1, <4>1 DEF OwnSound
      <4>3. ~Present(m, "fetched")
        BY <1>t, <2>0, <4>1, <4>2 DEF OwnSound, Rows
      <4>4. writer'[m]["sent"].pc # "update"
        BY <2>4, <2>5, <3>1
      <4>. QED BY <2>3, <2>7, <4>2, <4>3, <4>4 DEF OwnSound, Present, Rows
    <3>2. CASE w # "sent"
      <4>1. writer'[m]["sent"] = writer[m]["sent"]
        BY <2>5, <3>2 DEF Writers
      <4>. QED BY <1>t, <2>1, <2>7, <4>1 DEF OwnSound, Present, Ended, Astray, Rows
    <3>. QED BY <3>1, <3>2
  <2>12. ActorSound(m)'
    <3>1. CASE w = "persist"
      BY <1>t, <2>2, <2>3, <3>1 DEF ActorSound, Present
    <3>2. CASE w # "persist"
      <4>1. writer'[m]["persist"] = writer[m]["persist"]
        BY <2>5, <3>2 DEF Writers
      <4>. QED BY <1>t, <2>1, <2>7, <4>1 DEF ActorSound, Present, Ended, Astray
    <3>. QED BY <3>1, <3>2
  <2>13. MessageSound(m)'
    BY <2>8, <2>9, <2>10, <2>11, <2>12 DEF MessageSound
  <2>14. ASSUME NEW n \in Messages \ {m} PROVE MessageSound(n)'
    BY <2>1, <2>3, <2>5, <2>14, Untouched DEF MessagesSound
  <2>. QED BY <2>6, <2>13, <2>14 DEF MessagesSound
<1>. QED BY <1>1, <1>2

LEMMA MessagesSoundStep == MessagesSound /\ [Next]_vars => MessagesSound'
<1>. SUFFICES ASSUME MessagesSound, [Next]_vars PROVE MessagesSound'
  OBVIOUS
<1>1. CASE UNCHANGED vars
  <2>1. TypeOK'
    BY <1>1 DEF vars, history, MessagesSound, TypeOK
  <2>2. \A n \in Messages : MessageSound(n)'
    BY <1>1, Untouched DEF vars, history, MessagesSound
  <2>. QED BY <2>1, <2>2 DEF MessagesSound
<1>2. CASE Next
  BY <1>2, StageStep, BeginStep, LookStep, InsertStep, UpdateStep, FailStep DEF Next
<1>. QED BY <1>1, <1>2

-----------------------------------------------------------------------------
(* Theorems *)

\* The inductive invariant of the five writers of a message's rows.
THEOREM MessagesAlwaysSound == Spec => []MessagesSound
BY MessagesSoundInit, MessagesSoundStep, PTL DEF Spec

\* Messages, rows and writers keep their types.
THEOREM TypeCorrect == Spec => []TypeOK
<1>1. MessagesSound => TypeOK
  BY DEF MessagesSound
<1>. QED BY <1>1, MessagesAlwaysSound, PTL

\* A message has one row once saveOutboundMessage and the handler of its acceptance
\* are through, unless a named order of the two or an early history gave it two.
THEOREM AlwaysShownOnce == Spec => []ShownOnce
<1>1. MessagesSound => ShownOnce
  BY DEF MessagesSound, MessageSound, ForeignSound, OwnSound, ShownOnce
<1>. QED BY <1>1, MessagesAlwaysSound, PTL

\* The assistant named by persistActorForTelegramMessage stays named.
THEOREM AlwaysNamesActor == Spec => []NamesActor
<1>1. MessagesSound => NamesActor
  BY DEF MessagesSound, MessageSound, ActorSound, NamesActor
<1>. QED BY <1>1, MessagesAlwaysSound, PTL

\* A read row is set back only by a writer that had looked it up before, or by the
\* new-message handler.
THEOREM ReadAlwaysStays == Spec => ReadStays
<1>. DEFINE Stays == \A m \in Messages, r \in Rows :
       Present(m, r) /\ row[m][r].status = "read" /\ row'[m][r].status # "read" =>
         \E w \in Writers : Regresses(m, w, r)
<1>1. ASSUME MessagesSound, [Next]_vars PROVE [Stays]_vars
  <2>. SUFFICES ASSUME Next, NEW m \in Messages, NEW r \in Rows,
                       Present(m, r), row[m][r].status = "read", row'[m][r].status # "read"
                PROVE  \E w \in Writers : Regresses(m, w, r)
    BY <1>1
  <2>t. TypeOK /\ MessageSound(m)
    BY <1>1 DEF MessagesSound
  <2>1. PICK n \in Messages, w \in Writers : Insert(n, w) \/ Update(n, w)
    BY DEF Next, Send, Accept, BeRead, Begin, Look, Fail
  <2>2. CASE Insert(n, w)
    <3>1. n = m /\ w \in {"new", "fetch"} /\ r = IF w = "new" THEN "heard" ELSE "fetched"
      <4>1. writer[n][w].pc = "insert" /\ WriterSound(n, w)
        BY <1>1, <2>2 DEF Insert, MessagesSound, MessageSound
      <4>2. w \in {"new", "fetch"}
        BY <4>1 DEF WriterSound, Inserts
      <4>3. row'[m][r] # row[m][r]
        OBVIOUS
      <4>. DEFINE s == IF w = "new" THEN "heard" ELSE "fetched"
                  x == [id |-> writer[n][w].id, status |-> "delivered", by |-> "owner"]
      <4>4. row' = [row EXCEPT ![n][s] = x]
        BY <2>2, <4>3 DEF Insert
      <4>5. s \in Rows
        BY DEF Rows
      <4>6. n = m /\ r = s
        <5>. HIDE DEF s, x
        <5>. QED BY <2>t, <4>3, <4>4, <4>5 DEF TypeOK
      <4>. QED BY <4>2, <4>6
    <3>2. writer[m][w].pc = "insert"
      BY <2>2, <3>1 DEF Insert
    <3>. QED BY <2>t, <3>1, <3>2 DEF MessageSound, RowsSound
  <2>3. CASE Update(n, w)
    <3>. DEFINE x == Written(row[n][writer[n][w].row], w, writer[n][w].seen)
    <3>1. row' = [row EXCEPT ![n][writer[n][w].row] = x] /\ writer[n][w].pc = "update"
      BY <2>3 DEF Update
    <3>2. n = m /\ r = writer[n][w].row /\ row'[m][r] = x
      <4>. HIDE DEF x
      <4>. QED BY <2>t, <3>1 DEF TypeOK
    <3>3. x.status # "read" /\ x.status = IF StatusBy(w) = writer[m][w].seen THEN row[m][r].status ELSE StatusBy(w)
      BY <3>2 DEF Written
    <3>4. w \notin {"read", "fetch"}
      BY <2>t, <3>1, <3>2, <3>3 DEF StatusBy, MessageSound, WriterSound
    <3>5. w \in {"sent", "persist"} => writer[m][w].seen # "read"
      BY <2>t, <3>1, <3>2 DEF MessageSound, WriterSound
    <3>. QED BY <3>1, <3>2, <3>4, <3>5 DEF Regresses, Writers
  <2>. QED BY <2>1, <2>2, <2>3
<1>2. ReadStays <=> [][Stays]_vars
  BY DEF ReadStays
<1>. QED BY <1>1, <1>2, MessagesAlwaysSound, PTL DEF Spec
-----------------------------------------------------------------------------
(* TelegramConversations: the inductive invariant *)

\* The chat of a row.
ChatOf(k) == conv[k].ext.chat

\* The row of a job is there.
JobsFound == \A j \in Jobs : job[j].pc \in {"update", "insert"} => IsConv(job[j].row)

\* Two rows of a chat have been noticed.
TwiceKnown == Twice(conv) \subseteq twice

\* As long as names are apart, a row goes by names of its own chat.
RowsNamed == \A k \in Convs : conv[k].name \in used[ChatOf(k)]

\* What a job has found is of its own chat; what made its creation fail is so too, or
\* another user's row of the same id.
JobOwn(j) ==
  job[j] # Idle =>
    /\ TaskOf(j).name \in used[TaskOf(j).chat]
    /\ job[j].pc \in {"update", "insert"} => ChatOf(job[j].row) = TaskOf(j).chat
    /\ At(j, "again") =>
         /\ TaskOf(j).kind # "history"
         /\ (\E k \in Convs : ChatOf(k) = TaskOf(j).chat) \/ TaskOf(j).chat \in Elsewhere

StoredOwn == \A s \in stored : IsConv(s.row) /\ ChatOf(s.row) = s.chat

ConversationsInv ==
  /\ JobsFound /\ TwiceKnown
  /\ NamesApart =>
       RowsNamed /\ (\A j \in Jobs : JobOwn(j)) /\ StoredOwn /\ lost \subseteq twice \cup Elsewhere

-----------------------------------------------------------------------------
(* TelegramConversations: types *)

ConvRow == [ext : ExtId, name : AnyName]

LEMMA ConvFacts ==
  ASSUME ConversationsTypeOK
  PROVE  /\ \A r \in ConvRow : r # NoConv /\ r.ext \in ExtId /\ r.name \in AnyName
         /\ \A k \in Convs : k \in RowIds /\ conv[k] \in ConvRow
         /\ \A k \in RowIds : conv[k] \in ConvRow => k \in Convs
         /\ conv \in [RowIds -> {NoConv} \cup ConvRow]
<1>1. \A r \in ConvRow : r # NoConv
  BY DEF ConvRow, NoConv
<1>2. conv \in [RowIds -> {NoConv} \cup ConvRow]
  BY DEF ConversationsTypeOK, ConvState, ConvRow
<1>. QED BY <1>1, <1>2 DEF Convs, IsConv, ConvRow

\* The two ids of a chat.
LEMMA IdFacts ==
  ASSUME NEW c \in Chats
  PROVE  /\ Plain(c) \in ExtId /\ Prefixed(c) \in ExtId /\ Plain(c).chat = c /\ Prefixed(c).chat = c
         /\ \A x \in ExtId : x.chat = c => x \in {Plain(c), Prefixed(c)}
<1>1. Plain(c) \in ExtId /\ Prefixed(c) \in ExtId /\ Plain(c).chat = c /\ Prefixed(c).chat = c
  BY DEF Plain, Prefixed, ExtId
<1>2. ASSUME NEW x \in ExtId, x.chat = c
      PROVE  x \in {Plain(c), Prefixed(c)}
  <2>1. x = [chat |-> c, prefixed |-> x.prefixed] /\ x.prefixed \in BOOLEAN
    BY <1>2 DEF ExtId
  <2>. QED BY <2>1 DEF Plain, Prefixed
<1>. QED BY <1>1, <1>2

LEMMA TargetFacts ==
  ASSUME NEW t \in Task
  PROVE  /\ Target(t) \in ExtId /\ Target(t).chat = t.chat /\ t.chat \in Chats /\ t.name \in AnyName
         /\ t.kind # "history" => Target(t) = Plain(t.chat)
BY IdFacts DEF Target, Task

LEMMA FoundFacts ==
  ASSUME ConversationsTypeOK, NEW t \in Task
  PROVE  /\ \A k \in FoundById(t) : k \in Convs /\ ChatOf(k) = t.chat
         /\ t.kind # "history" /\ (\E k \in Convs : ChatOf(k) = t.chat) => FoundById(t) # {}
<1>1. t.chat \in Chats /\ Target(t).chat = t.chat /\ (t.kind # "history" => Target(t) = Plain(t.chat))
  BY TargetFacts
<1>2. Plain(t.chat).chat = t.chat /\ Prefixed(t.chat).chat = t.chat
  BY <1>1, IdFacts
<1>3. \A k \in FoundById(t) : k \in Convs /\ ChatOf(k) = t.chat
  BY <1>1, <1>2 DEF FoundById, WithExt, ChatOf
<1>4. ASSUME t.kind # "history", NEW k \in Convs, ChatOf(k) = t.chat
      PROVE  FoundById(t) # {}
  <2>1. conv[k].ext \in ExtId
    BY ConvFacts
  <2>2. conv[k].ext \in {Plain(t.chat), Prefixed(t.chat)}
    BY <1>1, <1>4, <2>1, IdFacts DEF ChatOf
  <2>. QED BY <1>1, <1>4, <2>2 DEF FoundById, WithExt
<1>. QED BY <1>3, <1>4

Looks == [pc : {"byName", "byId", "create", "again"}, task : Task]
Updates == [pc : {"update"}, task : Task, row : RowIds, seen : ConvState]
Stores == [pc : {"insert"}, task : Task, row : RowIds]

LEMMA TaskFacts ==
  ASSUME ConversationsTypeOK, NEW j \in Jobs
  PROVE  /\ job \in [Jobs -> {Idle} \cup Looks \cup Updates \cup Stores]
         /\ job[j] # Idle => TaskOf(j) \in Task
         /\ job[j].pc \in {"byName", "byId", "create", "again", "update", "insert"} => job[j] # Idle
         /\ job[j].pc \in {"update", "insert"} => job[j].row \in RowIds
<1>1. job \in [Jobs -> {Idle} \cup Looks \cup Updates \cup Stores]
  BY DEF ConversationsTypeOK, JobState, Looks, Updates, Stores
<1>2. job[j] \in {Idle} \cup Looks \cup Updates \cup Stores
  BY <1>1
<1>3. Idle.pc = "idle"
  BY DEF Idle
<1>4. job[j] # Idle => TaskOf(j) \in Task
  BY <1>2 DEF Looks, Updates, Stores, TaskOf
<1>5. job[j].pc \in {"update", "insert"} => job[j].row \in RowIds
  BY <1>2, <1>3 DEF Looks, Updates, Stores
<1>. QED BY <1>1, <1>3, <1>4, <1>5

\* A step of one job leaves the others alone.
Turns(j, next) ==
  /\ next \in {Idle} \cup Looks \cup Updates \cup Stores
  /\ job' = [job EXCEPT ![j] = next]

LEMMA TurnFacts ==
  ASSUME ConversationsTypeOK, NEW j \in Jobs, NEW next, Turns(j, next)
  PROVE  /\ job' \in [Jobs -> {Idle} \cup Looks \cup Updates \cup Stores]
         /\ job'[j] = next
         /\ \A i \in Jobs \ {j} : job'[i] = job[i]
BY TaskFacts DEF Turns

LEMMA TakeFacts ==
  ASSUME ConversationsTypeOK, NEW j \in Jobs, job[j] # Idle, NEW k \in RowIds, Take(j, k)
  PROVE  \E next : Turns(j, next) /\ next # Idle /\ next.pc = "update" /\ next.task = TaskOf(j) /\ next.row = k
<1>. DEFINE next == [pc |-> "update", task |-> TaskOf(j), row |-> k, seen |-> conv[k]]
<1>1. TaskOf(j) \in Task /\ conv[k] \in ConvState
  BY TaskFacts DEF ConversationsTypeOK
<1>2. next \in Updates
  BY <1>1 DEF Updates
<1>3. next # Idle
  BY DEF Idle
<1>4. Turns(j, next)
  BY <1>2 DEF Turns, Take
<1>. QED BY <1>3, <1>4

LEMMA ConvGotoFacts ==
  ASSUME ConversationsTypeOK, NEW j \in Jobs, job[j] # Idle, NEW pc \in {"byId", "create", "again"}, Goto(j, pc)
  PROVE  \E next : Turns(j, next) /\ next # Idle /\ next.pc = pc /\ next.task = TaskOf(j)
<1>. DEFINE next == [pc |-> pc, task |-> TaskOf(j)]
<1>1. TaskOf(j) \in Task
  BY TaskFacts
<1>2. next \in Looks
  BY <1>1 DEF Looks
<1>3. next # Idle
  BY DEF Idle
<1>4. Turns(j, next)
  BY <1>2 DEF Turns, Goto
<1>. QED BY <1>3, <1>4

LEMMA SettleFacts ==
  ASSUME ConversationsTypeOK, NEW j \in Jobs, job[j] # Idle, NEW k \in RowIds, Settle(j, k)
  PROVE  \E next : /\ Turns(j, next)
                   /\ next # Idle => next.pc = "insert" /\ next.task = TaskOf(j) /\ next.row = k
<1>. DEFINE last == [pc |-> "insert", task |-> TaskOf(j), row |-> k]
            next == IF TaskOf(j).kind = "chat" THEN Idle ELSE last
<1>1. TaskOf(j) \in Task
  BY TaskFacts
<1>2. last \in Stores /\ last.pc = "insert" /\ last.task = TaskOf(j) /\ last.row = k
  BY <1>1 DEF Stores
<1>3. Turns(j, next)
  BY <1>2 DEF Turns, Settle
<1>. QED BY <1>2, <1>3

LEMMA GiveUpFacts ==
  ASSUME NEW j \in Jobs, GiveUp(j)
  PROVE  Turns(j, Idle)
BY DEF GiveUp, Turns

\* The job an action is about is not idle, and its task and rows are of their types.
LEMMA ActingFacts ==
  ASSUME ConversationsTypeOK, NEW j \in Jobs, JobStep(j)
  PROVE  /\ job[j] # Idle /\ TaskOf(j) \in Task
         /\ UpdateConv(j) \/ StoreMessage(j) => job[j].row \in RowIds
BY TaskFacts DEF JobStep, FindByName, FindById, UpdateConv, Create, FindAgain, StoreMessage, JobFails, At

LEMMA JobTurns ==
  ASSUME ConversationsTypeOK, NEW j \in Jobs, JobStep(j)
  PROVE  \E next : Turns(j, next)
<1>1. job[j] # Idle /\ TaskOf(j) \in Task
  BY ActingFacts
<1>2. \A k \in Convs : k \in RowIds
  BY ConvFacts
<1>3. \A k \in WithName(TaskOf(j).chat, TaskOf(j).name) \cup FoundById(TaskOf(j)) : k \in RowIds
  BY <1>1, <1>2, FoundFacts DEF WithName
<1>4. CASE FindByName(j)
  BY <1>1, <1>3, <1>4, TakeFacts, ConvGotoFacts DEF FindByName
<1>5. CASE FindById(j)
  BY <1>1, <1>3, <1>5, TakeFacts, ConvGotoFacts DEF FindById
<1>6. CASE UpdateConv(j)
  <2>1. job[j].row \in RowIds
    BY <1>6, ActingFacts
  <2>. QED BY <1>1, <1>6, <2>1, SettleFacts, GiveUpFacts DEF UpdateConv
<1>7. CASE Create(j)
  BY <1>1, <1>7, SettleFacts, GiveUpFacts, ConvGotoFacts DEF Create
<1>8. CASE FindAgain(j)
  BY <1>1, <1>3, <1>8, SettleFacts, GiveUpFacts DEF FindAgain
<1>9. CASE StoreMessage(j) \/ JobFails(j)
  BY <1>9 DEF StoreMessage, JobFails, Turns
<1>. QED BY <1>4, <1>5, <1>6, <1>7, <1>8, <1>9 DEF JobStep

LEMMA NamesTyped ==
  ASSUME ConversationsTypeOK, NEW kind \in Kinds, NEW c \in Chats
  PROVE  NameFor(kind, c) \in AnyName
BY DEF NameFor, Kinds, AnyName, ConversationsTypeOK

\* A row of any user that has id x.
SameId(i, x) == IdOf[ChatOf(i)] = IdOf[x.chat] /\ conv[i].ext.prefixed = x.prefixed

\* What the write of an update leaves of a row: its own id or the writer's, its
\* own name or the writer's.
Rewritten(old, t, new) ==
  /\ new \in ConvRow
  /\ new.ext \in {old.ext, Target(t)}
  /\ new.name \in {old.name, t.name}

LEMMA UpdateWrites ==
  ASSUME ConversationsTypeOK, JobsFound, NEW j \in Jobs, UpdateConv(j)
  PROVE  LET k == job[j].row
             t == TaskOf(j) IN
           /\ k \in Convs
           /\ \E new : /\ Rewritten(conv[k], t, new)
                       /\ \/ conv' = [conv EXCEPT ![k] = new] /\ twice' = twice \cup Twice(conv')
                             /\ Settle(j, k) /\ lost' = lost
                          \/ /\ \E i \in Convs \ {k} : SameId(i, new.ext)
                             /\ GiveUp(j) /\ conv' = conv /\ twice' = twice
<1>. DEFINE k == job[j].row
            t == TaskOf(j)
            seen == job[j].seen
            new == [ext |-> Changed(conv[k].ext, seen.ext, Target(t)),
                    name |-> Changed(conv[k].name, seen.name, NewName(t, seen.name))]
<1>1. k \in RowIds /\ t \in Task
  BY ActingFacts DEF JobStep
<1>2. k \in Convs
  BY <1>1 DEF JobsFound, UpdateConv, At, Convs
<1>3. conv[k].ext \in ExtId /\ conv[k].name \in AnyName
  BY <1>2, ConvFacts
<1>4. new.ext \in {conv[k].ext, Target(t)} /\ new.name \in {conv[k].name, t.name}
  BY DEF Changed, NewName
<1>5. new \in ConvRow
  BY <1>1, <1>3, <1>4, TargetFacts DEF ConvRow
<1>6. Rewritten(conv[k], t, new)
  BY <1>4, <1>5 DEF Rewritten
<1>7. CASE Occupied(new.ext) \subseteq {k}
  <2>1. conv' = [conv EXCEPT ![k] = new] /\ twice' = twice \cup Twice(conv') /\ Settle(j, k) /\ lost' = lost
    BY <1>7 DEF UpdateConv
  <2>. QED BY <1>2, <1>6, <2>1
<1>8. CASE ~(Occupied(new.ext) \subseteq {k})
  <2>1. GiveUp(j) /\ conv' = conv /\ twice' = twice
    BY <1>8 DEF UpdateConv
  <2>2. \E i \in Convs \ {k} : SameId(i, new.ext)
    BY <1>8 DEF Occupied, SameId, ChatOf
  <2>. QED BY <1>2, <1>6, <2>1, <2>2
<1>. QED BY <1>7, <1>8

\* A row that is created, and one that FindAgain renames.
LEMMA CreateWrites ==
  ASSUME ConversationsTypeOK, NEW j \in Jobs, Create(j)
  PROVE  LET t == TaskOf(j) IN
           \/ \E k \in RowIds \ Convs, new \in ConvRow :
                /\ new.ext = Target(t) /\ new.name = t.name
                /\ conv' = [conv EXCEPT ![k] = new] /\ twice' = twice \cup Twice(conv')
                /\ Settle(j, k) /\ lost' = lost
           \/ /\ conv' = conv /\ twice' = twice
              /\ \E i \in Convs : SameId(i, Target(t))
              /\ \/ t.kind = "history" /\ GiveUp(j)
                 \/ t.kind # "history" /\ Goto(j, "again") /\ lost' = lost
<1>. DEFINE t == TaskOf(j)
            new == [ext |-> Target(t), name |-> t.name]
<1>1. t \in Task
  BY ActingFacts DEF JobStep
<1>2. new \in ConvRow /\ new.ext = Target(t) /\ new.name = t.name
  BY <1>1, TargetFacts DEF ConvRow
<1>3. CASE Occupied(Target(t)) = {}
  <2>1. PICK k \in RowIds \ Convs : /\ conv' = [conv EXCEPT ![k] = new] /\ twice' = twice \cup Twice(conv')
                                    /\ Settle(j, k) /\ lost' = lost
    BY <1>3 DEF Create
  <2>. QED BY <1>2, <2>1
<1>4. CASE Occupied(Target(t)) # {}
  <2>1. \E i \in Convs : SameId(i, Target(t))
    BY <1>4 DEF Occupied, SameId, ChatOf
  <2>2. /\ conv' = conv /\ twice' = twice
        /\ IF t.kind = "history" THEN GiveUp(j) ELSE Goto(j, "again") /\ lost' = lost
    BY <1>4 DEF Create
  <2>. QED BY <2>1, <2>2
<1>. QED BY <1>3, <1>4

LEMMA AgainWrites ==
  ASSUME ConversationsTypeOK, NEW j \in Jobs, FindAgain(j)
  PROVE  LET t == TaskOf(j) IN
           \/ \E k \in FoundById(t) :
                /\ Settle(j, k) /\ lost' = lost
                /\ \/ conv' = conv
                   \/ \E new \in ConvRow : /\ new.ext = conv[k].ext /\ new.name = t.name
                                           /\ conv' = [conv EXCEPT ![k] = new]
           \/ FoundById(t) = {} /\ GiveUp(j) /\ conv' = conv
<1>. DEFINE t == TaskOf(j)
<1>1. t \in Task
  BY ActingFacts DEF JobStep
<1>2. CASE FoundById(t) # {}
  <2>1. PICK k \in FoundById(t) :
          /\ conv' = IF t.kind = "chat" THEN [conv EXCEPT ![k].name = t.name] ELSE conv
          /\ Settle(j, k) /\ lost' = lost
    BY <1>2 DEF FindAgain
  <2>2. k \in Convs /\ conv[k] \in ConvRow
    BY <1>1, FoundFacts, ConvFacts
  <2>. DEFINE new == [conv[k] EXCEPT !.name = t.name]
  <2>3. new \in ConvRow /\ new.ext = conv[k].ext /\ new.name = t.name
    BY <1>1, <2>2, TargetFacts DEF ConvRow
  <2>4. conv' = conv \/ conv' = [conv EXCEPT ![k] = new]
    BY <2>1
  <2>. HIDE DEF new
  <2>. QED BY <2>1, <2>3, <2>4
<1>3. CASE FoundById(t) = {}
  BY <1>3 DEF FindAgain
<1>. QED BY <1>2, <1>3

LEMMA RowsTyped ==
  ASSUME ConversationsTypeOK, JobsFound, NEW j \in Jobs, JobStep(j)
  PROVE  /\ conv' \in [RowIds -> {NoConv} \cup ConvRow]
         /\ \A k \in Convs : IsConv(k)'
<1>1. conv \in [RowIds -> {NoConv} \cup ConvRow] /\ (\A r \in ConvRow : r # NoConv) /\ \A k \in Convs : k \in RowIds
  BY ConvFacts
<1>2. conv' = conv \/ \E k \in RowIds, new \in ConvRow : conv' = [conv EXCEPT ![k] = new]
  <2>1. CASE UpdateConv(j)
    BY <1>1, <2>1, UpdateWrites DEF Rewritten
  <2>2. CASE Create(j)
    BY <2>2, CreateWrites
  <2>3. CASE FindAgain(j)
    <3>1. \A k \in FoundById(TaskOf(j)) : k \in RowIds
      BY <1>1, ActingFacts, FoundFacts
    <3>. QED BY <2>3, <3>1, AgainWrites
  <2>4. CASE FindByName(j) \/ FindById(j) \/ StoreMessage(j) \/ JobFails(j)
    BY <2>4 DEF FindByName, FindById, StoreMessage, JobFails
  <2>. QED BY <2>1, <2>2, <2>3, <2>4 DEF JobStep
<1>. QED BY <1>1, <1>2 DEF IsConv, Convs

\* Only a job's step changes rows, jobs and what is stored; only a start adds a job.
LEMMA OtherSteps ==
  ASSUME ConversationsNext, ~ \E j \in Jobs : JobStep(j)
  PROVE  /\ UNCHANGED <<conv, stored, twice, lost>>
         /\ \/ UNCHANGED <<job, used>>
            \/ \E j \in Jobs, kind \in Kinds, c \in Chats : Start(j, kind, c)
BY DEF ConversationsNext, Rename, SyncContact, Start, histories

LEMMA StartTurns ==
  ASSUME ConversationsTypeOK, NEW j \in Jobs, NEW kind \in Kinds, NEW c \in Chats, Start(j, kind, c)
  PROVE  \E next : /\ Turns(j, next) /\ next.pc = "byName" /\ next # Idle /\ next.task \in Task
                   /\ used' = [used EXCEPT ![next.task.chat] = used[next.task.chat] \cup {next.task.name}]
<1>. DEFINE t == [kind |-> kind, chat |-> c, name |-> NameFor(kind, c)]
            next == [pc |-> "byName", task |-> t]
<1>1. t \in Task
  BY NamesTyped DEF Task
<1>2. next \in Looks
  BY <1>1 DEF Looks
<1>3. next # Idle
  BY DEF Idle
<1>4. Turns(j, next)
  BY <1>2 DEF Turns, Start
<1>5. used' = [used EXCEPT ![c] = used[c] \cup {NameFor(kind, c)}]
  BY DEF Start
<1>6. used' = [used EXCEPT ![next.task.chat] = used[next.task.chat] \cup {next.task.name}]
  BY <1>5
<1>7. next.pc = "byName" /\ next.task \in Task
  BY <1>1
<1>. HIDE DEF next
<1>. QED BY <1>3, <1>4, <1>6, <1>7

LEMMA ConversationsTypeStep ==
  ASSUME ConversationsTypeOK, JobsFound, ConversationsNext
  PROVE  ConversationsTypeOK'
<1>1. conv' \in [RowIds -> ConvState]
  BY RowsTyped, OtherSteps DEF ConversationsTypeOK, ConvState, ConvRow
<1>2. job' \in [Jobs -> JobState]
  <2>1. CASE \E j \in Jobs : JobStep(j)
    BY <2>1, JobTurns, TurnFacts DEF JobState, Looks, Updates, Stores
  <2>2. CASE \E j \in Jobs, kind \in Kinds, c \in Chats : Start(j, kind, c)
    BY <2>2, StartTurns, TurnFacts DEF JobState, Looks, Updates, Stores
  <2>3. CASE job' = job
    BY <2>3 DEF ConversationsTypeOK
  <2>. QED BY <2>1, <2>2, <2>3, OtherSteps
<1>3. used' \in [Chats -> SUBSET AnyName]
  <2>1. CASE \E j \in Jobs, kind \in Kinds, c \in Chats : Start(j, kind, c)
    <3>. PICK j \in Jobs, kind \in Kinds, c \in Chats : Start(j, kind, c)
      BY <2>1
    <3>1. NameFor(kind, c) \in AnyName
      BY NamesTyped
    <3>. QED BY <3>1 DEF Start, ConversationsTypeOK
  <2>2. CASE ~ \E j \in Jobs, kind \in Kinds, c \in Chats : Start(j, kind, c)
    <3>1. used' = used
      BY <2>2 DEF ConversationsNext, Rename, SyncContact, histories, JobStep, FindByName, FindById, UpdateConv,
         Create, FindAgain, StoreMessage, JobFails
    <3>. QED BY <3>1 DEF ConversationsTypeOK
  <2>. QED BY <2>1, <2>2
<1>4. title' \in [Chats -> Names] /\ contact' \in [Chats -> Names \cup {NoName}]
  <2>1. CASE \E c \in Chats, n \in Names : Rename(c, n)
    BY <2>1 DEF Rename, ConversationsTypeOK
  <2>2. CASE \E c \in Chats : SyncContact(c)
    BY <2>2 DEF SyncContact, ConversationsTypeOK
  <2>3. CASE (\E j \in Jobs : JobStep(j)) \/ \E j \in Jobs, kind \in Kinds, c \in Chats : Start(j, kind, c)
    BY <2>3 DEF Start, JobStep, FindByName, FindById, UpdateConv, Create, FindAgain, StoreMessage, JobFails, ConversationsTypeOK
  <2>. QED BY <2>1, <2>2, <2>3 DEF ConversationsNext
<1>5. twice' \subseteq Chats
  BY DEF ConversationsTypeOK, Twice, ConversationsNext, Rename, SyncContact, Start, histories, JobStep, FindByName, FindById,
     UpdateConv, Create, FindAgain, StoreMessage, JobFails
<1>6. lost' \subseteq Chats /\ stored' \subseteq [chat : Chats, row : RowIds]
  <2>1. ASSUME NEW j \in Jobs, JobStep(j)
        PROVE  lost' \subseteq Chats /\ stored' \subseteq [chat : Chats, row : RowIds]
    <3>1. TaskOf(j).chat \in Chats
      BY <2>1, ActingFacts, TargetFacts
    <3>2. lost' \subseteq Chats
      BY <2>1, <3>1 DEF JobStep, FindByName, FindById, UpdateConv, Create, FindAgain, StoreMessage, JobFails, GiveUp, histories,
         ConversationsTypeOK
    <3>3. CASE StoreMessage(j)
      <4>1. job[j].row \in RowIds
        BY <2>1, <3>3, ActingFacts
      <4>. QED BY <3>1, <3>2, <3>3, <4>1 DEF StoreMessage, ConversationsTypeOK
    <3>4. CASE ~StoreMessage(j)
      <4>1. stored' = stored
        BY <2>1, <3>4 DEF JobStep, FindByName, FindById, UpdateConv, Create, FindAgain, JobFails
      <4>. QED BY <3>2, <4>1 DEF ConversationsTypeOK
    <3>. QED BY <3>3, <3>4
  <2>. QED BY <2>1, OtherSteps DEF ConversationsTypeOK
<1>7. renames' \in 0 .. MaxRenames /\ started' \in 0 .. MaxJobs /\ failures' \in 0 .. MaxFailures
  <2>1. renames' = renames \/ (renames < MaxRenames /\ renames' = renames + 1)
    BY DEF ConversationsNext, Rename, SyncContact, Start, JobStep, FindByName,
       FindById, UpdateConv, Create, FindAgain, StoreMessage, JobFails
  <2>2. started' = started \/ (started < MaxJobs /\ started' = started + 1)
    BY DEF ConversationsNext, Rename, SyncContact, Start, JobStep, FindByName,
       FindById, UpdateConv, Create, FindAgain, StoreMessage, JobFails
  <2>3. failures' = failures \/ (failures < MaxFailures /\ failures' = failures + 1)
    BY DEF ConversationsNext, Rename, SyncContact, Start, JobStep, FindByName,
       FindById, UpdateConv, Create, FindAgain, StoreMessage, JobFails
  <2>. QED BY <2>1, <2>2, <2>3, ConversationsAssumption DEF ConversationsTypeOK
<1>. QED BY <1>1, <1>2, <1>3, <1>4, <1>5, <1>6, <1>7 DEF ConversationsTypeOK

-----------------------------------------------------------------------------
(* TelegramConversations: what holds whatever the names *)

LEMMA JobsFoundStep ==
  ASSUME ConversationsTypeOK, JobsFound, ConversationsNext
  PROVE  JobsFound'
<1>1. SUFFICES ASSUME NEW i \in Jobs, job'[i].pc \in {"update", "insert"}
               PROVE  conv'[job'[i].row] # NoConv
  BY DEF JobsFound, IsConv
<1>2. CASE job'[i] = job[i]
  <2>1. job[i].row \in Convs
    BY <1>1, <1>2, TaskFacts DEF JobsFound, Convs
  <2>2. conv' = conv \/ \E j \in Jobs : JobStep(j)
    BY OtherSteps
  <2>. QED BY <1>2, <2>1, <2>2, RowsTyped DEF IsConv, Convs
<1>3. ASSUME NEW j \in Jobs, NEW kind \in Kinds, NEW c \in Chats, Start(j, kind, c), i = j
      PROVE  FALSE
  BY <1>1, <1>3, StartTurns, TurnFacts
<1>4. CASE JobStep(i)
  <2>1. job[i] # Idle /\ TaskOf(i) \in Task
    BY <1>4, ActingFacts
  <2>2. \A k \in Convs : k \in RowIds /\ conv'[k] # NoConv
    BY <1>4, ConvFacts, RowsTyped DEF IsConv
  <2>3. \A k \in WithName(TaskOf(i).chat, TaskOf(i).name) \cup FoundById(TaskOf(i)) : k \in Convs
    BY <2>1, FoundFacts DEF WithName
  <2>4. ASSUME NEW k \in Convs, Take(i, k)
        PROVE  job'[i].row = k
    BY <2>1, <2>2, <2>4, TakeFacts, TurnFacts
  <2>5. ASSUME NEW k \in RowIds, Settle(i, k)
        PROVE  job'[i].row = k
    <3>1. Idle.pc = "idle"
      BY DEF Idle
    <3>. QED BY <1>1, <2>1, <2>5, <3>1, SettleFacts, TurnFacts
  <2>6. ASSUME NEW pc \in {"byId", "create", "again"}, Goto(i, pc)
        PROVE  FALSE
    BY <1>1, <2>1, <2>6, ConvGotoFacts, TurnFacts
  <2>7. ~GiveUp(i) /\ job'[i] # Idle
    BY <1>1, GiveUpFacts, TurnFacts DEF Idle
  <2>8. CASE FindByName(i)
    BY <2>2, <2>3, <2>4, <2>6, <2>8 DEF FindByName
  <2>9. CASE FindById(i)
    BY <2>2, <2>3, <2>4, <2>6, <2>9 DEF FindById
  <2>10. CASE UpdateConv(i)
    <3>1. PICK k \in Convs : Settle(i, k)
      BY <2>7, <2>10, UpdateWrites
    <3>. QED BY <2>2, <2>5, <3>1
  <2>11. CASE Create(i)
    <3>1. PICK k \in RowIds, new \in ConvRow : Settle(i, k) /\ conv' = [conv EXCEPT ![k] = new]
      BY <2>6, <2>7, <2>11, CreateWrites
    <3>2. conv'[k] = new /\ new # NoConv
      BY <3>1, ConvFacts
    <3>. QED BY <2>5, <3>1, <3>2
  <2>12. CASE FindAgain(i)
    <3>1. PICK k \in FoundById(TaskOf(i)) : Settle(i, k)
      BY <2>7, <2>12, AgainWrites
    <3>. QED BY <2>2, <2>3, <2>5, <3>1
  <2>13. ~StoreMessage(i) /\ ~JobFails(i)
    <3>1. ASSUME StoreMessage(i) \/ JobFails(i)
          PROVE  Turns(i, Idle)
      BY <3>1 DEF StoreMessage, JobFails, Turns
    <3>. QED BY <2>7, <3>1, TurnFacts
  <2>. QED BY <1>4, <2>8, <2>9, <2>10, <2>11, <2>12, <2>13 DEF JobStep
<1>5. job'[i] = job[i] \/ JobStep(i) \/ \E kind \in Kinds, c \in Chats : Start(i, kind, c)
  BY OtherSteps, JobTurns, StartTurns, TurnFacts
<1>. QED BY <1>2, <1>3, <1>4, <1>5

\* A row that is rewritten with its own id changes no chat's number of rows.
LEMMA TwiceSame ==
  ASSUME ConversationsTypeOK, NEW k \in Convs, NEW new \in ConvRow, new.ext = conv[k].ext,
         conv' = [conv EXCEPT ![k] = new]
  PROVE  Twice(conv') = Twice(conv)
<1>1. \A i \in RowIds : conv'[i] # NoConv <=> conv[i] # NoConv
  BY ConvFacts DEF Convs, IsConv
<1>2. \A i \in RowIds : conv[i] # NoConv => conv'[i].ext = conv[i].ext
  BY ConvFacts
<1>3. ASSUME NEW c \in Chats
      PROVE  {i \in RowIds : conv'[i] # NoConv /\ conv'[i].ext.chat = c}
               = {i \in RowIds : conv[i] # NoConv /\ conv[i].ext.chat = c}
  BY <1>1, <1>2
<1>. QED BY <1>3 DEF Twice

LEMMA TwiceKnownStep ==
  ASSUME ConversationsTypeOK, JobsFound, TwiceKnown, ConversationsNext
  PROVE  TwiceKnown' /\ twice \subseteq twice'
<1>1. ASSUME NEW j \in Jobs, JobStep(j)
      PROVE  Twice(conv') \subseteq twice' /\ twice \subseteq twice'
  <2>1. CASE UpdateConv(j)
    BY <2>1, UpdateWrites DEF TwiceKnown
  <2>2. CASE Create(j)
    BY <2>2, CreateWrites DEF TwiceKnown
  <2>3. CASE FindAgain(j)
    <3>1. twice' = twice
      BY <2>3 DEF FindAgain
    <3>2. \A k \in FoundById(TaskOf(j)) : k \in Convs
      BY <1>1, ActingFacts, FoundFacts
    <3>3. Twice(conv') = Twice(conv)
      BY <2>3, <3>2, AgainWrites, TwiceSame
    <3>. QED BY <3>1, <3>3 DEF TwiceKnown
  <2>4. CASE FindByName(j) \/ FindById(j) \/ StoreMessage(j) \/ JobFails(j)
    BY <2>4 DEF FindByName, FindById, StoreMessage, JobFails, histories, TwiceKnown
  <2>. QED BY <1>1, <2>1, <2>2, <2>3, <2>4 DEF JobStep
<1>2. CASE ~ \E j \in Jobs : JobStep(j)
  BY <1>2, OtherSteps DEF TwiceKnown
<1>. QED BY <1>1, <1>2 DEF TwiceKnown

\* Two rows of a chat make it one of Twice.
LEMMA TwoRows ==
  ASSUME ConversationsTypeOK, NEW c \in Chats, NEW i \in Convs, NEW k \in Convs \ {i},
         ChatOf(i) = c, ChatOf(k) = c
  PROVE  c \in Twice(conv)
<1>. DEFINE S == {n \in RowIds : conv[n] # NoConv /\ conv[n].ext.chat = c}
<1>1. IsFiniteSet(S)
  <2>1. IsFiniteSet(RowIds)
    <3>1. MaxRows \in Nat
      BY ConversationsAssumption
    <3>. QED BY <3>1, FS_Interval DEF RowIds
  <2>. QED BY <2>1, FS_Subset
<1>2. {i, k} \subseteq S
  BY DEF Convs, IsConv, ChatOf
<1>3. Cardinality({i, k}) = 2 /\ IsFiniteSet({i, k})
  <2>1. IsFiniteSet({i}) /\ Cardinality({i}) = 1
    BY FS_Singleton
  <2>2. {i, k} = {i} \cup {k} /\ k \notin {i}
    OBVIOUS
  <2>3. IsFiniteSet({i} \cup {k}) /\ Cardinality({i} \cup {k}) = Cardinality({i}) + 1
    BY <2>1, <2>2, FS_AddElement
  <2>. QED BY <2>1, <2>2, <2>3
<1>4. Cardinality(S) >= 2 /\ Cardinality(S) \in Nat
  BY <1>1, <1>2, <1>3, FS_Subset, FS_CardinalityType
<1>. QED BY <1>4 DEF Twice

-----------------------------------------------------------------------------
(* TelegramConversations: as long as names are apart *)

LEMMA UsedGrows ==
  ASSUME ConversationsTypeOK, ConversationsNext
  PROVE  (\A c \in Chats : used[c] \subseteq used'[c]) /\ (NamesApart' => NamesApart)
<1>1. \A c \in Chats : used[c] \subseteq used'[c]
  <2>1. CASE \E j \in Jobs, kind \in Kinds, c \in Chats : Start(j, kind, c)
    BY <2>1 DEF Start, ConversationsTypeOK
  <2>2. CASE ~ \E j \in Jobs, kind \in Kinds, c \in Chats : Start(j, kind, c)
    BY <2>2 DEF ConversationsNext, Rename, SyncContact, histories, JobStep, FindByName, FindById, UpdateConv,
       Create, FindAgain, StoreMessage, JobFails
  <2>. QED BY <2>1, <2>2
<1>. QED BY <1>1 DEF NamesApart

\* The row a job finds by its name is of its chat.
LEMMA OwnByName ==
  ASSUME ConversationsTypeOK, NamesApart, RowsNamed, NEW t \in Task, t.name \in used[t.chat],
         NEW k \in WithName(t.chat, t.name)
  PROVE  k \in Convs /\ ChatOf(k) = t.chat
<1>1. k \in Convs /\ conv[k].name = t.name /\ UserOf[ChatOf(k)] = UserOf[t.chat]
  BY DEF WithName, ChatOf
<1>2. ChatOf(k) \in Chats /\ t.chat \in Chats
  BY <1>1, ConvFacts, TargetFacts DEF ExtId, ChatOf
<1>. QED BY <1>1, <1>2 DEF NamesApart, RowsNamed

\* No step takes a row to another chat or names it after one.
LEMMA ChatsKept ==
  ASSUME ConversationsTypeOK, JobsFound, NamesApart, RowsNamed, NEW j \in Jobs, JobOwn(j), JobStep(j)
  PROVE  /\ \A k \in Convs : conv'[k].ext.chat = ChatOf(k)
         /\ \A k \in RowIds : conv'[k] # NoConv => conv'[k].name \in used[conv'[k].ext.chat]
<1>. DEFINE t == TaskOf(j)
<1>1. job[j] # Idle /\ t \in Task /\ t.name \in used[t.chat] /\ Target(t).chat = t.chat
  BY ActingFacts, TargetFacts DEF JobOwn
<1>2. /\ conv \in [RowIds -> {NoConv} \cup ConvRow]
      /\ \A k \in Convs : k \in RowIds /\ conv[k].name \in used[ChatOf(k)]
      /\ \A k \in RowIds : conv[k] # NoConv <=> k \in Convs
  BY ConvFacts DEF RowsNamed, Convs, IsConv
<1>3. ASSUME NEW k \in RowIds, NEW new \in ConvRow, conv' = [conv EXCEPT ![k] = new],
             new.ext.chat = t.chat, new.name \in used[t.chat], k \in Convs => ChatOf(k) = t.chat
      PROVE  /\ \A i \in Convs : conv'[i].ext.chat = ChatOf(i)
             /\ \A i \in RowIds : conv'[i] # NoConv => conv'[i].name \in used[conv'[i].ext.chat]
  <2>1. conv'[k] = new /\ \A i \in RowIds \ {k} : conv'[i] = conv[i]
    BY <1>2, <1>3
  <2>. QED BY <1>2, <1>3, <2>1 DEF ChatOf
<1>4. CASE conv' = conv
  BY <1>2, <1>4 DEF ChatOf
<1>5. CASE UpdateConv(j)
  <2>. DEFINE k == job[j].row
  <2>1. ChatOf(k) = t.chat /\ k \in Convs
    BY <1>1, <1>5, UpdateWrites DEF JobOwn, UpdateConv, At
  <2>2. PICK new : Rewritten(conv[k], t, new) /\ (conv' = [conv EXCEPT ![k] = new] \/ conv' = conv)
    BY <1>5, UpdateWrites
  <2>3. new \in ConvRow /\ new.ext.chat = t.chat /\ new.name \in used[t.chat]
    BY <1>1, <1>2, <2>1, <2>2 DEF Rewritten, ChatOf
  <2>4. k \in RowIds
    BY <1>2, <2>1
  <2>. HIDE DEF t, k
  <2>. QED BY <1>3, <1>4, <2>1, <2>2, <2>3, <2>4
<1>6. CASE Create(j)
  <2>1. CASE conv' # conv
    <3>1. PICK k \in RowIds \ Convs, new \in ConvRow :
            new.ext = Target(t) /\ new.name = t.name /\ conv' = [conv EXCEPT ![k] = new]
      BY <1>6, <2>1, CreateWrites
    <3>. HIDE DEF t
    <3>. QED BY <1>1, <1>3, <3>1
  <2>. QED BY <1>4, <2>1
<1>7. CASE FindAgain(j)
  <2>1. CASE conv' # conv
    <3>1. PICK k \in FoundById(t), new \in ConvRow :
            new.ext = conv[k].ext /\ new.name = t.name /\ conv' = [conv EXCEPT ![k] = new]
      BY <1>7, <2>1, AgainWrites
    <3>2. k \in Convs /\ k \in RowIds /\ ChatOf(k) = t.chat
      BY <1>1, <1>2, FoundFacts
    <3>. HIDE DEF t
    <3>. QED BY <1>1, <1>3, <3>1, <3>2 DEF ChatOf
  <2>. QED BY <1>4, <2>1
<1>8. CASE FindByName(j) \/ FindById(j) \/ StoreMessage(j) \/ JobFails(j)
  BY <1>4, <1>8 DEF FindByName, FindById, StoreMessage, JobFails
<1>. QED BY <1>5, <1>6, <1>7, <1>8 DEF JobStep

\* While rows keep their chats, those of other users stay in the way.
LEMMA RowsStay ==
  ASSUME ConversationsTypeOK, \A k \in Convs : conv'[k] # NoConv /\ conv'[k].ext.chat = ChatOf(k)
  PROVE  Convs \subseteq Convs' /\ Elsewhere \subseteq Elsewhere'
<1>1. Convs \subseteq Convs'
  BY ConvFacts DEF Convs, IsConv
<1>2. ASSUME NEW c \in Chats, NEW k \in Convs, ChatOf(k) # c, IdOf[ChatOf(k)] = IdOf[c]
      PROVE  c \in Elsewhere'
  BY <1>1, <1>2 DEF Elsewhere
<1>. QED BY <1>1, <1>2 DEF Elsewhere, ChatOf

\* A row that has the id of a chat is the chat's own, or another user's.
LEMMA WhoseRow ==
  ASSUME NEW c \in Chats, NEW x \in ExtId, x.chat = c, NEW i \in Convs, SameId(i, x)
  PROVE  ChatOf(i) = c \/ c \in Elsewhere
BY DEF SameId, ChatOf, Elsewhere

\* What a job has found stays its own, and what it finds is.
LEMMA OthersOwn ==
  ASSUME ConversationsTypeOK, JobsFound, ConversationsNext, NEW i \in Jobs, JobOwn(i), job'[i] = job[i],
         \A k \in Convs : conv'[k] # NoConv /\ conv'[k].ext.chat = ChatOf(k)
  PROVE  JobOwn(i)'
<1>1. SUFFICES ASSUME job[i] # Idle
               PROVE  JobOwn(i)'
  BY DEF JobOwn
<1>2. TaskOf(i)' = TaskOf(i) /\ TaskOf(i).chat \in Chats
  BY <1>1, TaskFacts, TargetFacts DEF TaskOf
<1>3. TaskOf(i).name \in used'[TaskOf(i).chat]
  BY <1>1, <1>2, UsedGrows DEF JobOwn
<1>4. ASSUME job[i].pc \in {"update", "insert"}
      PROVE  conv'[job[i].row].ext.chat = TaskOf(i).chat
  <2>1. job[i].row \in Convs
    BY <1>4, TaskFacts DEF JobsFound, Convs
  <2>. QED BY <1>1, <1>4, <2>1 DEF JobOwn
<1>5. Convs \subseteq Convs' /\ Elsewhere \subseteq Elsewhere'
  BY RowsStay
<1>6. ASSUME At(i, "again")'
      PROVE  /\ TaskOf(i).kind # "history"
             /\ (\E k \in Convs' : conv'[k].ext.chat = TaskOf(i).chat) \/ TaskOf(i).chat \in Elsewhere'
  BY <1>1, <1>5, <1>6 DEF JobOwn, At
<1>. QED BY <1>1, <1>2, <1>3, <1>4, <1>6 DEF JobOwn, ChatOf

LEMMA JobsOwnStep ==
  ASSUME ConversationsTypeOK, JobsFound, NamesApart, RowsNamed, NEW j \in Jobs, JobOwn(j), JobStep(j)
  PROVE  JobOwn(j)'
<1>. DEFINE t == TaskOf(j)
<1>1. job[j] # Idle /\ t \in Task /\ t.name \in used[t.chat] /\ used' = used
  BY ActingFacts DEF JobOwn, JobStep, FindByName, FindById, UpdateConv, Create, FindAgain, StoreMessage, JobFails, histories
<1>2. \A k \in Convs : k \in RowIds /\ conv'[k] # NoConv /\ conv'[k].ext.chat = ChatOf(k)
  BY ConvFacts, ChatsKept, RowsTyped DEF IsConv
<1>3. ASSUME job'[j] = Idle
      PROVE  JobOwn(j)'
  BY <1>3 DEF JobOwn
<1>4. ASSUME NEW k \in RowIds, conv'[k].ext.chat = t.chat,
             Take(j, k) \/ Settle(j, k)
      PROVE  JobOwn(j)'
  <2>1. CASE Take(j, k)
    <3>1. job'[j].pc = "update" /\ job'[j].task = t /\ job'[j].row = k
      BY <1>1, <2>1, TakeFacts, TurnFacts
    <3>. QED BY <1>1, <1>4, <3>1 DEF JobOwn, TaskOf, ChatOf, At
  <2>2. CASE Settle(j, k)
    <3>1. job'[j] # Idle => job'[j].pc = "insert" /\ job'[j].task = t /\ job'[j].row = k
      BY <1>1, <2>2, SettleFacts, TurnFacts
    <3>. QED BY <1>1, <1>4, <3>1 DEF JobOwn, TaskOf, ChatOf, At
  <2>. QED BY <1>4, <2>1, <2>2
<1>5. ASSUME NEW pc \in {"byId", "create", "again"}, Goto(j, pc),
             pc = "again" => /\ t.kind # "history"
                             /\ (\E k \in Convs : ChatOf(k) = t.chat) \/ t.chat \in Elsewhere
      PROVE  JobOwn(j)'
  <2>1. job'[j].pc = pc /\ job'[j].task = t
    BY <1>1, <1>5, ConvGotoFacts, TurnFacts
  <2>2. TaskOf(j)' = t
    BY <2>1 DEF TaskOf
  <2>3. pc = "again" => /\ t.kind # "history"
                        /\ (\E k \in Convs' : conv'[k].ext.chat = t.chat) \/ t.chat \in Elsewhere'
    BY <1>2, <1>5, RowsStay
  <2>4. job'[j].pc \notin {"update", "insert"} /\ (At(j, "again")' => pc = "again")
    BY <2>1 DEF At
  <2>. QED BY <1>1, <2>2, <2>3, <2>4 DEF JobOwn, ChatOf
<1>6. CASE FindByName(j)
  <2>1. \A k \in WithName(t.chat, t.name) : k \in Convs /\ ChatOf(k) = t.chat
    BY <1>1, OwnByName
  <2>. QED BY <1>2, <1>4, <1>5, <1>6, <2>1 DEF FindByName
<1>7. CASE FindById(j)
  <2>1. \A k \in FoundById(t) : k \in Convs /\ ChatOf(k) = t.chat
    BY <1>1, FoundFacts
  <2>. QED BY <1>2, <1>4, <1>5, <1>7, <2>1 DEF FindById
<1>8. CASE GiveUp(j) \/ StoreMessage(j) \/ JobFails(j)
  <2>1. Turns(j, Idle)
    BY <1>8, GiveUpFacts DEF StoreMessage, JobFails, Turns
  <2>. QED BY <1>3, <2>1, TurnFacts
<1>9. CASE UpdateConv(j)
  <2>1. job[j].row \in Convs /\ (Settle(j, job[j].row) \/ GiveUp(j))
    BY <1>9, UpdateWrites
  <2>2. ChatOf(job[j].row) = t.chat
    BY <1>1, <1>9 DEF JobOwn, UpdateConv, At
  <2>. QED BY <1>2, <1>4, <1>8, <2>1, <2>2
<1>10. CASE Create(j)
  <2>1. Target(t) \in ExtId /\ Target(t).chat = t.chat /\ t.chat \in Chats
    BY <1>1, TargetFacts
  <2>2. ASSUME NEW k \in RowIds \ Convs, NEW new \in ConvRow, new.ext = Target(t),
               conv' = [conv EXCEPT ![k] = new], Settle(j, k)
        PROVE  JobOwn(j)'
    <3>1. conv'[k] = new
      BY <2>2, ConvFacts
    <3>. QED BY <1>4, <2>1, <2>2, <3>1
  <2>3. ASSUME NEW i \in Convs, SameId(i, Target(t)), t.kind # "history", Goto(j, "again")
        PROVE  JobOwn(j)'
    <3>1. ChatOf(i) = t.chat \/ t.chat \in Elsewhere
      BY <2>1, <2>3, WhoseRow
    <3>. QED BY <1>5, <2>3, <3>1
  <2>. QED BY <1>8, <1>10, <2>2, <2>3, CreateWrites
<1>11. CASE FindAgain(j)
  <2>1. \A k \in FoundById(t) : k \in Convs /\ ChatOf(k) = t.chat
    BY <1>1, FoundFacts
  <2>. QED BY <1>2, <1>4, <1>8, <1>11, <2>1, AgainWrites
<1>. QED BY <1>6, <1>7, <1>8, <1>9, <1>10, <1>11 DEF JobStep

\* A job's write is refused, and its message given up, only when the chat has two rows
\* or another user has one of it.
LEMMA LostTwice ==
  ASSUME ConversationsTypeOK, JobsFound, TwiceKnown, NEW j \in Jobs, JobOwn(j), JobStep(j)
  PROVE  lost' \subseteq lost \cup twice \cup Elsewhere
<1>. DEFINE t == TaskOf(j)
<1>1. job[j] # Idle /\ t \in Task /\ Target(t).chat = t.chat /\ t.chat \in Chats
  BY ActingFacts, TargetFacts
<1>2. GiveUp(j) => lost' \subseteq lost \cup {t.chat} /\ (t.kind = "history" => lost' = lost)
  BY DEF GiveUp
<1>3. CASE UpdateConv(j)
  <2>. DEFINE k == job[j].row
  <2>1. k \in Convs /\ ChatOf(k) = t.chat
    BY <1>1, <1>3, UpdateWrites DEF JobOwn, UpdateConv, At
  <2>2. PICK new : /\ Rewritten(conv[k], t, new)
                   /\ lost' = lost \/ (GiveUp(j) /\ \E i \in Convs \ {k} : SameId(i, new.ext))
    BY <1>3, UpdateWrites
  <2>3. new.ext.chat = t.chat /\ new.ext \in ExtId
    BY <1>1, <2>1, <2>2, ConvFacts DEF Rewritten, ChatOf
  <2>4. ASSUME NEW i \in Convs \ {k}, SameId(i, new.ext)
        PROVE  t.chat \in twice \cup Elsewhere
    <3>. HIDE DEF t, k
    <3>1. ChatOf(i) = t.chat \/ t.chat \in Elsewhere
      BY <1>1, <2>3, <2>4, WhoseRow
    <3>2. CASE ChatOf(i) = t.chat
      BY <1>1, <2>1, <2>4, <3>2, TwoRows DEF TwiceKnown
    <3>. QED BY <3>1, <3>2
  <2>. QED BY <1>2, <2>2, <2>4
<1>4. CASE Create(j)
  BY <1>2, <1>4, CreateWrites
<1>5. CASE FindAgain(j)
  <2>1. FoundById(t) # {} \/ t.chat \in Elsewhere
    BY <1>1, <1>5, FoundFacts DEF JobOwn, FindAgain
  <2>. QED BY <1>2, <1>5, <2>1, AgainWrites
<1>6. CASE FindByName(j) \/ FindById(j) \/ StoreMessage(j) \/ JobFails(j)
  BY <1>6 DEF FindByName, FindById, StoreMessage, JobFails, histories
<1>. QED BY <1>3, <1>4, <1>5, <1>6 DEF JobStep

\* What the jobs do to rows, to what is stored and to what is lost.
LEMMA ApartStep ==
  ASSUME ConversationsTypeOK, ConversationsInv, ConversationsNext, NamesApart'
  PROVE  (RowsNamed /\ (\A j \in Jobs : JobOwn(j)) /\ StoredOwn /\ lost \subseteq twice \cup Elsewhere)'
<1>1. NamesApart /\ JobsFound /\ TwiceKnown /\ RowsNamed /\ (\A j \in Jobs : JobOwn(j)) /\ StoredOwn
      /\ lost \subseteq twice \cup Elsewhere
  BY UsedGrows DEF ConversationsInv
<1>2. \A k \in Convs : conv'[k] # NoConv /\ conv'[k].ext.chat = ChatOf(k)
  <2>1. CASE \E j \in Jobs : JobStep(j)
    BY <1>1, <2>1, ChatsKept, RowsTyped DEF IsConv
  <2>2. CASE ~ \E j \in Jobs : JobStep(j)
    BY <2>2, OtherSteps DEF Convs, IsConv, ChatOf
  <2>. QED BY <2>1, <2>2
<1>3. RowsNamed'
  <2>1. ASSUME NEW k \in RowIds, conv'[k] # NoConv
        PROVE  conv'[k].name \in used'[conv'[k].ext.chat]
    <3>1. CASE \E j \in Jobs : JobStep(j)
      <4>1. used' = used
        BY <3>1 DEF JobStep, FindByName, FindById, UpdateConv, Create, FindAgain, StoreMessage, JobFails, histories
      <4>. QED BY <1>1, <2>1, <3>1, <4>1, ChatsKept
    <3>2. CASE ~ \E j \in Jobs : JobStep(j)
      <4>1. conv' = conv /\ k \in Convs
        BY <2>1, <3>2, OtherSteps DEF Convs, IsConv
      <4>2. ChatOf(k) \in Chats /\ conv[k].name \in used[ChatOf(k)]
        BY <1>1, <4>1, ConvFacts DEF RowsNamed, ChatOf, ExtId
      <4>. QED BY <4>1, <4>2, UsedGrows DEF ChatOf
    <3>. QED BY <3>1, <3>2
  <2>. QED BY <2>1 DEF RowsNamed, ChatOf, Convs, IsConv
<1>4. ASSUME NEW i \in Jobs
      PROVE  JobOwn(i)'
  <2>1. CASE job'[i] = job[i]
    BY <1>1, <1>2, <2>1, OthersOwn
  <2>2. CASE JobStep(i)
    BY <1>1, <2>2, JobsOwnStep
  <2>3. ASSUME NEW kind \in Kinds, NEW c \in Chats, Start(i, kind, c)
        PROVE  JobOwn(i)'
    <3>1. /\ job'[i].pc = "byName" /\ job'[i].task \in Task
          /\ used' = [used EXCEPT ![job'[i].task.chat] = used[job'[i].task.chat] \cup {job'[i].task.name}]
      BY <2>3, StartTurns, TurnFacts
    <3>2. job'[i].task.chat \in Chats
      BY <3>1, TargetFacts
    <3>3. job'[i].task.name \in used'[job'[i].task.chat]
      BY <3>1, <3>2 DEF ConversationsTypeOK
    <3>. QED BY <3>1, <3>3 DEF JobOwn, TaskOf, At
  <2>4. job'[i] = job[i] \/ JobStep(i) \/ \E kind \in Kinds, c \in Chats : Start(i, kind, c)
    BY OtherSteps, JobTurns, StartTurns, TurnFacts
  <2>. QED BY <2>1, <2>2, <2>3, <2>4
<1>5. StoredOwn'
  <2>1. \A s \in stored : s.row \in Convs /\ ChatOf(s.row) = s.chat
    BY <1>1 DEF StoredOwn, Convs, ConversationsTypeOK
  <2>2. ASSUME NEW j \in Jobs, StoreMessage(j)
        PROVE  job[j].row \in Convs /\ ChatOf(job[j].row) = TaskOf(j).chat
    <3>1. job[j] # Idle /\ job[j].row \in RowIds
      BY <2>2, ActingFacts DEF JobStep
    <3>. QED BY <1>1, <2>2, <3>1 DEF JobOwn, JobsFound, StoreMessage, At, Convs
  <2>3. ASSUME NEW s \in stored'
        PROVE  s.row \in Convs /\ ChatOf(s.row) = s.chat
    <3>1. CASE s \in stored
      BY <2>1, <3>1
    <3>2. CASE s \notin stored
      <4>1. PICK j \in Jobs : JobStep(j)
        BY <2>3, <3>2, OtherSteps
      <4>2. StoreMessage(j)
        BY <2>3, <3>2, <4>1 DEF JobStep, FindByName, FindById, UpdateConv, Create, FindAgain, JobFails
      <4>3. s = [chat |-> TaskOf(j).chat, row |-> job[j].row]
        BY <2>3, <3>2, <4>2 DEF StoreMessage
      <4>. QED BY <2>2, <4>2, <4>3
    <3>. QED BY <3>1, <3>2
  <2>. QED BY <1>2, <2>3 DEF StoredOwn, IsConv, ChatOf
<1>6. lost' \subseteq twice' \cup Elsewhere'
  <2>1. twice \subseteq twice' /\ Elsewhere \subseteq Elsewhere'
    BY <1>1, <1>2, TwiceKnownStep, RowsStay
  <2>2. CASE \E j \in Jobs : JobStep(j)
    BY <1>1, <2>1, <2>2, LostTwice
  <2>3. CASE ~ \E j \in Jobs : JobStep(j)
    BY <1>1, <2>1, <2>3, OtherSteps
  <2>. QED BY <2>2, <2>3
<1>. QED BY <1>3, <1>4, <1>5, <1>6

LEMMA ConversationsStart ==
  ASSUME ConversationsInit
  PROVE  ConversationsTypeOK /\ ConversationsInv
<1>. USE DEF ConversationsInit
<1>1. ConversationsTypeOK
  BY ConversationsAssumption DEF ConversationsTypeOK, ConvState, JobState
<1>2. \A j \in Jobs : job[j] = Idle /\ Idle.pc = "idle"
  BY DEF Idle
<1>3. Convs = {}
  BY DEF Convs, IsConv
<1>4. Twice(conv) = {}
  <2>1. ASSUME NEW c \in Chats
        PROVE  ~(Cardinality({k \in RowIds : conv[k] # NoConv /\ conv[k].ext.chat = c}) > 1)
    <3>1. {k \in RowIds : conv[k] # NoConv /\ conv[k].ext.chat = c} = {}
      OBVIOUS
    <3>. QED BY <3>1, FS_EmptySet
  <2>. QED BY <2>1 DEF Twice
<1>5. ConversationsInv
  BY <1>2, <1>3, <1>4 DEF ConversationsInv, JobsFound, TwiceKnown, RowsNamed, JobOwn, StoredOwn
<1>. QED BY <1>1, <1>5

LEMMA ConversationsSafe == ConversationsSpec => [](ConversationsTypeOK /\ ConversationsInv)
<1>1. ASSUME ConversationsTypeOK, ConversationsInv, [ConversationsNext]_conversationsVars
      PROVE  (ConversationsTypeOK /\ ConversationsInv)'
  <2>1. CASE ConversationsNext
    <3>1. JobsFound /\ TwiceKnown
      BY <1>1 DEF ConversationsInv
    <3>2. ConversationsTypeOK' /\ JobsFound' /\ TwiceKnown'
      BY <1>1, <2>1, <3>1, ConversationsTypeStep, JobsFoundStep, TwiceKnownStep
    <3>3. NamesApart' => (RowsNamed /\ (\A j \in Jobs : JobOwn(j)) /\ StoredOwn /\ lost \subseteq twice \cup Elsewhere)'
      BY <1>1, <2>1, ApartStep
    <3>. QED BY <3>2, <3>3 DEF ConversationsInv
  <2>2. CASE UNCHANGED conversationsVars
    <3>1. ConversationsTypeOK'
      BY <1>1, <2>2 DEF ConversationsTypeOK, conversationsVars, histories
    <3>2. JobsFound' /\ TwiceKnown'
      BY <1>1, <2>2 DEF ConversationsInv, JobsFound, TwiceKnown, IsConv, Twice, conversationsVars, histories
    <3>3. NamesApart' = NamesApart /\ RowsNamed' = RowsNamed /\ StoredOwn' = StoredOwn
      BY <2>2 DEF NamesApart, RowsNamed, StoredOwn, Convs, IsConv, ChatOf, conversationsVars, histories
    <3>4. (\A j \in Jobs : JobOwn(j)' = JobOwn(j)) /\ Elsewhere' = Elsewhere
      BY <2>2 DEF JobOwn, Elsewhere, TaskOf, ChatOf, At, Convs, IsConv, conversationsVars, histories
    <3>5. lost' = lost /\ twice' = twice
      BY <2>2 DEF conversationsVars, histories
    <3>. QED BY <1>1, <3>1, <3>2, <3>3, <3>4, <3>5 DEF ConversationsInv
  <2>. QED BY <1>1, <2>1, <2>2
<1>. QED BY <1>1, ConversationsStart, PTL DEF ConversationsSpec

\* The type invariant: no handler and no history job updates a row that it has not
\* looked up, or stores a message without a row.
THEOREM ConversationsTypeCorrect == ConversationsSpec => []ConversationsTypeOK
BY ConversationsSafe, PTL

\* Messages stay under a row of their chat for any number of users and chats, of handlers
\* and history jobs at once and of changed titles, unless two chats of a user have gone by
\* one name: the lookup by name, which comes first, is the only way to another chat's row.
THEOREM AlwaysUnderItsChat == ConversationsSpec => []UnderItsChat
<1>1. ConversationsInv => UnderItsChat
  BY DEF ConversationsInv, UnderItsChat, StoredOwn, ChatOf
<1>. QED BY <1>1, ConversationsSafe, PTL

\* A handler whose write the database refuses, and that so loses its message, has met a
\* second row of its chat, the one of the plain or the one of the prefixed id, or
\* another user's row of the same chat.  One that fails to create a row finds the row
\* that was in its way, if it is its user's.
THEOREM AlwaysStoredUnlessClash == ConversationsSpec => []StoredUnlessClash
<1>1. ConversationsInv => StoredUnlessClash
  BY DEF ConversationsInv, StoredUnlessClash
<1>. QED BY <1>1, ConversationsSafe, PTL
=============================================================================
