----------------------------- MODULE EmailProofs -----------------------------
(* Proofs about EmailPoll for every number of messages, every size of the   *)
(* poll and of the window, and about EmailThreading for all mails, headers  *)
(* and numbers of workers.                                                  *)
EXTENDS EmailPoll, EmailThreading, FiniteSetTheorems, WellFoundedInduction, TLAPS

-----------------------------------------------------------------------------
(* The invariants *)

\* While a poll reads a folder it is the one that is open, unless it was torn.
ReadsSelected == poll.pc \in {"search", "fetch"} => poll.folder \in torn \cup {selected}

\* The reconciliation reads INBOX, unless it strayed.
RecReadsInbox == rec.pc \in {"search", "fetch"} => selected = "Inbox" \/ "rec" \in strayed

\* What a poll has got so far is of the folder it was read from.
GotOwn == \A m \in poll.got : m.as = m.from \/ m.as \in torn

FolderInv == ReadsSelected /\ RecReadsInbox /\ GotOwn /\ ReadsItsFolder

\* The folders a poll has still to read, and those it has read.
Unread(f) == poll.pc \in {"open", "search", "fetch"} /\ f \in {poll.folder, "Sent"}
Read(f) == \/ poll.pc = "save"
           \/ poll.pc \in {"open", "search", "fetch"} /\ poll.folder = "Sent" /\ f = "Inbox"

\* What the new cursor will pass is got, or it is known why it is not.
Grasped(f, u) ==
  \/ \E m \in poll.got : m.as = f /\ m.uid = u
  \/ <<f, u>> \in Unparsable \/ u \in gone[f]
  \/ cursor[f] = 0 /\ u < poll.top[f]
Beyond(f) == {u \in Uids : cursor[f] < u /\ u <= poll.top[f]}

TopsSound ==
  \A f \in Folders :
    /\ Unread(f) => poll.top[f] = cursor[f]
    /\ Read(f) /\ f \notin torn => \A u \in Beyond(f) : Grasped(f, u)

\* The window a poll is about to fetch has no hole: below each of its messages
\* and above the cursor, there is nothing but messages of the window.
NoHole(f, S) ==
  /\ S \subseteq 1 .. delivered[f]
  /\ cursor[f] > 0 => \A x \in S, u \in Uids : cursor[f] < u /\ u < x => u \in S \/ u \in gone[f]
WindowSound == poll.pc = "fetch" /\ poll.folder \notin torn => NoHole(poll.folder, poll.found)

CoverInv == TopsSound /\ WindowSound /\ Covered

-----------------------------------------------------------------------------
(* Lemmas about the windows of uids *)

\* The uids of a folder are finitely many, and so is every part of them.
LEMMA UidsFinite ==
  ASSUME NEW S \in SUBSET Uids
  PROVE  IsFiniteSet(S) /\ Cardinality(S) \in Nat
<1>1. IsFiniteSet(Uids)
  BY FS_Interval, ConstantsAssumption DEF Uids
<1>2. IsFiniteSet(S)
  BY <1>1, FS_Subset
<1>. QED BY <1>2, FS_CardinalityType

\* FirstN takes a lower part of a set: what lies below one of its members is taken.
LEMMA FirstNDownward ==
  ASSUME NEW S \in SUBSET Uids, NEW n \in Nat,
         NEW x \in FirstN(S, n), NEW y \in S, y < x
  PROVE  y \in FirstN(S, n)
<1>. DEFINE Below(z) == {v \in S : v < z}
<1>1. Below(y) \subseteq Below(x)
  <2>1. x \in S
    BY DEF FirstN
  <2>2. \A u \in S : u \in Int
    BY DEF Uids
  <2>. QED BY <2>1, <2>2
<1>2. IsFiniteSet(Below(x)) /\ Cardinality(Below(x)) \in Nat /\ Cardinality(Below(y)) \in Nat
  <2>1. Below(x) \in SUBSET Uids /\ Below(y) \in SUBSET Uids
    OBVIOUS
  <2>. QED BY <2>1, UidsFinite
<1>3. Cardinality(Below(y)) <= Cardinality(Below(x))
  BY <1>1, <1>2, FS_Subset
<1>4. Cardinality(Below(x)) < n
  BY DEF FirstN
<1>5. Cardinality(Below(y)) < n
  BY <1>2, <1>3, <1>4
<1>. QED BY <1>5 DEF FirstN

\* The uids of a poll are there, and on a folder read before the window has no
\* hole between the cursor and any of them.
LEMMA UidsToFetchFacts ==
  ASSUME NEW S \in SUBSET Uids, NEW c \in Nat
  PROVE  /\ UidsToFetch(S, c) \subseteq S
         /\ c > 0 => \A x \in UidsToFetch(S, c) : \A y \in S : c < y /\ y < x => y \in UidsToFetch(S, c)
<1>1. UidsToFetch(S, c) \subseteq S
  BY DEF UidsToFetch, FirstN, LastN, RangeFrom
<1>2. ASSUME c > 0, NEW x \in UidsToFetch(S, c), NEW y \in S, c < y, y < x
      PROVE  y \in UidsToFetch(S, c)
  <2>. DEFINE R == RangeFrom(S, c + 1)
  <2>1. UidsToFetch(S, c) = FirstN(R, MaxPerPoll)
    BY <1>2 DEF UidsToFetch
  <2>2. R \in SUBSET Uids
    BY DEF RangeFrom
  <2>3. y \in R
    BY <1>2 DEF RangeFrom, Uids
  <2>4. MaxPerPoll \in Nat
    BY ConstantsAssumption
  <2>. HIDE DEF R
  <2>. QED BY <1>2, <2>1, <2>2, <2>3, <2>4, FirstNDownward
<1>. QED BY <1>1, <1>2

\* A nonempty set of numbers up to a bound has a greatest member.
LEMMA Greatest ==
  ASSUME NEW n \in Nat, NEW S \in SUBSET (0 .. n), S # {}
  PROVE  \E m \in S : \A x \in S : x <= m
<1>. DEFINE T == {n - x : x \in S}
<1>1. T \subseteq Nat /\ T # {}
  <2>1. \A x \in S : n - x \in Nat
    OBVIOUS
  <2>2. \E x \in S : n - x \in T
    OBVIOUS
  <2>. QED BY <2>1, <2>2
<1>2. PICK t \in T : \A y \in T : ~(<<y, t>> \in OpToRel(<, Nat))
  BY <1>1, NatLessThanWellFounded, WFMin
<1>3. ASSUME NEW y \in T
      PROVE  t <= y
  <2>1. t \in Nat /\ y \in Nat
    BY <1>1, <1>2
  <2>2. ~(y < t)
    BY <1>2, <2>1 DEF OpToRel
  <2>. QED BY <2>1, <2>2
<1>4. PICK m \in S : t = n - m
  OBVIOUS
<1>5. \A x \in S : n - x \in T
  OBVIOUS
<1>. HIDE DEF T
<1>. QED BY <1>3, <1>4, <1>5

\* The new cursor is the old one or a uid that was parsed, whichever is highest.
LEMMA HigherFacts ==
  ASSUME NEW a \in 0 .. MaxUid, NEW S \in SUBSET Uids
  PROVE  /\ Higher(a, S) \in S \cup {a}
         /\ \A x \in S \cup {a} : x <= Higher(a, S)
<1>1. MaxUid \in Nat /\ S \cup {a} \in SUBSET (0 .. MaxUid) /\ S \cup {a} # {}
  BY ConstantsAssumption DEF Uids
<1>2. \E m \in S \cup {a} : \A x \in S \cup {a} : x <= m
  BY <1>1, Greatest
<1>. QED BY <1>2 DEF Higher

-----------------------------------------------------------------------------
(* Types *)

Polls == [pc : {"idle", "open", "search", "fetch", "save", "enqueue"}, folder : Folders,
          found : SUBSET Uids, top : [Folders -> 0 .. MaxUid], got : SUBSET Message]

\* Moving on to the next folder keeps a poll well-typed.
LEMMA OnwardTyped ==
  ASSUME NEW p \in Polls
  PROVE  Onward(p) \in Polls
BY DEF Onward, Polls, Folders

\* What is fetched from a folder are messages.
LEMMA FetchedTyped ==
  ASSUME TypeOK, NEW S \in SUBSET Uids
  PROVE  /\ Parsed(S) \in SUBSET Uids
         /\ Fetched(S) \in SUBSET Message
<1>1. Parsed(S) \in SUBSET Uids
  BY DEF Parsed
<1>2. poll.folder \in Folders /\ selected \in Folders
  BY DEF TypeOK
<1>. QED BY <1>1, <1>2 DEF Fetched, Message

\* A fetch puts what it parsed into the poll, and their highest uid.
LEMMA FetchTyped ==
  ASSUME TypeOK
  PROVE  [poll EXCEPT !.top[poll.folder] = Higher(@, Parsed(poll.found)),
                      !.got = @ \cup Fetched(poll.found), !.found = {}] \in Polls
<1>1. poll \in Polls
  BY DEF TypeOK, Polls
<1>2. poll.folder \in Folders /\ poll.found \in SUBSET Uids /\ poll.top \in [Folders -> 0 .. MaxUid]
      /\ poll.got \in SUBSET Message
  BY <1>1 DEF Polls
<1>3. poll.top[poll.folder] \in 0 .. MaxUid
  BY <1>2
<1>4. Parsed(poll.found) \in SUBSET Uids /\ Fetched(poll.found) \in SUBSET Message
  BY <1>2, FetchedTyped
<1>5. Higher(poll.top[poll.folder], Parsed(poll.found)) \in 0 .. MaxUid
  <2>1. Higher(poll.top[poll.folder], Parsed(poll.found)) \in Parsed(poll.found) \cup {poll.top[poll.folder]}
    BY <1>3, <1>4, HigherFacts
  <2>. QED BY <2>1, <1>3, <1>4 DEF Uids
<1>. QED BY <1>1, <1>2, <1>4, <1>5 DEF Polls

\* What is present in a folder, and what the windows take of it, are uids.
LEMMA PresentTyped ==
  ASSUME TypeOK, NEW f \in Folders
  PROVE  Present(f) \in SUBSET Uids
<1>1. delivered[f] \in 0 .. MaxUid
  BY DEF TypeOK
<1>. QED BY <1>1, ConstantsAssumption DEF Present, Uids

\* The uids of the window of a reconciliation are uids.
LEMMA LastNTyped ==
  ASSUME NEW S \in SUBSET Uids, NEW n
  PROVE  LastN(S, n) \in SUBSET Uids /\ FirstN(S, n) \in SUBSET Uids
BY DEF LastN, FirstN

\* The scope bounds what is delivered.
LEMMA WithinScope ==
  ASSUME NEW f \in Folders, [Extent EXCEPT ![f] = @ + 1] \in Scope
  PROVE  delivered[f] + 1 \in 0 .. MaxUid
<1>1. [Extent EXCEPT ![f] = @ + 1] \in
        [Inbox : 0 .. MaxUid, Sent : 0 .. MaxUid, failures : Nat, cleanups : Nat]
  BY ConstantsAssumption
<1>2. CASE f = "Inbox"
  <2>1. [Extent EXCEPT ![f] = @ + 1].Inbox = delivered["Inbox"] + 1
    BY <1>2 DEF Extent
  <2>2. [Extent EXCEPT ![f] = @ + 1].Inbox \in 0 .. MaxUid
    BY <1>1
  <2>. QED BY <1>2, <2>1, <2>2
<1>3. CASE f = "Sent"
  <2>1. [Extent EXCEPT ![f] = @ + 1].Sent = delivered["Sent"] + 1
    BY <1>3 DEF Extent
  <2>2. [Extent EXCEPT ![f] = @ + 1].Sent \in 0 .. MaxUid
    BY <1>1
  <2>. QED BY <1>3, <2>1, <2>2
<1>. QED BY <1>2, <1>3 DEF Folders

LEMMA EmailTypeInit == Init => TypeOK
<1>1. MaxUid \in Nat
  BY ConstantsAssumption
<1>. SUFFICES ASSUME Init PROVE TypeOK
  OBVIOUS
<1>2. poll \in Polls
  BY <1>1 DEF Init, NoPoll, Polls, Folders
<1>3. rec \in [pc : {"idle", "search", "compare", "fetch"}, uids : SUBSET Uids]
  BY DEF Init, NoRec
<1>4. wipe \in [pc : {"idle", "search", "delete"}, folder : Folders, uids : SUBSET Uids]
  BY DEF Init, NoWipe, Folders
<1>5. 0 \in 0 .. MaxUid
  BY <1>1
<1>6. selected \in Folders
  BY DEF Init, Folders
<1>. QED BY <1>2, <1>3, <1>4, <1>5, <1>6 DEF Init, TypeOK, Polls

\* Every action of EmailPoll keeps the types.
LEMMA EmailTypeStep == TypeOK /\ [Next]_vars => TypeOK'
<1>. SUFFICES ASSUME TypeOK, [Next]_vars PROVE TypeOK'
  OBVIOUS
<1>1. MaxUid \in Nat
  BY ConstantsAssumption
<1>2. poll \in Polls /\ Onward(poll) \in Polls /\ NoPoll \in Polls
  <2>1. poll \in Polls
    BY DEF TypeOK, Polls
  <2>2. NoPoll \in Polls
    BY <1>1 DEF NoPoll, Polls, Folders
  <2>3. Onward(poll) \in Polls
    BY <2>1, OnwardTyped
  <2>. QED BY <2>1, <2>2, <2>3
<1>3. ASSUME NEW f \in Folders, Opens(f)
      PROVE  selected' \in Folders /\ torn' \in SUBSET Folders /\ strayed' \in SUBSET {"rec", "wipe"}
  BY <1>3 DEF Opens, Diverted, TypeOK
<1>4. ASSUME NEW kind \in {"failures", "cleanups"}, Trouble(kind)
      PROVE  troubles' \in [failures : Nat, cleanups : Nat]
  BY <1>4 DEF Trouble, TypeOK
<1>5. CASE UNCHANGED vars
  BY <1>5 DEF vars, TypeOK
<1>6. ASSUME NEW f \in Folders, Deliver(f)
      PROVE  TypeOK'
  <2>1. delivered[f] + 1 \in 0 .. MaxUid
    BY <1>6, WithinScope DEF Deliver
  <2>. QED BY <1>6, <2>1 DEF Deliver, TypeOK
<1>7. ASSUME NEW f \in Folders, WipeOpens(f)
      PROVE  TypeOK'
  <2>1. wipe' \in [pc : {"idle", "search", "delete"}, folder : Folders, uids : SUBSET Uids]
    BY <1>7 DEF WipeOpens
  <2>. QED BY <1>3, <1>4, <1>7, <2>1 DEF WipeOpens, TypeOK
<1>8. CASE PollStarts
  <2>1. poll' \in Polls
    BY <1>8, <1>2 DEF PollStarts, Polls, TypeOK
  <2>. QED BY <1>8, <2>1 DEF PollStarts, TypeOK, Polls
<1>9. CASE PollOpens
  <2>1. poll' \in Polls
    BY <1>9, <1>2 DEF PollOpens, Polls
  <2>2. poll.folder \in Folders
    BY <1>2 DEF Polls
  <2>. QED BY <1>9, <1>3, <2>1, <2>2 DEF PollOpens, TypeOK, Polls
<1>10. CASE PollSearches
  <2>1. selected \in Folders /\ poll.folder \in Folders
    BY DEF TypeOK
  <2>2. cursor[poll.folder] \in Nat
    BY <1>1, <2>1 DEF TypeOK
  <2>3. UidsToFetch(Present(selected), cursor[poll.folder]) \in SUBSET Uids
    BY <2>1, <2>2, PresentTyped, UidsToFetchFacts
  <2>4. poll' \in Polls
    BY <1>10, <1>2, <2>3 DEF PollSearches, Polls
  <2>. QED BY <1>10, <2>4 DEF PollSearches, TypeOK, Polls
<1>11. CASE PollFetches
  <2>1. poll' \in Polls
    BY <1>11, FetchTyped, OnwardTyped DEF PollFetches
  <2>. QED BY <1>11, <2>1 DEF PollFetches, TypeOK, Polls
<1>12. CASE PollSaves
  <2>1. poll' \in Polls /\ cursor' \in [Folders -> 0 .. MaxUid]
    BY <1>12, <1>2 DEF PollSaves, Polls
  <2>2. \A f \in Folders : LeftBehind(f) \in SUBSET (Folders \X Uids)
    BY DEF LeftBehind
  <2>3. missed' \in SUBSET (Folders \X Uids)
    BY <1>12, <2>2 DEF PollSaves, TypeOK, Folders
  <2>. QED BY <1>12, <2>1, <2>3 DEF PollSaves, TypeOK, Polls
<1>13. CASE PollEnqueues
  <2>1. poll' \in Polls
    BY <1>13, <1>2 DEF PollEnqueues
  <2>. QED BY <1>13, <2>1 DEF PollEnqueues, TypeOK, Polls
<1>14. CASE PollFails
  <2>1. poll' \in Polls
    BY <1>14, <1>2 DEF PollFails
  <2>. QED BY <1>14, <1>4, <2>1 DEF PollFails, TypeOK, Polls
<1>15. CASE RecOpens
  <2>1. rec' \in [pc : {"idle", "search", "compare", "fetch"}, uids : SUBSET Uids]
    BY <1>15 DEF RecOpens, TypeOK
  <2>. QED BY <1>15, <1>3, <2>1 DEF RecOpens, TypeOK, Folders
<1>16. CASE RecSearches
  <2>1. selected \in Folders
    BY DEF TypeOK
  <2>2. LastN(Present(selected), Window) \in SUBSET Uids
    BY <2>1, PresentTyped, LastNTyped
  <2>3. rec' \in [pc : {"idle", "search", "compare", "fetch"}, uids : SUBSET Uids]
    BY <1>16, <2>2 DEF RecSearches, NoRec
  <2>. QED BY <1>16, <2>3 DEF RecSearches, TypeOK
<1>17. CASE RecCompares
  <2>1. Missing(rec.uids) \in SUBSET Uids
    BY DEF Missing, TypeOK
  <2>2. rec' \in [pc : {"idle", "search", "compare", "fetch"}, uids : SUBSET Uids]
    BY <1>17, <2>1 DEF RecCompares, NoRec
  <2>3. selected' \in Folders /\ torn' \in SUBSET Folders /\ strayed' \in SUBSET {"rec", "wipe"}
    BY <1>17, <1>3 DEF RecCompares, TypeOK, Folders
  <2>. QED BY <1>17, <2>2, <2>3 DEF RecCompares, TypeOK
<1>18. CASE RecFetches
  <2>1. Parsed(rec.uids) \in SUBSET Uids
    BY FetchedTyped DEF TypeOK
  <2>2. FirstN(Parsed(rec.uids), MaxPerPoll) \in SUBSET Uids
    BY <2>1, LastNTyped
  <2>3. enqueued' \in SUBSET Message
    BY <1>18, <2>2 DEF RecFetches, TypeOK, Message, Folders
  <2>4. rec' \in [pc : {"idle", "search", "compare", "fetch"}, uids : SUBSET Uids]
    BY <1>18 DEF RecFetches, NoRec
  <2>. QED BY <1>18, <2>3, <2>4 DEF RecFetches, TypeOK
<1>19. CASE RecFails
  BY <1>19, <1>4 DEF RecFails, TypeOK, NoRec
<1>20. CASE WipeSearches
  <2>1. selected \in Folders
    BY DEF TypeOK
  <2>2. wipe' \in [pc : {"idle", "search", "delete"}, folder : Folders, uids : SUBSET Uids]
    BY <1>20, <2>1, PresentTyped DEF WipeSearches, NoWipe, Folders, TypeOK
  <2>. QED BY <1>20, <2>2 DEF WipeSearches, TypeOK
<1>21. CASE WipeDeletes
  <2>1. gone' \in [Folders -> SUBSET Uids]
    BY <1>21 DEF WipeDeletes, TypeOK
  <2>2. wipe' \in [pc : {"idle", "search", "delete"}, folder : Folders, uids : SUBSET Uids]
    BY <1>21 DEF WipeDeletes, NoWipe, Folders
  <2>. QED BY <1>21, <2>1, <2>2 DEF WipeDeletes, TypeOK
<1>22. CASE Crash
  <2>1. missed' \in SUBSET (Folders \X Uids)
    BY <1>22 DEF Crash, TypeOK, Message
  <2>2. wipe' \in [pc : {"idle", "search", "delete"}, folder : Folders, uids : SUBSET Uids]
    BY <1>22 DEF Crash, NoWipe, Folders
  <2>3. rec' \in [pc : {"idle", "search", "compare", "fetch"}, uids : SUBSET Uids]
    BY <1>22 DEF Crash, NoRec
  <2>. QED BY <1>22, <1>2, <1>4, <2>1, <2>2, <2>3 DEF Crash, TypeOK, Polls
<1>. QED
  BY <1>5, <1>6, <1>7, <1>8, <1>9, <1>10, <1>11, <1>12, <1>13, <1>14, <1>15, <1>16, <1>17, <1>18,
     <1>19, <1>20, <1>21, <1>22 DEF Next, PollStep, RecStep

\* The variables of EmailPoll have the types its comments give them.
THEOREM EmailTypeCorrect == Spec => []TypeOK
BY EmailTypeInit, EmailTypeStep, PTL DEF Spec

-----------------------------------------------------------------------------
(* Each message is of the folder it is said to be of *)

\* Opening a folder while a poll or the reconciliation reads another one is noted.
LEMMA OpensNotes ==
  ASSUME TypeOK, FolderInv, NEW f \in Folders, Opens(f)
  PROVE  /\ torn \subseteq torn' /\ strayed \subseteq strayed'
         /\ poll.pc \in {"search", "fetch"} => poll.folder \in torn' \cup {selected'}
         /\ rec.pc \in {"search", "fetch"} => selected' = "Inbox" \/ "rec" \in strayed'
BY DEF Opens, Diverted, TypeOK

\* The next folder is one that is not being read yet.
LEMMA OnwardFacts ==
  ASSUME NEW p \in Polls
  PROVE  /\ Onward(p).pc \in {"open", "save"} /\ Onward(p).got = p.got /\ Onward(p).top = p.top
         /\ p.folder = "Inbox" => Onward(p).pc = "open" /\ Onward(p).folder = "Sent"
         /\ p.folder = "Sent" => Onward(p).pc = "save" /\ Onward(p).folder = "Sent"
BY DEF Onward, Polls

LEMMA FolderInit == Init => FolderInv
BY DEF Init, FolderInv, ReadsSelected, RecReadsInbox, GotOwn, ReadsItsFolder, NoPoll, NoRec

LEMMA FolderStep == TypeOK /\ FolderInv /\ [Next]_vars => FolderInv'
<1>. SUFFICES ASSUME TypeOK, FolderInv, [Next]_vars PROVE FolderInv'
  OBVIOUS
<1>. USE DEF FolderInv, ReadsSelected, RecReadsInbox, GotOwn, ReadsItsFolder
<1>1. poll \in Polls
  BY DEF TypeOK, Polls
<1>2. CASE UNCHANGED <<selected, poll, rec, enqueued, torn, strayed>>
  BY <1>2
<1>3. ASSUME NEW f \in Folders, WipeOpens(f)
      PROVE  FolderInv'
  BY <1>3, OpensNotes DEF WipeOpens
<1>4. CASE PollStarts
  BY <1>4 DEF PollStarts, NoPoll
<1>5. CASE PollOpens
  <2>1. poll.folder \in Folders
    BY <1>1 DEF Polls
  <2>2. torn \subseteq torn' /\ selected' = poll.folder /\ strayed \subseteq strayed'
        /\ (rec.pc \in {"search", "fetch"} => selected' = "Inbox" \/ "rec" \in strayed')
    BY <1>5, <2>1, OpensNotes DEF PollOpens, Opens
  <2>3. poll'.got = poll.got /\ (poll'.pc \in {"search", "fetch"} => poll'.folder = poll.folder)
    <3>1. CASE poll' = Onward(poll)
      BY <1>1, <3>1, OnwardFacts
    <3>2. CASE poll' = [poll EXCEPT !.pc = "search"]
      BY <1>1, <3>2 DEF Polls
    <3>. QED BY <1>5, <3>1, <3>2 DEF PollOpens
  <2>. QED BY <1>5, <2>2, <2>3 DEF PollOpens
<1>6. CASE PollSearches
  <2>1. poll'.got = poll.got /\ (poll'.pc \in {"search", "fetch"} => poll'.folder = poll.folder /\ poll.pc = "search")
    <3>1. CASE poll' = Onward(poll)
      BY <1>1, <3>1, OnwardFacts
    <3>2. CASE \E uids : poll' = [poll EXCEPT !.pc = "fetch", !.found = uids]
      BY <1>1, <1>6, <3>2 DEF Polls, PollSearches
    <3>. QED BY <1>6, <3>1, <3>2 DEF PollSearches
  <2>. QED BY <1>6, <2>1 DEF PollSearches
<1>7. CASE PollFetches
  <2>. DEFINE p == [poll EXCEPT !.top[poll.folder] = Higher(@, Parsed(poll.found)),
                                !.got = @ \cup Fetched(poll.found), !.found = {}]
  <2>1. p \in Polls /\ poll' = Onward(p)
    BY <1>7, FetchTyped DEF PollFetches
  <2>2. p.got = poll.got \cup Fetched(poll.found)
    BY <1>1 DEF Polls
  <2>. HIDE DEF p
  <2>3. poll'.pc \notin {"search", "fetch"} /\ poll'.got = poll.got \cup Fetched(poll.found)
    BY <2>1, <2>2, OnwardFacts
  <2>4. \A m \in Fetched(poll.found) : m.as = m.from \/ m.as \in torn
    BY <1>7 DEF Fetched, PollFetches
  <2>. QED BY <1>7, <2>3, <2>4 DEF PollFetches
<1>8. CASE PollSaves
  BY <1>1, <1>8 DEF PollSaves, Polls
<1>9. CASE PollEnqueues
  BY <1>9 DEF PollEnqueues, NoPoll
<1>10. CASE PollFails
  BY <1>10 DEF PollFails, NoPoll
<1>11. CASE RecOpens
  BY <1>11, OpensNotes DEF RecOpens, Opens, Folders
<1>12. CASE RecSearches
  BY <1>12 DEF RecSearches, NoRec
<1>13. CASE RecCompares
  <2>1. CASE UNCHANGED <<selected, torn, strayed>> /\ rec' = NoRec
    BY <1>13, <2>1 DEF RecCompares, NoRec
  <2>2. CASE Opens("Inbox")
    BY <1>13, <2>2, OpensNotes DEF RecCompares, Opens, Folders
  <2>. QED BY <1>13, <2>1, <2>2 DEF RecCompares
<1>14. CASE RecFetches
  BY <1>14 DEF RecFetches, NoRec
<1>15. CASE RecFails
  BY <1>15 DEF RecFails, NoRec
<1>16. CASE Crash
  BY <1>16 DEF Crash, NoPoll, NoRec
<1>17. ASSUME NEW f \in Folders, Deliver(f)
       PROVE  FolderInv'
  BY <1>2, <1>17 DEF Deliver
<1>18. CASE WipeSearches \/ WipeDeletes \/ UNCHANGED vars
  BY <1>2, <1>18 DEF WipeSearches, WipeDeletes, vars
<1>. QED
  BY <1>3, <1>4, <1>5, <1>6, <1>7, <1>8, <1>9, <1>10, <1>11, <1>12, <1>13, <1>14, <1>15, <1>16,
     <1>17, <1>18 DEF Next, PollStep, RecStep

\* No message is handed on as one of a folder it was not read from, unless
\* another folder was opened while the poll or the reconciliation read
\* (fetchAndParseMessages works on whatever mailbox is selected).
THEOREM FoldersNeverMixed == Spec => []ReadsItsFolder
<1>1. FolderInv => ReadsItsFolder
  BY DEF FolderInv
<1>. QED BY <1>1, FolderInit, FolderStep, EmailTypeCorrect, PTL DEF Spec

-----------------------------------------------------------------------------
(* The cursor covers what was read *)

\* What excuses a message stays an excuse.
Growing ==
  /\ \A f \in Folders : gone[f] \subseteq gone'[f] /\ delivered[f] <= delivered'[f] /\ delivered'[f] \in Int
  /\ enqueued \subseteq enqueued' /\ missed \subseteq missed' /\ torn \subseteq torn'

LEMMA EveryStepGrows == TypeOK /\ [Next]_vars => Growing
<1>. SUFFICES ASSUME TypeOK, [Next]_vars PROVE Growing
  OBVIOUS
<1>1. \A f \in Folders : delivered[f] \in Int /\ delivered'[f] \in Int
  BY EmailTypeStep, ConstantsAssumption DEF TypeOK
<1>2. ASSUME NEW f \in Folders, Deliver(f)
      PROVE  Growing
  BY <1>1, <1>2 DEF Deliver, TypeOK, Growing
<1>3. ASSUME NEW f \in Folders, WipeOpens(f)
      PROVE  Growing
  BY <1>1, <1>3 DEF WipeOpens, Opens, Growing
<1>4. CASE PollOpens \/ RecOpens
  BY <1>1, <1>4 DEF PollOpens, RecOpens, Opens, Growing
<1>5. CASE RecCompares
  BY <1>1, <1>5 DEF RecCompares, Opens, Growing
<1>6. CASE PollStarts \/ PollSearches \/ PollFetches \/ PollSaves \/ PollEnqueues \/ PollFails
  BY <1>1, <1>6 DEF PollStarts, PollSearches, PollFetches, PollSaves, PollEnqueues, PollFails, Growing
<1>7. CASE RecSearches \/ RecFetches \/ RecFails
  BY <1>1, <1>7 DEF RecSearches, RecFetches, RecFails, Growing
<1>8. CASE WipeDeletes
  <2>1. \A f \in Folders : gone[f] \subseteq gone'[f]
    BY <1>8 DEF WipeDeletes, TypeOK
  <2>. QED BY <1>1, <1>8, <2>1 DEF WipeDeletes, Growing
<1>9. CASE WipeSearches \/ Crash \/ UNCHANGED vars
  BY <1>1, <1>9 DEF WipeSearches, Crash, vars, Growing
<1>. QED
  BY <1>2, <1>3, <1>4, <1>5, <1>6, <1>7, <1>8, <1>9 DEF Next, PollStep, RecStep

LEMMA PassedStays ==
  ASSUME Growing, NEW f \in Folders, NEW u \in Uids, Passed(f, u)
  PROVE  Passed(f, u)'
BY DEF Growing, Passed, Enqueued

\* A step that leaves the poll and the cursor alone keeps the invariant.
LEMMA CoverKept ==
  ASSUME TypeOK, CoverInv, Growing, UNCHANGED <<poll, cursor>>
  PROVE  CoverInv'
<1>1. TopsSound'
  <2>1. \A f \in Folders : Unread(f)' = Unread(f) /\ Read(f)' = Read(f) /\ Beyond(f)' = Beyond(f)
    BY DEF Unread, Read, Beyond
  <2>2. \A f \in Folders : \A u \in Beyond(f) : Grasped(f, u) => Grasped(f, u)'
    BY DEF Grasped, Growing
  <2>. QED BY <2>1, <2>2 DEF CoverInv, TopsSound, Growing
<1>2. WindowSound'
  <2>. SUFFICES ASSUME poll.pc = "fetch", poll.folder \notin torn'
                PROVE  NoHole(poll.folder, poll.found)'
    BY DEF WindowSound
  <2>1. poll.folder \in Folders /\ delivered[poll.folder] \in Int
    BY ConstantsAssumption DEF TypeOK
  <2>2. NoHole(poll.folder, poll.found)
    BY DEF CoverInv, WindowSound, Growing
  <2>3. delivered[poll.folder] <= delivered'[poll.folder] /\ delivered'[poll.folder] \in Int /\ gone[poll.folder] \subseteq gone'[poll.folder]
    BY <2>1 DEF Growing
  <2>4. poll.found \subseteq 1 .. delivered'[poll.folder]
    BY <2>1, <2>2, <2>3 DEF NoHole
  <2>. QED BY <2>2, <2>3, <2>4 DEF NoHole
<1>3. Covered'
  BY PassedStays DEF CoverInv, Covered, InHand
<1>. QED BY <1>1, <1>2, <1>3 DEF CoverInv

\* While a poll is not about to enqueue, all that its cursor covers has passed.
LEMMA AllPassed ==
  ASSUME Covered, Growing, poll.pc # "enqueue", cursor' = cursor
  PROVE  Covered'
BY PassedStays DEF Covered, InHand

\* Leaving a folder that is torn, or of which all up to the new cursor is grasped.
LEMMA LeavesSound ==
  ASSUME TypeOK, CoverInv, Growing, cursor' = cursor, poll.pc \in {"open", "search", "fetch"},
         NEW p \in Polls, poll' = Onward(p), p.folder = poll.folder, poll.got \subseteq p.got,
         \A g \in Folders \ {poll.folder} : p.top[g] = poll.top[g],
         \A g \in Folders : g = poll.folder /\ g \notin torn' => \A u \in Beyond(g)' : Grasped(g, u)'
  PROVE  CoverInv'
<1>1. /\ poll'.pc \in {"open", "save"} /\ poll'.got = p.got /\ poll'.top = p.top
      /\ p.folder = "Inbox" => poll'.pc = "open" /\ poll'.folder = "Sent"
      /\ p.folder = "Sent" => poll'.pc = "save" /\ poll'.folder = "Sent"
  BY OnwardFacts
<1>2. poll.folder \in {"Inbox", "Sent"}
  BY DEF TypeOK, Folders
<1>3. ASSUME NEW f \in Folders, Unread(f)'
      PROVE  poll'.top[f] = cursor'[f]
  <2>1. f = "Sent" /\ poll.folder = "Inbox"
    BY <1>1, <1>2, <1>3 DEF Unread
  <2>2. Unread("Sent") /\ "Sent" \in Folders
    BY DEF Unread, Folders
  <2>. QED BY <1>1, <2>1, <2>2 DEF CoverInv, TopsSound
<1>4. ASSUME NEW f \in Folders, Read(f)', f \notin torn', NEW u \in Beyond(f)'
      PROVE  Grasped(f, u)'
  <2>1. CASE f = poll.folder
    BY <1>4, <2>1
  <2>2. CASE f # poll.folder
    <3>1. Read(f)
      BY <1>1, <1>2, <1>4, <2>2 DEF Read, Folders
    <3>2. u \in Beyond(f) /\ poll'.top[f] = poll.top[f]
      BY <1>1, <1>4, <2>2 DEF Beyond
    <3>3. Grasped(f, u)
      BY <1>4, <3>1, <3>2 DEF CoverInv, TopsSound, Growing
    <3>. QED BY <1>1, <3>2, <3>3 DEF Grasped, Growing
  <2>. QED BY <2>1, <2>2
<1>5. WindowSound'
  BY <1>1 DEF WindowSound
<1>6. Covered'
  BY AllPassed DEF CoverInv
<1>. QED BY <1>3, <1>4, <1>5, <1>6 DEF CoverInv, TopsSound

\* Leaving a folder without having moved the cursor.
LEMMA LeavesUnmoved ==
  ASSUME TypeOK, CoverInv, Growing, cursor' = cursor, poll.pc \in {"open", "search"}, poll' = Onward(poll)
  PROVE  CoverInv'
<1>1. poll \in Polls
  BY DEF TypeOK, Polls
<1>2. poll.folder \in Folders /\ Unread(poll.folder)
  BY <1>1 DEF Polls, Unread
<1>3. poll.top[poll.folder] = cursor[poll.folder]
  BY <1>2 DEF CoverInv, TopsSound
<1>4. poll'.top = poll.top
  BY <1>1, OnwardFacts
<1>5. ASSUME NEW g \in Folders, g = poll.folder
      PROVE  Beyond(g)' = {}
  <2>1. cursor[g] \in Int /\ cursor'[g] = cursor[g] /\ poll'.top[g] = cursor[g]
    BY <1>3, <1>4, <1>5, ConstantsAssumption DEF TypeOK
  <2>2. \A u \in Uids : u \in Int
    BY DEF Uids
  <2>. QED BY <2>1, <2>2 DEF Beyond
<1>. QED BY <1>1, <1>5, LeavesSound

\* A poll opens its folder: it goes on to the next when there is nothing.
LEMMA OpensSound ==
  ASSUME TypeOK, CoverInv, Growing, PollOpens
  PROVE  CoverInv'
<1>1. cursor' = cursor /\ poll.pc = "open" /\ poll \in Polls
  BY DEF PollOpens, TypeOK, Polls
<1>2. CASE poll' = Onward(poll)
  BY <1>1, <1>2, LeavesUnmoved
<1>3. CASE poll' = [poll EXCEPT !.pc = "search"]
  <2>1. poll'.pc = "search" /\ poll'.folder = poll.folder /\ poll'.top = poll.top /\ poll'.got = poll.got
    BY <1>1, <1>3 DEF Polls
  <2>2. \A f \in Folders : Unread(f)' = Unread(f) /\ Read(f)' = Read(f) /\ Beyond(f)' = Beyond(f)
    BY <1>1, <2>1 DEF Unread, Read, Beyond
  <2>3. \A f \in Folders : \A u \in Beyond(f) : Grasped(f, u) => Grasped(f, u)'
    BY <1>1, <2>1 DEF Grasped, Growing
  <2>4. TopsSound'
    BY <1>1, <2>1, <2>2, <2>3 DEF CoverInv, TopsSound, Growing
  <2>. QED BY <1>1, <2>1, <2>4, AllPassed DEF CoverInv, WindowSound
<1>. QED BY <1>2, <1>3 DEF PollOpens

\* A poll asks for its window: what it finds has no hole.
LEMMA SearchSound ==
  ASSUME TypeOK, FolderInv, CoverInv, Growing, PollSearches
  PROVE  CoverInv'
<1>. DEFINE uids == UidsToFetch(Present(selected), cursor[poll.folder])
<1>1. cursor' = cursor /\ poll.pc = "search" /\ poll \in Polls
  BY DEF PollSearches, TypeOK, Polls
<1>2. CASE poll' = Onward(poll)
  BY <1>1, <1>2, LeavesUnmoved
<1>3. CASE poll' = [poll EXCEPT !.pc = "fetch", !.found = uids]
  <2>1. poll'.pc = "fetch" /\ poll'.folder = poll.folder /\ poll'.top = poll.top /\ poll'.got = poll.got
        /\ poll'.found = uids
    BY <1>1, <1>3 DEF Polls
  <2>2. \A f \in Folders : Unread(f)' = Unread(f) /\ Read(f)' = Read(f) /\ Beyond(f)' = Beyond(f)
    BY <1>1, <2>1 DEF Unread, Read, Beyond
  <2>3. \A f \in Folders : \A u \in Beyond(f) : Grasped(f, u) => Grasped(f, u)'
    BY <1>1, <2>1 DEF Grasped, Growing
  <2>4. TopsSound'
    BY <1>1, <2>1, <2>2, <2>3 DEF CoverInv, TopsSound, Growing
  <2>5. ASSUME NEW f \in Folders, f = poll.folder, f \notin torn
        PROVE  NoHole(f, uids)
    <3>1. selected = f
      BY <1>1, <2>5 DEF FolderInv, ReadsSelected
    <3>2. Present(f) \in SUBSET Uids /\ cursor[f] \in Nat
      BY PresentTyped, ConstantsAssumption DEF TypeOK
    <3>3. /\ uids \subseteq Present(f)
          /\ cursor[f] > 0 => \A x \in uids : \A y \in Present(f) : cursor[f] < y /\ y < x => y \in uids
      BY <2>5, <3>1, <3>2, UidsToFetchFacts
    <3>. HIDE DEF uids
    <3>4. ASSUME NEW x \in uids, NEW u \in Uids, u < x
          PROVE  u \in Present(f) \/ u \in gone[f]
      <4>1. x \in 1 .. delivered[f] /\ delivered[f] \in Int
        BY <3>3, ConstantsAssumption DEF Present, TypeOK
      <4>2. u \in 1 .. delivered[f]
        BY <3>4, <4>1 DEF Uids
      <4>. QED BY <4>2 DEF Present
    <3>. QED BY <3>3, <3>4 DEF NoHole, Present
  <2>6. UNCHANGED <<delivered, gone, cursor, torn>> /\ poll.folder \in Folders
    BY <1>1 DEF PollSearches, Polls
  <2>7. WindowSound'
    <3>. HIDE DEF uids
    <3>1. poll.folder \notin torn => NoHole(poll.folder, uids)
      BY <2>5, <2>6
    <3>. QED BY <2>1, <2>6, <3>1 DEF WindowSound, NoHole
  <2>. QED BY <1>1, <2>4, <2>7, AllPassed DEF CoverInv
<1>. QED BY <1>2, <1>3 DEF PollSearches

\* A poll fetches its window: up to the highest uid it could parse, all is grasped.
LEMMA FetchSound ==
  ASSUME TypeOK, FolderInv, CoverInv, Growing, PollFetches
  PROVE  CoverInv'
<1>. DEFINE P == Parsed(poll.found)
            p == [poll EXCEPT !.top[poll.folder] = Higher(@, P), !.got = @ \cup Fetched(poll.found), !.found = {}]
<1>1. poll \in Polls /\ poll.folder \in Folders /\ poll.found \in SUBSET Uids /\ poll.pc = "fetch"
  BY DEF PollFetches, TypeOK, Polls
<1>2. P \in SUBSET Uids /\ p \in Polls /\ poll' = Onward(p)
  BY <1>1, FetchedTyped, FetchTyped DEF PollFetches
<1>3. UNCHANGED <<delivered, gone, cursor, torn>>
  BY DEF PollFetches
<1>4. /\ p.folder = poll.folder /\ p.got = poll.got \cup Fetched(poll.found)
      /\ p.top = [poll.top EXCEPT ![poll.folder] = Higher(@, P)]
  BY <1>1 DEF Polls
<1>. HIDE DEF p
<1>5. poll'.top = p.top /\ poll'.got = p.got
  BY <1>2, OnwardFacts
<1>6. ASSUME NEW f \in Folders, f = poll.folder, f \notin torn', NEW u \in Beyond(f)'
      PROVE  Grasped(f, u)'
  <2>1. Unread(f) /\ poll.top[f] = cursor[f] /\ cursor[f] \in 0 .. MaxUid /\ cursor'[f] = cursor[f]
    BY <1>1, <1>3, <1>6 DEF CoverInv, TopsSound, Unread, TypeOK
  <2>2. poll'.top[f] = Higher(cursor[f], P)
    BY <1>1, <1>4, <1>5, <1>6, <2>1 DEF Polls
  <2>3. u \in Uids /\ cursor[f] < u /\ u <= poll'.top[f]
    BY <1>3, <1>6 DEF Beyond
  <2>4. poll'.top[f] \in P
    <3>1. poll'.top[f] \in P \cup {cursor[f]}
      BY <1>2, <2>1, <2>2, HigherFacts
    <3>2. u \in Int /\ cursor[f] \in Int
      BY <2>1, <2>3, ConstantsAssumption DEF Uids
    <3>. QED BY <2>3, <3>1, <3>2
  <2>5. selected = f /\ NoHole(f, poll.found)
    BY <1>1, <1>3, <1>6 DEF FolderInv, ReadsSelected, CoverInv, WindowSound
  <2>6. ASSUME NEW v \in P
        PROVE  \E m \in poll'.got : m.as = f /\ m.uid = v
    <3>1. [as |-> f, from |-> f, uid |-> v] \in poll'.got
      BY <1>4, <1>5, <1>6, <2>5, <2>6 DEF Fetched
    <3>. QED BY <3>1
  <2>7. CASE u = poll'.top[f]
    BY <2>4, <2>6, <2>7 DEF Grasped
  <2>8. CASE u < poll'.top[f] /\ cursor[f] = 0
    BY <2>1, <2>8 DEF Grasped
  <2>9. CASE u < poll'.top[f] /\ cursor[f] > 0
    <3>1. poll'.top[f] \in poll.found
      BY <2>4 DEF Parsed
    <3>2. u \in poll.found \/ u \in gone[f]
      BY <2>3, <2>5, <2>9, <3>1 DEF NoHole
    <3>3. u \in poll.found => u \in Present(f) \/ u \in gone[f]
      BY <2>5 DEF NoHole, Present
    <3>4. u \in P \/ u \in gone[f] \/ <<f, u>> \in Unparsable
      BY <2>5, <3>2, <3>3 DEF Parsed
    <3>5. gone'[f] = gone[f]
      BY <1>3
    <3>. QED BY <2>6, <3>4, <3>5 DEF Grasped
  <2>10. u \in Int /\ poll'.top[f] \in Int /\ cursor[f] \in Nat
    BY <1>2, <2>1, <2>3, <2>4, ConstantsAssumption DEF Uids
  <2>. QED BY <2>1, <2>3, <2>7, <2>8, <2>9, <2>10
<1>7. \A g \in Folders \ {poll.folder} : p.top[g] = poll.top[g]
  BY <1>1, <1>4 DEF Polls
<1>. QED BY <1>1, <1>2, <1>3, <1>4, <1>6, <1>7, LeavesSound

\* A poll saves its cursor: what is passed now is in its hands, or left behind.
LEMMA SaveSound ==
  ASSUME TypeOK, CoverInv, Growing, PollSaves
  PROVE  CoverInv'
<1>1. poll \in Polls /\ poll.pc = "save" /\ cursor' = poll.top
      /\ poll' = [poll EXCEPT !.pc = "enqueue"] /\ UNCHANGED <<gone, enqueued, torn>>
  BY DEF PollSaves, TypeOK, Polls
<1>2. poll'.pc = "enqueue" /\ poll'.got = poll.got
  BY <1>1 DEF Polls
<1>3. TopsSound' /\ WindowSound'
  BY <1>2 DEF TopsSound, WindowSound, Unread, Read
<1>4. ASSUME NEW f \in Folders, NEW u \in Uids, u <= cursor'[f]
      PROVE  Passed(f, u)' \/ InHand(f, u)'
  <2>1. u \in Int /\ cursor[f] \in Int /\ poll.top[f] \in Int
    BY <1>1, ConstantsAssumption DEF TypeOK, Uids, Polls
  <2>2. CASE u <= cursor[f]
    BY <1>1, <2>2, PassedStays DEF CoverInv, Covered, InHand
  <2>3. CASE cursor[f] < u /\ f \in torn
    BY <1>1, <2>3 DEF Passed
  <2>4. CASE cursor[f] < u /\ f \notin torn
    <3>1. Grasped(f, u)
      BY <1>1, <1>4, <2>4 DEF CoverInv, TopsSound, Read, Beyond
    <3>2. CASE \E m \in poll.got : m.as = f /\ m.uid = u
      BY <1>2, <3>2 DEF InHand
    <3>3. CASE <<f, u>> \in Unparsable \/ u \in gone[f]
      BY <1>1, <3>3 DEF Passed
    <3>4. CASE cursor[f] = 0 /\ u < poll.top[f] /\ \A m \in poll.got : ~(m.as = f /\ m.uid = u)
      <4>1. <<f, u>> \in LeftBehind(f)
        BY <3>4 DEF LeftBehind
      <4>2. LeftBehind(f) \subseteq missed'
        BY DEF PollSaves, Folders
      <4>. QED BY <4>1, <4>2 DEF Passed
    <3>. QED BY <3>1, <3>2, <3>3, <3>4 DEF Grasped
  <2>. QED BY <2>1, <2>2, <2>3, <2>4
<1>. QED BY <1>3, <1>4 DEF CoverInv, Covered

\* A poll hands on all it got.
LEMMA EnqueueSound ==
  ASSUME TypeOK, FolderInv, CoverInv, Growing, PollEnqueues
  PROVE  CoverInv'
<1>1. poll'.pc = "idle" /\ cursor' = cursor /\ enqueued' = enqueued \cup poll.got /\ torn' = torn
  BY DEF PollEnqueues, NoPoll
<1>2. TopsSound' /\ WindowSound'
  BY <1>1 DEF TopsSound, WindowSound, Unread, Read
<1>3. ASSUME NEW f \in Folders, NEW u \in Uids, InHand(f, u)
      PROVE  Passed(f, u)'
  <2>1. PICK m \in poll.got : m.as = f /\ m.uid = u
    BY <1>3 DEF InHand
  <2>2. m \in Message
    BY DEF TypeOK
  <2>3. CASE f \in torn
    BY <1>1, <2>3 DEF Passed
  <2>4. CASE f \notin torn
    <3>1. m.from = f
      BY <2>1, <2>4 DEF FolderInv, GotOwn
    <3>2. m = [as |-> f, from |-> f, uid |-> u]
      BY <2>1, <2>2, <3>1 DEF Message
    <3>. QED BY <1>1, <2>1, <3>2 DEF Passed, Enqueued
  <2>. QED BY <2>3, <2>4
<1>. QED BY <1>1, <1>2, <1>3, PassedStays DEF CoverInv, Covered

\* A poll begins, or ends without a result.
LEMMA PollEndsSound ==
  ASSUME TypeOK, CoverInv, Growing, PollStarts \/ PollFails \/ Crash
  PROVE  CoverInv'
<1>1. cursor' = cursor
  BY DEF PollStarts, PollFails, Crash
<1>2. CASE PollStarts
  <2>1. poll.pc = "idle" /\ poll'.pc = "open" /\ poll'.folder = "Inbox" /\ poll'.top = cursor
    BY <1>2 DEF PollStarts, NoPoll
  <2>2. TopsSound' /\ WindowSound'
    BY <1>1, <2>1 DEF TopsSound, WindowSound, Unread, Read
  <2>. QED BY <1>1, <2>1, <2>2, AllPassed DEF CoverInv
<1>3. CASE PollFails \/ Crash
  <2>1. poll'.pc = "idle"
    BY <1>3 DEF PollFails, Crash, NoPoll
  <2>2. TopsSound' /\ WindowSound'
    BY <2>1 DEF TopsSound, WindowSound, Unread, Read
  <2>3. ASSUME NEW f \in Folders, NEW u \in Uids, InHand(f, u)
        PROVE  Passed(f, u)'
    <3>1. <<f, u>> \in missed'
      BY <1>3, <2>3 DEF InHand, PollFails, Crash
    <3>. QED BY <3>1 DEF Passed
  <2>. QED BY <1>1, <2>2, <2>3, PassedStays DEF CoverInv, Covered
<1>. QED BY <1>2, <1>3

LEMMA CoverInit == Init => CoverInv
<1>. SUFFICES ASSUME Init PROVE CoverInv
  OBVIOUS
<1>1. poll.pc = "idle" /\ cursor = [f \in Folders |-> 0]
  BY DEF Init, NoPoll
<1>2. \A f \in Folders, u \in Uids : ~(u <= cursor[f])
  BY <1>1 DEF Uids
<1>. QED BY <1>1, <1>2 DEF CoverInv, TopsSound, WindowSound, Covered, Unread, Read

LEMMA CoverStep == TypeOK /\ FolderInv /\ CoverInv /\ [Next]_vars => CoverInv'
<1>. SUFFICES ASSUME TypeOK, FolderInv, CoverInv, [Next]_vars PROVE CoverInv'
  OBVIOUS
<1>1. Growing
  BY EveryStepGrows
<1>2. ASSUME NEW f \in Folders, Deliver(f) \/ WipeOpens(f)
      PROVE  UNCHANGED <<poll, cursor>>
  BY <1>2 DEF Deliver, WipeOpens
<1>3. RecStep \/ RecFails \/ WipeSearches \/ WipeDeletes \/ UNCHANGED vars => UNCHANGED <<poll, cursor>>
  BY DEF RecStep, RecOpens, RecSearches, RecCompares, RecFetches, RecFails, WipeSearches, WipeDeletes, vars
<1>4. CASE UNCHANGED <<poll, cursor>>
  BY <1>1, <1>4, CoverKept
<1>5. CASE PollStep \/ PollFails \/ Crash
  BY <1>1, <1>5, OpensSound, SearchSound, FetchSound, SaveSound, EnqueueSound, PollEndsSound DEF PollStep
<1>. QED BY <1>2, <1>3, <1>4, <1>5 DEF Next

\* A message below the cursor of its folder was handed on or is about to be, or
\* there is one of the named reasons why not (poll saves the cursor before it
\* returns the messages, and nobody asks for older ones again).
THEOREM CursorAlwaysCovered == Spec => []Covered
<1>1. CoverInv => Covered
  BY DEF CoverInv
<1>2. TypeOK /\ FolderInv /\ [Next]_vars => FolderInv'
  BY FolderStep
<1>. QED BY <1>1, <1>2, CoverInit, CoverStep, FolderInit, EmailTypeCorrect, PTL DEF Spec

-----------------------------------------------------------------------------
(* The cursors move forward, and a cleanup deletes what it was asked for *)

\* The cursor a poll is about to save is not below the saved one.
TopsAhead == poll.pc # "idle" => \A f \in Folders : cursor[f] <= poll.top[f]

LEMMA TopsAheadInit == Init => TopsAhead
BY DEF Init, TopsAhead, NoPoll

\* Each step leaves the new cursor ahead, and saving it moves the saved one there.
LEMMA TopsAheadStep ==
  TypeOK /\ TopsAhead /\ [Next]_vars => TopsAhead' /\ \A f \in Folders : cursor[f] <= cursor'[f]
<1>. SUFFICES ASSUME TypeOK, TopsAhead, [Next]_vars
              PROVE  TopsAhead' /\ \A f \in Folders : cursor[f] <= cursor'[f]
  OBVIOUS
<1>1. poll \in Polls /\ \A f \in Folders : cursor[f] \in 0 .. MaxUid /\ cursor[f] \in Int
  BY ConstantsAssumption DEF TypeOK, Polls
<1>2. CASE UNCHANGED cursor /\ poll'.pc = "idle"
  BY <1>1, <1>2 DEF TopsAhead
<1>3. CASE UNCHANGED cursor /\ poll.pc # "idle" /\ poll'.top = poll.top
  BY <1>1, <1>3 DEF TopsAhead
<1>4. CASE UNCHANGED <<cursor, poll>>
  BY <1>1, <1>4 DEF TopsAhead
<1>5. CASE PollStarts
  BY <1>1, <1>5 DEF PollStarts, NoPoll, TopsAhead
<1>6. CASE PollOpens \/ PollSearches
  <2>1. poll'.top = poll.top
    <3>1. CASE poll' = Onward(poll)
      BY <1>1, <3>1, OnwardFacts
    <3>2. CASE poll' # Onward(poll)
      BY <1>1, <1>6, <3>2 DEF PollOpens, PollSearches, Polls
    <3>. QED BY <3>1, <3>2
  <2>. QED BY <1>3, <1>6, <2>1 DEF PollOpens, PollSearches
<1>7. CASE PollFetches
  <2>. DEFINE f == poll.folder
              p == [poll EXCEPT !.top[poll.folder] = Higher(@, Parsed(poll.found)),
                                !.got = @ \cup Fetched(poll.found), !.found = {}]
  <2>1. p \in Polls /\ poll' = Onward(p)
    BY <1>7, FetchTyped DEF PollFetches
  <2>2. poll.top \in [Folders -> 0 .. MaxUid] /\ f \in Folders /\ Parsed(poll.found) \in SUBSET Uids
    BY <1>1, FetchedTyped DEF Polls
  <2>3. p.top = [poll.top EXCEPT ![f] = Higher(poll.top[f], Parsed(poll.found))]
    BY <1>1 DEF Polls
  <2>. HIDE DEF p
  <2>4. poll'.top = p.top
    BY <2>1, OnwardFacts
  <2>5. poll.top[f] <= Higher(poll.top[f], Parsed(poll.found))
    BY <2>2, HigherFacts
  <2>6. p.top \in [Folders -> 0 .. MaxUid]
    BY <2>1 DEF Polls
  <2>7. \A g \in Folders : poll.top[g] <= p.top[g] /\ poll.top[g] \in Int /\ p.top[g] \in Int
    BY <2>2, <2>3, <2>5, <2>6, ConstantsAssumption
  <2>. QED BY <1>1, <1>7, <2>4, <2>7 DEF PollFetches, TopsAhead
<1>8. CASE PollSaves
  <2>1. cursor' = poll.top /\ poll'.top = poll.top /\ poll.pc = "save"
    BY <1>1, <1>8 DEF PollSaves, Polls
  <2>2. \A f \in Folders : poll.top[f] \in Int
    BY <1>1, ConstantsAssumption DEF Polls
  <2>. QED BY <2>1, <2>2 DEF TopsAhead
<1>9. CASE PollEnqueues \/ PollFails \/ Crash
  BY <1>2, <1>9 DEF PollEnqueues, PollFails, Crash, NoPoll
<1>10. CASE RecStep \/ RecFails \/ WipeSearches \/ WipeDeletes \/ UNCHANGED vars
  BY <1>4, <1>10 DEF RecStep, RecOpens, RecSearches, RecCompares, RecFetches, RecFails, WipeSearches,
                     WipeDeletes, vars
<1>11. ASSUME NEW f \in Folders, Deliver(f) \/ WipeOpens(f)
       PROVE  UNCHANGED <<cursor, poll>>
  BY <1>11 DEF Deliver, WipeOpens
<1>. QED BY <1>4, <1>5, <1>6, <1>7, <1>8, <1>9, <1>10, <1>11 DEF Next, PollStep

\* No poll, failed or not, moves a saved cursor back (updateAccountAfterPoll writes
\* what poll computed from the cursor it had read, and one poll runs at a time).
THEOREM CursorsOnlyAdvance == Spec => CursorsAdvance
<1>1. TypeOK /\ TopsAhead /\ [Next]_vars => TopsAhead'
  BY TopsAheadStep
<1>2. TypeOK /\ TopsAhead /\ [Next]_vars => [\A f \in Folders : cursor[f] <= cursor'[f]]_vars
  BY TopsAheadStep
<1>. QED BY <1>1, <1>2, TopsAheadInit, EmailTypeCorrect, PTL DEF Spec, CursorsAdvance

\* A cleanup under way has its folder open, unless it was led astray.
WipeHasFolder == wipe.pc # "idle" => wipe.folder = selected \/ "wipe" \in strayed

LEMMA WipeInit == Init => WipeHasFolder
BY DEF Init, WipeHasFolder, NoWipe

LEMMA OpensKeepsWipe ==
  ASSUME TypeOK, WipeHasFolder, NEW f \in Folders, Opens(f), wipe' = wipe
  PROVE  WipeHasFolder'
BY DEF Opens, WipeHasFolder

LEMMA WipeStep == TypeOK /\ WipeHasFolder /\ [Next]_vars => WipeHasFolder'
<1>. SUFFICES ASSUME TypeOK, WipeHasFolder, [Next]_vars PROVE WipeHasFolder'
  OBVIOUS
<1>1. CASE UNCHANGED <<selected, strayed, wipe>>
  BY <1>1 DEF WipeHasFolder
<1>2. ASSUME NEW f \in Folders, Opens(f), wipe' = wipe
      PROVE  WipeHasFolder'
  BY <1>2, OpensKeepsWipe
<1>3. ASSUME NEW f \in Folders, WipeOpens(f)
      PROVE  WipeHasFolder'
  BY <1>3 DEF WipeOpens, Opens, WipeHasFolder
<1>4. ASSUME NEW f \in Folders, Deliver(f)
      PROVE  WipeHasFolder'
  BY <1>1, <1>4 DEF Deliver
<1>5. CASE PollOpens \/ RecOpens \/ RecCompares
  <2>1. poll.folder \in Folders /\ "Inbox" \in Folders
    BY DEF TypeOK, Folders
  <2>. QED BY <1>1, <1>2, <1>5, <2>1 DEF PollOpens, RecOpens, RecCompares
<1>6. CASE WipeSearches
  <2>1. wipe'.pc # "idle" => wipe.pc # "idle" /\ wipe'.folder = wipe.folder
    BY <1>6 DEF WipeSearches, NoWipe, TypeOK
  <2>. QED BY <1>6, <2>1 DEF WipeSearches, WipeHasFolder
<1>7. CASE WipeDeletes \/ Crash
  BY <1>7 DEF WipeDeletes, Crash, NoWipe, WipeHasFolder
<1>8. CASE PollStarts \/ PollSearches \/ PollFetches \/ PollSaves \/ PollEnqueues \/ PollFails
  BY <1>1, <1>8 DEF PollStarts, PollSearches, PollFetches, PollSaves, PollEnqueues, PollFails
<1>9. CASE RecSearches \/ RecFetches \/ RecFails \/ UNCHANGED vars
  BY <1>1, <1>9 DEF RecSearches, RecFetches, RecFails, vars
<1>. QED BY <1>3, <1>4, <1>5, <1>6, <1>7, <1>8, <1>9 DEF Next, PollStep, RecStep

\* Only the delete of a cleanup makes messages disappear, from the folder that is
\* open then.
LEMMA DeletesSelected ==
  ASSUME TypeOK, WipeHasFolder, [Next]_vars, NEW f \in Folders, gone'[f] # gone[f]
  PROVE  wipe.folder = f \/ "wipe" \in strayed
<1>1. WipeDeletes
  <2>1. ASSUME NEW g \in Folders, Deliver(g) \/ WipeOpens(g)
        PROVE  UNCHANGED gone
    BY <2>1 DEF Deliver, WipeOpens
  <2>2. PollStep \/ PollFails \/ RecStep \/ RecFails \/ WipeSearches \/ Crash \/ UNCHANGED vars => UNCHANGED gone
    BY DEF PollStep, PollStarts, PollOpens, PollSearches, PollFetches, PollSaves, PollEnqueues, PollFails,
           RecStep, RecOpens, RecSearches, RecCompares, RecFetches, RecFails, WipeSearches, Crash, vars
  <2>. QED BY <2>1, <2>2 DEF Next
<1>2. f = selected /\ wipe.pc # "idle"
  BY <1>1 DEF WipeDeletes, TypeOK
<1>. QED BY <1>2 DEF WipeHasFolder

\* A cleanup deletes messages of no folder but its own, unless a poll or a
\* reconciliation opened another between its steps
\* (deleteAllMessagesFromFolder deletes in whatever mailbox is selected).
THEOREM DeletesOnlyItsFolder == Spec => DeletesItsFolder
<1>1. TypeOK /\ WipeHasFolder /\ [Next]_vars =>
        [\A f \in Folders : gone'[f] # gone[f] => wipe.folder = f \/ "wipe" \in strayed]_vars
  BY DeletesSelected
<1>. QED BY <1>1, WipeInit, WipeStep, EmailTypeCorrect, PTL DEF Spec, DeletesItsFolder

-----------------------------------------------------------------------------
(* EmailThreading: types *)

Placed(w) == worker[w].pc \in {"findMessage", "insert"}

\* A busy worker holds a mail, and the headers of a mail name its keys.
LEMMA JobFacts ==
  ASSUME ThreadingTypeOK, NEW w \in Workers
  PROVE  /\ Busy(w) => worker[w] \in [pc : Pc, mail : Mails, parent : BOOLEAN, conv : Keys \cup {Nobody}]
         /\ worker[w].pc \in Pc => Busy(w)
         /\ Busy(w) => MailOf(w) \in Mails /\ HeadOf(w) \in Header
<1>1. worker[w] \in WorkerState
  BY DEF ThreadingTypeOK
<1>2. Idle.pc \notin Pc
  BY DEF Idle, Pc
<1>3. Busy(w) => worker[w] \in [pc : Pc, mail : Mails, parent : BOOLEAN, conv : Keys \cup {Nobody}]
  BY <1>1 DEF WorkerState, Busy
<1>4. Busy(w) => MailOf(w) \in Mails /\ HeadOf(w) \in Header
  BY <1>3, ThreadingAssumption DEF MailOf, HeadOf
<1>. QED BY <1>2, <1>3, <1>4 DEF Busy

LEMMA HeaderFacts ==
  ASSUME NEW h \in Header
  PROVE  /\ ParentKey(h) \in Keys /\ h.peer \in Keys
         /\ h.peer \in Peers /\ h.account \in Accounts
         /\ h.thread # NoThread => ParentKey(h) = h.thread /\ ParentKey(h) \in Threads
         /\ h.thread = NoThread => ParentKey(h) = h.peer
         /\ h.root \in BOOLEAN /\ h.out \in BOOLEAN /\ h.subject \in Subjects
         /\ People(h) \in SUBSET (Peers \cup Accounts)
BY ThreadingAssumption DEF Header, Keys, People, ParentKey

\* A reply names its thread.
LEMMA RepliesName ==
  ASSUME NEW m \in Mails, ~Head[m].root
  PROVE  Head[m].thread # NoThread /\ ParentKey(Head[m]) = Head[m].thread /\ ParentKey(Head[m]) \in Threads
<1>1. Head[m] \in Header /\ Head[m].thread # NoThread
  BY ThreadingAssumption
<1>. QED BY <1>1, HeaderFacts

\* What the three ways of moving a worker do to it and to the others.
LEMMA GotoFacts ==
  ASSUME ThreadingTypeOK, NEW w \in Workers, NEW pc \in Pc, Busy(w), Goto(w, pc)
  PROVE  /\ worker' \in [Workers -> WorkerState]
         /\ \A v \in Workers \ {w} : worker'[v] = worker[v]
         /\ worker'[w] \in [pc : Pc, mail : Mails, parent : BOOLEAN, conv : Keys \cup {Nobody}]
         /\ worker'[w].pc = pc /\ worker'[w].mail = worker[w].mail
         /\ worker'[w].parent = worker[w].parent /\ worker'[w].conv = worker[w].conv
<1>1. worker \in [Workers -> WorkerState]
  BY DEF ThreadingTypeOK
<1>2. worker[w] \in [pc : Pc, mail : Mails, parent : BOOLEAN, conv : Keys \cup {Nobody}]
  BY JobFacts
<1>3. worker'[w] = [worker[w] EXCEPT !.pc = pc]
  BY <1>1 DEF Goto
<1>4. worker'[w] \in WorkerState
  BY <1>2, <1>3 DEF WorkerState
<1>. QED BY <1>1, <1>2, <1>3, <1>4 DEF Goto

LEMMA ChooseFacts ==
  ASSUME ThreadingTypeOK, NEW w \in Workers, NEW k \in Keys, Busy(w), Choose(w, k)
  PROVE  /\ worker' \in [Workers -> WorkerState]
         /\ \A v \in Workers \ {w} : worker'[v] = worker[v]
         /\ worker'[w] \in [pc : Pc, mail : Mails, parent : BOOLEAN, conv : Keys \cup {Nobody}]
         /\ worker'[w].pc = "findMessage" /\ worker'[w].mail = worker[w].mail /\ worker'[w].conv = k
<1>1. worker \in [Workers -> WorkerState]
  BY DEF ThreadingTypeOK
<1>2. worker[w] \in [pc : Pc, mail : Mails, parent : BOOLEAN, conv : Keys \cup {Nobody}]
  BY JobFacts
<1>3. worker'[w] = [worker[w] EXCEPT !.pc = "findMessage", !.conv = k]
  BY <1>1 DEF Choose
<1>4. worker'[w] \in [pc : Pc, mail : Mails, parent : BOOLEAN, conv : Keys \cup {Nobody}]
  BY <1>2, <1>3 DEF Pc
<1>. QED BY <1>1, <1>2, <1>3, <1>4 DEF Choose, WorkerState

LEMMA FinishFacts ==
  ASSUME ThreadingTypeOK, NEW w \in Workers, Finish(w)
  PROVE  /\ worker' \in [Workers -> WorkerState]
         /\ \A v \in Workers \ {w} : worker'[v] = worker[v]
         /\ worker'[w] = Idle /\ worker'[w].pc = "idle"
BY DEF Finish, ThreadingTypeOK, WorkerState, Idle

\* A reply that goes on from its parent remembers whether there is one.
LEMMA RemembersFacts ==
  ASSUME ThreadingTypeOK, NEW w \in Workers, NEW b \in BOOLEAN, Busy(w),
         worker' = [worker EXCEPT ![w].pc = "findThread", ![w].parent = b]
  PROVE  /\ worker' \in [Workers -> WorkerState]
         /\ \A v \in Workers \ {w} : worker'[v] = worker[v]
         /\ worker'[w] \in [pc : Pc, mail : Mails, parent : BOOLEAN, conv : Keys \cup {Nobody}]
         /\ worker'[w].pc = "findThread" /\ worker'[w].mail = worker[w].mail /\ worker'[w].parent = b
<1>1. worker \in [Workers -> WorkerState]
  BY DEF ThreadingTypeOK
<1>2. worker[w] \in [pc : Pc, mail : Mails, parent : BOOLEAN, conv : Keys \cup {Nobody}]
  BY JobFacts
<1>3. worker'[w] = [worker[w] EXCEPT !.pc = "findThread", !.parent = b]
  BY <1>1
<1>4. worker'[w] \in [pc : Pc, mail : Mails, parent : BOOLEAN, conv : Keys \cup {Nobody}]
  <2>1. worker'[w] = [pc |-> "findThread", mail |-> worker[w].mail, parent |-> b, conv |-> worker[w].conv]
    BY <1>2, <1>3
  <2>2. worker[w].mail \in Mails /\ worker[w].conv \in Keys \cup {Nobody} /\ "findThread" \in Pc
    BY <1>2 DEF Pc
  <2>3. \A pc \in Pc, n \in Mails, k \in Keys \cup {Nobody} :
          [pc |-> pc, mail |-> n, parent |-> b, conv |-> k]
            \in [pc : Pc, mail : Mails, parent : BOOLEAN, conv : Keys \cup {Nobody}]
    BY Zenon
  <2>. DEFINE R == [pc |-> "findThread", mail |-> worker[w].mail, parent |-> b, conv |-> worker[w].conv]
  <2>4. R \in [pc : Pc, mail : Mails, parent : BOOLEAN, conv : Keys \cup {Nobody}]
    BY <2>2, <2>3
  <2>5. worker'[w] = R
    BY <2>1
  <2>. HIDE DEF R
  <2>. QED BY <2>4, <2>5
<1>. QED BY <1>1, <1>2, <1>3, <1>4 DEF WorkerState

\* A job starts with the lookup of its parent.
LEMMA StartFacts ==
  ASSUME ThreadingTypeOK, NEW w \in Workers, NEW m \in Mails, Start(w, m)
  PROVE  /\ worker' \in [Workers -> WorkerState]
         /\ \A v \in Workers \ {w} : worker'[v] = worker[v]
         /\ worker'[w].pc = "findParent" /\ worker'[w].mail = m /\ worker'[w] # Idle
<1>1. worker \in [Workers -> WorkerState]
  BY DEF ThreadingTypeOK
<1>2. worker'[w] = [pc |-> "findParent", mail |-> m, parent |-> FALSE, conv |-> Nobody]
  BY <1>1 DEF Start
<1>3. worker'[w] \in WorkerState
  BY <1>2 DEF WorkerState, Pc
<1>4. worker'[w].pc = "findParent" /\ worker'[w].mail = m
  BY <1>2
<1>. QED BY <1>1, <1>3, <1>4 DEF Start, Idle

\* The conversations ThreadConvs names are keys.
LEMMA ThreadConvsTyped ==
  ASSUME ThreadingTypeOK, NEW h
  PROVE  ThreadConvs(h) \in SUBSET Keys
<1>1. \A c \in convs : c.key \in Keys
  BY DEF ThreadingTypeOK, Conversation
<1>. QED BY <1>1 DEF ThreadConvs, Holding, OnTopic

\* Every step of a job moves its own worker, and lets the tables and the
\* histories grow by what belongs to its mail.
Steps(w) ==
  /\ worker' \in [Workers -> WorkerState]
  /\ \A v \in Workers \ {w} : worker'[v] = worker[v]
  /\ convs \subseteq convs' /\ rows \subseteq rows' /\ clashed \subseteq clashed' /\ failed \subseteq failed'
  /\ \A c \in convs' \ convs :
       Busy(w) /\ c \in Conversation /\ c.account = HeadOf(w).account
               /\ c.key \in {ParentKey(HeadOf(w)), HeadOf(w).peer}
  /\ \A r \in rows' \ rows : Busy(w) /\ r = <<MailOf(w), worker[w].conv>> /\ worker[w].conv \in Keys \cup {Nobody}

JobStep(w) ==
  \/ \E m \in Mails : Start(w, m)
  \/ FindParent(w) \/ CreateParent(w) \/ FindThread(w) \/ FindPeer(w) \/ CreateChild(w)
  \/ CreationRefused(w) \/ FindMessage(w) \/ InsertMessage(w) \/ JobFails(w)

LEMMA StepFacts ==
  ASSUME ThreadingTypeOK, NEW w \in Workers, JobStep(w)
  PROVE  Steps(w)
<1>1. ASSUME NEW m \in Mails, Start(w, m)
      PROVE  Steps(w)
  BY <1>1, StartFacts DEF Start, Steps
<1>2. CASE FindParent(w)
  <2>. DEFINE h == HeadOf(w)
  <2>1. Busy(w) /\ h \in Header
    BY <1>2, JobFacts DEF FindParent, At, Pc
  <2>2. worker' \in [Workers -> WorkerState] /\ \A v \in Workers \ {w} : worker'[v] = worker[v]
    <3>1. CASE Choose(w, h.peer)
      BY <2>1, <3>1, HeaderFacts, ChooseFacts
    <3>2. CASE Choose(w, ParentKey(h))
      BY <2>1, <3>2, HeaderFacts, ChooseFacts
    <3>3. CASE Goto(w, "createParent")
      BY <2>1, <3>3, GotoFacts DEF Pc
    <3>4. CASE worker' = [worker EXCEPT ![w].pc = "findThread", ![w].parent = (Parent(h) # {})]
      BY <2>1, <3>4, RemembersFacts
    <3>. QED BY <1>2, <3>1, <3>2, <3>3, <3>4 DEF FindParent
  <2>. QED BY <1>2, <2>2 DEF FindParent, Steps
<1>3. CASE CreateParent(w)
  <2>1. Busy(w) /\ HeadOf(w) \in Header
    BY <1>3, JobFacts DEF CreateParent, At, Pc
  <2>2. worker' \in [Workers -> WorkerState] /\ \A v \in Workers \ {w} : worker'[v] = worker[v]
    BY <1>3, <2>1, HeaderFacts, ChooseFacts DEF CreateParent
  <2>. DEFINE c == [key |-> ParentKey(HeadOf(w)), account |-> HeadOf(w).account, kind |-> "parent",
                    peer |-> HeadOf(w).peer, topic |-> Nobody]
  <2>3. c \in Conversation
    BY <2>1, HeaderFacts DEF Conversation
  <2>4. convs' = convs \cup {c}
    BY <1>3 DEF CreateParent
  <2>. QED BY <1>3, <2>1, <2>2, <2>3, <2>4 DEF CreateParent, Steps
<1>4. CASE FindThread(w)
  <2>1. Busy(w) /\ HeadOf(w) \in Header
    BY <1>4, JobFacts DEF FindThread, At, Pc
  <2>2. worker' \in [Workers -> WorkerState] /\ \A v \in Workers \ {w} : worker'[v] = worker[v]
    <3>1. CASE \E k \in ThreadConvs(HeadOf(w)) : Choose(w, k)
      BY <2>1, <3>1, ThreadConvsTyped, ChooseFacts
    <3>2. CASE Goto(w, IF worker[w].parent THEN "createChild" ELSE "findPeer")
      BY <2>1, <3>2, GotoFacts DEF Pc
    <3>. QED BY <1>4, <3>1, <3>2 DEF FindThread
  <2>. QED BY <1>4, <2>2 DEF FindThread, Steps
<1>5. CASE FindPeer(w)
  <2>1. Busy(w) /\ HeadOf(w) \in Header
    BY <1>5, JobFacts DEF FindPeer, At, Pc
  <2>2. worker' \in [Workers -> WorkerState] /\ \A v \in Workers \ {w} : worker'[v] = worker[v]
    <3>1. CASE Choose(w, HeadOf(w).peer)
      BY <2>1, <3>1, HeaderFacts, ChooseFacts
    <3>2. CASE Goto(w, "createChild")
      BY <2>1, <3>2, GotoFacts DEF Pc
    <3>. QED BY <1>5, <3>1, <3>2 DEF FindPeer
  <2>. QED BY <1>5, <2>2 DEF FindPeer, Steps
<1>6. CASE CreateChild(w)
  <2>1. Busy(w) /\ HeadOf(w) \in Header
    BY <1>6, JobFacts DEF CreateChild, At, Pc
  <2>2. worker' \in [Workers -> WorkerState] /\ \A v \in Workers \ {w} : worker'[v] = worker[v]
    BY <1>6, <2>1, HeaderFacts, ChooseFacts DEF CreateChild
  <2>. DEFINE c == [key |-> HeadOf(w).peer, account |-> HeadOf(w).account, kind |-> "child",
                    peer |-> HeadOf(w).peer,
                    topic |-> [subject |-> HeadOf(w).subject, people |-> People(HeadOf(w))]]
  <2>3. c \in Conversation
    BY <2>1, HeaderFacts DEF Conversation
  <2>4. convs' = convs \cup {c}
    BY <1>6 DEF CreateChild
  <2>. QED BY <1>6, <2>1, <2>2, <2>3, <2>4 DEF CreateChild, Steps
<1>7. CASE CreationRefused(w)
  BY <1>7, FinishFacts DEF CreationRefused, Steps
<1>8. CASE FindMessage(w)
  <2>1. Busy(w)
    BY <1>8, JobFacts DEF FindMessage, At, Pc
  <2>2. worker' \in [Workers -> WorkerState] /\ \A v \in Workers \ {w} : worker'[v] = worker[v]
    BY <1>8, <2>1, FinishFacts, GotoFacts DEF FindMessage, Pc
  <2>. QED BY <1>8, <2>2 DEF FindMessage, Steps
<1>9. CASE InsertMessage(w)
  <2>1. Busy(w) /\ worker[w].conv \in Keys \cup {Nobody}
    BY <1>9, JobFacts DEF InsertMessage, At, Pc
  <2>. QED BY <1>9, <2>1, FinishFacts DEF InsertMessage, Steps
<1>10. CASE JobFails(w)
  BY <1>10, FinishFacts DEF JobFails, Steps
<1>. QED BY <1>1, <1>2, <1>3, <1>4, <1>5, <1>6, <1>7, <1>8, <1>9, <1>10 DEF JobStep

-----------------------------------------------------------------------------
(* EmailThreading: the inductive invariant *)

\* The rows of the thread of a mail, and what excuses their being apart.
ThreadRows(m) == {r \in rows : SameThread(r[1], m)}
Excused(m) == RootsApart(m) \/ \E x \in clashed : SameThread(x, m)

\* Jobs of related mails that overlap have left their mark on both.
Pairs ==
  \A v, w \in Workers :
    v # w /\ Busy(v) /\ Busy(w) /\ Related(MailOf(v), MailOf(w)) => MailOf(v) \in clashed

\* The root that created a parent: its job failed, stored it, or is about to.
Starts(x, c) ==
  /\ Head[x].root /\ ParentKey(Head[x]) = c.key /\ Head[x].account = c.account /\ Head[x].peer = c.peer
  /\ \/ x \in failed
     \/ <<x, c.key>> \in rows
     \/ \E w \in Workers : Busy(w) /\ MailOf(w) = x /\ Placed(w) /\ worker[w].conv = c.key
Started ==
  \A c \in convs : /\ c.key \in Threads => c.kind = "parent"
                   /\ c.kind = "parent" => \E x \in Mails : Starts(x, c)

\* What a job knows at each step.
Creating(w) ==
  At(w, "createParent") => HeadOf(w).root /\ (MailOf(w) \in clashed \/ Parent(HeadOf(w)) = {})
Searching(w) ==
  worker[w].pc \in {"findThread", "findPeer", "createChild"} => ~HeadOf(w).root
HasParent(w) ==
  At(w, "findThread") /\ worker[w].parent => \E c \in convs : c.key = ParentKey(HeadOf(w)) /\ c.account = HeadOf(w).account
Alone(w) ==
  worker[w].pc \in {"findPeer", "createChild"} => MailOf(w) \in clashed \/ ThreadRows(MailOf(w)) = {}
Fresh(w) ==
  At(w, "createChild") =>
    \/ MailOf(w) \in clashed
    \/ \E x \in failed : Head[x].root /\ SameThread(x, MailOf(w))
    \/ \A c \in convs : ~(c.key = HeadOf(w).peer /\ c.account = HeadOf(w).account)
PlacedWell(w) ==
  Placed(w) =>
    /\ \E c \in convs : c.key = worker[w].conv /\ c.account = HeadOf(w).account
    /\ HeadOf(w).root => \/ worker[w].conv = ParentKey(HeadOf(w))
                         \/ HeadOf(w).out /\ worker[w].conv = HeadOf(w).peer
    /\ ~HeadOf(w).root => \/ Excused(MailOf(w))
                          \/ \A r \in ThreadRows(MailOf(w)) : r[2] = worker[w].conv
WorkerSound(w) == Creating(w) /\ Searching(w) /\ HasParent(w) /\ Alone(w) /\ Fresh(w) /\ PlacedWell(w)

\* A stored root is in its parent, or was sent and is with its counterparty.
RootsWell ==
  \A r \in rows : Head[r[1]].root =>
    \/ r[2] = ParentKey(Head[r[1]])
    \/ Head[r[1]].out /\ r[2] = Head[r[1]].peer

ThreadInv ==
  /\ Pairs /\ Started /\ RootsWell
  /\ \A w \in Workers : WorkerSound(w)
  /\ AccountsApart /\ SplitForCause /\ RefusedForCause

LEMMA ThreadEquivalence ==
  ASSUME NEW l, NEW m, NEW n, SameThread(l, m)
  PROVE  SameThread(m, l) /\ SameThread(l, l) /\ (SameThread(m, n) => SameThread(l, n))
BY DEF SameThread

LEMMA RelatedSymmetric ==
  ASSUME NEW m, NEW n, Related(m, n)
  PROVE  Related(n, m)
BY DEF Related, SameThread

\* An excuse holds for the whole thread, and for good.
LEMMA ExcuseKept ==
  ASSUME NEW m, NEW n, Excused(m), SameThread(m, n)
  PROVE  Excused(n)
<1>1. \A x : SameThread(x, m) => SameThread(x, n)
  BY ThreadEquivalence
<1>. QED BY <1>1 DEF Excused, RootsApart

LEMMA ExcuseLasts ==
  ASSUME NEW m, Excused(m), rows \subseteq rows', clashed \subseteq clashed'
  PROVE  Excused(m)'
BY DEF Excused, RootsApart, SameThread

LEMMA StartedExcuse ==
  ASSUME NEW m, m \in clashed
  PROVE  Excused(m)
BY DEF Excused, SameThread

\* A conversation or row another job adds, where this one has looked, comes
\* from a related mail.
LEMMA NewConversation ==
  ASSUME ThreadingTypeOK, Pairs, NEW v \in Workers, NEW w \in Workers \ {v}, Steps(w), Busy(v),
         NEW c \in convs' \ convs, c.account = HeadOf(v).account,
         c.key \in {ParentKey(HeadOf(v)), HeadOf(v).peer}
  PROVE  MailOf(v) \in clashed
<1>1. Busy(w) /\ c.account = HeadOf(w).account /\ c.key \in {ParentKey(HeadOf(w)), HeadOf(w).peer}
  BY DEF Steps
<1>2. HeadOf(v) \in Header /\ HeadOf(w) \in Header
  BY <1>1, JobFacts
<1>3. /\ ParentKey(HeadOf(v)) \in Threads \/ ParentKey(HeadOf(v)) = HeadOf(v).peer
      /\ ParentKey(HeadOf(w)) \in Threads \/ ParentKey(HeadOf(w)) = HeadOf(w).peer
      /\ HeadOf(v).peer \in Peers /\ HeadOf(w).peer \in Peers
  BY <1>2, HeaderFacts
<1>4. ParentKey(HeadOf(v)) = ParentKey(HeadOf(w)) \/ HeadOf(v).peer = HeadOf(w).peer
  BY <1>1, <1>3, ThreadingAssumption
<1>5. Related(MailOf(v), MailOf(w))
  BY <1>1, <1>4 DEF Related, SameThread, HeadOf
<1>. QED BY <1>1, <1>5 DEF Pairs

LEMMA NewRow ==
  ASSUME ThreadingTypeOK, Pairs, NEW v \in Workers, NEW w \in Workers \ {v}, Steps(w), Busy(v),
         NEW r \in rows' \ rows, SameThread(r[1], MailOf(v))
  PROVE  MailOf(v) \in clashed
<1>1. Busy(w) /\ r = <<MailOf(w), worker[w].conv>>
  BY DEF Steps
<1>2. Related(MailOf(v), MailOf(w))
  BY <1>1 DEF Related, SameThread
<1>. QED BY <1>1, <1>2 DEF Pairs

\* What a job knows stays true while another job takes a step.
LEMMA OthersSound ==
  ASSUME ThreadingTypeOK, Pairs, NEW v \in Workers, NEW w \in Workers \ {v}, Steps(w), WorkerSound(v)
  PROVE  WorkerSound(v)'
<1>1. worker'[v] = worker[v]
  BY DEF Steps
<1>2. /\ MailOf(v)' = MailOf(v) /\ HeadOf(v)' = HeadOf(v)
      /\ \A pc : At(v, pc)' <=> At(v, pc)
  BY <1>1 DEF MailOf, HeadOf, At
<1>3. clashed \subseteq clashed' /\ failed \subseteq failed' /\ convs \subseteq convs' /\ rows \subseteq rows'
  BY DEF Steps
<1>4. worker[v].pc \in Pc => Busy(v)
  BY JobFacts
<1>5. Creating(v)'
  <2>1. SUFFICES ASSUME At(v, "createParent"), MailOf(v) \notin clashed
                 PROVE  Parent(HeadOf(v))' = {}
    BY <1>2, <1>3 DEF Creating, WorkerSound
  <2>2. Busy(v) /\ Parent(HeadOf(v)) = {}
    BY <2>1, <1>4 DEF Creating, WorkerSound, At, Pc
  <2>3. ASSUME NEW c \in Parent(HeadOf(v))'
        PROVE  FALSE
    <3>1. c \in convs' /\ c.account = HeadOf(v).account /\ c.key = ParentKey(HeadOf(v))
      BY <2>3, <1>2 DEF Parent
    <3>2. c \notin convs
      BY <2>2, <2>3, <3>1, <1>2 DEF Parent
    <3>. QED BY <2>1, <2>2, <3>1, <3>2, NewConversation
  <2>. QED BY <2>3
<1>6. Searching(v)'
  BY <1>1, <1>2 DEF Searching, WorkerSound
<1>7. HasParent(v)'
  BY <1>1, <1>2, <1>3 DEF HasParent, WorkerSound
<1>8. Alone(v)'
  <2>1. SUFFICES ASSUME worker[v].pc \in {"findPeer", "createChild"}, MailOf(v) \notin clashed
                 PROVE  ThreadRows(MailOf(v))' = {}
    BY <1>1, <1>2, <1>3 DEF Alone
  <2>2. Busy(v) /\ ThreadRows(MailOf(v)) = {}
    BY <2>1, <1>4 DEF Alone, WorkerSound, Pc
  <2>3. ASSUME NEW r \in ThreadRows(MailOf(v))'
        PROVE  FALSE
    <3>1. r \in rows' /\ SameThread(r[1], MailOf(v))
      BY <2>3, <1>2 DEF ThreadRows, SameThread
    <3>2. r \notin rows
      BY <2>2, <3>1 DEF ThreadRows
    <3>. QED BY <2>1, <2>2, <3>1, <3>2, NewRow
  <2>. QED BY <2>3
<1>9. Fresh(v)'
  <2>1. SUFFICES ASSUME At(v, "createChild"), MailOf(v) \notin clashed,
                        ~ \E x \in failed : Head[x].root /\ SameThread(x, MailOf(v)),
                        NEW c \in convs', c.key = HeadOf(v).peer, c.account = HeadOf(v).account
                 PROVE  FALSE
    BY <1>2, <1>3 DEF Fresh, SameThread
  <2>2. Busy(v) /\ c \notin convs
    BY <2>1, <1>4 DEF Fresh, WorkerSound, At, Pc
  <2>. QED BY <2>1, <2>2, NewConversation
<1>10. PlacedWell(v)'
  <2>1. SUFFICES ASSUME Placed(v)
                 PROVE  PlacedWell(v)'
    BY <1>1 DEF PlacedWell, Placed
  <2>2. Busy(v)
    BY <2>1, <1>4 DEF Placed, Pc
  <2>3. \E c \in convs' : c.key = worker'[v].conv /\ c.account = HeadOf(v)'.account
    BY <2>1, <1>1, <1>2, <1>3 DEF PlacedWell, WorkerSound
  <2>4. HeadOf(v)'.root => \/ worker'[v].conv = ParentKey(HeadOf(v)')
                           \/ HeadOf(v)'.out /\ worker'[v].conv = HeadOf(v)'.peer
    BY <2>1, <1>1, <1>2 DEF PlacedWell, WorkerSound
  <2>5. CASE HeadOf(v).root
    BY <2>3, <2>4, <2>5, <1>2 DEF PlacedWell
  <2>6. CASE ~HeadOf(v).root
    <3>1. CASE Excused(MailOf(v))
      <4>. DEFINE m == MailOf(v)
      <4>1. Excused(MailOf(v))'
        BY <3>1, <1>2, <1>3, ExcuseLasts DEF Excused, RootsApart, SameThread
      <4>. QED BY <4>1, <2>3, <2>4 DEF PlacedWell
    <3>2. CASE ~Excused(MailOf(v))
      <4>1. MailOf(v) \notin clashed
        BY <3>2, StartedExcuse
      <4>2. \A r \in ThreadRows(MailOf(v)) : r[2] = worker[v].conv
        BY <2>1, <2>6, <3>2 DEF PlacedWell, WorkerSound
      <4>3. ASSUME NEW r \in ThreadRows(MailOf(v))'
            PROVE  r[2] = worker'[v].conv
        <5>1. r \in rows' /\ SameThread(r[1], MailOf(v))
          BY <4>3, <1>2 DEF ThreadRows, SameThread
        <5>2. r \in rows
          BY <2>2, <4>1, <5>1, NewRow
        <5>. QED BY <1>1, <4>2, <5>1, <5>2 DEF ThreadRows
      <4>. QED BY <4>3, <2>3, <2>4 DEF PlacedWell
    <3>. QED BY <3>1, <3>2
  <2>. QED BY <2>5, <2>6
<1>. QED BY <1>5, <1>6, <1>7, <1>8, <1>9, <1>10 DEF WorkerSound

-----------------------------------------------------------------------------
(* EmailThreading: every step keeps the types *)

LEMMA ThreadingTypeInit == ThreadingInit => ThreadingTypeOK
BY ThreadingAssumption DEF ThreadingInit, ThreadingTypeOK, WorkerState, Idle

LEMMA ThreadingTypeStep ==
  ASSUME ThreadingTypeOK, NEW w \in Workers, WorkerSound(w), JobStep(w)
  PROVE  ThreadingTypeOK'
<1>1. Steps(w)
  BY StepFacts
<1>2. worker' \in [Workers -> WorkerState]
  BY <1>1 DEF Steps
<1>3. /\ handed' \in SUBSET Mails /\ refused' \in SUBSET (Mails \X Keys)
      /\ failed' \in SUBSET Mails /\ clashed' \in SUBSET Mails
      /\ again' \in 0 .. MaxAgain /\ mishaps' \in 0 .. MaxMishaps
  <2>1. CASE \E m \in Mails : Start(w, m)
    <3>. PICK m \in Mails : Start(w, m)
      BY <2>1
    <3>1. Concurrent(m) \in SUBSET Mails
      BY JobFacts DEF Concurrent
    <3>2. clashed' \in SUBSET Mails
      BY <3>1 DEF Start, ThreadingTypeOK
    <3>3. again' \in 0 .. MaxAgain
      BY ThreadingAssumption DEF Start, ThreadingTypeOK
    <3>. QED BY <3>2, <3>3 DEF Start, ThreadingTypeOK
  <2>2. CASE CreationRefused(w)
    <3>1. Busy(w)
      BY <2>2, JobFacts DEF CreationRefused, At, Pc
    <3>2. MailOf(w) \in Mails
      BY <3>1, JobFacts
    <3>. QED BY <2>2, <3>2 DEF CreationRefused, ThreadingTypeOK
  <2>3. CASE InsertMessage(w)
    <3>1. Busy(w)
      BY <2>3, JobFacts DEF InsertMessage, At, Pc
    <3>2. MailOf(w) \in Mails
      BY <3>1, JobFacts
    <3>. QED BY <2>3, <3>2 DEF InsertMessage, ThreadingTypeOK
  <2>4. CASE JobFails(w)
    <3>1. MailOf(w) \in Mails
      BY <2>4, JobFacts DEF JobFails
    <3>. QED BY <2>4, <3>1, ThreadingAssumption DEF JobFails, ThreadingTypeOK
  <2>5. CASE FindParent(w) \/ CreateParent(w) \/ FindThread(w) \/ FindPeer(w) \/ CreateChild(w) \/ FindMessage(w)
    BY <2>5 DEF ThreadingTypeOK, FindParent, CreateParent, FindThread, FindPeer, CreateChild, FindMessage
  <2>. QED BY <2>1, <2>2, <2>3, <2>4, <2>5 DEF JobStep
<1>4. rows' \in SUBSET (Mails \X Keys)
  <2>1. CASE InsertMessage(w)
    <3>1. Busy(w)
      BY <2>1, JobFacts DEF InsertMessage, At, Pc
    <3>2. \E c \in convs : c.key = worker[w].conv
      BY <2>1 DEF InsertMessage, At, Placed, WorkerSound, PlacedWell
    <3>3. MailOf(w) \in Mails /\ worker[w].conv \in Keys
      BY <3>1, <3>2, JobFacts DEF ThreadingTypeOK, Conversation
    <3>. QED BY <2>1, <3>3 DEF InsertMessage, ThreadingTypeOK
  <2>2. CASE ~InsertMessage(w)
    <3>1. rows' = rows
      BY <2>2 DEF JobStep, Start, FindParent, CreateParent, FindThread, FindPeer, CreateChild,
           CreationRefused, FindMessage, JobFails
    <3>. QED BY <3>1 DEF ThreadingTypeOK
  <2>. QED BY <2>1, <2>2
<1>5. convs' \in SUBSET Conversation
  BY <1>1 DEF Steps, ThreadingTypeOK
<1>6. \A c, d \in convs' : c.key = d.key => c = d
  <2>1. CASE CreateParent(w)
    BY <2>1 DEF CreateParent, Taken, ThreadingTypeOK
  <2>2. CASE CreateChild(w)
    BY <2>2 DEF CreateChild, Taken, ThreadingTypeOK
  <2>3. CASE ~CreateParent(w) /\ ~CreateChild(w)
    <3>1. convs' = convs
      BY <2>3 DEF JobStep, Start, FindParent, FindThread, FindPeer, InsertMessage,
           CreationRefused, FindMessage, JobFails
    <3>. QED BY <3>1 DEF ThreadingTypeOK
  <2>. QED BY <2>1, <2>2, <2>3
<1>. QED BY <1>2, <1>3, <1>4, <1>5, <1>6 DEF ThreadingTypeOK

-----------------------------------------------------------------------------
(* EmailThreading: overlapping jobs and parents *)

\* Unless it starts, a job keeps its mail until it is over.
LEMMA MailKept ==
  ASSUME ThreadingTypeOK, NEW w \in Workers, JobStep(w), ~ \E m \in Mails : Start(w, m)
  PROVE  Busy(w) /\ (worker'[w] = Idle \/ worker'[w].mail = worker[w].mail)
<1>1. CASE FindParent(w)
  <2>. DEFINE h == HeadOf(w)
  <2>1. Busy(w) /\ h \in Header
    BY <1>1, JobFacts DEF FindParent, At, Pc
  <2>2. CASE Choose(w, h.peer)
    BY <2>1, <2>2, HeaderFacts, ChooseFacts
  <2>3. CASE Choose(w, ParentKey(h))
    BY <2>1, <2>3, HeaderFacts, ChooseFacts
  <2>4. CASE Goto(w, "createParent")
    BY <2>1, <2>4, GotoFacts DEF Pc
  <2>5. CASE worker' = [worker EXCEPT ![w].pc = "findThread", ![w].parent = (Parent(h) # {})]
    BY <2>1, <2>5, RemembersFacts
  <2>. QED BY <1>1, <2>2, <2>3, <2>4, <2>5 DEF FindParent
<1>2. CASE CreateParent(w)
  <2>1. Busy(w) /\ HeadOf(w) \in Header
    BY <1>2, JobFacts DEF CreateParent, At, Pc
  <2>. QED BY <1>2, <2>1, HeaderFacts, ChooseFacts DEF CreateParent
<1>3. CASE FindThread(w)
  <2>1. Busy(w) /\ HeadOf(w) \in Header
    BY <1>3, JobFacts DEF FindThread, At, Pc
  <2>2. CASE \E k \in ThreadConvs(HeadOf(w)) : Choose(w, k)
    BY <2>1, <2>2, ThreadConvsTyped, ChooseFacts
  <2>3. CASE Goto(w, IF worker[w].parent THEN "createChild" ELSE "findPeer")
    BY <2>1, <2>3, GotoFacts DEF Pc
  <2>. QED BY <1>3, <2>2, <2>3 DEF FindThread
<1>4. CASE FindPeer(w)
  <2>1. Busy(w) /\ HeadOf(w) \in Header
    BY <1>4, JobFacts DEF FindPeer, At, Pc
  <2>2. CASE Choose(w, HeadOf(w).peer)
    BY <2>1, <2>2, HeaderFacts, ChooseFacts
  <2>3. CASE Goto(w, "createChild")
    BY <2>1, <2>3, GotoFacts DEF Pc
  <2>. QED BY <1>4, <2>2, <2>3 DEF FindPeer
<1>5. CASE CreateChild(w)
  <2>1. Busy(w) /\ HeadOf(w) \in Header
    BY <1>5, JobFacts DEF CreateChild, At, Pc
  <2>. QED BY <1>5, <2>1, HeaderFacts, ChooseFacts DEF CreateChild
<1>6. CASE FindMessage(w)
  <2>1. Busy(w)
    BY <1>6, JobFacts DEF FindMessage, At, Pc
  <2>. QED BY <1>6, <2>1, FinishFacts, GotoFacts DEF FindMessage, Pc
<1>7. CASE CreationRefused(w) \/ InsertMessage(w) \/ JobFails(w)
  <2>1. Busy(w)
    BY <1>7, JobFacts DEF CreationRefused, InsertMessage, JobFails, At, Pc
  <2>2. Finish(w)
    BY <1>7 DEF CreationRefused, InsertMessage, JobFails
  <2>. QED BY <2>1, <2>2, FinishFacts
<1>. QED BY <1>1, <1>2, <1>3, <1>4, <1>5, <1>6, <1>7 DEF JobStep

LEMMA PairsStep ==
  ASSUME ThreadingTypeOK, Pairs, NEW w \in Workers, JobStep(w)
  PROVE  Pairs'
<1>1. Steps(w)
  BY StepFacts
<1>2. SUFFICES ASSUME NEW u \in Workers, NEW v \in Workers, u # v, Busy(u)', Busy(v)',
                      Related(worker'[u].mail, worker'[v].mail)
               PROVE  worker'[u].mail \in clashed'
  BY DEF Pairs, MailOf, Related, SameThread
<1>3. CASE \E m \in Mails : Start(w, m)
  <2>. PICK m \in Mails : Start(w, m)
    BY <1>3
  <2>1. worker'[w].mail = m /\ \A x \in Workers \ {w} : worker'[x] = worker[x]
    BY StartFacts
  <2>2. ASSUME NEW x \in Workers, Busy(x), Related(MailOf(x), m)
        PROVE  MailOf(x) \in clashed' /\ m \in clashed'
    <3>1. MailOf(x) \in Concurrent(m)
      BY <2>2 DEF Concurrent
    <3>. QED BY <3>1 DEF Start
  <2>3. CASE u = w
    <3>1. Busy(v) /\ Related(MailOf(v), m)
      BY <1>2, <2>1, <2>3, RelatedSymmetric DEF Busy, MailOf
    <3>. QED BY <2>1, <2>2, <2>3, <3>1
  <2>4. CASE v = w
    <3>1. Busy(u) /\ Related(MailOf(u), m) /\ MailOf(u) = worker'[u].mail
      BY <1>2, <2>1, <2>4 DEF Busy, MailOf
    <3>. QED BY <2>2, <3>1
  <2>5. CASE u # w /\ v # w
    <3>1. MailOf(u) \in clashed /\ MailOf(u) = worker'[u].mail
      BY <1>2, <2>1, <2>5 DEF Pairs, Busy, MailOf
    <3>. QED BY <1>1, <3>1 DEF Steps
  <2>. QED BY <2>3, <2>4, <2>5
<1>4. CASE ~ \E m \in Mails : Start(w, m)
  <2>1. ASSUME NEW x \in Workers, Busy(x)'
        PROVE  Busy(x) /\ MailOf(x) = worker'[x].mail
    <3>1. CASE x = w
      BY <1>4, <2>1, <3>1, MailKept DEF Busy, MailOf
    <3>2. CASE x # w
      BY <1>1, <2>1, <3>2 DEF Busy, MailOf, Steps
    <3>. QED BY <3>1, <3>2
  <2>2. MailOf(u) \in clashed
    BY <1>2, <2>1 DEF Pairs
  <2>. QED BY <1>1, <1>2, <2>1, <2>2 DEF Steps
<1>. QED BY <1>3, <1>4

\* The root that created a parent fails, is stored there, or goes on to that.
LEMMA StartsLasts ==
  ASSUME ThreadingTypeOK, NEW w \in Workers, JobStep(w), NEW x \in Mails, NEW c \in convs, Starts(x, c)
  PROVE  Starts(x, c)'
<1>1. Steps(w)
  BY StepFacts
<1>2. SUFFICES \/ x \in failed'
               \/ <<x, c.key>> \in rows'
               \/ \E v \in Workers : Busy(v)' /\ worker'[v].mail = x /\ Placed(v)' /\ worker'[v].conv = c.key
  BY DEF Starts, MailOf
<1>3. CASE x \in failed \/ <<x, c.key>> \in rows
  BY <1>1, <1>3 DEF Steps
<1>4. ASSUME NEW v \in Workers, v # w, Busy(v), MailOf(v) = x, Placed(v), worker[v].conv = c.key
      PROVE  Busy(v)' /\ worker'[v].mail = x /\ Placed(v)' /\ worker'[v].conv = c.key
  <2>1. worker'[v] = worker[v]
    BY <1>1, <1>4 DEF Steps
  <2>. QED BY <1>4, <2>1 DEF Busy, MailOf, Placed
<1>5. CASE Busy(w) /\ MailOf(w) = x /\ Placed(w) /\ worker[w].conv = c.key
  <2>1. FindMessage(w) \/ InsertMessage(w) \/ JobFails(w)
    BY <1>5 DEF JobStep, Start, Placed, At, FindParent, CreateParent, FindThread, FindPeer, CreateChild,
         CreationRefused
  <2>2. CASE FindMessage(w)
    <3>1. CASE <<x, c.key>> \in rows
      BY <1>1, <3>1 DEF Steps
    <3>2. CASE <<x, c.key>> \notin rows
      <4>1. Goto(w, "insert")
        BY <1>5, <2>2, <3>2 DEF FindMessage
      <4>2. worker'[w].pc = "insert" /\ worker'[w].mail = x /\ worker'[w].conv = c.key
        BY <1>5, <4>1, GotoFacts DEF Pc, MailOf
      <4>3. Busy(w)' /\ Placed(w)'
        BY <4>2 DEF Busy, Idle, Placed
      <4>. QED BY <4>2, <4>3
    <3>. QED BY <3>1, <3>2
  <2>3. CASE InsertMessage(w)
    BY <1>5, <2>3 DEF InsertMessage
  <2>4. CASE JobFails(w)
    BY <1>5, <2>4 DEF JobFails
  <2>. QED BY <2>1, <2>2, <2>3, <2>4
<1>. QED BY <1>3, <1>4, <1>5 DEF Starts

LEMMA StartedStep ==
  ASSUME ThreadingTypeOK, Started, NEW w \in Workers, WorkerSound(w), JobStep(w)
  PROVE  Started'
<1>1. SUFFICES ASSUME NEW c \in convs'
               PROVE  /\ c.key \in Threads => c.kind = "parent"
                      /\ c.kind = "parent" => \E x \in Mails : Starts(x, c)'
  BY DEF Started, Starts
<1>2. CASE c \in convs
  BY <1>1, <1>2, StartsLasts DEF Started
<1>3. CASE c \notin convs
  <2>1. CreateParent(w) \/ CreateChild(w)
    BY <1>3 DEF JobStep, Start, FindParent, FindThread, FindPeer, CreationRefused, FindMessage,
         InsertMessage, JobFails
  <2>2. Busy(w)
    BY <2>1, JobFacts DEF CreateParent, CreateChild, At, Pc
  <2>3. MailOf(w) \in Mails /\ HeadOf(w) \in Header
    BY <2>2, JobFacts
  <2>4. CASE CreateChild(w)
    <3>1. c.key = HeadOf(w).peer /\ c.kind = "child"
      BY <1>3, <2>4 DEF CreateChild
    <3>. QED BY <1>1, <2>3, <3>1, HeaderFacts, ThreadingAssumption
  <2>5. CASE CreateParent(w)
    <3>1. c = [key |-> ParentKey(HeadOf(w)), account |-> HeadOf(w).account, kind |-> "parent",
               peer |-> HeadOf(w).peer, topic |-> Nobody]
      BY <1>3, <2>5 DEF CreateParent
    <3>2. /\ worker'[w].pc = "findMessage" /\ worker'[w].mail = MailOf(w)
          /\ worker'[w].conv = ParentKey(HeadOf(w))
      BY <2>2, <2>3, <2>5, HeaderFacts, ChooseFacts DEF CreateParent, MailOf
    <3>3. Busy(w)' /\ Placed(w)' /\ MailOf(w)' = MailOf(w)
      BY <3>2 DEF Busy, Idle, Placed, MailOf
    <3>4. Head[MailOf(w)].root
      BY <2>5 DEF CreateParent, WorkerSound, Creating, HeadOf
    <3>5. \E v \in Workers : Busy(v)' /\ MailOf(v)' = MailOf(w) /\ Placed(v)' /\ worker'[v].conv = c.key
      BY <3>1, <3>2, <3>3
    <3>6. PICK x \in Mails : x = MailOf(w)
      BY <2>3
    <3>7. Starts(x, c)'
      BY <3>1, <3>4, <3>5, <3>6 DEF Starts, HeadOf
    <3>. QED BY <3>1, <3>7
  <2>. QED BY <2>1, <2>4, <2>5
<1>. QED BY <1>2, <1>3

\* A stored root is where its job put it.
LEMMA RootsWellStep ==
  ASSUME ThreadingTypeOK, RootsWell, NEW w \in Workers, WorkerSound(w), JobStep(w)
  PROVE  RootsWell'
<1>1. CASE InsertMessage(w)
  <2>1. rows' = rows \cup {<<MailOf(w), worker[w].conv>>}
    BY <1>1 DEF InsertMessage
  <2>2. HeadOf(w).root => \/ worker[w].conv = ParentKey(HeadOf(w))
                          \/ HeadOf(w).out /\ worker[w].conv = HeadOf(w).peer
    BY <1>1 DEF InsertMessage, At, WorkerSound, PlacedWell, Placed
  <2>. QED BY <2>1, <2>2 DEF RootsWell, HeadOf
<1>2. CASE ~InsertMessage(w)
  <2>1. rows' = rows
    BY <1>2 DEF JobStep, Start, FindParent, CreateParent, FindThread, FindPeer, CreateChild,
         CreationRefused, FindMessage, JobFails
  <2>. QED BY <2>1 DEF RootsWell
<1>. QED BY <1>1, <1>2

-----------------------------------------------------------------------------
(* EmailThreading: what a job learns by its own step *)

\* The first of the four lookups answers whenever the thread has a row.
LEMMA ThreadFound ==
  ASSUME ThreadingTypeOK, AccountsApart, NEW m \in Mails, ~Head[m].root, ThreadRows(m) # {}
  PROVE  /\ ThreadConvs(Head[m]) # {}
         /\ \A k \in ThreadConvs(Head[m]) : \E r \in ThreadRows(m) : r[2] = k
<1>. DEFINE S == {n \in Mails : Head[n].thread = Head[m].thread}
            byThread == Holding(S, Head[m].account)
<1>0. \A n \in Mails : ParentKey(Head[n]) = ParentKey(Head[m]) <=> Head[n].thread = Head[m].thread
  <2>1. ParentKey(Head[m]) \in Threads /\ Head[m].thread # NoThread /\ ParentKey(Head[m]) = Head[m].thread
    BY RepliesName
  <2>2. SUFFICES ASSUME NEW n \in Mails
                 PROVE  ParentKey(Head[n]) = ParentKey(Head[m]) <=> Head[n].thread = Head[m].thread
    OBVIOUS
  <2>3. CASE Head[n].thread = NoThread
    <3>1. ParentKey(Head[n]) \in Peers
      BY <2>3, HeaderFacts, ThreadingAssumption
    <3>. QED BY <2>1, <2>3, <3>1, ThreadingAssumption
  <2>4. CASE Head[n].thread # NoThread
    BY <2>1, <2>4 DEF ParentKey
  <2>. QED BY <2>3, <2>4
<1>1. PICK r \in rows : SameThread(r[1], m)
  BY DEF ThreadRows
<1>2. PICK c \in convs : c.key = r[2] /\ c.account = Head[r[1]].account
  BY <1>1 DEF AccountsApart
<1>3. r[1] \in S /\ r = <<r[1], r[2]>>
  BY <1>0, <1>1 DEF SameThread, ThreadingTypeOK
<1>4. byThread # {}
  BY <1>1, <1>2, <1>3 DEF Holding, SameThread
<1>5. ThreadConvs(Head[m]) = byThread
  BY <1>4 DEF ThreadConvs
<1>6. ASSUME NEW k \in byThread
      PROVE  \E q \in ThreadRows(m) : q[2] = k
  <2>1. PICK d \in convs : d.key = k /\ d.account = Head[m].account /\ \E n \in S : <<n, d.key>> \in rows
    BY <1>6 DEF Holding
  <2>2. PICK n \in S : <<n, k>> \in rows
    BY <2>1
  <2>3. PICK e \in convs : e.key = k /\ e.account = Head[n].account
    BY <2>2 DEF AccountsApart
  <2>4. SameThread(n, m)
    BY <1>0, <2>1, <2>2, <2>3 DEF SameThread, ThreadingTypeOK
  <2>. QED BY <2>2, <2>4 DEF ThreadRows
<1>. QED BY <1>4, <1>5, <1>6

\* Nothing is known of a job that is idle or has just started.
LEMMA NothingKnown ==
  ASSUME NEW w \in Workers, worker'[w].pc \in {"idle", "findParent"}
  PROVE  WorkerSound(w)'
BY DEF WorkerSound, Creating, Searching, HasParent, Alone, Fresh, PlacedWell, Placed, At

\* A conversation is chosen with these facts.
LEMMA ChosenWell ==
  ASSUME ThreadingTypeOK, NEW w \in Workers, worker'[w].pc = "findMessage", worker'[w].mail = MailOf(w),
         rows' = rows, clashed' = clashed,
         \E c \in convs' : c.key = worker'[w].conv /\ c.account = HeadOf(w).account,
         HeadOf(w).root => \/ worker'[w].conv = ParentKey(HeadOf(w))
                           \/ HeadOf(w).out /\ worker'[w].conv = HeadOf(w).peer,
         ~HeadOf(w).root => \/ Excused(MailOf(w))
                            \/ \A r \in ThreadRows(MailOf(w)) : r[2] = worker'[w].conv
  PROVE  WorkerSound(w)'
<1>1. MailOf(w)' = MailOf(w) /\ HeadOf(w)' = HeadOf(w)
  BY DEF MailOf, HeadOf
<1>2. /\ Excused(MailOf(w)) => Excused(MailOf(w))'
      /\ ThreadRows(MailOf(w))' = ThreadRows(MailOf(w))
  BY <1>1 DEF Excused, RootsApart, SameThread, ThreadRows
<1>3. PlacedWell(w)'
  BY <1>1, <1>2 DEF PlacedWell
<1>. QED BY <1>3 DEF WorkerSound, Creating, Searching, HasParent, Alone, Fresh, At

LEMMA FindParentSound ==
  ASSUME ThreadingTypeOK, NEW w \in Workers, FindParent(w)
  PROVE  WorkerSound(w)'
<1>. DEFINE h == HeadOf(w)
<1>1. Busy(w) /\ h \in Header
  BY JobFacts DEF FindParent, At, Pc
<1>2. convs' = convs /\ rows' = rows /\ clashed' = clashed
  BY DEF FindParent
<1>3. CASE Outgoing(h) # {}
  <2>1. Choose(w, h.peer)
    BY <1>3 DEF FindParent
  <2>2. worker'[w].pc = "findMessage" /\ worker'[w].mail = MailOf(w) /\ worker'[w].conv = h.peer
    BY <1>1, <2>1, HeaderFacts, ChooseFacts DEF MailOf
  <2>3. h.root /\ h.out /\ \E c \in convs : c.key = h.peer /\ c.account = h.account
    BY <1>3 DEF Outgoing
  <2>. QED BY <1>2, <2>2, <2>3, ChosenWell
<1>4. CASE Outgoing(h) = {} /\ h.root /\ Parent(h) # {}
  <2>1. Choose(w, ParentKey(h))
    BY <1>4 DEF FindParent
  <2>2. worker'[w].pc = "findMessage" /\ worker'[w].mail = MailOf(w) /\ worker'[w].conv = ParentKey(h)
    BY <1>1, <2>1, HeaderFacts, ChooseFacts DEF MailOf
  <2>3. \E c \in convs : c.key = ParentKey(h) /\ c.account = h.account
    BY <1>4 DEF Parent
  <2>. QED BY <1>2, <1>4, <2>2, <2>3, ChosenWell
<1>5. CASE Outgoing(h) = {} /\ h.root /\ Parent(h) = {}
  <2>1. Goto(w, "createParent")
    BY <1>5 DEF FindParent
  <2>2. worker'[w].pc = "createParent" /\ worker'[w].mail = MailOf(w)
    BY <1>1, <2>1, GotoFacts DEF Pc, MailOf
  <2>3. HeadOf(w)' = h /\ Parent(HeadOf(w))' = Parent(h)
    BY <1>2, <2>2 DEF HeadOf, MailOf, Parent
  <2>4. Creating(w)'
    BY <1>5, <2>3 DEF Creating
  <2>. QED BY <2>2, <2>4 DEF WorkerSound, Searching, HasParent, Alone, Fresh, PlacedWell, Placed, At
<1>6. CASE ~h.root
  <2>. DEFINE found == Parent(h) # {}
  <2>1. Outgoing(h) = {}
    BY <1>6 DEF Outgoing
  <2>2. worker' = [worker EXCEPT ![w].pc = "findThread", ![w].parent = found]
    BY <1>6, <2>1 DEF FindParent
  <2>3. found \in BOOLEAN
    OBVIOUS
  <2>4. worker'[w].pc = "findThread" /\ worker'[w].mail = worker[w].mail /\ worker'[w].parent = found
    <3>. HIDE DEF found
    <3>. QED BY <1>1, <2>2, <2>3, RemembersFacts
  <2>5. HeadOf(w)' = h
    BY <2>4 DEF HeadOf, MailOf
  <2>6. HasParent(w)'
    BY <1>2, <2>4, <2>5 DEF HasParent, Parent
  <2>7. Searching(w)'
    BY <1>6, <2>5 DEF Searching
  <2>. QED BY <2>4, <2>6, <2>7 DEF WorkerSound, Creating, Alone, Fresh, PlacedWell, Placed, At
<1>. QED BY <1>3, <1>4, <1>5, <1>6

LEMMA CreateParentSound ==
  ASSUME ThreadingTypeOK, NEW w \in Workers, WorkerSound(w), CreateParent(w)
  PROVE  WorkerSound(w)'
<1>1. Busy(w)
  BY JobFacts DEF CreateParent, At, Pc
<1>2. HeadOf(w) \in Header
  BY <1>1, JobFacts
<1>3. worker'[w].pc = "findMessage" /\ worker'[w].mail = MailOf(w) /\ worker'[w].conv = ParentKey(HeadOf(w))
  BY <1>1, <1>2, HeaderFacts, ChooseFacts DEF CreateParent, MailOf
<1>4. \E c \in convs' : c.key = ParentKey(HeadOf(w)) /\ c.account = HeadOf(w).account
  <2>. DEFINE c == [key |-> ParentKey(HeadOf(w)), account |-> HeadOf(w).account, kind |-> "parent",
                    peer |-> HeadOf(w).peer, topic |-> Nobody]
  <2>1. c \in convs' /\ c.key = ParentKey(HeadOf(w)) /\ c.account = HeadOf(w).account
    BY DEF CreateParent
  <2>. QED BY <2>1
<1>5. HeadOf(w).root
  BY DEF CreateParent, WorkerSound, Creating
<1>. QED BY <1>3, <1>4, <1>5, ChosenWell DEF CreateParent

\* A reply without a row of its thread has no parent either, or it overlapped
\* the root that created it, or the job of that root failed.
LEMMA NoParentChild ==
  ASSUME ThreadingTypeOK, Pairs, Started, NEW w \in Workers, Busy(w), ~HeadOf(w).root,
         ThreadRows(MailOf(w)) = {},
         NEW c \in convs, c.key = ParentKey(HeadOf(w)), c.account = HeadOf(w).account
  PROVE  MailOf(w) \in clashed \/ \E x \in failed : Head[x].root /\ SameThread(x, MailOf(w))
<1>1. MailOf(w) \in Mails /\ ~Head[MailOf(w)].root
  BY JobFacts DEF HeadOf
<1>2. c.key \in Threads
  BY <1>1, RepliesName DEF HeadOf
<1>3. PICK x \in Mails : Starts(x, c)
  BY <1>2 DEF Started
<1>4. Head[x].root /\ SameThread(x, MailOf(w))
  BY <1>3 DEF Starts, SameThread, HeadOf
<1>5. CASE <<x, c.key>> \in rows
  BY <1>4, <1>5 DEF ThreadRows
<1>6. ASSUME NEW v \in Workers, Busy(v), MailOf(v) = x
      PROVE  MailOf(w) \in clashed
  <2>1. v # w
    BY <1>4, <1>6 DEF HeadOf
  <2>2. Related(MailOf(w), MailOf(v))
    BY <1>4, <1>6 DEF Related, SameThread
  <2>. QED BY <1>6, <2>1, <2>2 DEF Pairs
<1>. QED BY <1>3, <1>4, <1>5, <1>6 DEF Starts

LEMMA FindThreadSound ==
  ASSUME ThreadingTypeOK, Pairs, Started, AccountsApart, SplitForCause,
         NEW w \in Workers, WorkerSound(w), FindThread(w)
  PROVE  WorkerSound(w)'
<1>. DEFINE h == HeadOf(w)
            m == MailOf(w)
<1>1. Busy(w)
  BY JobFacts DEF FindThread, At, Pc
<1>2. m \in Mails /\ h \in Header /\ h = Head[m]
  BY <1>1, JobFacts DEF HeadOf
<1>3. ~h.root
  BY DEF FindThread, At, WorkerSound, Searching
<1>4. convs' = convs /\ rows' = rows /\ clashed' = clashed /\ failed' = failed
  BY DEF FindThread
<1>5. CASE ThreadConvs(h) # {}
  <2>1. PICK k \in ThreadConvs(h) : Choose(w, k)
    BY <1>5 DEF FindThread
  <2>2. worker'[w].pc = "findMessage" /\ worker'[w].mail = m /\ worker'[w].conv = k
    BY <1>1, <2>1, ThreadConvsTyped, ChooseFacts DEF MailOf
  <2>3. \E c \in convs : c.key = k /\ c.account = h.account
    BY DEF ThreadConvs, Holding, OnTopic
  <2>4. Excused(m) \/ \A r \in ThreadRows(m) : r[2] = k
    <3>1. SUFFICES ASSUME NEW r \in ThreadRows(m), r[2] # k
                   PROVE  Excused(m)
      OBVIOUS
    <3>2. PICK q \in ThreadRows(m) : q[2] = k
      BY <1>2, <1>3, <3>1, ThreadFound
    <3>3. r \in rows /\ q \in rows /\ SameThread(r[1], m) /\ SameThread(r[1], q[1])
      BY <3>1, <3>2 DEF ThreadRows, SameThread
    <3>4. Excused(r[1])
      BY <3>1, <3>2, <3>3 DEF SplitForCause, Excused
    <3>. QED BY <3>3, <3>4, ExcuseKept
  <2>. QED BY <1>3, <1>4, <2>2, <2>3, <2>4, ChosenWell
<1>6. CASE ThreadConvs(h) = {}
  <2>1. ThreadRows(m) = {}
    BY <1>2, <1>3, <1>6, ThreadFound
  <2>2. worker'[w].mail = m /\ worker'[w].pc = IF worker[w].parent THEN "createChild" ELSE "findPeer"
    BY <1>1, <1>6, GotoFacts DEF FindThread, Pc, MailOf
  <2>3. MailOf(w)' = m /\ HeadOf(w)' = h
    BY <2>2 DEF MailOf, HeadOf
  <2>4. ThreadRows(MailOf(w))' = {}
    BY <1>4, <2>1, <2>3 DEF ThreadRows, SameThread
  <2>5. Searching(w)' /\ Alone(w)'
    BY <1>3, <2>3, <2>4 DEF Searching, Alone
  <2>6. Fresh(w)'
    <3>1. SUFFICES ASSUME worker[w].parent
                   PROVE  Fresh(w)'
      BY <2>2 DEF Fresh, At
    <3>2. PICK c \in convs : c.key = ParentKey(h) /\ c.account = h.account
      BY <3>1 DEF FindThread, WorkerSound, HasParent
    <3>3. m \in clashed \/ \E x \in failed : Head[x].root /\ SameThread(x, m)
      BY <1>1, <1>3, <2>1, <3>2, NoParentChild
    <3>. QED BY <1>4, <2>3, <3>3 DEF Fresh, SameThread
  <2>. QED BY <2>2, <2>5, <2>6 DEF WorkerSound, Creating, HasParent, PlacedWell, Placed, At
<1>. QED BY <1>5, <1>6

LEMMA FindPeerSound ==
  ASSUME ThreadingTypeOK, NEW w \in Workers, WorkerSound(w), FindPeer(w)
  PROVE  WorkerSound(w)'
<1>. DEFINE h == HeadOf(w)
            m == MailOf(w)
<1>1. Busy(w)
  BY JobFacts DEF FindPeer, At, Pc
<1>2. h \in Header
  BY <1>1, JobFacts
<1>3. ~h.root /\ (m \in clashed \/ ThreadRows(m) = {})
  BY DEF FindPeer, At, WorkerSound, Searching, Alone
<1>4. convs' = convs /\ rows' = rows /\ clashed' = clashed /\ failed' = failed
  BY DEF FindPeer
<1>5. CASE \E c \in convs : c.key = h.peer /\ c.account = h.account
  <2>1. worker'[w].pc = "findMessage" /\ worker'[w].mail = m /\ worker'[w].conv = h.peer
    BY <1>1, <1>2, <1>5, HeaderFacts, ChooseFacts DEF FindPeer, MailOf
  <2>. QED BY <1>3, <1>4, <1>5, <2>1, ChosenWell, StartedExcuse
<1>6. CASE ~ \E c \in convs : c.key = h.peer /\ c.account = h.account
  <2>1. worker'[w].mail = m /\ worker'[w].pc = "createChild"
    BY <1>1, <1>6, GotoFacts DEF FindPeer, Pc, MailOf
  <2>2. MailOf(w)' = m /\ HeadOf(w)' = h
    BY <2>1 DEF MailOf, HeadOf
  <2>3. Searching(w)' /\ Alone(w)'
    BY <1>3, <1>4, <2>2 DEF Searching, Alone, ThreadRows, SameThread
  <2>4. Fresh(w)'
    BY <1>4, <1>6, <2>2 DEF Fresh
  <2>. QED BY <2>1, <2>3, <2>4 DEF WorkerSound, Creating, HasParent, PlacedWell, Placed, At
<1>. QED BY <1>5, <1>6

LEMMA CreateChildSound ==
  ASSUME ThreadingTypeOK, NEW w \in Workers, WorkerSound(w), CreateChild(w)
  PROVE  WorkerSound(w)'
<1>1. Busy(w)
  BY JobFacts DEF CreateChild, At, Pc
<1>2. HeadOf(w) \in Header
  BY <1>1, JobFacts
<1>3. worker'[w].pc = "findMessage" /\ worker'[w].mail = MailOf(w) /\ worker'[w].conv = HeadOf(w).peer
  BY <1>1, <1>2, HeaderFacts, ChooseFacts DEF CreateChild, MailOf
<1>4. \E c \in convs' : c.key = HeadOf(w).peer /\ c.account = HeadOf(w).account
  <2>. DEFINE c == [key |-> HeadOf(w).peer, account |-> HeadOf(w).account, kind |-> "child",
                    peer |-> HeadOf(w).peer,
                    topic |-> [subject |-> HeadOf(w).subject, people |-> People(HeadOf(w))]]
  <2>1. c \in convs' /\ c.key = HeadOf(w).peer /\ c.account = HeadOf(w).account
    BY DEF CreateChild
  <2>. QED BY <2>1
<1>5. ~HeadOf(w).root /\ (MailOf(w) \in clashed \/ ThreadRows(MailOf(w)) = {})
  BY DEF CreateChild, At, WorkerSound, Searching, Alone
<1>. QED BY <1>3, <1>4, <1>5, ChosenWell, StartedExcuse DEF CreateChild

LEMMA FindMessageSound ==
  ASSUME ThreadingTypeOK, NEW w \in Workers, WorkerSound(w), FindMessage(w)
  PROVE  WorkerSound(w)'
<1>1. Busy(w)
  BY JobFacts DEF FindMessage, At, Pc
<1>2. CASE Finish(w)
  BY <1>2, FinishFacts, NothingKnown
<1>3. CASE Goto(w, "insert")
  <2>1. /\ worker'[w].pc = "insert" /\ worker'[w].mail = MailOf(w) /\ worker'[w].conv = worker[w].conv
    BY <1>1, <1>3, GotoFacts DEF Pc, MailOf
  <2>2. MailOf(w)' = MailOf(w) /\ HeadOf(w)' = HeadOf(w)
    BY <2>1 DEF MailOf, HeadOf
  <2>3. convs' = convs /\ rows' = rows /\ clashed' = clashed
    BY DEF FindMessage
  <2>4. Excused(MailOf(w))' = Excused(MailOf(w)) /\ ThreadRows(MailOf(w))' = ThreadRows(MailOf(w))
    BY <2>2, <2>3 DEF Excused, RootsApart, SameThread, ThreadRows
  <2>5. Placed(w) /\ PlacedWell(w)
    BY DEF FindMessage, At, Placed, WorkerSound
  <2>6. PlacedWell(w)'
    BY <2>1, <2>2, <2>3, <2>4, <2>5 DEF PlacedWell
  <2>. QED BY <2>1, <2>6 DEF WorkerSound, Creating, Searching, HasParent, Alone, Fresh, At
<1>. QED BY <1>2, <1>3 DEF FindMessage

LEMMA OwnSound ==
  ASSUME ThreadingTypeOK, ThreadInv, NEW w \in Workers, JobStep(w)
  PROVE  WorkerSound(w)'
<1>1. Pairs /\ Started /\ AccountsApart /\ SplitForCause /\ WorkerSound(w)
  BY DEF ThreadInv
<1>2. CASE \E m \in Mails : Start(w, m)
  BY <1>2, StartFacts, NothingKnown
<1>3. CASE CreationRefused(w) \/ InsertMessage(w) \/ JobFails(w)
  <2>1. Finish(w)
    BY <1>3 DEF CreationRefused, InsertMessage, JobFails
  <2>. QED BY <2>1, FinishFacts, NothingKnown
<1>. QED BY <1>1, <1>2, <1>3, FindParentSound, CreateParentSound, FindThreadSound, FindPeerSound,
            CreateChildSound, FindMessageSound DEF JobStep

-----------------------------------------------------------------------------
(* EmailThreading: the properties *)

\* Only the insertion of a message touches the rows.
LEMMA RowsKept ==
  ASSUME NEW w \in Workers, JobStep(w), ~InsertMessage(w)
  PROVE  rows' = rows
BY DEF JobStep, Start, FindParent, CreateParent, FindThread, FindPeer, CreateChild, CreationRefused,
   FindMessage, JobFails

LEMMA ApartStep ==
  ASSUME ThreadingTypeOK, AccountsApart, NEW w \in Workers, WorkerSound(w), JobStep(w)
  PROVE  AccountsApart'
<1>1. convs \subseteq convs'
  BY StepFacts DEF Steps
<1>2. CASE InsertMessage(w)
  <2>1. rows' = rows \cup {<<MailOf(w), worker[w].conv>>}
    BY <1>2 DEF InsertMessage
  <2>2. \E c \in convs : c.key = worker[w].conv /\ c.account = HeadOf(w).account
    BY <1>2 DEF InsertMessage, At, WorkerSound, PlacedWell, Placed
  <2>. QED BY <1>1, <2>1, <2>2 DEF AccountsApart, HeadOf
<1>3. CASE ~InsertMessage(w)
  BY <1>1, <1>3, RowsKept DEF AccountsApart
<1>. QED BY <1>2, <1>3

\* The row a job inserts is excused wherever it differs from its thread.
LEMMA InsertExcused ==
  ASSUME ThreadingTypeOK, RootsWell, NEW w \in Workers, WorkerSound(w), InsertMessage(w),
         NEW m, m = MailOf(w),
         NEW r \in rows, SameThread(r[1], m), r[2] # worker[w].conv
  PROVE  Excused(m)'
<1>. DEFINE k == worker[w].conv
            new == <<m, k>>
<1>1. rows' = rows \cup {new} /\ clashed \subseteq clashed'
  BY DEF InsertMessage
<1>2. /\ Head[m].root => k = ParentKey(Head[m]) \/ (Head[m].out /\ k = Head[m].peer)
      /\ ~Head[m].root => Excused(m) \/ \A q \in ThreadRows(m) : q[2] = k
  BY DEF InsertMessage, At, WorkerSound, PlacedWell, Placed, HeadOf
<1>3. CASE ~Head[m].root
  <2>1. r \in ThreadRows(m)
    BY DEF ThreadRows
  <2>2. Excused(m)
    BY <1>2, <1>3, <2>1
  <2>. QED BY <1>1, <2>2, ExcuseLasts
<1>4. CASE Head[m].root /\ ~Head[r[1]].root
  <2>1. RootLate(m)
    BY <1>4 DEF RootLate
  <2>2. m \in clashed'
    BY <2>1 DEF InsertMessage
  <2>. QED BY <2>2 DEF Excused, SameThread
<1>5. CASE Head[m].root /\ Head[r[1]].root
  <2>1. r[2] = ParentKey(Head[r[1]]) \/ (Head[r[1]].out /\ r[2] = Head[r[1]].peer)
    BY <1>5 DEF RootsWell
  <2>2. ParentKey(Head[r[1]]) = ParentKey(Head[m])
    BY DEF SameThread
  <2>3. r \in rows' /\ new \in rows' /\ new[1] = m /\ new[2] = k /\ SameThread(m, m)
    BY <1>1 DEF SameThread
  <2>4. CASE Head[m].out /\ k = Head[m].peer
    <3>. HIDE DEF new
    <3>. QED BY <1>5, <2>3, <2>4 DEF Excused, RootsApart, SameThread
  <2>5. CASE Head[r[1]].out /\ r[2] = Head[r[1]].peer
    <3>. HIDE DEF new
    <3>. QED BY <1>5, <2>3, <2>5 DEF Excused, RootsApart, SameThread
  <2>. QED BY <1>2, <1>5, <2>1, <2>2, <2>4, <2>5
<1>. QED BY <1>3, <1>4, <1>5

LEMMA SplitStep ==
  ASSUME ThreadingTypeOK, RootsWell, SplitForCause, NEW w \in Workers, WorkerSound(w), JobStep(w)
  PROVE  SplitForCause'
<1>1. rows \subseteq rows' /\ clashed \subseteq clashed'
  BY StepFacts DEF Steps
<1>2. SUFFICES ASSUME NEW r \in rows', NEW s \in rows', SameThread(r[1], s[1]), r[2] # s[2]
               PROVE  Excused(r[1])'
  BY DEF SplitForCause, Excused, SameThread
<1>3. CASE r \in rows /\ s \in rows
  <2>1. Excused(r[1])
    BY <1>2, <1>3 DEF SplitForCause, Excused
  <2>. QED BY <1>1, <2>1, ExcuseLasts
<1>4. CASE r \notin rows \/ s \notin rows
  <2>1. InsertMessage(w)
    BY <1>4, RowsKept
  <2>2. rows' = rows \cup {<<MailOf(w), worker[w].conv>>}
    BY <2>1 DEF InsertMessage
  <2>3. CASE r \notin rows
    <3>1. r[1] = MailOf(w) /\ r[2] = worker[w].conv /\ s \in rows
      BY <1>2, <2>2, <2>3
    <3>2. SameThread(s[1], r[1])
      BY <1>2, ThreadEquivalence
    <3>. QED BY <1>2, <2>1, <3>1, <3>2, InsertExcused
  <2>4. CASE s \notin rows
    <3>1. s[1] = MailOf(w) /\ s[2] = worker[w].conv /\ r \in rows
      BY <1>2, <2>2, <2>4
    <3>2. Excused(s[1])'
      BY <1>2, <2>1, <3>1, InsertExcused
    <3>3. SameThread(s[1], r[1])
      BY <1>2, ThreadEquivalence
    <3>. QED BY <3>2, <3>3 DEF Excused, RootsApart, SameThread
  <2>. QED BY <1>4, <2>3, <2>4
<1>. QED BY <1>3, <1>4

\* A refused creation has a cause.
LEMMA RefusalExcused ==
  ASSUME ThreadingTypeOK, Started, NEW w \in Workers, WorkerSound(w),
         NEW k, Taken(k), NEW m, m = MailOf(w),
         \/ At(w, "createParent") /\ k = ParentKey(HeadOf(w))
         \/ At(w, "createChild") /\ k = HeadOf(w).peer
  PROVE  \/ m \in clashed
         \/ \E c \in convs : c.key = k /\ c.account # Head[m].account
         \/ \E x \in failed : Head[x].root /\ SameThread(x, m)
         \/ Head[m].root /\ \E x \in Mails : Head[x].root /\ SameThread(x, m) /\ Head[x].peer # Head[m].peer
         \/ Head[m].thread = NoThread /\ \E c \in convs : c.key = k /\ c.kind = "child"
<1>1. Busy(w) /\ HeadOf(w) = Head[m]
  BY JobFacts DEF At, Pc, HeadOf
<1>2. Head[m] \in Header
  BY <1>1, JobFacts
<1>3. PICK c \in convs : c.key = k
  BY DEF Taken
<1>4. CASE At(w, "createParent") /\ k = ParentKey(Head[m]) /\ c.account = Head[m].account
  <2>1. Head[m].root /\ (m \in clashed \/ Parent(Head[m]) = {})
    BY <1>1, <1>4 DEF WorkerSound, Creating
  <2>2. CASE c.kind = "parent"
    <3>1. \E x \in Mails : Starts(x, c)
      BY <1>3, <2>2 DEF Started
    <3>2. PICK x \in Mails : Head[x].root /\ SameThread(x, m) /\ Head[x].peer = c.peer
      BY <1>3, <1>4, <3>1 DEF Starts, SameThread
    <3>3. CASE c.peer = Head[m].peer
      BY <1>3, <1>4, <2>1, <2>2, <3>3 DEF Parent
    <3>. QED BY <2>1, <3>2, <3>3
  <2>3. CASE c.kind = "child"
    <3>1. k \notin Threads
      BY <1>3, <2>3 DEF Started
    <3>. QED BY <1>2, <1>3, <1>4, <2>3, <3>1, HeaderFacts
  <2>. QED BY <2>2, <2>3 DEF ThreadingTypeOK, Conversation
<1>5. CASE At(w, "createChild") /\ k = Head[m].peer /\ c.account = Head[m].account
  BY <1>1, <1>3, <1>5 DEF WorkerSound, Fresh
<1>. QED BY <1>1, <1>3, <1>4, <1>5

LEMMA RefusedStep ==
  ASSUME ThreadingTypeOK, Started, RefusedForCause, NEW w \in Workers, WorkerSound(w), JobStep(w)
  PROVE  RefusedForCause'
<1>1. convs \subseteq convs' /\ clashed \subseteq clashed' /\ failed \subseteq failed'
  BY StepFacts DEF Steps
<1>2. SUFFICES ASSUME NEW r \in refused'
               PROVE  \/ r[1] \in clashed
                      \/ \E c \in convs : c.key = r[2] /\ c.account # Head[r[1]].account
                      \/ \E x \in failed : Head[x].root /\ SameThread(x, r[1])
                      \/ Head[r[1]].root /\ \E x \in Mails :
                           Head[x].root /\ SameThread(x, r[1]) /\ Head[x].peer # Head[r[1]].peer
                      \/ Head[r[1]].thread = NoThread /\ \E c \in convs : c.key = r[2] /\ c.kind = "child"
  BY <1>1 DEF RefusedForCause, SameThread
<1>3. CASE r \in refused
  BY <1>3 DEF RefusedForCause
<1>4. CASE r \notin refused
  <2>1. CreationRefused(w)
    BY <1>4 DEF JobStep, Start, FindParent, CreateParent, FindThread, FindPeer, CreateChild,
         FindMessage, InsertMessage, JobFails
  <2>2. PICK k \in Keys :
          /\ \/ At(w, "createParent") /\ k = ParentKey(HeadOf(w))
             \/ At(w, "createChild") /\ k = HeadOf(w).peer
          /\ Taken(k)
          /\ refused' = refused \cup {<<MailOf(w), k>>}
    BY <2>1 DEF CreationRefused
  <2>3. r[1] = MailOf(w) /\ r[2] = k
    BY <1>4, <2>2
  <2>. QED BY <2>2, <2>3, RefusalExcused
<1>. QED BY <1>3, <1>4

-----------------------------------------------------------------------------
(* EmailThreading: the theorems *)

LEMMA ThreadInvInit == ThreadingInit => ThreadInv
<1>. SUFFICES ASSUME ThreadingInit PROVE ThreadInv
  OBVIOUS
<1>1. \A w \in Workers : worker[w] = Idle /\ worker[w].pc = "idle"
  BY DEF ThreadingInit, Idle
<1>2. Pairs /\ Started /\ RootsWell
  BY <1>1 DEF ThreadingInit, Pairs, Busy, Started, RootsWell
<1>3. \A w \in Workers : WorkerSound(w)
  BY <1>1 DEF WorkerSound, Creating, Searching, HasParent, Alone, Fresh, PlacedWell, Placed, At
<1>4. AccountsApart /\ SplitForCause /\ RefusedForCause
  BY DEF ThreadingInit, AccountsApart, SplitForCause, RefusedForCause
<1>. QED BY <1>2, <1>3, <1>4 DEF ThreadInv

LEMMA ThreadInvStep ==
  ASSUME ThreadingTypeOK, ThreadInv, [ThreadingNext]_threadingVars
  PROVE  ThreadingTypeOK' /\ ThreadInv'
<1>1. CASE UNCHANGED threadingVars
  <2>1. ThreadingTypeOK'
    BY <1>1 DEF threadingVars, ThreadingTypeOK
  <2>2. Pairs' /\ Started' /\ RootsWell'
    BY <1>1 DEF ThreadInv, threadingVars, Pairs, Busy, MailOf, Related, Started, Starts, Placed, RootsWell
  <2>3. \A w \in Workers : WorkerSound(w)'
    BY <1>1 DEF ThreadInv, threadingVars, WorkerSound, Creating, Searching, HasParent, Alone, Fresh,
         PlacedWell, Placed, At, HeadOf, MailOf, Parent, ThreadRows, Excused, RootsApart, SameThread
  <2>4. AccountsApart' /\ SplitForCause' /\ RefusedForCause'
    BY <1>1 DEF ThreadInv, threadingVars, AccountsApart, SplitForCause, RefusedForCause, RootsApart, SameThread
  <2>. QED BY <2>1, <2>2, <2>3, <2>4 DEF ThreadInv
<1>2. ASSUME NEW w \in Workers, JobStep(w)
      PROVE  ThreadingTypeOK' /\ ThreadInv'
  <2>1. /\ Pairs /\ Started /\ RootsWell /\ WorkerSound(w)
        /\ AccountsApart /\ SplitForCause /\ RefusedForCause
    BY DEF ThreadInv
  <2>2. ThreadingTypeOK'
    BY <1>2, <2>1, ThreadingTypeStep
  <2>3. Pairs' /\ Started' /\ RootsWell'
    BY <1>2, <2>1, PairsStep, StartedStep, RootsWellStep
  <2>4. ASSUME NEW v \in Workers
        PROVE  WorkerSound(v)'
    <3>1. CASE v = w
      BY <1>2, <3>1, OwnSound
    <3>2. CASE v # w
      <4>1. Steps(w) /\ WorkerSound(v)
        BY <1>2, StepFacts DEF ThreadInv
      <4>. QED BY <2>1, <3>2, <4>1, OthersSound
    <3>. QED BY <3>1, <3>2
  <2>5. AccountsApart' /\ SplitForCause' /\ RefusedForCause'
    BY <1>2, <2>1, ApartStep, SplitStep, RefusedStep
  <2>. QED BY <2>2, <2>3, <2>4, <2>5 DEF ThreadInv
<1>. QED BY <1>1, <1>2 DEF ThreadingNext, JobStep

LEMMA ThreadingSafe == ThreadingSpec => [](ThreadingTypeOK /\ ThreadInv)
<1>1. ThreadingInit => ThreadingTypeOK /\ ThreadInv
  BY ThreadingTypeInit, ThreadInvInit
<1>2. ThreadingTypeOK /\ ThreadInv /\ [ThreadingNext]_threadingVars => (ThreadingTypeOK /\ ThreadInv)'
  BY ThreadInvStep
<1>. QED BY <1>1, <1>2, PTL DEF ThreadingSpec

\* The tables hold conversations and messages of known accounts and mails, and
\* every external conversation id is used once (MessageProcessor, the unique key).
THEOREM ThreadingTypeCorrect == ThreadingSpec => []ThreadingTypeOK
BY ThreadingSafe, PTL

\* No mail is ever stored in a conversation of another account: every lookup
\* of handleEmailConversation that chooses one goes through the account.
THEOREM AccountsNeverMixed == ThreadingSpec => []AccountsApart
<1>1. ThreadInv => AccountsApart
  BY DEF ThreadInv
<1>. QED BY <1>1, ThreadingSafe, PTL

\* A thread is only ever split by jobs that overlap, by a root that comes late
\* and by a sent root in its counterparty's conversation.
THEOREM SplitsHaveCauses == ThreadingSpec => []SplitForCause
<1>1. ThreadInv => SplitForCause
  BY DEF ThreadInv
<1>. QED BY <1>1, ThreadingSafe, PTL

\* A mail is only ever refused for another account, an overlapping job, a root
\* that failed after creating its parent, a second root of the thread or, without
\* a thread id, a reply that has made its counterparty's conversation.
THEOREM RefusalsHaveCauses == ThreadingSpec => []RefusedForCause
<1>1. ThreadInv => RefusedForCause
  BY DEF ThreadInv
<1>. QED BY <1>1, ThreadingSafe, PTL
=============================================================================
