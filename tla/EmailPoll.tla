------------------------------ MODULE EmailPoll ------------------------------
(***************************************************************************)
(* EmailProvider.poll on the mailboxes of one account: INBOX and then Sent *)
(* are opened, searched from the folder's cursor and fetched, over the one *)
(* IMAP connection the account has; the cursor of both folders is saved    *)
(* before the messages are enqueued.  Over the same connection             *)
(* EmailReconciliationProcessor looks for messages of INBOX that have no   *)
(* row, and POST /messages/email/cleanup deletes all messages of a folder. *)
(*                                                                         *)
(* A command acts on the folder the connection has selected when it runs:  *)
(* mailboxOpen takes no lock, so each command is a step of its own.        *)
(***************************************************************************)
EXTENDS Integers, FiniteSets

CONSTANTS
  MaxUid,        \* bound: the highest uid
  MaxPerPoll,    \* emailConfig.messageRetrieval.maxMessagesPerPoll
  Window,        \* emailConfig.reconciliation.remoteWindowSize
  Unparsable,    \* <<folder, uid>> of the messages simpleParser rejects
  NeverStored,   \* <<folder, uid>> of those every save-message job fails for
  Scope          \* bound: how many messages, failures and cleanups there may be together

Folders == {"Inbox", "Sent"}
Uids == 1 .. MaxUid

ASSUME ConstantsAssumption ==
  /\ MaxUid \in Nat
  /\ MaxPerPoll \in Nat \ {0}
  /\ Window \in Nat \ {0}
  /\ Unparsable \subseteq Folders \X Uids
  /\ NeverStored \subseteq Folders \X Uids
  /\ Scope \subseteq [Inbox : 0 .. MaxUid, Sent : 0 .. MaxUid, failures : Nat, cleanups : Nat]

VARIABLES
  delivered,   \* highest uid of each folder so far
  gone,        \* uids expunged from each folder
  cursor,      \* connected_accounts.cursor
  selected,    \* the folder the shared connection has open
  poll,        \* the poll: its step, folder, uids to fetch, new cursor, messages
  rec,         \* the reconciliation: its step and the uids it is about
  wipe,        \* the cleanup: its step, folder and uids to delete
  enqueued,    \* messages handed to the save-message queue
  missed,      \* history: messages older than the first poll's window, or dropped by a crash
  torn,        \* history: folders a poll was reading when another one was opened
  strayed,     \* history: whether a reconciliation of INBOX, or a cleanup, was under way
               \* when another folder than its own was opened
  troubles     \* failing polls and reconciliations and crashes so far, and cleanups

vars == <<delivered, gone, cursor, selected, poll, rec, wipe, enqueued, missed, torn, strayed, troubles>>

\* A message as the poll knows it: the folder it believes it read, the folder
\* it came from, and its uid there.
Message == [as : Folders, from : Folders, uid : Uids]
NoPoll == [pc |-> "idle", folder |-> "Inbox", found |-> {}, top |-> [f \in Folders |-> 0], got |-> {}]
NoRec == [pc |-> "idle", uids |-> {}]
NoWipe == [pc |-> "idle", folder |-> "Inbox", uids |-> {}]

TypeOK ==
  /\ delivered \in [Folders -> 0 .. MaxUid]
  /\ gone \in [Folders -> SUBSET Uids]
  /\ cursor \in [Folders -> 0 .. MaxUid]
  /\ selected \in Folders
  /\ poll \in [pc : {"idle", "open", "search", "fetch", "save", "enqueue"}, folder : Folders,
               found : SUBSET Uids, top : [Folders -> 0 .. MaxUid], got : SUBSET Message]
  /\ rec \in [pc : {"idle", "search", "compare", "fetch"}, uids : SUBSET Uids]
  /\ wipe \in [pc : {"idle", "search", "delete"}, folder : Folders, uids : SUBSET Uids]
  /\ enqueued \in SUBSET Message
  /\ missed \in SUBSET (Folders \X Uids)
  /\ torn \in SUBSET Folders
  /\ strayed \in SUBSET {"rec", "wipe"}
  /\ troubles \in [failures : Nat, cleanups : Nat]

Init ==
  /\ delivered = [f \in Folders |-> 0]
  /\ gone = [f \in Folders |-> {}]
  /\ cursor = [f \in Folders |-> 0]
  /\ selected = "Inbox"
  /\ poll = NoPoll
  /\ rec = NoRec
  /\ wipe = NoWipe
  /\ enqueued = {}
  /\ missed = {}
  /\ torn = {}
  /\ strayed = {}
  /\ troubles = [failures |-> 0, cleanups |-> 0]

Present(f) == (1 .. delivered[f]) \ gone[f]

\* What has happened so far, to be bounded.
Extent == [Inbox |-> delivered["Inbox"], Sent |-> delivered["Sent"],
           failures |-> troubles.failures, cleanups |-> troubles.cleanups]
Trouble(kind) ==
  /\ [Extent EXCEPT ![kind] = @ + 1] \in Scope
  /\ troubles' = [troubles EXCEPT ![kind] = @ + 1]

Deliver(f) ==
  /\ [Extent EXCEPT ![f] = @ + 1] \in Scope
  /\ delivered' = [delivered EXCEPT ![f] = @ + 1]
  /\ UNCHANGED <<gone, cursor, selected, poll, rec, wipe, enqueued, missed, torn, strayed, troubles>>

-----------------------------------------------------------------------------
(* The poll *)

FirstN(S, n) == {x \in S : Cardinality({y \in S : y < x}) < n}
LastN(S, n) == {x \in S : Cardinality({y \in S : y > x}) < n}

\* The IMAP range n:* names the uids from n on and always the highest one there.
RangeFrom(S, n) == {x \in S : n <= x \/ \A y \in S : y <= x}

\* Mutant: the oldest of all are fetched, whatever the cursor.
UidsToFetchOldest(S, lastUid) == FirstN(S, MaxPerPoll)

\* getUidsToFetch: the oldest messages after the cursor, on the first poll the
\* newest of all.
UidsToFetch(S, lastUid) ==
  IF lastUid > 0 THEN FirstN(RangeFrom(S, lastUid + 1), MaxPerPoll) ELSE LastN(S, MaxPerPoll)

\* The folder a poll is in the middle of reading while another one is opened.
Diverted(f) == IF poll.pc \in {"search", "fetch"} /\ poll.folder # f THEN {poll.folder} ELSE {}

\* mailboxOpen, without a lock: whatever was under way goes on in that folder.
Opens(f) ==
  /\ selected' = f
  /\ torn' = torn \cup Diverted(f)
  /\ strayed' = strayed \cup (IF f # "Inbox" /\ rec.pc \in {"search", "fetch"} THEN {"rec"} ELSE {})
                       \cup (IF wipe.pc # "idle" /\ f # wipe.folder THEN {"wipe"} ELSE {})

PollStarts ==
  /\ poll.pc = "idle"
  /\ poll' = [NoPoll EXCEPT !.pc = "open", !.top = cursor]
  /\ UNCHANGED <<delivered, gone, cursor, selected, rec, wipe, enqueued, missed, torn, strayed, troubles>>

\* After INBOX comes Sent, after Sent the cursor is saved.
Onward(p) == IF p.folder = "Inbox" THEN [p EXCEPT !.pc = "open", !.folder = "Sent"] ELSE [p EXCEPT !.pc = "save"]

\* Mutant: the second folder is read without being opened.
PollOpensOnce ==
  /\ poll.pc = "open"
  /\ Opens("Inbox")
  /\ poll' = IF Present(poll.folder) = {} THEN Onward(poll) ELSE [poll EXCEPT !.pc = "search"]
  /\ UNCHANGED <<delivered, gone, cursor, rec, wipe, enqueued, missed, troubles>>

\* An empty folder is left at once.
PollOpens ==
  /\ poll.pc = "open"
  /\ Opens(poll.folder)
  /\ poll' = IF Present(poll.folder) = {} THEN Onward(poll) ELSE [poll EXCEPT !.pc = "search"]
  /\ UNCHANGED <<delivered, gone, cursor, rec, wipe, enqueued, missed, troubles>>

PollSearches ==
  /\ poll.pc = "search"
  /\ LET uids == UidsToFetch(Present(selected), cursor[poll.folder])
     IN  poll' = IF uids = {} THEN Onward(poll) ELSE [poll EXCEPT !.pc = "fetch", !.found = uids]
  /\ UNCHANGED <<delivered, gone, cursor, selected, rec, wipe, enqueued, missed, torn, strayed, troubles>>

Higher(a, S) == CHOOSE m \in S \cup {a} : \A x \in S \cup {a} : x <= m
Parsed(uids) == {u \in uids \cap Present(selected) : <<selected, u>> \notin Unparsable}
Fetched(uids) == {[as |-> poll.folder, from |-> selected, uid |-> u] : u \in Parsed(uids)}

\* fetchAndParseMessages: a message that cannot be parsed is logged and skipped.
\* Flagging the parsed ones as seen changes nothing the poll looks at.
PollFetches ==
  /\ poll.pc = "fetch"
  /\ poll' = Onward([poll EXCEPT !.top[poll.folder] = Higher(@, Parsed(poll.found)),
                                 !.got = @ \cup Fetched(poll.found),
                                 !.found = {}])
  /\ UNCHANGED <<delivered, gone, cursor, selected, rec, wipe, enqueued, missed, torn, strayed, troubles>>

\* Messages the first poll of a folder leaves behind for good.
LeftBehind(f) ==
  IF cursor[f] > 0 THEN {}
  ELSE {<<f, u>> : u \in {x \in Uids : x < poll.top[f] /\ \A m \in poll.got : ~(m.as = f /\ m.uid = x)}}

\* Mutant: the cursor is saved as the next uid to ask for.
PollSavesNext ==
  /\ poll.pc = "save"
  /\ cursor' = [f \in Folders |-> poll.top[f] + 1]
  /\ poll' = [poll EXCEPT !.pc = "enqueue"]
  /\ missed' = missed \cup LeftBehind("Inbox") \cup LeftBehind("Sent")
  /\ UNCHANGED <<delivered, gone, selected, rec, wipe, enqueued, torn, strayed, troubles>>

\* updateAccountAfterPoll, before anything is enqueued.
PollSaves ==
  /\ poll.pc = "save"
  /\ cursor' = poll.top
  /\ poll' = [poll EXCEPT !.pc = "enqueue"]
  /\ missed' = missed \cup LeftBehind("Inbox") \cup LeftBehind("Sent")
  /\ UNCHANGED <<delivered, gone, selected, rec, wipe, enqueued, torn, strayed, troubles>>

\* handlePolledMessages; MessageIngest has its steps.
PollEnqueues ==
  /\ poll.pc = "enqueue"
  /\ enqueued' = enqueued \cup poll.got
  /\ poll' = NoPoll
  /\ UNCHANGED <<delivered, gone, cursor, selected, rec, wipe, missed, torn, strayed, troubles>>

\* A command fails, or the cursor cannot be written: the poll throws.
PollFails ==
  /\ poll.pc \in {"open", "search", "fetch", "save"}
  /\ Trouble("failures")
  /\ poll' = NoPoll
  /\ UNCHANGED <<delivered, gone, cursor, selected, rec, wipe, enqueued, missed, torn, strayed>>

-----------------------------------------------------------------------------
(* EmailReconciliationProcessor, every five minutes; it knows INBOX only *)

RecOpens ==
  /\ rec.pc = "idle"
  /\ Opens("Inbox")
  /\ rec' = [rec EXCEPT !.pc = "search"]
  /\ UNCHANGED <<delivered, gone, cursor, poll, wipe, enqueued, missed, troubles>>

RecSearches ==
  /\ rec.pc = "search"
  /\ rec' = IF Present(selected) = {} THEN NoRec
            ELSE [pc |-> "compare", uids |-> LastN(Present(selected), Window)]
  /\ UNCHANGED <<delivered, gone, cursor, selected, poll, wipe, enqueued, missed, torn, strayed, troubles>>

\* The rows.  A save-message job has been handled by the time the reconciliation
\* compares (before, it would only be added again); one that the unique key of the
\* conversations refuses fails every time (EmailThreading).
Stored == {m \in enqueued : <<m.from, m.uid>> \notin NeverStored}

\* Mutant: what the cursor has passed is taken to be there.
MissingPastCursor(uids) == {u \in uids : u > cursor["Inbox"] /\ \A m \in Stored : m.uid # u}

\* getRecentLocalUids takes the uids of the account's rows, whatever their folder;
\* the rows looked at reach back far enough (localLookback).
Missing(uids) == {u \in uids : \A m \in Stored : m.uid # u}

\* fetchMessagesByUid opens INBOX again.
RecCompares ==
  /\ rec.pc = "compare"
  /\ IF Missing(rec.uids) = {}
       THEN rec' = NoRec /\ UNCHANGED <<selected, torn, strayed>>
       ELSE rec' = [pc |-> "fetch", uids |-> Missing(rec.uids)] /\ Opens("Inbox")
  /\ UNCHANGED <<delivered, gone, cursor, poll, wipe, enqueued, missed, troubles>>

\* Nothing was saved before, so a crash before the last one is enqueued only
\* leaves some of them for the next time.
RecFetches ==
  /\ rec.pc = "fetch"
  /\ enqueued' = enqueued \cup {[as |-> "Inbox", from |-> selected, uid |-> u] :
                                u \in FirstN(Parsed(rec.uids), MaxPerPoll)}
  /\ rec' = NoRec
  /\ UNCHANGED <<delivered, gone, cursor, selected, poll, wipe, missed, torn, strayed, troubles>>

RecFails ==
  /\ rec.pc # "idle"
  /\ Trouble("failures")
  /\ rec' = NoRec
  /\ UNCHANGED <<delivered, gone, cursor, selected, poll, wipe, enqueued, missed, torn, strayed>>

-----------------------------------------------------------------------------
(* The cleanup: deleteAllMessagesFromFolder *)

\* Mutant: the cleanup opens INBOX, whichever folder it is asked for.
WipeOpensInbox(f) ==
  /\ wipe.pc = "idle"
  /\ Trouble("cleanups")
  /\ Opens("Inbox")
  /\ wipe' = [pc |-> "search", folder |-> f, uids |-> {}]
  /\ UNCHANGED <<delivered, gone, cursor, poll, rec, enqueued, missed>>

WipeOpens(f) ==
  /\ wipe.pc = "idle"
  /\ Trouble("cleanups")
  /\ Opens(f)
  /\ wipe' = [pc |-> "search", folder |-> f, uids |-> {}]
  /\ UNCHANGED <<delivered, gone, cursor, poll, rec, enqueued, missed>>

WipeSearches ==
  /\ wipe.pc = "search"
  /\ wipe' = IF Present(selected) = {} THEN NoWipe
             ELSE [wipe EXCEPT !.pc = "delete", !.uids = Present(selected)]
  /\ UNCHANGED <<delivered, gone, cursor, selected, poll, rec, enqueued, missed, torn, strayed, troubles>>

\* messageDelete flags and expunges in the selected folder; the separate
\* messageFlagsAdd before it removes nothing.
WipeDeletes ==
  /\ wipe.pc = "delete"
  /\ gone' = [gone EXCEPT ![selected] = @ \cup (wipe.uids \cap Present(selected))]
  /\ wipe' = NoWipe
  /\ UNCHANGED <<delivered, cursor, selected, poll, rec, enqueued, missed, torn, strayed, troubles>>

-----------------------------------------------------------------------------
Crash ==
  /\ Trouble("failures")
  /\ missed' = missed \cup (IF poll.pc = "enqueue" THEN {<<m.as, m.uid>> : m \in poll.got} ELSE {})
  /\ poll' = NoPoll
  /\ rec' = NoRec
  /\ wipe' = NoWipe
  /\ UNCHANGED <<delivered, gone, cursor, selected, enqueued, torn, strayed>>

PollStep ==
  \/ PollStarts \/ PollOpens \/ PollSearches \/ PollFetches \/ PollSaves \/ PollEnqueues

RecStep == RecOpens \/ RecSearches \/ RecCompares \/ RecFetches

Next ==
  \/ \E f \in Folders : Deliver(f) \/ WipeOpens(f)
  \/ PollStep \/ PollFails
  \/ RecStep \/ RecFails
  \/ WipeSearches \/ WipeDeletes
  \/ Crash

Spec == Init /\ [][Next]_vars

\* The account keeps being polled (PollScheduling says when it is not) and
\* reconciled, which is scheduled in the same way.
FairSpec == Spec /\ WF_vars(PollStep) /\ WF_vars(RecStep)

-----------------------------------------------------------------------------
(* Properties *)

InHand(f, u) == poll.pc = "enqueue" /\ \E m \in poll.got : m.as = f /\ m.uid = u
Enqueued(f, u) == [as |-> f, from |-> f, uid |-> u] \in enqueued

\* A message the cursor of its folder has passed was enqueued or is about to be,
\* or it could not be parsed, is no longer there, belongs to what the first poll
\* or a crash left behind, or another folder was opened while a poll read this one.
Passed(f, u) ==
  \/ Enqueued(f, u)
  \/ <<f, u>> \in Unparsable \/ u \in gone[f] \/ <<f, u>> \in missed
  \/ f \in torn
Covered == \A f \in Folders, u \in Uids : u <= cursor[f] => Passed(f, u) \/ InHand(f, u)

Arriving(f) == {u \in Uids : \E s \in Scope : u <= s[f]}

\* The polls reach one message of a folder after the other, each in the end, unless
\* the whole window they ask for is unparsable: such a window is fetched again and
\* again.
Blocked(f) ==
  LET uids == UidsToFetch(Present(f), cursor[f]) IN uids # {} /\ {f} \X uids \subseteq Unparsable
EventuallyRead ==
  \A f \in Folders : \A u \in Arriving(f) :
    (u <= delivered[f]) ~> (Passed(f, u) \/ (Blocked(f) /\ u > cursor[f]))

\* A message is handed on as one of the folder it was read from (its direction
\* depends on it), unless another folder was opened during that reading.
ReadsItsFolder == \A m \in enqueued : m.as = m.from \/ m.as \in torn \/ (m.as = "Inbox" /\ "rec" \in strayed)

\* Messages leave no folder but the one whose cleanup was asked for, whatever polls
\* and reconciliations do between its steps, unless another folder was opened then.
DeletesItsFolder ==
  [][\A f \in Folders : gone'[f] # gone[f] => wipe.folder = f \/ "wipe" \in strayed]_vars

\* The saved cursor of a folder never falls back, though each poll computes the new
\* one from what it read at its start and from the messages it could parse.
CursorsAdvance == [][\A f \in Folders : cursor[f] <= cursor'[f]]_vars

\* What the first poll or a crash left behind in INBOX is recovered, unless it lies
\* outside the window, a row taken for or from Sent has the same uid and hides it,
\* another folder was opened during a reconciliation, or as many messages as one
\* reconciliation hands on are missing before it and are refused each time: the
\* lowest are always taken first.
Latest == LastN(Present("Inbox"), Window)
Hidden(u) == u \notin Latest \/ \E m \in Stored : m.uid = u /\ "Sent" \in {m.as, m.from}
Starved(u) ==
  Cardinality({x \in Missing(Latest) : x < u /\ <<"Inbox", x>> \in NeverStored \ Unparsable}) >= MaxPerPoll
EventuallyRecovered ==
  \A u \in Arriving("Inbox") :
    (<<"Inbox", u>> \in missed) ~>
      \/ Enqueued("Inbox", u) \/ <<"Inbox", u>> \in Unparsable
      \/ Hidden(u) \/ Starved(u) \/ "rec" \in strayed
=============================================================================
