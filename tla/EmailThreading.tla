--------------------------- MODULE EmailThreading ---------------------------
(***************************************************************************)
(* Which conversation a save-message job puts an email into                *)
(* (MessageProcessor.handleEmailConversation and saveMessage).  A mail     *)
(* without In-Reply-To belongs to the parent conversation named after its  *)
(* thread, or after the counterparty when it names no thread; a reply goes *)
(* where its thread, a mail it cites, or its subject already is, and       *)
(* otherwise to a conversation named after the counterparty.               *)
(* Conversations are looked up per account but their external id is unique *)
(* for the whole platform.                                                 *)
(*                                                                         *)
(* Each database call is one step, except that the four lookups of         *)
(* findEmailThread are one.  A mail may be delivered again: every poll     *)
(* returns the newest mail of the folder (EmailPoll).  The jobs of one     *)
(* mail can come in any order; the way they reach a worker is that of      *)
(* MessageIngest.                                                          *)
(***************************************************************************)
EXTENDS Naturals, FiniteSets

CONSTANTS
  Mails,            \* Message-IDs, which are also the external message ids
  Accounts,         \* email accounts of all users, standing for their addresses
  Threads,          \* thread ids: the first reference, In-Reply-To or the Message-ID
  NoThread,         \* the thread id of a mail that has none of the three
  Peers,            \* counterparties: addresses, without the angle brackets of a Message-ID
  Subjects,         \* normalised subjects
  Head,             \* the headers of each mail
  Nobody,           \* the conversation of a job that has none yet
  Workers,
  MaxAgain,         \* bound: deliveries of mails delivered before
  MaxMishaps        \* bound: jobs that fail for another reason

Keys == Threads \cup Peers
Header ==
  [account : Accounts, thread : Threads \cup {NoThread}, root : BOOLEAN, out : BOOLEAN, peer : Peers,
   cites : SUBSET Mails, subject : Subjects]

ASSUME ThreadingAssumption ==
  /\ Head \in [Mails -> Header]
  /\ \A m \in Mails : Head[m].thread = NoThread => Head[m].root
  /\ Threads \cap Peers = {}
  /\ Nobody \notin Keys
  /\ Accounts \cap Peers = {}
  /\ MaxAgain \in Nat
  /\ MaxMishaps \in Nat

VARIABLES
  handed,       \* mails handed to a worker at least once
  worker,       \* each job: its step, mail, whether a parent was found, the conversation
  convs,        \* conversation rows
  rows,         \* message rows, as <<mail, external id of the conversation>>
  refused,      \* history: <<mail, key>> of jobs ended by the unique key
  failed,       \* history: mails whose job failed otherwise
  clashed,      \* history: mails processed while a related one was, or a root stored late
  again, mishaps

threadingVars == <<handed, worker, convs, rows, refused, failed, clashed, again, mishaps>>

Conversation ==
  [key : Keys, account : Accounts, kind : {"parent", "child"}, peer : Peers,
   topic : [subject : Subjects, people : SUBSET (Peers \cup Accounts)] \cup {Nobody}]

Idle == [pc |-> "idle"]
Pc == {"findParent", "createParent", "findThread", "findPeer", "createChild", "findMessage", "insert"}
WorkerState == {Idle} \cup [pc : Pc, mail : Mails, parent : BOOLEAN, conv : Keys \cup {Nobody}]

ThreadingTypeOK ==
  /\ handed \in SUBSET Mails
  /\ worker \in [Workers -> WorkerState]
  /\ convs \in SUBSET Conversation
  /\ \A c, d \in convs : c.key = d.key => c = d
  /\ rows \in SUBSET (Mails \X Keys)
  /\ refused \in SUBSET (Mails \X Keys)
  /\ failed \in SUBSET Mails
  /\ clashed \in SUBSET Mails
  /\ again \in 0 .. MaxAgain
  /\ mishaps \in 0 .. MaxMishaps

ThreadingInit ==
  /\ handed = {}
  /\ worker = [w \in Workers |-> Idle]
  /\ convs = {}
  /\ rows = {}
  /\ refused = {}
  /\ failed = {}
  /\ clashed = {}
  /\ again = 0
  /\ mishaps = 0

Busy(w) == worker[w] # Idle
At(w, pc) == worker[w].pc = pc
MailOf(w) == worker[w].mail
HeadOf(w) == Head[MailOf(w)]
Taken(k) == \E c \in convs : c.key = k

\* parentExternalId: without a thread id, the external id of a child.
ParentKey(h) == IF h.thread = NoThread THEN h.peer ELSE h.thread

\* Mails without a thread id count as one thread with their counterparty.
SameThread(m, n) == Head[m].account = Head[n].account /\ ParentKey(Head[m]) = ParentKey(Head[n])
Related(m, n) == SameThread(m, n) \/ (Head[m].account = Head[n].account /\ Head[m].peer = Head[n].peer)

Goto(w, pc) == worker' = [worker EXCEPT ![w].pc = pc]
Choose(w, k) == worker' = [worker EXCEPT ![w].pc = "findMessage", ![w].conv = k]
Finish(w) == worker' = [worker EXCEPT ![w] = Idle]

-----------------------------------------------------------------------------
Concurrent(m) == {MailOf(w) : w \in {v \in Workers : Busy(v) /\ Related(MailOf(v), m)}}

Start(w, m) ==
  /\ ~Busy(w)
  /\ handed' = handed \cup {m}
  /\ again' = IF m \in handed THEN again + 1 ELSE again
  /\ again' <= MaxAgain
  /\ worker' = [worker EXCEPT ![w] = [pc |-> "findParent", mail |-> m, parent |-> FALSE, conv |-> Nobody]]
  /\ clashed' = IF Concurrent(m) = {} THEN clashed ELSE clashed \cup Concurrent(m) \cup {m}
  /\ UNCHANGED <<convs, rows, refused, failed, mishaps>>

\* A sent mail that starts a thread goes to the counterparty's conversation.
Outgoing(h) == {c \in convs : h.root /\ h.out /\ c.account = h.account /\ c.key = h.peer}

\* Mutant: the parent is looked up under the counterparty.
ParentByPeer(h) ==
  {c \in convs : c.account = h.account /\ c.kind = "parent" /\ c.peer = h.peer /\ c.key = h.peer}

Parent(h) ==
  {c \in convs : c.account = h.account /\ c.kind = "parent" /\ c.peer = h.peer /\ c.key = ParentKey(h)}

\* resolveParentConversation, up to the creation of the parent.  A mail that
\* starts a thread is stored in its parent, a reply looks further.
FindParent(w) ==
  /\ At(w, "findParent")
  /\ LET h == HeadOf(w)
     IN  IF Outgoing(h) # {} THEN Choose(w, h.peer)
         ELSE IF h.root /\ Parent(h) # {} THEN Choose(w, ParentKey(h))
         ELSE IF h.root THEN Goto(w, "createParent")
         ELSE worker' = [worker EXCEPT ![w].pc = "findThread", ![w].parent = (Parent(h) # {})]
  /\ UNCHANGED <<handed, convs, rows, refused, failed, clashed, again, mishaps>>

CreateParent(w) ==
  /\ At(w, "createParent")
  /\ ~Taken(ParentKey(HeadOf(w)))
  /\ convs' = convs \cup {[key |-> ParentKey(HeadOf(w)), account |-> HeadOf(w).account, kind |-> "parent",
                           peer |-> HeadOf(w).peer, topic |-> Nobody]}
  /\ Choose(w, ParentKey(HeadOf(w)))
  /\ UNCHANGED <<handed, rows, refused, failed, clashed, again, mishaps>>

\* The conversations of the account that hold one of the given mails.
Holding(S, a) == {c.key : c \in {d \in convs : d.account = a /\ \E n \in S : <<n, d.key>> \in rows}}
People(h) == {h.peer} \cup (IF h.out THEN {} ELSE {h.account})
OnTopic(h) ==
  {c.key : c \in {d \in convs : /\ d.account = h.account
                                /\ d.topic # Nobody
                                /\ d.topic.subject = h.subject
                                /\ d.topic.people \cap People(h) # {}}}

\* Mutant: mails of the thread are looked up without their account.
ThreadConvsOfAll(h) ==
  LET byThread == {c.key : c \in {d \in convs : \E n \in Mails : Head[n].thread = h.thread /\ <<n, d.key>> \in rows}}
      byCitation == Holding(h.cites, h.account)
  IN  IF byThread # {} THEN byThread ELSE IF byCitation # {} THEN byCitation ELSE OnTopic(h)

\* Mutant: only the subject is looked at.
ThreadConvsUncited(h) == OnTopic(h)

\* findEmailThread: by thread id, by cited mails, by subject and participants;
\* whichever row the database returns first decides.
ThreadConvs(h) ==
  LET byThread == Holding({n \in Mails : Head[n].thread = h.thread}, h.account)
      byCitation == Holding(h.cites, h.account)
  IN  IF byThread # {} THEN byThread ELSE IF byCitation # {} THEN byCitation ELSE OnTopic(h)

FindThread(w) ==
  /\ At(w, "findThread")
  /\ IF ThreadConvs(HeadOf(w)) # {}
       THEN \E k \in ThreadConvs(HeadOf(w)) : Choose(w, k)
       ELSE Goto(w, IF worker[w].parent THEN "createChild" ELSE "findPeer")
  /\ UNCHANGED <<handed, convs, rows, refused, failed, clashed, again, mishaps>>

\* Without parent or thread a reply goes to the counterparty's conversation.
FindPeer(w) ==
  /\ At(w, "findPeer")
  /\ IF \E c \in convs : c.key = HeadOf(w).peer /\ c.account = HeadOf(w).account
       THEN Choose(w, HeadOf(w).peer)
       ELSE Goto(w, "createChild")
  /\ UNCHANGED <<handed, convs, rows, refused, failed, clashed, again, mishaps>>

\* The child of the parent found, or the fallback when there is none.
CreateChild(w) ==
  /\ At(w, "createChild")
  /\ ~Taken(HeadOf(w).peer)
  /\ convs' = convs \cup {[key |-> HeadOf(w).peer, account |-> HeadOf(w).account, kind |-> "child",
                           peer |-> HeadOf(w).peer,
                           topic |-> [subject |-> HeadOf(w).subject, people |-> People(HeadOf(w))]]}
  /\ Choose(w, HeadOf(w).peer)
  /\ UNCHANGED <<handed, rows, refused, failed, clashed, again, mishaps>>

\* The unique key refuses the new conversation: the job's only attempt fails.
CreationRefused(w) ==
  /\ \E k \in Keys :
       /\ \/ At(w, "createParent") /\ k = ParentKey(HeadOf(w))
          \/ At(w, "createChild") /\ k = HeadOf(w).peer
       /\ Taken(k)
       /\ refused' = refused \cup {<<MailOf(w), k>>}
  /\ Finish(w)
  /\ UNCHANGED <<handed, convs, rows, failed, clashed, again, mishaps>>

\* saveMessage looks for the mail in the chosen conversation only.
FindMessage(w) ==
  /\ At(w, "findMessage")
  /\ IF <<MailOf(w), worker[w].conv>> \in rows THEN Finish(w) ELSE Goto(w, "insert")
  /\ UNCHANGED <<handed, convs, rows, refused, failed, clashed, again, mishaps>>

RootLate(m) == Head[m].root /\ \E r \in rows : SameThread(r[1], m) /\ ~Head[r[1]].root

\* A row that exists by now is refused, and that error is caught.
InsertMessage(w) ==
  /\ At(w, "insert")
  /\ rows' = rows \cup {<<MailOf(w), worker[w].conv>>}
  /\ clashed' = IF RootLate(MailOf(w)) THEN clashed \cup {MailOf(w)} ELSE clashed
  /\ Finish(w)
  /\ UNCHANGED <<handed, convs, refused, failed, again, mishaps>>

JobFails(w) ==
  /\ Busy(w)
  /\ mishaps < MaxMishaps
  /\ mishaps' = mishaps + 1
  /\ failed' = failed \cup {MailOf(w)}
  /\ Finish(w)
  /\ UNCHANGED <<handed, convs, rows, refused, clashed, again>>

ThreadingNext ==
  \E w \in Workers :
    \/ \E m \in Mails : Start(w, m)
    \/ FindParent(w) \/ CreateParent(w) \/ FindThread(w) \/ FindPeer(w) \/ CreateChild(w)
    \/ CreationRefused(w) \/ FindMessage(w) \/ InsertMessage(w) \/ JobFails(w)

ThreadingSpec == ThreadingInit /\ [][ThreadingNext]_threadingVars

-----------------------------------------------------------------------------
(* Properties *)

\* No mail is stored in a conversation of another account, although threads,
\* Message-IDs and counterparties are shared between accounts.
AccountsApart ==
  \A r \in rows : \E c \in convs : c.key = r[2] /\ c.account = Head[r[1]].account

\* A sent root that was put into its counterparty's conversation, and a root of
\* the same thread (the same mail delivered before, or another one) that is elsewhere.
RootsApart(m) ==
  \E x, y \in rows :
    /\ SameThread(x[1], m) /\ Head[x[1]].root
    /\ SameThread(y[1], m) /\ Head[y[1]].root /\ Head[y[1]].out /\ y[2] = Head[y[1]].peer
    /\ x[2] # y[2]

\* The mails of a thread are in one conversation, each in one row, unless one of
\* them was processed while a related mail was, its root came after a reply, or
\* a sent root went to the counterparty's conversation and not to the parent.
SplitForCause ==
  \A r, s \in rows : SameThread(r[1], s[1]) /\ r[2] # s[2] =>
    RootsApart(r[1]) \/ \E x \in clashed : SameThread(x, r[1])

\* A mail is only refused because another account holds the key, because it was
\* processed while a related mail was, because the job of a root of its thread
\* failed after creating the parent, or, being a root, because its thread has a root
\* with another counterparty (one of them has References, but no In-Reply-To), or
\* because it names no thread and a reply has already made the child conversation of
\* its counterparty, whose key its parent would have.
RefusedForCause ==
  \A r \in refused :
    \/ r[1] \in clashed
    \/ \E c \in convs : c.key = r[2] /\ c.account # Head[r[1]].account
    \/ \E x \in failed : Head[x].root /\ SameThread(x, r[1])
    \/ Head[r[1]].root /\ \E x \in Mails :
         Head[x].root /\ SameThread(x, r[1]) /\ Head[x].peer # Head[r[1]].peer
    \/ Head[r[1]].thread = NoThread /\ \E c \in convs : c.key = r[2] /\ c.kind = "child"
=============================================================================
