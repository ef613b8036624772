----------------------------- MODULE TelegramPool -----------------------------
(***************************************************************************)
(* The TDLib clients of one Telegram account.  A client owns the files of  *)
(* the account's database directory while it is open, so there is to be    *)
(* one.  TelegramProvider keeps it in a pool and the creation under way in  *)
(* a map of pending promises; connectTelegram and verifyTelegram of         *)
(* AuthService replace it by a fresh one and log in on that.  The contacts *)
(* sync opens one of its own and closes it, without asking either map, and *)
(* is left out.                                                            *)
(*                                                                         *)
(* A step runs from one await to the next.  Clients are numbered in the     *)
(* order they are created.  Only the process's own clients are modelled: a *)
(* restart begins with none.                                               *)
(***************************************************************************)
EXTENDS Naturals, FiniteSets

CONSTANTS
  Callers,     \* calls of getOrCreateClient by sends, fetches, read receipts
  Logins,      \* calls of connectTelegram, each with its verifyTelegram
  MaxClients,  \* bound: clients created
  MaxEnded     \* bound: clients that close by themselves

None == 0
Clients == 1 .. MaxClients

ASSUME ConstantsAssumption ==
  /\ MaxClients \in Nat \ {0}
  /\ MaxEnded \in Nat
  /\ IsFiniteSet(Callers) /\ IsFiniteSet(Logins)

VARIABLES
  made,        \* the number of clients created
  open,        \* clients that hold the directory's files
  ended,       \* clients that closed by themselves
  pool,        \* clientPool's entry
  pending,     \* pendingClientCreations' entry: the creation of that client
  creating,    \* clients whose creation polls getMe
  heard,       \* clients with an update handler
  caller,      \* each caller: who it waits for, and what it was handed
  login,       \* each login
  overlooked,  \* history: a login removed the client while one was being created
  superseded   \* history: logins another login began in the middle of

clientVars == <<made, open, ended, pool, pending, creating>>
history == <<overlooked, superseded>>
vars == <<clientVars, heard, caller, login, history>>

LoginPc == {"idle", "closing", "released", "create", "await", "prompted",
            "awaitVerify", "polling", "listen", "done", "failed"}

TypeOK ==
  /\ made \in 0 .. MaxClients
  /\ open \subseteq Clients
  /\ ended \subseteq Clients
  /\ pool \in Clients \cup {None}
  /\ pending \in Clients \cup {None}
  /\ creating \subseteq Clients
  /\ heard \subseteq Clients
  /\ caller \in [Callers -> [pc : {"idle", "await"}, client : Clients \cup {None}]]
  /\ login \in [Logins -> [pc : LoginPc, own : Clients \cup {None}, client : Clients \cup {None}]]
  /\ overlooked \in BOOLEAN
  /\ superseded \subseteq Logins

Init ==
  /\ made = 0
  /\ open = {}
  /\ ended = {}
  /\ pool = None
  /\ pending = None
  /\ creating = {}
  /\ heard = {}
  /\ caller = [p \in Callers |-> [pc |-> "idle", client |-> None]]
  /\ login = [l \in Logins |-> [pc |-> "idle", own |-> None, client |-> None]]
  /\ overlooked = FALSE
  /\ superseded = {}

New == made + 1

Opens ==
  /\ made < MaxClients
  /\ made' = New
  /\ open' = open \cup {New}
  /\ UNCHANGED ended

\* The removal of login l waits for a client that has closed.
Ready(l) == login[l].pc = "closing" /\ login[l].client \notin open

\* Everybody who waited for a client to close resumes before a timer fires, Telegram
\* answers, or a request comes in or goes on after the database or Redis answered.
Resumed == ~\E l \in Logins : Ready(l)

-----------------------------------------------------------------------------
(* getOrCreateClient *)

\* Mutant: the map of pending creations is not asked.
FoundPool == pool

\* What getOrCreateClient finds: the pool's client or a creation to wait for.
Found == IF pool # None THEN pool ELSE pending

\* A new client of a caller that does not log in polls getMe first.
CreateAndPoll ==
  /\ Found = None
  /\ Opens
  /\ creating' = creating \cup {New}
  /\ pending' = New
  /\ UNCHANGED pool

\* Mutant: the client of a login is left to the pending map.
CreateUnpooled ==
  /\ Found = None
  /\ Opens
  /\ pending' = New
  /\ UNCHANGED <<pool, creating>>

\* The client of a login is in the pool at once.  The creation ends before its
\* promise is noted as pending, where it stays.
CreateForLogin ==
  /\ Found = None
  /\ Opens
  /\ pool' = New
  /\ pending' = New
  /\ UNCHANGED creating

\* Mutant: a creation whose pending entry was removed gives up silently.
CreationCancelled(c) ==
  /\ c \in creating
  /\ Resumed
  /\ pending = c
  /\ creating' = creating \ {c}
  /\ pool' = c
  /\ pending' = None
  /\ UNCHANGED <<made, open, ended, heard, caller, login, history>>

\* getMe answers, or thirty seconds have passed: the client is pooled either
\* way, over whichever client is there, and whichever creation is noted as
\* pending is struck off.
CreationEnds(c) ==
  /\ c \in creating
  /\ Resumed
  /\ creating' = creating \ {c}
  /\ pool' = c
  /\ pending' = None
  /\ UNCHANGED <<made, open, ended, heard, caller, login, history>>

Call(p) ==
  /\ caller[p].pc = "idle"
  /\ Resumed
  /\ IF Found # None
       THEN caller' = [caller EXCEPT ![p] = [pc |-> "await", client |-> Found]] /\ UNCHANGED clientVars
       ELSE CreateAndPoll /\ caller' = [caller EXCEPT ![p] = [pc |-> "await", client |-> New]]
  /\ UNCHANGED <<heard, login, history>>

\* The caller goes on with the client.
Answered(p) ==
  /\ caller[p].pc = "await"
  /\ caller[p].client \notin creating
  /\ caller' = [caller EXCEPT ![p] = [pc |-> "idle", client |-> None]]
  /\ UNCHANGED <<clientVars, heard, login, history>>

\* setupListenerForUser: whichever client is pooled gets a handler.
Listen == heard' = heard \cup ({pool} \ {None})

\* initializeAllClients and setupListenersForExistingClients.
ListenAtStart ==
  /\ pool # None
  /\ \A l \in Logins : login[l].pc = "idle"
  /\ Listen
  /\ UNCHANGED <<clientVars, caller, login, history>>

-----------------------------------------------------------------------------
(* connectTelegram *)

Begun == {l \in Logins : login[l].pc \notin {"idle", "done", "failed"}}

\* removeClient: the pending entry goes at once, though the creation goes on, and
\* the pool's after the client has closed; without one there is nothing to wait for.
Remove(l) ==
  /\ login[l].pc = "idle"
  /\ Resumed
  /\ pending' = None
  /\ login' = [login EXCEPT ![l].pc = IF pool = None THEN "create" ELSE "closing", ![l].client = pool]
  /\ overlooked' = (overlooked \/ creating # {})
  /\ superseded' = superseded \cup Begun
  /\ UNCHANGED <<made, open, ended, pool, creating, heard, caller>>

ClientCloses(c) ==
  /\ c \in open
  /\ \E l \in Logins : login[l].pc = "closing" /\ login[l].client = c
  /\ open' = open \ {c}
  /\ UNCHANGED <<made, ended, pool, pending, creating, heard, caller, login, history>>

\* TDLib closes a client by itself once its session was ended elsewhere or its
\* authorisation failed.  Nothing in the program hears of it: the pool keeps the
\* client, a creation polls it to the end.
ClosesItself(c) ==
  /\ c \in open
  /\ Cardinality(ended) < MaxEnded
  /\ open' = open \ {c}
  /\ ended' = ended \cup {c}
  /\ UNCHANGED <<made, pool, pending, creating, heard, caller, login, history>>

\* Whatever client is pooled by then is taken out.
RemoveFromPool(l) ==
  /\ Ready(l)
  /\ pool' = None
  /\ login' = [login EXCEPT ![l].pc = "released"]
  /\ UNCHANGED <<made, open, ended, pending, creating, heard, caller, history>>

\* A second later, when the awaits that were ready have long been resumed.
ReleaseEnds(l) ==
  /\ login[l].pc = "released"
  /\ Resumed
  /\ login' = [login EXCEPT ![l].pc = "create"]
  /\ UNCHANGED <<clientVars, heard, caller, history>>

Prompt(l, c) == login' = [login EXCEPT ![l] = [pc |-> "prompted", own |-> c, client |-> c]]

\* The login runs in the background on the client that is there, the one being
\* created, or a new one.
StartLogin(l) ==
  /\ login[l].pc = "create"
  /\ Resumed
  /\ IF Found = None THEN CreateForLogin /\ Prompt(l, New)
     ELSE /\ login' = [login EXCEPT ![l].pc = "await", ![l].client = Found]
          /\ UNCHANGED clientVars
  /\ UNCHANGED <<heard, caller, history>>

LoginAnswered(l) ==
  /\ login[l].pc = "await"
  /\ login[l].client \notin creating
  /\ Prompt(l, login[l].client)
  /\ UNCHANGED <<clientVars, heard, caller, history>>

-----------------------------------------------------------------------------
(* verifyTelegram *)

\* The code goes to the login's own client, but getMe is asked of whichever
\* client getOrCreateClient has by now.
Verify(l) ==
  /\ login[l].pc = "prompted"
  /\ Resumed
  /\ IF Found # None
       THEN login' = [login EXCEPT ![l].pc = "awaitVerify", ![l].client = Found] /\ UNCHANGED clientVars
       ELSE CreateAndPoll /\ login' = [login EXCEPT ![l].pc = "awaitVerify", ![l].client = New]
  /\ UNCHANGED <<heard, caller, history>>

VerifyAnswered(l) ==
  /\ login[l].pc = "awaitVerify"
  /\ login[l].client \notin creating
  /\ login' = [login EXCEPT ![l].pc = "polling"]
  /\ UNCHANGED <<clientVars, heard, caller, history>>

\* pollTelegramAuthCompletion, the session and the account are saved,
Verified(l) ==
  /\ login[l].pc = "polling"
  /\ login[l].client \in open
  /\ login' = [login EXCEPT ![l].pc = "listen"]
  /\ UNCHANGED <<clientVars, heard, caller, history>>

\* or no getMe is answered in time.
VerifyFails(l) ==
  /\ login[l].pc = "polling"
  /\ login' = [login EXCEPT ![l].pc = "failed"]
  /\ UNCHANGED <<clientVars, heard, caller, history>>

ListenAfterLogin(l) ==
  /\ login[l].pc = "listen"
  /\ Listen
  /\ login' = [login EXCEPT ![l].pc = "done"]
  /\ UNCHANGED <<clientVars, caller, history>>

-----------------------------------------------------------------------------
LoginStep(l) ==
  \/ Remove(l) \/ RemoveFromPool(l) \/ ReleaseEnds(l) \/ StartLogin(l) \/ LoginAnswered(l)
  \/ Verify(l) \/ VerifyAnswered(l) \/ Verified(l) \/ VerifyFails(l) \/ ListenAfterLogin(l)

Next ==
  \/ \E c \in Clients : CreationEnds(c) \/ ClientCloses(c) \/ ClosesItself(c)
  \/ \E p \in Callers : Call(p) \/ Answered(p)
  \/ ListenAtStart
  \/ \E l \in Logins : LoginStep(l)

Spec == Init /\ [][Next]_vars

\* The polling of a creation is bounded by a timer and a settled promise resumes
\* who waits for it.
FairSpec ==
  /\ Spec
  /\ \A c \in Clients : WF_vars(CreationEnds(c))
  /\ \A p \in Callers : WF_vars(Answered(p))
  /\ \A l \in Logins : WF_vars(RemoveFromPool(l))

-----------------------------------------------------------------------------
(* Properties *)

\* However sends, read receipts, logins and verifications interleave, one client
\* at a time has the directory's files, no open client is lost from the pool and
\* the pending map, and a client the program closed is in the pool only while the
\* removal that closed it is about to take it out; unless a login removed the client
\* while another was being created.  A client that closed by itself stays in the
\* pool until a login removes it: the pool never asks whether its client is open.
OneClient ==
  \/ overlooked
  \/ /\ \A c, d \in open : c = d
     /\ open \subseteq {pool, pending}
     /\ \/ pool \in open \cup ended \cup {None}
        \/ \E l \in Logins : Ready(l) /\ login[l].client = pool

\* A login is verified on the client the user was prompted for, which no other
\* login shares and whose updates are handled in the end, unless another login
\* began meanwhile or a removal overlooked a creation.
OwnClient(l) ==
  /\ login[l].pc \in {"awaitVerify", "polling", "listen", "done"} => login[l].client = login[l].own
  /\ login[l].pc = "done" => login[l].own \in heard
  /\ login[l].pc \in {"prompted", "polling"} =>
       \A other \in Logins \ {l} : login[other].own = login[l].own => other \in superseded
VerifiesItsOwn == \A l \in Logins : overlooked \/ l \in superseded \/ OwnClient(l)

\* Whoever waits for a creation is answered, whatever became of the maps' entries.
CallersAnswered == \A p \in Callers : caller[p].pc = "await" ~> caller[p].pc = "idle"
=============================================================================
