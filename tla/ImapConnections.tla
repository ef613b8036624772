---------------------------- MODULE ImapConnections ----------------------------
(***************************************************************************)
(* The EmailConnectionManager for one account: the map entry that holds    *)
(* its ImapFlow client, the connection being made, and the reconnection    *)
(* after a client closed.                                                  *)
(*                                                                         *)
(* The handler of a close finds the client by its account, so an old       *)
(* client that closes, or fails to reconnect, is charged to whatever       *)
(* client the map holds by then.  What runs between two awaits is one      *)
(* step.  ImapFlow is a library: a call of connect() ends in either way,    *)
(* on a client that was connected before too.                              *)
(***************************************************************************)
EXTENDS Naturals, FiniteSets

CONSTANTS
  Callers,      \* polls, reconciliations and replies that want a client
  MaxClients,   \* bound: clients made
  MaxAttempts,  \* imap.maxReconnectAttempts
  MaxTroubles   \* bound: clients that close, first connects that fail

ASSUME ConstantsAssumption ==
  /\ MaxClients \in Nat \ {0}
  /\ MaxAttempts \in Nat
  /\ MaxTroubles \in Nat

Clients == 1 .. MaxClients
None == 0

VARIABLES
  state,     \* each client: none, connecting for the first time, open or closed
  made,      \* the clients made so far
  entry,     \* connections.get(accountId): the client of the managed connection
  attempts,  \* reconnectAttempts of each managed connection
  pending,   \* pendingConnections.get(accountId): the client it will answer with
  timer,     \* setTimeout callbacks that will look at a client
  retrying,  \* those inside connect()
  waiting,   \* callers that await the pending connection
  evicted,   \* history: clients taken out of the map for too many attempts
  revived,   \* history: clients reconnected outside the map
  troubles

conns == <<entry, attempts, pending>>
retries == <<timer, retrying>>
vars == <<state, made, conns, retries, waiting, evicted, revived, troubles>>

TypeOK ==
  /\ state \in [Clients -> {"none", "connecting", "open", "closed"}]
  /\ made \in 0 .. MaxClients
  /\ entry \in Clients \cup {None}
  /\ attempts \in [Clients -> 0 .. MaxAttempts]
  /\ pending \in Clients \cup {None}
  /\ timer \in [Clients -> Nat]
  /\ retrying \in [Clients -> Nat]
  /\ waiting \subseteq Callers
  /\ evicted \subseteq Clients
  /\ revived \subseteq Clients
  /\ troubles \in 0 .. MaxTroubles

Init ==
  /\ state = [c \in Clients |-> "none"]
  /\ made = 0
  /\ entry = None
  /\ attempts = [c \in Clients |-> 0]
  /\ pending = None
  /\ timer = [c \in Clients |-> 0]
  /\ retrying = [c \in Clients |-> 0]
  /\ waiting = {}
  /\ evicted = {}
  /\ revived = {}
  /\ troubles = 0

Trouble == troubles < MaxTroubles /\ troubles' = troubles + 1

-----------------------------------------------------------------------------
(* getOrCreateConnection, createConnection *)

\* A usable client is handed out at once.
Reusable == entry # None /\ state[entry] = "open" /\ pending # entry

\* Mutant: the client of the map is not looked at.
GetAnew(u) ==
  /\ u \notin waiting
  /\ waiting' = waiting \cup {u}
  /\ IF pending # None
       THEN UNCHANGED <<state, made, entry, pending>>
       ELSE /\ made < MaxClients
            /\ made' = made + 1
            /\ state' = [state EXCEPT ![made'] = "connecting"]
            /\ entry' = made'
            /\ pending' = made'
  /\ UNCHANGED <<attempts, retries, evicted, revived, troubles>>

\* Otherwise a client that is not usable leaves the map, and the caller awaits the
\* connection being made or makes one.
Get(u) ==
  /\ u \notin waiting
  /\ ~Reusable
  /\ waiting' = waiting \cup {u}
  /\ IF pending # None
       THEN /\ entry' = IF entry = pending THEN entry ELSE None
            /\ UNCHANGED <<state, made, pending>>
       ELSE /\ made < MaxClients
            /\ made' = made + 1
            /\ state' = [state EXCEPT ![made'] = "connecting"]
            /\ entry' = made'
            /\ pending' = made'
  /\ UNCHANGED <<attempts, retries, evicted, revived, troubles>>

Connected ==
  /\ pending # None
  /\ state' = [state EXCEPT ![pending] = "open"]
  /\ attempts' = [attempts EXCEPT ![pending] = 0]
  /\ pending' = None
  /\ waiting' = {}
  /\ UNCHANGED <<made, entry, retries, evicted, revived, troubles>>

\* Mutant: those who joined are not told.
ConnectFailsUntold ==
  /\ pending # None
  /\ Trouble
  /\ state' = [state EXCEPT ![pending] = "closed"]
  /\ entry' = None
  /\ pending' = None
  /\ UNCHANGED <<made, attempts, retries, waiting, evicted, revived>>

\* The close of the client may be heard before the failure, while it is in the map.
ConnectFails ==
  /\ pending # None
  /\ Trouble
  /\ state' = [state EXCEPT ![pending] = "closed"]
  /\ entry' = None
  /\ pending' = None
  /\ waiting' = {}
  /\ \/ UNCHANGED timer
     \/ /\ entry # None /\ attempts[entry] < MaxAttempts
        /\ timer' = [timer EXCEPT ![entry] = @ + 1]
  /\ UNCHANGED <<made, attempts, retrying, evicted, revived>>

-----------------------------------------------------------------------------
(* handleDisconnection, and the timer it sets *)

Disconnection ==
  CASE entry = None -> UNCHANGED <<entry, attempts, timer, evicted>>
    [] entry # None /\ attempts[entry] >= MaxAttempts ->
         /\ entry' = None
         /\ evicted' = evicted \cup {entry}
         /\ UNCHANGED <<attempts, timer>>
    [] OTHER ->
         /\ attempts' = [attempts EXCEPT ![entry] = @ + 1]
         /\ timer' = [timer EXCEPT ![entry] = @ + 1]
         /\ UNCHANGED <<entry, evicted>>

\* The server, the network or an idle timeout ends a connection.
Closes(c) ==
  /\ state[c] = "open"
  /\ Trouble
  /\ state' = [state EXCEPT ![c] = "closed"]
  /\ Disconnection
  /\ UNCHANGED <<made, pending, retrying, waiting, revived>>

TimerFires(c) ==
  /\ timer[c] > 0
  /\ timer' = [timer EXCEPT ![c] = @ - 1]
  /\ retrying' = IF state[c] = "open" THEN retrying ELSE [retrying EXCEPT ![c] = @ + 1]
  /\ UNCHANGED <<state, made, conns, waiting, evicted, revived, troubles>>

RetrySucceeds(c) ==
  /\ retrying[c] > 0
  /\ state[c] # "connecting"
  /\ state' = [state EXCEPT ![c] = "open"]
  /\ attempts' = [attempts EXCEPT ![c] = 0]
  /\ retrying' = [retrying EXCEPT ![c] = @ - 1]
  /\ revived' = IF c = entry THEN revived ELSE revived \cup {c}
  /\ UNCHANGED <<made, entry, pending, timer, waiting, evicted, troubles>>

\* Mutant: a failed retry is the last.
RetryFailsSilently(c) ==
  /\ retrying[c] > 0
  /\ retrying' = [retrying EXCEPT ![c] = @ - 1]
  /\ UNCHANGED <<state, made, conns, timer, waiting, evicted, revived, troubles>>

RetryFails(c) ==
  /\ retrying[c] > 0
  /\ retrying' = [retrying EXCEPT ![c] = @ - 1]
  /\ Disconnection
  /\ UNCHANGED <<state, made, pending, waiting, revived, troubles>>

Next ==
  \/ \E u \in Callers : Get(u)
  \/ Connected \/ ConnectFails
  \/ \E c \in Clients : Closes(c) \/ TimerFires(c) \/ RetrySucceeds(c) \/ RetryFails(c)

Spec == Init /\ [][Next]_vars

\* The connect() of a client ends, by the timeouts of the library if need be.
FairSpec == Spec /\ WF_vars(Connected \/ ConnectFails)

-----------------------------------------------------------------------------
(* Properties *)

\* An open connection is the one the manager hands out, unless the retries that are
\* charged to the client in the map pushed it out, or a retry opened a client that
\* had left the map: nothing else leaves a connection open that nobody can reach.
ReachableUnlessRetried ==
  \A c \in Clients : state[c] = "open" => (c = entry \/ c \in evicted \cup revived)

\* While the map holds a client that closed, a retry of that client is to come, so
\* it is opened again or leaves the map, whichever closes and failures interleave.
ClosedIsRetried ==
  entry # None /\ state[entry] = "closed" => timer[entry] + retrying[entry] > 0

\* Whoever waits for the connection being made is answered, be it with a failure.
CallersServed == \A u \in Callers : u \in waiting ~> u \notin waiting
=============================================================================
