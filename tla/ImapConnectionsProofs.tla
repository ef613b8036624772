------------------------- MODULE ImapConnectionsProofs -------------------------
(* Proofs about ImapConnections for any callers and any number of clients,  *)
(* attempts and troubles.                                                   *)
EXTENDS ImapConnections, TLAPS

\* The connection being made is the one of the map, or was pushed out of it.
PendingManaged ==
  pending # None => /\ entry \in {pending, None}
                    /\ entry = pending \/ pending \in evicted

\* The inductive invariant.
ConnectionsSound ==
  /\ TypeOK
  /\ PendingManaged
  /\ ReachableUnlessRetried
  /\ ClosedIsRetried

LEMMA ConnectionsSoundInit == Init => ConnectionsSound
BY ConstantsAssumption
   DEF Init, ConnectionsSound, TypeOK, PendingManaged, ReachableUnlessRetried, ClosedIsRetried,
       None, Clients

\* A disconnection either takes the client out of the map for good or counts it
\* and sets its timer; it is charged to no other client.
LEMMA DisconnectionFacts ==
  ASSUME TypeOK, Disconnection
  PROVE  /\ entry' \in Clients \cup {None}
         /\ attempts' \in [Clients -> 0 .. MaxAttempts]
         /\ timer' \in [Clients -> Nat]
         /\ evicted' \in SUBSET Clients
         /\ evicted \subseteq evicted'
         /\ \A c \in Clients : timer'[c] >= timer[c]
         /\ entry' = entry \/ (entry' = None /\ entry \in evicted')
         /\ entry' # None => timer'[entry'] > 0
<1>. USE ConstantsAssumption DEF TypeOK
<1>n. None \notin Clients
  BY DEF None, Clients
<1>1. CASE entry = None
  BY <1>1 DEF Disconnection
<1>2. CASE entry # None /\ attempts[entry] >= MaxAttempts
  BY <1>2, <1>n DEF Disconnection
<1>3. CASE entry # None /\ ~(attempts[entry] >= MaxAttempts)
  <2>1. entry \in Clients
    BY <1>3
  <2>2. /\ attempts' = [attempts EXCEPT ![entry] = @ + 1]
        /\ timer' = [timer EXCEPT ![entry] = @ + 1]
        /\ UNCHANGED <<entry, evicted>>
    BY <1>3 DEF Disconnection
  <2>3. attempts[entry] + 1 \in 0 .. MaxAttempts
    BY <1>3, <2>1
  <2>. QED BY <2>1, <2>2, <2>3
<1>. QED BY <1>1, <1>2, <1>3

LEMMA ConnectionsSoundStep == ConnectionsSound /\ [Next]_vars => ConnectionsSound'
<1>. SUFFICES ASSUME ConnectionsSound, [Next]_vars PROVE ConnectionsSound'
  OBVIOUS
<1>. USE ConstantsAssumption DEF ConnectionsSound
<1>n. None \notin Clients
  BY DEF None, Clients
<1>1. ASSUME NEW u \in Callers, Get(u) PROVE ConnectionsSound'
  <2>1. CASE pending # None
    <3>1. TypeOK'
      BY <1>1, <2>1 DEF Get, TypeOK, retries
    <3>2. PendingManaged'
      BY <1>1, <2>1 DEF Get, PendingManaged
    <3>3. ReachableUnlessRetried'
      BY <1>1, <1>n, <2>1 DEF Get, Reusable, PendingManaged, ReachableUnlessRetried
    <3>4. ClosedIsRetried'
      BY <1>1, <2>1 DEF Get, ClosedIsRetried, retries
    <3>. QED BY <3>1, <3>2, <3>3, <3>4
  <2>2. CASE pending = None
    <3>. DEFINE n == made + 1
    <3>1. /\ n \in Clients /\ made' = n /\ entry' = n /\ pending' = n
          /\ state' = [state EXCEPT ![n] = "connecting"]
          /\ UNCHANGED <<attempts, timer, retrying, evicted, revived, troubles>>
      BY <1>1, <2>2 DEF Get, TypeOK, Clients, retries
    <3>2. state'[n] = "connecting" /\ \A c \in Clients : c # n => state'[c] = state[c]
      BY <3>1 DEF TypeOK
    <3>3. entry = None \/ state[entry] # "open"
      BY <1>1, <2>2 DEF Get, Reusable
    <3>4. TypeOK'
      <4>1. waiting' \in SUBSET Callers
        BY <1>1 DEF Get, TypeOK
      <4>2. state' \in [Clients -> {"none", "connecting", "open", "closed"}]
        BY <3>1 DEF TypeOK
      <4>3. made' \in 0 .. MaxClients
        BY <3>1 DEF Clients
      <4>. QED BY <3>1, <4>1, <4>2, <4>3 DEF TypeOK
    <3>5. PendingManaged'
      BY <3>1 DEF PendingManaged
    <3>6. ReachableUnlessRetried'
      BY <1>n, <3>1, <3>2, <3>3 DEF ReachableUnlessRetried
    <3>7. ClosedIsRetried'
      BY <3>1, <3>2 DEF ClosedIsRetried
    <3>. QED BY <3>4, <3>5, <3>6, <3>7
  <2>. QED BY <2>1, <2>2
<1>2. CASE Connected
  <2>1. pending \in Clients /\ pending' = None
    BY <1>2, <1>n DEF Connected, TypeOK
  <2>2. TypeOK'
    BY <1>2, <2>1 DEF Connected, TypeOK, retries
  <2>3. ReachableUnlessRetried'
    BY <1>2, <1>n, <2>1 DEF Connected, TypeOK, PendingManaged, ReachableUnlessRetried
  <2>4. ClosedIsRetried'
    BY <1>2, <1>n, <2>1 DEF Connected, TypeOK, ClosedIsRetried, retries
  <2>. QED BY <2>1, <2>2, <2>3, <2>4 DEF PendingManaged
<1>3. CASE ConnectFails
  <2>1. pending \in Clients /\ pending' = None /\ entry' = None
    BY <1>3, <1>n DEF ConnectFails, TypeOK
  <2>2. timer' \in [Clients -> Nat]
    BY <1>3, <1>n DEF ConnectFails, TypeOK
  <2>3. troubles' \in 0 .. MaxTroubles
    BY <1>3 DEF ConnectFails, Trouble, TypeOK
  <2>4. TypeOK'
    BY <1>3, <2>1, <2>2, <2>3 DEF ConnectFails, TypeOK
  <2>5. ReachableUnlessRetried'
    BY <1>3, <1>n, <2>1 DEF ConnectFails, TypeOK, PendingManaged, ReachableUnlessRetried
  <2>. QED BY <2>1, <2>4, <2>5 DEF PendingManaged, ClosedIsRetried
<1>4. ASSUME NEW c \in Clients, Closes(c) PROVE ConnectionsSound'
  <2>1. Disconnection
    BY <1>4 DEF Closes
  <2>2. TypeOK'
    BY <1>4, <2>1, DisconnectionFacts DEF Closes, Trouble, TypeOK
  <2>3. PendingManaged'
    BY <1>4, <2>1, DisconnectionFacts DEF Closes, PendingManaged
  <2>4. ReachableUnlessRetried'
    BY <1>4, <1>n, <2>1, DisconnectionFacts DEF Closes, TypeOK, ReachableUnlessRetried
  <2>5. ClosedIsRetried'
    <3>1. entry' # None => timer'[entry'] > 0 /\ timer'[entry'] \in Nat /\ retrying'[entry'] \in Nat
      BY <1>4, <2>1, <2>2, DisconnectionFacts DEF TypeOK
    <3>. QED BY <3>1 DEF ClosedIsRetried
  <2>. QED BY <2>2, <2>3, <2>4, <2>5
<1>5. ASSUME NEW c \in Clients, TimerFires(c) PROVE ConnectionsSound'
  <2>1. UNCHANGED <<state, made, entry, attempts, pending, waiting, evicted, revived, troubles>>
    BY <1>5 DEF TimerFires, conns
  <2>2. /\ timer' = [timer EXCEPT ![c] = @ - 1] /\ timer[c] > 0
        /\ retrying' = IF state[c] = "open" THEN retrying ELSE [retrying EXCEPT ![c] = @ + 1]
    BY <1>5 DEF TimerFires
  <2>3. TypeOK'
    BY <2>1, <2>2 DEF TypeOK
  <2>4. PendingManaged' /\ ReachableUnlessRetried'
    BY <2>1 DEF PendingManaged, ReachableUnlessRetried
  <2>5. ClosedIsRetried'
    <3>1. \A d \in Clients : d # c => timer'[d] = timer[d] /\ retrying'[d] = retrying[d]
      BY <2>2 DEF TypeOK
    <3>2. state[c] # "open" => timer'[c] + retrying'[c] = timer[c] + retrying[c]
      BY <2>2 DEF TypeOK
    <3>. QED BY <1>n, <2>1, <3>1, <3>2 DEF TypeOK, ClosedIsRetried
  <2>. QED BY <2>3, <2>4, <2>5
<1>6. ASSUME NEW c \in Clients, RetrySucceeds(c) PROVE ConnectionsSound'
  <2>1. UNCHANGED <<made, entry, pending, timer, waiting, evicted, troubles>>
    BY <1>6 DEF RetrySucceeds
  <2>2. /\ state' = [state EXCEPT ![c] = "open"]
        /\ attempts' = [attempts EXCEPT ![c] = 0]
        /\ retrying[c] > 0 /\ retrying' = [retrying EXCEPT ![c] = @ - 1]
        /\ revived' = IF c = entry THEN revived ELSE revived \cup {c}
    BY <1>6 DEF RetrySucceeds
  <2>3. TypeOK'
    BY <2>1, <2>2 DEF TypeOK
  <2>4. PendingManaged' /\ ReachableUnlessRetried'
    BY <2>1, <2>2 DEF TypeOK, PendingManaged, ReachableUnlessRetried
  <2>5. ClosedIsRetried'
    BY <1>n, <2>1, <2>2 DEF TypeOK, ClosedIsRetried
  <2>. QED BY <2>3, <2>4, <2>5
<1>7. ASSUME NEW c \in Clients, RetryFails(c) PROVE ConnectionsSound'
  <2>1. Disconnection
    BY <1>7 DEF RetryFails
  <2>2. retrying' \in [Clients -> Nat]
    BY <1>7 DEF RetryFails, TypeOK
  <2>3. TypeOK'
    BY <1>7, <2>1, <2>2, DisconnectionFacts DEF RetryFails, TypeOK
  <2>4. PendingManaged' /\ ReachableUnlessRetried'
    BY <1>7, <2>1, DisconnectionFacts DEF RetryFails, PendingManaged, ReachableUnlessRetried
  <2>5. ClosedIsRetried'
    <3>1. entry' # None => timer'[entry'] > 0 /\ timer'[entry'] \in Nat /\ retrying'[entry'] \in Nat
      BY <2>1, <2>3, DisconnectionFacts DEF TypeOK
    <3>. QED BY <3>1 DEF ClosedIsRetried
  <2>. QED BY <2>3, <2>4, <2>5
<1>8. CASE UNCHANGED vars
  BY <1>8 DEF vars, conns, retries, TypeOK, PendingManaged, ReachableUnlessRetried, ClosedIsRetried
<1>. QED
  BY <1>1, <1>2, <1>3, <1>4, <1>5, <1>6, <1>7, <1>8 DEF Next

\* The inductive invariant holds throughout.
THEOREM ConnectionsAlwaysSound == Spec => []ConnectionsSound
BY ConnectionsSoundInit, ConnectionsSoundStep, PTL DEF Spec

\* An open connection of an account is the one its callers get, or the
\* reconnection pushed it out of the map or opened it outside.
THEOREM AlwaysReachableUnlessRetried == Spec => []ReachableUnlessRetried
<1>1. ConnectionsSound => ReachableUnlessRetried
  BY DEF ConnectionsSound
<1>. QED BY <1>1, ConnectionsAlwaysSound, PTL

\* A closed client stays in the map only as long as a retry is to come.
THEOREM ClosedAlwaysRetried == Spec => []ClosedIsRetried
<1>1. ConnectionsSound => ClosedIsRetried
  BY DEF ConnectionsSound
<1>. QED BY <1>1, ConnectionsAlwaysSound, PTL
=============================================================================
