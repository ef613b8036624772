-------------------------- MODULE TelegramPoolProofs --------------------------
(* Proofs about TelegramPool, for any callers, logins and number of clients, and *)
(* about TelegramLogin, for any requests and number of prompts.                *)
EXTENDS TelegramPool, TelegramLogin, TLAPS

CallerRecord == [pc : {"idle", "await"}, client : Clients \cup {None}]
LoginRecord == [pc : LoginPc, own : Clients \cup {None}, client : Clients \cup {None}]

Closing(l) == login[l].pc = "closing"

\* Clients are numbered in the order they are made.
Numbered ==
  /\ pool <= made
  /\ pending <= made
  /\ \A c \in creating : c <= made
  /\ \A l \in Logins : login[l].own <= made /\ login[l].client <= made

\* A creation that polls is the pending one and no other client is open; otherwise
\* the pool has the open one.  While a removal waits, its client is in the pool or closed
\* and gone, and nothing is pending.
PoolSound ==
  /\ creating \subseteq {pending} \cap (open \cup ended)
  /\ open \subseteq {pool, pending}
  /\ pool # None => creating = {} /\ pending \in {None, pool}
  /\ pool = None => pending \in creating \cup {None}
  /\ pool \in open \cup ended \cup {None} \/ \E l \in Logins : Ready(l) /\ login[l].client = pool
  /\ \A l \in Logins : Closing(l) =>
       /\ pending = None
       /\ login[l].client = pool \/ (pool = None /\ login[l].client \notin open)

\* A login no other began in the middle of.
Alone(l) == l \notin superseded

\* Between its removal and its prompt such a login shares what it will find with
\* superseded logins only; from the prompt on its own client is the pool's.
LoginSound(l) ==
  LET pc == login[l].pc
      client == login[l].client
      own == login[l].own IN
  /\ l \in Begun => \A other \in Begun \ {l} : other \in superseded
  /\ pc \in {"create", "await", "prompted", "awaitVerify", "polling", "listen"} =>
       \A other \in Logins : ~Closing(other)
  /\ pc = "released" /\ pool # None => \A other \in Logins : ~Closing(other)
  /\ pc \in {"released", "create", "await"} =>
       \A other \in Logins \ {l} :
         login[other].own \in {pool, pending} /\ login[other].own # None => other \in superseded
  /\ pc = "await" => client = Found /\ client # None
  /\ pc \in {"prompted", "awaitVerify", "polling", "listen"} =>
       /\ own = pool /\ pool # None
       /\ \A other \in Logins \ {l} : login[other].own = own => other \in superseded
  /\ pc \in {"awaitVerify", "polling", "listen", "done"} => client = own
  /\ pc = "done" => own \in heard

\* The inductive invariant.
ClientsSound ==
  /\ TypeOK
  /\ Numbered
  /\ overlooked \/ PoolSound
  /\ overlooked \/ \A l \in Logins : Alone(l) => LoginSound(l)

LEMMA ClientsSoundInit == Init => ClientsSound
<1>. SUFFICES ASSUME Init PROVE ClientsSound
  OBVIOUS
<1>. USE ConstantsAssumption DEF Init, None
<1>1. TypeOK
  <2>1. caller \in [Callers -> CallerRecord] /\ login \in [Logins -> LoginRecord]
    BY DEF CallerRecord, LoginRecord, LoginPc
  <2>2. made \in 0 .. MaxClients
    OBVIOUS
  <2>. QED BY <2>1, <2>2 DEF TypeOK, CallerRecord, LoginRecord
<1>2. Numbered /\ PoolSound
  BY DEF Numbered, PoolSound, Closing
<1>3. \A l \in Logins : LoginSound(l)
  BY DEF LoginSound, Begun
<1>. QED BY <1>1, <1>2, <1>3 DEF ClientsSound

\* The record of login l when its step changes pc and client.
Moved(l, pc, c) == [login[l] EXCEPT !.pc = pc, !.client = c]

LEMMA MovedFacts ==
  ASSUME TypeOK, NEW l \in Logins, NEW pc \in LoginPc, NEW c \in Clients \cup {None}
  PROVE  /\ Moved(l, pc, c) \in LoginRecord
         /\ Moved(l, pc, c).pc = pc
         /\ Moved(l, pc, c).own = login[l].own
         /\ Moved(l, pc, c).client = c
BY DEF TypeOK, Moved, LoginRecord

LEMMA TypeStep == ClientsSound /\ [Next]_vars => TypeOK' /\ Numbered'
<1>. SUFFICES ASSUME ClientsSound, [Next]_vars PROVE TypeOK' /\ Numbered'
  OBVIOUS
<1>. USE ConstantsAssumption
<1>t. /\ TypeOK /\ Numbered
      /\ caller \in [Callers -> CallerRecord] /\ login \in [Logins -> LoginRecord]
  BY DEF ClientsSound, TypeOK, CallerRecord, LoginRecord
<1>n. /\ made \in Nat /\ None \in Nat /\ None <= made
      /\ pool \in Nat /\ pending \in Nat /\ \A l \in Logins : login[l].own \in Nat
  BY <1>t DEF TypeOK, Clients, None, LoginRecord
<1>o. Opens => /\ New \in Clients /\ made' \in 0 .. MaxClients /\ made' = made + 1
               /\ open' \subseteq Clients /\ ended' \subseteq Clients
  BY <1>t DEF Opens, New, Clients, TypeOK
<1>f. Found \in Clients \cup {None} /\ Found <= made
  BY <1>t DEF Found, TypeOK, Numbered
<1>l. ASSUME NEW l \in Logins, NEW r \in LoginRecord, login' = [login EXCEPT ![l] = r],
             r.own <= made', r.client <= made', made' \in Nat, made <= made'
      PROVE  /\ login' \in [Logins -> LoginRecord]
             /\ \A k \in Logins : login'[k].own <= made' /\ login'[k].client <= made'
  <2>1. \A k \in Logins : login[k].own \in Nat /\ login[k].client \in Nat
    BY <1>t DEF LoginRecord, Clients, None
  <2>2. \A k \in Logins : login[k].own <= made' /\ login[k].client <= made'
    BY <1>l, <1>n, <1>t, <2>1 DEF Numbered
  <2>. QED BY <1>l, <1>t, <2>2
<1>s. ASSUME NEW l \in Logins, NEW pc \in LoginPc, NEW c \in Clients \cup {None}, c <= made,
             login' = [login EXCEPT ![l] = Moved(l, pc, c)], made' = made
      PROVE  /\ login' \in [Logins -> LoginRecord]
             /\ \A k \in Logins : login'[k].own <= made' /\ login'[k].client <= made'
  <2>1. /\ Moved(l, pc, c) \in LoginRecord /\ Moved(l, pc, c).own = login[l].own
        /\ Moved(l, pc, c).client = c
    BY <1>t, MovedFacts
  <2>. QED BY <1>s, <1>t, <2>1 DEF Numbered
<1>1. ASSUME NEW c \in Clients, CreationEnds(c) PROVE TypeOK' /\ Numbered'
  BY <1>1, <1>n, <1>t DEF CreationEnds, TypeOK, Numbered, history, None
<1>2. ASSUME NEW c \in Clients, ClientCloses(c) PROVE TypeOK' /\ Numbered'
  BY <1>2, <1>t DEF ClientCloses, TypeOK, Numbered, history
<1>15. ASSUME NEW c \in Clients, ClosesItself(c) PROVE TypeOK' /\ Numbered'
  BY <1>15, <1>t DEF ClosesItself, TypeOK, Numbered, history
\* What creating a client does to the numbers.
<1>c. ASSUME Opens, pool' \in {pool, New}, pending' = New, creating' \subseteq creating \cup {New}
      PROVE  /\ made' \in 0 .. MaxClients /\ open' \subseteq Clients /\ ended' \subseteq Clients
             /\ pool' \in Clients \cup {None} /\ pending' \in Clients \cup {None}
             /\ creating' \subseteq Clients
             /\ pool' <= made' /\ pending' <= made' /\ \A c \in creating' : c <= made'
             /\ New \in Clients /\ New = made' /\ made' \in Nat /\ made <= made'
  <2>1. made' = made + 1 /\ New = made + 1
    BY <1>c DEF Opens, New
  <2>2. \A c \in creating : c \in Nat /\ c <= made
    BY <1>t DEF TypeOK, Numbered, Clients
  <2>. QED BY <1>c, <1>n, <1>o, <1>t, <2>1, <2>2 DEF TypeOK, Numbered
<1>3. ASSUME NEW p \in Callers, Call(p) PROVE TypeOK' /\ Numbered'
  <2>0. UNCHANGED <<heard, login, overlooked, superseded>>
    BY <1>3 DEF Call, history
  <2>1. CASE Found # None
    <3>1. /\ caller' = [caller EXCEPT ![p] = [pc |-> "await", client |-> Found]]
          /\ UNCHANGED <<made, open, ended, pool, pending, creating>>
      BY <1>3, <2>1 DEF Call, clientVars
    <3>2. [pc |-> "await", client |-> Found] \in CallerRecord
      BY <1>f DEF CallerRecord
    <3>. QED BY <1>t, <2>0, <3>1, <3>2 DEF TypeOK, Numbered, CallerRecord
  <2>2. CASE Found = None
    <3>1. /\ caller' = [caller EXCEPT ![p] = [pc |-> "await", client |-> New]]
          /\ Opens /\ creating' = creating \cup {New} /\ pending' = New /\ pool' = pool
      BY <1>3, <2>2 DEF Call, CreateAndPoll
    <3>2. [pc |-> "await", client |-> New] \in CallerRecord
      BY <1>o, <3>1 DEF CallerRecord
    <3>3. caller' \in [Callers -> CallerRecord]
      BY <1>t, <3>1, <3>2
    <3>4. \A l \in Logins : login'[l].own <= made' /\ login'[l].client <= made'
      <4>1. \A l \in Logins : login[l].own \in Nat /\ login[l].client \in Nat
        BY <1>t DEF LoginRecord, Clients, None
      <4>. QED BY <1>c, <1>n, <1>t, <2>0, <3>1, <4>1 DEF Numbered
    <3>. QED BY <1>c, <1>t, <2>0, <3>1, <3>3, <3>4 DEF TypeOK, Numbered, CallerRecord
  <2>. QED BY <2>1, <2>2
<1>4. ASSUME NEW p \in Callers, Answered(p) PROVE TypeOK' /\ Numbered'
  <2>1. [pc |-> "idle", client |-> None] \in CallerRecord
    BY DEF CallerRecord
  <2>2. caller' \in [Callers -> CallerRecord]
    BY <1>4, <1>t, <2>1 DEF Answered
  <2>. QED BY <1>4, <1>t, <2>2 DEF Answered, TypeOK, Numbered, CallerRecord, clientVars, history
<1>h. Listen => heard' \subseteq Clients
  BY <1>t DEF Listen, TypeOK
<1>5. CASE ListenAtStart
  BY <1>5, <1>h, <1>t DEF ListenAtStart, TypeOK, Numbered, clientVars, history
<1>q. ASSUME NEW l \in Logins, NEW pc \in LoginPc, NEW c \in Clients \cup {None}
      PROVE  /\ Moved(l, pc, c) \in LoginRecord
             /\ Moved(l, pc, c).own <= made /\ Moved(l, pc, c).own \in Nat
             /\ Moved(l, pc, c).client = c
  BY <1>n, <1>t, MovedFacts DEF Numbered
<1>v. /\ \A pc \in {"create", "closing", "released", "await", "awaitVerify", "polling", "listen", "done",
                    "failed"} : pc \in LoginPc
      /\ pool \in Clients \cup {None} /\ pool <= made
  BY <1>t DEF LoginPc, TypeOK, Numbered
<1>6. ASSUME NEW l \in Logins, Remove(l) PROVE TypeOK' /\ Numbered'
  <2>1. PICK pc \in {"create", "closing"} : login' = [login EXCEPT ![l] = Moved(l, pc, pool)]
    BY <1>6 DEF Remove, Moved
  <2>2. /\ pending' = None /\ overlooked' \in BOOLEAN /\ superseded' = superseded \cup Begun
        /\ UNCHANGED <<made, open, ended, pool, creating, heard, caller>>
    BY <1>6, <1>t DEF Remove, TypeOK
  <2>3. /\ login' \in [Logins -> LoginRecord]
        /\ \A k \in Logins : login'[k].own <= made' /\ login'[k].client <= made'
    BY <1>s, <1>v, <2>1, <2>2
  <2>4. superseded' \subseteq Logins
    BY <1>t, <2>2 DEF Begun, TypeOK
  <2>. QED BY <1>n, <1>t, <2>2, <2>3, <2>4 DEF TypeOK, Numbered, LoginRecord
\* Steps of a login that make no client and give it another pc.
<1>g. ASSUME NEW l \in Logins, NEW pc \in LoginPc, login' = [login EXCEPT ![l].pc = pc],
             pool' \in {pool, None}, heard' \subseteq Clients,
             UNCHANGED <<made, open, ended, pending, creating, caller, history>>
      PROVE  TypeOK' /\ Numbered'
  <2>1. /\ login' \in [Logins -> LoginRecord]
        /\ \A k \in Logins : login'[k].own = login[k].own /\ login'[k].client = login[k].client
    BY <1>g, <1>t DEF LoginRecord
  <2>2. \A k \in Logins : login'[k].own <= made' /\ login'[k].client <= made'
    BY <1>g, <1>t, <2>1 DEF Numbered
  <2>3. pool' \in Clients \cup {None} /\ pool' <= made'
    BY <1>g, <1>n, <1>v
  <2>. QED BY <1>g, <1>t, <2>1, <2>2, <2>3 DEF TypeOK, Numbered, LoginRecord, history
<1>7. ASSUME NEW l \in Logins, RemoveFromPool(l) PROVE TypeOK' /\ Numbered'
  BY <1>7, <1>g, <1>t DEF RemoveFromPool, LoginPc, TypeOK
<1>8. ASSUME NEW l \in Logins, ReleaseEnds(l) PROVE TypeOK' /\ Numbered'
  BY <1>8, <1>g, <1>t DEF ReleaseEnds, LoginPc, TypeOK, clientVars
<1>9. ASSUME NEW l \in Logins, StartLogin(l) PROVE TypeOK' /\ Numbered'
  <2>0. UNCHANGED <<heard, caller, overlooked, superseded>>
    BY <1>9 DEF StartLogin, history
  <2>1. CASE Found = None
    <3>. DEFINE r == [pc |-> "prompted", own |-> New, client |-> New]
    <3>1. /\ Opens /\ pool' = New /\ pending' = New /\ creating' = creating
          /\ login' = [login EXCEPT ![l] = r]
      BY <1>9, <2>1 DEF StartLogin, CreateForLogin, Prompt
    <3>2. r \in LoginRecord /\ r.own = New /\ r.client = New
      BY <1>o, <3>1 DEF LoginRecord, LoginPc
    <3>. HIDE DEF r
    <3>3. /\ login' \in [Logins -> LoginRecord]
          /\ \A k \in Logins : login'[k].own <= made' /\ login'[k].client <= made'
      BY <1>c, <1>l, <3>1, <3>2
    <3>. QED BY <1>c, <1>t, <2>0, <3>1, <3>3 DEF TypeOK, Numbered, LoginRecord
  <2>2. CASE Found # None
    <3>1. /\ login' = [login EXCEPT ![l] = Moved(l, "await", Found)]
          /\ UNCHANGED <<made, open, ended, pool, pending, creating>>
      BY <1>9, <2>2 DEF StartLogin, clientVars, Moved
    <3>2. /\ login' \in [Logins -> LoginRecord]
          /\ \A k \in Logins : login'[k].own <= made' /\ login'[k].client <= made'
      BY <1>f, <1>s, <1>v, <3>1
    <3>. QED BY <1>t, <2>0, <3>1, <3>2 DEF TypeOK, Numbered, LoginRecord
  <2>. QED BY <2>1, <2>2
<1>10. ASSUME NEW l \in Logins, LoginAnswered(l) PROVE TypeOK' /\ Numbered'
  <2>. DEFINE r == [pc |-> "prompted", own |-> login[l].client, client |-> login[l].client]
  <2>1. login' = [login EXCEPT ![l] = r] /\ UNCHANGED <<made, open, ended, pool, pending, creating, heard, caller, history>>
    BY <1>10 DEF LoginAnswered, Prompt, clientVars
  <2>2. r \in LoginRecord /\ r.own <= made /\ r.client <= made
    BY <1>t DEF LoginRecord, LoginPc, Numbered
  <2>. HIDE DEF r
  <2>. QED BY <1>l, <1>n, <1>t, <2>1, <2>2 DEF TypeOK, Numbered, LoginRecord, history
<1>11. ASSUME NEW l \in Logins, Verify(l) PROVE TypeOK' /\ Numbered'
  <2>0. UNCHANGED <<heard, caller, overlooked, superseded>>
    BY <1>11 DEF Verify, history
  <2>1. CASE Found = None
    <3>1. /\ Opens /\ creating' = creating \cup {New} /\ pending' = New /\ pool' = pool
          /\ login' = [login EXCEPT ![l] = Moved(l, "awaitVerify", New)]
      BY <1>11, <2>1 DEF Verify, CreateAndPoll, Moved
    <3>0. /\ Moved(l, "awaitVerify", New) \in LoginRecord
          /\ Moved(l, "awaitVerify", New).own <= made /\ Moved(l, "awaitVerify", New).own \in Nat
          /\ Moved(l, "awaitVerify", New).client = New
      BY <1>o, <1>q, <1>v, <3>1
    <3>2. Moved(l, "awaitVerify", New).own <= made'
      BY <1>n, <1>o, <3>0, <3>1
    <3>3. /\ login' \in [Logins -> LoginRecord]
          /\ \A k \in Logins : login'[k].own <= made' /\ login'[k].client <= made'
      BY <1>c, <1>l, <3>0, <3>1, <3>2
    <3>. QED BY <1>c, <1>t, <2>0, <3>1, <3>3 DEF TypeOK, Numbered, LoginRecord
  <2>2. CASE Found # None
    <3>1. /\ login' = [login EXCEPT ![l] = Moved(l, "awaitVerify", Found)]
          /\ UNCHANGED <<made, open, ended, pool, pending, creating>>
      BY <1>11, <2>2 DEF Verify, clientVars, Moved
    <3>2. /\ login' \in [Logins -> LoginRecord]
          /\ \A k \in Logins : login'[k].own <= made' /\ login'[k].client <= made'
      BY <1>f, <1>s, <1>v, <3>1
    <3>. QED BY <1>t, <2>0, <3>1, <3>2 DEF TypeOK, Numbered, LoginRecord
  <2>. QED BY <2>1, <2>2
<1>12. ASSUME NEW l \in Logins, VerifyAnswered(l) \/ Verified(l) \/ VerifyFails(l)
       PROVE  TypeOK' /\ Numbered'
  BY <1>12, <1>g, <1>t DEF VerifyAnswered, Verified, VerifyFails, LoginPc, TypeOK, clientVars
<1>13. ASSUME NEW l \in Logins, ListenAfterLogin(l) PROVE TypeOK' /\ Numbered'
  BY <1>13, <1>g, <1>h DEF ListenAfterLogin, LoginPc, clientVars
<1>14. CASE UNCHANGED vars
  BY <1>14, <1>t DEF vars, clientVars, history, TypeOK, Numbered
<1>. QED
  BY <1>1, <1>2, <1>3, <1>4, <1>5, <1>6, <1>7, <1>8, <1>9, <1>10, <1>11, <1>12, <1>13, <1>14, <1>15
     DEF Next, LoginStep

-----------------------------------------------------------------------------
(* The pool and the map of pending creations *)

\* With nothing to be found and everybody resumed there is no client at all.
LEMMA NothingFound ==
  ASSUME TypeOK, PoolSound, Resumed, pool = None
  PROVE  /\ \A l \in Logins : ~Closing(l)
         /\ pending = None => open = {} /\ creating = {}
<1>1. open \subseteq Clients /\ ended \subseteq Clients /\ None \notin Clients
  BY ConstantsAssumption DEF TypeOK, Clients, None
<1>2. ASSUME NEW l \in Logins, Closing(l) PROVE FALSE
  BY <1>1, <1>2 DEF PoolSound, Resumed, Ready, Closing
<1>. QED BY <1>1, <1>2 DEF PoolSound

\* Steps that leave the clients alone and the removals that wait.
LEMMA PoolKept ==
  ASSUME PoolSound, UNCHANGED clientVars,
         \A l \in Logins : (login'[l].pc = "closing") <=> (login[l].pc = "closing"),
         \A l \in Logins : login[l].pc = "closing" => login'[l].client = login[l].client
  PROVE  PoolSound'
BY DEF PoolSound, Closing, Ready, clientVars

LEMMA HistoryGrows == [Next]_vars => (overlooked => overlooked') /\ superseded \subseteq superseded'
<1>. SUFFICES ASSUME [Next]_vars PROVE (overlooked => overlooked') /\ superseded \subseteq superseded'
  OBVIOUS
<1>1. ASSUME NEW l \in Logins, Remove(l) PROVE (overlooked => overlooked') /\ superseded \subseteq superseded'
  BY <1>1 DEF Remove
<1>2. CASE UNCHANGED history
  BY <1>2 DEF history
<1>3. ASSUME NEW l \in Logins, LoginStep(l) PROVE Remove(l) \/ UNCHANGED history
  BY ONLY <1>3 DEF LoginStep, RemoveFromPool, ReleaseEnds, StartLogin, LoginAnswered, Verify, VerifyAnswered,
       Verified, VerifyFails, ListenAfterLogin
<1>4. CASE \E c \in Clients : CreationEnds(c) \/ ClientCloses(c) \/ ClosesItself(c)
  BY <1>2, <1>4 DEF CreationEnds, ClientCloses, ClosesItself
<1>5. CASE \E p \in Callers : Call(p) \/ Answered(p)
  BY <1>2, <1>5 DEF Call, Answered
<1>6. CASE ListenAtStart
  BY <1>2, <1>6 DEF ListenAtStart
<1>7. CASE UNCHANGED vars
  BY <1>2, <1>7 DEF vars
<1>. QED BY <1>1, <1>2, <1>3, <1>4, <1>5, <1>6, <1>7 DEF Next

LEMMA PoolStep ==
  ASSUME TypeOK, PoolSound, [Next]_vars, ~overlooked'
  PROVE  PoolSound'
<1>t. /\ login \in [Logins -> LoginRecord] /\ open \subseteq Clients /\ ended \subseteq Clients /\ creating \subseteq Clients
      /\ None \notin Clients /\ pool \in Clients \cup {None} /\ pending \in Clients \cup {None}
  BY ConstantsAssumption DEF TypeOK, LoginRecord, Clients, None
<1>n. New # None
  BY DEF TypeOK, New, None
\* Steps of a login from one pc to another, neither of them "closing".
<1>k. ASSUME NEW l \in Logins, login[l].pc # "closing", login'[l].pc # "closing",
             \A k \in Logins \ {l} : login'[k] = login[k], UNCHANGED clientVars
      PROVE  PoolSound'
  <2>1. \A k \in Logins : (login'[k].pc = "closing") <=> (login[k].pc = "closing")
    BY <1>k
  <2>2. \A k \in Logins : login[k].pc = "closing" => login'[k].client = login[k].client
    BY <1>k
  <2>. QED BY <1>k, <2>1, <2>2, PoolKept
\* A client is created where there is none.
<1>c. ASSUME Found = None, Resumed, Opens, pending' = New,
             (creating' = creating \cup {New} /\ pool' = pool) \/ (creating' = creating /\ pool' = New),
             \A l \in Logins : login'[l].pc = "closing" => login[l].pc = "closing"
      PROVE  PoolSound'
  <2>1. pool = None /\ pending = None
    BY <1>c DEF Found
  <2>2. open = {} /\ creating = {} /\ \A l \in Logins : ~Closing(l)
    BY <1>c, <2>1, NothingFound
  <2>3. open' = {New} /\ \A l \in Logins : login'[l].pc # "closing"
    BY <1>c, <2>2 DEF Opens, Closing
  <2>. QED BY <1>c, <1>n, <2>1, <2>2, <2>3 DEF PoolSound, Closing, Ready
<1>1. ASSUME NEW c \in Clients, CreationEnds(c) PROVE PoolSound'
  <2>1. c = pending /\ c \in open \cup ended /\ creating' = {} /\ pool = None
    BY <1>1, <1>t DEF CreationEnds, PoolSound
  <2>2. \A l \in Logins : ~Closing(l)
    BY <1>t, <2>1 DEF PoolSound
  <2>3. /\ pool' = c /\ pending' = None /\ open \subseteq {c}
        /\ UNCHANGED <<open, ended, login>>
    BY <1>1, <1>t, <2>1 DEF CreationEnds, PoolSound
  <2>. QED BY <1>t, <2>1, <2>2, <2>3 DEF PoolSound, Closing
<1>2. ASSUME NEW c \in Clients, ClientCloses(c) PROVE PoolSound'
  <2>1. PICK l \in Logins : login[l].pc = "closing" /\ login[l].client = c
    BY <1>2 DEF ClientCloses
  <2>2. c = pool /\ pending = None
    BY <1>2, <2>1 DEF ClientCloses, PoolSound, Closing
  <2>3. open' = {} /\ creating = {} /\ UNCHANGED <<ended, pool, pending, creating, login>>
    BY <1>2, <1>t, <2>2 DEF ClientCloses, PoolSound
  <2>. QED BY <1>t, <2>1, <2>2, <2>3 DEF PoolSound, Closing, Ready
<1>14. ASSUME NEW c \in Clients, ClosesItself(c) PROVE PoolSound'
  <2>1. /\ open' = open \ {c} /\ ended' = ended \cup {c} /\ c \in open
        /\ UNCHANGED <<pool, pending, creating, login>>
    BY <1>14 DEF ClosesItself
  <2>2. \A l \in Logins : Ready(l) => Ready(l)'
    BY <2>1 DEF Ready
  <2>. QED BY <1>t, <2>1, <2>2 DEF PoolSound, Closing
<1>3. ASSUME NEW p \in Callers, Call(p) PROVE PoolSound'
  <2>1. CASE Found # None
    BY <1>3, <2>1, PoolKept DEF Call
  <2>2. CASE Found = None
    BY <1>3, <1>c, <2>2 DEF Call, CreateAndPoll
  <2>. QED BY <2>1, <2>2
<1>4. ASSUME NEW p \in Callers, Answered(p) PROVE PoolSound'
  BY <1>4, PoolKept DEF Answered
<1>5. CASE ListenAtStart
  BY <1>5, PoolKept DEF ListenAtStart
<1>6. ASSUME NEW l \in Logins, Remove(l) PROVE PoolSound'
  <2>1. creating = {} /\ pending' = None /\ Resumed /\ login[l].pc = "idle"
        /\ UNCHANGED <<open, ended, pool, creating>>
    BY <1>6 DEF Remove
  <2>2. /\ login'[l].pc = IF pool = None THEN "create" ELSE "closing"
        /\ login'[l].client = pool
        /\ \A k \in Logins \ {l} : login'[k] = login[k]
    BY <1>6, <1>t DEF Remove, LoginRecord
  <2>3. pool \in open \cup ended \cup {None}
    BY <2>1 DEF PoolSound, Resumed
  <2>4. open \subseteq {pool}
    BY <1>t, <2>1 DEF PoolSound
  <2>5. ASSUME NEW k \in Logins, login'[k].pc = "closing"
        PROVE  login'[k].client = pool \/ (pool = None /\ login'[k].client \notin open)
    BY <2>2, <2>5 DEF PoolSound, Closing
  <2>. QED BY <1>t, <2>1, <2>3, <2>4, <2>5 DEF PoolSound, Closing
<1>7. ASSUME NEW l \in Logins, RemoveFromPool(l) PROVE PoolSound'
  <2>1. /\ login[l].pc = "closing" /\ login[l].client \notin open /\ pool' = None
        /\ UNCHANGED <<open, ended, pending, creating>>
    BY <1>7 DEF RemoveFromPool, Ready
  <2>2. /\ login'[l].pc = "released"
        /\ \A k \in Logins \ {l} : login'[k] = login[k]
    BY <1>7, <1>t DEF RemoveFromPool, LoginRecord
  <2>3. pending = None /\ creating = {} /\ open = {}
    BY <1>t, <2>1 DEF PoolSound, Closing
  <2>. QED BY <2>1, <2>2, <2>3 DEF PoolSound, Closing
<1>8. ASSUME NEW l \in Logins, ReleaseEnds(l) PROVE PoolSound'
  <2>1. login'[l].pc = "create" /\ \A k \in Logins \ {l} : login'[k] = login[k]
    BY <1>8, <1>t DEF ReleaseEnds, LoginRecord
  <2>. QED BY <1>8, <1>k, <2>1 DEF ReleaseEnds
<1>9. ASSUME NEW l \in Logins, StartLogin(l) PROVE PoolSound'
  <2>1. CASE Found = None
    <3>1. login'[l].pc = "prompted" /\ \A k \in Logins \ {l} : login'[k] = login[k]
      BY <1>9, <1>t, <2>1 DEF StartLogin, Prompt
    <3>2. \A k \in Logins : login'[k].pc = "closing" => login[k].pc = "closing"
      BY <3>1
    <3>. QED BY <1>9, <1>c, <2>1, <3>2 DEF StartLogin, CreateForLogin
  <2>2. CASE Found # None
    <3>1. login'[l].pc = "await" /\ \A k \in Logins \ {l} : login'[k] = login[k]
      BY <1>9, <1>t, <2>2 DEF StartLogin, LoginRecord
    <3>. QED BY <1>9, <1>k, <2>2, <3>1 DEF StartLogin
  <2>. QED BY <2>1, <2>2
<1>10. ASSUME NEW l \in Logins, LoginAnswered(l) PROVE PoolSound'
  <2>1. login'[l].pc = "prompted" /\ \A k \in Logins \ {l} : login'[k] = login[k]
    BY <1>10, <1>t DEF LoginAnswered, Prompt
  <2>. QED BY <1>10, <1>k, <2>1 DEF LoginAnswered
<1>11. ASSUME NEW l \in Logins, Verify(l) PROVE PoolSound'
  <2>1. login'[l].pc = "awaitVerify" /\ \A k \in Logins \ {l} : login'[k] = login[k]
    BY <1>11, <1>t DEF Verify, LoginRecord
  <2>2. CASE Found = None
    <3>1. \A k \in Logins : login'[k].pc = "closing" => login[k].pc = "closing"
      BY <2>1
    <3>. QED BY <1>11, <1>c, <2>2, <3>1 DEF Verify, CreateAndPoll
  <2>3. CASE Found # None
    BY <1>11, <1>k, <2>1, <2>3 DEF Verify
  <2>. QED BY <2>2, <2>3
<1>12. ASSUME NEW l \in Logins, VerifyAnswered(l) \/ Verified(l) \/ VerifyFails(l) \/ ListenAfterLogin(l)
       PROVE  PoolSound'
  <2>1. /\ login'[l].pc \in {"polling", "listen", "failed", "done"}
        /\ \A k \in Logins \ {l} : login'[k] = login[k]
    BY <1>12, <1>t DEF VerifyAnswered, Verified, VerifyFails, ListenAfterLogin, LoginRecord
  <2>2. login[l].pc \in {"awaitVerify", "polling", "listen"} /\ UNCHANGED clientVars
    BY <1>12 DEF VerifyAnswered, Verified, VerifyFails, ListenAfterLogin
  <2>. QED BY <1>k, <2>1, <2>2
<1>13. CASE UNCHANGED vars
  BY <1>13, PoolKept DEF vars
<1>. QED
  BY <1>1, <1>2, <1>3, <1>4, <1>5, <1>6, <1>7, <1>8, <1>9, <1>10, <1>11, <1>12, <1>13, <1>14
     DEF Next, LoginStep

-----------------------------------------------------------------------------
(* The logins *)

\* A step of others that finds and removes no client.
LEMMA LoginKept ==
  ASSUME NEW k \in Logins, LoginSound(k), login'[k] = login[k],
         UNCHANGED <<pool, pending>>, heard \subseteq heard', superseded \subseteq superseded',
         Begun' \subseteq Begun,
         \A o \in Logins : login'[o].pc = "closing" => login[o].pc = "closing",
         \A o \in Logins \ {k} : k \in Begun => login'[o].own = login[o].own \/ o \in superseded
  PROVE  LoginSound(k)'
<1>1. k \in Begun' => \A o \in Begun' \ {k} : o \in superseded'
  BY DEF LoginSound
<1>2. login[k].pc \notin {"idle", "done", "failed"} => k \in Begun
  BY DEF Begun
<1>. QED BY <1>1, <1>2 DEF LoginSound, Closing, Found

\* A client is created where there is none.
LEMMA LoginKeptNew ==
  ASSUME NEW k \in Logins, LoginSound(k), login'[k] = login[k], Found = None, New # None,
         pool' \in {None, New}, pending' = New, UNCHANGED heard, superseded \subseteq superseded',
         Begun' \subseteq Begun, \A o \in Logins : login'[o].pc # "closing",
         \A o \in Logins : login[o].own # New,
         \A o \in Logins \ {k} : k \in Begun => login'[o].own = login[o].own \/ o \in superseded
  PROVE  LoginSound(k)'
<1>1. k \in Begun' => \A o \in Begun' \ {k} : o \in superseded'
  BY DEF LoginSound
<1>2. login[k].pc \notin {"idle", "done", "failed"} => k \in Begun
  BY DEF Begun
<1>3. pool = None /\ pending = None
  BY DEF Found
<1>4. login[k].pc \notin {"await", "prompted", "awaitVerify", "polling", "listen"}
  BY <1>3 DEF LoginSound
<1>. QED BY <1>1, <1>2, <1>3, <1>4 DEF LoginSound, Closing, Found

LEMMA LoginsStep ==
  ASSUME ClientsSound, [Next]_vars, ~overlooked', NEW k \in Logins, k \notin superseded'
  PROVE  LoginSound(k)'
<1>t. /\ login \in [Logins -> LoginRecord] /\ None \notin Clients /\ creating \subseteq Clients
      /\ open \subseteq Clients /\ TypeOK
  BY ConstantsAssumption DEF ClientsSound, TypeOK, LoginRecord, Clients, None
<1>s. PoolSound /\ LoginSound(k) /\ superseded \subseteq superseded' /\ k \notin superseded
  BY HistoryGrows DEF ClientsSound, Alone
<1>n. New # None /\ \A o \in Logins : login[o].own # New
  <2>1. made \in Nat /\ \A o \in Logins : login[o].own \in Nat /\ login[o].own <= made
    BY <1>t DEF ClientsSound, TypeOK, Numbered, LoginRecord, Clients, None
  <2>. QED BY <2>1 DEF New, None
\* Where nothing is found no removal is waiting.
<1>f. Found = None /\ Resumed =>
        /\ pool = None /\ pending = None
        /\ \A o \in Logins : login[o].pc # "closing"
  BY <1>s, <1>t, NothingFound DEF Found, Closing
\* Another login, begun, is known to be superseded.
<1>o. ASSUME NEW o \in Logins \ {k}, o \in Begun, k \in Begun PROVE o \in superseded
  BY <1>o, <1>s DEF LoginSound
\* Steps that leave the logins and the maps alone.
<1>k. ASSUME UNCHANGED <<login, pool, pending>>, heard \subseteq heard' PROVE LoginSound(k)'
  <2>1. Begun' = Begun
    BY <1>k DEF Begun
  <2>. QED BY <1>k, <1>s, <2>1, LoginKept
\* Steps of another login that leave the maps alone.
<1>m. ASSUME NEW l \in Logins \ {k}, \A o \in Logins \ {l} : login'[o] = login[o],
             UNCHANGED <<pool, pending>>, heard \subseteq heard', l \in Begun,
             login'[l].pc # "closing"
      PROVE  LoginSound(k)'
  <2>1. Begun' \subseteq Begun
    BY <1>m DEF Begun
  <2>2. \A o \in Logins : login'[o].pc = "closing" => login[o].pc = "closing"
    BY <1>m
  <2>3. \A o \in Logins \ {k} : k \in Begun => login'[o].own = login[o].own \/ o \in superseded
    BY <1>m, <1>o
  <2>. QED BY <1>m, <1>s, <2>1, <2>2, <2>3, LoginKept
<1>1. ASSUME NEW c \in Clients, CreationEnds(c) PROVE LoginSound(k)'
  <2>1. c = pending /\ pool = None /\ pool' = c /\ pending' = None /\ UNCHANGED <<login, heard>>
    BY <1>1, <1>s, <1>t DEF CreationEnds, PoolSound
  <2>2. Begun' = Begun /\ \A o \in Logins : login[o].pc # "closing"
    BY <1>s, <1>t, <2>1 DEF Begun, PoolSound, Closing
  <2>3. login[k].pc \notin {"prompted", "awaitVerify", "polling", "listen"}
    BY <1>s, <2>1 DEF LoginSound
  <2>. QED BY <1>s, <1>t, <2>1, <2>2, <2>3 DEF LoginSound, Closing, Found
<1>2. ASSUME NEW c \in Clients, ClientCloses(c) PROVE LoginSound(k)'
  BY <1>2, <1>k DEF ClientCloses
<1>15. ASSUME NEW c \in Clients, ClosesItself(c) PROVE LoginSound(k)'
  BY <1>15, <1>k DEF ClosesItself
<1>3. ASSUME NEW p \in Callers, Call(p) PROVE LoginSound(k)'
  <2>1. CASE Found # None
    BY <1>3, <1>k, <2>1 DEF Call, clientVars
  <2>2. CASE Found = None
    <3>1. pool' = None /\ pending' = New /\ UNCHANGED <<login, heard>> /\ Resumed
      BY <1>3, <1>f, <2>2 DEF Call, CreateAndPoll
    <3>2. Begun' = Begun
      BY <3>1 DEF Begun
    <3>. QED BY <1>f, <1>n, <1>s, <2>2, <3>1, <3>2, LoginKeptNew
  <2>. QED BY <2>1, <2>2
<1>4. ASSUME NEW p \in Callers, Answered(p) PROVE LoginSound(k)'
  BY <1>4, <1>k DEF Answered, clientVars
<1>5. CASE ListenAtStart
  BY <1>5, <1>k DEF ListenAtStart, Listen, clientVars
<1>6. ASSUME NEW l \in Logins, Remove(l) PROVE LoginSound(k)'
  <2>1. /\ login'[l].pc = IF pool = None THEN "create" ELSE "closing"
        /\ login'[l].own = login[l].own
        /\ \A o \in Logins \ {l} : login'[o] = login[o]
        /\ login[l].pc = "idle"
    BY <1>6, <1>t DEF Remove, LoginRecord
  <2>2. /\ superseded' = superseded \cup Begun /\ Resumed /\ UNCHANGED <<pool, heard>>
        /\ pending' = None
    BY <1>6 DEF Remove
  <2>3. Begun' = Begun \cup {l} /\ k \notin Begun
    BY <2>1, <2>2 DEF Begun
  <2>4. CASE k # l
    <3>1. login'[k] = login[k] /\ login[k].pc \in {"idle", "done", "failed"} /\ k \notin Begun'
      BY <2>1, <2>3, <2>4 DEF Begun
    <3>. QED BY <1>s, <2>2, <3>1 DEF LoginSound
  <2>5. CASE k = l
    <3>1. \A o \in Begun' \ {k} : o \in superseded'
      BY <2>2, <2>3, <2>5
    <3>2. pool = None => \A o \in Logins : login'[o].pc # "closing"
      BY <1>s, <1>t, <2>1, <2>2, NothingFound DEF Closing
    <3>. QED BY <2>1, <2>2, <2>5, <3>1, <3>2 DEF LoginSound, Closing
  <2>. QED BY <2>4, <2>5
<1>7. ASSUME NEW l \in Logins, RemoveFromPool(l) PROVE LoginSound(k)'
  <2>1. /\ login[l].pc = "closing" /\ pool' = None /\ UNCHANGED <<pending, heard>>
        /\ pending = None
    BY <1>7, <1>s DEF RemoveFromPool, Ready, PoolSound, Closing
  <2>2. /\ login'[l].pc = "released" /\ \A o \in Logins \ {l} : login'[o] = login[o]
        /\ \A o \in Logins : login'[o].own = login[o].own
    BY <1>7, <1>t DEF RemoveFromPool, LoginRecord
  <2>3. Begun' = Begun
    BY <2>1, <2>2 DEF Begun
  <2>4. login[k].pc \notin {"create", "await", "prompted", "awaitVerify", "polling", "listen"}
    BY <1>s, <2>1 DEF LoginSound, Closing
  <2>5. login'[k].pc \notin {"create", "await", "prompted", "awaitVerify", "polling", "listen"}
    BY <2>2, <2>4
  <2>6. login'[k].pc = "done" => login'[k] = login[k]
    BY <2>2
  <2>. QED BY <1>s, <2>1, <2>2, <2>3, <2>5, <2>6 DEF LoginSound
<1>8. ASSUME NEW l \in Logins, ReleaseEnds(l) PROVE LoginSound(k)'
  <2>1. /\ login[l].pc = "released" /\ login'[l].pc = "create" /\ login'[l].own = login[l].own
        /\ \A o \in Logins \ {l} : login'[o] = login[o]
        /\ Resumed /\ UNCHANGED <<pool, pending, heard>>
    BY <1>8, <1>t DEF ReleaseEnds, LoginRecord, clientVars
  <2>2. CASE k # l
    BY <1>m, <2>1, <2>2 DEF Begun
  <2>3. CASE k = l
    <3>1. \A o \in Logins : login'[o].pc # "closing"
      BY <1>s, <1>t, <2>1, <2>3, NothingFound DEF LoginSound, Closing
    <3>2. Begun' = Begun
      BY <2>1 DEF Begun
    <3>. QED BY <1>s, <2>1, <2>3, <3>1, <3>2 DEF LoginSound, Closing
  <2>. QED BY <2>2, <2>3
<1>9. ASSUME NEW l \in Logins, StartLogin(l) PROVE LoginSound(k)'
  <2>0. login[l].pc = "create" /\ Resumed /\ UNCHANGED heard
    BY <1>9 DEF StartLogin
  <2>1. CASE Found = None
    <3>1. /\ login'[l] = [pc |-> "prompted", own |-> New, client |-> New]
          /\ \A o \in Logins \ {l} : login'[o] = login[o]
          /\ pool' = New /\ pending' = New
      BY <1>9, <1>t, <2>1 DEF StartLogin, CreateForLogin, Prompt
    <3>2. Begun' = Begun /\ \A o \in Logins : login'[o].pc # "closing"
      BY <1>f, <2>0, <2>1, <3>1 DEF Begun
    <3>3. CASE k # l
      <4>1. \A o \in Logins \ {k} : k \in Begun => login'[o].own = login[o].own \/ o \in superseded
        BY <1>o, <2>0, <3>1 DEF Begun
      <4>. QED BY <1>n, <1>s, <2>0, <2>1, <3>1, <3>2, <3>3, <4>1, LoginKeptNew
    <3>4. CASE k = l
      BY <1>n, <1>s, <3>1, <3>2, <3>4 DEF LoginSound, Closing
    <3>. QED BY <3>3, <3>4
  <2>2. CASE Found # None
    <3>1. /\ login'[l].pc = "await" /\ login'[l].client = Found /\ login'[l].own = login[l].own
          /\ \A o \in Logins \ {l} : login'[o] = login[o]
          /\ UNCHANGED <<pool, pending>>
      BY <1>9, <1>t, <2>2 DEF StartLogin, LoginRecord, clientVars
    <3>2. CASE k # l
      BY <1>m, <2>0, <3>1, <3>2 DEF Begun
    <3>3. CASE k = l
      <4>1. Begun' = Begun /\ \A o \in Logins : login'[o].pc # "closing"
        BY <1>s, <2>0, <3>1, <3>3 DEF Begun, LoginSound, Closing
      <4>. QED BY <1>s, <2>0, <2>2, <3>1, <3>3, <4>1 DEF LoginSound, Closing, Found
    <3>. QED BY <3>2, <3>3
  <2>. QED BY <2>1, <2>2
<1>10. ASSUME NEW l \in Logins, LoginAnswered(l) PROVE LoginSound(k)'
  <2>1. /\ login[l].pc = "await" /\ login[l].client \notin creating
        /\ login'[l] = [pc |-> "prompted", own |-> login[l].client, client |-> login[l].client]
        /\ \A o \in Logins \ {l} : login'[o] = login[o]
        /\ UNCHANGED <<pool, pending, heard>>
    BY <1>10, <1>t DEF LoginAnswered, Prompt, clientVars
  <2>2. CASE k # l
    BY <1>m, <2>1, <2>2 DEF Begun
  <2>3. CASE k = l
    <3>1. Begun' = Begun /\ \A o \in Logins : login'[o].pc # "closing"
      BY <1>s, <2>1, <2>3 DEF Begun, LoginSound, Closing
    <3>2. pool = login[l].client /\ pool # None
      BY <1>s, <2>1, <2>3 DEF LoginSound, PoolSound, Found
    <3>3. \A o \in Logins \ {k} : login[o].own = pool => o \in superseded
      BY <1>s, <2>1, <2>3, <3>2 DEF LoginSound
    <3>. QED BY <1>s, <2>1, <2>3, <3>1, <3>2, <3>3 DEF LoginSound, Closing
  <2>. QED BY <2>2, <2>3
<1>11. ASSUME NEW l \in Logins, Verify(l) PROVE LoginSound(k)'
  <2>1. /\ login[l].pc = "prompted" /\ Resumed /\ UNCHANGED heard
        /\ login'[l].pc = "awaitVerify" /\ login'[l].own = login[l].own
        /\ \A o \in Logins \ {l} : login'[o] = login[o]
    BY <1>11, <1>t DEF Verify, LoginRecord
  <2>2. Begun' = Begun
    BY <2>1 DEF Begun
  <2>3. CASE Found = None
    <3>1. pool' = None /\ pending' = New /\ \A o \in Logins : login'[o].pc # "closing"
      BY <1>11, <1>f, <2>1, <2>3 DEF Verify, CreateAndPoll
    <3>2. k # l
      BY <1>s, <2>1, <2>3 DEF LoginSound, Found
    <3>3. \A o \in Logins \ {k} : login'[o].own = login[o].own
      BY <2>1
    <3>. QED BY <1>n, <1>s, <2>1, <2>2, <2>3, <3>1, <3>2, <3>3, LoginKeptNew
  <2>4. CASE Found # None
    <3>1. login'[l].client = Found /\ UNCHANGED <<pool, pending>>
      BY <1>11, <1>t, <2>4 DEF Verify, LoginRecord, clientVars
    <3>2. CASE k # l
      BY <1>m, <2>1, <3>1, <3>2 DEF Begun
    <3>3. CASE k = l
      <4>1. \A o \in Logins : login'[o].pc # "closing"
        BY <1>s, <2>1, <3>3 DEF LoginSound, Closing
      <4>2. Found = pool
        BY <1>s, <2>1, <3>3 DEF LoginSound, Found
      <4>. QED BY <1>s, <2>1, <2>2, <3>1, <3>3, <4>1, <4>2 DEF LoginSound, Closing
    <3>. QED BY <3>2, <3>3
  <2>. QED BY <2>3, <2>4
<1>12. ASSUME NEW l \in Logins, VerifyAnswered(l) \/ Verified(l) \/ VerifyFails(l) PROVE LoginSound(k)'
  <2>1. /\ login[l].pc \in {"awaitVerify", "polling"} /\ UNCHANGED <<pool, pending, heard>>
        /\ login'[l].pc \in {"polling", "listen", "failed"}
        /\ login'[l].own = login[l].own /\ login'[l].client = login[l].client
        /\ \A o \in Logins \ {l} : login'[o] = login[o]
    BY <1>12, <1>t DEF VerifyAnswered, Verified, VerifyFails, LoginRecord, clientVars
  <2>2. CASE k # l
    BY <1>m, <2>1, <2>2 DEF Begun
  <2>3. CASE k = l
    <3>1. Begun' \subseteq Begun /\ \A o \in Logins : login'[o].pc # "closing"
      BY <1>s, <2>1, <2>3 DEF Begun, LoginSound, Closing
    <3>2. k \in Begun
      BY <2>1, <2>3 DEF Begun
    <3>. QED BY <1>s, <2>1, <2>3, <3>1, <3>2 DEF LoginSound, Closing
  <2>. QED BY <2>2, <2>3
<1>13. ASSUME NEW l \in Logins, ListenAfterLogin(l) PROVE LoginSound(k)'
  <2>1. /\ login[l].pc = "listen" /\ UNCHANGED <<pool, pending>>
        /\ heard' = heard \cup ({pool} \ {None})
        /\ login'[l].pc = "done"
        /\ login'[l].own = login[l].own /\ login'[l].client = login[l].client
        /\ \A o \in Logins \ {l} : login'[o] = login[o]
    BY <1>13, <1>t DEF ListenAfterLogin, Listen, LoginRecord, clientVars
  <2>2. CASE k # l
    BY <1>m, <2>1, <2>2 DEF Begun
  <2>3. CASE k = l
    <3>1. k \notin Begun'
      BY <2>1, <2>3 DEF Begun
    <3>2. pool # None /\ login[k].own = pool /\ login[k].client = login[k].own
      BY <1>s, <2>1, <2>3 DEF LoginSound
    <3>. QED BY <2>1, <2>3, <3>1, <3>2 DEF LoginSound
  <2>. QED BY <2>2, <2>3
<1>14. CASE UNCHANGED vars
  BY <1>14, <1>k DEF vars, clientVars
<1>. QED
  BY <1>1, <1>2, <1>3, <1>4, <1>5, <1>6, <1>7, <1>8, <1>9, <1>10, <1>11, <1>12, <1>13, <1>14, <1>15
     DEF Next, LoginStep

-----------------------------------------------------------------------------
(* Theorems *)

LEMMA ClientsSoundStep == ClientsSound /\ [Next]_vars => ClientsSound'
<1>. SUFFICES ASSUME ClientsSound, [Next]_vars PROVE ClientsSound'
  OBVIOUS
<1>1. TypeOK' /\ Numbered'
  BY TypeStep
<1>2. overlooked' \/ PoolSound'
  BY HistoryGrows, PoolStep DEF ClientsSound
<1>3. ASSUME ~overlooked', NEW k \in Logins, k \notin superseded' PROVE LoginSound(k)'
  BY <1>3, LoginsStep
<1>4. overlooked' \/ \A k \in Logins : Alone(k)' => LoginSound(k)'
  BY <1>3 DEF Alone
<1>. QED BY <1>1, <1>2, <1>4 DEF ClientsSound

\* The inductive invariant of getOrCreateClient, removeClient, connectTelegram and
\* verifyTelegram holds for any number of requests, logins and clients.
THEOREM ClientsAlwaysSound == Spec => []ClientsSound
BY ClientsSoundInit, ClientsSoundStep, PTL DEF Spec

\* Every variable of the client pool keeps its type.
THEOREM TypeCorrect == Spec => []TypeOK
<1>1. ClientsSound => TypeOK
  BY DEF ClientsSound
<1>. QED BY <1>1, ClientsAlwaysSound, PTL

\* One client at a time has the account's files and none is lost from the maps,
\* unless a login's removeClient overlooked a creation.
THEOREM AlwaysOneClient == Spec => []OneClient
<1>1. ClientsSound => OneClient
  <2>. SUFFICES ASSUME ClientsSound, ~overlooked PROVE OneClient
    BY DEF OneClient
  <2>1. PoolSound /\ open \subseteq Clients /\ None \notin Clients
    BY ConstantsAssumption DEF ClientsSound, TypeOK, Clients, None
  <2>2. \A c, d \in open : c = d
    BY <2>1 DEF PoolSound
  <2>. QED BY <2>1, <2>2 DEF PoolSound, OneClient
<1>. QED BY <1>1, ClientsAlwaysSound, PTL

\* verifyTelegram ends on the client the user was prompted for, unless another login
\* began meanwhile or a removal overlooked a creation.
THEOREM AlwaysVerifiesItsOwn == Spec => []VerifiesItsOwn
<1>1. ClientsSound => VerifiesItsOwn
  <2>. SUFFICES ASSUME ClientsSound, ~overlooked, NEW l \in Logins, l \notin superseded PROVE OwnClient(l)
    BY DEF VerifiesItsOwn
  <2>1. LoginSound(l)
    BY DEF ClientsSound, Alone
  <2>. QED BY <2>1 DEF LoginSound, OwnClient
<1>. QED BY <1>1, ClientsAlwaysSound, PTL


-----------------------------------------------------------------------------
(* TelegramLogin: the inductive invariant *)

\* How far TDLib, the map, the key and the requests can be from each other.
Aligned ==
  /\ tdl = "asks" => prompt # <<>>
  /\ expired => ~key /\ tdl # "none"
  /\ entry # NoPrompt => prompt # <<>> /\ tdl \in {"asks", "ready"}
  /\ \A k \in DOMAIN prompt : prompt[k].kind = "password" => hasPassword

\* What a request has got so far.
Progress ==
  \A r \in Requests :
    /\ request[r].pc \in {"polling", "saving"} => request[r].entry # NoPrompt
    /\ request[r].pc \in {"saving", "removing", "forgetting"} => tdl = "ready"

\* The entry that is there was made or renewed by the last prompt.
Renewed == entry # NoPrompt => resolves[entry][prompt[Last].kind] = Last

\* TDLib has all it needs, and has said so or will.
Provided == tdl = "ready" \/ (tdl = "asks" /\ Final)
AnsweredRight ==
  \A r \in Requests : request[r].pc = "polling" /\ Right(r) /\ request[r].cause = {} =>
    Provided \/ "broken" \in causes

\* A request waits for TDLib to accept the last answer, unless it came too late.
Awaited ==
  tdl = "asks" /\ Final => Polling # {} \/ causes \cap {"late", "broken"} # {}

\* A login comes on disk when TDLib accepts it.
NewLogin == authorised => saved \/ tdl = "ready" \/ "crashed" \in causes

LoginInv ==
  /\ Aligned /\ Progress /\ Renewed /\ AnsweredRight /\ Awaited /\ NewLogin
  /\ AskedIsAnswerable /\ FailsForCause /\ AuthorisedIsSaved

-----------------------------------------------------------------------------
(* TelegramLogin: prompts *)

PromptRecord == [kind : Kinds, state : {"pending", "right", "wrong", "rejected"}]

LEMMA PromptFacts ==
  ASSUME LoginTypeOK
  PROVE  /\ Last \in Nat /\ DOMAIN prompt = 1 .. Last
         /\ \A k \in 1 .. Last : prompt[k] \in PromptRecord /\ prompt[k].kind \in Kinds
         /\ prompt # <<>> <=> Last \in 1 .. Last
<1>1. prompt \in Seq(PromptRecord)
  BY DEF LoginTypeOK, PromptRecord
<1>2. Last \in Nat /\ DOMAIN prompt = 1 .. Last /\ \A k \in 1 .. Last : prompt[k] \in PromptRecord
  BY <1>1 DEF Last
<1>3. prompt # <<>> <=> Last # 0
  BY <1>1 DEF Last
<1>. QED BY <1>2, <1>3 DEF PromptRecord

LEMMA AskFacts ==
  ASSUME LoginTypeOK, NEW kind \in Kinds, Ask(kind)
  PROVE  /\ prompt' \in Seq(PromptRecord) /\ Len(prompt') = Last + 1 /\ Last + 1 <= MaxPrompts
         /\ prompt'[Last + 1] = [kind |-> kind, state |-> "pending"]
         /\ \A k \in 1 .. Last : prompt'[k] = prompt[k]
         /\ entry' \in Prompts
         /\ resolves' \in [Prompts -> [Kinds -> Prompts \cup {NoPrompt}]]
         /\ resolves'[entry'][kind] = Last + 1
         /\ fired' = fired
<1>1. Last \in Nat /\ Last < MaxPrompts /\ MaxPrompts \in Nat
  BY PromptFacts, LoginAssumption DEF Ask
<1>2. prompt \in Seq(PromptRecord)
  BY DEF LoginTypeOK, PromptRecord
<1>3. [kind |-> kind, state |-> "pending"] \in PromptRecord
  BY DEF PromptRecord
<1>4. /\ prompt' \in Seq(PromptRecord) /\ Len(prompt') = Last + 1
      /\ prompt'[Last + 1] = [kind |-> kind, state |-> "pending"]
      /\ \A k \in 1 .. Last : prompt'[k] = prompt[k]
  BY <1>2, <1>3 DEF Ask, Last
<1>5. Last + 1 \in Prompts
  BY <1>1 DEF Prompts
<1>6. entry' \in Prompts
  BY <1>5 DEF Ask, LoginTypeOK
<1>7. resolves' = [resolves EXCEPT ![entry'][kind] = Last + 1]
  BY DEF Ask
<1>8. resolves \in [Prompts -> [Kinds -> Prompts \cup {NoPrompt}]]
  BY DEF LoginTypeOK
<1>9. resolves'[entry'] = [resolves[entry'] EXCEPT ![kind] = Last + 1]
  BY <1>6, <1>7, <1>8
<1>10. resolves[entry'] \in [Kinds -> Prompts \cup {NoPrompt}]
  BY <1>6, <1>8
<1>11. resolves'[entry'] \in [Kinds -> Prompts \cup {NoPrompt}] /\ resolves'[entry'][kind] = Last + 1
  BY <1>5, <1>9, <1>10
<1>12. resolves' \in [Prompts -> [Kinds -> Prompts \cup {NoPrompt}]]
  BY <1>6, <1>7, <1>8, <1>11
<1>. QED BY <1>1, <1>4, <1>6, <1>11, <1>12 DEF Ask

\* What a step leaves of the prompts there are.
SamePrompts ==
  /\ prompt' \in Seq(PromptRecord) /\ Len(prompt') = Last
  /\ \A k \in 1 .. Last :
       /\ prompt'[k].kind = prompt[k].kind
       /\ prompt'[k].state = prompt[k].state \/ prompt[k].state = "pending"

LEMMA RejectFacts ==
  ASSUME LoginTypeOK, NEW ks, Reject(ks)
  PROVE  /\ SamePrompts
         /\ \A k \in 1 .. Last : prompt'[k].state = "right" => prompt[k].state = "right"
         /\ \A k \in ks \cap (1 .. Last) : prompt'[k].state # "pending"
<1>. DEFINE F(k) == IF k \in ks /\ Pending(k) THEN [prompt[k] EXCEPT !.state = "rejected"] ELSE prompt[k]
<1>1. prompt' = [k \in 1 .. Last |-> F(k)] /\ Last \in Nat /\ DOMAIN prompt = 1 .. Last
  BY PromptFacts DEF Reject
<1>2. ASSUME NEW k \in 1 .. Last
      PROVE  /\ F(k) \in PromptRecord /\ F(k).kind = prompt[k].kind
             /\ F(k).state = prompt[k].state \/ prompt[k].state = "pending"
             /\ F(k).state = "right" => prompt[k].state = "right"
             /\ k \in ks => F(k).state # "pending"
  BY <1>1, PromptFacts DEF PromptRecord, Pending
<1>. HIDE DEF F
<1>3. \A k \in 1 .. Last : prompt'[k] = F(k)
  BY <1>1
<1>4. prompt' \in Seq(PromptRecord) /\ Len(prompt') = Last
  BY <1>1, <1>2
<1>. QED BY <1>2, <1>3, <1>4 DEF SamePrompts

LEMMA AnswerFacts ==
  ASSUME LoginTypeOK, NEW r \in Requests, request[r].answers \in Answers, Answer(r)
  PROVE  /\ SamePrompts
         /\ \A k \in 1 .. Last :
              LET kind == prompt[k].kind IN
                Pending(k) /\ resolves[entry][kind] = k /\ request[r].answers[kind] = "right" =>
                  prompt'[k].state = "right"
<1>. DEFINE F(k) == AnsweredBy(k, request[r].answers)
<1>1. prompt' = [k \in 1 .. Last |-> F(k)] /\ Last \in Nat
  BY PromptFacts DEF Answer
<1>2. ASSUME NEW k \in 1 .. Last
      PROVE  /\ F(k) \in PromptRecord /\ F(k).kind = prompt[k].kind
             /\ F(k).state = prompt[k].state \/ prompt[k].state = "pending"
             /\ Pending(k) /\ resolves[entry][prompt[k].kind] = k /\ request[r].answers[prompt[k].kind] = "right"
                  => F(k).state = "right"
  <2>1. prompt[k] \in PromptRecord /\ prompt[k].kind \in {"code", "password"}
    BY PromptFacts DEF Kinds
  <2>2. request[r].answers[prompt[k].kind] \in {"none", "right", "wrong"}
    BY <2>1 DEF Answers
  <2>. QED BY <2>1, <2>2 DEF AnsweredBy, PromptRecord, Pending
<1>. HIDE DEF F
<1>3. \A k \in 1 .. Last : prompt'[k] = F(k)
  BY <1>1
<1>4. prompt' \in Seq(PromptRecord) /\ Len(prompt') = Last
  BY <1>1, <1>2
<1>. QED BY <1>2, <1>3, <1>4 DEF SamePrompts

-----------------------------------------------------------------------------
(* TelegramLogin: requests *)

Record == [pc : Pc, answers : Answers, entry : Prompts \cup {NoPrompt}, cause : SUBSET {"early", "beaten", "slow"}]

LEMMA RequestFacts ==
  ASSUME LoginTypeOK, NEW r \in Requests
  PROVE  /\ request[r] # Idle => request[r] \in Record /\ request[r].pc \in Pc /\ request[r].answers \in Answers
         /\ request[r].pc \in Pc => request[r] # Idle
<1>1. request[r] \in {Idle} \cup Record
  BY DEF LoginTypeOK, Record
<1>2. Idle.pc \notin Pc
  BY DEF Idle, Pc
<1>. QED BY <1>1, <1>2 DEF Record

\* A step of one request leaves the others alone.
Moves(r, pc) ==
  /\ request' \in [Requests -> {Idle} \cup Record]
  /\ \A q \in Requests \ {r} : request'[q] = request[q]
  /\ request'[r] # Idle /\ request'[r].pc = pc

LEMMA LoginGotoFacts ==
  ASSUME LoginTypeOK, NEW r \in Requests, request[r] # Idle, NEW pc \in Pc, Goto(r, pc)
  PROVE  /\ Moves(r, pc)
         /\ request'[r].answers = request[r].answers /\ request'[r].entry = request[r].entry
         /\ request'[r].cause = request[r].cause
<1>1. request \in [Requests -> {Idle} \cup Record] /\ request[r] \in Record
  BY RequestFacts DEF LoginTypeOK, Record
<1>2. request'[r] = [request[r] EXCEPT !.pc = pc]
  BY <1>1 DEF Goto
<1>3. request'[r] \in Record
  BY <1>1, <1>2 DEF Record
<1>4. Idle.pc \notin Pc
  BY DEF Idle, Pc
<1>. QED BY <1>1, <1>2, <1>3, <1>4 DEF Goto, Moves, Record

LEMMA AnswerMoves ==
  ASSUME LoginTypeOK, NEW r \in Requests, Answer(r)
  PROVE  /\ Moves(r, "polling") /\ request[r].answers \in Answers
         /\ request'[r].answers = request[r].answers /\ request'[r].entry = entry
         /\ request'[r].cause = Mistimed
<1>1. request \in [Requests -> {Idle} \cup Record] /\ request[r] \in Record
  BY RequestFacts DEF LoginTypeOK, Record, Answer, Pc
<1>2. request'[r] = [request[r] EXCEPT !.pc = "polling", !.entry = entry, !.cause = Mistimed]
  BY <1>1 DEF Answer
<1>3. Mistimed \in SUBSET {"early", "beaten", "slow"} /\ entry \in Prompts \cup {NoPrompt}
  BY DEF Mistimed, LoginTypeOK
<1>4. request'[r] \in Record
  BY <1>1, <1>2, <1>3 DEF Record, Pc
<1>5. Idle.pc \notin Pc
  BY DEF Idle, Pc
<1>. QED BY <1>1, <1>2, <1>4, <1>5 DEF Answer, Moves, Record, Pc

LEMMA AbandonMoves ==
  ASSUME LoginTypeOK, NEW r \in Requests, request[r] # Idle, NEW why, Abandon(r, why)
  PROVE  /\ Moves(r, "failed") /\ request'[r].answers = request[r].answers
         /\ request[r].cause \subseteq request'[r].cause /\ (Slow => request'[r].cause # {})
<1>1. request \in [Requests -> {Idle} \cup Record] /\ request[r] \in Record
  BY RequestFacts DEF LoginTypeOK, Record
<1>. DEFINE more == IF Slow THEN {"slow"} ELSE {}
<1>2. request'[r] = [request[r] EXCEPT !.pc = "failed", !.cause = request[r].cause \cup more]
  BY <1>1 DEF Abandon
<1>3. more \in SUBSET {"early", "beaten", "slow"} /\ (Slow => "slow" \in more)
  OBVIOUS
<1>. HIDE DEF more
<1>4. request'[r] \in Record
  <2>. DEFINE c == request[r].cause \cup more
  <2>1. c \in SUBSET {"early", "beaten", "slow"}
    BY <1>1, <1>3 DEF Record
  <2>. HIDE DEF c
  <2>2. request'[r] = [request[r] EXCEPT !.pc = "failed", !.cause = c]
    BY <1>2 DEF c
  <2>. QED BY <1>1, <2>1, <2>2 DEF Record, Pc
<1>5. Idle.pc \notin Pc
  BY DEF Idle, Pc
<1>. QED BY <1>1, <1>2, <1>3, <1>4, <1>5 DEF Abandon, Moves, Record, Pc

LEMMA VerifyMoves ==
  ASSUME LoginTypeOK, NEW r \in Requests, VerifyTelegram(r)
  PROVE  Moves(r, "reading") \/ Moves(r, "refused")
<1>1. request \in [Requests -> {Idle} \cup Record]
  BY DEF LoginTypeOK, Record
<1>2. PICK answers \in Answers, pc \in {"reading", "refused"} :
        request' = [request EXCEPT ![r] = [pc |-> pc, answers |-> answers, entry |-> NoPrompt, cause |-> {}]]
  BY DEF VerifyTelegram
<1>. DEFINE R == [pc |-> pc, answers |-> answers, entry |-> NoPrompt, cause |-> {}]
<1>3. R \in Record /\ R.pc = pc
  BY DEF Record, Pc
<1>4. R # Idle
  BY <1>3 DEF Idle
<1>5. request' = [request EXCEPT ![r] = R]
  BY <1>2
<1>. HIDE DEF R
<1>6. request'[r] = R /\ \A q \in Requests \ {r} : request'[q] = request[q]
  BY <1>1, <1>5
<1>7. request' \in [Requests -> {Idle} \cup Record]
  BY <1>1, <1>3, <1>5
<1>. QED BY <1>3, <1>4, <1>6, <1>7 DEF Moves

LEMMA CrashMoves ==
  ASSUME LoginTypeOK, Crash
  PROVE  /\ request' \in [Requests -> {Idle} \cup Record]
         /\ \A r \in Requests :
              IF request[r] = Idle \/ request[r].pc \in {"ok", "failed", "refused"}
                THEN request'[r] = request[r]
                ELSE request'[r].pc = "refused"
<1>1. request \in [Requests -> {Idle} \cup Record]
  BY DEF LoginTypeOK, Record
<1>2. \A r \in Requests : request[r] # Idle =>
        /\ [request[r] EXCEPT !.pc = "refused"] \in Record
        /\ [request[r] EXCEPT !.pc = "refused"].pc = "refused"
  BY <1>1 DEF Record, Pc
<1>. QED BY <1>1, <1>2 DEF Crash

RequestStep(r) ==
  VerifyTelegram(r) \/ Answer(r) \/ Refused(r) \/ Seen(r) \/ GiveUp(r) \/ LosesClient(r) \/ Save(r)
    \/ RemoveKey(r) \/ Forget(r)

LEMMA RequestMoves ==
  ASSUME LoginTypeOK, NEW r \in Requests, RequestStep(r)
  PROVE  \E pc \in Pc : Moves(r, pc)
<1>1. CASE VerifyTelegram(r)
  BY <1>1, VerifyMoves DEF Pc
<1>2. CASE Answer(r)
  BY <1>2, AnswerMoves DEF Pc
<1>3. CASE GiveUp(r) \/ LosesClient(r)
  BY <1>3, RequestFacts, AbandonMoves DEF GiveUp, LosesClient, Pc
<1>4. CASE Refused(r) \/ Seen(r) \/ Save(r) \/ RemoveKey(r) \/ Forget(r)
  BY <1>4, RequestFacts, LoginGotoFacts DEF Refused, Seen, Save, RemoveKey, Forget, Pc
<1>. QED BY <1>1, <1>2, <1>3, <1>4 DEF RequestStep

-----------------------------------------------------------------------------
(* TelegramLogin: what a step does to the prompts *)

\* TDLib asks for the next prompt, and did not have all it needed.
Asked(kind) ==
  /\ prompt' \in Seq(PromptRecord) /\ Len(prompt') = Last + 1 /\ Last + 1 <= MaxPrompts
  /\ prompt'[Last + 1] = [kind |-> kind, state |-> "pending"]
  /\ \A k \in 1 .. Last : prompt'[k] = prompt[k]
  /\ entry' \in Prompts /\ resolves'[entry'][kind] = Last + 1 /\ fired' = fired
  /\ resolves' \in [Prompts -> [Kinds -> Prompts \cup {NoPrompt}]]
  /\ kind = "password" => hasPassword
  /\ tdl = "starting" \/ (tdl = "asks" /\ ~Final)
  /\ tdl' = "asks"
  /\ UNCHANGED <<hasPassword, authorised, key, expired, request, saved, causes, mishaps>>

\* Every other step.
NotAsked ==
  /\ SamePrompts
  /\ hasPassword' = hasPassword /\ resolves' = resolves
  /\ entry' \in {entry, NoPrompt}
  /\ tdl' = "asks" => tdl = "asks"
  /\ entry' # NoPrompt /\ tdl \in {"asks", "ready"} => tdl' \in {"asks", "ready"}

LEMMA BeginsAsks ==
  ASSUME LoginTypeOK, Begins
  PROVE  Asked("code")
BY AskFacts DEF Begins, Asked, Kinds

LEMMA AsksOnAsks ==
  ASSUME LoginTypeOK, Aligned, AsksOn
  PROVE  \E kind \in Kinds : Asked(kind)
<1>1. Last \in DOMAIN prompt /\ prompt[Last].kind \in Kinds
  BY PromptFacts DEF Aligned, AsksOn
<1>2. CASE prompt[Last].state = "wrong" /\ Ask(prompt[Last].kind)
  <2>. DEFINE kind == prompt[Last].kind
  <2>1. kind = "password" => hasPassword
    BY <1>1 DEF Aligned
  <2>2. ~Final
    BY <1>2 DEF Final
  <2>3. Asked(kind)
    BY <1>1, <1>2, <2>1, <2>2, AskFacts DEF AsksOn, Asked, tdlib
  <2>. QED BY <1>1, <2>3
<1>3. CASE prompt[Last].state = "right" /\ ~Final /\ Ask("password")
  <2>1. hasPassword
    BY <1>3 DEF Final
  <2>2. Asked("password")
    BY <1>3, <2>1, AskFacts DEF AsksOn, Asked, tdlib, Kinds
  <2>. QED BY <2>2 DEF Kinds
<1>. QED BY <1>2, <1>3 DEF AsksOn

LEMMA PromptsKept ==
  ASSUME LoginTypeOK, prompt' = prompt
  PROVE  SamePrompts
BY PromptFacts DEF SamePrompts, LoginTypeOK, PromptRecord, Last

LEMMA PromptStep ==
  ASSUME LoginTypeOK, Aligned, LoginNext
  PROVE  NotAsked \/ \E kind \in Kinds : Asked(kind)
<1>1. CASE Connect \/ Resume \/ Accepts \/ Fails \/ Expire \/ Crash
  <2>1. prompt' = prompt
    BY <1>1 DEF Connect, Resume, Accepts, Fails, Expire, Crash, prompts
  <2>. QED BY <1>1, <2>1, PromptsKept
         DEF NotAsked, Connect, Resume, Accepts, Fails, Expire, Crash, prompts, tdlib
<1>2. CASE Begins \/ AsksOn
  BY <1>2, BeginsAsks, AsksOnAsks DEF Kinds
<1>3. CASE Timer
  BY <1>3, RejectFacts DEF NotAsked, Timer, tdlib
<1>4. ASSUME NEW r \in Requests, RequestStep(r)
      PROVE  NotAsked
  <2>1. CASE Answer(r)
    BY <2>1, AnswerFacts, AnswerMoves DEF NotAsked, Answer, tdlib
  <2>2. CASE GiveUp(r) \/ LosesClient(r)
    BY <2>2, RejectFacts DEF NotAsked, GiveUp, LosesClient, Abandon, tdlib
  <2>3. CASE VerifyTelegram(r) \/ Refused(r) \/ Seen(r) \/ Save(r) \/ RemoveKey(r) \/ Forget(r)
    <3>1. prompt' = prompt
      BY <2>3 DEF VerifyTelegram, Refused, Seen, Save, RemoveKey, Forget, prompts
    <3>. QED BY <2>3, <3>1, PromptsKept
           DEF NotAsked, VerifyTelegram, Refused, Seen, Save, RemoveKey, Forget, prompts, tdlib
  <2>. QED BY <1>4, <2>1, <2>2, <2>3 DEF RequestStep
<1>. QED BY <1>1, <1>2, <1>3, <1>4 DEF LoginNext, RequestStep

LEMMA LoginTypeStep ==
  ASSUME LoginTypeOK, Aligned, LoginNext
  PROVE  LoginTypeOK'
<1>1. Last \in Nat /\ Last <= MaxPrompts /\ fired \in 0 .. Last
  BY PromptFacts DEF LoginTypeOK, Last
<1>2. /\ prompt' \in Seq(PromptRecord) /\ Len(prompt') \in Nat /\ Len(prompt') <= MaxPrompts
      /\ Last <= Len(prompt')
  <2>1. CASE NotAsked
    BY <1>1, <2>1 DEF NotAsked, SamePrompts
  <2>2. CASE \E kind \in Kinds : Asked(kind)
    BY <1>1, <2>2 DEF Asked
  <2>. QED BY <2>1, <2>2, PromptStep
<1>3. fired' \in 0 .. Len(prompt')
  <2>1. CASE Timer
    <3>1. fired < Last /\ fired' = fired + 1
      BY <2>1 DEF Timer
    <3>. QED BY <1>1, <1>2, <3>1
  <2>2. CASE ~Timer
    <3>1. fired' = fired
      BY <2>2 DEF LoginNext, Connect, Resume, Begins, AsksOn, Ask, Accepts, Fails, Expire, Crash, VerifyTelegram,
         Answer, Refused, Seen, GiveUp, LosesClient, Abandon, Save, RemoveKey, Forget, prompts
    <3>. QED BY <1>1, <1>2, <3>1
  <2>. QED BY <2>1, <2>2
<1>4. /\ entry' \in Prompts \cup {NoPrompt}
      /\ resolves' \in [Prompts -> [Kinds -> Prompts \cup {NoPrompt}]]
      /\ hasPassword' \in BOOLEAN
  <2>1. CASE NotAsked
    BY <2>1 DEF NotAsked, LoginTypeOK
  <2>2. CASE \E kind \in Kinds : Asked(kind)
    BY <2>2 DEF Asked, LoginTypeOK
  <2>. QED BY <2>1, <2>2, PromptStep
<1>5. /\ tdl' \in {"none", "starting", "asks", "ready", "failed", "gone"}
      /\ key' \in BOOLEAN /\ expired' \in BOOLEAN /\ authorised' \in BOOLEAN
  <2>1. tdl' \in {tdl, "starting", "asks", "ready", "failed", "gone"}
    BY DEF LoginNext, Connect, Resume, Begins, AsksOn, Accepts, Fails, Expire, Timer, Crash,
       VerifyTelegram, Answer, Refused, Seen, GiveUp, LosesClient, Abandon, Save, RemoveKey, Forget, tdlib
  <2>2. key' \in {key, TRUE, FALSE}
    BY DEF LoginNext, Connect, Resume, Begins, AsksOn, Accepts, Fails, Expire, Timer, Crash,
       VerifyTelegram, Answer, Refused, Seen, GiveUp, LosesClient, Abandon, Save, RemoveKey, Forget, tdlib
  <2>3. expired' \in {expired, TRUE}
    BY DEF LoginNext, Connect, Resume, Begins, AsksOn, Accepts, Fails, Expire, Timer, Crash,
       VerifyTelegram, Answer, Refused, Seen, GiveUp, LosesClient, Abandon, Save, RemoveKey, Forget, tdlib
  <2>4. authorised' \in {authorised, TRUE}
    BY DEF LoginNext, Connect, Resume, Begins, AsksOn, Accepts, Fails, Expire, Timer, Crash,
       VerifyTelegram, Answer, Refused, Seen, GiveUp, LosesClient, Abandon, Save, RemoveKey, Forget, tdlib
  <2>. QED BY <2>1, <2>2, <2>3, <2>4 DEF LoginTypeOK
<1>6. mishaps' \in 0 .. MaxMishaps
  <2>1. mishaps' = mishaps \/ Mishap
    BY DEF LoginNext, Connect, Resume, Begins, AsksOn, Accepts, Fails, Expire,
       Timer, Crash, VerifyTelegram, Answer, Refused, Seen, GiveUp, LosesClient, Save, RemoveKey, Forget
  <2>. QED BY <2>1, LoginAssumption DEF Mishap, LoginTypeOK
<1>7. saved' \in BOOLEAN
  <2>1. CASE \E r \in Requests : LosesClient(r)
    BY <2>1 DEF LosesClient
  <2>2. CASE ~ \E r \in Requests : LosesClient(r)
    BY <2>2 DEF LoginTypeOK, LoginNext, Connect, Resume, Begins, AsksOn, Accepts, Fails, Expire,
       Timer, Crash, VerifyTelegram, Answer, Refused, Seen, GiveUp, Save, RemoveKey, Forget
  <2>. QED BY <2>1, <2>2
<1>8. request' \in [Requests -> {Idle} \cup Record]
  <2>1. CASE Crash
    BY <2>1, CrashMoves
  <2>2. ASSUME NEW r \in Requests, RequestStep(r)
        PROVE  request' \in [Requests -> {Idle} \cup Record]
    BY <2>2, RequestMoves DEF Moves
  <2>3. CASE ~Crash /\ ~ \E r \in Requests : RequestStep(r)
    <3>1. request' = request
      BY <2>3 DEF LoginNext, RequestStep, Connect, Resume, Begins, AsksOn, Accepts, Fails, Expire, Timer
    <3>. QED BY <3>1 DEF LoginTypeOK, Record
  <2>. QED BY <2>1, <2>2, <2>3
<1>. QED BY <1>2, <1>3, <1>4, <1>5, <1>6, <1>7, <1>8 DEF LoginTypeOK, PromptRecord, Record

-----------------------------------------------------------------------------
(* TelegramLogin: the conjuncts of the invariant, one by one *)

LEMMA HistoriesGrow ==
  ASSUME LoginNext
  PROVE  causes \subseteq causes' /\ (saved => saved')
<1>1. causes \subseteq causes'
  BY DEF LoginNext, Connect, Resume, Begins, AsksOn, Accepts, Fails, Expire, Timer, Crash,
     VerifyTelegram, Answer, Refused, Seen, GiveUp, LosesClient, Abandon, Save, RemoveKey, Forget
<1>2. saved => saved'
  BY DEF LoginNext, Connect, Resume, Begins, AsksOn, Accepts, Fails, Expire, Timer, Crash,
     VerifyTelegram, Answer, Refused, Seen, GiveUp, LosesClient, Save, RemoveKey, Forget
<1>. QED BY <1>1, <1>2

LEMMA AlignedStep ==
  ASSUME LoginTypeOK, Aligned, LoginNext
  PROVE  Aligned'
<1>1. LoginTypeOK'
  BY LoginTypeStep
<1>2. expired' => ~key' /\ tdl' # "none"
  <2>1. CASE Connect
    BY <2>1 DEF Connect, Aligned
  <2>2. CASE Expire
    BY <2>2 DEF Expire, tdlib
  <2>3. CASE ~Connect /\ ~Expire
    <3>1. expired' = expired
      BY <2>3 DEF LoginNext, Resume, Begins, AsksOn, Accepts, Fails, Timer, Crash,
         VerifyTelegram, Answer, Refused, Seen, GiveUp, LosesClient, Abandon, Save, RemoveKey, Forget, tdlib
    <3>2. key' \in {key, FALSE}
      BY <2>3 DEF LoginNext, Resume, Begins, AsksOn, Accepts, Fails, Timer, Crash,
         VerifyTelegram, Answer, Refused, Seen, GiveUp, LosesClient, Abandon, Save, RemoveKey, Forget, tdlib
    <3>3. tdl # "none" => tdl' # "none"
      BY <2>3 DEF LoginNext, Resume, Begins, AsksOn, Accepts, Fails, Timer, Crash,
         VerifyTelegram, Answer, Refused, Seen, GiveUp, LosesClient, Abandon, Save, RemoveKey, Forget, tdlib
    <3>. QED BY <3>1, <3>2, <3>3 DEF Aligned
  <2>. QED BY <2>1, <2>2, <2>3
<1>3. Last \in Nat /\ DOMAIN prompt = 1 .. Last /\ DOMAIN prompt' = 1 .. Len(prompt') /\ Len(prompt') \in Nat
      /\ (prompt' # <<>> <=> Len(prompt') # 0) /\ (prompt # <<>> <=> Last # 0)
  BY <1>1 DEF LoginTypeOK, Last
<1>4. CASE NotAsked
  <2>1. Len(prompt') = Last /\ \A k \in 1 .. Last : prompt'[k].kind = prompt[k].kind
    BY <1>4 DEF NotAsked, SamePrompts
  <2>. QED BY <1>2, <1>3, <1>4, <2>1 DEF NotAsked, Aligned
<1>5. ASSUME NEW kind \in Kinds, Asked(kind)
      PROVE  Aligned'
  <2>1. Len(prompt') = Last + 1 /\ tdl' = "asks" /\ hasPassword' = hasPassword
        /\ (kind = "password" => hasPassword) /\ prompt'[Last + 1].kind = kind
        /\ \A k \in 1 .. Last : prompt'[k] = prompt[k]
    BY <1>5 DEF Asked
  <2>2. ASSUME NEW k \in 1 .. Last + 1, prompt'[k].kind = "password"
        PROVE  hasPassword'
    <3>1. CASE k = Last + 1
      BY <2>1, <2>2, <3>1
    <3>2. CASE k \in 1 .. Last
      BY <1>3, <2>1, <2>2, <3>2 DEF Aligned
    <3>. QED BY <1>3, <3>1, <3>2
  <2>. QED BY <1>2, <1>3, <2>1, <2>2 DEF Aligned
<1>. QED BY <1>4, <1>5, PromptStep

LEMMA ProgressStep ==
  ASSUME LoginTypeOK, Progress, LoginNext
  PROVE  Progress'
<1>1. CASE Crash
  <2>1. \A r \in Requests : request'[r].pc \notin {"polling", "saving", "removing", "forgetting"}
    BY <1>1, CrashMoves DEF Idle
  <2>. QED BY <2>1 DEF Progress
<1>2. ASSUME ~Crash
      PROVE  tdl = "ready" => tdl' = "ready"
  BY <1>2 DEF LoginNext, Connect, Resume, Begins, AsksOn, Accepts, Fails, Expire, Timer,
     VerifyTelegram, Answer, Refused, Seen, GiveUp, LosesClient, Abandon, Save, RemoveKey, Forget, tdlib
<1>3. ASSUME ~Crash, NEW r \in Requests, RequestStep(r)
      PROVE  Progress'
  <2>1. SUFFICES /\ request'[r].pc \in {"polling", "saving"} => request'[r].entry # NoPrompt
                 /\ request'[r].pc \in {"saving", "removing", "forgetting"} => tdl' = "ready"
    <3>1. \A q \in Requests \ {r} : request'[q] = request[q]
      BY <1>3, RequestMoves DEF Moves
    <3>. QED BY <1>2, <1>3, <2>1, <3>1 DEF Progress
  <2>2. CASE VerifyTelegram(r)
    BY <2>2, VerifyMoves DEF Moves
  <2>3. CASE Answer(r)
    BY <2>3, AnswerMoves DEF Moves, Answer
  <2>4. CASE GiveUp(r) \/ LosesClient(r)
    BY <2>4, AbandonMoves, RequestFacts DEF GiveUp, LosesClient, Moves, Pc
  <2>5. CASE Refused(r)
    BY <2>5, LoginGotoFacts, RequestFacts DEF Refused, Moves, Pc
  <2>6. CASE Seen(r)
    BY <2>6, LoginGotoFacts, RequestFacts DEF Seen, Moves, Pc, Progress, tdlib
  <2>7. CASE Save(r) \/ RemoveKey(r) \/ Forget(r)
    BY <2>7, LoginGotoFacts, RequestFacts DEF Save, RemoveKey, Forget, Moves, Pc, Progress, tdlib
  <2>. QED BY <1>3, <2>2, <2>3, <2>4, <2>5, <2>6, <2>7 DEF RequestStep
<1>4. CASE ~Crash /\ ~ \E r \in Requests : RequestStep(r)
  <2>1. request' = request
    BY <1>4 DEF LoginNext, RequestStep, Connect, Resume, Begins, AsksOn, Accepts, Fails, Expire, Timer
  <2>. QED BY <1>2, <1>4, <2>1 DEF Progress
<1>. QED BY <1>1, <1>3, <1>4

LEMMA RenewedStep ==
  ASSUME LoginTypeOK, Aligned, Renewed, LoginNext
  PROVE  Renewed'
<1>1. CASE NotAsked
  <2>1. SUFFICES ASSUME entry' # NoPrompt
                 PROVE  resolves'[entry'][prompt'[Len(prompt')].kind] = Len(prompt')
    BY DEF Renewed, Last
  <2>2. entry' = entry /\ resolves' = resolves /\ Len(prompt') = Last
    BY <1>1, <2>1 DEF NotAsked, SamePrompts
  <2>3. Last \in 1 .. Last
    BY <2>1, <2>2, PromptFacts DEF Aligned
  <2>4. prompt'[Last].kind = prompt[Last].kind
    BY <1>1, <2>3 DEF NotAsked, SamePrompts
  <2>. QED BY <2>1, <2>2, <2>4 DEF Renewed
<1>2. ASSUME NEW kind \in Kinds, Asked(kind)
      PROVE  Renewed'
  BY <1>2 DEF Asked, Renewed, Last
<1>. QED BY <1>1, <1>2, PromptStep

\* Once TDLib has all it needs only a failure of its own keeps it from saying so.
LEMMA ProvidedKept ==
  ASSUME LoginTypeOK, Aligned, Provided, LoginNext, ~Crash
  PROVE  Provided' \/ "broken" \in causes'
<1>1. CASE tdl = "ready"
  <2>1. tdl' = "ready"
    BY <1>1 DEF LoginNext, Connect, Resume, Begins, AsksOn, Accepts, Fails, Expire, Timer,
       VerifyTelegram, Answer, Refused, Seen, GiveUp, LosesClient, Abandon, Save, RemoveKey, Forget, tdlib
  <2>. QED BY <2>1 DEF Provided
<1>2. CASE tdl = "asks" /\ Final
  <2>1. NotAsked
    BY <1>2, PromptStep DEF Asked
  <2>2. Last \in 1 .. Last
    BY <1>2, PromptFacts DEF Aligned
  <2>3. Final'
    BY <1>2, <2>1, <2>2 DEF NotAsked, SamePrompts, Final, Last
  <2>4. CASE Fails
    BY <1>2, <2>4 DEF Fails, Final
  <2>5. CASE ~Fails
    <3>1. tdl' \in {"asks", "ready"}
      BY <1>2, <2>5 DEF LoginNext, Connect, Resume, Begins, AsksOn, Accepts, Expire, Timer,
         VerifyTelegram, Answer, Refused, Seen, GiveUp, LosesClient, Abandon, Save, RemoveKey, Forget, tdlib
    <3>. QED BY <2>3, <3>1 DEF Provided
  <2>. QED BY <2>4, <2>5
<1>. QED BY <1>1, <1>2 DEF Provided

\* Right answers to the last prompt, given in time, are all TDLib needs.
LEMMA AnswersProvide ==
  ASSUME LoginTypeOK, Aligned, Renewed, NEW r \in Requests, Answer(r), Right(r), Mistimed = {}
  PROVE  Provided'
<1>1. request[r].answers \in Answers /\ SamePrompts
  BY AnswerMoves, AnswerFacts
<1>2. Last \in 1 .. Last /\ tdl \in {"asks", "ready"} /\ entry # NoPrompt
  BY PromptFacts DEF Answer, Aligned
<1>3. tdl' = tdl /\ hasPassword' = hasPassword
  BY DEF Answer, tdlib
<1>4. Pending(Last) /\ (prompt[Last].kind = "code" => ~hasPassword)
  BY DEF Mistimed
<1>5. prompt[Last].kind \in {"code", "password"} /\ resolves[entry][prompt[Last].kind] = Last
  BY <1>2, PromptFacts DEF Kinds, Renewed
<1>6. prompt[Last].kind = "password" => hasPassword
  BY <1>2, PromptFacts DEF Aligned
<1>7. request[r].answers[prompt[Last].kind] = "right"
  BY <1>5, <1>6 DEF Right
<1>8. prompt'[Last].state = "right"
  BY <1>1, <1>2, <1>4, <1>5, <1>7, AnswerFacts
<1>9. Len(prompt') = Last /\ prompt'[Last].kind = prompt[Last].kind
  BY <1>1, <1>2 DEF SamePrompts
<1>. QED BY <1>2, <1>3, <1>4, <1>8, <1>9 DEF Provided, Final, Last

LEMMA AnsweredRightStep ==
  ASSUME LoginTypeOK, Aligned, Renewed, AnsweredRight, LoginNext
  PROVE  AnsweredRight'
<1>1. SUFFICES ASSUME NEW r \in Requests, request'[r].pc = "polling", Right(r)', request'[r].cause = {}
               PROVE  Provided' \/ "broken" \in causes'
  BY DEF AnsweredRight, Right
<1>2. CASE Crash
  BY <1>1, <1>2, CrashMoves DEF Idle
<1>3. CASE Answer(r)
  <2>1. Mistimed = {} /\ request'[r].answers = request[r].answers /\ hasPassword' = hasPassword
    BY <1>1, <1>3, AnswerMoves DEF Answer, tdlib
  <2>2. Right(r)
    BY <1>1, <2>1 DEF Right
  <2>. QED BY <1>3, <2>1, <2>2, AnswersProvide
<1>4. CASE ~Crash /\ ~Answer(r)
  <2>1. request'[r] = request[r]
    <3>1. CASE \E q \in Requests \ {r} : RequestStep(q)
      BY <3>1, RequestMoves DEF Moves
    <3>2. CASE RequestStep(r)
      <4>1. CASE VerifyTelegram(r)
        BY <1>1, <4>1, VerifyMoves DEF Moves
      <4>2. CASE GiveUp(r) \/ LosesClient(r)
        BY <1>1, <4>2, AbandonMoves, RequestFacts DEF GiveUp, LosesClient, Moves, Pc
      <4>3. CASE Refused(r) \/ Seen(r) \/ Save(r) \/ RemoveKey(r) \/ Forget(r)
        BY <1>1, <4>3, LoginGotoFacts, RequestFacts DEF Refused, Seen, Save, RemoveKey, Forget, Moves, Pc
      <4>. QED BY <1>4, <3>2, <4>1, <4>2, <4>3 DEF RequestStep
    <3>3. CASE ~ \E q \in Requests : RequestStep(q)
      BY <1>4, <3>3 DEF LoginNext, RequestStep, Connect, Resume, Begins, AsksOn, Accepts, Fails, Expire, Timer
    <3>. QED BY <3>1, <3>2, <3>3
  <2>2. hasPassword' = hasPassword
    BY PromptStep DEF NotAsked, Asked
  <2>3. Provided \/ "broken" \in causes
    BY <1>1, <2>1, <2>2 DEF AnsweredRight, Right
  <2>4. causes \subseteq causes'
    BY HistoriesGrow
  <2>. QED BY <1>4, <2>3, <2>4, ProvidedKept
<1>. QED BY <1>2, <1>3, <1>4

LEMMA AwaitedStep ==
  ASSUME LoginTypeOK, Aligned, Awaited, LoginNext
  PROVE  Awaited'
<1>1. SUFFICES ASSUME tdl' = "asks", Final'
               PROVE  (\E q \in Requests : request'[q].pc = "polling") \/ causes' \cap {"late", "broken"} # {}
  BY DEF Awaited, Polling
<1>2. causes \subseteq causes'
  BY HistoriesGrow
<1>3. NotAsked
  <2>1. ASSUME NEW kind \in Kinds, Asked(kind)
        PROVE  FALSE
    <3>1. Len(prompt') = Last + 1 /\ prompt'[Last + 1].state = "pending"
      BY <2>1 DEF Asked
    <3>2. prompt'[Len(prompt')].state = "right"
      BY <1>1 DEF Final, Last
    <3>. QED BY <3>1, <3>2
  <2>. QED BY <2>1, PromptStep
<1>4. tdl = "asks" /\ Len(prompt') = Last /\ Last \in 1 .. Last
  BY <1>1, <1>3, PromptFacts DEF NotAsked, SamePrompts, Aligned
<1>5. prompt'[Last].state = "right" /\ prompt'[Last].kind = prompt[Last].kind /\ hasPassword' = hasPassword
  BY <1>1, <1>3, <1>4 DEF Final, Last, NotAsked, SamePrompts
<1>6. CASE \E r \in Requests : Answer(r)
  BY <1>6, AnswerMoves DEF Moves
<1>7. CASE ~ \E r \in Requests : Answer(r)
  <2>1. prompt[Last].state = "right"
    <3>1. CASE Timer
      BY <1>4, <1>5, <3>1, RejectFacts DEF Timer
    <3>2. ASSUME NEW r \in Requests, GiveUp(r) \/ LosesClient(r)
          PROVE  prompt[Last].state = "right"
      BY <1>4, <1>5, <3>2, RejectFacts DEF GiveUp, LosesClient, Abandon
    <3>3. CASE ~Timer /\ ~ \E r \in Requests : GiveUp(r) \/ LosesClient(r)
      <4>1. prompt' = prompt
        BY <1>3, <1>4, <1>7, <3>3 DEF LoginNext, Connect, Resume, Begins, AsksOn, Ask, Accepts, Fails, Expire, Crash,
           VerifyTelegram, Refused, Seen, Save, RemoveKey, Forget, prompts, NotAsked, SamePrompts
      <4>. QED BY <1>5, <4>1
    <3>. QED BY <3>1, <3>2, <3>3
  <2>2. Final
    BY <1>1, <1>5, <1>4, <2>1 DEF Final, Last
  <2>3. SUFFICES ASSUME NEW r \in Requests, request[r].pc = "polling", "broken" \notin causes'
                 PROVE  (\E q \in Requests : request'[q].pc = "polling") \/ "late" \in causes'
    BY <1>2, <1>4, <2>2 DEF Awaited, Polling
  <2>4. CASE GiveUp(r)
    <3>1. Slow
      BY <1>4, <2>2 DEF Slow
    <3>2. CASE Polling = {r}
      BY <2>4, <3>1, <3>2 DEF GiveUp, Abandon
    <3>4. CASE Polling # {r}
      <4>1. PICK p \in Requests \ {r} : request[p].pc = "polling"
        BY <2>3, <3>4 DEF Polling
      <4>2. request'[p] = request[p]
        BY <2>4, RequestFacts, AbandonMoves DEF GiveUp, Moves, Pc
      <4>. QED BY <4>1, <4>2
    <3>. QED BY <3>2, <3>4
  <2>5. CASE ~GiveUp(r)
    <3>1. ~LosesClient(r) /\ ~Crash /\ ~Seen(r)
      BY <1>1, <1>4, <2>3 DEF LosesClient, Abandon, Crash, Seen
    <3>2. request'[r] = request[r]
      <4>1. CASE \E q \in Requests \ {r} : RequestStep(q)
        BY <4>1, RequestMoves DEF Moves
      <4>2. CASE RequestStep(r)
        BY <1>7, <2>3, <2>5, <3>1, <4>2
           DEF RequestStep, VerifyTelegram, Refused, Save, RemoveKey, Forget, Idle
      <4>3. CASE ~ \E q \in Requests : RequestStep(q)
        BY <3>1, <4>3 DEF LoginNext, RequestStep, Connect, Resume, Begins, AsksOn, Accepts, Fails, Expire, Timer
      <4>. QED BY <4>1, <4>2, <4>3
    <3>. QED BY <2>3, <3>2
  <2>. QED BY <2>4, <2>5
<1>. QED BY <1>6, <1>7

LEMMA NewLoginStep ==
  ASSUME NewLogin, LoginNext
  PROVE  NewLogin'
<1>1. causes \subseteq causes' /\ (saved => saved')
  BY HistoriesGrow
<1>2. CASE Crash
  BY <1>2 DEF Crash, NewLogin
<1>3. CASE Accepts
  BY <1>3 DEF Accepts, NewLogin
<1>4. CASE ~Crash /\ ~Accepts
  <2>1. tdl = "ready" => tdl' = "ready"
    BY <1>4 DEF LoginNext, Connect, Resume, Begins, AsksOn, Fails, Expire, Timer,
       VerifyTelegram, Answer, Refused, Seen, GiveUp, LosesClient, Abandon, Save, RemoveKey, Forget, tdlib
  <2>2. authorised' = authorised
    BY <1>4 DEF LoginNext, Connect, Resume, Begins, AsksOn, Fails, Expire, Timer,
       VerifyTelegram, Answer, Refused, Seen, GiveUp, LosesClient, Abandon, Save, RemoveKey, Forget, tdlib
  <2>. QED BY <1>1, <2>1, <2>2 DEF NewLogin
<1>. QED BY <1>2, <1>3, <1>4

-----------------------------------------------------------------------------
(* TelegramLogin: the properties *)

LEMMA AnswerableStep ==
  ASSUME LoginTypeOK, Aligned, Progress, AskedIsAnswerable, LoginNext
  PROVE  AskedIsAnswerable'
<1>1. causes \subseteq causes'
  BY HistoriesGrow
<1>2. ASSUME NEW kind \in Kinds, Asked(kind)
      PROVE  AskedIsAnswerable'
  <2>1. entry' # NoPrompt
    BY <1>2, LoginAssumption DEF Asked, Prompts, NoPrompt
  <2>2. Len(prompt') = Last + 1 /\ prompt'[Last + 1].kind = kind /\ resolves'[entry'][kind] = Last + 1
    BY <1>2 DEF Asked
  <2>3. resolves'[entry'][prompt'[Len(prompt')].kind] = Len(prompt')
    BY <2>2
  <2>. QED BY <2>1, <2>3 DEF AskedIsAnswerable, Last
<1>3. CASE NotAsked
  <2>1. SUFFICES ASSUME tdl' = "asks", Pending(Last)', key', "cut off" \notin causes'
                 PROVE  entry' # NoPrompt /\ resolves'[entry'][prompt'[Len(prompt')].kind] = Len(prompt')
    BY DEF AskedIsAnswerable, Last
  <2>2. tdl = "asks" /\ Len(prompt') = Last /\ Last \in 1 .. Last /\ resolves' = resolves
    BY <1>3, <2>1, PromptFacts DEF NotAsked, SamePrompts, Aligned
  <2>3. prompt'[Last].kind = prompt[Last].kind /\ prompt'[Last].state = "pending" /\ Pending(Last)
    BY <1>3, <2>1, <2>2, PromptFacts DEF NotAsked, SamePrompts, Pending, Last
  <2>4. key /\ ~expired
    <3>1. ~Connect
      BY <2>2 DEF Connect
    <3>2. key' \in {key, FALSE}
      BY <3>1 DEF LoginNext, Resume, Begins, AsksOn, Accepts, Fails, Expire, Timer, Crash,
         VerifyTelegram, Answer, Refused, Seen, GiveUp, LosesClient, Abandon, Save, RemoveKey, Forget
    <3>. QED BY <2>1, <3>2 DEF Aligned
  <2>5. entry # NoPrompt /\ resolves[entry][prompt[Last].kind] = Last
    BY <1>1, <2>1, <2>2, <2>3, <2>4 DEF AskedIsAnswerable
  <2>6. ASSUME NEW r \in Requests, GiveUp(r) \/ LosesClient(r)
        PROVE  FALSE
    <3>1. Reject(Of(request[r].entry)) /\ request[r].entry = entry
      BY <2>1, <2>6 DEF GiveUp, LosesClient, Abandon
    <3>2. Last \in Of(request[r].entry)
      BY <2>2, <2>5, <3>1, PromptFacts DEF Of
    <3>. QED BY <2>2, <2>3, <3>1, <3>2, RejectFacts
  <2>7. entry' = entry
    BY <2>1, <2>2, <2>4, <2>6, <1>3 DEF LoginNext, Connect, Resume, Begins, AsksOn, Ask, Accepts, Fails, Expire, Timer,
       Crash, VerifyTelegram, Answer, Refused, Seen, Save, RemoveKey, Forget, prompts, Progress, NotAsked, SamePrompts
  <2>. QED BY <2>2, <2>3, <2>5, <2>7
<1>. QED BY <1>2, <1>3, PromptStep

LEMMA FailsStep ==
  ASSUME LoginTypeOK, Aligned, AnsweredRight, FailsForCause, LoginNext
  PROVE  FailsForCause'
<1>1. SUFFICES ASSUME NEW r \in Requests, request'[r] # Idle, request'[r].pc = "failed", Right(r)',
                      request'[r].cause = {}
               PROVE  "broken" \in causes'
  BY DEF FailsForCause, Right
<1>2. causes \subseteq causes' /\ hasPassword' = hasPassword
  BY HistoriesGrow, PromptStep DEF NotAsked, Asked
<1>3. CASE LosesClient(r)
  BY <1>3 DEF LosesClient, Abandon
<1>4. CASE GiveUp(r)
  <2>1. request[r] # Idle /\ request[r].pc = "polling" /\ tdl # "ready" /\ Abandon(r, {})
    BY <1>4, RequestFacts DEF GiveUp, Pc
  <2>2. request[r].cause = {} /\ ~Slow /\ request'[r].answers = request[r].answers
    BY <1>1, <2>1, AbandonMoves
  <2>3. Provided \/ "broken" \in causes
    BY <1>1, <1>2, <2>1, <2>2 DEF AnsweredRight, Right
  <2>. QED BY <1>2, <2>1, <2>2, <2>3 DEF Provided, Slow
<1>5. CASE ~LosesClient(r) /\ ~GiveUp(r)
  <2>1. request'[r] = request[r]
    <3>1. CASE Crash
      BY <1>1, <3>1, CrashMoves
    <3>2. CASE \E q \in Requests \ {r} : RequestStep(q)
      BY <3>2, RequestMoves DEF Moves
    <3>3. CASE RequestStep(r)
      <4>1. CASE VerifyTelegram(r)
        BY <1>1, <4>1, VerifyMoves DEF Moves
      <4>2. CASE Answer(r)
        BY <1>1, <4>2, AnswerMoves DEF Moves
      <4>3. CASE Refused(r) \/ Seen(r) \/ Save(r) \/ RemoveKey(r) \/ Forget(r)
        BY <1>1, <4>3, LoginGotoFacts, RequestFacts DEF Refused, Seen, Save, RemoveKey, Forget, Moves, Pc
      <4>. QED BY <1>5, <3>3, <4>1, <4>2, <4>3 DEF RequestStep
    <3>4. CASE ~Crash /\ ~ \E q \in Requests : RequestStep(q)
      BY <3>4 DEF LoginNext, RequestStep, Connect, Resume, Begins, AsksOn, Accepts, Fails, Expire, Timer
    <3>. QED BY <3>1, <3>2, <3>3, <3>4
  <2>. QED BY <1>1, <1>2, <2>1 DEF FailsForCause, Right
<1>. QED BY <1>3, <1>4, <1>5

LEMMA SavedStep ==
  ASSUME LoginTypeOK, Awaited, NewLogin, AuthorisedIsSaved, LoginNext
  PROVE  AuthorisedIsSaved'
<1>. DEFINE Named == {"late", "broken", "unsaved", "crashed"}
            Waits(q) == request[q] # Idle /\ request[q].pc \in {"polling", "saving"}
<1>1. causes \subseteq causes' /\ (saved => saved')
  BY HistoriesGrow
<1>2. SUFFICES ASSUME authorised', ~saved', causes' \cap Named = {}
               PROVE  \E q \in Requests : request'[q] # Idle /\ request'[q].pc \in {"polling", "saving"}
  BY DEF AuthorisedIsSaved
<1>3. CASE Accepts
  <2>1. PICK r \in Requests : request[r].pc = "polling"
    BY <1>1, <1>2, <1>3 DEF Accepts, Awaited, Polling
  <2>2. request' = request /\ request[r] # Idle
    BY <1>3, <2>1, RequestFacts DEF Accepts, Pc
  <2>. QED BY <2>1, <2>2
<1>4. CASE ~Accepts
  <2>1. authorised
    BY <1>2, <1>4 DEF LoginNext, Connect, Resume, Begins, AsksOn, Fails, Expire, Timer, Crash,
       VerifyTelegram, Answer, Refused, Seen, GiveUp, LosesClient, Abandon, Save, RemoveKey, Forget, tdlib
  <2>2. tdl = "ready" /\ ~Crash
    BY <1>1, <1>2, <2>1 DEF NewLogin, Crash
  <2>3. PICK r \in Requests : Waits(r)
    BY <1>1, <1>2, <2>1 DEF AuthorisedIsSaved
  <2>4. CASE Seen(r)
    BY <2>3, <2>4, LoginGotoFacts DEF Seen, Moves, Pc
  <2>5. CASE ~Seen(r)
    <3>1. ~GiveUp(r) /\ ~LosesClient(r) /\ ~Save(r)
      BY <1>2, <2>2 DEF GiveUp, LosesClient, Save, Abandon
    <3>2. request'[r] = request[r]
      <4>1. CASE \E q \in Requests \ {r} : RequestStep(q)
        BY <4>1, RequestMoves DEF Moves
      <4>2. CASE RequestStep(r)
        BY <2>3, <2>5, <3>1, <4>2 DEF RequestStep, VerifyTelegram, Answer, Refused, RemoveKey, Forget
      <4>3. CASE ~ \E q \in Requests : RequestStep(q)
        BY <2>2, <4>3 DEF LoginNext, RequestStep, Connect, Resume, Begins, AsksOn, Accepts, Fails, Expire, Timer
      <4>. QED BY <4>1, <4>2, <4>3
    <3>. QED BY <2>3, <3>2
  <2>. QED BY <2>4, <2>5
<1>. QED BY <1>3, <1>4

-----------------------------------------------------------------------------
(* TelegramLogin: the theorems *)

LEMMA LoginInvInit == LoginInit => LoginTypeOK /\ LoginInv
<1>. SUFFICES ASSUME LoginInit PROVE LoginTypeOK /\ LoginInv
  OBVIOUS
<1>1. LoginTypeOK
  <2>1. prompt \in Seq([kind : Kinds, state : {"pending", "right", "wrong", "rejected"}]) /\ Len(prompt) = 0
    BY DEF LoginInit
  <2>2. resolves \in [Prompts -> [Kinds -> Prompts \cup {NoPrompt}]]
    BY DEF LoginInit
  <2>3. /\ tdl \in {"none", "starting", "asks", "ready", "failed", "gone"}
        /\ entry \in Prompts \cup {NoPrompt} /\ fired = 0 /\ mishaps = 0
    BY DEF LoginInit
  <2>4. hasPassword \in BOOLEAN /\ key \in BOOLEAN /\ expired \in BOOLEAN
        /\ authorised \in BOOLEAN /\ saved \in BOOLEAN
    BY DEF LoginInit
  <2>5. request \in [Requests -> {Idle} \cup Record]
    BY DEF LoginInit
  <2>. QED BY <2>1, <2>2, <2>3, <2>4, <2>5, LoginAssumption DEF LoginTypeOK, Record
<1>2. \A r \in Requests : request[r] = Idle /\ request[r].pc = "idle"
  BY DEF LoginInit, Idle
<1>3. Aligned /\ Renewed /\ NewLogin /\ Awaited
  BY DEF LoginInit, Aligned, Renewed, NewLogin, Awaited
<1>4. Progress /\ AnsweredRight
  BY <1>2 DEF Progress, AnsweredRight
<1>5. AskedIsAnswerable /\ FailsForCause /\ AuthorisedIsSaved
  BY <1>2 DEF LoginInit, AskedIsAnswerable, FailsForCause, AuthorisedIsSaved
<1>. QED BY <1>1, <1>3, <1>4, <1>5 DEF LoginInv

LEMMA LoginInvStep ==
  ASSUME LoginTypeOK, LoginInv, [LoginNext]_loginVars
  PROVE  LoginTypeOK' /\ LoginInv'
<1>1. CASE LoginNext
  BY <1>1, LoginTypeStep, AlignedStep, ProgressStep, RenewedStep, AnsweredRightStep, AwaitedStep, NewLoginStep,
     AnswerableStep, FailsStep, SavedStep DEF LoginInv
<1>2. CASE UNCHANGED loginVars
  <2>1. LoginTypeOK'
    BY <1>2 DEF loginVars, tdlib, prompts, LoginTypeOK
  <2>2. Aligned' /\ Progress' /\ Renewed' /\ AnsweredRight' /\ Awaited' /\ NewLogin'
    BY <1>2 DEF LoginInv, loginVars, tdlib, prompts, Aligned, Progress, Renewed, AnsweredRight, Awaited, NewLogin,
       Provided, Final, Polling, Right, Last
  <2>3. AskedIsAnswerable' /\ FailsForCause' /\ AuthorisedIsSaved'
    BY <1>2 DEF LoginInv, loginVars, tdlib, prompts, AskedIsAnswerable, FailsForCause, AuthorisedIsSaved,
       Pending, Right, Last
  <2>. QED BY <2>1, <2>2, <2>3 DEF LoginInv
<1>. QED BY <1>1, <1>2

LEMMA LoginSafe == LoginSpec => [](LoginTypeOK /\ LoginInv)
<1>1. LoginTypeOK /\ LoginInv /\ [LoginNext]_loginVars => (LoginTypeOK /\ LoginInv)'
  BY LoginInvStep
<1>. QED BY <1>1, LoginInvInit, PTL DEF LoginSpec

\* Prompts, resolvers and requests keep the shape the code gives them.
THEOREM LoginTypeCorrect == LoginSpec => []LoginTypeOK
BY LoginSafe, PTL

\* While the login may be verified, the map of AuthService has the resolver of the
\* prompt TDLib waits for, unless a failed request took the entry of a later one.
THEOREM AlwaysAnswerable == LoginSpec => []AskedIsAnswerable
<1>1. LoginInv => AskedIsAnswerable
  BY DEF LoginInv
<1>. QED BY <1>1, LoginSafe, PTL

\* A verification with the right answers only fails for a named cause.
THEOREM AlwaysFailsForCause == LoginSpec => []FailsForCause
<1>1. LoginInv => FailsForCause
  BY DEF LoginInv
<1>. QED BY <1>1, LoginSafe, PTL

\* A login on disk is stored, or about to be, or was left out for a named cause.
THEOREM AlwaysSaved == LoginSpec => []AuthorisedIsSaved
<1>1. LoginInv => AuthorisedIsSaved
  BY DEF LoginInv
<1>. QED BY <1>1, LoginSafe, PTL
=============================================================================
