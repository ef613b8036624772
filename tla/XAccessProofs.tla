----------------------------- MODULE XAccessProofs -----------------------------
(* Proofs about XAccess for any sends, limit, number of grants and mishaps. *)
EXTENDS XAccess, FiniteSetTheorems, TLAPS

CallerRecord == [pc : Pc, round : 1 .. 2, old : Grants \cup {None}, new : Grants \cup {None}]

\* A token that was granted and is not stored yet is nobody else's: it can be used,
\* it is not the stored one and nobody is using it.
Unstored == {t \in live : t # session.token /\ \A d \in Callers : t # caller[d].old}
GrantsApart ==
  /\ \A t \in live : t <= granted
  /\ session.token <= granted
  /\ \A c \in Callers : caller[c].old <= granted
  /\ \A c \in Callers : At(c, "save") =>
       /\ caller[c].new \in Unstored
       /\ caller[c].new # login
       /\ \A d \in Callers : d # c /\ At(d, "save") => caller[d].new # caller[c].new
  /\ login # None => login \in Unstored

\* A counter that is there expires, but for one that expired under an increment.
CountersExpire == \A k \in Counters : counter[k] # Nothing => counter[k].expires \/ k \in raced

\* The calls X received and answered: those the code counts.
Answered(k) == calls[k] - failed[k]

\* A poll that was let through finds its counter below the limit, and no answered
\* call of the poll is missing from the counter but the one about to be counted.
PollCounted ==
  \/ blind
  \/ LET value == counter["poll"].value
         pc == caller[Poller].pc IN
       /\ redis
       /\ Answered("poll") <= Limit
       /\ Answered("poll") <= value + (IF pc \in {"count", "set", "incr"} THEN 1 ELSE 0)
       /\ pc = "set" => value = 0
       /\ pc \in {"token", "call"} \/ caller[Poller].round = 2 => value < Limit

\* How many sends are where: those that will not start the counter anew, those that
\* have nothing to count, those that are let through and have not called yet, and
\* those that have called but may find no counter.
Num(places) == Cardinality({c \in Sends : caller[c].pc \in places})
Settled == Num(Pc \ {"set"})
Free == Num(Pc \ {"count", "set", "incr"})
LetThrough == Num({"token", "refresh", "save", "call"})
Uncounted == Num({"count", "set"})

\* The calls that can be made before the counter stands at its limit and all that
\* were let through have called, if no send starts it anew.
Ahead ==
  IF counter["send"].value < Limit THEN Free + Limit - counter["send"].value - 1 ELSE LetThrough

\* Twice the calls, beyond one for each send, that n sends make by starting the
\* counter anew one after the other.
Restarts(n) == n * (2 * Limit + n - 3)

\* Without a counter the calls are those about to be counted; with one they and those
\* ahead are within what the sends that have started it anew so far let through.
SendsCounted ==
  \/ blind
  \/ /\ redis
     /\ counter["send"].value = 0 => Answered("send") <= Uncounted
     /\ counter["send"].value > 0 =>
          2 * (Answered("send") + Ahead) <= Restarts(Settled) + 2 * Cardinality(Sends)

\* When calls may have gone uncounted, none is claimed.
Unclaimed == blind => \A k \in Counters : calls[k] = 0 /\ failed[k] = 0

\* The inductive invariant.
AccessSound ==
  /\ TypeOK
  /\ GrantsApart
  /\ SessionLives
  /\ CountersExpire
  /\ PollCounted
  /\ SendsCounted
  /\ Unclaimed

\* Who is where.
LEMMA NumFacts ==
  ASSUME TypeOK
  PROVE  /\ Settled \in Nat /\ Free \in Nat /\ LetThrough \in Nat /\ Uncounted \in Nat
         /\ Cardinality(Sends) \in Nat
         /\ LetThrough <= Free /\ Free <= Settled /\ Settled <= Cardinality(Sends)
         /\ Uncounted + Free <= Cardinality(Sends)
<1>. DEFINE In(P) == {c \in Sends : caller[c].pc \in P}
            S == In(Pc \ {"set"})
            F == In(Pc \ {"count", "set", "incr"})
            L == In({"token", "refresh", "save", "call"})
            U == In({"count", "set"})
<1>1. IsFiniteSet(Sends) /\ IsFiniteSet(S) /\ IsFiniteSet(F) /\ IsFiniteSet(L) /\ IsFiniteSet(U)
  BY ConstantsAssumption, FS_Subset
<1>2. L \subseteq F /\ F \subseteq S /\ S \subseteq Sends
  BY DEF Pc
<1>3. U \cap F = {} /\ U \cup F \subseteq Sends
  OBVIOUS
<1>4. Settled = Cardinality(S) /\ Free = Cardinality(F) /\ LetThrough = Cardinality(L) /\ Uncounted = Cardinality(U)
  BY DEF Settled, Free, LetThrough, Uncounted, Num
<1>. HIDE DEF S, F, L, U
<1>5. /\ Cardinality(Sends) \in Nat /\ Cardinality(S) \in Nat /\ Cardinality(F) \in Nat
      /\ Cardinality(L) \in Nat /\ Cardinality(U) \in Nat
  BY <1>1, FS_CardinalityType
<1>6. Cardinality(L) <= Cardinality(F) /\ Cardinality(F) <= Cardinality(S) /\ Cardinality(S) <= Cardinality(Sends)
  BY <1>1, <1>2, FS_Subset
<1>7. Cardinality(U) + Cardinality(F) <= Cardinality(Sends)
  <2>1. Cardinality(U \cup F) = Cardinality(U) + Cardinality(F) - Cardinality(U \cap F)
    BY <1>1, FS_Union
  <2>2. Cardinality(U \cap F) = 0
    BY <1>3, FS_EmptySet
  <2>3. Cardinality(U \cup F) <= Cardinality(Sends)
    BY <1>1, <1>3, FS_Subset
  <2>. QED BY <1>5, <2>1, <2>2, <2>3
<1>. QED BY <1>4, <1>5, <1>6, <1>7

LEMMA AccessSoundInit == Init => AccessSound
<1>. SUFFICES ASSUME Init PROVE AccessSound
  OBVIOUS
<1>. USE ConstantsAssumption DEF Init
<1>g. 1 \in Grants
  BY DEF Grants
<1>c. \A c \in Callers : caller[c] = AtRest
  OBVIOUS
<1>1. TypeOK
  <2>1. AtRest \in CallerRecord
    BY DEF AtRest, CallerRecord, Pc
  <2>2. Nothing \in [value : Nat, expires : BOOLEAN]
    BY DEF Nothing
  <2>3. /\ caller \in [Callers -> CallerRecord]
        /\ counter \in [Counters -> [value : Nat, expires : BOOLEAN]]
        /\ calls \in [Counters -> Nat] /\ failed \in [Counters -> Nat]
    BY <2>1, <2>2
  <2>4. granted \in Grants /\ live \subseteq Grants /\ session \in [token : Grants, fresh : BOOLEAN]
    BY <1>g
  <2>5. mishaps \in 0 .. MaxMishaps
    OBVIOUS
  <2>. QED BY <2>3, <2>4, <2>5 DEF TypeOK, CallerRecord
<1>2. GrantsApart
  BY <1>c DEF GrantsApart, Unstored, At, AtRest, None
<1>3. SessionLives /\ CountersExpire
  BY DEF SessionLives, CountersExpire
<1>4. PollCounted
  BY <1>c DEF PollCounted, Answered, Callers, Counters, Nothing, AtRest
<1>5. SendsCounted
  <2>1. counter["send"].value = 0 /\ Answered("send") = 0 /\ redis
    BY DEF Counters, Nothing, Answered
  <2>2. Uncounted \in Nat
    BY <1>1, NumFacts
  <2>. QED BY <2>1, <2>2 DEF SendsCounted
<1>6. Unclaimed
  BY DEF Unclaimed
<1>. QED BY <1>1, <1>2, <1>3, <1>4, <1>5, <1>6 DEF AccessSound

-----------------------------------------------------------------------------
\* Wherever a caller goes with or without a token it holds none.
LEMMA ProvidedFacts ==
  ASSUME TypeOK, NEW c \in Callers
  PROVE  /\ AtRest \in CallerRecord /\ Provided(c) \in CallerRecord /\ Refused(c) \in CallerRecord
         /\ AtRest.pc = "idle" /\ AtRest.old = None /\ AtRest.round = 1
         /\ Provided(c).pc \in {"check", "call"} /\ Provided(c).old = None /\ Provided(c).round = 1
         /\ Refused(c).pc \in {"check", "call", "idle"} /\ Refused(c).old = None
         /\ Refused(c).round = 1
         /\ c = Poller /\ Provided(c).pc = "call" => caller[c].round = 2
         /\ c = Poller /\ Refused(c).pc = "call" => caller[c].round = 2
BY DEF AtRest, Provided, Refused, CallerRecord, Pc, TypeOK

\* Steps that leave the tokens and the login alone: the callers keep their tokens
\* or drop them, none of those about to store one moves.
LEMMA TokensKept ==
  ASSUME AccessSound, UNCHANGED <<granted, live, lost, login>>, session'.token = session.token,
         \A c \in Callers : caller'[c].old \in {caller[c].old, session.token, None},
         \A c \in Callers : caller'[c].pc = "save" <=> caller[c].pc = "save",
         \A c \in Callers : caller[c].pc = "save" => caller'[c] = caller[c]
  PROVE  GrantsApart' /\ SessionLives'
<1>. USE DEF AccessSound
<1>1. None \notin live /\ granted \in Nat /\ None <= granted
  BY DEF TypeOK, Grants, None
<1>2. Unstored \subseteq Unstored'
  BY <1>1 DEF Unstored
<1>3. GrantsApart'
  <2>1. \A c \in Callers : caller'[c].old <= granted'
    BY <1>1 DEF GrantsApart
  <2>2. \A c \in Callers : At(c, "save")' =>
          /\ caller'[c].new \in Unstored'
          /\ caller'[c].new # login'
          /\ \A d \in Callers : d # c /\ At(d, "save")' => caller'[d].new # caller'[c].new
    BY <1>2 DEF GrantsApart, At, Unstored
  <2>4. login' # None => login \in Unstored'
    BY <1>2 DEF GrantsApart, Unstored
  <2>. QED BY <2>1, <2>2, <2>4 DEF GrantsApart
<1>4. SessionLives'
  BY DEF SessionLives, Replacing, At
<1>. QED BY <1>3, <1>4

\* A call that fails leaves the answered ones as they are; so does whatever leaves
\* both numbers alone.
LEMMA AnsweredKept ==
  ASSUME TypeOK, \/ UNCHANGED <<calls, failed>>
                 \/ \E c \in Callers : AnswerFails(c)
  PROVE  \A k \in Counters : Answered(k)' = Answered(k) /\ Answered(k) \in Int
<1>. SUFFICES ASSUME NEW k \in Counters PROVE Answered(k)' = Answered(k) /\ Answered(k) \in Int
  OBVIOUS
<1>1. calls[k] \in Nat /\ failed[k] \in Nat
  BY DEF TypeOK
<1>2. CASE UNCHANGED <<calls, failed>>
  BY <1>1, <1>2 DEF Answered
<1>3. ASSUME NEW c \in Callers, AnswerFails(c) PROVE Answered(k)' = Answered(k)
  <2>1. CASE blind \/ KeyOf(c) # k
    <3>1. calls'[k] = calls[k] /\ failed'[k] = failed[k]
      BY <1>3, <2>1 DEF AnswerFails, Received, TypeOK
    <3>. QED BY <3>1 DEF Answered
  <2>2. CASE ~blind /\ KeyOf(c) = k
    <3>1. calls'[k] = calls[k] + 1 /\ failed'[k] = failed[k] + 1
      BY <1>3, <2>2 DEF AnswerFails, Received, TypeOK
    <3>. QED BY <1>1, <3>1 DEF Answered
  <2>. QED BY <2>1, <2>2
<1>. QED BY <1>1, <1>2, <1>3 DEF Answered

\* Steps that leave all counters alone do not disturb their expiry, nor the poll's
\* count as long as the poll goes where it may.
LEMMA LimitsKept ==
  ASSUME AccessSound, UNCHANGED <<counter, redis, raced, blind>>, Answered("poll")' = Answered("poll"),
         \/ caller'[Poller] = caller[Poller]
         \/ /\ caller[Poller].pc \notin {"count", "set", "incr"}
            /\ caller'[Poller].pc \notin {"count", "set", "incr"}
            /\ \/ caller'[Poller].pc \notin {"token", "call"} /\ caller'[Poller].round = 1
               \/ caller[Poller].pc \in {"token", "call"} \/ caller[Poller].round = 2
  PROVE  CountersExpire' /\ PollCounted'
BY DEF AccessSound, CountersExpire, PollCounted

\* Every step keeps the types.
LEMMA TypeStep == AccessSound /\ [Next]_vars => TypeOK'
<1>. SUFFICES ASSUME AccessSound, [Next]_vars PROVE TypeOK'
  OBVIOUS
<1>. USE ConstantsAssumption
<1>t. TypeOK /\ caller \in [Callers -> CallerRecord]
  BY DEF AccessSound, TypeOK, CallerRecord
<1>m. Mishap => mishaps' \in 0 .. MaxMishaps
  BY <1>t DEF TypeOK, Mishap
<1>g. Grant => granted' \in Grants
  BY <1>t DEF Grant, TypeOK, Grants
<1>r. AtRest \in CallerRecord
  BY DEF AtRest, CallerRecord, Pc
<1>k. \A c \in Callers : KeyOf(c) \in Counters
  BY DEF KeyOf, Counters
\* A step of one caller keeps the callers' types when its new record is one.
<1>c. ASSUME NEW c \in Callers, NEW r \in CallerRecord, caller' = [caller EXCEPT ![c] = r]
      PROVE  caller' \in [Callers -> CallerRecord]
  BY <1>t, <1>c
<1>p. ASSUME NEW c \in Callers, NEW pc \in Pc
      PROVE  [caller[c] EXCEPT !.pc = pc] \in CallerRecord
  BY <1>t DEF CallerRecord
<1>1. ASSUME NEW c \in Callers, ReadSession(c) PROVE TypeOK'
  <2>. DEFINE r == IF session.fresh THEN Provided(c)
                   ELSE [caller[c] EXCEPT !.pc = "refresh", !.old = session.token]
  <2>1. [caller[c] EXCEPT !.pc = "refresh", !.old = session.token] \in CallerRecord
    <3>1. caller[c] \in CallerRecord /\ session.token \in Grants
      BY <1>t DEF TypeOK
    <3>2. "refresh" \in Pc
      BY DEF Pc
    <3>. QED BY <3>1, <3>2 DEF CallerRecord
  <2>2. r \in CallerRecord
    BY <1>t, <2>1, ProvidedFacts
  <2>3. caller' = [caller EXCEPT ![c] = r]
    BY <1>1 DEF ReadSession
  <2>. QED BY <1>1, <1>c, <1>t, <2>2, <2>3 DEF ReadSession, TypeOK, CallerRecord, tokens, limits
<1>2. ASSUME NEW c \in Callers, Refresh(c) PROVE TypeOK'
  <2>0. UNCHANGED <<session, lost, login, limits, mishaps>>
    BY <1>2 DEF Refresh
  <2>1. CASE caller[c].old \in live
    <3>1. Grant /\ live' = (live \ {caller[c].old}) \cup {granted'}
      BY <1>2, <2>1 DEF Refresh
    <3>2. caller' = [caller EXCEPT ![c] = [caller[c] EXCEPT !.pc = "save", !.new = granted']]
      BY <1>2, <1>t, <2>1 DEF Refresh, CallerRecord
    <3>3. [caller[c] EXCEPT !.pc = "save", !.new = granted'] \in CallerRecord
      BY <1>t, <1>g, <3>1 DEF CallerRecord, Pc
    <3>. QED BY <1>c, <1>t, <1>g, <2>0, <3>1, <3>2, <3>3 DEF TypeOK, CallerRecord, limits
  <2>2. CASE caller[c].old \notin live
    <3>1. caller' = [caller EXCEPT ![c] = Refused(c)] /\ UNCHANGED <<granted, live>>
      BY <1>2, <2>2 DEF Refresh
    <3>. QED BY <1>c, <1>t, <2>0, <3>1, ProvidedFacts DEF TypeOK, CallerRecord, limits
  <2>. QED BY <2>1, <2>2
<1>3. ASSUME NEW c \in Callers, Save(c) PROVE TypeOK'
  <2>1. caller[c].new \in Grants
    BY <1>t, <1>3 DEF AccessSound, GrantsApart, Save, Unstored, TypeOK
  <2>. QED BY <1>3, <1>c, <1>t, <2>1, ProvidedFacts DEF Save, TypeOK, CallerRecord, limits
<1>4. ASSUME NEW c \in Callers, RefreshFails(c) PROVE TypeOK'
  <2>1. /\ live' \subseteq live /\ lost' \in BOOLEAN /\ Mishap
        /\ caller' = [caller EXCEPT ![c] = Refused(c)]
        /\ UNCHANGED <<granted, session, login, limits>>
    BY <1>4, <1>t DEF RefreshFails, TypeOK
  <2>. QED BY <1>c, <1>m, <1>t, <2>1, ProvidedFacts DEF TypeOK, CallerRecord, limits
<1>5. ASSUME NEW c \in Callers, Check(c) PROVE TypeOK'
  <2>. DEFINE r == IF Value(KeyOf(c)) >= Limit THEN AtRest
                   ELSE [caller[c] EXCEPT !.pc = "token", !.round = 2]
  <2>1. [caller[c] EXCEPT !.pc = "token", !.round = 2] \in CallerRecord
    <3>1. caller[c] \in CallerRecord /\ 2 \in 1 .. 2 /\ "token" \in Pc
      BY <1>t DEF Pc
    <3>. QED BY <3>1 DEF CallerRecord
  <2>2. r \in CallerRecord
    BY <1>r, <2>1
  <2>3. caller' = [caller EXCEPT ![c] = r]
    BY <1>5 DEF Check
  <2>. QED BY <1>5, <1>c, <1>t, <2>2, <2>3 DEF Check, TypeOK, CallerRecord, tokens, limits
<1>6. ASSUME NEW c \in Callers, CallX(c) PROVE TypeOK'
  <2>1. calls' \in [Counters -> Nat]
    BY <1>6, <1>k, <1>t DEF CallX, Received, TypeOK
  <2>2. caller' \in [Callers -> CallerRecord]
    BY <1>6, <1>c, <1>p DEF CallX, Goto, Pc
  <2>. QED BY <1>6, <1>t, <2>1, <2>2 DEF CallX, TypeOK, CallerRecord, tokens
<1>7. ASSUME NEW c \in Callers, CallFails(c) PROVE TypeOK'
  BY <1>7, <1>c, <1>r, <1>t DEF CallFails, TypeOK, CallerRecord, tokens, limits
<1>17. ASSUME NEW c \in Callers, AnswerFails(c) PROVE TypeOK'
  <2>1. calls' \in [Counters -> Nat] /\ failed' \in [Counters -> Nat]
    BY <1>17, <1>k, <1>t DEF AnswerFails, Received, TypeOK
  <2>2. caller' \in [Callers -> CallerRecord]
    BY <1>17, <1>c, <1>r DEF AnswerFails
  <2>. QED BY <1>17, <1>m, <1>t, <2>1, <2>2 DEF AnswerFails, TypeOK, CallerRecord, tokens
<1>8. ASSUME NEW c \in Callers, Count(c) PROVE TypeOK'
  <2>1. caller' \in [Callers -> CallerRecord]
    BY <1>8, <1>c, <1>p DEF Count, Goto, Pc
  <2>. QED BY <1>8, <1>t, <2>1 DEF Count, TypeOK, CallerRecord, tokens, limits
<1>9. ASSUME NEW c \in Callers, Set(c) PROVE TypeOK'
  <2>1. counter' \in [Counters -> [value : Nat, expires : BOOLEAN]]
    BY <1>9, <1>t, <1>k DEF Set, TypeOK
  <2>. QED BY <1>9, <1>c, <1>r, <1>t, <2>1 DEF Set, TypeOK, CallerRecord, tokens
<1>10. ASSUME NEW c \in Callers, Incr(c) PROVE TypeOK'
  <2>1. counter' \in [Counters -> [value : Nat, expires : BOOLEAN]]
    BY <1>10, <1>t, <1>k DEF Incr, TypeOK
  <2>2. raced' \subseteq Counters
    BY <1>10, <1>t, <1>k DEF Incr, TypeOK
  <2>. QED BY <1>10, <1>c, <1>r, <1>t, <2>1, <2>2 DEF Incr, TypeOK, CallerRecord, tokens
<1>11. CASE TokenExpires
  BY <1>11, <1>t DEF TokenExpires, TypeOK, limits
<1>12. CASE LoginGrants \/ LoginSaves \/ LoginFails
  <2>1. CASE LoginGrants
    BY <1>g, <1>t, <2>1 DEF LoginGrants, TypeOK, limits
  <2>2. CASE LoginSaves
    <3>1. login \in Grants
      BY <1>t, <2>2 DEF LoginSaves, TypeOK
    <3>. QED BY <1>t, <2>2, <3>1 DEF LoginSaves, TypeOK, limits
  <2>3. CASE LoginFails
    BY <1>m, <1>t, <2>3 DEF LoginFails, TypeOK, tokens, limits
  <2>. QED BY <1>12, <2>1, <2>2, <2>3
<1>13. ASSUME NEW k \in Counters, Expire(k) PROVE TypeOK'
  BY <1>13, <1>t DEF Expire, TypeOK, tokens, Nothing
<1>14. CASE RedisChanges
  BY <1>14, <1>m, <1>t DEF RedisChanges, TypeOK, tokens
<1>15. CASE Crash
  <2>1. /\ blind' \in BOOLEAN /\ lost' \in BOOLEAN
        /\ calls' \in [Counters -> Nat] /\ failed' \in [Counters -> Nat]
        /\ caller' \in [Callers -> CallerRecord]
    BY <1>15, <1>r, <1>t DEF Crash, TypeOK
  <2>. QED BY <1>15, <1>m, <1>t, <2>1 DEF Crash, TypeOK, CallerRecord
<1>16. CASE UNCHANGED vars
  BY <1>16, <1>t DEF vars, tokens, limits, TypeOK
<1>. QED
  BY <1>1, <1>2, <1>3, <1>4, <1>5, <1>6, <1>7, <1>8, <1>9, <1>10, <1>11, <1>12, <1>13, <1>14,
     <1>15, <1>16, <1>17
     DEF Next, CallerStep

\* Every step keeps the tokens apart and the session alive.
LEMMA TokensStep == AccessSound /\ [Next]_vars => GrantsApart' /\ SessionLives'
<1>. SUFFICES ASSUME AccessSound, [Next]_vars PROVE GrantsApart' /\ SessionLives'
  OBVIOUS
<1>. USE ConstantsAssumption
<1>t. TypeOK /\ caller \in [Callers -> CallerRecord] /\ GrantsApart /\ SessionLives
  BY DEF AccessSound, TypeOK, CallerRecord
<1>n. None \notin live /\ granted \in Nat /\ None <= granted /\ \A x \in live : x \in Nat
  BY <1>t DEF TypeOK, Grants, None
\* A step of one caller that is not about to store a token and leaves the tokens be.
<1>k. ASSUME NEW c \in Callers, NEW r, caller' = [caller EXCEPT ![c] = r],
             ~At(c, "save"), r.pc # "save", r.old \in {caller[c].old, session.token, None},
             UNCHANGED <<granted, live, lost, login>>, session'.token = session.token
      PROVE  GrantsApart' /\ SessionLives'
  <2>1. /\ \A d \in Callers : d # c => caller'[d] = caller[d]
        /\ caller'[c] = r
    BY <1>t, <1>k
  <2>. QED BY <1>k, <2>1, TokensKept DEF At
<1>0. ASSUME UNCHANGED <<tokens, login, caller>> PROVE GrantsApart' /\ SessionLives'
  BY <1>0, TokensKept DEF tokens
<1>1. ASSUME NEW c \in Callers, ReadSession(c) PROVE GrantsApart' /\ SessionLives'
  <2>. DEFINE r == IF session.fresh THEN Provided(c)
                   ELSE [caller[c] EXCEPT !.pc = "refresh", !.old = session.token]
  <2>1. caller' = [caller EXCEPT ![c] = r] /\ ~At(c, "save") /\ UNCHANGED <<tokens, login>>
    BY <1>1 DEF ReadSession, At
  <2>2. r.pc # "save" /\ r.old \in {session.token, None}
    <3>1. [caller[c] EXCEPT !.pc = "refresh", !.old = session.token].old = session.token
      BY <1>t DEF CallerRecord
    <3>2. [caller[c] EXCEPT !.pc = "refresh", !.old = session.token].pc = "refresh"
      BY <1>t DEF CallerRecord
    <3>. QED BY <1>t, <3>1, <3>2, ProvidedFacts
  <2>. QED BY <1>k, <2>1, <2>2 DEF tokens
<1>2. ASSUME NEW c \in Callers, Refresh(c) PROVE GrantsApart' /\ SessionLives'
  <2>0. At(c, "refresh") /\ UNCHANGED <<session, lost, login>>
    BY <1>2 DEF Refresh
  <2>1. CASE caller[c].old \in live
    <3>1. /\ granted' = granted + 1 /\ live' = (live \ {caller[c].old}) \cup {granted + 1}
          /\ caller' = [caller EXCEPT ![c].pc = "save", ![c].new = granted + 1]
      BY <1>2, <2>1 DEF Refresh, Grant
    <3>2. /\ \A d \in Callers : d # c => caller'[d] = caller[d]
          /\ caller'[c].pc = "save" /\ caller'[c].old = caller[c].old /\ caller'[c].new = granted + 1
      BY <1>t, <3>1 DEF CallerRecord
    <3>3. /\ \A t \in live : t <= granted
          /\ session.token <= granted
          /\ \A d \in Callers : caller[d].old <= granted
          /\ login # None => login \in live
          /\ \A d \in Callers : At(d, "save") => caller[d].new \in live
      BY <1>t DEF GrantsApart, Unstored
    <3>n. session.token \in Nat /\ \A d \in Callers : caller[d].old \in Nat
      BY <1>t DEF TypeOK, Grants, CallerRecord, None
    <3>o. \A d \in Callers : caller'[d].old = caller[d].old
      BY <3>2
    <3>4. granted + 1 \in Unstored'
      <4>1. granted + 1 # session.token /\ \A d \in Callers : granted + 1 # caller[d].old
        BY <1>n, <3>3, <3>n
      <4>. QED BY <2>0, <3>1, <3>o, <4>1 DEF Unstored
    <3>5. Unstored \subseteq Unstored'
      BY <2>0, <3>1, <3>2 DEF Unstored
    <3>6. \A t \in live' : t <= granted'
      BY <1>n, <3>1, <3>3
    <3>7. /\ session'.token <= granted'
          /\ \A d \in Callers : caller'[d].old <= granted'
      <4>1. \A x \in Nat : x <= granted => x <= granted + 1
        BY <1>n
      <4>2. session' = session /\ granted' = granted + 1
        BY <2>0, <3>1
      <4>. QED BY <3>3, <3>n, <3>o, <4>1, <4>2
    <3>8. \A d \in Callers : At(d, "save")' =>
            /\ caller'[d].new \in Unstored'
            /\ caller'[d].new # login'
            /\ \A e \in Callers : e # d /\ At(e, "save")' => caller'[e].new # caller'[d].new
      <4>1. \A t \in live : t # granted + 1
        BY <1>n, <3>3
      <4>2. granted + 1 # login
        BY <1>n, <3>3, <4>1 DEF None
      <4>3. \A d \in Callers : d # c /\ At(d, "save")' => At(d, "save") /\ caller'[d].new = caller[d].new
        BY <3>2 DEF At
      <4>4. \A d \in Callers : At(d, "save") => caller[d].new \in live \cap Unstored
        BY <1>t DEF GrantsApart, Unstored
      <4>5. caller'[c].new \in Unstored'
        BY <3>2, <3>4
      <4>6. \A d \in Callers : d # c /\ At(d, "save")' => caller'[d].new \in Unstored'
        BY <3>5, <4>3, <4>4
      <4>. QED BY <1>t, <2>0, <3>2, <4>1, <4>2, <4>3, <4>4, <4>5, <4>6 DEF GrantsApart
    <3>9. login' # None => login' \in Unstored'
      BY <1>t, <2>0, <3>3, <3>5 DEF GrantsApart
    <3>10. GrantsApart'
      BY <3>6, <3>7, <3>8, <3>9 DEF GrantsApart
    <3>11. SessionLives'
      BY <1>t, <2>0, <2>1, <3>1, <3>2 DEF SessionLives, Replacing, At
    <3>. QED BY <3>10, <3>11
  <2>2. CASE caller[c].old \notin live
    <3>1. caller' = [caller EXCEPT ![c] = Refused(c)] /\ UNCHANGED <<granted, live>>
      BY <1>2, <2>2 DEF Refresh
    <3>. QED BY <1>k, <1>t, <2>0, <3>1, ProvidedFacts DEF At
  <2>. QED BY <2>1, <2>2
<1>3. ASSUME NEW c \in Callers, Save(c) PROVE GrantsApart' /\ SessionLives'
  <2>1. /\ At(c, "save") /\ session'.token = caller[c].new
        /\ caller' = [caller EXCEPT ![c] = Provided(c)]
        /\ UNCHANGED <<granted, live, login>>
    BY <1>3 DEF Save
  <2>2. /\ \A d \in Callers : d # c => caller'[d] = caller[d]
        /\ caller'[c].pc # "save" /\ caller'[c].old = None
    BY <1>t, <2>1, ProvidedFacts
  <2>3. caller[c].new \in Unstored /\ caller[c].new <= granted
    BY <1>t, <2>1 DEF GrantsApart, Unstored
  <2>4. GrantsApart'
    <3>1. \A t \in Unstored : t # caller[c].new => t \in Unstored'
      BY <1>n, <2>1, <2>2 DEF Unstored
    <3>2. \A d \in Callers : At(d, "save")' => d # c /\ At(d, "save") /\ caller'[d] = caller[d]
      BY <2>2 DEF At
    <3>3. \A d \in Callers : At(d, "save")' => caller'[d].new \in Unstored'
      BY <1>t, <2>1, <3>1, <3>2 DEF GrantsApart, Unstored
    <3>4. login' # None => login' \in Unstored'
      BY <1>t, <2>1, <3>1 DEF GrantsApart, Unstored
    <3>5. \A d \in Callers : caller'[d].old <= granted'
      BY <1>n, <1>t, <2>1, <2>2 DEF GrantsApart
    <3>. QED BY <1>t, <2>1, <2>3, <3>2, <3>3, <3>4, <3>5 DEF GrantsApart
  <2>5. SessionLives'
    BY <2>1, <2>3 DEF SessionLives, Unstored
  <2>. QED BY <2>4, <2>5
<1>4. ASSUME NEW c \in Callers, RefreshFails(c) PROVE GrantsApart' /\ SessionLives'
  <2>1. /\ live' \in {live, live \ {caller[c].old}}
        /\ At(c, "save") => live' = live
        /\ lost' = (lost \/ caller[c].old = session.token)
        /\ caller' = [caller EXCEPT ![c] = Refused(c)]
        /\ UNCHANGED <<granted, session, login>>
    BY <1>4 DEF RefreshFails, At
  <2>2. /\ \A d \in Callers : d # c => caller'[d] = caller[d]
        /\ caller'[c].pc # "save" /\ caller'[c].old = None
    BY <1>t, <2>1, ProvidedFacts
  <2>3. GrantsApart'
    <3>1. Unstored \subseteq Unstored'
      BY <1>n, <2>1, <2>2 DEF Unstored
    <3>2. \A d \in Callers : At(d, "save")' => d # c /\ At(d, "save") /\ caller'[d] = caller[d]
      BY <2>2 DEF At
    <3>3. \A d \in Callers : At(d, "save")' => caller'[d].new \in Unstored'
      BY <1>t, <3>1, <3>2 DEF GrantsApart, Unstored
    <3>4. login' # None => login' \in Unstored'
      BY <1>t, <2>1, <3>1 DEF GrantsApart, Unstored
    <3>5. \A d \in Callers : caller'[d].old <= granted'
      BY <1>n, <1>t, <2>1, <2>2 DEF GrantsApart
    <3>. QED BY <1>t, <2>1, <3>2, <3>3, <3>4, <3>5 DEF GrantsApart
  <2>4. SessionLives'
    BY <1>t, <2>1, <2>2 DEF SessionLives, Replacing, At
  <2>. QED BY <2>3, <2>4
<1>5. ASSUME NEW c \in Callers, Check(c) \/ CallX(c) \/ CallFails(c) \/ AnswerFails(c) \/ Count(c) \/ Set(c) \/ Incr(c)
      PROVE  GrantsApart' /\ SessionLives'
  <2>1. ~At(c, "save") /\ UNCHANGED <<tokens, login>>
    BY <1>5 DEF Check, CallX, CallFails, AnswerFails, Count, Set, Incr, At
  <2>2. \E r : caller' = [caller EXCEPT ![c] = r] /\ r.pc # "save" /\ r.old \in {caller[c].old, None}
    <3>1. AtRest.pc = "idle" /\ AtRest.old = None
      BY DEF AtRest
    <3>2. ASSUME NEW pc \in Pc
          PROVE  /\ [caller[c] EXCEPT !.pc = pc].pc = pc /\ [caller[c] EXCEPT !.pc = pc].old = caller[c].old
      BY <1>t DEF CallerRecord
    <3>3. /\ [caller[c] EXCEPT !.pc = "token", !.round = 2].pc = "token"
          /\ [caller[c] EXCEPT !.pc = "token", !.round = 2].old = caller[c].old
      BY <1>t DEF CallerRecord
    <3>4. CASE Check(c)
      BY <3>1, <3>3, <3>4 DEF Check
    <3>5. CASE CallX(c) \/ Count(c)
      <4>1. "count" \in Pc /\ "set" \in Pc /\ "incr" \in Pc
        BY DEF Pc
      <4>2. \E pc \in {"count", "set", "incr"} : caller' = [caller EXCEPT ![c] = [caller[c] EXCEPT !.pc = pc]]
        BY <3>5 DEF CallX, Count, Goto
      <4>. QED BY <3>2, <4>1, <4>2
    <3>6. CASE CallFails(c) \/ AnswerFails(c) \/ Set(c) \/ Incr(c)
      BY <3>1, <3>6 DEF CallFails, AnswerFails, Set, Incr
    <3>. QED BY <1>5, <3>4, <3>5, <3>6
  <2>. QED BY <1>k, <2>1, <2>2 DEF tokens
<1>6. CASE TokenExpires
  <2>1. session'.token = session.token /\ UNCHANGED <<granted, live, lost, login, caller>>
    BY <1>6, <1>t DEF TokenExpires, TypeOK
  <2>. QED BY <2>1, TokensKept
<1>7. CASE LoginGrants
  <2>1. /\ login = None /\ granted' = granted + 1 /\ live' = live \cup {granted + 1}
        /\ login' = granted + 1 /\ UNCHANGED <<session, lost, caller>>
    BY <1>7 DEF LoginGrants, Grant
  <2>2. /\ \A t \in live : t <= granted /\ t # granted + 1
        /\ session.token \in Nat /\ session.token <= granted
        /\ \A d \in Callers : caller[d].old \in Nat /\ caller[d].old <= granted
    BY <1>n, <1>t DEF GrantsApart, TypeOK, Grants, CallerRecord, None
  <2>3. granted + 1 \in Unstored'
    BY <1>n, <2>1, <2>2 DEF Unstored
  <2>4. Unstored \subseteq Unstored'
    BY <2>1 DEF Unstored
  <2>5. \A d \in Callers : At(d, "save")' => At(d, "save") /\ caller[d].new \in live
    BY <1>t, <2>1 DEF At, GrantsApart, Unstored
  <2>6. /\ \A t \in live' : t <= granted' /\ session'.token <= granted'
        /\ \A d \in Callers : caller'[d].old <= granted'
    BY <1>n, <2>1, <2>2
  <2>7. \A d \in Callers : At(d, "save")' =>
          /\ caller'[d].new \in Unstored'
          /\ caller'[d].new # login'
          /\ \A e \in Callers : e # d /\ At(e, "save")' => caller'[e].new # caller'[d].new
    BY <1>t, <2>1, <2>2, <2>4, <2>5 DEF GrantsApart
  <2>8. GrantsApart'
    BY <1>n, <1>t, <2>1, <2>2, <2>3, <2>6, <2>7 DEF GrantsApart
  <2>9. SessionLives'
    BY <1>t, <2>1 DEF SessionLives, Replacing, At
  <2>. QED BY <2>8, <2>9
<1>8. CASE LoginSaves
  <2>1. login # None /\ session'.token = login /\ login' = None /\ UNCHANGED <<granted, live, caller>>
    BY <1>8 DEF LoginSaves
  <2>2. login \in Unstored /\ login <= granted
    BY <1>t, <2>1 DEF GrantsApart, Unstored
  <2>3. GrantsApart'
    BY <1>n, <1>t, <2>1, <2>2 DEF GrantsApart, Unstored, At
  <2>4. SessionLives'
    BY <2>1, <2>2 DEF SessionLives, Unstored
  <2>. QED BY <2>3, <2>4
<1>9. CASE LoginFails
  <2>1. login' = None /\ UNCHANGED <<granted, live, session, lost, caller>>
    BY <1>9 DEF LoginFails, tokens
  <2>2. GrantsApart'
    BY <1>n, <1>t, <2>1 DEF GrantsApart, Unstored, At
  <2>3. SessionLives'
    BY <1>t, <2>1 DEF SessionLives, Replacing, At
  <2>. QED BY <2>2, <2>3
<1>10. CASE (\E k \in Counters : Expire(k)) \/ RedisChanges \/ UNCHANGED vars
  BY <1>0, <1>10 DEF Expire, RedisChanges, vars, tokens
<1>11. CASE Crash
  <2>1. /\ lost' = (lost \/ \E c \in Callers : caller[c].old = session.token)
        /\ caller' = [c \in Callers |-> AtRest] /\ login' = None
        /\ UNCHANGED <<granted, live, session>>
    BY <1>11 DEF Crash
  <2>2. \A c \in Callers : caller'[c].pc = "idle" /\ caller'[c].old = None
    BY <2>1 DEF AtRest
  <2>3. GrantsApart'
    BY <1>n, <1>t, <2>1, <2>2 DEF GrantsApart, Unstored, At
  <2>4. SessionLives'
    BY <1>t, <2>1 DEF SessionLives, Replacing
  <2>. QED BY <2>3, <2>4
<1>. QED
  BY <1>1, <1>2, <1>3, <1>4, <1>5, <1>6, <1>7, <1>8, <1>9, <1>10, <1>11 DEF Next, CallerStep

\* Every step keeps the expiry of the counters and the count of the poll's calls.
LEMMA LimitsStep == AccessSound /\ [Next]_vars => CountersExpire' /\ PollCounted'
<1>. SUFFICES ASSUME AccessSound, [Next]_vars PROVE CountersExpire' /\ PollCounted'
  OBVIOUS
<1>. USE ConstantsAssumption
<1>t. TypeOK /\ caller \in [Callers -> CallerRecord] /\ CountersExpire /\ PollCounted
  BY DEF AccessSound, TypeOK, CallerRecord
<1>k. /\ Poller \in Callers /\ "poll" \in Counters /\ KeyOf(Poller) = "poll"
      /\ \A c \in Callers : KeyOf(c) \in Counters /\ (c # Poller => KeyOf(c) = "send")
  BY DEF Callers, Counters, KeyOf
<1>n. /\ Limit \in Nat /\ Limit >= 1
      /\ \A k \in Counters : counter[k].value \in Nat /\ calls[k] \in Nat /\ failed[k] \in Nat
  BY <1>t DEF TypeOK
<1>a. /\ Answered("poll") \in Int
      /\ UNCHANGED <<calls, failed>> => Answered("poll")' = Answered("poll")
  BY <1>n DEF Counters, Answered
<1>r. AtRest.pc = "idle" /\ AtRest.round = 1
  BY DEF AtRest
\* A step of one caller that leaves the counters be.
<1>l. ASSUME NEW c \in Callers, NEW r, caller' = [caller EXCEPT ![c] = r],
             UNCHANGED limits \/ (UNCHANGED <<counter, redis, raced, blind>> /\ AnswerFails(c)),
             c = Poller =>
               /\ caller[c].pc \notin {"count", "set", "incr"}
               /\ r.pc \notin {"count", "set", "incr"}
               /\ \/ r.pc \notin {"token", "call"} /\ r.round = 1
                  \/ caller[c].pc \in {"token", "call"} \/ caller[c].round = 2
      PROVE  CountersExpire' /\ PollCounted'
  <2>1. caller'[Poller] = IF c = Poller THEN r ELSE caller[Poller]
    BY <1>k, <1>l, <1>t
  <2>2. Answered("poll")' = Answered("poll") /\ UNCHANGED <<counter, redis, raced, blind>>
    BY <1>l, <1>t, AnsweredKept DEF Counters, limits
  <2>. QED BY <1>l, <2>1, <2>2, LimitsKept
<1>1. ASSUME NEW c \in Callers, ReadSession(c) PROVE CountersExpire' /\ PollCounted'
  <2>1. CASE session.fresh
    <3>1. /\ caller' = [caller EXCEPT ![c] = Provided(c)] /\ UNCHANGED limits
          /\ caller[c].pc \in {"token", "idle"}
      BY <1>1, <2>1 DEF ReadSession, At
    <3>. QED BY <1>l, <1>t, <3>1, ProvidedFacts
  <2>2. CASE ~session.fresh
    <3>. DEFINE r == [caller[c] EXCEPT !.pc = "refresh", !.old = session.token]
    <3>1. /\ caller' = [caller EXCEPT ![c] = r] /\ UNCHANGED limits
          /\ caller[c].pc \in {"token", "idle"}
      BY <1>1, <2>2 DEF ReadSession, At
    <3>2. r.pc = "refresh" /\ r.round = caller[c].round /\ caller[c].round \in {1, 2}
      BY <1>t DEF CallerRecord
    <3>. HIDE DEF r
    <3>. QED BY <1>l, <3>1, <3>2
  <2>. QED BY <2>1, <2>2
<1>2. ASSUME NEW c \in Callers, Refresh(c) \/ RefreshFails(c) PROVE CountersExpire' /\ PollCounted'
  <2>1. UNCHANGED limits /\ caller[c].pc \in {"refresh", "save"}
    BY <1>2 DEF Refresh, RefreshFails, At
  <2>2. CASE caller' = [caller EXCEPT ![c] = Refused(c)]
    BY <1>l, <1>t, <2>1, <2>2, ProvidedFacts
  <2>3. CASE caller' # [caller EXCEPT ![c] = Refused(c)]
    <3>. DEFINE r == [caller[c] EXCEPT !.pc = "save", !.new = granted']
    <3>1. caller' = [caller EXCEPT ![c] = r]
      BY <1>2, <1>t, <2>3 DEF Refresh, RefreshFails, CallerRecord
    <3>2. r.pc = "save" /\ r.round = caller[c].round /\ caller[c].round \in {1, 2}
      BY <1>t DEF CallerRecord
    <3>. HIDE DEF r
    <3>. QED BY <1>l, <2>1, <3>1, <3>2
  <2>. QED BY <2>2, <2>3
<1>3. ASSUME NEW c \in Callers, Save(c) PROVE CountersExpire' /\ PollCounted'
  <2>1. caller' = [caller EXCEPT ![c] = Provided(c)] /\ UNCHANGED limits /\ caller[c].pc = "save"
    BY <1>3 DEF Save, At
  <2>. QED BY <1>l, <1>t, <2>1, ProvidedFacts
\* Only here a poll comes to be let through, by the counter's value.
<1>4. ASSUME NEW c \in Callers, Check(c) PROVE CountersExpire' /\ PollCounted'
  <2>1. /\ UNCHANGED limits /\ (c = Poller => caller[c].pc = "check")
        /\ caller' = [caller EXCEPT ![c] = IF Value(KeyOf(c)) >= Limit THEN AtRest
                                           ELSE [caller[c] EXCEPT !.pc = "token", !.round = 2]]
    BY <1>4 DEF Check, At
  <2>2. CASE c # Poller \/ Value(KeyOf(c)) >= Limit
    <3>1. \E r : /\ caller' = [caller EXCEPT ![c] = r]
                 /\ c = Poller => r = AtRest
      BY <2>1, <2>2
    <3>. QED BY <1>l, <1>r, <2>1, <3>1
  <2>3. CASE c = Poller /\ ~(Value(KeyOf(c)) >= Limit)
    <3>1. caller'[Poller] = [caller[c] EXCEPT !.pc = "token", !.round = 2]
      BY <1>t, <2>1, <2>3
    <3>2. caller'[Poller].pc = "token"
      BY <1>t, <2>3, <3>1 DEF CallerRecord
    <3>3. redis => counter["poll"].value < Limit
      BY <1>k, <1>n, <2>3 DEF Value
    <3>4. PollCounted'
      BY <1>a, <1>t, <2>1, <2>3, <3>2, <3>3 DEF PollCounted, limits
    <3>. QED BY <1>t, <2>1, <3>4 DEF CountersExpire, limits
  <2>. QED BY <2>2, <2>3
<1>5. ASSUME NEW c \in Callers, CallX(c) PROVE CountersExpire' /\ PollCounted'
  <2>1. /\ caller[c].pc = "call" /\ UNCHANGED <<counter, redis, raced, blind>>
        /\ calls' = IF blind THEN calls ELSE [calls EXCEPT ![KeyOf(c)] = @ + 1]
        /\ failed' = failed
        /\ caller' = [caller EXCEPT ![c].pc = "count"]
    BY <1>5 DEF CallX, At, Goto, Received
  <2>2. CountersExpire'
    BY <1>t, <2>1 DEF CountersExpire
  <2>3. CASE c = Poller
    <3>1. caller'[Poller].pc = "count" /\ caller'[Poller].round = caller[Poller].round
      BY <1>t, <1>k, <2>1, <2>3 DEF CallerRecord
    <3>2. ~blind => Answered("poll")' = Answered("poll") + 1
      BY <1>k, <1>n, <1>t, <2>1, <2>3 DEF TypeOK, Answered
    <3>. QED BY <1>a, <1>k, <1>n, <1>t, <2>1, <2>2, <2>3, <3>1, <3>2 DEF PollCounted
  <2>4. CASE c # Poller
    <3>1. caller'[Poller] = caller[Poller] /\ Answered("poll")' = Answered("poll")
      BY <1>t, <1>k, <2>1, <2>4 DEF TypeOK, Answered
    <3>. QED BY <1>a, <1>t, <2>1, <2>2, <3>1 DEF PollCounted
  <2>. QED BY <2>3, <2>4
<1>6. ASSUME NEW c \in Callers, CallFails(c) \/ AnswerFails(c) PROVE CountersExpire' /\ PollCounted'
  <2>1. /\ caller' = [caller EXCEPT ![c] = AtRest] /\ caller[c].pc = "call"
        /\ UNCHANGED limits \/ (UNCHANGED <<counter, redis, raced, blind>> /\ AnswerFails(c))
    BY <1>6 DEF CallFails, AnswerFails, At
  <2>. QED BY <1>l, <1>r, <2>1
<1>7. ASSUME NEW c \in Callers, Count(c) PROVE CountersExpire' /\ PollCounted'
  <2>. DEFINE pc == IF Value(KeyOf(c)) = 0 THEN "set" ELSE "incr"
  <2>1. caller' = [caller EXCEPT ![c].pc = pc] /\ UNCHANGED limits /\ caller[c].pc = "count"
    BY <1>7 DEF Count, At, Goto
  <2>2. CASE c = Poller
    <3>1. caller'[Poller].pc = pc /\ caller'[Poller].round = caller[Poller].round
      BY <1>t, <2>1, <2>2 DEF CallerRecord
    <3>2. redis /\ pc = "set" => counter["poll"].value = 0
      BY <1>k, <2>2 DEF Value
    <3>3. pc \in {"set", "incr"}
      OBVIOUS
    <3>. HIDE DEF pc
    <3>. QED BY <1>a, <1>t, <2>1, <2>2, <3>1, <3>2, <3>3 DEF PollCounted, CountersExpire, limits
  <2>3. CASE c # Poller
    <3>1. caller'[Poller] = caller[Poller]
      BY <1>t, <1>k, <2>1, <2>3
    <3>. QED BY <1>a, <2>1, <3>1, LimitsKept DEF limits
  <2>. QED BY <2>2, <2>3
<1>8. ASSUME NEW c \in Callers, Set(c) PROVE CountersExpire' /\ PollCounted'
  <2>1. /\ caller[c].pc = "set" /\ caller' = [caller EXCEPT ![c] = AtRest]
        /\ counter' = IF redis THEN [counter EXCEPT ![KeyOf(c)] = [value |-> 1, expires |-> TRUE]]
                      ELSE counter
        /\ UNCHANGED <<redis, calls, failed, raced, blind>>
    BY <1>8 DEF Set, At
  <2>2. CountersExpire'
    BY <1>k, <1>t, <2>1 DEF CountersExpire, TypeOK
  <2>3. CASE c = Poller
    <3>1. caller'[Poller] = AtRest /\ (redis => counter'["poll"].value = 1)
      BY <1>t, <1>k, <2>1, <2>3 DEF TypeOK
    <3>. QED BY <1>a, <1>n, <1>k, <1>r, <1>t, <2>1, <2>2, <2>3, <3>1 DEF PollCounted
  <2>4. CASE c # Poller
    <3>1. caller'[Poller] = caller[Poller] /\ counter'["poll"] = counter["poll"]
      BY <1>t, <1>k, <2>1, <2>4 DEF TypeOK
    <3>. QED BY <1>a, <1>t, <2>1, <2>2, <3>1 DEF PollCounted
  <2>. QED BY <2>3, <2>4
<1>9. ASSUME NEW c \in Callers, Incr(c) PROVE CountersExpire' /\ PollCounted'
  <2>. DEFINE k == KeyOf(c)
              new == [counter[k] EXCEPT !.value = @ + 1]
  <2>1. /\ caller[c].pc = "incr" /\ caller' = [caller EXCEPT ![c] = AtRest]
        /\ counter' = IF redis THEN [counter EXCEPT ![k] = new] ELSE counter
        /\ raced' = IF redis /\ counter[k] = Nothing THEN raced \cup {k} ELSE raced
        /\ UNCHANGED <<redis, calls, failed, blind>>
    BY <1>9 DEF Incr, At
  <2>2. k \in Counters /\ counter[k] \in [value : Nat, expires : BOOLEAN]
    BY <1>k, <1>t DEF TypeOK
  <2>3. new.value = counter[k].value + 1 /\ new.expires = counter[k].expires
    BY <2>2
  <2>. HIDE DEF k, new
  <2>4. /\ \A j \in Counters : j # k => counter'[j] = counter[j]
        /\ redis => counter'[k] = new
    BY <1>t, <2>1, <2>2 DEF TypeOK
  <2>5. CountersExpire'
    <3>1. ASSUME NEW j \in Counters, counter'[j] # Nothing
          PROVE  counter'[j].expires \/ j \in raced'
      <4>1. CASE j # k \/ ~redis
        BY <1>t, <2>1, <2>4, <3>1, <4>1 DEF CountersExpire
      <4>2. CASE j = k /\ redis
        BY <1>t, <2>1, <2>2, <2>3, <2>4, <4>2 DEF CountersExpire
      <4>. QED BY <4>1, <4>2
    <3>. QED BY <3>1 DEF CountersExpire
  <2>6. CASE c = Poller
    <3>1. k = "poll" /\ caller'[Poller] = AtRest
      BY <1>t, <1>k, <2>1, <2>6 DEF k
    <3>. QED BY <1>a, <1>n, <1>r, <1>t, <2>1, <2>2, <2>3, <2>4, <2>5, <2>6, <3>1 DEF PollCounted
  <2>7. CASE c # Poller
    <3>1. caller'[Poller] = caller[Poller] /\ k # "poll"
      BY <1>t, <1>k, <2>1, <2>7 DEF k
    <3>. QED BY <1>a, <1>k, <1>t, <2>1, <2>4, <2>5, <3>1 DEF PollCounted
  <2>. QED BY <2>6, <2>7
<1>10. CASE TokenExpires \/ LoginGrants \/ LoginSaves \/ LoginFails \/ UNCHANGED vars
  BY <1>10, <1>a, LimitsKept DEF TokenExpires, LoginGrants, LoginSaves, LoginFails, vars, limits
<1>11. ASSUME NEW k \in Counters, Expire(k) PROVE CountersExpire' /\ PollCounted'
  <2>1. /\ counter' = [counter EXCEPT ![k] = Nothing] /\ calls' = [calls EXCEPT ![k] = 0] /\ failed' = [failed EXCEPT ![k] = 0]
        /\ UNCHANGED <<caller, redis, raced, blind>>
    BY <1>11 DEF Expire
  <2>2. CountersExpire'
    BY <1>t, <2>1 DEF CountersExpire, TypeOK
  <2>3. /\ k = "poll" => counter'["poll"].value = 0 /\ Answered("poll")' = 0
        /\ k # "poll" => counter'["poll"] = counter["poll"] /\ Answered("poll")' = Answered("poll")
    BY <1>k, <1>t, <2>1 DEF TypeOK, Nothing, Answered
  <2>. QED BY <1>a, <1>n, <1>t, <2>1, <2>2, <2>3 DEF PollCounted
<1>12. CASE RedisChanges
  BY <1>a, <1>12, <1>t DEF RedisChanges, CountersExpire, PollCounted
<1>13. CASE Crash
  <2>1. /\ blind' = (blind \/ \E c \in Callers : caller[c].pc \in {"count", "set", "incr"})
        /\ calls' = IF blind' THEN [k \in Counters |-> 0] ELSE calls
        /\ failed' = IF blind' THEN [k \in Counters |-> 0] ELSE failed
        /\ caller' = [c \in Callers |-> AtRest]
        /\ UNCHANGED <<counter, redis, raced>>
    BY <1>13 DEF Crash
  <2>2. CountersExpire'
    BY <1>t, <2>1 DEF CountersExpire
  <2>3. caller'[Poller] = AtRest
    BY <1>k, <2>1
  <2>4. ~blind' => ~blind /\ UNCHANGED <<calls, failed>> /\ caller[Poller].pc \notin {"count", "set", "incr"}
    BY <1>k, <2>1
  <2>. QED BY <1>a, <1>r, <1>t, <2>1, <2>2, <2>3, <2>4 DEF PollCounted
<1>. QED
  BY <1>1, <1>2, <1>3, <1>4, <1>5, <1>6, <1>7, <1>8, <1>9, <1>10, <1>11, <1>12, <1>13
     DEF Next, CallerStep

-----------------------------------------------------------------------------
\* One send that moves changes each number by at most one.
LEMMA NumMoves ==
  ASSUME TypeOK, NEW c \in Sends, NEW r, caller' = [caller EXCEPT ![c] = r], NEW CONSTANT P
  PROVE  /\ Num(P) \in Nat
         /\ Num(P)' = Num(P) + (IF r.pc \in P THEN 1 ELSE 0) - (IF caller[c].pc \in P THEN 1 ELSE 0)
<1>. DEFINE A == {d \in Sends : caller[d].pc \in P}
            B == A \ {c}
<1>1. c \in Callers /\ \A d \in Sends : d \in Callers
  BY DEF Callers
<1>2. caller'[c] = r /\ \A d \in Sends \ {c} : caller'[d] = caller[d]
  BY <1>1 DEF TypeOK
<1>3. IsFiniteSet(A) /\ IsFiniteSet(B)
  BY ConstantsAssumption, FS_Subset
<1>4. Cardinality(A) \in Nat /\ Cardinality(B) \in Nat
  BY <1>3, FS_CardinalityType
<1>5. Cardinality(B) = Cardinality(A) - (IF caller[c].pc \in P THEN 1 ELSE 0)
  BY <1>3, <1>4, FS_RemoveElement
<1>6. Cardinality(B \cup {c}) = Cardinality(B) + 1
  BY <1>3, FS_AddElement
<1>7. {d \in Sends : caller'[d].pc \in P} = IF r.pc \in P THEN B \cup {c} ELSE B
  BY <1>2
<1>. HIDE DEF A, B
<1>8. Num(P) = Cardinality(A)
  BY DEF Num, A
<1>9. Num(P)' = Cardinality(IF r.pc \in P THEN B \cup {c} ELSE B)
  BY <1>7 DEF Num
<1>. QED BY <1>4, <1>5, <1>6, <1>8, <1>9

\* The numbers when a send goes from one place to another.
Moved(from, to) ==
  /\ Settled' = Settled + (IF from = "set" THEN 1 ELSE 0) - (IF to = "set" THEN 1 ELSE 0)
  /\ Free' = Free + (IF from \in {"count", "set", "incr"} THEN 1 ELSE 0)
                  - (IF to \in {"count", "set", "incr"} THEN 1 ELSE 0)
  /\ LetThrough' = LetThrough + (IF to \in {"token", "refresh", "save", "call"} THEN 1 ELSE 0)
                              - (IF from \in {"token", "refresh", "save", "call"} THEN 1 ELSE 0)
  /\ Uncounted' = Uncounted + (IF to \in {"count", "set"} THEN 1 ELSE 0)
                            - (IF from \in {"count", "set"} THEN 1 ELSE 0)

LEMMA SendMoves ==
  ASSUME TypeOK, NEW c \in Sends, NEW r, caller' = [caller EXCEPT ![c] = r], r.pc \in Pc
  PROVE  Moved(caller[c].pc, r.pc) /\ (caller[c].pc # "set" => Settled >= 1)
<1>1. caller[c].pc \in Pc
  BY DEF TypeOK, Callers
<1>2. /\ Settled \in Nat
      /\ Settled' = Settled + (IF r.pc \in Pc \ {"set"} THEN 1 ELSE 0)
                            - (IF caller[c].pc \in Pc \ {"set"} THEN 1 ELSE 0)
  BY NumMoves DEF Settled
<1>3. /\ Free \in Nat
      /\ Free' = Free + (IF r.pc \in Pc \ {"count", "set", "incr"} THEN 1 ELSE 0)
                      - (IF caller[c].pc \in Pc \ {"count", "set", "incr"} THEN 1 ELSE 0)
  BY NumMoves DEF Free
<1>4. /\ LetThrough' = LetThrough + (IF r.pc \in {"token", "refresh", "save", "call"} THEN 1 ELSE 0)
                         - (IF caller[c].pc \in {"token", "refresh", "save", "call"} THEN 1 ELSE 0)
      /\ Uncounted' = Uncounted + (IF r.pc \in {"count", "set"} THEN 1 ELSE 0)
                                - (IF caller[c].pc \in {"count", "set"} THEN 1 ELSE 0)
  BY NumMoves DEF LetThrough, Uncounted
<1>5. caller[c].pc # "set" => Settled >= 1
  <2>. DEFINE S == {d \in Sends : caller[d].pc \in Pc \ {"set"}}
  <2>1. IsFiniteSet(S)
    BY ConstantsAssumption, FS_Subset
  <2>2. caller[c].pc # "set" => S # {}
    BY <1>1
  <2>3. Settled = Cardinality(S)
    BY DEF Settled, Num
  <2>. HIDE DEF S
  <2>. QED BY <1>2, <2>1, <2>2, <2>3, FS_EmptySet
<1>6. /\ Settled' = Settled + (IF caller[c].pc = "set" THEN 1 ELSE 0) - (IF r.pc = "set" THEN 1 ELSE 0)
      /\ Free' = Free + (IF caller[c].pc \in {"count", "set", "incr"} THEN 1 ELSE 0)
                      - (IF r.pc \in {"count", "set", "incr"} THEN 1 ELSE 0)
  BY <1>1, <1>2, <1>3
<1>. QED BY <1>4, <1>5, <1>6 DEF Moved

LEMMA UncountedType == Uncounted' \in Nat
<1>1. IsFiniteSet({c \in Sends : caller'[c].pc \in {"count", "set"}})
  BY ConstantsAssumption, FS_Subset
<1>. QED BY <1>1, FS_CardinalityType DEF Uncounted, Num

LEMMA RestartsFacts ==
  ASSUME NEW n \in Nat
  PROVE  /\ Restarts(n) \in Int
         /\ Restarts(n + 1) = Restarts(n) + 2 * (Limit + n - 1)
         /\ n >= 1 => Restarts(n) >= 2 * Limit - 2
<1>. USE ConstantsAssumption DEF Restarts
<1>1. Restarts(n) \in Int
  OBVIOUS
<1>2. Restarts(n + 1) = Restarts(n) + 2 * (Limit + n - 1)
  BY SMT
<1>3. ASSUME n >= 1 PROVE Restarts(n) >= 2 * Limit - 2
  <2>1. Restarts(n) - (2 * Limit - 2) = (n - 1) * (2 * Limit + n - 2)
    BY SMT
  <2>2. n - 1 \in Nat /\ 2 * Limit + n - 2 \in Nat
    BY <1>3
  <2>3. (n - 1) * (2 * Limit + n - 2) \in Nat
    BY <2>2
  <2>. QED BY <1>1, <2>1, <2>3
<1>. QED BY <1>1, <1>2, <1>3

LEMMA RestartsGrow ==
  ASSUME NEW n \in Nat, NEW m \in Nat, m <= n
  PROVE  Restarts(m) <= Restarts(n)
<1>. USE ConstantsAssumption DEF Restarts
<1>1. Restarts(n) \in Int /\ Restarts(m) \in Int
  OBVIOUS
<1>2. CASE m < n
  <2>1. Restarts(n) - Restarts(m) = (n - m) * (2 * Limit + n + m - 3)
    BY SMT
  <2>2. n - m \in Nat /\ 2 * Limit + n + m - 3 \in Nat
    BY <1>2
  <2>3. (n - m) * (2 * Limit + n + m - 3) \in Nat
    BY <2>2
  <2>. QED BY <1>1, <2>1, <2>3
<1>. QED BY <1>1, <1>2

\* Steps that leave the sends, their counter and their calls alone.
LEMMA SendsKept ==
  ASSUME SendsCounted, \A c \in Sends : caller'[c].pc = caller[c].pc, redis' = redis, blind' = blind,
         counter'["send"] = counter["send"], Answered("send")' = Answered("send")
  PROVE  SendsCounted'
<1>1. \A P : Num(P)' = Num(P)
  BY DEF Num
<1>2. UNCHANGED <<Settled, Free, LetThrough, Uncounted>>
  BY <1>1 DEF Settled, Free, LetThrough, Uncounted
<1>. QED BY <1>2 DEF SendsCounted, Ahead

\* A send that moves without calling and without counting is let through only by a
\* counter below the limit.
LEMMA SendsMove ==
  ASSUME AccessSound, NEW c \in Sends, NEW r, caller' = [caller EXCEPT ![c] = r],
         UNCHANGED <<counter, redis, blind>>, Answered("send")' = Answered("send"),
         {caller[c].pc, r.pc} \subseteq Pc \ {"count", "set", "incr"},
         \/ r.pc \in {"idle", "check"}
         \/ caller[c].pc \in {"token", "refresh", "save", "call"}
         \/ ~blind => counter["send"].value < Limit
  PROVE  SendsCounted'
<1>1. TypeOK /\ SendsCounted /\ counter["send"].value \in Nat /\ Limit \in Nat
  BY ConstantsAssumption DEF AccessSound, TypeOK, Counters
<1>m. Moved(caller[c].pc, r.pc)
  BY <1>1, SendMoves
<1>2. /\ Settled' = Settled /\ Free' = Free /\ Uncounted' = Uncounted
      /\ LetThrough' <= LetThrough \/ (~blind => counter["send"].value < Limit)
  BY <1>1, <1>m, NumFacts DEF Moved
<1>3. LetThrough' \in Int
  BY <1>1, <1>m, NumFacts DEF Moved
<1>4. ~blind => Ahead' <= Ahead /\ Ahead' \in Int /\ Ahead \in Int
  BY <1>1, <1>2, <1>3, NumFacts DEF Ahead
<1>5. Restarts(Settled) \in Int /\ Cardinality(Sends) \in Nat /\ Answered("send") \in Int
  BY <1>1, NumFacts, RestartsFacts DEF TypeOK, Counters, Answered
<1>. QED BY <1>1, <1>2, <1>4, <1>5 DEF SendsCounted

\* The first count starts the counter: whoever has called is about to count, and all
\* others may call once and then as often as the counter lets them.
LEMMA CounterStarts ==
  ASSUME AccessSound, ~blind', blind' = blind, redis' = redis, counter["send"].value = 0,
         counter'["send"].value = 1, Answered("send")' = Answered("send"),
         Free' = Free + 1, LetThrough' = LetThrough, Settled' \in Nat, Settled' >= 1
  PROVE  SendsCounted'
<1>1. TypeOK /\ SendsCounted /\ Limit \in Nat /\ Limit >= 1 /\ Answered("send") \in Int
  BY ConstantsAssumption DEF AccessSound, TypeOK, Counters, Answered
<1>2. redis /\ Answered("send") <= Uncounted
  BY <1>1 DEF SendsCounted
<1>3. Ahead' = IF 1 < Limit THEN Free + 1 + Limit - 2 ELSE LetThrough
  BY <1>1, NumFacts DEF Ahead
<1>4. Restarts(Settled') >= 2 * Limit - 2 /\ Restarts(Settled') \in Int
  BY RestartsFacts
<1>5. Answered("send") + Ahead' <= Cardinality(Sends) + Limit - 1
  BY <1>1, <1>2, <1>3, NumFacts
<1>6. 2 * (Answered("send") + Ahead') <= Restarts(Settled') + 2 * Cardinality(Sends)
  <2>1. Ahead' \in Int /\ Cardinality(Sends) \in Nat
    BY <1>1, <1>3, NumFacts
  <2>. QED BY <1>1, <1>4, <1>5, <2>1
<1>. QED BY <1>2, <1>6 DEF SendsCounted

LEMMA SendsStep == AccessSound /\ [Next]_vars => SendsCounted'
<1>. SUFFICES ASSUME AccessSound, [Next]_vars PROVE SendsCounted'
  OBVIOUS
<1>t. TypeOK /\ caller \in [Callers -> CallerRecord] /\ SendsCounted
  BY DEF AccessSound, TypeOK, CallerRecord
<1>k. /\ "send" \in Counters /\ Poller \notin Sends /\ Sends \subseteq Callers
      /\ KeyOf(Poller) = "poll" /\ \A c \in Sends : c # Poller /\ KeyOf(c) = "send"
  BY ConstantsAssumption DEF Callers, Counters, KeyOf
<1>n. /\ Limit \in Nat /\ Limit >= 1
      /\ counter["send"] \in [value : Nat, expires : BOOLEAN]
      /\ counter["send"].value \in Nat /\ Answered("send") \in Int /\ Ahead \in Int
      /\ Restarts(Settled) \in Int /\ Cardinality(Sends) \in Nat
  BY <1>t, ConstantsAssumption, NumFacts, RestartsFacts DEF TypeOK, Counters, Ahead, Answered
<1>a. UNCHANGED <<calls, failed>> \/ (\E c \in Callers : AnswerFails(c)) => Answered("send")' = Answered("send")
  BY <1>k, <1>t, AnsweredKept
<1>r. AtRest.pc = "idle"
  BY DEF AtRest
<1>1. ASSUME CallerStep(Poller) PROVE SendsCounted'
  <2>1. /\ \A c \in Sends : caller'[c] = caller[c]
        /\ counter'["send"] = counter["send"] /\ Answered("send")' = Answered("send")
        /\ redis' = redis /\ blind' = blind
    <3>1. \A c \in Sends : caller'[c] = caller[c]
      BY <1>1, <1>k, <1>t DEF CallerStep, ReadSession, Refresh, Save, RefreshFails, Check, CallX, CallFails,
         AnswerFails, Count, Set, Incr, Goto
    <3>2. /\ counter'["send"] = counter["send"] /\ redis' = redis /\ blind' = blind
          /\ calls'["send"] = calls["send"] /\ failed'["send"] = failed["send"]
      BY <1>1, <1>k, <1>t DEF CallerStep, ReadSession, Refresh, Save, RefreshFails, Check, CallX, CallFails,
         AnswerFails, Received, Count, Set, Incr, limits, TypeOK
    <3>. QED BY <3>1, <3>2 DEF Answered
  <2>. QED BY <1>t, <2>1, SendsKept
<1>2. ASSUME NEW c \in Sends, ReadSession(c) \/ Refresh(c) \/ Save(c) \/ RefreshFails(c) \/ CallFails(c)
                              \/ AnswerFails(c)
      PROVE  SendsCounted'
  <2>1. /\ caller[c].pc \in {"token", "refresh", "save", "call"} /\ UNCHANGED <<counter, redis, blind>>
        /\ UNCHANGED <<calls, failed>> \/ AnswerFails(c)
        /\ \E r : caller' = [caller EXCEPT ![c] = r] /\ r.pc \in Pc \ {"count", "set", "incr"}
    <3>1. CASE ReadSession(c)
      <4>1. [caller[c] EXCEPT !.pc = "refresh", !.old = session.token].pc = "refresh"
        BY <1>k, <1>t DEF CallerRecord
      <4>. QED BY <1>k, <1>t, <3>1, <4>1, ProvidedFacts DEF ReadSession, At, Pc, limits
    <3>2. CASE Refresh(c)
      <4>1. caller' = [caller EXCEPT ![c] = [caller[c] EXCEPT !.pc = "save", !.new = granted']]
            \/ caller' = [caller EXCEPT ![c] = Refused(c)]
        BY <1>k, <1>t, <3>2 DEF Refresh, CallerRecord
      <4>2. [caller[c] EXCEPT !.pc = "save", !.new = granted'].pc = "save"
        BY <1>k, <1>t DEF CallerRecord
      <4>. QED BY <1>k, <1>t, <3>2, <4>1, <4>2, ProvidedFacts DEF Refresh, At, Pc, limits
    <3>3. CASE Save(c) \/ RefreshFails(c)
      BY <1>k, <1>t, <3>3, ProvidedFacts DEF Save, RefreshFails, At, Pc, limits
    <3>4. CASE CallFails(c) \/ AnswerFails(c)
      BY <1>r, <3>4 DEF CallFails, AnswerFails, At, Pc, limits
    <3>. QED BY <1>2, <3>1, <3>2, <3>3, <3>4
  <2>2. Answered("send")' = Answered("send")
    BY <1>a, <1>k, <2>1
  <2>. QED BY <2>1, <2>2, SendsMove DEF Pc
\* Only here a send comes to be let through.
<1>3. ASSUME NEW c \in Sends, Check(c) PROVE SendsCounted'
  <2>. DEFINE r == IF Value("send") >= Limit THEN AtRest ELSE [caller[c] EXCEPT !.pc = "token", !.round = 2]
  <2>1. caller[c].pc = "idle" /\ caller' = [caller EXCEPT ![c] = r] /\ UNCHANGED limits
    BY <1>3, <1>k DEF Check, At
  <2>2. r.pc = IF Value("send") >= Limit THEN "idle" ELSE "token"
    BY <1>k, <1>r, <1>t DEF CallerRecord
  <2>3. ~blind => Value("send") = counter["send"].value
    BY <1>t DEF SendsCounted, Value
  <2>4. Value("send") >= Limit \/ (~blind => counter["send"].value < Limit)
    BY <1>n, <2>3
  <2>5. {caller[c].pc, r.pc} \subseteq Pc \ {"count", "set", "incr"}
    BY <2>1, <2>2 DEF Pc
  <2>6. Answered("send")' = Answered("send") /\ UNCHANGED <<counter, redis, blind>>
    BY <1>a, <2>1 DEF limits
  <2>. HIDE DEF r
  <2>. QED BY <2>1, <2>2, <2>4, <2>5, <2>6, SendsMove
<1>4. ASSUME NEW c \in Sends, CallX(c), ~blind PROVE SendsCounted'
  <2>. DEFINE r == [caller[c] EXCEPT !.pc = "count"]
  <2>1. /\ caller[c].pc = "call" /\ UNCHANGED <<counter, redis, blind>>
        /\ Answered("send")' = Answered("send") + 1 /\ caller' = [caller EXCEPT ![c] = r]
    BY <1>4, <1>k, <1>t DEF CallX, At, Goto, Received, Answered, TypeOK, Counters
  <2>2. r.pc = "count" /\ "count" \in Pc
    BY <1>k, <1>t DEF CallerRecord, Pc
  <2>3. /\ Settled' = Settled /\ Free' = Free - 1 /\ LetThrough' = LetThrough - 1
        /\ Uncounted' = Uncounted + 1
    <3>1. Moved("call", "count")
      <4>. HIDE DEF r
      <4>. QED BY <1>t, <2>1, <2>2, SendMoves
    <3>. QED BY <1>t, <3>1, NumFacts DEF Moved
  <2>4. Ahead' = Ahead - 1
    BY <1>n, <1>t, <2>1, <2>3, NumFacts DEF Ahead
  <2>. QED BY <1>a, <1>4, <1>n, <1>t, <2>1, <2>3, <2>4, NumFacts DEF SendsCounted
<1>5. ASSUME NEW c \in Sends, Count(c), ~blind PROVE SendsCounted'
  <2>. DEFINE pc == IF counter["send"].value = 0 THEN "set" ELSE "incr"
              r == [caller[c] EXCEPT !.pc = pc]
  <2>1. caller[c].pc = "count" /\ UNCHANGED limits /\ caller' = [caller EXCEPT ![c] = r]
    <3>1. Value("send") = counter["send"].value
      BY <1>5, <1>t DEF SendsCounted, Value
    <3>. QED BY <1>5, <1>k, <3>1 DEF Count, At, Goto
  <2>2. r.pc = pc /\ pc \in Pc
    BY <1>k, <1>t DEF CallerRecord, Pc
  <2>3. /\ counter["send"].value = 0 => Uncounted' = Uncounted
        /\ counter["send"].value # 0 => Settled' = Settled
        /\ Free' = Free /\ LetThrough' = LetThrough
    <3>1. pc \in {"set", "incr"} /\ (pc = "set" <=> counter["send"].value = 0)
      OBVIOUS
    <3>2. Moved("count", pc)
      <4>. HIDE DEF r, pc
      <4>. QED BY <1>t, <2>1, <2>2, SendMoves
    <3>. HIDE DEF r, pc
    <3>. QED BY <1>t, <3>1, <3>2, NumFacts DEF Moved
  <2>4. Ahead' = Ahead
    BY <2>1, <2>3 DEF Ahead, limits
  <2>. QED BY <1>a, <1>5, <1>n, <1>t, <2>1, <2>3, <2>4 DEF SendsCounted, limits
<1>6. ASSUME NEW c \in Sends, Set(c), ~blind PROVE SendsCounted'
  <2>1. /\ caller[c].pc = "set" /\ caller' = [caller EXCEPT ![c] = AtRest] /\ UNCHANGED <<redis, calls, failed, blind>>
        /\ redis /\ counter'["send"].value = 1
    BY <1>6, <1>k, <1>t DEF Set, At, SendsCounted, TypeOK
  <2>2. Settled' = Settled + 1 /\ Free' = Free + 1 /\ LetThrough' = LetThrough
    <3>1. Moved("set", "idle")
      BY <1>r, <1>t, <2>1, SendMoves DEF Pc
    <3>. QED BY <1>t, <3>1, NumFacts DEF Moved
  <2>3. CASE counter["send"].value = 0
    BY <1>6, <1>a, <1>t, <2>1, <2>2, <2>3, CounterStarts, NumFacts
  <2>4. CASE counter["send"].value # 0
    <3>1. 2 * (Answered("send") + Ahead) <= Restarts(Settled) + 2 * Cardinality(Sends)
      BY <1>a, <1>6, <1>n, <1>t, <2>4 DEF SendsCounted
    <3>2. Ahead >= 0
      BY <1>n, <1>t, NumFacts DEF Ahead
    <3>3. Restarts(Settled') = Restarts(Settled) + 2 * (Limit + Settled - 1)
      BY <1>t, <2>2, NumFacts, RestartsFacts
    <3>4. Ahead' <= Limit + Settled - 1 + Ahead /\ Ahead' \in Int
      BY <1>n, <1>t, <2>1, <2>2, <2>4, <3>2, NumFacts DEF Ahead
    <3>5. 2 * (Answered("send") + Ahead') <= Restarts(Settled') + 2 * Cardinality(Sends)
      BY <1>n, <1>t, <3>1, <3>2, <3>3, <3>4, NumFacts
    <3>. QED BY <1>a, <2>1, <3>5 DEF SendsCounted
  <2>. QED BY <2>3, <2>4
<1>7. ASSUME NEW c \in Sends, Incr(c), ~blind PROVE SendsCounted'
  <2>1. /\ caller[c].pc = "incr" /\ caller' = [caller EXCEPT ![c] = AtRest] /\ UNCHANGED <<redis, calls, failed, blind>>
        /\ redis /\ counter'["send"].value = counter["send"].value + 1
    BY <1>7, <1>k, <1>n, <1>t DEF Incr, At, SendsCounted, TypeOK
  <2>2. Settled' = Settled /\ Free' = Free + 1 /\ LetThrough' = LetThrough
    <3>1. Moved("incr", "idle")
      BY <1>r, <1>t, <2>1, SendMoves DEF Pc
    <3>. QED BY <1>t, <3>1, NumFacts DEF Moved
  <2>3. CASE counter["send"].value = 0
    <3>1. Settled \in Nat /\ Settled >= 1
      BY <1>r, <1>t, <2>1, SendMoves, NumFacts DEF Pc
    <3>. QED BY <1>7, <1>a, <1>t, <2>1, <2>2, <2>3, <3>1, CounterStarts
  <2>4. CASE counter["send"].value # 0
    <3>1. Ahead' <= Ahead /\ Ahead' \in Int
      BY <1>n, <1>t, <2>1, <2>2, NumFacts DEF Ahead
    <3>. QED BY <1>a, <1>7, <1>n, <1>t, <2>1, <2>2, <2>4, <3>1 DEF SendsCounted
  <2>. QED BY <2>3, <2>4
<1>8. CASE TokenExpires \/ LoginGrants \/ LoginSaves \/ LoginFails \/ UNCHANGED vars
  BY <1>8, <1>a, <1>t, SendsKept DEF TokenExpires, LoginGrants, LoginSaves, LoginFails, vars, limits
<1>9. ASSUME NEW k \in Counters, Expire(k) PROVE SendsCounted'
  <2>1. /\ counter' = [counter EXCEPT ![k] = Nothing] /\ calls' = [calls EXCEPT ![k] = 0] /\ failed' = [failed EXCEPT ![k] = 0]
        /\ UNCHANGED <<caller, redis, blind>>
    BY <1>9 DEF Expire
  <2>2. CASE k = "send"
    <3>1. counter'["send"].value = 0 /\ Answered("send")' = 0
      BY <1>k, <1>t, <2>1, <2>2 DEF TypeOK, Nothing, Answered
    <3>2. Uncounted' \in Nat
      BY UncountedType
    <3>. QED BY <1>a, <1>t, <2>1, <3>1, <3>2 DEF SendsCounted
  <2>3. CASE k # "send"
    BY <1>k, <1>t, <2>1, <2>3, SendsKept DEF TypeOK, Answered
  <2>. QED BY <2>2, <2>3
<1>10. CASE RedisChanges
  BY <1>10 DEF RedisChanges, SendsCounted
<1>11. ASSUME Crash, ~blind' PROVE SendsCounted'
  <2>1. /\ ~blind /\ UNCHANGED <<calls, failed, counter, redis>>
        /\ \A c \in Sends : caller[c].pc \notin {"count", "set", "incr"} /\ caller'[c].pc = "idle"
    BY <1>11, <1>k, <1>r DEF Crash
  <2>2. \A c \in Sends : caller[c].pc \in Pc
    BY <1>k, <1>t DEF CallerRecord
  <2>3. Settled' = Settled /\ Free' = Free /\ Uncounted' = Uncounted /\ LetThrough' = 0
    <3>1. \A c \in Sends : /\ caller[c].pc \in Pc \ {"set"} /\ caller[c].pc \in Pc \ {"count", "set", "incr"}
                           /\ caller'[c].pc \in Pc \ {"set"} /\ caller'[c].pc \in Pc \ {"count", "set", "incr"}
                           /\ caller[c].pc \notin {"count", "set"} /\ caller'[c].pc \notin {"count", "set"}
      BY <2>1, <2>2 DEF Pc
    <3>2. {c \in Sends : caller'[c].pc \in {"token", "refresh", "save", "call"}} = {}
      BY <2>1
    <3>. QED BY <3>1, <3>2, FS_EmptySet DEF Settled, Free, Uncounted, LetThrough, Num
  <2>4. Ahead' <= Ahead /\ Ahead' \in Int
    BY <1>n, <1>t, <2>1, <2>3, NumFacts DEF Ahead
  <2>. QED BY <1>a, <1>n, <1>t, <2>1, <2>3, <2>4 DEF SendsCounted
<1>12. ASSUME NEW c \in Sends, CallX(c) \/ Count(c) \/ Set(c) \/ Incr(c), blind PROVE SendsCounted'
  BY <1>12 DEF CallX, Count, Set, Incr, limits, SendsCounted
<1>13. ASSUME blind' PROVE SendsCounted'
  BY <1>13 DEF SendsCounted
<1>14. ASSUME NEW c \in Callers PROVE c = Poller \/ c \in Sends
  BY DEF Callers
<1>. QED
  BY <1>1, <1>2, <1>3, <1>4, <1>5, <1>6, <1>7, <1>8, <1>9, <1>10, <1>11, <1>12, <1>13, <1>14 DEF Next, CallerStep

LEMMA UnclaimedStep == AccessSound /\ [Next]_vars => Unclaimed'
<1>. SUFFICES ASSUME AccessSound, [Next]_vars, blind', NEW k \in Counters
                PROVE  calls'[k] = 0 /\ failed'[k] = 0
  BY DEF Unclaimed
<1>t. /\ calls \in [Counters -> Nat] /\ failed \in [Counters -> Nat]
      /\ blind => calls[k] = 0 /\ failed[k] = 0
  BY DEF AccessSound, TypeOK, Unclaimed
<1>1. CASE \E c \in Callers : CallerStep(c)
  BY <1>1, <1>t DEF CallerStep, ReadSession, Refresh, Save, RefreshFails, Check, CallX, CallFails,
     AnswerFails, Received, Count, Set, Incr, limits
<1>2. CASE \E j \in Counters : Expire(j)
  BY <1>2, <1>t DEF Expire
<1>3. CASE RedisChanges \/ Crash
  BY <1>3 DEF RedisChanges, Crash
<1>4. CASE TokenExpires \/ LoginGrants \/ LoginSaves \/ LoginFails \/ UNCHANGED vars
  BY <1>4, <1>t DEF TokenExpires, LoginGrants, LoginSaves, LoginFails, vars, limits
<1>. QED BY <1>1, <1>2, <1>3, <1>4 DEF Next

-----------------------------------------------------------------------------
LEMMA AccessSoundStep == AccessSound /\ [Next]_vars => AccessSound'
BY TypeStep, TokensStep, LimitsStep, SendsStep, UnclaimedStep DEF AccessSound

\* The inductive invariant holds throughout.
THEOREM AccessAlwaysSound == Spec => []AccessSound
BY AccessSoundInit, AccessSoundStep, PTL DEF Spec

\* Tokens, callers and counters keep their types.
THEOREM TypeCorrect == Spec => []TypeOK
<1>1. AccessSound => TypeOK
  BY DEF AccessSound
<1>. QED BY <1>1, AccessAlwaysSound, PTL

\* However many sends refresh beside the poll and the logins, the stored refresh
\* token can be used or is about to be replaced, unless a failure lost its successor.
THEOREM SessionAlwaysLives == Spec => []SessionLives
<1>1. AccessSound => SessionLives
  BY DEF AccessSound
<1>. QED BY <1>1, AccessAlwaysSound, PTL

\* A limit that is reached is lifted in the end, but for the race of an expiry
\* with an increment.
THEOREM LimitAlwaysLifts == Spec => []LimitLifts
<1>1. AccessSound => LimitLifts
  BY ConstantsAssumption DEF AccessSound, CountersExpire, LimitLifts, Nothing
<1>. QED BY <1>1, AccessAlwaysSound, PTL

\* X receives no more calls of a poll than its limit while its counter lasts, and of
\* any number of sends no more than restarting their counter one after the other
\* lets through, plus in either case those that fail, as long as no answered call
\* goes uncounted.
THEOREM CallsAlwaysBounded == Spec => []CallsBounded
<1>1. ASSUME AccessSound
      PROVE  CallsBounded
  <2>. DEFINE n == Cardinality(Sends)
  <2>1. TypeOK /\ PollCounted /\ SendsCounted /\ Unclaimed /\ Limit \in Nat /\ Limit >= 1 /\ n \in Nat
    BY <1>1, ConstantsAssumption, NumFacts DEF AccessSound
  <2>2. /\ Answered("poll") <= Limit /\ Answered("poll") \in Int /\ Answered("send") \in Int
        /\ \A k \in Counters : calls[k] \in Nat /\ failed[k] \in Nat
    BY <2>1 DEF PollCounted, Unclaimed, TypeOK, Counters, Answered
  <2>3. Restarts(n) + 2 * n = n * (2 * Limit + n - 1) /\ Restarts(n) \in Int /\ Restarts(n) >= 0
    <3>1. Restarts(0) = 0 /\ Restarts(0) <= Restarts(n)
      BY <2>1, RestartsGrow DEF Restarts
    <3>2. Restarts(n) \in Int
      BY <2>1, RestartsFacts
    <3>3. Restarts(n) + 2 * n = n * (2 * Limit + n - 1)
      BY <2>1, SMT DEF Restarts
    <3>. QED BY <3>1, <3>2, <3>3
  <2>4. 2 * Answered("send") <= Restarts(n) + 2 * n
    <3>. HIDE DEF n
    <3>1. CASE blind
      BY <2>1, <2>3, <3>1 DEF Unclaimed, Counters, Answered
    <3>2. CASE ~blind /\ counter["send"].value = 0
      BY <2>1, <2>2, <2>3, <3>2, NumFacts DEF SendsCounted, n
    <3>3. CASE ~blind /\ counter["send"].value # 0
      <4>1. 2 * (Answered("send") + Ahead) <= Restarts(Settled) + 2 * n /\ counter["send"].value \in Nat
        BY <2>1, <3>3 DEF SendsCounted, n, TypeOK, Counters
      <4>2. Ahead \in Nat
        BY <2>1, <4>1, NumFacts DEF Ahead
      <4>3. Restarts(Settled) <= Restarts(n) /\ Restarts(Settled) \in Int
        BY <2>1, NumFacts, RestartsGrow, RestartsFacts DEF n
      <4>. QED BY <2>1, <2>2, <2>3, <4>1, <4>2, <4>3
    <3>. QED BY <3>1, <3>2, <3>3
  <2>5. Answered("send") <= (n * (2 * Limit + n - 1)) \div 2
    <3>. DEFINE m == n * (2 * Limit + n - 1)
    <3>1. 2 * Answered("send") <= m /\ m \in Nat
      BY <2>1, <2>2, <2>3, <2>4
    <3>. HIDE DEF m
    <3>2. Answered("send") <= m \div 2
      BY <2>2, <3>1
    <3>. QED BY <3>2 DEF m
  <2>6. Through("poll") = Limit /\ Through("send") = (n * (2 * Limit + n - 1)) \div 2
    BY DEF Through
  <2>7. Through("send") \in Int
    BY <2>1, <2>6
  <2>. HIDE DEF n
  <2>8. ASSUME NEW k \in Counters PROVE calls[k] <= Through(k) + failed[k]
    BY <2>1, <2>2, <2>5, <2>6, <2>7 DEF Counters, Answered
  <2>. QED BY <2>8 DEF CallsBounded
<1>. QED BY <1>1, AccessAlwaysSound, PTL
=============================================================================
