-------------------------------- MODULE XAccess --------------------------------
(***************************************************************************)
(* What stands between XProvider and the API of X for one user: the OAuth  *)
(* tokens of the user's session, which polls and sends refresh when they   *)
(* are about to expire, and the counters of XRateLimiterService in Redis.   *)
(* A refresh token can be used once; the answer holds the next one.        *)
(*                                                                         *)
(* Up to twenty sends run at once beside the poll.  Each call that leaves   *)
(* the process is a step.  Sends keep three counters of different windows  *)
(* in one way; one stands for them.  The limits X reports of itself are    *)
(* left out: a call may fail for any reason.                               *)
(***************************************************************************)
EXTENDS Naturals, FiniteSets

CONSTANTS
  Sends,       \* sendMessage calls running at once
  Poller,      \* the account's poll
  Limit,       \* POLL_15MIN_LIMIT, SEND_15MIN_LIMIT
  MaxGrants,   \* bound: refresh tokens X hands out
  MaxMishaps   \* bound: failing calls, crashes and times Redis goes away

ASSUME ConstantsAssumption ==
  /\ Poller \notin Sends
  /\ Limit \in Nat \ {0}
  /\ MaxGrants \in Nat \ {0}
  /\ MaxMishaps \in Nat
  /\ IsFiniteSet(Sends)

Callers == Sends \cup {Poller}
Counters == {"poll", "send"}
Grants == 1 .. MaxGrants
None == 0

VARIABLES
  granted,  \* the number of refresh tokens X handed out
  live,     \* those not used yet
  session,  \* the stored refresh token, and whether its access token lasts
  caller,   \* each poll or send: where it is, the token it uses, the one it got
  login,    \* handleXCallback: where it is and the token it got
  counter,  \* each counter: its value, and whether it will expire
  redis,    \* the Redis client is ready
  calls,    \* calls of each kind X received since its counter last expired
  failed,   \* those of them that failed, which no counter counts
  lost,     \* history: the successor of the stored token was not stored
  raced,    \* history: counters that expired between look and increment
  blind,    \* history: an answered call may be uncounted, Redis or the process being
            \* away; calls are not followed any more
  mishaps

tokens == <<granted, live, session, lost>>
limits == <<counter, redis, calls, failed, raced, blind>>
vars == <<tokens, caller, login, limits, mishaps>>

Pc == {"idle", "check", "token", "refresh", "save", "call", "count", "set", "incr"}
Nothing == [value |-> 0, expires |-> FALSE]
AtRest == [pc |-> "idle", round |-> 1, old |-> None, new |-> None]

TypeOK ==
  /\ granted \in Grants
  /\ live \subseteq Grants
  /\ session \in [token : Grants, fresh : BOOLEAN]
  /\ caller \in [Callers -> [pc : Pc, round : 1 .. 2, old : Grants \cup {None}, new : Grants \cup {None}]]
  /\ login \in Grants \cup {None}
  /\ counter \in [Counters -> [value : Nat, expires : BOOLEAN]]
  /\ redis \in BOOLEAN
  /\ calls \in [Counters -> Nat]
  /\ failed \in [Counters -> Nat]
  /\ lost \in BOOLEAN
  /\ raced \subseteq Counters
  /\ blind \in BOOLEAN
  /\ mishaps \in 0 .. MaxMishaps

Init ==
  /\ granted = 1
  /\ live = {1}
  /\ session = [token |-> 1, fresh |-> TRUE]
  /\ caller = [c \in Callers |-> AtRest]
  /\ login = None
  /\ counter = [k \in Counters |-> Nothing]
  /\ redis = TRUE
  /\ calls = [k \in Counters |-> 0]
  /\ failed = [k \in Counters |-> 0]
  /\ lost = FALSE
  /\ raced = {}
  /\ blind = FALSE
  /\ mishaps = 0

Mishap == mishaps < MaxMishaps /\ mishaps' = mishaps + 1
At(c, pc) == caller[c].pc = pc
Goto(c, pc) == caller' = [caller EXCEPT ![c].pc = pc]
KeyOf(c) == IF c = Poller THEN "poll" ELSE "send"

-----------------------------------------------------------------------------
(* A poll asks for a token, checks its counter and asks for a token once    *)
(* more; a send checks and then asks.                                      *)

\* Where a caller goes with a token, or a poll without.
Provided(c) ==
  IF c = Poller /\ caller[c].round = 1 THEN [AtRest EXCEPT !.pc = "check"] ELSE [AtRest EXCEPT !.pc = "call"]

\* ensureValidToken lets a poll go on with the token it had; a send fails.
Refused(c) == IF c = Poller THEN Provided(c) ELSE AtRest

-----------------------------------------------------------------------------
(* refreshTokenIfNeeded *)

\* The expiry that is stored has come close.
TokenExpires ==
  /\ session.fresh
  /\ session' = [session EXCEPT !.fresh = FALSE]
  /\ UNCHANGED <<granted, live, lost, caller, login, limits, mishaps>>

ReadSession(c) ==
  /\ At(c, "token") \/ (c = Poller /\ At(c, "idle"))
  /\ caller' = [caller EXCEPT ![c] = IF session.fresh THEN Provided(c)
                                     ELSE [@ EXCEPT !.pc = "refresh", !.old = session.token]]
  /\ UNCHANGED <<tokens, login, limits, mishaps>>

Grant == granted < MaxGrants /\ granted' = granted + 1

\* X exchanges a refresh token that was not used before.
Refresh(c) ==
  /\ At(c, "refresh")
  /\ IF caller[c].old \in live
       THEN /\ Grant
            /\ live' = (live \ {caller[c].old}) \cup {granted'}
            /\ caller' = [caller EXCEPT ![c].pc = "save", ![c].new = granted']
       ELSE /\ caller' = [caller EXCEPT ![c] = Refused(c)]
            /\ UNCHANGED <<granted, live>>
  /\ UNCHANGED <<session, lost, login, limits, mishaps>>

\* Mutant: the access token alone is stored.
SaveAccessOnly(c) ==
  /\ At(c, "save")
  /\ session' = [session EXCEPT !.fresh = TRUE]
  /\ caller' = [caller EXCEPT ![c] = Provided(c)]
  /\ UNCHANGED <<granted, live, lost, login, limits, mishaps>>

\* v2.me() answers and the new tokens are stored.
Save(c) ==
  /\ At(c, "save")
  /\ session' = [token |-> caller[c].new, fresh |-> TRUE]
  /\ lost' = FALSE
  /\ caller' = [caller EXCEPT ![c] = Provided(c)]
  /\ UNCHANGED <<granted, live, login, limits, mishaps>>

\* The request, the v2.me() before the save, or the save fails: what was granted is
\* forgotten.  Whether a request that failed used the token up is not known.
RefreshFails(c) ==
  /\ caller[c].pc \in {"refresh", "save"}
  /\ Mishap
  /\ IF At(c, "refresh") THEN live' \in {live, live \ {caller[c].old}} ELSE UNCHANGED live
  /\ lost' = (lost \/ caller[c].old = session.token)
  /\ caller' = [caller EXCEPT ![c] = Refused(c)]
  /\ UNCHANGED <<granted, session, login, limits>>

\* handleXCallback: the user connects the account anew.
LoginGrants ==
  /\ login = None
  /\ Grant
  /\ live' = live \cup {granted'}
  /\ login' = granted'
  /\ UNCHANGED <<session, lost, caller, limits, mishaps>>

LoginSaves ==
  /\ login # None
  /\ session' = [token |-> login, fresh |-> TRUE]
  /\ lost' = FALSE
  /\ login' = None
  /\ UNCHANGED <<granted, live, caller, limits, mishaps>>

LoginFails ==
  /\ login # None
  /\ Mishap
  /\ login' = None
  /\ UNCHANGED <<tokens, caller, limits>>

-----------------------------------------------------------------------------
(* XRateLimiterService *)

\* What get returns of a counter; nothing while Redis is away.
Value(k) == IF redis THEN counter[k].value ELSE 0

Check(c) ==
  /\ At(c, IF c = Poller THEN "check" ELSE "idle")
  /\ caller' = [caller EXCEPT ![c] =
                  IF Value(KeyOf(c)) >= Limit THEN AtRest ELSE [@ EXCEPT !.pc = "token", !.round = 2]]
  /\ UNCHANGED <<tokens, login, limits, mishaps>>

\* X receives one more call of k.
Received(k) == IF blind THEN calls ELSE [calls EXCEPT ![k] = @ + 1]

CallX(c) ==
  /\ At(c, "call")
  /\ calls' = Received(KeyOf(c))
  /\ Goto(c, "count")
  /\ UNCHANGED <<tokens, login, counter, redis, failed, raced, blind, mishaps>>

\* The call fails before it gets to X.
CallFails(c) ==
  /\ At(c, "call")
  /\ caller' = [caller EXCEPT ![c] = AtRest]
  /\ UNCHANGED <<tokens, login, limits, mishaps>>

\* X receives the call and fails it (429 among others), or its answer is lost: poll
\* and sendMessage catch the error and pass over the count.
AnswerFails(c) ==
  /\ At(c, "call")
  /\ Mishap
  /\ calls' = Received(KeyOf(c))
  /\ failed' = IF blind THEN failed ELSE [failed EXCEPT ![KeyOf(c)] = @ + 1]
  /\ caller' = [caller EXCEPT ![c] = AtRest]
  /\ UNCHANGED <<tokens, login, counter, redis, raced, blind>>

\* Mutant: every count starts the counter anew.
CountAlwaysSets(c) ==
  /\ At(c, "count")
  /\ Goto(c, "set")
  /\ UNCHANGED <<tokens, login, limits, mishaps>>

\* incrementPollCounter, incrementCounter: the value decides between set and incr.
Count(c) ==
  /\ At(c, "count")
  /\ Goto(c, IF Value(KeyOf(c)) = 0 THEN "set" ELSE "incr")
  /\ UNCHANGED <<tokens, login, limits, mishaps>>

\* Mutant: the expiry is forgotten.
SetForGood(c) ==
  /\ At(c, "set")
  /\ counter' = IF redis THEN [counter EXCEPT ![KeyOf(c)] = [value |-> 1, expires |-> FALSE]] ELSE counter
  /\ caller' = [caller EXCEPT ![c] = AtRest]
  /\ UNCHANGED <<tokens, login, redis, calls, failed, raced, blind, mishaps>>

Set(c) ==
  /\ At(c, "set")
  /\ counter' = IF redis THEN [counter EXCEPT ![KeyOf(c)] = [value |-> 1, expires |-> TRUE]] ELSE counter
  /\ caller' = [caller EXCEPT ![c] = AtRest]
  /\ UNCHANGED <<tokens, login, redis, calls, failed, raced, blind, mishaps>>

\* INCR makes a key that is gone by now, without an expiry.
Incr(c) ==
  /\ At(c, "incr")
  /\ counter' = IF redis THEN [counter EXCEPT ![KeyOf(c)].value = @ + 1] ELSE counter
  /\ raced' = IF redis /\ counter[KeyOf(c)] = Nothing THEN raced \cup {KeyOf(c)} ELSE raced
  /\ caller' = [caller EXCEPT ![c] = AtRest]
  /\ UNCHANGED <<tokens, login, redis, calls, failed, blind, mishaps>>

\* The window ends; calls that are not counted yet fall into the next.
Expire(k) ==
  /\ counter[k].expires
  /\ counter' = [counter EXCEPT ![k] = Nothing]
  /\ calls' = [calls EXCEPT ![k] = 0]
  /\ failed' = [failed EXCEPT ![k] = 0]
  /\ UNCHANGED <<tokens, caller, login, redis, raced, blind, mishaps>>

RedisChanges ==
  /\ redis' = ~redis
  /\ IF redis THEN Mishap ELSE UNCHANGED mishaps
  /\ blind' = TRUE
  /\ calls' = [k \in Counters |-> 0]
  /\ failed' = [k \in Counters |-> 0]
  /\ UNCHANGED <<tokens, caller, login, counter, raced>>

\* The process dies with the tokens that are not stored and the calls not counted yet.
Crash ==
  /\ Mishap
  /\ blind' = (blind \/ \E c \in Callers : caller[c].pc \in {"count", "set", "incr"})
  /\ calls' = IF blind' THEN [k \in Counters |-> 0] ELSE calls
  /\ failed' = IF blind' THEN [k \in Counters |-> 0] ELSE failed
  /\ lost' = (lost \/ \E c \in Callers : caller[c].old = session.token)
  /\ caller' = [c \in Callers |-> AtRest]
  /\ login' = None
  /\ UNCHANGED <<granted, live, session, counter, redis, raced>>

CallerStep(c) ==
  \/ ReadSession(c) \/ Refresh(c) \/ Save(c) \/ RefreshFails(c)
  \/ Check(c) \/ CallX(c) \/ CallFails(c) \/ AnswerFails(c) \/ Count(c) \/ Set(c) \/ Incr(c)

Next ==
  \/ \E c \in Callers : CallerStep(c)
  \/ TokenExpires
  \/ LoginGrants \/ LoginSaves \/ LoginFails
  \/ \E k \in Counters : Expire(k)
  \/ RedisChanges \/ Crash

Spec == Init /\ [][Next]_vars

-----------------------------------------------------------------------------
(* Properties *)

\* The stored refresh token can still be used, or the one that took its place is
\* about to be stored, or was lost by a failure between the refresh and the
\* save; whoever refreshes at the same time.
Replacing(c) == At(c, "save") /\ caller[c].old = session.token
SessionLives ==
  lost \/ session.token \in live \/ \E c \in Callers : Replacing(c)

\* A poll is alone, so while its counter lasts X receives no more of its calls than
\* the limit, and those that fail, which are counted nowhere and bounded by nothing.
\* A send that found no counter may start it anew after others have counted, and all
\* that have counted by then are let through together when one call is left: once
\* more for each send, by one call more each time; again failing calls come on top.
\* (An answered call that goes uncounted, Redis or the process being away, ends the
\* claim.)
Through(k) ==
  LET n == Cardinality(Sends) IN
    IF k = "poll" THEN Limit ELSE (n * (2 * Limit + n - 1)) \div 2
CallsBounded == \A k \in Counters : calls[k] <= Through(k) + failed[k]

\* A counter that stands at its limit will expire, unless it did just between look
\* and increment: then nothing lifts the limit any more.
LimitLifts == \A k \in Counters : counter[k].value >= Limit => (counter[k].expires \/ k \in raced)
=============================================================================
