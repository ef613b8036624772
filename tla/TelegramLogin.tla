---------------------------- MODULE TelegramLogin ----------------------------
(***************************************************************************)
(* One Telegram login: connectTelegram starts it in the background, TDLib   *)
(* asks for the code and, if the account has one, for the password, and     *)
(* verifyTelegram passes them on.  Between the two stands a map of the       *)
(* resolvers of the promises TDLib waits for; a key in Redis says how long   *)
(* the login may be verified.                                                *)
(*                                                                         *)
(* The client is the login's own; TelegramPool says when it is not.  A       *)
(* promise is named by the number of its prompt, an entry of the map by the  *)
(* prompt that made it.                                                     *)
(***************************************************************************)
EXTENDS Naturals, FiniteSets, Sequences

CONSTANTS
  Requests,    \* calls of verifyTelegram with the login's id
  MaxPrompts,  \* bound: prompts of TDLib
  MaxMishaps   \* bound: a crash, failing calls of Redis, the database or TDLib

ASSUME LoginAssumption ==
  /\ IsFiniteSet(Requests)
  /\ MaxPrompts \in Nat \ {0} /\ MaxMishaps \in Nat

NoPrompt == 0
Prompts == 1 .. MaxPrompts
Kinds == {"code", "password"}

VARIABLES
  hasPassword, \* the account has a password
  tdl,         \* how far TDLib's login is
  prompt,      \* the promises: what TDLib asked for and what became of it
  fired,       \* how many of their timers have gone off
  entry,       \* the map's entry for the login
  resolves,    \* the prompts an entry's resolvers belong to
  key,         \* the login is in Redis
  expired,     \* five minutes have passed since it was put there
  request,     \* each request: where it is, its answers, its entry, what went wrong
  authorised,  \* the database directory holds a login
  saved,       \* the session and the account are stored
  causes,      \* history: what went wrong with the login
  mishaps

tdlib == <<hasPassword, tdl, authorised>>
prompts == <<prompt, fired, entry, resolves>>
loginVars == <<tdlib, prompts, key, expired, request, saved, causes, mishaps>>

Answers == [code : {"right", "wrong"}, password : {"none", "right", "wrong"}]
Idle == [pc |-> "idle"]
Pc == {"reading", "refused", "polling", "saving", "removing", "forgetting", "ok", "failed"}

LoginTypeOK ==
  /\ hasPassword \in BOOLEAN
  /\ tdl \in {"none", "starting", "asks", "ready", "failed", "gone"}
  /\ prompt \in Seq([kind : Kinds, state : {"pending", "right", "wrong", "rejected"}])
  /\ Len(prompt) <= MaxPrompts
  /\ fired \in 0 .. Len(prompt)
  /\ entry \in Prompts \cup {NoPrompt}
  /\ resolves \in [Prompts -> [Kinds -> Prompts \cup {NoPrompt}]]
  /\ key \in BOOLEAN /\ expired \in BOOLEAN
  /\ request \in [Requests -> {Idle} \cup [pc : Pc, answers : Answers, entry : Prompts \cup {NoPrompt},
                                         cause : SUBSET {"early", "beaten", "slow"}]]
  /\ authorised \in BOOLEAN /\ saved \in BOOLEAN
  /\ mishaps \in 0 .. MaxMishaps

\* A first login, or one of an account that is connected already.
LoginInit ==
  /\ hasPassword \in BOOLEAN
  /\ tdl = "none"
  /\ prompt = <<>>
  /\ fired = 0
  /\ entry = NoPrompt
  /\ resolves = [k \in Prompts |-> [kind \in Kinds |-> NoPrompt]]
  /\ key = FALSE
  /\ expired = FALSE
  /\ request = [r \in Requests |-> Idle]
  /\ authorised \in BOOLEAN
  /\ saved = authorised
  /\ causes = {}
  /\ mishaps = 0

Mishap == mishaps < MaxMishaps /\ mishaps' = mishaps + 1

-----------------------------------------------------------------------------
(* connectTelegram and TDLib *)

\* RedisService.set keeps silent when Redis is away.
Connect ==
  /\ tdl = "none"
  /\ tdl' = "starting"
  /\ \/ key' = TRUE /\ UNCHANGED mishaps
     \/ Mishap /\ UNCHANGED key
  /\ UNCHANGED <<hasPassword, authorised, prompts, expired, request, saved, causes>>

\* A directory that holds a login is not asked for anything.
Resume ==
  /\ tdl = "starting"
  /\ authorised
  /\ tdl' = "ready"
  /\ UNCHANGED <<hasPassword, authorised, prompts, key, expired, request, saved, causes, mishaps>>

Last == Len(prompt)
Pending(k) == k \in DOMAIN prompt /\ prompt[k].state = "pending"

\* Mutant: an entry that is there keeps its resolvers.
AskOnce(kind) ==
  /\ Last < MaxPrompts
  /\ prompt' = Append(prompt, [kind |-> kind, state |-> "pending"])
  /\ entry' = IF entry # NoPrompt THEN entry ELSE Last + 1
  /\ resolves' = [resolves EXCEPT ![entry'][kind] = IF @ # NoPrompt THEN @ ELSE Last + 1]
  /\ UNCHANGED fired

\* getAuthCode and getPassword: the entry that is there gets the new resolvers, and
\* a timer starts.
Ask(kind) ==
  /\ Last < MaxPrompts
  /\ prompt' = Append(prompt, [kind |-> kind, state |-> "pending"])
  /\ entry' = IF entry # NoPrompt THEN entry ELSE Last + 1
  /\ resolves' = [resolves EXCEPT ![entry'][kind] = Last + 1]
  /\ UNCHANGED fired

Begins ==
  /\ tdl = "starting"
  /\ ~authorised
  /\ tdl' = "asks"
  /\ Ask("code")
  /\ UNCHANGED <<hasPassword, authorised, key, expired, request, saved, causes, mishaps>>

\* A right answer after which TDLib asks no more.
Final == prompt[Last].state = "right" /\ (prompt[Last].kind = "code" => ~hasPassword)

\* TDLib asks again for what was wrong, and for the password after the code.
AsksOn ==
  /\ tdl = "asks"
  /\ \/ prompt[Last].state = "wrong" /\ Ask(prompt[Last].kind)
     \/ prompt[Last].state = "right" /\ ~Final /\ Ask("password")
  /\ UNCHANGED <<tdlib, key, expired, request, saved, causes, mishaps>>

Accepts ==
  /\ tdl = "asks"
  /\ Final
  /\ tdl' = "ready"
  /\ authorised' = TRUE
  /\ UNCHANGED <<hasPassword, prompts, key, expired, request, saved, causes, mishaps>>

\* The login in the background fails, with its prompt or by itself.
Fails ==
  /\ tdl \in {"starting", "asks"}
  /\ \/ tdl = "asks" /\ prompt[Last].state = "rejected" /\ UNCHANGED <<causes, mishaps>>
     \/ Mishap /\ causes' = causes \cup {"broken"}
  /\ tdl' = "failed"
  /\ entry' = NoPrompt
  /\ UNCHANGED <<hasPassword, authorised, prompt, fired, resolves, key, expired, request, saved>>

\* The key's five minutes began before any prompt's.
Expire ==
  /\ tdl # "none"
  /\ ~expired
  /\ expired' = TRUE
  /\ key' = FALSE
  /\ UNCHANGED <<tdlib, prompts, request, saved, causes, mishaps>>

Reject(ks) ==
  prompt' = [k \in 1 .. Last |-> IF k \in ks /\ Pending(k) THEN [prompt[k] EXCEPT !.state = "rejected"]
                                 ELSE prompt[k]]

\* What the resolvers of an entry belong to; none of them for prompts not yet asked.
Of(e) == IF e = NoPrompt THEN {} ELSE {resolves[e][kind] : kind \in Kinds}

\* Mutant: the timer rejects what the map's entry has.
TimerByEntry ==
  /\ tdl # "gone"
  /\ expired
  /\ fired < Last
  /\ fired' = fired + 1
  /\ Reject(Of(entry))
  /\ entry' = NoPrompt
  /\ UNCHANGED <<tdlib, resolves, key, expired, request, saved, causes, mishaps>>

\* The timers of the prompts go off in turn, whatever became of the prompts, and
\* take with them the entry the login has by then.
Timer ==
  /\ tdl # "gone"
  /\ expired
  /\ fired < Last
  /\ fired' = fired + 1
  /\ Reject({fired'})
  /\ entry' = NoPrompt
  /\ UNCHANGED <<tdlib, resolves, key, expired, request, saved, causes, mishaps>>

-----------------------------------------------------------------------------
(* verifyTelegram *)

Goto(r, pc) == request' = [request EXCEPT ![r].pc = pc]

\* The login is sought in Redis, where an error reads as no login.  After a crash a
\* request finds no entry and is refused as well; it is left out.
VerifyTelegram(r) ==
  /\ tdl \notin {"none", "gone"}
  /\ request[r] = Idle
  /\ \E answers \in Answers, pc \in {"reading", "refused"} :
       /\ request' = [request EXCEPT ![r] =
            [pc |-> pc, answers |-> answers, entry |-> NoPrompt, cause |-> {}]]
       /\ pc = "reading" => key
       /\ IF key /\ pc = "refused" THEN Mishap ELSE UNCHANGED mishaps
  /\ UNCHANGED <<tdlib, prompts, key, expired, saved, causes>>

\* The state of prompt k after the answers.
AnsweredBy(k, answers) ==
  IF Pending(k) /\ resolves[entry][prompt[k].kind] = k /\ answers[prompt[k].kind] # "none"
    THEN [prompt[k] EXCEPT !.state = answers[prompt[k].kind]]
    ELSE prompt[k]

\* History: the answers come before the last prompt, or when it has its answer.
Mistimed ==
  (IF prompt[Last].kind = "code" /\ hasPassword THEN {"early"} ELSE {})
    \cup (IF Pending(Last) THEN {} ELSE {"beaten"})

\* Mutant: the code is passed on only without a password.
AnswerEither(r) ==
  /\ request[r].pc = "reading"
  /\ entry # NoPrompt
  /\ LET answers == request[r].answers IN
       prompt' = [k \in 1 .. Last |->
         IF prompt[k].kind = "code" /\ answers.password # "none" THEN prompt[k] ELSE AnsweredBy(k, answers)]
  /\ request' = [request EXCEPT ![r].pc = "polling", ![r].entry = entry, ![r].cause = Mistimed]
  /\ UNCHANGED <<tdlib, fired, entry, resolves, key, expired, saved, causes, mishaps>>

\* Code and password go to the prompts there are; the password given with the code
\* finds no prompt, as TDLib asks for it only when it has the code.
Answer(r) ==
  /\ request[r].pc = "reading"
  /\ entry # NoPrompt
  /\ prompt' = [k \in 1 .. Last |-> AnsweredBy(k, request[r].answers)]
  /\ request' = [request EXCEPT ![r].pc = "polling", ![r].entry = entry, ![r].cause = Mistimed]
  /\ UNCHANGED <<tdlib, fired, entry, resolves, key, expired, saved, causes, mishaps>>

Refused(r) ==
  /\ request[r].pc = "reading"
  /\ entry = NoPrompt
  /\ Goto(r, "refused")
  /\ UNCHANGED <<tdlib, prompts, key, expired, saved, causes, mishaps>>

\* pollTelegramAuthCompletion
Seen(r) ==
  /\ request[r].pc = "polling"
  /\ tdl = "ready"
  /\ Goto(r, "saving")
  /\ UNCHANGED <<tdlib, prompts, key, expired, saved, causes, mishaps>>

Polling == {r \in Requests : request[r].pc = "polling"}

\* TDLib has all it asks for and has not answered yet.
Slow == tdl = "asks" /\ Final

\* The end of a failed request: the prompts of the entry the request got are
\* rejected, and the entry there is by then goes.
Abandon(r, why) ==
  /\ Reject(Of(request[r].entry))
  /\ entry' = NoPrompt
  /\ request' = [request EXCEPT ![r].pc = "failed", ![r].cause = @ \cup (IF Slow THEN {"slow"} ELSE {})]
  /\ causes' = causes \cup why \cup (IF Slow /\ Polling = {r} THEN {"late"} ELSE {})
                             \cup (IF entry # request[r].entry THEN {"cut off"} ELSE {})
  /\ UNCHANGED <<tdlib, fired, resolves, key, expired>>

\* Mutant: thirty seconds are a failure, whether or not the login has come since.
GiveUpBlindly(r) ==
  /\ request[r].pc = "polling"
  /\ Abandon(r, {})
  /\ UNCHANGED <<saved, mishaps>>

\* Thirty seconds have passed without a login.
GiveUp(r) ==
  /\ request[r].pc = "polling"
  /\ tdl # "ready"
  /\ Abandon(r, {})
  /\ UNCHANGED <<saved, mishaps>>

\* There is no client to poll, or no listener after the rows were written.
LosesClient(r) ==
  /\ request[r].pc \in {"polling", "saving"}
  /\ Mishap
  /\ saved' = (saved \/ request[r].pc = "saving")
  /\ Abandon(r, {"broken"})

\* persistSessionAndFetchData: that a row was not written goes unnoticed.
Save(r) ==
  /\ request[r].pc = "saving"
  /\ Goto(r, "removing")
  /\ \/ saved' = TRUE /\ UNCHANGED <<causes, mishaps>>
     \/ Mishap /\ causes' = causes \cup {"unsaved"} /\ UNCHANGED saved
  /\ UNCHANGED <<tdlib, prompts, key, expired>>

\* cleanupAuthState, in two steps
RemoveKey(r) ==
  /\ request[r].pc = "removing"
  /\ Goto(r, "forgetting")
  /\ \/ key' = FALSE /\ UNCHANGED mishaps
     \/ Mishap /\ UNCHANGED key
  /\ UNCHANGED <<tdlib, prompts, expired, saved, causes>>

Forget(r) ==
  /\ request[r].pc = "forgetting"
  /\ Goto(r, "ok")
  /\ entry' = NoPrompt
  /\ UNCHANGED <<tdlib, prompt, fired, resolves, key, expired, saved, causes, mishaps>>

\* Promises, timers and requests are gone, the key and the directory are not.
Crash ==
  /\ tdl \notin {"none", "gone"}
  /\ Mishap
  /\ tdl' = "gone"
  /\ entry' = NoPrompt
  /\ request' = [r \in Requests |->
       IF request[r] = Idle \/ request[r].pc \in {"ok", "failed", "refused"} THEN request[r]
       ELSE [request[r] EXCEPT !.pc = "refused"]]
  /\ causes' = causes \cup {"crashed"}
  /\ UNCHANGED <<hasPassword, authorised, prompt, fired, resolves, key, expired, saved>>

-----------------------------------------------------------------------------
LoginNext ==
  \/ Connect \/ Resume \/ Begins \/ AsksOn \/ Accepts \/ Fails \/ Expire \/ Timer \/ Crash
  \/ \E r \in Requests :
       VerifyTelegram(r) \/ Answer(r) \/ Refused(r) \/ Seen(r) \/ GiveUp(r) \/ LosesClient(r) \/ Save(r) \/ RemoveKey(r) \/ Forget(r)

LoginSpec == LoginInit /\ [][LoginNext]_loginVars

\* Time passes, and timers go off.
LoginFairSpec == LoginSpec /\ WF_loginVars(Expire) /\ WF_loginVars(Timer)

-----------------------------------------------------------------------------
(* Properties *)

\* As long as the login may be verified, a prompt TDLib waits for can be answered:
\* the map has an entry with its resolver, unless a request that had got an earlier
\* entry gave up and took the present one with it.
AskedIsAnswerable ==
  tdl = "asks" /\ Pending(Last) /\ key =>
    "cut off" \in causes \/ (entry # NoPrompt /\ resolves[entry][prompt[Last].kind] = Last)

\* A request with the right code and password, both of which connectTelegram's client
\* may send at once, fails only because the password came before TDLib asked for it
\* and was dropped, another request had answered or rejected the prompt, a call
\* failed, or TDLib was slow.
Right(r) ==
  LET answers == request[r].answers IN
    answers.code = "right" /\ (hasPassword => answers.password = "right")
FailsForCause ==
  \A r \in Requests : request[r] # Idle /\ request[r].pc = "failed" /\ Right(r) =>
    \/ request[r].cause # {}
    \/ "broken" \in causes

\* An account that is logged in on disk is stored, or a request is about to store it,
\* unless every request had given up before TDLib accepted the last answer, a row was
\* not written, TDLib failed, or the process died.  After that TDLib asks for nothing
\* and this login's requests find no prompt to answer.
AuthorisedIsSaved ==
  authorised =>
    \/ saved
    \/ \E r \in Requests : request[r] # Idle /\ request[r].pc \in {"polling", "saving"}
    \/ causes \cap {"late", "broken", "unsaved", "crashed"} # {}

\* TDLib does not wait for ever: every prompt it made is answered or rejected, also
\* when the map has forgotten it, or the process dies.
AskedIsSettled == \A k \in Prompts : Pending(k) ~> (tdl = "gone" \/ ~Pending(k))
=============================================================================
