---------------------------- MODULE AuthSessions ----------------------------
(***************************************************************************)
(* The sessions, refresh tokens, one-time codes and password of one        *)
(* account (module auth).                                                  *)
(*                                                                         *)
(* A handler runs without a transaction, its database calls separated by   *)
(* bcrypt, mail or other calls: what it has read it keeps in task[c], and  *)
(* every write is a step of its own, guarded by the filter of the call.    *)
(* completePasswordReset and the administrator's verification are          *)
(* transactions and single steps.  A process may die between any two.      *)
(*                                                                         *)
(* createSession never joins an existing family, so a family is a session. *)
(* A refresh token is a number, a password the count of those before it;   *)
(* a one-time code, a reset token and a continuation token are named by    *)
(* their challenge.  Anyone may present a token that was ever issued: two  *)
(* tabs, a client that retries, somebody who copied it.                    *)
(*                                                                         *)
(* Left out: authorizationVersion and the access tokens that carry it,     *)
(* roles, suspended tenants, audit and realtime events, and documents that *)
(* predate sessionVersion.                                                 *)
(***************************************************************************)
EXTENDS Naturals, FiniteSets, Sequences, FiniteSetsExt

CONSTANTS
  Clients,       \* handlers under way at once
  MaxAttempts,   \* wrong codes a challenge bears
  MaxFailures,   \* wrong passwords before the account is locked
  MaxSessions, MaxTokens, MaxCodes, MaxPasswords, MaxSuspensions  \* bounds

ASSUME LimitsAssumption == {MaxAttempts, MaxFailures} \subseteq Nat \ {0}
ASSUME BoundsAssumption ==
  {MaxSessions, MaxTokens, MaxSuspensions} \subseteq Nat /\ {MaxCodes, MaxPasswords} \subseteq Nat \ {0}
ASSUME ClientsAssumption == IsFiniteSet(Clients)

VARIABLES
  user,      \* status, whether its e-mail is verified, suspensions so far
  cred,      \* password, failed sign-ins, whether locked
  sessions,  \* in the order of their creation
  tokens,    \* refresh tokens handed out: their session, the one they replaced
  codes,     \* one-time codes in the order of their creation
  task,      \* what each client's handler has read and does next
  cut        \* a handler died before it revoked the sessions (history)

vars == <<user, cred, sessions, tokens, codes, task, cut>>

Purposes == {"account_verification", "password_reset"}
Idle == [at |-> "idle"]

\* accepted, resets, opened count what the code and its two tokens have bought.
Challenge(purpose, continuation) ==
  [purpose |-> purpose, attempts |-> 0, consumed |-> FALSE, lapsed |-> FALSE,
   reset |-> "none", continuation |-> continuation,
   accepted |-> 0, resets |-> 0, opened |-> 0]

\* registerAgency leaves a pending user with a code and a continuation token.
Init ==
  /\ user = [status |-> "pending", verified |-> FALSE, suspensions |-> 0]
  /\ cred = [password |-> 1, failures |-> 0, locked |-> FALSE]
  /\ sessions = <<>> /\ tokens = <<>>
  /\ codes = <<Challenge("account_verification", "open")>>
  /\ task = [c \in Clients |-> Idle]
  /\ cut = FALSE

-----------------------------------------------------------------------------
Active == user.status = "active" /\ user.verified

Live(s) == ~sessions[s].revoked

Do(c, t) == task' = [task EXCEPT ![c] = t]

\* updateMany and updateOne on revokedAt: null
Revoked(S) ==
  [s \in DOMAIN sessions |-> [sessions[s] EXCEPT !.revoked = @ \/ s \in S]]

\* filter { email, purpose, consumedAt: null }, newest first
Unconsumed(purpose) ==
  {i \in DOMAIN codes : codes[i].purpose = purpose /\ ~codes[i].consumed}

\* Mutant: a challenge bears any number of wrong codes.
Unlimited(i) == ~codes[i].consumed /\ ~codes[i].lapsed

\* validateOtpChallengeState
Usable(i) == ~codes[i].consumed /\ ~codes[i].lapsed /\ codes[i].attempts < MaxAttempts

\* Mutant: the code is consumed by its id alone.
ById(i) == ~codes[i].lapsed

\* findOneAndUpdate in consumeOtp
Consumable(i) == ~codes[i].consumed /\ codes[i].attempts < MaxAttempts /\ ~codes[i].lapsed

-----------------------------------------------------------------------------
(* Sessions. *)

\* createSession writes the session, then reads the profile for its answer.
CreateSession(c) ==
  /\ task[c].at = "create"
  /\ Len(sessions) < MaxSessions /\ Len(tokens) < MaxTokens
  /\ LET s == Len(sessions) + 1
         t == Len(tokens) + 1
     IN  /\ sessions' = Append(sessions, [token |-> t, version |-> 1, revoked |-> FALSE, born |-> cred.password])
         /\ tokens' = Append(tokens, [session |-> s, from |-> 0])
  /\ codes' = IF task[c].claim = 0 THEN codes ELSE [codes EXCEPT ![task[c].claim].opened = @ + 1]
  /\ Do(c, Idle)
  /\ UNCHANGED <<user, cred, cut>>

\* One of those reads fails: the session is deleted, and completeRegistration
\* gives its claim back.
SessionFails(c) ==
  /\ task[c].at = "create"
  /\ codes' = IF task[c].claim = 0 THEN codes ELSE [codes EXCEPT ![task[c].claim].continuation = "open"]
  /\ Do(c, Idle)
  /\ UNCHANGED <<user, cred, sessions, tokens, cut>>

\* refreshToken has found the session of token t.  A token that the session no
\* longer bears ends the family.
ReadSession(c) ==
  /\ task[c] = Idle
  /\ \E t \in DOMAIN tokens :
       LET s == tokens[t].session IN
         /\ Live(s)
         /\ \/ /\ t # sessions[s].token
               /\ Do(c, [at |-> "family", session |-> s])
            \/ /\ t = sessions[s].token /\ Active
               /\ Do(c, [at |-> "rotate", session |-> s, token |-> t, version |-> sessions[s].version])
  /\ UNCHANGED <<user, cred, sessions, tokens, codes, cut>>

\* filter { revokedAt: null, sessionVersion }
SameVersion(s, version) == Live(s) /\ sessions[s].version = version

Rotate(c) ==
  /\ task[c].at = "rotate"
  /\ Len(tokens) < MaxTokens
  /\ LET s == task[c].session
         t == Len(tokens) + 1
     IN  IF SameVersion(s, task[c].version)
         THEN /\ sessions' = [sessions EXCEPT ![s].token = t, ![s].version = task[c].version + 1]
              /\ tokens' = Append(tokens, [session |-> s, from |-> task[c].token])
              /\ Do(c, Idle)
         ELSE /\ Do(c, [at |-> "family", session |-> s])
              /\ UNCHANGED <<sessions, tokens>>
  /\ UNCHANGED <<user, cred, codes, cut>>

\* refresh_token_reuse and concurrent_refresh_detected
RevokeFamily(c) ==
  /\ task[c].at = "family"
  /\ sessions' = Revoked({task[c].session})
  /\ Do(c, Idle)
  /\ UNCHANGED <<user, cred, tokens, codes, cut>>

\* Any token of the session will do.
Logout ==
  /\ \E t \in DOMAIN tokens :
       /\ Live(tokens[t].session)
       /\ sessions' = Revoked({tokens[t].session})
  /\ UNCHANGED <<user, cred, tokens, codes, task, cut>>

\* requireCurrentSessionIdentity, of revokeSession and revokeOtherSessions
RequireCurrent(c) ==
  /\ task[c] = Idle /\ Active
  /\ \E s \in DOMAIN sessions : Live(s) /\ Do(c, [at |-> "others", session |-> s])
  /\ UNCHANGED <<user, cred, sessions, tokens, codes, cut>>

\* One other session, or all of them.
RevokeOthers(c) ==
  /\ task[c].at = "others"
  /\ LET others == DOMAIN sessions \ {task[c].session} IN
       \E S \in {{s} : s \in others} \cup {others} : sessions' = Revoked(S)
  /\ Do(c, Idle)
  /\ UNCHANGED <<user, cred, tokens, codes, cut>>

-----------------------------------------------------------------------------
(* Passwords. *)

\* loginUser has read user and credential, and compares.
ReadCredential(c) ==
  /\ task[c] = Idle /\ ~cred.locked
  /\ \E right \in BOOLEAN :
       Do(c, [at |-> "login", right |-> right, failures |-> cred.failures, active |-> Active])
  /\ UNCHANGED <<user, cred, sessions, tokens, codes, cut>>

\* The count is the one that was read, and anything below the limit unlocks.
WrongPassword(c) ==
  /\ task[c].at = "login" /\ ~task[c].right
  /\ LET locks == task[c].failures + 1 >= MaxFailures IN
       cred' = [cred EXCEPT !.failures = IF locks THEN 0 ELSE task[c].failures + 1, !.locked = locks]
  /\ Do(c, Idle)
  /\ UNCHANGED <<user, sessions, tokens, codes, cut>>

SignIn(c) ==
  /\ task[c].at = "login" /\ task[c].right /\ task[c].active
  /\ cred' = [cred EXCEPT !.failures = 0, !.locked = FALSE]
  /\ Do(c, [at |-> "create", claim |-> 0])
  /\ UNCHANGED <<user, sessions, tokens, codes, cut>>

\* lockedUntil passes.
Unlock ==
  /\ cred.locked /\ cred' = [cred EXCEPT !.locked = FALSE]
  /\ UNCHANGED <<user, sessions, tokens, codes, task, cut>>

\* changePassword has compared the current password.
ComparePassword(c) ==
  /\ task[c] = Idle /\ Active /\ \E s \in DOMAIN sessions : Live(s)
  /\ Do(c, [at |-> "change"])
  /\ UNCHANGED <<user, cred, sessions, tokens, codes, cut>>

NewPassword == [password |-> cred.password + 1, failures |-> 0, locked |-> FALSE]

\* Mutant: the sessions stay.
Afterwards == Idle

ThenRevoke == [at |-> "revoke"]

ChangePassword(c) ==
  /\ task[c].at = "change" /\ cred.password < MaxPasswords
  /\ cred' = NewPassword
  /\ Do(c, ThenRevoke)
  /\ UNCHANGED <<user, sessions, tokens, codes, cut>>

RevokeAll(c) ==
  /\ task[c].at = "revoke"
  /\ sessions' = Revoked(DOMAIN sessions)
  /\ Do(c, Idle)
  /\ UNCHANGED <<user, cred, tokens, codes, cut>>

-----------------------------------------------------------------------------
(* One-time codes. *)

\* createOtpChallenge, from resendOtp or requestPasswordReset, consumes the
\* codes before.
ConsumeOlder(c) ==
  /\ task[c] = Idle
  /\ \E purpose \in Purposes :
       /\ IF purpose = "password_reset" THEN user.status # "blocked"
          ELSE user.status = "pending" /\ ~user.verified
       /\ codes' = [i \in DOMAIN codes |->
            [codes[i] EXCEPT !.consumed = @ \/ (i \in Unconsumed(purpose) /\ ~codes[i].lapsed)]]
       /\ Do(c, [at |-> "issue", purpose |-> purpose])
  /\ UNCHANGED <<user, cred, sessions, tokens, cut>>

\* The code is written and sent; when the mail fails it is deleted.
IssueCode(c) ==
  /\ task[c].at = "issue"
  /\ \/ /\ Len(codes) < MaxCodes
        /\ codes' = Append(codes, Challenge(task[c].purpose, "none"))
     \/ codes' = codes
  /\ Do(c, Idle)
  /\ UNCHANGED <<user, cred, sessions, tokens, cut>>

\* consumeOtp has found the newest code and compares.
ReadCode(c) ==
  /\ task[c] = Idle
  /\ \E purpose \in Purposes, right \in BOOLEAN : \E i \in Unconsumed(purpose) :
       /\ \A j \in Unconsumed(purpose) : j <= i
       /\ Usable(i)
       /\ Do(c, [at |-> "code", code |-> i, right |-> right])
  /\ UNCHANGED <<user, cred, sessions, tokens, codes, cut>>

WrongCode(c) ==
  /\ task[c].at = "code" /\ ~task[c].right
  /\ codes' = [codes EXCEPT ![task[c].code].attempts = IF codes[task[c].code].consumed THEN @ ELSE @ + 1]
  /\ Do(c, Idle)
  /\ UNCHANGED <<user, cred, sessions, tokens, cut>>

ConsumeCode(c) ==
  /\ task[c].at = "code" /\ task[c].right
  /\ LET i == task[c].code IN
       IF Consumable(i)
       THEN /\ codes' = [codes EXCEPT ![i].consumed = TRUE, ![i].accepted = @ + 1]
            /\ Do(c, [at |-> IF codes[i].purpose = "password_reset" THEN "ticket" ELSE "verify", code |-> i])
       ELSE Do(c, Idle) /\ UNCHANGED codes
  /\ UNCHANGED <<user, cred, sessions, tokens, cut>>

\* Time passes: a code, or the token it was exchanged for.
Lapse ==
  /\ \E i \in DOMAIN codes :
       \/ ~codes[i].lapsed /\ codes' = [codes EXCEPT ![i].lapsed = TRUE]
       \/ codes[i].reset = "issued" /\ codes' = [codes EXCEPT ![i].reset = "lapsed"]
       \/ codes[i].continuation = "open" /\ codes' = [codes EXCEPT ![i].continuation = "lapsed"]
  /\ UNCHANGED <<user, cred, sessions, tokens, task, cut>>

\* verifyOtp: the account, the continuation token, then the session.
VerifyUser(c) ==
  /\ task[c].at = "verify"
  /\ IF user.verified THEN Do(c, Idle) /\ UNCHANGED user
     ELSE /\ user' = [user EXCEPT !.verified = TRUE, !.status = "active"]
          /\ Do(c, [at |-> "conclude"])
  /\ UNCHANGED <<cred, sessions, tokens, codes, cut>>

UseContinuation(c) ==
  /\ task[c].at = "conclude"
  /\ codes' = [i \in DOMAIN codes |->
       [codes[i] EXCEPT !.continuation = IF @ = "open" THEN "used" ELSE @]]
  /\ Do(c, [at |-> "create", claim |-> 0])
  /\ UNCHANGED <<user, cred, sessions, tokens, cut>>

\* completeRegistration has found the token open and the account verified.
ReadContinuation(c) ==
  /\ task[c] = Idle /\ Active
  /\ \E i \in DOMAIN codes :
       codes[i].continuation = "open" /\ Do(c, [at |-> "claim", code |-> i])
  /\ UNCHANGED <<user, cred, sessions, tokens, codes, cut>>

ClaimContinuation(c) ==
  /\ task[c].at = "claim"
  /\ LET i == task[c].code IN
       IF codes[i].continuation = "open"
       THEN /\ codes' = [codes EXCEPT ![i].continuation = "used"]
            /\ Do(c, [at |-> "create", claim |-> i])
       ELSE Do(c, Idle) /\ UNCHANGED codes
  /\ UNCHANGED <<user, cred, sessions, tokens, cut>>

\* verifyPasswordReset
IssueResetToken(c) ==
  /\ task[c].at = "ticket"
  /\ codes' = [codes EXCEPT ![task[c].code].reset = "issued"]
  /\ Do(c, Idle)
  /\ UNCHANGED <<user, cred, sessions, tokens, cut>>

\* One transaction: the token, the account, the password and the sessions.
CompletePasswordReset ==
  /\ cred.password < MaxPasswords
  /\ \E i \in DOMAIN codes :
       /\ codes[i].reset = "issued"
       /\ codes' = [codes EXCEPT ![i].reset = "used", ![i].resets = @ + 1]
  /\ user' = [user EXCEPT !.verified = TRUE, !.status = IF @ = "pending" THEN "active" ELSE @]
  /\ cred' = NewPassword
  /\ sessions' = Revoked(DOMAIN sessions)
  /\ UNCHANGED <<tokens, task, cut>>

-----------------------------------------------------------------------------
(* Administrators, and the end of a process. *)

\* verifyUserSuperAdmin
VerifyByAdmin ==
  /\ user.status = "pending" /\ ~user.verified
  /\ user' = [user EXCEPT !.status = "active", !.verified = TRUE]
  /\ codes' = [i \in DOMAIN codes |-> [codes[i] EXCEPT !.consumed =
       @ \/ codes[i].purpose = "account_verification"]]
  /\ UNCHANGED <<cred, sessions, tokens, task, cut>>

\* updateUserRoleSuperAdmin saves the status, then revokes the sessions.
Suspend(c) ==
  /\ task[c] = Idle /\ user.status # "blocked" /\ user.suspensions < MaxSuspensions
  /\ user' = [user EXCEPT !.status = "blocked", !.suspensions = @ + 1]
  /\ Do(c, ThenRevoke)
  /\ UNCHANGED <<cred, sessions, tokens, codes, cut>>

Reinstate ==
  /\ user.status = "blocked" /\ user' = [user EXCEPT !.status = "active"]
  /\ UNCHANGED <<cred, sessions, tokens, codes, task, cut>>

\* A handler stops: it refuses what it has read, or its process dies.
Stop(c) ==
  /\ task[c] # Idle
  /\ cut' = (cut \/ task[c].at = "revoke")
  /\ Do(c, Idle)
  /\ UNCHANGED <<user, cred, sessions, tokens, codes>>

Handler(c) ==
  \/ CreateSession(c) \/ SessionFails(c) \/ ReadSession(c) \/ Rotate(c) \/ RevokeFamily(c)
  \/ RequireCurrent(c) \/ RevokeOthers(c)
  \/ ReadCredential(c) \/ WrongPassword(c) \/ SignIn(c)
  \/ ComparePassword(c) \/ ChangePassword(c) \/ RevokeAll(c)
  \/ ConsumeOlder(c) \/ IssueCode(c) \/ ReadCode(c) \/ WrongCode(c) \/ ConsumeCode(c)
  \/ VerifyUser(c) \/ UseContinuation(c) \/ ReadContinuation(c) \/ ClaimContinuation(c)
  \/ IssueResetToken(c) \/ Suspend(c) \/ Stop(c)

Next ==
  \/ \E c \in Clients : Handler(c)
  \/ Logout \/ Unlock \/ Lapse \/ CompletePasswordReset \/ VerifyByAdmin \/ Reinstate

Spec == Init /\ [][Next]_vars

-----------------------------------------------------------------------------
Tasks ==
  {Idle, [at |-> "change"], [at |-> "revoke"], [at |-> "conclude"]}
  \cup [at : {"create"}, claim : 0..MaxCodes]
  \cup [at : {"family", "others"}, session : 1..MaxSessions]
  \cup [at : {"rotate"}, session : 1..MaxSessions, token : 1..MaxTokens, version : 1..MaxTokens]
  \cup [at : {"login"}, right : BOOLEAN, failures : 0..(MaxFailures - 1), active : BOOLEAN]
  \cup [at : {"issue"}, purpose : Purposes]
  \cup [at : {"code"}, code : 1..MaxCodes, right : BOOLEAN]
  \cup [at : {"verify", "claim", "ticket"}, code : 1..MaxCodes]

\* Types, and the bound on guesses: the attempts are read before they are
\* counted, so each handler under way but one may add a wrong code to the limit.
TypeOK ==
  /\ user \in [status : {"pending", "active", "blocked"}, verified : BOOLEAN, suspensions : 0..MaxSuspensions]
  /\ cred \in [password : 1..MaxPasswords, failures : 0..(MaxFailures - 1), locked : BOOLEAN]
  /\ \A s \in DOMAIN sessions : sessions[s] \in
       [token : 1..MaxTokens, version : 1..MaxTokens, revoked : BOOLEAN, born : 1..cred.password]
  /\ \A t \in DOMAIN tokens : tokens[t] \in [session : DOMAIN sessions, from : 0..(t - 1)]
  /\ \A i \in DOMAIN codes : codes[i] \in
       [purpose : Purposes, attempts : 0..(MaxAttempts + Cardinality(Clients) - 1),
        consumed : BOOLEAN, lapsed : BOOLEAN, reset : {"none", "issued", "lapsed", "used"},
        continuation : {"none", "open", "lapsed", "used"}, accepted : Nat, resets : Nat, opened : Nat]
  /\ task \in [Clients -> Tasks]
  /\ cut \in BOOLEAN

\* However refreshes of one session overlap, a refresh token is replaced at most
\* once, and a live session bears the last token that was handed out for it: no
\* two holders of a token both keep a session.
OneSuccessor ==
  /\ \A t, u \in DOMAIN tokens : tokens[t].from # 0 /\ tokens[t].from = tokens[u].from => t = u
  /\ \A s \in DOMAIN sessions : Live(s) =>
       LET own == {t \in DOMAIN tokens : tokens[t].session = s}
       IN  sessions[s].token = Max(own) /\ sessions[s].version = Cardinality(own)

\* A code that two handlers have compared, or that is renewed, lapses or is
\* overtaken by an administrator's verification meanwhile, is accepted at most
\* once; so its reset token changes at most one password, and its continuation
\* token opens at most one session, though a failure gives it back.  A refresh
\* token is spent once as well.
SpentOnce ==
  /\ OneSuccessor
  /\ \A i \in DOMAIN codes :
       codes[i].accepted <= 1 /\ codes[i].resets <= codes[i].accepted /\ codes[i].opened <= 1

\* When a password is changed or reset, no session that was there survives it,
\* whatever refreshes are under way, once the change has revoked them.
OldSessionsEnd ==
  \A s \in DOMAIN sessions :
    Live(s) /\ sessions[s].born # cred.password => cut \/ \E c \in Clients : task[c].at = "revoke"
=============================================================================
