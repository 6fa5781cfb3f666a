-------------------------- MODULE AuthSessionsProofs --------------------------
(***************************************************************************)
(* What holds of an account's sessions, tokens, codes and password for     *)
(* every number of handlers and every limit.  The inductive invariant IInv *)
(* says what a handler may rely on between its steps: a handler about to   *)
(* rotate a session of the version it read holds its last token, one about *)
(* to spend what a code has bought is the only one, and one that counts a  *)
(* wrong code counted itself in when it read the attempts.                 *)
(***************************************************************************)
EXTENDS AuthSessions, FiniteSetTheorems, SequenceTheorems, TLAPS

-----------------------------------------------------------------------------
(* The inductive invariant. *)

UserRecord ==
  [status : {"pending", "active", "blocked"}, verified : BOOLEAN, suspensions : 0..MaxSuspensions]
CredRecord == [password : 1..MaxPasswords, failures : 0..(MaxFailures - 1), locked : BOOLEAN]
SessionRecord == [token : Nat, version : Nat, revoked : BOOLEAN, born : Nat]
TokenRecord == [session : Nat, from : Nat]
CodeRecord ==
  [purpose : Purposes, attempts : Nat, consumed : BOOLEAN, lapsed : BOOLEAN,
   reset : {"none", "issued", "lapsed", "used"},
   continuation : {"none", "open", "lapsed", "used"},
   accepted : Nat, resets : Nat, opened : Nat]
TaskRecord ==
  [at : {"idle", "change", "revoke", "conclude"}]
  \cup [at : {"create"}, claim : Nat]
  \cup [at : {"family", "others"}, session : Nat]
  \cup [at : {"rotate"}, session : Nat, token : Nat, version : Nat]
  \cup [at : {"login"}, right : BOOLEAN, failures : 0..(MaxFailures - 1), active : BOOLEAN]
  \cup [at : {"issue"}, purpose : Purposes]
  \cup [at : {"code"}, code : Nat, right : BOOLEAN]
  \cup [at : {"verify", "claim", "ticket"}, code : Nat]

\* The types, numbers within their bounds left to InRange.
Shape ==
  /\ user \in UserRecord /\ cred \in CredRecord
  /\ sessions \in Seq(SessionRecord) /\ tokens \in Seq(TokenRecord) /\ codes \in Seq(CodeRecord)
  /\ task \in [Clients -> TaskRecord]
  /\ cut \in BOOLEAN

\* What names a session, a token or a code names one that is there.
Refers(t) ==
  /\ t.at \in {"family", "others", "rotate"} => t.session \in DOMAIN sessions
  /\ t.at = "rotate" => t.token \in DOMAIN tokens
  /\ t.at = "create" => t.claim \in {0} \cup DOMAIN codes
  /\ t.at \in {"code", "verify", "claim", "ticket"} => t.code \in DOMAIN codes

InRange ==
  /\ Len(sessions) <= MaxSessions /\ Len(tokens) <= MaxTokens /\ Len(codes) <= MaxCodes
  /\ \A s \in DOMAIN sessions :
       /\ sessions[s].version \in 1..Len(tokens)
       /\ sessions[s].born \in 1..cred.password
  /\ \A t \in DOMAIN tokens : tokens[t].session \in DOMAIN sessions /\ tokens[t].from < t
  /\ \A c \in Clients : Refers(task[c])

\* A session bears the last token that was handed out for it, which nothing has replaced,
\* and its version counts them.
Family(s) == {t \in DOMAIN tokens : tokens[t].session = s}

Bears(s) ==
  /\ sessions[s].token \in Family(s)
  /\ \A t \in Family(s) : t <= sessions[s].token
  /\ \A t \in DOMAIN tokens : tokens[t].from # sessions[s].token
  /\ sessions[s].version = Cardinality(Family(s))

LastTokens ==
  /\ \A t, u \in DOMAIN tokens : tokens[t].from # 0 /\ tokens[t].from = tokens[u].from => t = u
  /\ \A s \in DOMAIN sessions : Bears(s)

\* A handler that will find the version it read holds the last token.
HoldsLast(t) ==
  t.at = "rotate" =>
    LET s == sessions[t.session] IN
      t.version \in 1..s.version /\ (t.version = s.version => t.token = s.token)

Rotations == \A c \in Clients : HoldsLast(task[c])

Fits(t) == Refers(t) /\ HoldsLast(t)

\* A code is accepted before it is exchanged for a reset token, by one handler; the token
\* is used after it was issued; and a continuation token opens a session for the one
\* handler that has claimed it.
Claimed(i) == {c \in Clients : task[c].at = "create" /\ task[c].claim = i}
Tickets(i) == {c \in Clients : task[c].at = "ticket" /\ task[c].code = i}

SpentCode(i) ==
  /\ codes[i].accepted <= 1 /\ codes[i].resets <= codes[i].accepted /\ codes[i].opened <= 1
  /\ ~codes[i].consumed => codes[i].accepted = 0
  /\ codes[i].reset # "none" => codes[i].accepted = 1
  /\ codes[i].reset \in {"none", "issued"} => codes[i].resets = 0
  /\ Tickets(i) # {} => codes[i].accepted = 1 /\ codes[i].reset = "none"
  /\ \A c, d \in Tickets(i) : c = d
  /\ codes[i].continuation = "open" => codes[i].opened = 0 /\ Claimed(i) = {}
  /\ Claimed(i) # {} => codes[i].opened = 0
  /\ \A c, d \in Claimed(i) : c = d

\* Wrong codes that were counted and those that handlers are about to count.
Guessing(i) == {c \in Clients : task[c].at = "code" /\ task[c].code = i}

Counted(i) ==
  codes[i].attempts + Cardinality(Guessing(i)) <= MaxAttempts - 1 + Cardinality(Clients)

GuessesCounted == \A i \in DOMAIN codes : Counted(i)

IInv ==
  /\ Shape
  /\ InRange
  /\ LastTokens /\ Rotations
  /\ \A i \in DOMAIN codes : SpentCode(i)
  /\ GuessesCounted
  /\ OldSessionsEnd

-----------------------------------------------------------------------------
(* Sequences, and the one task that a step changes. *)

\* A function on the domain of a sequence is a sequence as long.
LEMMA Mapped ==
  ASSUME NEW S, NEW T, NEW s \in Seq(S), NEW t \in [DOMAIN s -> T]
  PROVE  t \in Seq(T) /\ Len(t) = Len(s) /\ DOMAIN t = DOMAIN s
<1>1. Len(s) \in Nat /\ DOMAIN s = 1..Len(s) BY LenProperties
<1>2. t \in Seq(T) BY <1>1, SeqDef
<1>3. DOMAIN t = 1..Len(t) /\ Len(t) \in Nat BY <1>2, LenProperties
<1> QED BY <1>1, <1>2, <1>3

\* What a handler's step does to the tasks.
LEMMA Tasked ==
  ASSUME Shape, NEW c \in Clients, NEW t \in TaskRecord, Do(c, t)
  PROVE  /\ task' \in [Clients -> TaskRecord]
         /\ task'[c] = t
         /\ \A d \in Clients \ {c} : task'[d] = task[d]
  BY DEF Shape, Do

\* The sessions after some are revoked: the same but for that.
LEMMA RevokedSessions ==
  ASSUME Shape, NEW S, sessions' = Revoked(S)
  PROVE  /\ sessions' \in Seq(SessionRecord)
         /\ Len(sessions') = Len(sessions) /\ DOMAIN sessions' = DOMAIN sessions
         /\ \A s \in DOMAIN sessions :
              /\ sessions'[s].token = sessions[s].token
              /\ sessions'[s].version = sessions[s].version
              /\ sessions'[s].born = sessions[s].born
              /\ sessions'[s].revoked = (sessions[s].revoked \/ s \in S)
<1>1. \A s \in DOMAIN sessions : sessions[s] \in SessionRecord
  BY LenProperties DEF Shape
<1>2. Revoked(S) \in [DOMAIN sessions -> SessionRecord]
  BY <1>1 DEF Revoked, SessionRecord
<1>3. \A s \in DOMAIN sessions : Revoked(S)[s] = [sessions[s] EXCEPT !.revoked = @ \/ s \in S]
  BY DEF Revoked
<1>4. \A s \in DOMAIN sessions :
        /\ sessions'[s].token = sessions[s].token
        /\ sessions'[s].version = sessions[s].version
        /\ sessions'[s].born = sessions[s].born
        /\ sessions'[s].revoked = (sessions[s].revoked \/ s \in S)
  BY <1>1, <1>3 DEF SessionRecord
<1> QED BY <1>2, <1>4, Mapped DEF Shape

\* The session that createSession writes, and its token.
LEMMA Created ==
  ASSUME Shape, NEW c \in Clients, CreateSession(c)
  PROVE  LET s == Len(sessions) + 1
             t == Len(tokens) + 1
         IN  /\ sessions' \in Seq(SessionRecord) /\ Len(sessions') = s /\ s \in Nat
             /\ tokens' \in Seq(TokenRecord) /\ Len(tokens') = t /\ t \in Nat
             /\ DOMAIN sessions = 1..(s - 1) /\ DOMAIN sessions' = 1..s
             /\ DOMAIN tokens = 1..(t - 1) /\ DOMAIN tokens' = 1..t
             /\ \A i \in DOMAIN sessions : sessions'[i] = sessions[i]
             /\ sessions'[s] = [token |-> t, version |-> 1, revoked |-> FALSE, born |-> cred.password]
             /\ \A i \in DOMAIN tokens : tokens'[i] = tokens[i]
             /\ tokens'[t].session = s /\ tokens'[t].from = 0
<1> DEFINE s == Len(sessions) + 1
           t == Len(tokens) + 1
           new == [token |-> t, version |-> 1, revoked |-> FALSE, born |-> cred.password]
           token == [session |-> s, from |-> 0]
<1>1. sessions' = Append(sessions, new) /\ tokens' = Append(tokens, token)
  BY DEF CreateSession
<1>2. Len(sessions) \in Nat /\ Len(tokens) \in Nat BY LenProperties DEF Shape
<1>3. cred.password \in Nat
  BY BoundsAssumption DEF Shape, CredRecord
<1>4. new \in SessionRecord /\ token \in TokenRecord
  BY <1>2, <1>3 DEF SessionRecord, TokenRecord
<1>5. token.session = s /\ token.from = 0 OBVIOUS
<1>6. /\ DOMAIN sessions = 1..(s - 1) /\ DOMAIN tokens = 1..(t - 1)
  BY <1>2, LenProperties DEF Shape
<1> HIDE DEF new, token
<1>7. /\ sessions' \in Seq(SessionRecord) /\ Len(sessions') = s
      /\ \A i \in 1..Len(sessions) : sessions'[i] = sessions[i]
      /\ sessions'[s] = new
  BY <1>1, <1>4, AppendProperties DEF Shape
<1>8. /\ tokens' \in Seq(TokenRecord) /\ Len(tokens') = t
      /\ \A i \in 1..Len(tokens) : tokens'[i] = tokens[i]
      /\ tokens'[t] = token
  BY <1>1, <1>4, AppendProperties DEF Shape
<1>9. DOMAIN sessions' = 1..s /\ DOMAIN tokens' = 1..t
  BY <1>7, <1>8, LenProperties
<1>10. DOMAIN sessions = 1..Len(sessions) /\ DOMAIN tokens = 1..Len(tokens)
  BY LenProperties DEF Shape
<1> QED BY <1>2, <1>5, <1>6, <1>7, <1>8, <1>9, <1>10 DEF new

\* The session that refreshToken rotates, and its new token.
LEMMA Rotated ==
  ASSUME Shape, InRange, NEW c \in Clients, Rotate(c),
         SameVersion(task[c].session, task[c].version)
  PROVE  LET s == task[c].session
             t == Len(tokens) + 1
         IN  /\ s \in DOMAIN sessions
             /\ sessions' \in Seq(SessionRecord) /\ Len(sessions') = Len(sessions)
             /\ DOMAIN sessions' = DOMAIN sessions
             /\ tokens' \in Seq(TokenRecord) /\ Len(tokens') = t /\ t \in Nat
             /\ DOMAIN tokens = 1..(t - 1) /\ DOMAIN tokens' = 1..t
             /\ \A i \in DOMAIN sessions \ {s} : sessions'[i] = sessions[i]
             /\ sessions'[s].token = t /\ sessions'[s].version = sessions[s].version + 1
             /\ sessions'[s].born = sessions[s].born /\ sessions'[s].revoked = sessions[s].revoked
             /\ \A i \in DOMAIN tokens : tokens'[i] = tokens[i]
             /\ tokens'[t].session = s /\ tokens'[t].from = task[c].token
             /\ Len(tokens) < MaxTokens /\ Do(c, Idle)
<1> DEFINE s == task[c].session
           t == Len(tokens) + 1
           v == task[c].version + 1
           r == [sessions[s] EXCEPT !.token = t, !.version = v]
           token == [session |-> s, from |-> task[c].token]
<1>1. s \in DOMAIN sessions /\ s \in Nat /\ task[c].token \in Nat /\ task[c].version \in Nat
  <2>1. task[c] \in TaskRecord BY DEF Shape
  <2>2. /\ task[c].at = "rotate" => task[c].session \in Nat
        /\ task[c].at = "rotate" => task[c].token \in Nat /\ task[c].version \in Nat
    BY <2>1 DEF TaskRecord
  <2> QED BY <2>2 DEF Rotate, InRange, Refers
<1>2. /\ Do(c, Idle) /\ Len(tokens) < MaxTokens
      /\ sessions' = [sessions EXCEPT ![s].token = t, ![s].version = v]
      /\ tokens' = Append(tokens, token)
  BY DEF Rotate
<1>3. Len(tokens) \in Nat BY LenProperties DEF Shape
<1>4. sessions[s] \in SessionRecord /\ sessions \in [DOMAIN sessions -> SessionRecord]
  BY <1>1, ElementOfSeq, LenProperties DEF Shape
<1>5. v \in Nat /\ v = sessions[s].version + 1 BY <1>1 DEF SameVersion
<1>6. t \in Nat BY <1>3
<1>7. sessions' = [sessions EXCEPT ![s] = r]
  BY <1>1, <1>2, <1>4 DEF SessionRecord
<1>8. token \in TokenRecord /\ token.session = s /\ token.from = task[c].token
  BY <1>1 DEF TokenRecord
<1> HIDE DEF v
<1>9. /\ r \in SessionRecord /\ r.token = t /\ r.version = v
      /\ r.born = sessions[s].born /\ r.revoked = sessions[s].revoked
  <2> HIDE DEF t
  <2> QED BY <1>4, <1>5, <1>6 DEF SessionRecord
<1> HIDE DEF r, token
<1>10. sessions' \in [DOMAIN sessions -> SessionRecord]
  BY <1>1, <1>4, <1>7, <1>9
<1>11. /\ sessions' \in Seq(SessionRecord) /\ Len(sessions') = Len(sessions)
       /\ DOMAIN sessions' = DOMAIN sessions
  BY <1>10, Mapped DEF Shape
<1>12. /\ sessions'[s].token = t /\ sessions'[s].version = sessions[s].version + 1
       /\ sessions'[s].born = sessions[s].born /\ sessions'[s].revoked = sessions[s].revoked
       /\ \A i \in DOMAIN sessions \ {s} : sessions'[i] = sessions[i]
  <2> HIDE DEF t
  <2> QED BY <1>1, <1>4, <1>5, <1>7, <1>9
<1>13. /\ tokens' \in Seq(TokenRecord) /\ Len(tokens') = t
       /\ \A i \in 1..Len(tokens) : tokens'[i] = tokens[i]
       /\ tokens'[t] = token
  BY <1>2, <1>8, AppendProperties DEF Shape
<1>14. /\ DOMAIN tokens = 1..(t - 1) /\ DOMAIN tokens' = 1..t
       /\ DOMAIN tokens = 1..Len(tokens)
  BY <1>3, <1>13, LenProperties DEF Shape
<1> QED BY <1>1, <1>2, <1>6, <1>8, <1>11, <1>12, <1>13, <1>14

-----------------------------------------------------------------------------
(* Types. *)

\* Steps that change no session, token or code: a handler that has read something, or
\* stops, and what happens to the account.
Reads(c) ==
  \/ ReadSession(c) \/ RequireCurrent(c) \/ ReadCredential(c) \/ WrongPassword(c) \/ SignIn(c)
  \/ ComparePassword(c) \/ ChangePassword(c) \/ ReadCode(c) \/ VerifyUser(c)
  \/ ReadContinuation(c) \/ Suspend(c) \/ Stop(c)

\* The tasks that handlers take on.
LEMMA TaskRecords ==
  /\ Idle \in TaskRecord /\ ThenRevoke \in TaskRecord
  /\ [at |-> "change"] \in TaskRecord /\ [at |-> "conclude"] \in TaskRecord
  /\ \A i \in Nat : [at |-> "create", claim |-> i] \in TaskRecord
  /\ \A s \in Nat : /\ [at |-> "family", session |-> s] \in TaskRecord
                    /\ [at |-> "others", session |-> s] \in TaskRecord
  /\ \A s, t, v \in Nat :
       [at |-> "rotate", session |-> s, token |-> t, version |-> v] \in TaskRecord
  /\ \A right, active \in BOOLEAN, n \in 0..(MaxFailures - 1) :
       [at |-> "login", right |-> right, failures |-> n, active |-> active] \in TaskRecord
  /\ \A purpose \in Purposes : [at |-> "issue", purpose |-> purpose] \in TaskRecord
  /\ \A i \in Nat, right \in BOOLEAN : [at |-> "code", code |-> i, right |-> right] \in TaskRecord
  /\ \A i \in Nat : /\ [at |-> "verify", code |-> i] \in TaskRecord
                    /\ [at |-> "claim", code |-> i] \in TaskRecord
                    /\ [at |-> "ticket", code |-> i] \in TaskRecord
<1> USE DEF TaskRecord
<1>1. /\ Idle \in TaskRecord /\ ThenRevoke \in TaskRecord
      /\ [at |-> "change"] \in TaskRecord /\ [at |-> "conclude"] \in TaskRecord
  BY DEF Idle, ThenRevoke
<1>2. \A i \in Nat : [at |-> "create", claim |-> i] \in TaskRecord OBVIOUS
<1>3. \A s \in Nat : /\ [at |-> "family", session |-> s] \in TaskRecord
                     /\ [at |-> "others", session |-> s] \in TaskRecord
  OBVIOUS
<1>4. \A s, t, v \in Nat :
        [at |-> "rotate", session |-> s, token |-> t, version |-> v] \in TaskRecord
  OBVIOUS
<1>5. \A right, active \in BOOLEAN, n \in 0..(MaxFailures - 1) :
        [at |-> "login", right |-> right, failures |-> n, active |-> active] \in TaskRecord
  OBVIOUS
<1>6. \A purpose \in Purposes : [at |-> "issue", purpose |-> purpose] \in TaskRecord OBVIOUS
<1>7. \A i \in Nat, right \in BOOLEAN : [at |-> "code", code |-> i, right |-> right] \in TaskRecord
  OBVIOUS
<1>8. \A i \in Nat : /\ [at |-> "verify", code |-> i] \in TaskRecord
                     /\ [at |-> "claim", code |-> i] \in TaskRecord
                     /\ [at |-> "ticket", code |-> i] \in TaskRecord
  OBVIOUS
<1> QED BY <1>1, <1>2, <1>3, <1>4, <1>5, <1>6, <1>7, <1>8

\* What the numbers in a task are.
LEMMA TaskFields ==
  ASSUME NEW t \in TaskRecord
  PROVE  /\ t.at \in {"idle", "change", "revoke", "conclude", "create", "family", "others",
                      "rotate", "login", "issue", "code", "verify", "claim", "ticket"}
         /\ t.at = "create" => t.claim \in Nat
         /\ t.at \in {"family", "others", "rotate"} => t.session \in Nat
         /\ t.at = "rotate" => t.token \in Nat /\ t.version \in Nat
         /\ t.at = "login" => /\ t.failures \in 0..(MaxFailures - 1)
                              /\ t.right \in BOOLEAN /\ t.active \in BOOLEAN
         /\ t.at = "issue" => t.purpose \in Purposes
         /\ t.at \in {"code", "verify", "claim", "ticket"} => t.code \in Nat
         /\ t.at = "code" => t.right \in BOOLEAN
  BY DEF TaskRecord

\* A handler that reads takes on a task that names what is there.
LEMMA ReadsTyped ==
  ASSUME Shape, InRange, NEW c \in Clients, Reads(c)
  PROVE  /\ \E t \in TaskRecord : Fits(t) /\ Do(c, t)
         /\ user' \in UserRecord /\ cred' \in CredRecord
         /\ cred'.password >= cred.password
         /\ cut' \in BOOLEAN
         /\ UNCHANGED <<sessions, tokens, codes>>
<1>0. MaxFailures \in Nat \ {0} /\ MaxPasswords \in Nat \ {0} /\ MaxSuspensions \in Nat
  BY LimitsAssumption, BoundsAssumption
<1>1. Len(sessions) \in Nat /\ Len(tokens) \in Nat /\ Len(codes) \in Nat
  BY LenProperties DEF Shape
<1>2. /\ DOMAIN sessions \subseteq Nat /\ DOMAIN tokens \subseteq Nat
      /\ DOMAIN codes \subseteq Nat
  BY LenProperties DEF Shape
<1>3. \A s \in DOMAIN sessions : sessions[s].version \in Nat
  <2>1. \A s \in DOMAIN sessions : sessions[s] \in SessionRecord
    BY ElementOfSeq, LenProperties DEF Shape
  <2> QED BY <2>1 DEF SessionRecord
<1>4. task[c] \in TaskRecord
  BY DEF Shape
<1>5. \E t \in TaskRecord : Fits(t) /\ Do(c, t)
  <2>0. Fits(Idle) /\ Fits(ThenRevoke) BY DEF Fits, Refers, HoldsLast, Idle, ThenRevoke
  <2>1. CASE ReadSession(c)
    <3>1. PICK t \in DOMAIN tokens :
            LET s == tokens[t].session IN
              \/ Do(c, [at |-> "family", session |-> s])
              \/ /\ t = sessions[s].token
                 /\ Do(c, [at |-> "rotate", session |-> s, token |-> t, version |-> sessions[s].version])
      BY <2>1 DEF ReadSession
    <3> DEFINE s == tokens[t].session
               family == [at |-> "family", session |-> s]
               rotate == [at |-> "rotate", session |-> s, token |-> t, version |-> sessions[s].version]
    <3>2. s \in DOMAIN sessions BY DEF InRange
    <3>3. family \in TaskRecord /\ rotate \in TaskRecord BY <1>2, <1>3, <3>2, TaskRecords
    <3>4. Fits(family) BY <3>2 DEF Fits, Refers, HoldsLast
    <3>5. t = sessions[s].token => Fits(rotate)
      <4>1. sessions[s].version \in 1..sessions[s].version BY <1>3, <3>2 DEF InRange
      <4> QED BY <3>2, <4>1 DEF Fits, Refers, HoldsLast
    <3>6. Do(c, family) \/ (t = sessions[s].token /\ Do(c, rotate)) BY <3>1
    <3> HIDE DEF family, rotate
    <3> QED BY <3>3, <3>4, <3>5, <3>6
  <2>2. CASE RequireCurrent(c)
    <3>1. PICK s \in DOMAIN sessions : Do(c, [at |-> "others", session |-> s])
      BY <2>2 DEF RequireCurrent
    <3>2. Fits([at |-> "others", session |-> s]) BY DEF Fits, Refers, HoldsLast
    <3> QED BY <1>2, <3>1, <3>2, TaskRecords
  <2>3. CASE ReadCredential(c)
    <3>1. PICK right \in BOOLEAN :
            Do(c, [at |-> "login", right |-> right, failures |-> cred.failures, active |-> Active])
      BY <2>3 DEF ReadCredential
    <3> DEFINE t == [at |-> "login", right |-> right, failures |-> cred.failures, active |-> Active]
    <3>2. Active \in BOOLEAN /\ cred.failures \in 0..(MaxFailures - 1)
      BY DEF Active, Shape, UserRecord, CredRecord
    <3>3. t \in TaskRecord BY <3>2, TaskRecords
    <3>4. Fits(t) BY DEF Fits, Refers, HoldsLast
    <3> QED BY <3>1, <3>3, <3>4
  <2>4. CASE WrongPassword(c) \/ Suspend(c) \/ Stop(c) \/ ChangePassword(c)
    BY <2>0, <2>4, TaskRecords DEF WrongPassword, Suspend, Stop, ChangePassword
  <2>5. CASE SignIn(c)
    <3>1. Fits([at |-> "create", claim |-> 0]) BY DEF Fits, Refers, HoldsLast
    <3> QED BY <2>5, <3>1, TaskRecords DEF SignIn
  <2>6. CASE ComparePassword(c)
    <3>1. Fits([at |-> "change"]) BY DEF Fits, Refers, HoldsLast
    <3> QED BY <2>6, <3>1, TaskRecords DEF ComparePassword
  <2>7. CASE ReadCode(c)
    <3>1. PICK purpose \in Purposes, right \in BOOLEAN : \E i \in Unconsumed(purpose) :
            Do(c, [at |-> "code", code |-> i, right |-> right])
      BY <2>7 DEF ReadCode
    <3>2. PICK i \in Unconsumed(purpose) : Do(c, [at |-> "code", code |-> i, right |-> right])
      BY <3>1
    <3> DEFINE t == [at |-> "code", code |-> i, right |-> right]
    <3>3. i \in DOMAIN codes BY DEF Unconsumed
    <3>4. t \in TaskRecord BY <1>2, <3>3, TaskRecords
    <3>5. Fits(t) BY <3>3 DEF Fits, Refers, HoldsLast
    <3> QED BY <3>2, <3>4, <3>5
  <2>8. CASE VerifyUser(c)
    <3>1. Fits([at |-> "conclude"]) BY DEF Fits, Refers, HoldsLast
    <3> QED BY <2>0, <2>8, <3>1, TaskRecords DEF VerifyUser
  <2>9. CASE ReadContinuation(c)
    <3>1. PICK i \in DOMAIN codes : Do(c, [at |-> "claim", code |-> i])
      BY <2>9 DEF ReadContinuation
    <3>2. Fits([at |-> "claim", code |-> i]) BY DEF Fits, Refers, HoldsLast
    <3> QED BY <1>2, <3>1, <3>2, TaskRecords
  <2> QED BY <2>1, <2>2, <2>3, <2>4, <2>5, <2>6, <2>7, <2>8, <2>9 DEF Reads
<1>6. user' \in UserRecord
  <2>1. CASE VerifyUser(c) BY <2>1 DEF VerifyUser, Shape, UserRecord
  <2>2. CASE Suspend(c)
    <3>1. user.suspensions + 1 \in 0..MaxSuspensions BY <1>0, <2>2 DEF Suspend, Shape, UserRecord
    <3> QED BY <2>2, <3>1 DEF Suspend, Shape, UserRecord
  <2>3. CASE UNCHANGED user BY <2>3 DEF Shape
  <2> QED
    BY <2>1, <2>2, <2>3
    DEF Reads, ReadSession, RequireCurrent, ReadCredential, WrongPassword, SignIn,
        ComparePassword, ChangePassword, ReadCode, ReadContinuation, Stop
<1>7. cred' \in CredRecord /\ cred'.password >= cred.password
  <2>1. 0 \in 0..(MaxFailures - 1) /\ cred.password \in 1..MaxPasswords /\ 1..MaxPasswords \subseteq Nat
    BY <1>0 DEF Shape, CredRecord
  <2>3. CASE WrongPassword(c)
    <3>1. task[c].failures \in 0..(MaxFailures - 1) BY <1>4, <2>3, TaskFields DEF WrongPassword
    <3> DEFINE locks == task[c].failures + 1 >= MaxFailures
               n == IF locks THEN 0 ELSE task[c].failures + 1
    <3>2. n \in 0..(MaxFailures - 1) /\ locks \in BOOLEAN BY <1>0, <3>1
    <3>3. cred' = [cred EXCEPT !.failures = n, !.locked = locks] BY <2>3 DEF WrongPassword
    <3> HIDE DEF n, locks
    <3>4. cred' = [password |-> cred.password, failures |-> n, locked |-> locks]
      BY <3>3 DEF Shape, CredRecord
    <3>5. cred'.password = cred.password BY <3>4
    <3> QED BY <2>1, <3>2, <3>4, <3>5 DEF CredRecord
  <2>4. CASE SignIn(c)
    <3>1. cred' = [password |-> cred.password, failures |-> 0, locked |-> FALSE]
      BY <2>4 DEF SignIn, Shape, CredRecord
    <3>2. cred'.password = cred.password BY <3>1
    <3> QED BY <2>1, <3>1, <3>2 DEF CredRecord
  <2>5. CASE ChangePassword(c)
    <3>1. cred.password + 1 \in 1..MaxPasswords BY <1>0, <2>5 DEF ChangePassword, Shape, CredRecord
    <3> QED BY <2>1, <2>5, <3>1 DEF ChangePassword, NewPassword, CredRecord
  <2>6. CASE UNCHANGED cred BY <2>1, <2>6 DEF Shape
  <2> QED
    BY <2>3, <2>4, <2>5, <2>6
    DEF Reads, ReadSession, RequireCurrent, ReadCredential, Suspend,
        ComparePassword, VerifyUser, ReadCode, ReadContinuation, Stop
<1>8. cut' \in BOOLEAN /\ UNCHANGED <<sessions, tokens, codes>>
  BY DEF Shape, Reads, ReadSession, RequireCurrent, ReadCredential, WrongPassword, SignIn,
         ComparePassword, ChangePassword, ReadCode, VerifyUser, ReadContinuation, Suspend, Stop
<1> QED BY <1>5, <1>6, <1>7, <1>8

\* A step that changes codes in place keeps each a code.
LEMMA CodesTyped ==
  ASSUME Shape, InRange,
         \/ \E c \in Clients :
              \/ CreateSession(c) \/ SessionFails(c) \/ ConsumeOlder(c) \/ WrongCode(c)
              \/ ConsumeCode(c) \/ UseContinuation(c) \/ ClaimContinuation(c) \/ IssueResetToken(c)
         \/ Lapse \/ CompletePasswordReset \/ VerifyByAdmin
  PROVE  codes' \in Seq(CodeRecord) /\ Len(codes') = Len(codes) /\ DOMAIN codes' = DOMAIN codes
<1>1. codes \in [DOMAIN codes -> CodeRecord] BY LenProperties DEF Shape
<1>2. ASSUME NEW c \in Clients
      PROVE  /\ task[c].at = "create" => task[c].claim \in {0} \cup DOMAIN codes
             /\ task[c].at \in {"code", "claim", "ticket"} => task[c].code \in DOMAIN codes
  BY DEF InRange, Refers
<1>3. codes' \in [DOMAIN codes -> CodeRecord]
  <2>1. ASSUME NEW c \in Clients, CreateSession(c) \/ SessionFails(c)
        PROVE  codes' \in [DOMAIN codes -> CodeRecord]
    <3>1. CASE task[c].claim = 0 BY <1>1, <2>1, <3>1 DEF CreateSession, SessionFails
    <3>2. CASE task[c].claim # 0
      <4> DEFINE i == task[c].claim
      <4>1. i \in DOMAIN codes BY <1>2, <2>1, <3>2 DEF CreateSession, SessionFails
      <4>2. [codes[i] EXCEPT !.opened = @ + 1] \in CodeRecord
        BY <1>1, <4>1 DEF CodeRecord
      <4>3. [codes[i] EXCEPT !.continuation = "open"] \in CodeRecord
        BY <1>1, <4>1 DEF CodeRecord
      <4> QED BY <1>1, <2>1, <3>2, <4>1, <4>2, <4>3 DEF CreateSession, SessionFails
    <3> QED BY <3>1, <3>2
  <2>2. ASSUME NEW c \in Clients, WrongCode(c) \/ IssueResetToken(c)
        PROVE  codes' \in [DOMAIN codes -> CodeRecord]
    BY <1>1, <1>2, <2>2 DEF WrongCode, IssueResetToken, CodeRecord
  <2>3. ASSUME NEW c \in Clients, ConsumeCode(c) \/ ClaimContinuation(c)
        PROVE  codes' \in [DOMAIN codes -> CodeRecord]
    BY <1>1, <1>2, <2>3 DEF ConsumeCode, ClaimContinuation, CodeRecord
  <2>4. ASSUME NEW c \in Clients, ConsumeOlder(c)
        PROVE  codes' \in [DOMAIN codes -> CodeRecord]
    <3>1. PICK purpose \in Purposes :
            codes' = [i \in DOMAIN codes |->
              [codes[i] EXCEPT !.consumed = @ \/ (i \in Unconsumed(purpose) /\ ~codes[i].lapsed)]]
      BY <2>4 DEF ConsumeOlder
    <3> QED BY <1>1, <3>1 DEF CodeRecord
  <2>5. ASSUME NEW c \in Clients, UseContinuation(c)
        PROVE  codes' \in [DOMAIN codes -> CodeRecord]
    BY <1>1, <2>5 DEF UseContinuation, CodeRecord
  <2>6. ASSUME Lapse PROVE codes' \in [DOMAIN codes -> CodeRecord]
    <3>1. PICK i \in DOMAIN codes :
            \/ codes' = [codes EXCEPT ![i].lapsed = TRUE]
            \/ codes' = [codes EXCEPT ![i].reset = "lapsed"]
            \/ codes' = [codes EXCEPT ![i].continuation = "lapsed"]
      BY <2>6 DEF Lapse
    <3>2. /\ [codes[i] EXCEPT !.lapsed = TRUE] \in CodeRecord
          /\ [codes[i] EXCEPT !.reset = "lapsed"] \in CodeRecord
          /\ [codes[i] EXCEPT !.continuation = "lapsed"] \in CodeRecord
      BY <1>1 DEF CodeRecord
    <3> QED BY <1>1, <3>1, <3>2
  <2>7. ASSUME CompletePasswordReset PROVE codes' \in [DOMAIN codes -> CodeRecord]
    <3>1. PICK i \in DOMAIN codes : codes' = [codes EXCEPT ![i].reset = "used", ![i].resets = @ + 1]
      BY <2>7 DEF CompletePasswordReset
    <3> DEFINE n == codes[i].resets + 1
               r == [codes[i] EXCEPT !.reset = "used", !.resets = n]
    <3>2. r \in CodeRecord
      <4>1. n \in Nat BY <1>1 DEF CodeRecord
      <4> HIDE DEF n
      <4> QED BY <1>1, <4>1 DEF CodeRecord
    <3>3. codes' = [codes EXCEPT ![i] = r] BY <1>1, <3>1 DEF CodeRecord
    <3> HIDE DEF r
    <3> QED BY <1>1, <3>2, <3>3
  <2>8. ASSUME VerifyByAdmin PROVE codes' \in [DOMAIN codes -> CodeRecord]
    BY <1>1, <2>8 DEF VerifyByAdmin, CodeRecord
  <2> QED BY <2>1, <2>2, <2>3, <2>4, <2>5, <2>6, <2>7, <2>8
<1> QED BY <1>3, Mapped DEF Shape

\* Steps that change codes in place, their tasks naming codes that are there.
Marks(c) ==
  \/ SessionFails(c) \/ ConsumeOlder(c) \/ WrongCode(c) \/ ConsumeCode(c) \/ UseContinuation(c)
  \/ ClaimContinuation(c) \/ IssueResetToken(c)

\* Such a step keeps the types.
LEMMA MarksTyped ==
  ASSUME Shape, InRange, NEW c \in Clients, Marks(c)
  PROVE  /\ \E t \in TaskRecord : Fits(t) /\ Do(c, t)
         /\ UNCHANGED <<user, cred, sessions, tokens, cut>>
<1>1. DOMAIN codes \subseteq Nat BY LenProperties DEF Shape
<1>2. task[c].at = "code" => task[c].code \in DOMAIN codes
  BY DEF InRange, Refers
<1>3. Fits(Idle) BY DEF Fits, Refers, HoldsLast, Idle
<1>4. CASE SessionFails(c) \/ WrongCode(c) \/ IssueResetToken(c)
  BY <1>3, <1>4, TaskRecords DEF SessionFails, WrongCode, IssueResetToken
<1>5. CASE ConsumeOlder(c)
  <2>1. PICK purpose \in Purposes : Do(c, [at |-> "issue", purpose |-> purpose])
    BY <1>5 DEF ConsumeOlder
  <2>2. Fits([at |-> "issue", purpose |-> purpose]) BY DEF Fits, Refers, HoldsLast
  <2> QED BY <1>5, <2>1, <2>2, TaskRecords DEF ConsumeOlder
<1>6. CASE ConsumeCode(c)
  <2> DEFINE i == task[c].code
             ticket == [at |-> "ticket", code |-> i]
             verify == [at |-> "verify", code |-> i]
  <2>1. i \in DOMAIN codes BY <1>2, <1>6 DEF ConsumeCode
  <2>2. Do(c, ticket) \/ Do(c, verify) \/ Do(c, Idle)
    BY <1>6 DEF ConsumeCode
  <2>3. Fits(ticket) /\ Fits(verify) BY <2>1 DEF Fits, Refers, HoldsLast
  <2>4. ticket \in TaskRecord /\ verify \in TaskRecord BY <1>1, <2>1, TaskRecords
  <2>5. \E t \in TaskRecord : Fits(t) /\ Do(c, t)
    <3> HIDE DEF ticket, verify
    <3> QED BY <1>3, <2>2, <2>3, <2>4, TaskRecords
  <2> QED BY <1>6, <2>5 DEF ConsumeCode
<1>7. CASE UseContinuation(c)
  <2>1. Fits([at |-> "create", claim |-> 0]) BY DEF Fits, Refers, HoldsLast
  <2> QED BY <1>7, <2>1, TaskRecords DEF UseContinuation
<1>8. CASE ClaimContinuation(c)
  <2> DEFINE i == task[c].code
             create == [at |-> "create", claim |-> i]
  <2>1. i \in DOMAIN codes BY <1>8 DEF ClaimContinuation, InRange, Refers
  <2>2. Do(c, create) \/ Do(c, Idle) BY <1>8 DEF ClaimContinuation
  <2>3. Fits(create) BY <2>1 DEF Fits, Refers, HoldsLast
  <2>4. create \in TaskRecord BY <1>1, <2>1, TaskRecords
  <2>5. \E t \in TaskRecord : Fits(t) /\ Do(c, t)
    <3> HIDE DEF create
    <3> QED BY <1>3, <2>2, <2>3, <2>4, TaskRecords
  <2> QED BY <1>8, <2>5 DEF ClaimContinuation
<1> QED BY <1>4, <1>5, <1>6, <1>7, <1>8 DEF Marks

\* Nothing that is named goes away.
LEMMA RangeKept ==
  ASSUME Shape, InRange, Shape',
         \/ \E c \in Clients : \E t \in TaskRecord : Refers(t) /\ Do(c, t)
         \/ UNCHANGED task,
         DOMAIN sessions' = DOMAIN sessions, Len(sessions') = Len(sessions),
         UNCHANGED tokens,
         \A s \in DOMAIN sessions : /\ sessions'[s].version = sessions[s].version
                                    /\ sessions'[s].born = sessions[s].born,
         DOMAIN codes' = DOMAIN codes, Len(codes') = Len(codes),
         cred'.password >= cred.password
  PROVE  InRange'
<1>1. \A s \in DOMAIN sessions' : sessions'[s].born \in 1..cred'.password
  BY DEF InRange, Shape, CredRecord
<1>2. \A c \in Clients : Refers(task'[c])
  <2>1. ASSUME NEW c \in Clients, NEW t \in TaskRecord, Refers(t), Do(c, t)
        PROVE  \A d \in Clients : Refers(task'[d])
    BY <2>1, Tasked DEF InRange
  <2> QED BY <2>1 DEF InRange
<1>3. \A c \in Clients : Refers(task[c])'
  BY <1>2 DEF Refers
<1>4. \A t \in DOMAIN tokens : tokens[t].session \in DOMAIN sessions' /\ tokens[t].from < t
  BY DEF InRange
<1>5. \A s \in DOMAIN sessions : sessions'[s].version \in 1..Len(tokens)
  BY DEF InRange
<1> QED BY <1>1, <1>3, <1>4, <1>5 DEF InRange

\* Every step keeps the types and what they name.
LEMMA TypeStep ==
  ASSUME Shape, InRange, Next
  PROVE  Shape' /\ InRange'
<1>0. /\ MaxSessions \in Nat /\ MaxTokens \in Nat /\ MaxCodes \in Nat
      /\ MaxFailures \in Nat \ {0} /\ MaxPasswords \in Nat \ {0}
  BY LimitsAssumption, BoundsAssumption
<1>1. cred.password \in Nat BY <1>0 DEF Shape, CredRecord
<1>2. Refers(Idle) BY DEF Refers, Idle
<1>3. ASSUME NEW c \in Clients, Reads(c) PROVE Shape' /\ InRange'
  <2>1. Shape' BY <1>3, ReadsTyped, Tasked DEF Shape
  <2> QED BY <1>3, <2>1, ReadsTyped, RangeKept DEF Fits
<1>4. ASSUME NEW c \in Clients, Marks(c) PROVE Shape' /\ InRange'
  <2>1. codes' \in Seq(CodeRecord) /\ Len(codes') = Len(codes) /\ DOMAIN codes' = DOMAIN codes
    BY <1>4, CodesTyped DEF Marks
  <2>2. Shape' BY <1>4, <2>1, MarksTyped, Tasked DEF Shape
  <2> QED BY <1>1, <1>4, <2>1, <2>2, MarksTyped, RangeKept DEF Fits
<1>5. ASSUME NEW c \in Clients, RevokeFamily(c) \/ RevokeOthers(c) \/ RevokeAll(c)
      PROVE  Shape' /\ InRange'
  <2>1. PICK S : sessions' = Revoked(S)
    BY <1>5 DEF RevokeFamily, RevokeOthers, RevokeAll
  <2>2. Do(c, Idle) /\ UNCHANGED <<user, cred, tokens, codes, cut>>
    BY <1>5 DEF RevokeFamily, RevokeOthers, RevokeAll
  <2>3. Shape' BY <2>1, <2>2, RevokedSessions, Tasked, TaskRecords DEF Shape
  <2> QED BY <1>1, <1>2, <2>1, <2>2, <2>3, RevokedSessions, RangeKept, TaskRecords
<1>6. CASE Logout
  <2>1. PICK S : sessions' = Revoked(S) BY <1>6 DEF Logout
  <2>2. UNCHANGED <<user, cred, tokens, codes, task, cut>> BY <1>6 DEF Logout
  <2>3. Shape' BY <2>1, <2>2, RevokedSessions DEF Shape
  <2> QED BY <1>1, <2>1, <2>2, <2>3, RevokedSessions, RangeKept
<1>7. CASE Unlock \/ Reinstate
  <2>1. user' \in UserRecord /\ cred' \in CredRecord /\ cred'.password = cred.password
    BY <1>7 DEF Unlock, Reinstate, Shape, UserRecord, CredRecord
  <2>2. UNCHANGED <<sessions, tokens, codes, task, cut>> BY <1>7 DEF Unlock, Reinstate
  <2>3. Shape' BY <2>1, <2>2 DEF Shape
  <2> QED BY <1>1, <2>1, <2>2, <2>3, RangeKept
<1>8. CASE Lapse \/ VerifyByAdmin
  <2>1. user' \in UserRecord /\ UNCHANGED <<cred, sessions, tokens, task, cut>>
    BY <1>8 DEF Lapse, VerifyByAdmin, Shape, UserRecord
  <2>2. codes' \in Seq(CodeRecord) /\ Len(codes') = Len(codes) /\ DOMAIN codes' = DOMAIN codes
    BY <1>8, CodesTyped
  <2>3. Shape' BY <2>1, <2>2 DEF Shape
  <2> QED BY <1>1, <2>1, <2>2, <2>3, RangeKept
<1>9. CASE CompletePasswordReset
  <2>1. cred' \in CredRecord /\ cred'.password = cred.password + 1
    <3>1. cred.password + 1 \in 1..MaxPasswords /\ 0 \in 0..(MaxFailures - 1)
      BY <1>0, <1>9 DEF CompletePasswordReset, Shape, CredRecord
    <3> QED BY <1>9, <3>1 DEF CompletePasswordReset, NewPassword, CredRecord
  <2>2. user' \in UserRecord BY <1>9 DEF CompletePasswordReset, Shape, UserRecord
  <2>3. sessions' = Revoked(DOMAIN sessions) /\ UNCHANGED <<tokens, task, cut>>
    BY <1>9 DEF CompletePasswordReset
  <2>4. codes' \in Seq(CodeRecord) /\ Len(codes') = Len(codes) /\ DOMAIN codes' = DOMAIN codes
    BY <1>9, CodesTyped
  <2>5. Shape' BY <2>1, <2>2, <2>3, <2>4, RevokedSessions DEF Shape
  <2> QED BY <1>1, <2>1, <2>3, <2>4, <2>5, RevokedSessions, RangeKept
<1>10. ASSUME NEW c \in Clients, IssueCode(c) PROVE Shape' /\ InRange'
  <2>1. Do(c, Idle) /\ UNCHANGED <<user, cred, sessions, tokens, cut>>
    BY <1>10 DEF IssueCode
  <2>2. CASE codes' = codes
    <3>1. Shape' BY <2>1, <2>2, Tasked, TaskRecords DEF Shape
    <3> QED BY <1>1, <1>2, <2>1, <2>2, <3>1, RangeKept, TaskRecords
  <2>3. CASE Len(codes) < MaxCodes /\ codes' = Append(codes, Challenge(task[c].purpose, "none"))
    <3>1. task[c].purpose \in Purposes
      BY <1>10, TaskFields DEF IssueCode, Shape
    <3>2. Challenge(task[c].purpose, "none") \in CodeRecord
      BY <3>1 DEF Challenge, CodeRecord
    <3>3. codes' \in Seq(CodeRecord) /\ Len(codes') = Len(codes) + 1
      BY <2>3, <3>2, AppendProperties DEF Shape
    <3>4. Shape' BY <2>1, <3>3, Tasked, TaskRecords DEF Shape
    <3>5. DOMAIN codes \subseteq DOMAIN codes'
      <4>1. DOMAIN codes = 1..Len(codes) /\ DOMAIN codes' = 1..Len(codes') /\ Len(codes) \in Nat
        BY <3>3, LenProperties DEF Shape
      <4> QED BY <3>3, <4>1
    <3>6. Len(codes') <= MaxCodes BY <1>0, <2>3, <3>3, LenProperties DEF Shape
    <3>7. \A d \in Clients : Refers(task'[d])
      BY <1>2, <2>1, Tasked, TaskRecords DEF InRange
    <3>8. \A d \in Clients : Refers(task[d])' BY <2>1, <3>5, <3>7 DEF Refers
    <3> QED BY <2>1, <3>4, <3>6, <3>8 DEF InRange
  <2> QED BY <1>10, <2>2, <2>3 DEF IssueCode
<1>11. ASSUME NEW c \in Clients, CreateSession(c) PROVE Shape' /\ InRange'
  <2> DEFINE s == Len(sessions) + 1
             t == Len(tokens) + 1
  <2>1. /\ Len(sessions) < MaxSessions /\ Len(tokens) < MaxTokens
        /\ Do(c, Idle) /\ UNCHANGED <<user, cred, cut>>
    BY <1>11 DEF CreateSession
  <2>2. codes' \in Seq(CodeRecord) /\ Len(codes') = Len(codes) /\ DOMAIN codes' = DOMAIN codes
    BY <1>11, CodesTyped
  <2>3. Shape' BY <1>11, <2>1, <2>2, Created, Tasked, TaskRecords DEF Shape
  <2>4. \A d \in Clients : Refers(task'[d])
    BY <1>2, <2>1, Tasked, TaskRecords DEF InRange
  <2>5. \A d \in Clients : Refers(task[d])'
    <3>1. DOMAIN sessions \subseteq DOMAIN sessions' /\ DOMAIN tokens \subseteq DOMAIN tokens'
      BY <1>11, Created
    <3> QED BY <2>2, <2>4, <3>1 DEF Refers
  <2>6. Len(sessions') <= MaxSessions /\ Len(tokens') <= MaxTokens /\ Len(codes') <= MaxCodes
    BY <1>0, <1>11, <2>1, <2>2, Created, LenProperties DEF InRange, Shape
  <2>7. ASSUME NEW i \in DOMAIN sessions'
        PROVE  sessions'[i].version \in 1..Len(tokens') /\ sessions'[i].born \in 1..cred'.password
    <3>1. CASE i \in DOMAIN sessions
      <4>1. sessions[i].version \in 1..(t - 1) /\ sessions[i].born \in 1..cred.password
        BY <1>11, <3>1, Created DEF InRange
      <4> QED BY <1>11, <2>1, <3>1, <4>1, Created
    <3>2. CASE i = s
      <4>1. cred.password \in 1..cred.password BY <1>0 DEF Shape, CredRecord
      <4> QED BY <1>11, <2>1, <3>2, <4>1, Created
    <3> QED BY <1>11, <3>1, <3>2, Created
  <2>8. ASSUME NEW i \in DOMAIN tokens'
        PROVE  tokens'[i].session \in DOMAIN sessions' /\ tokens'[i].from < i
    <3>1. CASE i \in DOMAIN tokens BY <1>11, <3>1, Created DEF InRange
    <3>2. CASE i = t BY <1>11, <3>2, Created
    <3> QED BY <1>11, <3>1, <3>2, Created
  <2> QED BY <2>3, <2>5, <2>6, <2>7, <2>8 DEF InRange
<1>12. ASSUME NEW c \in Clients, Rotate(c) PROVE Shape' /\ InRange'
  <2> DEFINE s == task[c].session
             t == Len(tokens) + 1
  <2>1. s \in DOMAIN sessions /\ s \in Nat
    BY <1>12, TaskFields DEF Rotate, Shape, InRange, Refers
  <2>2. UNCHANGED <<user, cred, codes, cut>> BY <1>12 DEF Rotate
  <2>3. CASE ~SameVersion(s, task[c].version)
    <3>0. Do(c, [at |-> "family", session |-> s]) /\ UNCHANGED <<sessions, tokens>>
      BY <1>12, <2>3 DEF Rotate
    <3>1. Refers([at |-> "family", session |-> s]) BY <2>1 DEF Refers
    <3>2. [at |-> "family", session |-> s] \in TaskRecord BY <2>1, TaskRecords
    <3>3. Shape' BY <2>2, <3>0, <3>2, Tasked DEF Shape
    <3> QED BY <1>1, <2>2, <3>0, <3>1, <3>2, <3>3, RangeKept
  <2>4. CASE SameVersion(s, task[c].version)
    <3>1. Shape' BY <1>12, <2>2, <2>4, Rotated, Tasked, TaskRecords DEF Shape
    <3>2. \A d \in Clients : Refers(task'[d])
      BY <1>2, <1>12, <2>4, Rotated, Tasked, TaskRecords DEF InRange
    <3>3. \A d \in Clients : Refers(task[d])'
      <4>1. DOMAIN sessions' = DOMAIN sessions /\ DOMAIN tokens \subseteq DOMAIN tokens'
        BY <1>12, <2>4, Rotated
      <4> QED BY <2>2, <3>2, <4>1 DEF Refers
    <3>4. ASSUME NEW i \in DOMAIN sessions'
          PROVE  sessions'[i].version \in 1..Len(tokens') /\ sessions'[i].born \in 1..cred'.password
      <4>1. i \in DOMAIN sessions BY <1>12, <2>4, Rotated
      <4>2. sessions[i].version \in 1..Len(tokens) /\ sessions[i].born \in 1..cred.password
        BY <4>1 DEF InRange
      <4>3. sessions'[i].version \in {sessions[i].version, sessions[i].version + 1}
            /\ sessions'[i].born = sessions[i].born
        BY <1>12, <2>4, <4>1, Rotated
      <4>4. Len(tokens') = Len(tokens) + 1 /\ Len(tokens) \in Nat
        BY <1>12, <2>4, Rotated, LenProperties DEF Shape
      <4> QED BY <2>2, <4>2, <4>3, <4>4
    <3>5. ASSUME NEW i \in DOMAIN tokens'
          PROVE  tokens'[i].session \in DOMAIN sessions' /\ tokens'[i].from < i
      <4>1. CASE i \in DOMAIN tokens BY <1>12, <2>4, <4>1, Rotated DEF InRange
      <4>2. CASE i = t
        <5>1. task[c].token \in DOMAIN tokens BY <1>12 DEF Rotate, InRange, Refers
        <5> QED BY <1>12, <2>1, <2>4, <4>2, <5>1, Rotated
      <4> QED BY <1>12, <2>4, <4>1, <4>2, Rotated
    <3>6. Len(sessions') <= MaxSessions /\ Len(tokens') <= MaxTokens /\ Len(codes') <= MaxCodes
      BY <1>0, <1>12, <2>2, <2>4, Rotated, LenProperties DEF InRange, Shape
    <3> QED BY <3>1, <3>3, <3>4, <3>5, <3>6 DEF InRange
  <2> QED BY <2>3, <2>4
<1> QED
  BY <1>3, <1>4, <1>5, <1>6, <1>7, <1>8, <1>9, <1>10, <1>11, <1>12
  DEF Next, Handler, Reads, Marks
-----------------------------------------------------------------------------
(* Refresh tokens. *)

\* A step that hands out no token, and after which no further handler is to rotate.
LEMMA TokensKept ==
  ASSUME Shape, InRange, LastTokens, Rotations,
         UNCHANGED tokens, DOMAIN sessions' = DOMAIN sessions,
         \A s \in DOMAIN sessions : /\ sessions'[s].token = sessions[s].token
                                    /\ sessions'[s].version = sessions[s].version,
         \/ \E c \in Clients : \E t \in TaskRecord : Fits(t) /\ Do(c, t)
         \/ UNCHANGED task
  PROVE  LastTokens' /\ Rotations'
<1>1. ASSUME NEW s \in DOMAIN sessions PROVE Bears(s)'
  <2>1. Family(s)' = Family(s) BY DEF Family
  <2>2. Bears(s) BY DEF LastTokens
  <2> QED BY <2>1, <2>2 DEF Bears
<1>2. \A d \in Clients : Refers(task'[d]) /\ HoldsLast(task'[d])
  <2>1. ASSUME NEW c \in Clients, NEW t \in TaskRecord, Fits(t), Do(c, t)
        PROVE  \A d \in Clients : Refers(task'[d]) /\ HoldsLast(task'[d])
    BY <2>1, Tasked DEF Rotations, InRange, Fits
  <2> QED BY <2>1 DEF Rotations, InRange
<1>3. \A d \in Clients : HoldsLast(task[d])'
  BY <1>2 DEF HoldsLast, Refers
<1>4. \A t, u \in DOMAIN tokens' :
        tokens'[t].from # 0 /\ tokens'[t].from = tokens'[u].from => t = u
  BY DEF LastTokens
<1> QED BY <1>1, <1>3, <1>4 DEF LastTokens, Rotations

\* The families are finite.
LEMMA Families ==
  ASSUME Shape, NEW s
  PROVE  Family(s) \subseteq DOMAIN tokens /\ IsFiniteSet(Family(s))
<1>1. DOMAIN tokens = 1..Len(tokens) /\ Len(tokens) \in Nat BY LenProperties DEF Shape
<1>2. IsFiniteSet(1..Len(tokens)) BY <1>1, FS_Interval
<1>3. Family(s) \subseteq DOMAIN tokens BY DEF Family
<1> QED BY <1>1, <1>2, <1>3, FS_Subset

\* A new session bears the one token of its family.
LEMMA TokensCreated ==
  ASSUME Shape, InRange, LastTokens, Rotations, NEW c \in Clients, CreateSession(c)
  PROVE  LastTokens' /\ Rotations'
<1> DEFINE n == Len(sessions) + 1
           new == Len(tokens) + 1
<1>1. \A t \in DOMAIN tokens : tokens[t].from \in Nat /\ tokens[t].session \in DOMAIN sessions
                               /\ tokens[t].from < new
  <2>1. \A t \in DOMAIN tokens : tokens[t] \in TokenRecord
    BY ElementOfSeq, LenProperties DEF Shape
  <2>2. \A t \in DOMAIN tokens : tokens[t].from < t /\ t < new
    BY LenProperties DEF InRange, Shape
  <2>3. Len(tokens) \in Nat /\ DOMAIN tokens = 1..Len(tokens) BY LenProperties DEF Shape
  <2> QED BY <2>1, <2>2, <2>3 DEF TokenRecord, InRange
<1>2. \A t, u \in DOMAIN tokens' :
        tokens'[t].from # 0 /\ tokens'[t].from = tokens'[u].from => t = u
  BY Created DEF LastTokens
<1>3. ASSUME NEW s \in DOMAIN sessions PROVE Bears(s)'
  <2>1. {t \in DOMAIN tokens' : tokens'[t].session = s} = Family(s)
    BY Created DEF Family
  <2>2. Bears(s) /\ sessions'[s] = sessions[s] BY Created DEF LastTokens
  <2>3. sessions[s].token \in DOMAIN tokens BY <2>2 DEF Bears, Family
  <2>4. \A t \in DOMAIN tokens' : tokens'[t].from # sessions[s].token
    BY <2>2, <2>3, Created DEF Bears
  <2>5. Family(s)' = Family(s) BY <2>1 DEF Family
  <2> QED BY <2>2, <2>4, <2>5 DEF Bears
<1>4. ASSUME NEW s \in {n} PROVE Bears(s)'
  <2>1. {t \in DOMAIN tokens' : tokens'[t].session = s} = {new}
    BY <1>1, Created
  <2>2. Cardinality({new}) = 1 BY FS_Singleton
  <2>3. sessions'[s].token = new /\ sessions'[s].version = 1 BY Created
  <2>4. \A t \in DOMAIN tokens' : tokens'[t].from # new
    BY <1>1, Created
  <2>5. Family(s)' = {new} BY <2>1 DEF Family
  <2>6. new <= new BY Created
  <2> HIDE DEF new
  <2> QED BY <2>2, <2>3, <2>4, <2>5, <2>6 DEF Bears
<1>5. \A s \in DOMAIN sessions' : Bears(s)'
  BY <1>3, <1>4, Created
<1>6. \A d \in Clients : HoldsLast(task[d])'
  <2>2. ASSUME NEW d \in Clients, task'[d] = task[d] PROVE HoldsLast(task[d])'
    <3>1. task[d].at = "rotate" => sessions'[task[d].session] = sessions[task[d].session]
      BY Created DEF InRange, Refers
    <3> QED BY <2>2, <3>1 DEF HoldsLast, Rotations
  <2>3. Do(c, Idle) BY DEF CreateSession
  <2>4. ASSUME NEW d \in Clients PROVE HoldsLast(task[d])'
    <3>1. CASE task'[d] = task[d] BY <2>2, <3>1
    <3>2. CASE task'[d] = Idle BY <3>2 DEF HoldsLast, Idle
    <3> QED BY <2>3, <3>1, <3>2, Tasked, TaskRecords
  <2> QED BY <2>4
<1> QED BY <1>2, <1>5, <1>6 DEF LastTokens, Rotations

\* A rotated session bears the new token; whoever else read its version will not find it.
LEMMA TokensRotated ==
  ASSUME Shape, InRange, LastTokens, Rotations, NEW c \in Clients, Rotate(c),
         SameVersion(task[c].session, task[c].version)
  PROVE  LastTokens' /\ Rotations'
<1> DEFINE r == task[c].session
           old == task[c].token
           new == Len(tokens) + 1
<1>1. /\ r \in DOMAIN sessions /\ old = sessions[r].token
      /\ old \in DOMAIN tokens /\ tokens[old].session = r
      /\ \A t \in DOMAIN tokens : tokens[t].from # old
      /\ sessions[r].version \in Nat
  <2>1. r \in DOMAIN sessions BY Rotated
  <2>2. old = sessions[r].token BY DEF Rotate, Rotations, HoldsLast, SameVersion
  <2>3. Bears(r) BY <2>1 DEF LastTokens
  <2>4. sessions[r] \in SessionRecord BY <2>1, ElementOfSeq, LenProperties DEF Shape
  <2> QED BY <2>1, <2>2, <2>3, <2>4 DEF Bears, Family, SessionRecord
<1>2. \A t \in DOMAIN tokens : tokens[t].from \in Nat /\ tokens[t].from < new
  <2>1. \A t \in DOMAIN tokens : tokens[t] \in TokenRecord
    BY ElementOfSeq, LenProperties DEF Shape
  <2>2. \A t \in DOMAIN tokens : tokens[t].from < t /\ t < new
    BY Rotated DEF InRange
  <2>3. Len(tokens) \in Nat /\ DOMAIN tokens = 1..Len(tokens) BY LenProperties DEF Shape
  <2> QED BY <2>1, <2>2, <2>3 DEF TokenRecord
<1>3. \A t, u \in DOMAIN tokens' :
        tokens'[t].from # 0 /\ tokens'[t].from = tokens'[u].from => t = u
  BY <1>1, Rotated DEF LastTokens
<1>4. ASSUME NEW s \in DOMAIN sessions, s # r PROVE Bears(s)'
  <2>1. {t \in DOMAIN tokens' : tokens'[t].session = s} = Family(s)
    BY <1>4, Rotated DEF Family
  <2>2. Bears(s) /\ sessions'[s] = sessions[s] BY <1>4, Rotated DEF LastTokens
  <2>3. sessions[s].token \in DOMAIN tokens /\ tokens[sessions[s].token].session = s
    BY <2>2 DEF Bears, Family
  <2>4. \A t \in DOMAIN tokens' : tokens'[t].from # sessions[s].token
    BY <1>1, <1>4, <2>2, <2>3, Rotated DEF Bears
  <2>5. Family(s)' = Family(s) BY <2>1 DEF Family
  <2> QED BY <2>2, <2>4, <2>5 DEF Bears
<1>5. ASSUME NEW s \in {r} PROVE Bears(s)'
  <2>1. {t \in DOMAIN tokens' : tokens'[t].session = s} = Family(s) \cup {new}
    BY Rotated DEF Family
  <2>2. new \notin Family(s) /\ \A t \in Family(s) : t <= new
    BY Rotated DEF Family
  <2>3. Cardinality(Family(s) \cup {new}) = Cardinality(Family(s)) + 1
    BY <2>2, Families, FS_AddElement
  <2>4. sessions'[s].token = new /\ sessions'[s].version = Cardinality(Family(s)) + 1
    BY Rotated DEF LastTokens, Bears
  <2>5. \A t \in DOMAIN tokens' : tokens'[t].from # new
    BY <1>1, <1>2, Rotated
  <2>6. Family(s)' = Family(s) \cup {new} BY <2>1 DEF Family
  <2>7. new <= new BY Rotated
  <2> HIDE DEF new
  <2> QED BY <2>2, <2>3, <2>4, <2>5, <2>6, <2>7 DEF Bears
<1>6. \A s \in DOMAIN sessions' : Bears(s)'
  BY <1>4, <1>5, Rotated
<1>7. ASSUME NEW d \in Clients PROVE HoldsLast(task[d])'
  <2>1. CASE task'[d] = task[d]
    <3>1. CASE task[d].at # "rotate" BY <2>1, <3>1 DEF HoldsLast
    <3>2. CASE task[d].at = "rotate"
      <4>1. /\ task[d].session \in DOMAIN sessions
            /\ task[d].version \in 1..sessions[task[d].session].version
            /\ task[d].version = sessions[task[d].session].version
                 => task[d].token = sessions[task[d].session].token
        BY <3>2 DEF Rotations, HoldsLast, InRange, Refers
      <4>2. CASE task[d].session = r
        BY <1>1, <2>1, <4>1, <4>2, Rotated DEF HoldsLast
      <4>3. CASE task[d].session # r
        <5>1. sessions'[task[d].session] = sessions[task[d].session] BY <4>1, <4>3, Rotated
        <5> QED BY <2>1, <4>1, <5>1 DEF HoldsLast
      <4> QED BY <4>2, <4>3
    <3> QED BY <3>1, <3>2
  <2>2. CASE task'[d] = Idle BY <2>2 DEF HoldsLast, Idle
  <2> QED BY <2>1, <2>2, Rotated, Tasked, TaskRecords
<1> QED BY <1>3, <1>6, <1>7 DEF LastTokens, Rotations

\* Every step leaves the last tokens with their sessions.
LEMMA TokensStep ==
  ASSUME Shape, InRange, LastTokens, Rotations, Next
  PROVE  LastTokens' /\ Rotations'
<1>1. Fits(Idle) BY DEF Fits, Refers, HoldsLast, Idle
<1>2. ASSUME NEW c \in Clients, Reads(c) PROVE LastTokens' /\ Rotations'
  BY <1>2, ReadsTyped, TokensKept
<1>3. ASSUME NEW c \in Clients, Marks(c) PROVE LastTokens' /\ Rotations'
  BY <1>3, MarksTyped, TokensKept
<1>4. ASSUME NEW c \in Clients, RevokeFamily(c) \/ RevokeOthers(c) \/ RevokeAll(c)
      PROVE  LastTokens' /\ Rotations'
  <2>1. PICK S : sessions' = Revoked(S)
    BY <1>4 DEF RevokeFamily, RevokeOthers, RevokeAll
  <2>2. Do(c, Idle) /\ UNCHANGED tokens
    BY <1>4 DEF RevokeFamily, RevokeOthers, RevokeAll
  <2> QED BY <1>1, <2>1, <2>2, RevokedSessions, TokensKept, TaskRecords
<1>5. CASE Logout \/ CompletePasswordReset
  <2>1. PICK S : sessions' = Revoked(S) BY <1>5 DEF Logout, CompletePasswordReset
  <2>2. UNCHANGED <<tokens, task>> BY <1>5 DEF Logout, CompletePasswordReset
  <2> QED BY <2>1, <2>2, RevokedSessions, TokensKept
<1>6. CASE Unlock \/ Reinstate \/ Lapse \/ VerifyByAdmin
  <2>1. UNCHANGED <<sessions, tokens, task>>
    BY <1>6 DEF Unlock, Reinstate, Lapse, VerifyByAdmin
  <2> QED BY <2>1, TokensKept
<1>7. ASSUME NEW c \in Clients, IssueCode(c) PROVE LastTokens' /\ Rotations'
  <2>1. Do(c, Idle) /\ UNCHANGED <<sessions, tokens>> BY <1>7 DEF IssueCode
  <2> QED BY <1>1, <2>1, TokensKept, TaskRecords
<1>8. ASSUME NEW c \in Clients, CreateSession(c) PROVE LastTokens' /\ Rotations'
  BY <1>8, TokensCreated
<1>9. ASSUME NEW c \in Clients, Rotate(c) PROVE LastTokens' /\ Rotations'
  <2>1. CASE SameVersion(task[c].session, task[c].version)
    BY <1>9, <2>1, TokensRotated
  <2>2. CASE ~SameVersion(task[c].session, task[c].version)
    <3> DEFINE s == task[c].session
               family == [at |-> "family", session |-> s]
    <3>1. s \in DOMAIN sessions /\ s \in Nat
      BY <1>9, TaskFields DEF Rotate, Shape, InRange, Refers
    <3>2. Do(c, family) /\ UNCHANGED <<sessions, tokens>> BY <1>9, <2>2 DEF Rotate
    <3>3. family \in TaskRecord BY <3>1, TaskRecords
    <3>4. Fits(family) BY <3>1 DEF Fits, Refers, HoldsLast
    <3> HIDE DEF family
    <3> QED BY <3>2, <3>3, <3>4, TokensKept
  <2> QED BY <2>1, <2>2
<1> QED
  BY <1>2, <1>3, <1>4, <1>5, <1>6, <1>7, <1>8, <1>9
  DEF Next, Handler, Reads, Marks
-----------------------------------------------------------------------------
(* One-time codes. *)

\* The handlers that hold a code, after one handler has taken on another task.
LEMMA Holders ==
  ASSUME Shape, NEW c \in Clients, NEW t \in TaskRecord, Do(c, t), NEW i
  PROVE  /\ Claimed(i)' = IF t.at = "create" /\ t.claim = i THEN Claimed(i) \cup {c} ELSE Claimed(i) \ {c}
         /\ Tickets(i)' = IF t.at = "ticket" /\ t.code = i THEN Tickets(i) \cup {c} ELSE Tickets(i) \ {c}
         /\ Guessing(i)' = IF t.at = "code" /\ t.code = i THEN Guessing(i) \cup {c} ELSE Guessing(i) \ {c}
<1>1. task'[c] = t /\ \A d \in Clients \ {c} : task'[d] = task[d] BY Tasked
<1>2. Claimed(i)' = IF t.at = "create" /\ t.claim = i THEN Claimed(i) \cup {c} ELSE Claimed(i) \ {c}
  BY <1>1 DEF Claimed
<1>3. Tickets(i)' = IF t.at = "ticket" /\ t.code = i THEN Tickets(i) \cup {c} ELSE Tickets(i) \ {c}
  BY <1>1 DEF Tickets
<1>4. Guessing(i)' = IF t.at = "code" /\ t.code = i THEN Guessing(i) \cup {c} ELSE Guessing(i) \ {c}
  BY <1>1 DEF Guessing
<1> QED BY <1>2, <1>3, <1>4

\* A handler that reads takes on no claim and no ticket, and compares only a code that
\* bears another wrong answer.
LEMMA ReadsHold ==
  ASSUME Shape, NEW c \in Clients, Reads(c)
  PROVE  /\ task'[c].at # "ticket"
         /\ task'[c].at = "create" => task'[c].claim = 0
         /\ task'[c].at = "code" => codes[task'[c].code].attempts < MaxAttempts
<1>1. task \in [Clients -> TaskRecord] BY DEF Shape
<1>2. CASE ReadSession(c) BY <1>1, <1>2 DEF ReadSession, Do
<1>3. CASE RequireCurrent(c) BY <1>1, <1>3 DEF RequireCurrent, Do
<1>4. CASE ReadCredential(c) BY <1>1, <1>4 DEF ReadCredential, Do
<1>5. CASE WrongPassword(c) \/ Stop(c) BY <1>1, <1>5 DEF WrongPassword, Stop, Do, Idle
<1>6. CASE SignIn(c) BY <1>1, <1>6 DEF SignIn, Do
<1>7. CASE ComparePassword(c) BY <1>1, <1>7 DEF ComparePassword, Do
<1>8. CASE ChangePassword(c) \/ Suspend(c) BY <1>1, <1>8 DEF ChangePassword, Suspend, Do, ThenRevoke
<1>9. CASE ReadCode(c)
  <2>1. PICK i \in DOMAIN codes, right \in BOOLEAN :
          Usable(i) /\ Do(c, [at |-> "code", code |-> i, right |-> right])
    BY <1>9 DEF ReadCode, Unconsumed
  <2>2. task'[c] = [at |-> "code", code |-> i, right |-> right] BY <1>1, <2>1 DEF Do
  <2> QED BY <2>1, <2>2 DEF Usable
<1>10. CASE VerifyUser(c) BY <1>1, <1>10 DEF VerifyUser, Do, Idle
<1>11. CASE ReadContinuation(c) BY <1>1, <1>11 DEF ReadContinuation, Do
<1> QED BY <1>2, <1>3, <1>4, <1>5, <1>6, <1>7, <1>8, <1>9, <1>10, <1>11 DEF Reads

\* What a code is spent on is as it was, and what is spent stays so.
Fades(i) ==
  /\ codes'[i].accepted = codes[i].accepted /\ codes'[i].resets = codes[i].resets
  /\ codes'[i].opened = codes[i].opened
  /\ codes[i].consumed => codes'[i].consumed
  /\ codes'[i].reset = codes[i].reset \/ (codes[i].reset = "issued" /\ codes'[i].reset = "lapsed")
  /\ codes'[i].continuation = "open" => codes[i].continuation = "open"

\* A code that fades, with no new holder, is spent as it was.
LEMMA SpentKept ==
  ASSUME NEW i, SpentCode(i), Fades(i), Claimed(i)' \subseteq Claimed(i), Tickets(i)' \subseteq Tickets(i)
  PROVE  SpentCode(i)'
<1>1. /\ codes'[i].accepted <= 1 /\ codes'[i].resets <= codes'[i].accepted /\ codes'[i].opened <= 1
      /\ ~codes'[i].consumed => codes'[i].accepted = 0
      /\ codes'[i].reset # "none" => codes'[i].accepted = 1
      /\ codes'[i].reset \in {"none", "issued"} => codes'[i].resets = 0
  BY DEF SpentCode, Fades
<1>2. /\ Tickets(i)' # {} => codes'[i].accepted = 1 /\ codes'[i].reset = "none"
      /\ \A c, d \in Tickets(i)' : c = d
  BY DEF SpentCode, Fades
<1>3. /\ codes'[i].continuation = "open" => codes'[i].opened = 0 /\ Claimed(i)' = {}
      /\ Claimed(i)' # {} => codes'[i].opened = 0
      /\ \A c, d \in Claimed(i)' : c = d
  BY DEF SpentCode, Fades
<1> QED BY <1>1, <1>2, <1>3 DEF SpentCode

\* The steps after which every code has faded, and counts the wrong answers it did.
LEMMA Fading ==
  ASSUME Shape, InRange,
         \/ \E c \in Clients : ConsumeOlder(c) \/ UseContinuation(c)
         \/ Lapse \/ VerifyByAdmin \/ UNCHANGED codes,
         NEW i \in DOMAIN codes
  PROVE  Fades(i) /\ codes'[i].attempts = codes[i].attempts
<1>1. codes[i] \in CodeRecord /\ codes \in [DOMAIN codes -> CodeRecord]
  BY ElementOfSeq, LenProperties DEF Shape
<1>2. ASSUME NEW c \in Clients, ConsumeOlder(c)
      PROVE  Fades(i) /\ codes'[i].attempts = codes[i].attempts
  <2>1. PICK x \in BOOLEAN : codes'[i] = [codes[i] EXCEPT !.consumed = @ \/ x]
    BY <1>2 DEF ConsumeOlder
  <2> QED BY <1>1, <2>1 DEF Fades, CodeRecord
<1>3. ASSUME NEW c \in Clients, UseContinuation(c)
      PROVE  Fades(i) /\ codes'[i].attempts = codes[i].attempts
  BY <1>1, <1>3 DEF UseContinuation, Fades, CodeRecord
<1>4. CASE Lapse
  <2>1. PICK j \in DOMAIN codes :
          \/ codes' = [codes EXCEPT ![j].lapsed = TRUE]
          \/ codes[j].reset = "issued" /\ codes' = [codes EXCEPT ![j].reset = "lapsed"]
          \/ codes' = [codes EXCEPT ![j].continuation = "lapsed"]
    BY <1>4 DEF Lapse
  <2>2. CASE i = j BY <1>1, <2>1, <2>2 DEF Fades, CodeRecord
  <2>3. CASE i # j
    <3>1. codes'[i] = codes[i] BY <1>1, <2>1, <2>3
    <3> QED BY <3>1 DEF Fades
  <2> QED BY <2>2, <2>3
<1>5. CASE VerifyByAdmin
  <2>1. PICK x \in BOOLEAN : codes'[i] = [codes[i] EXCEPT !.consumed = @ \/ x]
    BY <1>5 DEF VerifyByAdmin
  <2> QED BY <1>1, <2>1 DEF Fades, CodeRecord
<1>6. CASE UNCHANGED codes BY <1>6 DEF Fades
<1> QED BY <1>2, <1>3, <1>4, <1>5, <1>6

\* A code is spent by the handler that holds it, and only then.
LEMMA SpentStep ==
  ASSUME Shape, InRange, \A i \in DOMAIN codes : SpentCode(i), Next
  PROVE  \A i \in DOMAIN codes' : SpentCode(i)'
<1>0. codes \in [DOMAIN codes -> CodeRecord] /\ DOMAIN codes \subseteq Nat \ {0}
  BY ElementOfSeq, LenProperties DEF Shape
<1>1. ASSUME NEW i \in DOMAIN codes, Fades(i), UNCHANGED task PROVE SpentCode(i)'
  BY <1>1, SpentKept DEF Claimed, Tickets
<1>2. ASSUME NEW c \in Clients, NEW t \in TaskRecord, Do(c, t), t.at # "ticket",
             NEW i \in DOMAIN codes, Fades(i), t.at = "create" => t.claim # i
      PROVE  SpentCode(i)'
  BY <1>2, SpentKept, Holders
<1>3. ASSUME NEW c \in Clients, Reads(c) PROVE \A i \in DOMAIN codes' : SpentCode(i)'
  <2>1. PICK t \in TaskRecord : Do(c, t) BY <1>3, ReadsTyped
  <2>2. task'[c] = t /\ UNCHANGED codes BY <1>3, <2>1, Tasked, ReadsTyped
  <2>3. t.at # "ticket" /\ (t.at = "create" => t.claim = 0) BY <1>3, <2>2, ReadsHold
  <2> QED BY <1>0, <1>2, <2>1, <2>2, <2>3, Fading
<1>4. ASSUME NEW c \in Clients, ConsumeOlder(c) \/ UseContinuation(c)
      PROVE  \A i \in DOMAIN codes' : SpentCode(i)'
  <2>1. PICK t \in TaskRecord :
          Do(c, t) /\ t.at # "ticket" /\ (t.at = "create" => t.claim = 0)
    <3>1. CASE ConsumeOlder(c)
      <4>1. PICK purpose \in Purposes : Do(c, [at |-> "issue", purpose |-> purpose])
        BY <3>1 DEF ConsumeOlder
      <4> QED BY <4>1, TaskRecords
    <3>2. CASE UseContinuation(c) BY <3>2, TaskRecords DEF UseContinuation
    <3> QED BY <1>4, <3>1, <3>2
  <2>2. DOMAIN codes' = DOMAIN codes BY <1>4, CodesTyped
  <2>3. ASSUME NEW i \in DOMAIN codes PROVE Fades(i) BY <1>4, Fading
  <2>4. ASSUME NEW i \in DOMAIN codes PROVE SpentCode(i)'
    <3>1. i # 0 BY <1>0
    <3>2. Do(c, t) /\ t.at # "ticket" /\ (t.at = "create" => t.claim # i) BY <2>1, <3>1
    <3> QED BY <1>2, <2>3, <3>2
  <2> QED BY <2>2, <2>4
<1>5. CASE Lapse \/ VerifyByAdmin \/ Logout \/ Unlock \/ Reinstate
  <2>1. UNCHANGED task BY <1>5 DEF Lapse, VerifyByAdmin, Logout, Unlock, Reinstate
  <2>2. DOMAIN codes' = DOMAIN codes
    BY <1>5, CodesTyped DEF Logout, Unlock, Reinstate
  <2>3. ASSUME NEW i \in DOMAIN codes PROVE Fades(i)
    BY <1>5, Fading DEF Logout, Unlock, Reinstate
  <2> QED BY <1>1, <2>1, <2>2, <2>3
<1>6. ASSUME NEW c \in Clients, RevokeFamily(c) \/ RevokeOthers(c) \/ RevokeAll(c) \/ Rotate(c)
      PROVE  \A i \in DOMAIN codes' : SpentCode(i)'
  <2>1. UNCHANGED codes BY <1>6 DEF RevokeFamily, RevokeOthers, RevokeAll, Rotate
  <2>2. PICK t \in TaskRecord : Do(c, t) /\ t.at \notin {"ticket", "create"}
    <3>1. CASE Do(c, Idle)
      <4>1. Idle.at \notin {"ticket", "create"} BY DEF Idle
      <4> QED BY <3>1, <4>1, TaskRecords
    <3>2. CASE Do(c, [at |-> "family", session |-> task[c].session]) /\ task[c].at = "rotate"
      <4>1. task[c].session \in Nat BY <3>2, TaskFields DEF Shape
      <4> QED BY <3>2, <4>1, TaskRecords
    <3> QED BY <1>6, <3>1, <3>2 DEF RevokeFamily, RevokeOthers, RevokeAll, Rotate
  <2> QED BY <1>2, <2>1, <2>2, Fading
<1>7. ASSUME NEW c \in Clients, WrongCode(c) PROVE \A i \in DOMAIN codes' : SpentCode(i)'
  <2>1. Do(c, Idle) BY <1>7 DEF WrongCode
  <2>2. DOMAIN codes' = DOMAIN codes BY <1>7, CodesTyped
  <2>3. ASSUME NEW i \in DOMAIN codes PROVE Fades(i)
    BY <1>0, <1>7, <2>3 DEF WrongCode, Fades, CodeRecord
  <2>4. Idle.at \notin {"ticket", "create"} BY DEF Idle
  <2> QED BY <1>2, <2>1, <2>2, <2>3, <2>4, TaskRecords
<1>8. ASSUME NEW c \in Clients, CreateSession(c) \/ SessionFails(c)
      PROVE  \A i \in DOMAIN codes' : SpentCode(i)'
  <2>1. DOMAIN codes' = DOMAIN codes BY <1>8, CodesTyped
  <2>2. Do(c, Idle) /\ task[c].at = "create" BY <1>8 DEF CreateSession, SessionFails
  <2>3. Idle.at \notin {"ticket", "create"} BY DEF Idle
  <2>4. ASSUME NEW i \in DOMAIN codes, i # task[c].claim PROVE SpentCode(i)'
    <3>1. codes'[i] = codes[i] BY <1>0, <1>8, <2>4 DEF CreateSession, SessionFails
    <3>2. Fades(i) BY <3>1 DEF Fades
    <3> QED BY <1>2, <2>2, <2>3, <3>2, TaskRecords
  <2>5. ASSUME NEW i \in DOMAIN codes, i = task[c].claim PROVE SpentCode(i)'
    <3>1. c \in Claimed(i) BY <2>2, <2>5 DEF Claimed
    <3>2. Claimed(i) = {c} /\ codes[i].opened = 0 /\ codes[i].continuation # "open"
      BY <3>1 DEF SpentCode
    <3>3. Claimed(i)' = {} /\ Tickets(i)' \subseteq Tickets(i)
      BY <2>2, <2>3, <3>2, Holders, TaskRecords
    <3>4. /\ codes'[i].accepted = codes[i].accepted /\ codes'[i].resets = codes[i].resets
          /\ codes'[i].consumed = codes[i].consumed /\ codes'[i].reset = codes[i].reset
          /\ \/ codes'[i].opened = 1 /\ codes'[i].continuation = codes[i].continuation
             \/ codes'[i].opened = codes[i].opened
      <4>1. CASE CreateSession(c)
        <5>1. codes' = [codes EXCEPT ![i].opened = @ + 1] BY <1>0, <2>5, <4>1 DEF CreateSession
        <5> QED BY <1>0, <3>2, <5>1 DEF CodeRecord
      <4>2. CASE SessionFails(c)
        <5>1. codes' = [codes EXCEPT ![i].continuation = "open"] BY <1>0, <2>5, <4>2 DEF SessionFails
        <5> QED BY <1>0, <5>1 DEF CodeRecord
      <4> QED BY <1>8, <4>1, <4>2
    <3>5. SpentCode(i) OBVIOUS
    <3> QED BY <3>2, <3>3, <3>4, <3>5 DEF SpentCode
  <2> QED BY <2>1, <2>4, <2>5
<1>9. ASSUME NEW c \in Clients, ConsumeCode(c) PROVE \A i \in DOMAIN codes' : SpentCode(i)'
  <2> DEFINE j == task[c].code
             ticket == [at |-> "ticket", code |-> j]
             verify == [at |-> "verify", code |-> j]
  <2>0. j \in DOMAIN codes /\ j \in Nat BY <1>0, <1>9 DEF ConsumeCode, InRange, Refers
  <2>1. CASE Do(c, Idle) /\ UNCHANGED codes
    <3>1. Idle.at \notin {"ticket", "create"} BY DEF Idle
    <3> QED BY <1>2, <2>1, <3>1, Fading, TaskRecords
  <2>2. CASE /\ Consumable(j) /\ codes' = [codes EXCEPT ![j].consumed = TRUE, ![j].accepted = @ + 1]
             /\ Do(c, ticket) \/ Do(c, verify)
    <3>0. PICK t \in TaskRecord : Do(c, t) /\ t.at \in {"ticket", "verify"} /\ t.code = j
      <4>1. /\ ticket \in TaskRecord /\ ticket.at = "ticket" /\ ticket.code = j
            /\ verify \in TaskRecord /\ verify.at = "verify" /\ verify.code = j
        BY <2>0, TaskRecords
      <4> HIDE DEF ticket, verify
      <4> QED BY <2>2, <4>1
    <3>1. DOMAIN codes' = DOMAIN codes BY <2>2
    <3> DEFINE n == codes[j].accepted + 1
               r == [codes[j] EXCEPT !.consumed = TRUE, !.accepted = n]
    <3>5. codes' = [codes EXCEPT ![j] = r]
      BY <1>0, <2>0, <2>2 DEF CodeRecord
    <3>2. ASSUME NEW i \in DOMAIN codes, i # j PROVE SpentCode(i)'
      <4>1. codes'[i] = codes[i] BY <1>0, <3>2, <3>5
      <4>2. Fades(i) BY <4>1 DEF Fades
      <4>3. Claimed(i)' \subseteq Claimed(i) /\ Tickets(i)' \subseteq Tickets(i)
        BY <3>0, <3>2, Holders
      <4> QED BY <4>2, <4>3, SpentKept
    <3>3. ASSUME NEW i \in DOMAIN codes, i = j PROVE SpentCode(i)'
      <4>1. ~codes[i].consumed /\ SpentCode(i) BY <2>2, <3>3 DEF Consumable
      <4>2. codes[i].accepted = 0 /\ codes[i].reset = "none" /\ codes[i].resets = 0 /\ Tickets(i) = {}
        BY <1>0, <4>1 DEF SpentCode
      <4>3. /\ codes'[i].consumed /\ codes'[i].accepted = 1 /\ codes'[i].reset = "none"
            /\ codes'[i].resets = 0 /\ codes'[i].opened = codes[i].opened
            /\ codes'[i].continuation = codes[i].continuation
        <5>1. n = 1 BY <3>3, <4>2
        <5>2. codes'[i] = r BY <1>0, <3>3, <3>5
        <5> HIDE DEF n
        <5> QED BY <1>0, <3>3, <4>2, <5>1, <5>2 DEF CodeRecord
      <4>4. Claimed(i)' \subseteq Claimed(i) /\ Tickets(i)' \subseteq {c}
        BY <3>0, <4>2, Holders
      <4> QED BY <4>1, <4>3, <4>4 DEF SpentCode
    <3> QED BY <3>1, <3>2, <3>3
  <2> QED BY <1>9, <2>1, <2>2 DEF ConsumeCode
<1>10. ASSUME NEW c \in Clients, ClaimContinuation(c) PROVE \A i \in DOMAIN codes' : SpentCode(i)'
  <2> DEFINE j == task[c].code
             create == [at |-> "create", claim |-> j]
  <2>0. j \in DOMAIN codes /\ j \in Nat BY <1>0, <1>10 DEF ClaimContinuation, InRange, Refers
  <2>1. CASE Do(c, Idle) /\ UNCHANGED codes
    <3>1. Idle.at \notin {"ticket", "create"} BY DEF Idle
    <3> QED BY <1>2, <2>1, <3>1, Fading, TaskRecords
  <2>2. CASE /\ codes[j].continuation = "open" /\ Do(c, create)
             /\ codes' = [codes EXCEPT ![j].continuation = "used"]
    <3>1. PICK t \in TaskRecord : Do(c, t) /\ t.at = "create" /\ t.claim = j
      <4>1. create \in TaskRecord /\ create.at = "create" /\ create.claim = j
        BY <2>0, TaskRecords
      <4> HIDE DEF create
      <4> QED BY <2>2, <4>1
    <3>2. DOMAIN codes' = DOMAIN codes BY <2>2
    <3>3. ASSUME NEW i \in DOMAIN codes, i # j PROVE SpentCode(i)'
      <4>1. codes'[i] = codes[i] BY <1>0, <2>2, <3>3
      <4>2. Fades(i) BY <4>1 DEF Fades
      <4> QED BY <1>2, <3>1, <3>3, <4>2
    <3>4. ASSUME NEW i \in DOMAIN codes, i = j PROVE SpentCode(i)'
      <4>1. SpentCode(i) /\ codes[i].opened = 0 /\ Claimed(i) = {} BY <2>2, <3>4 DEF SpentCode
      <4>2. /\ codes'[i].accepted = codes[i].accepted /\ codes'[i].resets = codes[i].resets
            /\ codes'[i].consumed = codes[i].consumed /\ codes'[i].reset = codes[i].reset
            /\ codes'[i].opened = 0 /\ codes'[i].continuation = "used"
        BY <1>0, <2>2, <3>4, <4>1 DEF CodeRecord
      <4>3. Claimed(i)' = {c} /\ Tickets(i)' \subseteq Tickets(i)
        BY <3>1, <3>4, <4>1, Holders
      <4> QED BY <4>1, <4>2, <4>3 DEF SpentCode
    <3> QED BY <3>2, <3>3, <3>4
  <2> QED BY <1>10, <2>1, <2>2 DEF ClaimContinuation
<1>11. ASSUME NEW c \in Clients, IssueResetToken(c) PROVE \A i \in DOMAIN codes' : SpentCode(i)'
  <2> DEFINE j == task[c].code
  <2>0. j \in DOMAIN codes BY <1>11 DEF IssueResetToken, InRange, Refers
  <2>1. /\ codes' = [codes EXCEPT ![j].reset = "issued"] /\ Do(c, Idle)
        /\ Idle.at \notin {"ticket", "create"}
    BY <1>11 DEF IssueResetToken, Idle
  <2>2. DOMAIN codes' = DOMAIN codes BY <2>1
  <2>3. ASSUME NEW i \in DOMAIN codes, i # j PROVE SpentCode(i)'
    <3>1. codes'[i] = codes[i] BY <1>0, <2>1, <2>3
    <3>2. Fades(i) BY <3>1 DEF Fades
    <3> QED BY <1>2, <2>1, <3>2, TaskRecords
  <2>4. ASSUME NEW i \in DOMAIN codes, i = j PROVE SpentCode(i)'
    <3>1. c \in Tickets(i) BY <1>11, <2>4 DEF IssueResetToken, Tickets
    <3>2. SpentCode(i) /\ codes[i].accepted = 1 /\ codes[i].reset = "none" /\ Tickets(i) = {c}
      BY <3>1 DEF SpentCode
    <3>3. /\ codes'[i].accepted = codes[i].accepted /\ codes'[i].resets = codes[i].resets
          /\ codes'[i].consumed = codes[i].consumed /\ codes'[i].reset = "issued"
          /\ codes'[i].opened = codes[i].opened /\ codes'[i].continuation = codes[i].continuation
      BY <1>0, <2>1, <2>4 DEF CodeRecord
    <3>4. Claimed(i)' \subseteq Claimed(i) /\ Tickets(i)' = {}
      BY <2>1, <3>2, Holders, TaskRecords
    <3> QED BY <3>2, <3>3, <3>4 DEF SpentCode
  <2> QED BY <2>2, <2>3, <2>4
<1>12. CASE CompletePasswordReset
  <2>1. PICK j \in DOMAIN codes :
          /\ codes[j].reset = "issued"
          /\ codes' = [codes EXCEPT ![j].reset = "used", ![j].resets = @ + 1]
    BY <1>12 DEF CompletePasswordReset
  <2> DEFINE n == codes[j].resets + 1
             r == [codes[j] EXCEPT !.reset = "used", !.resets = n]
  <2>2. UNCHANGED task /\ DOMAIN codes' = DOMAIN codes BY <1>12, <2>1 DEF CompletePasswordReset
  <2>3. codes' = [codes EXCEPT ![j] = r] BY <1>0, <2>1 DEF CodeRecord
  <2>4. ASSUME NEW i \in DOMAIN codes, i # j PROVE SpentCode(i)'
    <3>1. codes'[i] = codes[i] BY <1>0, <2>3, <2>4
    <3>2. Fades(i) BY <3>1 DEF Fades
    <3> QED BY <1>1, <2>2, <3>2
  <2>5. ASSUME NEW i \in DOMAIN codes, i = j PROVE SpentCode(i)'
    <3>1. SpentCode(i) /\ codes[i].resets = 0 /\ codes[i].accepted = 1 BY <2>1, <2>5 DEF SpentCode
    <3>2. /\ codes'[i].accepted = 1 /\ codes'[i].resets = 1 /\ codes'[i].reset = "used"
          /\ codes'[i].consumed = codes[i].consumed
          /\ codes'[i].opened = codes[i].opened /\ codes'[i].continuation = codes[i].continuation
      <4>1. n = 1 BY <2>5, <3>1
      <4>2. codes'[i] = r BY <1>0, <2>3, <2>5
      <4> HIDE DEF n
      <4> QED BY <1>0, <2>5, <3>1, <4>1, <4>2 DEF CodeRecord
    <3>3. Claimed(i)' = Claimed(i) /\ Tickets(i)' = Tickets(i) BY <2>2 DEF Claimed, Tickets
    <3>4. Tickets(i) = {} BY <2>1, <2>5, <3>1 DEF SpentCode
    <3> QED BY <3>1, <3>2, <3>3, <3>4 DEF SpentCode
  <2> QED BY <2>2, <2>4, <2>5
<1>13. ASSUME NEW c \in Clients, IssueCode(c) PROVE \A i \in DOMAIN codes' : SpentCode(i)'
  <2>0. Do(c, Idle) /\ Idle.at \notin {"ticket", "create"} BY <1>13 DEF IssueCode, Idle
  <2>1. CASE codes' = codes BY <1>2, <2>0, <2>1, Fading, TaskRecords
  <2>2. CASE codes' = Append(codes, Challenge(task[c].purpose, "none"))
    <3> DEFINE new == Challenge(task[c].purpose, "none")
    <3>1. new \in CodeRecord
      BY <1>13, TaskFields DEF Challenge, CodeRecord, IssueCode, Shape
    <3>2. /\ new.accepted = 0 /\ new.resets = 0 /\ new.opened = 0 /\ new.reset = "none"
          /\ new.continuation = "none"
      BY DEF Challenge
    <3> HIDE DEF new
    <3>3. /\ codes' \in Seq(CodeRecord) /\ Len(codes') = Len(codes) + 1
          /\ \A i \in 1..Len(codes) : codes'[i] = codes[i]
          /\ codes'[Len(codes) + 1] = new
      BY <2>2, <3>1, AppendProperties DEF Shape, new
    <3>4. DOMAIN codes = 1..Len(codes) /\ DOMAIN codes' = 1..(Len(codes) + 1) /\ Len(codes) \in Nat
      BY <3>3, LenProperties DEF Shape
    <3>5. ASSUME NEW i \in DOMAIN codes PROVE SpentCode(i)'
      <4>1. Fades(i) BY <3>3, <3>4 DEF Fades
      <4> QED BY <1>2, <2>0, <4>1, TaskRecords
    <3>6. ASSUME NEW i \in {Len(codes) + 1} PROVE SpentCode(i)'
      <4>1. i \notin DOMAIN codes /\ i # 0 BY <3>4
      <4>2. Claimed(i) = {} /\ Tickets(i) = {}
        BY <4>1 DEF Claimed, Tickets, InRange, Refers
      <4>3. Claimed(i)' = {} /\ Tickets(i)' = {} BY <2>0, <4>2, Holders, TaskRecords
      <4>4. codes'[i] = new BY <3>3
      <4> QED BY <3>2, <4>3, <4>4 DEF SpentCode
    <3> QED BY <3>4, <3>5, <3>6
  <2> QED BY <1>13, <2>1, <2>2 DEF IssueCode
<1> QED
  BY <1>3, <1>4, <1>5, <1>6, <1>7, <1>8, <1>9, <1>10, <1>11, <1>12, <1>13
  DEF Next, Handler, Reads

\* Handlers that hold a code are among the clients.
LEMMA Guessers ==
  ASSUME NEW i
  PROVE  /\ Guessing(i) \subseteq Clients /\ IsFiniteSet(Guessing(i))
         /\ Cardinality(Guessing(i)) \in Nat /\ Cardinality(Clients) \in Nat
         /\ Cardinality(Guessing(i)) <= Cardinality(Clients)
<1>1. Guessing(i) \subseteq Clients BY DEF Guessing
<1> QED BY <1>1, ClientsAssumption, FS_Subset, FS_CardinalityType

\* Wrong answers are counted by WrongCode alone.
LEMMA AttemptsKept ==
  ASSUME Shape, InRange,
         \E c \in Clients :
           CreateSession(c) \/ SessionFails(c) \/ ConsumeCode(c) \/ ClaimContinuation(c) \/ IssueResetToken(c),
         NEW i \in DOMAIN codes
  PROVE  codes'[i].attempts = codes[i].attempts
<1>1. codes[i] \in CodeRecord /\ codes \in [DOMAIN codes -> CodeRecord]
  BY ElementOfSeq, LenProperties DEF Shape
<1>2. ASSUME NEW c \in Clients, CreateSession(c) \/ SessionFails(c)
      PROVE  codes'[i].attempts = codes[i].attempts
  <2> DEFINE j == task[c].claim
  <2>1. \/ codes' = codes
        \/ codes' = [codes EXCEPT ![j].opened = @ + 1]
        \/ codes' = [codes EXCEPT ![j].continuation = "open"]
    BY <1>2 DEF CreateSession, SessionFails
  <2>2. CASE j = i BY <1>1, <2>1, <2>2 DEF CodeRecord
  <2>3. CASE j # i BY <1>1, <2>1, <2>3
  <2> QED BY <2>2, <2>3
<1>3. ASSUME NEW c \in Clients, ConsumeCode(c) \/ ClaimContinuation(c) \/ IssueResetToken(c)
      PROVE  codes'[i].attempts = codes[i].attempts
  <2> DEFINE j == task[c].code
  <2>1. \/ codes' = codes
        \/ codes' = [codes EXCEPT ![j].consumed = TRUE, ![j].accepted = @ + 1]
        \/ codes' = [codes EXCEPT ![j].continuation = "used"]
        \/ codes' = [codes EXCEPT ![j].reset = "issued"]
    BY <1>3 DEF ConsumeCode, ClaimContinuation, IssueResetToken
  <2>2. CASE j = i BY <1>1, <2>1, <2>2 DEF CodeRecord
  <2>3. CASE j # i BY <1>1, <2>1, <2>3
  <2> QED BY <2>2, <2>3
<1> QED BY <1>2, <1>3

\* Every step counts the wrong answers it lets in.
LEMMA GuessesStep ==
  ASSUME Shape, InRange, GuessesCounted, Next
  PROVE  GuessesCounted'
<1>0. /\ codes \in [DOMAIN codes -> CodeRecord]
      /\ \A i \in DOMAIN codes : codes[i].attempts \in Nat
      /\ MaxAttempts \in Nat \ {0}
  <2>1. codes \in [DOMAIN codes -> CodeRecord] BY ElementOfSeq, LenProperties DEF Shape
  <2> QED BY <2>1, LimitsAssumption DEF CodeRecord
<1>1. ASSUME NEW i \in DOMAIN codes, codes'[i].attempts = codes[i].attempts,
             Guessing(i)' \subseteq Guessing(i)
      PROVE  Counted(i)'
  <2> DEFINE G == Guessing(i)'
  <2>1. Cardinality(G) \in Nat /\ Cardinality(G) <= Cardinality(Guessing(i))
    <3> HIDE DEF G
    <3> QED BY <1>1, Guessers, FS_Subset, FS_CardinalityType DEF G
  <2>2. Counted(i) BY DEF GuessesCounted
  <2>3. codes[i].attempts + Cardinality(G) <= MaxAttempts - 1 + Cardinality(Clients)
    <3> HIDE DEF G
    <3> QED BY <1>0, <2>1, <2>2, Guessers DEF Counted
  <2> QED BY <1>1, <2>3 DEF Counted
<1>2. ASSUME NEW c \in Clients, NEW t \in TaskRecord, Do(c, t), t.at # "code",
             NEW i \in DOMAIN codes, codes'[i].attempts = codes[i].attempts
      PROVE  Counted(i)'
  <2>1. Guessing(i)' = Guessing(i) \ {c} BY <1>2, Holders
  <2> QED BY <1>1, <1>2, <2>1
<1>3. ASSUME UNCHANGED task, NEW i \in DOMAIN codes, codes'[i].attempts = codes[i].attempts
      PROVE  Counted(i)'
  <2>1. Guessing(i)' = Guessing(i) BY <1>3 DEF Guessing
  <2> QED BY <1>1, <1>3, <2>1
<1>4. ASSUME NEW c \in Clients, NEW i \in DOMAIN codes, ReadCode(c) PROVE Counted(i)'
  <2>1. PICK t \in TaskRecord : Do(c, t) BY <1>4, ReadsTyped DEF Reads
  <2>2. task'[c] = t /\ UNCHANGED codes BY <1>4, <2>1, Tasked, ReadsTyped DEF Reads
  <2>3. CASE t.at = "code" /\ t.code = i
    <3>1. codes[i].attempts < MaxAttempts BY <1>4, <2>2, <2>3, ReadsHold DEF Reads
    <3> DEFINE G == Guessing(i)'
    <3>2. Cardinality(G) \in Nat /\ Cardinality(G) <= Cardinality(Clients)
      <4>1. G \subseteq Clients BY DEF Guessing
      <4> HIDE DEF G
      <4> QED BY <4>1, ClientsAssumption, FS_Subset, FS_CardinalityType
    <3>3. codes[i].attempts + Cardinality(G) <= MaxAttempts - 1 + Cardinality(Clients)
      <4> HIDE DEF G
      <4>1. MaxAttempts \in Nat /\ codes[i].attempts \in Nat BY <1>0
      <4>2. Cardinality(Clients) \in Nat BY ClientsAssumption, FS_CardinalityType
      <4> QED BY <3>1, <3>2, <4>1, <4>2
    <3> QED BY <2>2, <3>3 DEF Counted
  <2>4. CASE ~(t.at = "code" /\ t.code = i)
    <3>1. Guessing(i)' = Guessing(i) \ {c} BY <2>1, <2>4, Holders
    <3> QED BY <1>1, <2>2, <3>1
  <2> QED BY <2>3, <2>4
<1>5. ASSUME NEW c \in Clients, NEW i \in DOMAIN codes, Reads(c), ~ReadCode(c) PROVE Counted(i)'
  <2>1. PICK t \in TaskRecord : Do(c, t) BY <1>5, ReadsTyped
  <2>2. task'[c] = t /\ UNCHANGED codes BY <1>5, <2>1, Tasked, ReadsTyped
  <2>3. t.at # "code"
    <3>1. task'[c].at # "code"
      BY <1>5
      DEF Shape, Do, Idle, ThenRevoke, Reads, ReadSession, RequireCurrent, ReadCredential,
          WrongPassword, SignIn, ComparePassword, ChangePassword, VerifyUser, ReadContinuation,
          Suspend, Stop
    <3> QED BY <2>2, <3>1
  <2> QED BY <1>2, <2>1, <2>2, <2>3
<1>6. ASSUME NEW c \in Clients, NEW i \in DOMAIN codes, WrongCode(c) PROVE Counted(i)'
  <2> DEFINE j == task[c].code
  <2>1. Do(c, Idle) /\ Idle \in TaskRecord /\ Idle.at # "code"
    BY <1>6, TaskRecords DEF WrongCode, Idle
  <2>2. CASE i # j
    <3>1. codes'[i].attempts = codes[i].attempts BY <1>0, <1>6, <2>2 DEF WrongCode
    <3> QED BY <1>2, <2>1, <3>1
  <2>3. CASE i = j
    <3>1. c \in Guessing(i) BY <1>6, <2>3 DEF WrongCode, Guessing
    <3>2. Guessing(i)' = Guessing(i) \ {c} BY <2>1, Holders
    <3>3. Cardinality(Guessing(i) \ {c}) = Cardinality(Guessing(i)) - 1
      BY <3>1, Guessers, FS_RemoveElement
    <3>4. codes'[i].attempts \in {codes[i].attempts, codes[i].attempts + 1}
      BY <1>0, <1>6, <2>3 DEF WrongCode, CodeRecord
    <3>5. Counted(i) BY DEF GuessesCounted
    <3>6. codes'[i].attempts + Cardinality(Guessing(i) \ {c}) <= MaxAttempts - 1 + Cardinality(Clients)
      BY <1>0, <3>3, <3>4, <3>5, Guessers DEF Counted
    <3> QED BY <3>2, <3>6 DEF Counted
  <2> QED BY <2>2, <2>3
<1>7. ASSUME NEW c \in Clients, NEW i \in DOMAIN codes,
             \/ ConsumeOlder(c) \/ UseContinuation(c)
             \/ CreateSession(c) \/ SessionFails(c) \/ ConsumeCode(c)
             \/ ClaimContinuation(c) \/ IssueResetToken(c)
             \/ RevokeFamily(c) \/ RevokeOthers(c) \/ RevokeAll(c) \/ Rotate(c)
      PROVE  Counted(i)'
  <2>1. codes'[i].attempts = codes[i].attempts
    BY <1>7, AttemptsKept, Fading DEF RevokeFamily, RevokeOthers, RevokeAll, Rotate
  <2>2. Guessing(i)' \subseteq Guessing(i)
    <3>1. task'[c].at # "code" /\ \A d \in Clients \ {c} : task'[d] = task[d]
      <4>1. CASE ConsumeOlder(c) \/ UseContinuation(c) \/ CreateSession(c) \/ SessionFails(c)
        BY <4>1 DEF Shape, Do, Idle, ConsumeOlder, UseContinuation, CreateSession, SessionFails
      <4>2. CASE ConsumeCode(c)
        BY <4>2 DEF Shape, Do, Idle, ConsumeCode
      <4>3. CASE \/ ClaimContinuation(c) \/ IssueResetToken(c) \/ RevokeFamily(c)
                 \/ RevokeOthers(c) \/ RevokeAll(c)
        BY <4>3 DEF Shape, Do, Idle, ClaimContinuation, IssueResetToken, RevokeFamily,
                    RevokeOthers, RevokeAll
      <4>4. CASE Rotate(c) BY <4>4 DEF Shape, Do, Idle, Rotate
      <4> QED BY <1>7, <4>1, <4>2, <4>3, <4>4
    <3> QED BY <3>1 DEF Guessing
  <2> QED BY <1>1, <2>1, <2>2
<1>8. ASSUME NEW i \in DOMAIN codes, Lapse \/ VerifyByAdmin \/ Logout \/ Unlock \/ Reinstate
      PROVE  Counted(i)'
  <2>1. UNCHANGED task /\ codes'[i].attempts = codes[i].attempts
    BY <1>8, Fading DEF Lapse, VerifyByAdmin, Logout, Unlock, Reinstate
  <2> QED BY <1>3, <2>1
<1>9. ASSUME NEW i \in DOMAIN codes, CompletePasswordReset PROVE Counted(i)'
  <2>1. PICK j \in DOMAIN codes : codes' = [codes EXCEPT ![j].reset = "used", ![j].resets = @ + 1]
    BY <1>9 DEF CompletePasswordReset
  <2>2. codes'[i].attempts = codes[i].attempts
    <3>1. CASE j = i BY <1>0, <2>1, <3>1 DEF CodeRecord
    <3>2. CASE j # i BY <1>0, <2>1, <3>2
    <3> QED BY <3>1, <3>2
  <2>3. UNCHANGED task BY <1>9 DEF CompletePasswordReset
  <2> QED BY <1>3, <2>2, <2>3
<1>10. ASSUME NEW c \in Clients, IssueCode(c) PROVE \A i \in DOMAIN codes' : Counted(i)'
  <2>0. Do(c, Idle) /\ Idle \in TaskRecord /\ Idle.at # "code"
    BY <1>10, TaskRecords DEF IssueCode, Idle
  <2>1. CASE codes' = codes BY <1>2, <2>0, <2>1
  <2>2. CASE codes' = Append(codes, Challenge(task[c].purpose, "none"))
    <3>1. Challenge(task[c].purpose, "none") \in CodeRecord
      BY <1>10, TaskFields DEF Challenge, CodeRecord, IssueCode, Shape
    <3>2. /\ codes' \in Seq(CodeRecord) /\ Len(codes') = Len(codes) + 1
          /\ \A i \in 1..Len(codes) : codes'[i] = codes[i]
          /\ codes'[Len(codes) + 1] = Challenge(task[c].purpose, "none")
      BY <2>2, <3>1, AppendProperties DEF Shape
    <3>3. DOMAIN codes = 1..Len(codes) /\ DOMAIN codes' = 1..(Len(codes) + 1) /\ Len(codes) \in Nat
      BY <3>2, LenProperties DEF Shape
    <3>4. ASSUME NEW i \in DOMAIN codes PROVE Counted(i)'
      BY <1>2, <2>0, <3>2, <3>3
    <3>5. ASSUME NEW i \in {Len(codes) + 1} PROVE Counted(i)'
      <4>1. codes'[i].attempts = 0 BY <3>2 DEF Challenge
      <4>2. Guessing(i)' \subseteq Guessing(i) BY <2>0, Holders
      <4> DEFINE G == Guessing(i)'
      <4>3. Cardinality(G) \in Nat /\ Cardinality(G) <= Cardinality(Clients)
        <5>1. G \subseteq Clients BY DEF Guessing
        <5> HIDE DEF G
        <5> QED BY <5>1, ClientsAssumption, FS_Subset, FS_CardinalityType
      <4>4. 0 + Cardinality(G) <= MaxAttempts - 1 + Cardinality(Clients)
        <5> HIDE DEF G
        <5>1. MaxAttempts \in Nat /\ MaxAttempts >= 1 BY LimitsAssumption
        <5>2. Cardinality(Clients) \in Nat BY ClientsAssumption, FS_CardinalityType
        <5> QED BY <4>3, <5>1, <5>2
      <4> QED BY <4>1, <4>4 DEF Counted
    <3> QED BY <3>3, <3>4, <3>5
  <2> QED BY <1>10, <2>1, <2>2 DEF IssueCode
<1>11. DOMAIN codes' = DOMAIN codes \/ \E c \in Clients : IssueCode(c)
  <2>1. CASE \/ \E c \in Clients :
                 \/ CreateSession(c) \/ SessionFails(c) \/ ConsumeOlder(c) \/ WrongCode(c)
                 \/ ConsumeCode(c) \/ UseContinuation(c) \/ ClaimContinuation(c) \/ IssueResetToken(c)
             \/ Lapse \/ CompletePasswordReset \/ VerifyByAdmin
    BY <2>1, CodesTyped
  <2>2. ASSUME NEW c \in Clients, Reads(c) PROVE UNCHANGED codes BY <2>2, ReadsTyped
  <2>3. ASSUME NEW c \in Clients, RevokeFamily(c) \/ RevokeOthers(c) \/ RevokeAll(c) \/ Rotate(c)
        PROVE  UNCHANGED codes
    BY <2>3 DEF RevokeFamily, RevokeOthers, RevokeAll, Rotate
  <2>4. CASE Logout \/ Unlock \/ Reinstate BY <2>4 DEF Logout, Unlock, Reinstate
  <2> QED BY <2>1, <2>2, <2>3, <2>4 DEF Next, Handler, Reads
<1>12. ASSUME NEW i \in DOMAIN codes PROVE Counted(i)' \/ \E c \in Clients : IssueCode(c)
  BY <1>4, <1>5, <1>6, <1>7, <1>8, <1>9 DEF Next, Handler, Reads
<1> QED BY <1>10, <1>11, <1>12 DEF GuessesCounted

-----------------------------------------------------------------------------
(* Passwords. *)

\* No session is opened or revived, the password stays, and no handler forgets to revoke.
LEMMA OldKept ==
  ASSUME Shape, OldSessionsEnd,
         DOMAIN sessions' = DOMAIN sessions,
         \A s \in DOMAIN sessions : /\ sessions'[s].born = sessions[s].born
                                    /\ sessions[s].revoked => sessions'[s].revoked,
         cred'.password = cred.password,
         \/ UNCHANGED <<task, cut>>
         \/ \E c \in Clients, t \in TaskRecord :
              Do(c, t) /\ (cut => cut') /\ (task[c].at = "revoke" => cut')
  PROVE  OldSessionsEnd'
<1>1. (cut \/ \E d \in Clients : task[d].at = "revoke")
        => (cut' \/ \E d \in Clients : task'[d].at = "revoke")
  <2>1. ASSUME NEW c \in Clients, NEW t \in TaskRecord, Do(c, t), cut => cut',
               task[c].at = "revoke" => cut', NEW d \in Clients, task[d].at = "revoke"
        PROVE  cut' \/ task'[d].at = "revoke"
    BY <2>1, Tasked
  <2> QED BY <2>1
<1> QED BY <1>1 DEF OldSessionsEnd, Live

\* Every step that replaces the password ends the sessions, or is about to.
LEMMA OldStep ==
  ASSUME Shape, InRange, OldSessionsEnd, Next
  PROVE  OldSessionsEnd'
<1>0. cut \in BOOLEAN /\ task \in [Clients -> TaskRecord] BY DEF Shape
<1>1. ASSUME NEW c \in Clients, Reads(c) PROVE OldSessionsEnd'
  <2>1. PICK t \in TaskRecord : Do(c, t) BY <1>1, ReadsTyped
  <2>2. UNCHANGED sessions BY <1>1, ReadsTyped
  <2>3. CASE ChangePassword(c)
    <3>1. task'[c].at = "revoke" BY <1>0, <2>3 DEF ChangePassword, Do, ThenRevoke
    <3> QED BY <3>1 DEF OldSessionsEnd
  <2>4. CASE ~ChangePassword(c)
    <3>1. cred'.password = cred.password
      <4>1. CASE WrongPassword(c) \/ SignIn(c)
        BY <4>1 DEF WrongPassword, SignIn, Shape, CredRecord
      <4>2. CASE UNCHANGED cred BY <4>2
      <4> QED
        BY <1>1, <2>4, <4>1, <4>2
        DEF Reads, ReadSession, RequireCurrent, ReadCredential, ComparePassword, ReadCode,
            VerifyUser, ReadContinuation, Suspend, Stop
    <3>2. (cut => cut') /\ (task[c].at = "revoke" => cut')
      <4>1. CASE Stop(c) BY <1>0, <4>1 DEF Stop
      <4>2. CASE task[c].at # "revoke" /\ UNCHANGED cut BY <4>2
      <4>3. Idle.at # "revoke" BY DEF Idle
      <4> QED
        BY <1>1, <2>4, <4>1, <4>2, <4>3
        DEF Reads, ReadSession, RequireCurrent, ReadCredential, WrongPassword, SignIn,
            ComparePassword, ReadCode, VerifyUser, ReadContinuation, Suspend
    <3> QED BY <2>1, <2>2, <3>1, <3>2, OldKept
  <2> QED BY <2>3, <2>4
<1>2. ASSUME NEW c \in Clients, Marks(c) PROVE OldSessionsEnd'
  <2>1. PICK t \in TaskRecord : Do(c, t) BY <1>2, MarksTyped
  <2>2. UNCHANGED <<cred, sessions, cut>> BY <1>2, MarksTyped
  <2>3. task[c].at # "revoke"
    BY <1>2 DEF Idle, Marks, SessionFails, ConsumeOlder, WrongCode, ConsumeCode, UseContinuation,
                ClaimContinuation, IssueResetToken
  <2> QED BY <2>1, <2>2, <2>3, OldKept
<1>3. ASSUME NEW c \in Clients, RevokeFamily(c) \/ RevokeOthers(c) PROVE OldSessionsEnd'
  <2>1. PICK S : sessions' = Revoked(S) BY <1>3 DEF RevokeFamily, RevokeOthers
  <2>2. Do(c, Idle) /\ task[c].at # "revoke" /\ UNCHANGED <<cred, cut>>
    BY <1>3 DEF RevokeFamily, RevokeOthers
  <2> QED BY <2>1, <2>2, RevokedSessions, OldKept, TaskRecords
<1>4. CASE Logout
  <2>1. PICK S : sessions' = Revoked(S) BY <1>4 DEF Logout
  <2>2. UNCHANGED <<cred, cut, task>> BY <1>4 DEF Logout
  <2> QED BY <2>1, <2>2, RevokedSessions, OldKept
<1>5. ASSUME \/ \E c \in Clients : RevokeAll(c)
             \/ CompletePasswordReset
      PROVE  OldSessionsEnd'
  <2>1. sessions' = Revoked(DOMAIN sessions) BY <1>5 DEF RevokeAll, CompletePasswordReset
  <2>2. \A s \in DOMAIN sessions' : sessions'[s].revoked BY <2>1, RevokedSessions
  <2> QED BY <2>2 DEF OldSessionsEnd, Live
<1>6. CASE Unlock \/ Lapse \/ VerifyByAdmin \/ Reinstate
  <2>1. UNCHANGED <<sessions, task, cut>> /\ cred'.password = cred.password
    BY <1>6 DEF Unlock, Lapse, VerifyByAdmin, Reinstate, Shape, CredRecord
  <2> QED BY <2>1, OldKept
<1>7. ASSUME NEW c \in Clients, IssueCode(c) PROVE OldSessionsEnd'
  <2>1. Do(c, Idle) /\ task[c].at # "revoke" /\ UNCHANGED <<sessions, cred, cut>>
    BY <1>7 DEF IssueCode
  <2> QED BY <2>1, OldKept, TaskRecords
<1>8. ASSUME NEW c \in Clients, CreateSession(c) PROVE OldSessionsEnd'
  <2>1. Do(c, Idle) /\ task[c].at # "revoke" /\ UNCHANGED <<cred, cut>>
    BY <1>8 DEF CreateSession
  <2>2. ASSUME NEW s \in DOMAIN sessions', ~sessions'[s].revoked, sessions'[s].born # cred.password
        PROVE  s \in DOMAIN sessions /\ Live(s) /\ sessions[s].born # cred.password
    <3>1. CASE s \in DOMAIN sessions BY <1>8, <2>2, <3>1, Created DEF Live
    <3>2. CASE s = Len(sessions) + 1 BY <1>8, <2>2, <3>2, Created
    <3> QED BY <1>8, <3>1, <3>2, Created
  <2>3. \A d \in Clients : task[d].at = "revoke" => task'[d].at = "revoke"
    BY <2>1, Tasked, TaskRecords
  <2> QED BY <2>1, <2>2, <2>3 DEF OldSessionsEnd, Live
<1>9. ASSUME NEW c \in Clients, Rotate(c) PROVE OldSessionsEnd'
  <2> DEFINE s == task[c].session
             family == [at |-> "family", session |-> s]
  <2>1. task[c].at # "revoke" /\ UNCHANGED <<cred, cut>> BY <1>9 DEF Rotate
  <2>2. CASE SameVersion(s, task[c].version)
    BY <1>9, <2>1, <2>2, Rotated, OldKept, TaskRecords
  <2>3. CASE ~SameVersion(s, task[c].version)
    <3>1. s \in Nat BY <1>9, TaskFields DEF Rotate, Shape
    <3>2. family \in TaskRecord BY <3>1, TaskRecords
    <3>3. Do(c, family) /\ UNCHANGED sessions BY <1>9, <2>3 DEF Rotate
    <3> HIDE DEF family
    <3> QED BY <2>1, <3>2, <3>3, OldKept
  <2> QED BY <2>2, <2>3
<1> QED
  BY <1>1, <1>2, <1>3, <1>4, <1>5, <1>6, <1>7, <1>8, <1>9
  DEF Next, Handler, Reads, Marks

-----------------------------------------------------------------------------
(* The theorems. *)

\* A step that changes nothing keeps the invariant.
LEMMA Stuttering == ASSUME IInv, UNCHANGED vars PROVE IInv'
<1>1. UNCHANGED <<user, cred, sessions, tokens, codes, task, cut>> BY DEF vars
<1>2. Shape' BY <1>1 DEF IInv, Shape
<1>3. InRange' BY <1>1 DEF IInv, InRange, Refers
<1>4. LastTokens' /\ Rotations'
  BY <1>1 DEF IInv, LastTokens, Bears, Family, Rotations, HoldsLast
<1>5. (\A i \in DOMAIN codes : SpentCode(i))'
  BY <1>1 DEF IInv, SpentCode, Claimed, Tickets
<1>6. GuessesCounted' BY <1>1 DEF IInv, GuessesCounted, Counted, Guessing
<1>7. OldSessionsEnd' BY <1>1 DEF IInv, OldSessionsEnd, Live
<1> QED BY <1>2, <1>3, <1>4, <1>5, <1>6, <1>7 DEF IInv

\* A registered account satisfies the invariant.
LEMMA Starting == ASSUME Init PROVE IInv
<1> DEFINE first == Challenge("account_verification", "open")
<1>0. /\ MaxAttempts \in Nat \ {0} /\ MaxFailures \in Nat \ {0}
      /\ MaxPasswords \in Nat \ {0} /\ MaxCodes \in Nat \ {0}
      /\ MaxSessions \in Nat /\ MaxTokens \in Nat /\ MaxSuspensions \in Nat
  BY LimitsAssumption, BoundsAssumption
<1>1. first \in CodeRecord BY DEF Challenge, CodeRecord, Purposes
<1>2. /\ first.attempts = 0 /\ first.accepted = 0 /\ first.resets = 0 /\ first.opened = 0
      /\ first.reset = "none"
  BY DEF Challenge
<1> HIDE DEF first
<1>3. /\ codes = <<first>> /\ sessions = <<>> /\ tokens = <<>>
      /\ \A c \in Clients : task[c] = Idle
      /\ cut = FALSE
  BY DEF Init, first
<1>4. /\ codes \in Seq(CodeRecord) /\ sessions \in Seq(SessionRecord) /\ tokens \in Seq(TokenRecord)
      /\ Len(codes) = 1 /\ DOMAIN codes = {1} /\ codes[1] = first
      /\ Len(sessions) = 0 /\ DOMAIN sessions = {} /\ Len(tokens) = 0 /\ DOMAIN tokens = {}
  BY <1>1, <1>3
<1>5. Idle.at = "idle" BY DEF Idle
<1>6. Shape
  <2>1. user \in UserRecord BY <1>0 DEF Init, UserRecord
  <2>2. cred \in CredRecord BY <1>0 DEF Init, CredRecord
  <2>3. task \in [Clients -> TaskRecord] BY TaskRecords DEF Init
  <2> QED BY <1>3, <1>4, <2>1, <2>2, <2>3 DEF Shape
<1>7. InRange BY <1>0, <1>3, <1>4, <1>5 DEF InRange, Refers
<1>8. LastTokens /\ Rotations BY <1>3, <1>4, <1>5 DEF LastTokens, Rotations, HoldsLast
<1>9. \A i \in DOMAIN codes : SpentCode(i)
  BY <1>2, <1>3, <1>4, <1>5 DEF SpentCode, Claimed, Tickets
<1>10. GuessesCounted
  <2>1. Guessing(1) = {} BY <1>3, <1>5 DEF Guessing
  <2>2. Cardinality(Guessing(1)) = 0 BY <2>1, FS_EmptySet
  <2>3. Cardinality(Clients) \in Nat BY Guessers
  <2> QED BY <1>0, <1>2, <1>4, <2>2, <2>3 DEF GuessesCounted, Counted
<1>11. OldSessionsEnd BY <1>4 DEF OldSessionsEnd
<1> QED BY <1>6, <1>7, <1>8, <1>9, <1>10, <1>11 DEF IInv

\* The invariant holds throughout.
THEOREM Inductive == Spec => []IInv
<1>1. Init => IInv BY Starting
<1>2. IInv /\ [Next]_vars => IInv'
  <2>1. ASSUME IInv, Next PROVE IInv'
    <3>1. Shape' /\ InRange' BY <2>1, TypeStep DEF IInv
    <3>2. LastTokens' /\ Rotations' BY <2>1, TokensStep DEF IInv
    <3>3. (\A i \in DOMAIN codes : SpentCode(i))' BY <2>1, SpentStep DEF IInv
    <3>4. GuessesCounted' /\ OldSessionsEnd' BY <2>1, GuessesStep, OldStep DEF IInv
    <3> QED BY <3>1, <3>2, <3>3, <3>4 DEF IInv
  <2> QED BY <2>1, Stuttering
<1> QED BY <1>1, <1>2, PTL DEF Spec

\* A task that names what is there is one of the tasks within the bounds.
LEMMA TaskInBounds ==
  ASSUME IInv, NEW c \in Clients
  PROVE  task[c] \in Tasks
<1> DEFINE t == task[c]
<1>1. t \in TaskRecord /\ Refers(t) /\ HoldsLast(t) BY DEF IInv, Shape, InRange, Rotations
<1>2. /\ MaxSessions \in Nat /\ MaxTokens \in Nat /\ MaxCodes \in Nat
      /\ Len(sessions) \in Nat /\ Len(tokens) \in Nat /\ Len(codes) \in Nat
      /\ Len(sessions) <= MaxSessions /\ Len(tokens) <= MaxTokens /\ Len(codes) <= MaxCodes
      /\ DOMAIN sessions = 1..Len(sessions) /\ DOMAIN tokens = 1..Len(tokens)
      /\ DOMAIN codes = 1..Len(codes)
  BY BoundsAssumption, LenProperties DEF IInv, Shape, InRange
<1>3. /\ t.at \in {"family", "others", "rotate"} => t.session \in 1..MaxSessions
      /\ t.at = "rotate" => t.token \in 1..MaxTokens
      /\ t.at = "create" => t.claim \in 0..MaxCodes
      /\ t.at \in {"code", "verify", "claim", "ticket"} => t.code \in 1..MaxCodes
  BY <1>1, <1>2 DEF Refers
<1>4. t.at = "rotate" => t.version \in 1..MaxTokens
  <2>1. t.at = "rotate" => /\ t.version \in 1..sessions[t.session].version
                           /\ sessions[t.session].version \in 1..Len(tokens)
    BY <1>1 DEF HoldsLast, Refers, IInv, InRange
  <2> QED BY <1>2, <2>1
<1> HIDE DEF t
<1>5. \/ t \in [at : {"idle", "change", "revoke", "conclude"}]
      \/ t \in [at : {"create"}, claim : Nat]
      \/ t \in [at : {"family", "others"}, session : Nat]
      \/ t \in [at : {"rotate"}, session : Nat, token : Nat, version : Nat]
      \/ t \in [at : {"login"}, right : BOOLEAN, failures : 0..(MaxFailures - 1), active : BOOLEAN]
      \/ t \in [at : {"issue"}, purpose : Purposes]
      \/ t \in [at : {"code"}, code : Nat, right : BOOLEAN]
      \/ t \in [at : {"verify", "claim", "ticket"}, code : Nat]
  BY <1>1, Zenon DEF TaskRecord
<1>6. CASE t \in [at : {"idle", "change", "revoke", "conclude"}]
  <2>1. t \in {[at |-> "idle"], [at |-> "change"], [at |-> "revoke"], [at |-> "conclude"]}
    BY <1>6
  <2> QED BY <2>1, Zenon DEF Tasks, Idle, t
<1>7. CASE t \in [at : {"create"}, claim : Nat]
  <2>1. t \in [at : {"create"}, claim : 0..MaxCodes] BY <1>3, <1>7
  <2> QED BY <2>1, Zenon DEF Tasks, t
<1>8. CASE t \in [at : {"family", "others"}, session : Nat]
  <2>1. t \in [at : {"family", "others"}, session : 1..MaxSessions] BY <1>3, <1>8
  <2> QED BY <2>1, Zenon DEF Tasks, t
<1>9. CASE t \in [at : {"rotate"}, session : Nat, token : Nat, version : Nat]
  <2>1. t \in [at : {"rotate"}, session : 1..MaxSessions, token : 1..MaxTokens, version : 1..MaxTokens]
    BY <1>3, <1>4, <1>9
  <2> QED BY <2>1, Zenon DEF Tasks, t
<1>10. CASE \/ t \in [at : {"login"}, right : BOOLEAN, failures : 0..(MaxFailures - 1), active : BOOLEAN]
            \/ t \in [at : {"issue"}, purpose : Purposes]
  BY <1>10, Zenon DEF Tasks, t
<1>11. CASE t \in [at : {"code"}, code : Nat, right : BOOLEAN]
  <2>1. t \in [at : {"code"}, code : 1..MaxCodes, right : BOOLEAN] BY <1>3, <1>11
  <2> QED BY <2>1, Zenon DEF Tasks, t
<1>12. CASE t \in [at : {"verify", "claim", "ticket"}, code : Nat]
  <2>1. t \in [at : {"verify", "claim", "ticket"}, code : 1..MaxCodes] BY <1>3, <1>12
  <2> QED BY <2>1, Zenon DEF Tasks, t
<1> QED BY <1>5, <1>6, <1>7, <1>8, <1>9, <1>10, <1>11, <1>12

\* The types and the bound on guesses: however many handlers compare a code at once, its
\* attempts exceed the limit by fewer than there are handlers.
THEOREM TypeCorrect == Spec => []TypeOK
<1>1. IInv => TypeOK
  <2> SUFFICES ASSUME IInv PROVE TypeOK OBVIOUS
  <2>1. user \in UserRecord /\ cred \in CredRecord /\ cut \in BOOLEAN BY DEF IInv, Shape
  <2>2. task \in [Clients -> Tasks]
    <3>1. task \in [Clients -> TaskRecord] BY DEF IInv, Shape
    <3> QED BY <3>1, TaskInBounds
  <2>3. ASSUME NEW s \in DOMAIN sessions
        PROVE  sessions[s] \in [token : 1..MaxTokens, version : 1..MaxTokens,
                                revoked : BOOLEAN, born : 1..cred.password]
    <3>1. sessions[s] \in SessionRecord BY ElementOfSeq, LenProperties DEF IInv, Shape
    <3>2. sessions[s].version \in 1..Len(tokens) /\ sessions[s].born \in 1..cred.password
      BY DEF IInv, InRange
    <3>3. sessions[s].token \in DOMAIN tokens BY DEF IInv, LastTokens, Bears, Family
    <3>4. DOMAIN tokens = 1..Len(tokens) /\ Len(tokens) \in Nat /\ Len(tokens) <= MaxTokens
      BY LenProperties DEF IInv, Shape, InRange
    <3>5. sessions[s].token \in 1..MaxTokens /\ sessions[s].version \in 1..MaxTokens
      BY <3>2, <3>3, <3>4, BoundsAssumption
    <3> QED BY <3>1, <3>2, <3>5 DEF SessionRecord
  <2>4. ASSUME NEW t \in DOMAIN tokens
        PROVE  tokens[t] \in [session : DOMAIN sessions, from : 0..(t - 1)]
    <3>1. tokens[t] \in TokenRecord /\ t \in Nat
      BY ElementOfSeq, LenProperties DEF IInv, Shape
    <3>2. tokens[t].session \in DOMAIN sessions /\ tokens[t].from < t BY DEF IInv, InRange
    <3>3. tokens[t].from \in 0..(t - 1) BY <3>1, <3>2 DEF TokenRecord
    <3> QED BY <3>1, <3>2, <3>3 DEF TokenRecord
  <2>5. ASSUME NEW i \in DOMAIN codes
        PROVE  codes[i] \in
                 [purpose : Purposes, attempts : 0..(MaxAttempts + Cardinality(Clients) - 1),
                  consumed : BOOLEAN, lapsed : BOOLEAN, reset : {"none", "issued", "lapsed", "used"},
                  continuation : {"none", "open", "lapsed", "used"},
                  accepted : Nat, resets : Nat, opened : Nat]
    <3> DEFINE n == MaxAttempts + Cardinality(Clients) - 1
    <3>1. codes[i] \in CodeRecord BY ElementOfSeq, LenProperties DEF IInv, Shape
    <3>2. Counted(i) BY DEF IInv, GuessesCounted
    <3>3. codes[i].attempts \in Nat /\ MaxAttempts \in Nat \ {0}
      BY <3>1, LimitsAssumption DEF CodeRecord
    <3>4. codes[i].attempts \in 0..n BY <3>2, <3>3, Guessers DEF Counted
    <3> HIDE DEF n
    <3>5. codes[i] \in
            [purpose : Purposes, attempts : 0..n,
             consumed : BOOLEAN, lapsed : BOOLEAN, reset : {"none", "issued", "lapsed", "used"},
             continuation : {"none", "open", "lapsed", "used"},
             accepted : Nat, resets : Nat, opened : Nat]
      BY <3>1, <3>4 DEF CodeRecord
    <3> QED BY <3>5 DEF n
  <2> QED BY <2>1, <2>2, <2>3, <2>4, <2>5 DEF TypeOK, UserRecord, CredRecord
<1> QED BY <1>1, Inductive, PTL

\* No refresh token is replaced twice, a live session bears the last token of its family,
\* and a code is accepted, changes a password and opens a session at most once each,
\* however its handlers overlap, fail and give back what they have claimed.
THEOREM SpentOnceAlways == Spec => []SpentOnce
<1>1. IInv => SpentOnce
  <2> SUFFICES ASSUME IInv PROVE SpentOnce OBVIOUS
  <2>1. ASSUME NEW s \in DOMAIN sessions
        PROVE  LET own == {t \in DOMAIN tokens : tokens[t].session = s}
               IN  sessions[s].token = Max(own) /\ sessions[s].version = Cardinality(own)
    <3>1. Bears(s) BY DEF IInv, LastTokens
    <3>2. Family(s) \subseteq Nat
      BY LenProperties DEF IInv, Shape, Family
    <3>3. \A x \in Family(s) : (\A y \in Family(s) : x >= y) => x = sessions[s].token
      BY <3>1, <3>2 DEF Bears
    <3>4. sessions[s].token \in Family(s) /\ \A y \in Family(s) : sessions[s].token >= y
      BY <3>1, <3>2 DEF Bears
    <3>5. Max(Family(s)) = sessions[s].token BY <3>3, <3>4 DEF Max
    <3> QED BY <3>1, <3>5 DEF Bears, Family
  <2>2. OneSuccessor BY <2>1 DEF OneSuccessor, IInv, LastTokens
  <2> QED BY <2>2 DEF SpentOnce, IInv, SpentCode
<1> QED BY <1>1, Inductive, PTL

\* Unless a handler died before it revoked them, no session outlives the password it was
\* opened under once the change has run to its end.
THEOREM OldSessionsAlwaysEnd == Spec => []OldSessionsEnd
<1>1. IInv => OldSessionsEnd BY DEF IInv
<1> QED BY <1>1, Inductive, PTL
=============================================================================
