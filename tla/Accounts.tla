------------------------------ MODULE Accounts ------------------------------
(***************************************************************************)
(* One user account, as the auth service (apps/auth-service) and the user  *)
(* service (apps/user-service) change it.  Accounts share no row, so the   *)
(* module describes one.  One action is one awaited statement; a           *)
(* $transaction is one action.  Both services read the row first and write *)
(* it by its id later, whatever it holds by then.                          *)
(***************************************************************************)
EXTENDS Integers, Sequences

CONSTANTS
    Passwords,
    Roles,
    Operator,     \* RoleEnum.OPERATOR, the role of who asks for none
    Sessions,     \* bound: how many sessions rows can be created
    Tokens,       \* bound: how many reset and verification tokens can be created
    Workers,      \* bound: how many HTTP calls may be in flight
    MaxAttempts,  \* MAX_FAILED_LOGIN_ATTEMPTS
    HistoryLimit, \* PASSWORD_HISTORY_LIMIT
    MaxHistory,   \* bound: the password changes of a behaviour
    MaxFailures,  \* bound: no login reads more failed attempts than that
    MayFail,      \* whether an awaited statement may reject after the first one
    None

ASSUME AccountsAssumption ==
    /\ Operator \in Roles
    /\ MaxAttempts \in Nat \ {0}
    /\ HistoryLimit \in Nat
    /\ MaxHistory \in Nat
    /\ MaxFailures \in Nat
    /\ MayFail \in BOOLEAN
    /\ None \notin Passwords \cup Sessions \cup Tokens
    /\ "create" \notin Tokens /\ "change" \notin Tokens

VARIABLES
    account,     \* the row of users, with the roles user_roles gives it
    histories,   \* password_histories, oldest first
    session,     \* sessions: what each row says, None before it is created
    revokedKeys, \* Redis: the sessions with a key revoked_session:<id>
    token,       \* password_reset_tokens and verification_tokens
    task,        \* the call each worker is running
    mailed       \* the tokens sent on vis.user.registered, .forgot_password, ...

vars == <<account, histories, session, revokedKeys, token, task, mailed>>

CallNames == {"register", "createUser", "login", "logout", "refresh", "change",
              "forgot", "reset", "verify", "resend", "update", "delete"}

UserStatus == {"ACTIVE", "INACTIVE", "SUSPENDED", "LOCKED"}

\* until is accountLockedUntil, compared with the clock.
User == [status : UserStatus, deleted : BOOLEAN, verified : BOOLEAN,
         hash : Passwords, attempts : Nat, until : {"NONE", "FUTURE", "PAST"},
         roles : SUBSET Roles]

\* keyed: an access token that names the session has been issued.
SessionRow == [revoked : BOOLEAN, expired : BOOLEAN, keyed : BOOLEAN]

ASSUME NoneAssumption == None \notin User /\ None \notin SessionRow

\* SPENT: the row was deleted; LAPSED: its expiresAt has passed.
TokenState == {"ABSENT", "RESET", "VERIFY", "LAPSED", "SPENT"}

\* A password history row; by tells apart the calls that write one.
HistoryRow == [hash : Passwords, by : {"create", "change"} \cup Tokens]

\* A call in flight: "at" is its next awaited statement, the rest what it has
\* read or was given.  Fields a call does not use hold a default.
Task == [call : CallNames,
         at : {"create", "token", "emit", "unlock", "count", "clear", "session",
               "one", "key", "all", "rotate", "commit", "drop", "add", "write",
               "mark", "revoke"},
         pw : Passwords \cup {None},        \* the password given
         good : BOOLEAN,                    \* login: it matched the hash read
         attempts : Nat,                    \* login: failedLoginAttempts read
         ref : Sessions \cup Tokens \cup {None},
         status : UserStatus \cup {None},   \* updateUser: dto.status
         roles : SUBSET Roles]              \* updateUser: dto.roles

TypeOK ==
    /\ account \in User \cup {None}
    /\ histories \in Seq(HistoryRow)
    /\ session \in [Sessions -> SessionRow \cup {None}]
    /\ revokedKeys \subseteq Sessions
    /\ token \in [Tokens -> TokenState]
    /\ task \in [Workers -> Task \cup {None}]
    /\ mailed \subseteq Tokens

Init ==
    /\ account = None
    /\ histories = <<>>
    /\ session = [s \in Sessions |-> None]
    /\ revokedKeys = {}
    /\ token = [t \in Tokens |-> "ABSENT"]
    /\ task = [w \in Workers |-> None]
    /\ mailed = {}

-----------------------------------------------------------------------------
\* How a call starts and goes on

Exists == account # None
Alive == Exists /\ ~account.deleted

NewTask(call, at) ==
    [call |-> call, at |-> at, pw |-> None, good |-> FALSE, attempts |-> 0,
     ref |-> None, status |-> None, roles |-> {}]

Start(w, t) ==
    /\ task[w] = None
    /\ task' = [task EXCEPT ![w] = t]
    /\ UNCHANGED <<account, histories, session, revokedKeys, token, mailed>>

Running(w, at) == task[w] # None /\ task[w].at = at
Continue(w, at) == task' = [task EXCEPT ![w].at = at]
Finish(w) == task' = [task EXCEPT ![w] = None]

-----------------------------------------------------------------------------
\* register and createUser: the lookup finds nobody, and the columns are unique

StartCreate(w, call, pw, R) ==
    /\ ~Exists
    /\ Start(w, [NewTask(call, "create") EXCEPT !.pw = pw, !.roles = R])

CreateUser(w) ==
    /\ Running(w, "create")
    /\ IF Exists
       THEN Finish(w) /\ UNCHANGED <<account, histories>>
       ELSE /\ account' = [status |-> "ACTIVE", deleted |-> FALSE,
                           verified |-> (task[w].call = "createUser"),
                           hash |-> task[w].pw, attempts |-> 0, until |-> "NONE",
                           roles |-> task[w].roles]
            /\ histories' = <<[hash |-> task[w].pw, by |-> "create"]>>
            /\ IF task[w].call = "register" THEN Continue(w, "token") ELSE Finish(w)
    /\ UNCHANGED <<session, revokedKeys, token, mailed>>

-----------------------------------------------------------------------------
\* login

LockedOut == account.status \in {"LOCKED", "SUSPENDED"} /\ account.until = "FUTURE"
LockLapsed == account.status \in {"LOCKED", "SUSPENDED"} /\ account.until = "PAST"

AfterLock(good) == IF good THEN "clear" ELSE "count"

StartLogin(w, pw) ==
    /\ Alive
    /\ ~LockedOut
    /\ account.attempts < MaxFailures
    /\ Start(w, [NewTask("login", IF LockLapsed THEN "unlock"
                                  ELSE AfterLock(pw = account.hash))
                    EXCEPT !.good = (pw = account.hash), !.attempts = account.attempts])

Unlock(w) ==
    /\ Running(w, "unlock")
    /\ account' = [account EXCEPT !.status = "ACTIVE", !.attempts = 0, !.until = "NONE"]
    /\ Continue(w, AfterLock(task[w].good))
    /\ UNCHANGED <<histories, session, revokedKeys, token, mailed>>

\* A wrong password: the count goes on from the one this call has read, also
\* when the call itself has just cleared it.
CountFailure(w) ==
    /\ Running(w, "count")
    /\ LET n == task[w].attempts + 1 IN
       account' = IF n >= MaxAttempts
                  THEN [account EXCEPT !.attempts = n, !.status = "LOCKED",
                                       !.until = "FUTURE"]
                  ELSE [account EXCEPT !.attempts = n]
    /\ Finish(w)
    /\ UNCHANGED <<histories, session, revokedKeys, token, mailed>>

ClearFailures(w) ==
    /\ Running(w, "clear")
    /\ account' = [account EXCEPT !.attempts = 0, !.until = "NONE"]
    /\ Continue(w, "session")
    /\ UNCHANGED <<histories, session, revokedKeys, token, mailed>>

CreateSession(w, s) ==
    /\ Running(w, "session")
    /\ session[s] = None
    /\ session' = [session EXCEPT ![s] =
                      [revoked |-> FALSE, expired |-> FALSE, keyed |-> FALSE]]
    /\ Finish(w)
    /\ UNCHANGED <<account, histories, revokedKeys, token, mailed>>

-----------------------------------------------------------------------------
\* logout and refreshTokens.  The access token of a login names no session, that
\* of a refresh does: JwtStrategy.validate refuses it when Redis has the key.

Admitted(s) == session[s] # None /\ session[s].keyed /\ s \notin revokedKeys
LoggedIn == \E s \in Sessions : session[s] # None

StartLogoutAll(w) == LoggedIn /\ Start(w, NewTask("logout", "all"))

\* Mutant: Postgres is left alone
StartLogoutOne_KeyOnly(w, s) ==
    /\ Admitted(s)
    /\ Start(w, [NewTask("logout", "key") EXCEPT !.ref = s])
StartLogoutOne(w, s) ==
    /\ Admitted(s)
    /\ Start(w, [NewTask("logout", "one") EXCEPT !.ref = s])

\* session.updateMany of the rows in S
RevokeRows(S) ==
    session' = [s \in Sessions |->
                   IF s \in S /\ session[s] # None
                   THEN [session[s] EXCEPT !.revoked = TRUE] ELSE session[s]]

RevokeOne(w) ==
    /\ Running(w, "one")
    /\ RevokeRows({task[w].ref})
    /\ Continue(w, "key")
    /\ UNCHANGED <<account, histories, revokedKeys, token, mailed>>

SetRevokedKey(w) ==
    /\ Running(w, "key")
    /\ revokedKeys' = revokedKeys \cup {task[w].ref}
    /\ Finish(w)
    /\ UNCHANGED <<account, histories, session, token, mailed>>

RevokeAll(w) ==
    /\ Running(w, "all")
    /\ RevokeRows(Sessions)
    /\ Finish(w)
    /\ UNCHANGED <<account, histories, revokedKeys, token, mailed>>

StartRefresh(w, s) ==
    /\ session[s] # None
    /\ ~session[s].revoked /\ ~session[s].expired
    /\ Start(w, [NewTask("refresh", "rotate") EXCEPT !.ref = s])

\* The new hash is written by the session's id, revoked or not; revokedAt stays.
\* Mutant: the row is written as a new one
RotateToken_Renew(w) ==
    /\ Running(w, "rotate")
    /\ session' = [session EXCEPT ![task[w].ref] =
                      [revoked |-> FALSE, expired |-> FALSE, keyed |-> TRUE]]
    /\ Finish(w)
    /\ UNCHANGED <<account, histories, revokedKeys, token, mailed>>
RotateToken(w) ==
    /\ Running(w, "rotate")
    /\ session' = [session EXCEPT ![task[w].ref].keyed = TRUE]
    /\ Finish(w)
    /\ UNCHANGED <<account, histories, revokedKeys, token, mailed>>

-----------------------------------------------------------------------------
\* Passwords and mailed tokens

Recent == {histories[i].hash : i \in (Len(histories) - HistoryLimit + 1) .. Len(histories)
                                       \cap DOMAIN histories}

StartChange(w, pw) ==
    /\ Exists /\ LoggedIn
    /\ Len(histories) < MaxHistory
    /\ pw \notin Recent
    /\ Start(w, [NewTask("change", "commit") EXCEPT !.pw = pw])

StartReset(w, t, pw) ==
    /\ Exists
    /\ token[t] = "RESET"
    /\ Len(histories) < MaxHistory
    /\ Start(w, [NewTask("reset", "commit") EXCEPT !.pw = pw, !.ref = t])

StartVerify(w, t) ==
    /\ token[t] = "VERIFY"
    /\ Start(w, [NewTask("verify", "commit") EXCEPT !.ref = t])

StartForgot(w) == Exists /\ Start(w, NewTask("forgot", "token"))
StartResend(w) == Exists /\ ~account.verified /\ Start(w, NewTask("resend", "token"))

CreateToken(w, t) ==
    /\ Running(w, "token")
    /\ token[t] = "ABSENT"
    /\ token' = [token EXCEPT ![t] = IF task[w].call = "forgot" THEN "RESET" ELSE "VERIFY"]
    /\ task' = [task EXCEPT ![w].at = "emit", ![w].ref = t]
    /\ UNCHANGED <<account, histories, session, revokedKeys, mailed>>

EmitToken(w) ==
    /\ Running(w, "emit")
    /\ mailed' = mailed \cup {task[w].ref}
    /\ Finish(w)
    /\ UNCHANGED <<account, histories, session, revokedKeys, token>>

AddHistory(pw, by) == histories' = Append(histories, [hash |-> pw, by |-> by])

CommitChange(w) ==
    /\ Running(w, "commit") /\ task[w].call = "change"
    /\ account' = [account EXCEPT !.hash = task[w].pw]
    /\ AddHistory(task[w].pw, "change")
    /\ Finish(w)
    /\ UNCHANGED <<session, revokedKeys, token, mailed>>

\* passwordResetToken.delete rejects, and with it the transaction, when another
\* call has deleted the row.
\* Mutant: deleteMany, which does not mind
Unspent_Any(t) == TRUE
Unspent(t) == token[t] # "SPENT"

CommitReset(w) ==
    /\ Running(w, "commit") /\ task[w].call = "reset"
    /\ IF Unspent(task[w].ref)
       THEN /\ account' = [account EXCEPT !.hash = task[w].pw, !.attempts = 0,
                                          !.status = "ACTIVE"]
            /\ token' = [token EXCEPT ![task[w].ref] = "SPENT"]
            /\ AddHistory(task[w].pw, task[w].ref)
       ELSE UNCHANGED <<account, token, histories>>
    /\ Finish(w)
    /\ UNCHANGED <<session, revokedKeys, mailed>>

CommitVerify(w) ==
    /\ Running(w, "commit") /\ task[w].call = "verify"
    /\ IF Unspent(task[w].ref)
       THEN /\ account' = [account EXCEPT !.verified = TRUE]
            /\ token' = [token EXCEPT ![task[w].ref] = "SPENT"]
       ELSE UNCHANGED <<account, token>>
    /\ Finish(w)
    /\ UNCHANGED <<histories, session, revokedKeys, mailed>>

-----------------------------------------------------------------------------
\* updateUser and deleteUser

StartUpdate(w, st, R) ==
    /\ Alive
    /\ Start(w, [NewTask("update", IF R = {} THEN "write" ELSE "drop")
                    EXCEPT !.status = st, !.roles = R])

DropRoles(w) ==
    /\ Running(w, "drop")
    /\ account' = [account EXCEPT !.roles = {}]
    /\ Continue(w, "add")
    /\ UNCHANGED <<histories, session, revokedKeys, token, mailed>>

\* createMany rejects when a row is there: (userId, roleId) is the primary key.
AddRoles(w) ==
    /\ Running(w, "add")
    /\ IF task[w].roles \cap account.roles = {}
       THEN /\ account' = [account EXCEPT !.roles = @ \cup task[w].roles]
            /\ Continue(w, "write")
       ELSE Finish(w) /\ UNCHANGED account
    /\ UNCHANGED <<histories, session, revokedKeys, token, mailed>>

WriteUser(w) ==
    /\ Running(w, "write")
    /\ account' = [account EXCEPT !.status =
                      IF task[w].status = None THEN @ ELSE task[w].status]
    /\ Finish(w)
    /\ UNCHANGED <<histories, session, revokedKeys, token, mailed>>

StartDelete(w) == Alive /\ Start(w, NewTask("delete", "mark"))

MarkDeleted(w) ==
    /\ Running(w, "mark")
    /\ account' = [account EXCEPT !.deleted = TRUE, !.status = "SUSPENDED"]
    /\ Continue(w, "revoke")
    /\ UNCHANGED <<histories, session, revokedKeys, token, mailed>>

RevokeSessions(w) ==
    /\ Running(w, "revoke")
    /\ RevokeRows(Sessions)
    /\ Finish(w)
    /\ UNCHANGED <<account, histories, revokedKeys, token, mailed>>

-----------------------------------------------------------------------------
\* The next awaited statement rejects, or the process dies: nothing is undone.
Abort(w) ==
    /\ MayFail
    /\ task[w] # None
    /\ Finish(w)
    /\ UNCHANGED <<account, histories, session, revokedKeys, token, mailed>>

\* Thirty minutes, an hour or a day, or seven days pass.
LapseLock ==
    /\ Exists /\ account.until = "FUTURE"
    /\ account' = [account EXCEPT !.until = "PAST"]
    /\ UNCHANGED <<histories, session, revokedKeys, token, task, mailed>>

LapseToken(t) ==
    /\ token[t] \in {"RESET", "VERIFY"}
    /\ token' = [token EXCEPT ![t] = "LAPSED"]
    /\ UNCHANGED <<account, histories, session, revokedKeys, task, mailed>>

ExpireSession(s) ==
    /\ session[s] # None /\ ~session[s].expired
    /\ session' = [session EXCEPT ![s].expired = TRUE]
    /\ UNCHANGED <<account, histories, revokedKeys, token, task, mailed>>

AuthCall(w) ==
    \/ \E pw \in Passwords :
          \/ StartCreate(w, "register", pw, {Operator})
          \/ StartLogin(w, pw) \/ StartChange(w, pw)
          \/ \E t \in Tokens : StartReset(w, t, pw)
    \/ StartLogoutAll(w) \/ StartForgot(w) \/ StartResend(w)
    \/ \E s \in Sessions : StartLogoutOne(w, s) \/ StartRefresh(w, s)
    \/ \E t \in Tokens : StartVerify(w, t)

UserCall(w) ==
    \/ \E pw \in Passwords, R \in (SUBSET Roles) \ {{}} : StartCreate(w, "createUser", pw, R)
    \/ \E st \in UserStatus \cup {None}, R \in SUBSET Roles : StartUpdate(w, st, R)
    \/ StartDelete(w)

TaskStep(w) ==
    \/ CreateUser(w) \/ Unlock(w) \/ CountFailure(w) \/ ClearFailures(w)
    \/ \E s \in Sessions : CreateSession(w, s)
    \/ RevokeOne(w) \/ SetRevokedKey(w) \/ RevokeAll(w) \/ RotateToken(w)
    \/ \E t \in Tokens : CreateToken(w, t)
    \/ EmitToken(w) \/ CommitChange(w) \/ CommitReset(w) \/ CommitVerify(w)
    \/ DropRoles(w) \/ AddRoles(w) \/ WriteUser(w)
    \/ MarkDeleted(w) \/ RevokeSessions(w)

Lapse ==
    \/ LapseLock
    \/ \E t \in Tokens : LapseToken(t)
    \/ \E s \in Sessions : ExpireSession(s)

Advance ==
    \/ \E w \in Workers : AuthCall(w) \/ UserCall(w) \/ TaskStep(w)
    \/ Lapse

Next == Advance \/ \E w \in Workers : Abort(w)

Spec == Init /\ [][Next]_vars
-----------------------------------------------------------------------------
\* Properties of all interleavings

\* The password of the account is the newest in its history, and a mailed reset
\* token changes it once, also when two resetPassword calls have both read it.
PasswordIsRecorded ==
    /\ Exists => /\ histories # <<>>
                 /\ account.hash = histories[Len(histories)].hash
    /\ \A i, j \in DOMAIN histories :
          histories[i].by \in Tokens /\ histories[i].by = histories[j].by => i = j

\* A session blacklisted in Redis is revoked in Postgres too, and a mailed token
\* is in its table.
RevocationIsRecorded ==
    /\ \A s \in revokedKeys : session[s] # None /\ session[s].revoked
    /\ \A t \in mailed : token[t] # "ABSENT"

NoLogin == \A w \in Workers : task[w] # None => task[w].call # "login"

\* A revoked session stays revoked, whatever refresh is in flight; and a deleted
\* account, once the logins in flight have ended, gets no session any more, even
\* when resetPassword or updateUser makes it ACTIVE again.
RevokedStaysOut ==
    [][/\ \A s \in Sessions : session[s] # None /\ session[s].revoked =>
             session'[s] # None /\ session'[s].revoked
       /\ Exists /\ account.deleted /\ NoLogin =>
             /\ account'.deleted /\ NoLogin'
             /\ \A s \in Sessions : session[s] = None => session'[s] = None]_vars

-----------------------------------------------------------------------------
\* Properties of calls that neither overlap nor fail.  Two workers violate each
\* of them (see the README).

Quiet == \A w \in Workers : task[w] = None

\* "Soft delete user account & revoke sessions", users.controller.ts:96.
DeletedHasNoSession ==
    Exists /\ account.deleted /\ Quiet =>
        \A s \in Sessions : session[s] # None => session[s].revoked

\* updateUser replaces the roles: it leaves a user some.
RolesAreKept == Exists /\ Quiet => account.roles # {}

\* Without an administrator's updateUser, an account is LOCKED only after
\* MaxAttempts wrong passwords, and the lock has an end.
LockHasReason ==
    Exists /\ account.status = "LOCKED" =>
        account.attempts >= MaxAttempts /\ account.until # "NONE"

\* While the account is locked out no login is under way, and while a session is
\* revoked no refresh of it.
RefusedStaysOut ==
    /\ Exists /\ LockedOut => NoLogin
    /\ \A w \in Workers : task[w] # None /\ task[w].call = "refresh" =>
          ~session[task[w].ref].revoked
=============================================================================
