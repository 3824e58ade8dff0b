--------------------------- MODULE AccountsProofs ---------------------------
(***************************************************************************)
(* Theorems about Accounts, for every set of passwords, roles, sessions,   *)
(* tokens and calls in flight, with and without failures.                  *)
(***************************************************************************)
EXTENDS Accounts, TLAPS

\* A call awaits the statements of its handler and no others.
Stages ==
    ({"register", "createUser"} \X {"create"})
        \cup ({"register", "forgot", "resend"} \X {"token", "emit"})
        \cup ({"login"} \X {"unlock", "count", "clear", "session"})
        \cup ({"logout"} \X {"one", "key", "all"})
        \cup ({"refresh"} \X {"rotate"})
        \cup ({"change", "reset", "verify"} \X {"commit"})
        \cup ({"update"} \X {"drop", "add", "write"})
        \cup ({"delete"} \X {"mark", "revoke"})

\* What a call in flight has read is still there: accounts, sessions and tokens
\* are marked, never removed.  Only a session that is revoked gets a key in Redis.
ShapeOf(t) ==
    /\ <<t.call, t.at>> \in Stages
    /\ t.call \notin {"logout", "refresh"} /\ t.at # "create" => Exists
    /\ t.at = "create" => t.pw \in Passwords
    /\ t.at \in {"one", "key", "rotate"} => t.ref \in Sessions /\ session[t.ref] # None
    /\ t.at = "key" => session[t.ref].revoked
    /\ t.call \in {"change", "reset"} => t.pw \in Passwords
    /\ t.call \in {"reset", "verify"} \/ t.at = "emit" =>
          t.ref \in Tokens /\ token[t.ref] # "ABSENT"

Shape == \A w \in Workers : task[w] # None => ShapeOf(task[w])

\* Tokens belong to an account.
Owned == \A t \in Tokens : token[t] # "ABSENT" => Exists

TypeInv == TypeOK /\ Shape /\ Owned

Alone(w) == \A x \in Workers \ {w} : task'[x] = task[x]

LEMMA TaskShape ==
    ASSUME TypeInv, NEW w \in Workers, task[w] # None
    PROVE  task[w] \in Task /\ ShapeOf(task[w])
  BY DEF TypeInv, TypeOK, Shape

LEMMA ContinueShape ==
    ASSUME TypeInv, NEW w \in Workers, task[w] # None,
           NEW at \in {"create", "token", "emit", "unlock", "count", "clear", "session", "one",
                       "key", "all", "rotate", "commit", "drop", "add", "write", "mark", "revoke"},
           Continue(w, at)
    PROVE  /\ task' \in [Workers -> Task \cup {None}]
           /\ task'[w] = [task[w] EXCEPT !.at = at]
           /\ task'[w].call = task[w].call
           /\ task'[w].at = at
           /\ task'[w].pw = task[w].pw
           /\ task'[w].ref = task[w].ref
           /\ Alone(w)
<1>1. task[w] \in Task /\ task \in [Workers -> Task \cup {None}]
  BY TaskShape DEF TypeInv, TypeOK
<1>2. task'[w] = [task[w] EXCEPT !.at = at] /\ Alone(w)
  BY <1>1 DEF Continue, Alone
<1>3. [task[w] EXCEPT !.at = at] \in Task
  BY <1>1 DEF Task
<1>4. task' \in [Workers -> Task \cup {None}]
  BY <1>1, <1>3 DEF Continue
<1>5. QED
  BY <1>1, <1>2, <1>4 DEF Task

LEMMA FinishShape ==
    ASSUME TypeInv, NEW w \in Workers, Finish(w)
    PROVE  /\ task' \in [Workers -> Task \cup {None}]
           /\ task'[w] = None
           /\ Alone(w)
  BY DEF TypeInv, TypeOK, Finish, Alone

\* What every call does first: it begins a task and writes nothing.
Begins(w) ==
    \E t \in Task :
        /\ Start(w, t)
        /\ ShapeOf(t)
        /\ t.call = "login" => Alive

LEMMA NewTaskType ==
    ASSUME NEW call \in CallNames,
           NEW at \in {"create", "token", "emit", "unlock", "count", "clear", "session", "one",
                       "key", "all", "rotate", "commit", "drop", "add", "write", "mark", "revoke"}
    PROVE  /\ NewTask(call, at) \in Task
           /\ NewTask(call, at).call = call
           /\ NewTask(call, at).at = at
  BY DEF NewTask, Task

LEMMA AuthBegins ==
    ASSUME TypeInv, NEW w \in Workers, AuthCall(w)
    PROVE  Begins(w)
<1> USE AccountsAssumption DEF CallNames
<1>0. TypeOK
  BY DEF TypeInv
<1>1. ASSUME NEW pw \in Passwords, NEW call \in {"register", "createUser"},
             NEW R \in SUBSET Roles, StartCreate(w, call, pw, R)
      PROVE  Begins(w)
  <2> DEFINE t == [NewTask(call, "create") EXCEPT !.pw = pw, !.roles = R]
  <2>1. t \in Task /\ ShapeOf(t) /\ t.call = call
    BY DEF NewTask, Task, ShapeOf, Stages
  <2>2. QED
    BY <1>1, <2>1 DEF StartCreate, Begins
<1>2. ASSUME NEW pw \in Passwords, StartLogin(w, pw) PROVE Begins(w)
  <2> DEFINE at == IF LockLapsed THEN "unlock" ELSE AfterLock(pw = account.hash)
             t == [NewTask("login", at)
                     EXCEPT !.good = (pw = account.hash), !.attempts = account.attempts]
  <2>1. at \in {"unlock", "count", "clear"} /\ account.attempts \in Nat /\ Alive
        /\ (pw = account.hash) \in BOOLEAN
    BY <1>0, <1>2 DEF StartLogin, AfterLock, Alive, Exists, TypeOK, User
  <2>2. t \in Task /\ ShapeOf(t)
    <3> HIDE DEF at
    <3>1. QED
      BY <2>1 DEF NewTask, Task, ShapeOf, Stages, Alive
  <2>3. QED
    BY <1>2, <2>1, <2>2 DEF StartLogin, Begins
<1>3. ASSUME NEW pw \in Passwords, StartChange(w, pw) PROVE Begins(w)
  <2> DEFINE t == [NewTask("change", "commit") EXCEPT !.pw = pw]
  <2>1. t \in Task /\ ShapeOf(t) /\ t.call = "change"
    BY <1>3 DEF StartChange, NewTask, Task, ShapeOf, Stages
  <2>2. QED
    BY <1>3, <2>1 DEF StartChange, Begins
<1>4. ASSUME NEW tok \in Tokens, NEW pw \in Passwords, StartReset(w, tok, pw) PROVE Begins(w)
  <2> DEFINE t == [NewTask("reset", "commit") EXCEPT !.pw = pw, !.ref = tok]
  <2>1. t \in Task /\ ShapeOf(t) /\ t.call = "reset"
    BY <1>4 DEF StartReset, NewTask, Task, ShapeOf, Stages
  <2>2. QED
    BY <1>4, <2>1 DEF StartReset, Begins
<1>5. ASSUME StartLogoutAll(w) PROVE Begins(w)
  <2>1. NewTask("logout", "all") \in Task /\ ShapeOf(NewTask("logout", "all"))
    BY DEF NewTask, Task, ShapeOf, Stages
  <2>2. QED
    BY <1>5, <2>1 DEF StartLogoutAll, Begins, NewTask
<1>6. ASSUME NEW call \in {"forgot", "resend"}, Exists, Start(w, NewTask(call, "token"))
      PROVE  Begins(w)
  <2>1. NewTask(call, "token") \in Task /\ ShapeOf(NewTask(call, "token"))
        /\ NewTask(call, "token").call # "login"
    BY <1>6 DEF NewTask, Task, ShapeOf, Stages
  <2>2. QED
    BY <1>6, <2>1 DEF Begins
<1>7. ASSUME NEW s \in Sessions, StartLogoutOne(w, s) PROVE Begins(w)
  <2> DEFINE t == [NewTask("logout", "one") EXCEPT !.ref = s]
  <2>1. t \in Task /\ ShapeOf(t) /\ t.call = "logout"
    BY <1>7 DEF StartLogoutOne, Admitted, NewTask, Task, ShapeOf, Stages
  <2>2. QED
    BY <1>7, <2>1 DEF StartLogoutOne, Begins
<1>8. ASSUME NEW s \in Sessions, StartRefresh(w, s) PROVE Begins(w)
  <2> DEFINE t == [NewTask("refresh", "rotate") EXCEPT !.ref = s]
  <2>1. t \in Task /\ ShapeOf(t) /\ t.call = "refresh"
    BY <1>8 DEF StartRefresh, NewTask, Task, ShapeOf, Stages
  <2>2. QED
    BY <1>8, <2>1 DEF StartRefresh, Begins
<1>9. ASSUME NEW tok \in Tokens, StartVerify(w, tok) PROVE Begins(w)
  <2> DEFINE t == [NewTask("verify", "commit") EXCEPT !.ref = tok]
  <2>1. t \in Task /\ ShapeOf(t) /\ t.call = "verify"
    BY <1>9 DEF StartVerify, NewTask, Task, ShapeOf, Stages, TypeInv, Owned
  <2>2. QED
    BY <1>9, <2>1 DEF StartVerify, Begins
<1>10. {Operator} \in SUBSET Roles
  OBVIOUS
<1>11. QED
  BY <1>1, <1>2, <1>3, <1>4, <1>5, <1>6, <1>7, <1>8, <1>9, <1>10
     DEF AuthCall, StartForgot, StartResend

LEMMA UserBegins ==
    ASSUME TypeInv, NEW w \in Workers, UserCall(w)
    PROVE  Begins(w)
<1> USE DEF CallNames
<1>1. ASSUME NEW pw \in Passwords, NEW R \in SUBSET Roles, StartCreate(w, "createUser", pw, R)
      PROVE  Begins(w)
  <2> DEFINE t == [NewTask("createUser", "create") EXCEPT !.pw = pw, !.roles = R]
  <2>1. t \in Task /\ ShapeOf(t) /\ t.call = "createUser"
    BY DEF NewTask, Task, ShapeOf, Stages
  <2>2. QED
    BY <1>1, <2>1 DEF StartCreate, Begins
<1>2. ASSUME NEW st \in UserStatus \cup {None}, NEW R \in SUBSET Roles, StartUpdate(w, st, R)
      PROVE  Begins(w)
  <2> DEFINE at == IF R = {} THEN "write" ELSE "drop"
             t == [NewTask("update", at) EXCEPT !.status = st, !.roles = R]
  <2>1. at \in {"write", "drop"} /\ Exists
    BY <1>2 DEF StartUpdate, Alive
  <2>2. t \in Task /\ ShapeOf(t) /\ t.call = "update"
    <3> HIDE DEF at
    <3>1. QED
      BY <2>1 DEF NewTask, Task, ShapeOf, Stages
  <2>3. QED
    BY <1>2, <2>2 DEF StartUpdate, Begins
<1>3. ASSUME StartDelete(w) PROVE Begins(w)
  <2>1. NewTask("delete", "mark") \in Task /\ ShapeOf(NewTask("delete", "mark"))
        /\ NewTask("delete", "mark").call = "delete"
    BY <1>3 DEF StartDelete, Alive, NewTask, Task, ShapeOf, Stages
  <2>2. QED
    BY <1>3, <2>1 DEF StartDelete, Begins
<1>4. QED
  BY <1>1, <1>2, <1>3 DEF UserCall

-----------------------------------------------------------------------------
\* What one step does to the rows: they are marked and rewritten, never removed.

Later ==
    /\ Exists => Exists'
    /\ \A s \in Sessions : session[s] # None =>
          session'[s] # None /\ (session[s].revoked => session'[s].revoked)
    /\ \A t \in Tokens : /\ token[t] # "ABSENT" => token'[t] # "ABSENT"
                         /\ token[t] = "SPENT" => token'[t] = "SPENT"

\* The account's row after one of its columns is written
LEMMA AccountType ==
    ASSUME TypeOK, Exists
    PROVE  account \in User
  BY DEF TypeOK, Exists

\* The rows as updateMany leaves them
LEMMA RevokeType ==
    ASSUME TypeOK, NEW S, RevokeRows(S)
    PROVE  /\ session' \in [Sessions -> SessionRow \cup {None}]
           /\ \A s \in Sessions :
                 /\ session'[s] = None <=> session[s] = None
                 /\ session[s] # None =>
                       /\ session[s].revoked => session'[s].revoked
                       /\ s \in S => session'[s].revoked
<1>1. ASSUME NEW s \in Sessions, session[s] # None, s \in S
      PROVE  session'[s] \in SessionRow /\ session'[s] # None /\ session'[s].revoked
  <2>1. session[s] \in SessionRow
    BY <1>1 DEF TypeOK
  <2>2. session'[s] = [session[s] EXCEPT !.revoked = TRUE]
    BY <1>1 DEF RevokeRows
  <2>3. QED
    BY <2>1, <2>2, NoneAssumption DEF SessionRow
<1>2. ASSUME NEW s \in Sessions, ~(session[s] # None /\ s \in S)
      PROVE  session'[s] = session[s]
  BY <1>2 DEF RevokeRows
<1>3. session' \in [Sessions -> SessionRow \cup {None}]
  BY <1>1, <1>2 DEF RevokeRows, TypeOK
<1>4. QED
  BY <1>1, <1>2, <1>3

Untouched == UNCHANGED <<account, histories, session, revokedKeys, token, mailed>>

\* A step of a call in flight: the types, the rows, and how the call goes on.
StepIsSound(w) ==
    /\ TypeOK'
    /\ Later
    /\ Alone(w)
    /\ Owned'
    /\ \/ task'[w] = None
       \/ /\ task'[w].call = task[w].call
          /\ ShapeOf(task[w])'

\* A statement that writes only the account's row, and keeps it one
LEMMA AccountWritten ==
    ASSUME TypeInv, NEW w \in Workers, task[w] # None, Exists, account' \in User,
           UNCHANGED <<histories, session, revokedKeys, token, mailed>>,
           \/ Finish(w)
           \/ \E at \in {"count", "clear", "session", "add", "write", "revoke"} :
                 /\ Continue(w, at)
                 /\ <<task[w].call, at>> \in Stages
                 /\ task[w].call \in {"login", "update", "delete"}
    PROVE  StepIsSound(w)
<1>1. Exists' /\ account' \in User \cup {None}
  BY NoneAssumption DEF Exists
<1>2. task' \in [Workers -> Task \cup {None}] /\ Alone(w)
  BY ContinueShape, FinishShape
<1>3. task'[w] = None \/ (task'[w].call = task[w].call /\ ShapeOf(task[w])')
  <2>1. ASSUME NEW at \in {"count", "clear", "session", "add", "write", "revoke"},
               Continue(w, at), <<task[w].call, at>> \in Stages,
               task[w].call \in {"login", "update", "delete"}
        PROVE  task'[w].call = task[w].call /\ ShapeOf(task[w])'
    <3>1. task'[w].call = task[w].call /\ task'[w].at = at
      BY <2>1, ContinueShape
    <3>2. QED
      BY <1>1, <2>1, <3>1 DEF ShapeOf
  <2>2. QED
    BY <2>1, FinishShape
<1>4. Later
  BY <1>1 DEF Later
<1>5. QED
  BY <1>1, <1>2, <1>3, <1>4 DEF StepIsSound, TypeInv, TypeOK, Owned

LEMMA LoginStep ==
    ASSUME TypeInv, NEW w \in Workers,
           Unlock(w) \/ CountFailure(w) \/ ClearFailures(w) \/ DropRoles(w) \/ AddRoles(w)
              \/ WriteUser(w) \/ MarkDeleted(w)
    PROVE  StepIsSound(w)
<1> USE AccountsAssumption
<1>1. task[w] # None /\ task[w] \in Task /\ ShapeOf(task[w]) /\ TypeOK
  BY TaskShape DEF Unlock, CountFailure, ClearFailures, DropRoles, AddRoles, WriteUser,
                   MarkDeleted, Running, TypeInv
<1>2. Exists /\ account \in User
  BY <1>1, AccountType DEF Unlock, CountFailure, ClearFailures, DropRoles, AddRoles, WriteUser,
                   MarkDeleted, Running, ShapeOf, Stages
<1>3. CASE Unlock(w)
  <2>1. account' \in User
    BY <1>2, <1>3 DEF Unlock, User, UserStatus
  <2>2. task[w].call = "login" /\ AfterLock(task[w].good) \in {"clear", "count"}
    BY <1>1, <1>3 DEF Unlock, Running, ShapeOf, Stages, AfterLock
  <2>3. <<"login", AfterLock(task[w].good)>> \in Stages
    BY <2>2 DEF Stages
  <2>4. QED
    BY <1>1, <1>2, <1>3, <2>1, <2>2, <2>3, AccountWritten DEF Unlock
<1>4. CASE CountFailure(w)
  <2>1. task[w].attempts + 1 \in Nat
    BY <1>1 DEF Task
  <2>2. account' \in User
    BY <1>2, <1>4, <2>1 DEF CountFailure, User, UserStatus
  <2>3. QED
    BY <1>1, <1>2, <1>4, <2>2, AccountWritten DEF CountFailure
<1>5. CASE ClearFailures(w)
  <2>1. account' \in User
    BY <1>2, <1>5 DEF ClearFailures, User
  <2>2. task[w].call = "login" /\ <<"login", "session">> \in Stages
    BY <1>1, <1>5 DEF ClearFailures, Running, ShapeOf, Stages
  <2>3. QED
    BY <1>1, <1>2, <1>5, <2>1, <2>2, AccountWritten DEF ClearFailures
<1>6. CASE DropRoles(w)
  <2>1. account' \in User
    BY <1>2, <1>6 DEF DropRoles, User
  <2>2. task[w].call = "update" /\ <<"update", "add">> \in Stages
    BY <1>1, <1>6 DEF DropRoles, Running, ShapeOf, Stages
  <2>3. QED
    BY <1>1, <1>2, <1>6, <2>1, <2>2, AccountWritten DEF DropRoles
<1>7. CASE AddRoles(w)
  <2>1. account' \in User
    BY <1>1, <1>2, <1>7 DEF AddRoles, User, Task
  <2>2. task[w].call = "update" /\ <<"update", "write">> \in Stages
    BY <1>1, <1>7 DEF AddRoles, Running, ShapeOf, Stages
  <2>3. QED
    BY <1>1, <1>2, <1>7, <2>1, <2>2, AccountWritten DEF AddRoles
<1>8. CASE WriteUser(w)
  <2>1. account' \in User
    BY <1>1, <1>2, <1>8 DEF WriteUser, User, Task
  <2>2. QED
    BY <1>1, <1>2, <1>8, <2>1, AccountWritten DEF WriteUser
<1>9. CASE MarkDeleted(w)
  <2>1. account' \in User
    BY <1>2, <1>9 DEF MarkDeleted, User, UserStatus
  <2>2. task[w].call = "delete" /\ <<"delete", "revoke">> \in Stages
    BY <1>1, <1>9 DEF MarkDeleted, Running, ShapeOf, Stages
  <2>3. QED
    BY <1>1, <1>2, <1>9, <2>1, <2>2, AccountWritten DEF MarkDeleted
<1>10. QED
  BY <1>3, <1>4, <1>5, <1>6, <1>7, <1>8, <1>9

LEMMA CreateStep ==
    ASSUME TypeInv, NEW w \in Workers, CreateUser(w)
    PROVE  StepIsSound(w)
<1>1. task[w] # None /\ task[w] \in Task /\ ShapeOf(task[w]) /\ TypeOK
      /\ task[w].at = "create" /\ task[w].pw \in Passwords
  BY TaskShape DEF CreateUser, Running, TypeInv, ShapeOf
<1>2. CASE Exists
  BY <1>1, <1>2, FinishShape
     DEF CreateUser, StepIsSound, TypeInv, TypeOK, Later, Owned, Exists
<1>3. CASE ~Exists
  <2>1. account' \in User
    <3>1. task[w].roles \in SUBSET Roles /\ (task[w].call = "createUser") \in BOOLEAN
      BY <1>1 DEF Task
    <3>2. account' = [status |-> "ACTIVE", deleted |-> FALSE,
                      verified |-> (task[w].call = "createUser"), hash |-> task[w].pw,
                      attempts |-> 0, until |-> "NONE", roles |-> task[w].roles]
      BY <1>3 DEF CreateUser
    <3>3. QED
      BY <1>1, <3>1, <3>2 DEF User, UserStatus
  <2>2. Exists'
    BY <2>1, NoneAssumption DEF Exists
  <2>3. histories' \in Seq(HistoryRow)
    <3>1. [hash |-> task[w].pw, by |-> "create"] \in HistoryRow
      BY <1>1 DEF HistoryRow
    <3>2. histories' = <<[hash |-> task[w].pw, by |-> "create"]>>
      BY <1>3 DEF CreateUser
    <3>3. \A e \in HistoryRow : <<e>> \in Seq(HistoryRow)
      OBVIOUS
    <3>4. QED
      BY <3>1, <3>2, <3>3
  <2>4. \/ Finish(w)
        \/ task[w].call = "register" /\ Continue(w, "token")
    BY <1>3 DEF CreateUser
  <2>5. task' \in [Workers -> Task \cup {None}] /\ Alone(w)
    BY <1>1, <2>4, ContinueShape, FinishShape
  <2>6. task'[w] = None \/ (task'[w].call = task[w].call /\ ShapeOf(task[w])')
    <3>1. ASSUME task[w].call = "register", Continue(w, "token")
          PROVE  task'[w].call = task[w].call /\ ShapeOf(task[w])'
      <4>1. task'[w].call = "register" /\ task'[w].at = "token" /\ task'[w].call = task[w].call
        BY <1>1, <3>1, ContinueShape
      <4>2. QED
        BY <2>2, <4>1 DEF ShapeOf, Stages
    <3>2. QED
      BY <2>4, <3>1, FinishShape
  <2>7. UNCHANGED <<session, revokedKeys, token, mailed>>
    BY <1>3 DEF CreateUser
  <2>8. QED
    BY <1>1, <2>1, <2>2, <2>3, <2>5, <2>6, <2>7 DEF StepIsSound, TypeInv, TypeOK, Later, Owned
<1>4. QED
  BY <1>2, <1>3

LEMMA SessionStep ==
    ASSUME TypeInv, NEW w \in Workers,
           \/ \E s \in Sessions : CreateSession(w, s)
           \/ RevokeOne(w) \/ SetRevokedKey(w) \/ RevokeAll(w) \/ RotateToken(w)
           \/ RevokeSessions(w)
    PROVE  StepIsSound(w)
<1>1. task[w] # None /\ task[w] \in Task /\ ShapeOf(task[w]) /\ TypeOK
  BY TaskShape DEF CreateSession, RevokeOne, SetRevokedKey, RevokeAll, RotateToken,
                   RevokeSessions, Running, TypeInv
<1>2. ASSUME NEW s \in Sessions, CreateSession(w, s) PROVE StepIsSound(w)
  <2>1. [revoked |-> FALSE, expired |-> FALSE, keyed |-> FALSE] \in SessionRow
    BY DEF SessionRow
  <2>2. session' \in [Sessions -> SessionRow \cup {None}]
        /\ \A x \in Sessions : session[x] # None => session'[x] = session[x]
    BY <1>1, <1>2, <2>1 DEF CreateSession, TypeOK
  <2>3. QED
    BY <1>1, <1>2, <2>2, FinishShape
       DEF CreateSession, StepIsSound, TypeInv, TypeOK, Later, Owned, Exists
<1>3. CASE RevokeOne(w)
  <2>1. task[w].ref \in Sessions /\ session[task[w].ref] # None /\ task[w].call = "logout"
    BY <1>1, <1>3 DEF RevokeOne, Running, ShapeOf, Stages
  <2>2. /\ session' \in [Sessions -> SessionRow \cup {None}]
        /\ \A s \in Sessions : session[s] # None =>
              session'[s] # None /\ (session[s].revoked => session'[s].revoked)
        /\ session'[task[w].ref] # None /\ session'[task[w].ref].revoked
    BY <1>1, <1>3, <2>1, RevokeType DEF RevokeOne
  <2>3. /\ task' \in [Workers -> Task \cup {None}] /\ Alone(w)
        /\ task'[w].call = "logout" /\ task'[w].at = "key" /\ task'[w].ref = task[w].ref
    BY <1>1, <1>3, <2>1, ContinueShape DEF RevokeOne
  <2>4. ShapeOf(task[w])'
    BY <2>1, <2>2, <2>3 DEF ShapeOf, Stages
  <2>5. QED
    BY <1>1, <1>3, <2>1, <2>2, <2>3, <2>4
       DEF RevokeOne, StepIsSound, TypeInv, TypeOK, Later, Owned, Exists
<1>4. CASE SetRevokedKey(w)
  <2>1. task[w].ref \in Sessions
    BY <1>1, <1>4 DEF SetRevokedKey, Running, ShapeOf
  <2>2. QED
    BY <1>1, <1>4, <2>1, FinishShape
       DEF SetRevokedKey, StepIsSound, TypeInv, TypeOK, Later, Owned, Exists
<1>5. CASE RevokeAll(w) \/ RevokeSessions(w)
  <2>1. RevokeRows(Sessions) /\ Finish(w)
        /\ UNCHANGED <<account, histories, revokedKeys, token, mailed>>
    BY <1>5 DEF RevokeAll, RevokeSessions
  <2>2. /\ session' \in [Sessions -> SessionRow \cup {None}]
        /\ \A s \in Sessions : session[s] # None =>
              session'[s] # None /\ (session[s].revoked => session'[s].revoked)
    BY <1>1, <2>1, RevokeType
  <2>3. QED
    BY <1>1, <2>1, <2>2, FinishShape DEF StepIsSound, TypeInv, TypeOK, Later, Owned, Exists
<1>6. CASE RotateToken(w)
  <2>1. task[w].ref \in Sessions /\ session[task[w].ref] # None
    BY <1>1, <1>6 DEF RotateToken, Running, ShapeOf
  <2>2. session[task[w].ref] \in SessionRow
    BY <1>1, <2>1 DEF TypeOK
  <2>3. [session[task[w].ref] EXCEPT !.keyed = TRUE] \in SessionRow
        /\ [session[task[w].ref] EXCEPT !.keyed = TRUE].revoked = session[task[w].ref].revoked
    BY <2>2 DEF SessionRow
  <2>4. /\ session' \in [Sessions -> SessionRow \cup {None}]
        /\ \A s \in Sessions : session[s] # None =>
              session'[s] # None /\ (session[s].revoked => session'[s].revoked)
    BY <1>1, <1>6, <2>1, <2>3, NoneAssumption DEF RotateToken, TypeOK
  <2>5. QED
    BY <1>1, <1>6, <2>4, FinishShape
       DEF RotateToken, StepIsSound, TypeInv, TypeOK, Later, Owned, Exists
<1>7. QED
  BY <1>2, <1>3, <1>4, <1>5, <1>6

LEMMA TokenStep ==
    ASSUME TypeInv, NEW w \in Workers,
           \/ \E t \in Tokens : CreateToken(w, t)
           \/ EmitToken(w) \/ CommitChange(w) \/ CommitReset(w) \/ CommitVerify(w)
    PROVE  StepIsSound(w)
<1>1. task[w] # None /\ task[w] \in Task /\ ShapeOf(task[w]) /\ TypeOK
  BY TaskShape DEF CreateToken, EmitToken, CommitChange, CommitReset, CommitVerify,
                   Running, TypeInv
<1>2. ASSUME NEW t \in Tokens, CreateToken(w, t) PROVE StepIsSound(w)
  <2>1. Exists /\ task[w].call \in {"register", "forgot", "resend"}
    BY <1>1, <1>2 DEF CreateToken, Running, ShapeOf, Stages
  <2>2. /\ token' \in [Tokens -> TokenState]
        /\ token'[t] # "ABSENT"
        /\ \A x \in Tokens \ {t} : token'[x] = token[x]
    BY <1>1, <1>2 DEF CreateToken, TypeOK, TokenState
  <2>3. /\ task' \in [Workers -> Task \cup {None}] /\ Alone(w)
        /\ task'[w].call = task[w].call /\ task'[w].at = "emit" /\ task'[w].ref = t
    <3>1. task'[w] = [task[w] EXCEPT !.at = "emit", !.ref = t]
      BY <1>1, <1>2 DEF CreateToken, TypeOK
    <3>2. [task[w] EXCEPT !.at = "emit", !.ref = t] \in Task
      BY <1>1 DEF Task
    <3>3. task' \in [Workers -> Task \cup {None}] /\ Alone(w)
      BY <1>1, <1>2, <3>2 DEF CreateToken, TypeOK, Alone
    <3>4. QED
      BY <1>1, <3>1, <3>3 DEF Task
  <2>4. ShapeOf(task[w])'
    <3>1. Exists'
      BY <1>2, <2>1 DEF CreateToken, Exists
    <3>2. <<task'[w].call, task'[w].at>> \in Stages
      BY <2>1, <2>3 DEF Stages
    <3>3. QED
      BY <2>1, <2>2, <2>3, <3>1, <3>2 DEF ShapeOf
  <2>5. QED
    BY <1>1, <1>2, <2>1, <2>2, <2>3, <2>4
       DEF CreateToken, StepIsSound, TypeInv, TypeOK, Later, Owned, Exists
<1>3. CASE EmitToken(w)
  <2>1. task[w].ref \in Tokens
    BY <1>1, <1>3 DEF EmitToken, Running, ShapeOf
  <2>2. QED
    BY <1>1, <1>3, <2>1, FinishShape
       DEF EmitToken, StepIsSound, TypeInv, TypeOK, Later, Owned, Exists
<1>4. ASSUME NEW by \in {"create", "change"} \cup Tokens, task[w].pw \in Passwords,
             AddHistory(task[w].pw, by)
      PROVE  histories' \in Seq(HistoryRow)
  BY <1>1, <1>4 DEF AddHistory, HistoryRow, TypeOK
<1>5. CASE CommitChange(w)
  <2>1. Exists /\ task[w].pw \in Passwords /\ account \in User
    BY <1>1, <1>5, AccountType DEF CommitChange, Running, ShapeOf
  <2>2. account' \in User
    BY <1>5, <2>1 DEF CommitChange, User
  <2>3. Exists'
    BY <2>2, NoneAssumption DEF Exists
  <2>4. QED
    BY <1>1, <1>4, <1>5, <2>1, <2>2, <2>3, FinishShape
       DEF CommitChange, StepIsSound, TypeInv, TypeOK, Later, Owned
<1>6. CASE CommitReset(w)
  <2>1. Exists /\ task[w].pw \in Passwords /\ task[w].ref \in Tokens
        /\ token[task[w].ref] # "ABSENT" /\ account \in User
    BY <1>1, <1>6, AccountType DEF CommitReset, Running, ShapeOf
  <2>2. CASE Unspent(task[w].ref)
    <3>1. account' \in User
      <4>1. account' = [account EXCEPT !.hash = task[w].pw, !.attempts = 0,
                                       !.status = "ACTIVE"]
        BY <1>6, <2>2 DEF CommitReset
      <4>2. QED
        BY <2>1, <4>1 DEF User, UserStatus
    <3>2. Exists'
      BY <3>1, NoneAssumption DEF Exists
    <3>3. /\ token' \in [Tokens -> TokenState]
          /\ \A x \in Tokens : token'[x] = "SPENT" \/ token'[x] = token[x]
      BY <1>1, <1>6, <2>1, <2>2 DEF CommitReset, TypeOK, TokenState
    <3>4. histories' \in Seq(HistoryRow)
      BY <1>4, <1>6, <2>1, <2>2 DEF CommitReset
    <3>5. QED
      BY <1>1, <1>6, <2>2, <3>1, <3>2, <3>3, <3>4, FinishShape
         DEF CommitReset, StepIsSound, TypeInv, TypeOK, Later, Owned
  <2>3. CASE ~Unspent(task[w].ref)
    BY <1>1, <1>6, <2>3, FinishShape
       DEF CommitReset, StepIsSound, TypeInv, TypeOK, Later, Owned, Exists
  <2>4. QED
    BY <2>2, <2>3
<1>7. CASE CommitVerify(w)
  <2>1. Exists /\ task[w].ref \in Tokens /\ token[task[w].ref] # "ABSENT" /\ account \in User
    BY <1>1, <1>7, AccountType DEF CommitVerify, Running, ShapeOf
  <2>2. CASE Unspent(task[w].ref)
    <3>1. account' \in User
      BY <1>7, <2>1, <2>2 DEF CommitVerify, User
    <3>2. Exists'
      BY <3>1, NoneAssumption DEF Exists
    <3>3. /\ token' \in [Tokens -> TokenState]
          /\ \A x \in Tokens : token'[x] = "SPENT" \/ token'[x] = token[x]
      BY <1>1, <1>7, <2>1, <2>2 DEF CommitVerify, TypeOK, TokenState
    <3>4. QED
      BY <1>1, <1>7, <2>2, <3>1, <3>2, <3>3, FinishShape
         DEF CommitVerify, StepIsSound, TypeInv, TypeOK, Later, Owned
  <2>3. CASE ~Unspent(task[w].ref)
    BY <1>1, <1>7, <2>3, FinishShape
       DEF CommitVerify, StepIsSound, TypeInv, TypeOK, Later, Owned, Exists
  <2>4. QED
    BY <2>2, <2>3
<1>8. QED
  BY <1>2, <1>3, <1>5, <1>6, <1>7

LEMMA TaskStepSound ==
    ASSUME TypeInv, NEW w \in Workers, TaskStep(w)
    PROVE  StepIsSound(w)
  BY LoginStep, CreateStep, SessionStep, TokenStep DEF TaskStep

\* Time and failures leave the rows their types and the calls what they have read.
LEMMA LapseStep ==
    ASSUME TypeInv, Lapse \/ \E w \in Workers : Abort(w)
    PROVE  /\ TypeOK' /\ Later /\ Owned'
           /\ \A x \in Workers : task'[x] = None \/ task'[x] = task[x]
<1>0. TypeOK /\ Owned
  BY DEF TypeInv
<1>1. CASE LapseLock
  <2>1. account \in User /\ account' = [account EXCEPT !.until = "PAST"]
    BY <1>0, <1>1, AccountType DEF LapseLock
  <2>2. account' \in User
    BY <2>1 DEF User
  <2>3. QED
    BY <1>0, <1>1, <2>2, NoneAssumption DEF LapseLock, TypeOK, Later, Owned, Exists
<1>2. ASSUME NEW t \in Tokens, LapseToken(t)
      PROVE  /\ TypeOK' /\ Later /\ Owned'
             /\ task' = task
  <2>1. /\ token' \in [Tokens -> TokenState]
        /\ token[t] \in {"RESET", "VERIFY"}
        /\ token'[t] = "LAPSED"
        /\ \A x \in Tokens \ {t} : token'[x] = token[x]
    BY <1>0, <1>2 DEF LapseToken, TypeOK, TokenState
  <2>2. QED
    BY <1>0, <1>2, <2>1 DEF LapseToken, TypeOK, Later, Owned, Exists
<1>3. ASSUME NEW s \in Sessions, ExpireSession(s)
      PROVE  /\ TypeOK' /\ Later /\ Owned'
             /\ task' = task
  <2>1. session[s] \in SessionRow /\ session[s] # None
    BY <1>0, <1>3 DEF ExpireSession, TypeOK
  <2>2. [session[s] EXCEPT !.expired = TRUE] \in SessionRow
        /\ [session[s] EXCEPT !.expired = TRUE].revoked = session[s].revoked
    BY <2>1 DEF SessionRow
  <2>3. /\ session' \in [Sessions -> SessionRow \cup {None}]
        /\ \A x \in Sessions : session[x] # None =>
              session'[x] # None /\ (session[x].revoked => session'[x].revoked)
    BY <1>0, <1>3, <2>2, NoneAssumption DEF ExpireSession, TypeOK
  <2>4. QED
    BY <1>0, <1>3, <2>3 DEF ExpireSession, TypeOK, Later, Owned, Exists
<1>4. ASSUME NEW w \in Workers, Abort(w)
      PROVE  /\ TypeOK' /\ Later /\ Owned'
             /\ \A x \in Workers : task'[x] = None \/ task'[x] = task[x]
  BY <1>0, <1>4, FinishShape DEF Abort, TypeOK, Later, Owned, Exists, Alone
<1>5. QED
  BY <1>1, <1>2, <1>3, <1>4 DEF Lapse, LapseLock

\* What a task has read stays there while others go on.
LEMMA ShapeLater ==
    ASSUME TypeInv, Later, NEW t \in Task, ShapeOf(t)
    PROVE  ShapeOf(t)'
  BY DEF ShapeOf, Later, Stages

LEMMA TypeStep == TypeInv /\ [Next]_vars => TypeInv' /\ Later
<1> SUFFICES ASSUME TypeInv, [Next]_vars PROVE TypeInv' /\ Later
  OBVIOUS
<1>0. TypeOK /\ Owned /\ Shape
  BY DEF TypeInv
<1>1. ASSUME NEW w \in Workers, Begins(w) PROVE TypeInv' /\ Later
  <2>1. PICK t \in Task : Start(w, t) /\ ShapeOf(t)
    BY <1>1 DEF Begins
  <2>2. /\ task' \in [Workers -> Task \cup {None}] /\ task'[w] = t /\ Alone(w) /\ Untouched
    BY <1>0, <2>1 DEF Start, TypeOK, Alone, Untouched
  <2>3. TypeOK' /\ Later /\ Owned'
    BY <1>0, <2>2 DEF Untouched, TypeOK, Later, Owned, Exists
  <2>4. Shape'
    <3> SUFFICES ASSUME NEW x \in Workers, task'[x] # None PROVE ShapeOf(task[x])'
      BY DEF Shape
    <3>1. CASE x = w
      BY <2>1, <2>2, <2>3, <3>1, ShapeLater
    <3>2. CASE x # w
      BY <1>0, <2>2, <2>3, <3>2, TaskShape, ShapeLater DEF Alone
    <3>3. QED
      BY <3>1, <3>2
  <2>5. QED
    BY <2>3, <2>4 DEF TypeInv
<1>2. ASSUME NEW w \in Workers, TaskStep(w) PROVE TypeInv' /\ Later
  <2>1. StepIsSound(w)
    BY <1>2, TaskStepSound
  <2>2. Shape'
    <3> SUFFICES ASSUME NEW x \in Workers, task'[x] # None PROVE ShapeOf(task[x])'
      BY DEF Shape
    <3>1. CASE x = w
      BY <2>1, <3>1 DEF StepIsSound
    <3>2. CASE x # w
      BY <2>1, <3>2, TaskShape, ShapeLater DEF Alone, StepIsSound
    <3>3. QED
      BY <3>1, <3>2
  <2>3. QED
    BY <2>1, <2>2 DEF TypeInv, StepIsSound
<1>3. CASE Lapse \/ \E w \in Workers : Abort(w)
  <2>1. /\ TypeOK' /\ Later /\ Owned'
        /\ \A x \in Workers : task'[x] = None \/ task'[x] = task[x]
    BY <1>3, LapseStep
  <2>2. Shape'
    <3> SUFFICES ASSUME NEW x \in Workers, task'[x] # None PROVE ShapeOf(task[x])'
      BY DEF Shape
    <3>1. QED
      BY <2>1, TaskShape, ShapeLater
  <2>3. QED
    BY <2>1, <2>2 DEF TypeInv
<1>4. CASE UNCHANGED vars
  BY <1>0, <1>4 DEF TypeInv, TypeOK, Shape, ShapeOf, Owned, Later, Exists, vars
<1>5. QED
  BY <1>1, <1>2, <1>3, <1>4, AuthBegins, UserBegins DEF Next, Advance

LEMMA TypeInit == Init => TypeInv
  BY DEF Init, TypeInv, TypeOK, Shape, Owned, TokenState, Exists

\* The type invariant: what the tables, Redis and the calls in flight may hold.
THEOREM TypeCorrect == Spec => []TypeOK
<1>1. TypeInv => TypeOK
  BY DEF TypeInv
<1>2. QED
  BY <1>1, TypeInit, TypeStep, PTL DEF Spec

-----------------------------------------------------------------------------
\* Passwords

\* A history row written for a token is written with the statement that spends it.
PasswordInv ==
    /\ TypeInv
    /\ PasswordIsRecorded
    /\ \A i \in DOMAIN histories : histories[i].by \in Tokens => token[histories[i].by] = "SPENT"

\* The password and its history are left alone.
Kept == /\ histories' = histories
        /\ Exists' => Exists /\ account'.hash = account.hash

\* They are written together.
Written(pw, by) ==
    /\ account'.hash = pw
    /\ histories' = Append(histories, [hash |-> pw, by |-> by])

LEMMA PasswordMoves ==
    ASSUME TypeInv, [Next]_vars
    PROVE  \/ Kept
           \/ \E pw \in Passwords : /\ account'.hash = pw
                                    /\ histories' = <<[hash |-> pw, by |-> "create"]>>
           \/ \E pw \in Passwords : Exists /\ Written(pw, "change")
           \/ \E pw \in Passwords, t \in Tokens :
                 Exists /\ Written(pw, t) /\ token[t] # "SPENT" /\ token'[t] = "SPENT"
<1>0. TypeOK
  BY DEF TypeInv
<1>1. ASSUME NEW w \in Workers, Begins(w) PROVE Kept
  BY <1>1 DEF Begins, Start, Kept, Exists
<1>2. ASSUME NEW w \in Workers,
             Unlock(w) \/ CountFailure(w) \/ ClearFailures(w) \/ DropRoles(w) \/ AddRoles(w)
                \/ WriteUser(w) \/ MarkDeleted(w)
      PROVE  Kept
  <2>1. task[w] # None /\ ShapeOf(task[w])
    BY <1>2, TaskShape DEF Unlock, CountFailure, ClearFailures, DropRoles, AddRoles, WriteUser,
                           MarkDeleted, Running
  <2>2. Exists /\ account \in User
    BY <1>0, <1>2, <2>1, AccountType DEF Unlock, CountFailure, ClearFailures, DropRoles,
          AddRoles, WriteUser, MarkDeleted, Running, ShapeOf, Stages
  <2>3. histories' = histories /\ account'.hash = account.hash
    BY <1>2, <2>2 DEF Unlock, CountFailure, ClearFailures, DropRoles, AddRoles, WriteUser,
                      MarkDeleted, User
  <2>4. QED
    BY <2>2, <2>3 DEF Kept
<1>3. ASSUME NEW w \in Workers,
             \/ \E s \in Sessions : CreateSession(w, s)
             \/ RevokeOne(w) \/ SetRevokedKey(w) \/ RevokeAll(w) \/ RotateToken(w)
             \/ \E t \in Tokens : CreateToken(w, t)
             \/ EmitToken(w) \/ RevokeSessions(w)
      PROVE  Kept
  BY <1>3 DEF CreateSession, RevokeOne, SetRevokedKey, RevokeAll, RotateToken, CreateToken,
              EmitToken, RevokeSessions, Kept, Exists
<1>4. ASSUME NEW w \in Workers, CreateUser(w)
      PROVE  \/ Kept
             \/ \E pw \in Passwords : /\ account'.hash = pw
                                      /\ histories' = <<[hash |-> pw, by |-> "create"]>>
  <2>1. task[w].pw \in Passwords
    BY <1>4, TaskShape DEF CreateUser, Running, ShapeOf
  <2>2. CASE Exists
    BY <1>4, <2>2 DEF CreateUser, Kept, Exists
  <2>3. CASE ~Exists
    <3>1. account'.hash = task[w].pw /\ histories' = <<[hash |-> task[w].pw, by |-> "create"]>>
      BY <1>4, <2>3 DEF CreateUser
    <3>2. QED
      BY <2>1, <3>1
  <2>4. QED
    BY <2>2, <2>3
<1>5. ASSUME NEW w \in Workers, CommitChange(w)
      PROVE  \E pw \in Passwords : Exists /\ Written(pw, "change")
  <2>1. Exists /\ account \in User /\ task[w].pw \in Passwords
    BY <1>0, <1>5, TaskShape, AccountType DEF CommitChange, Running, ShapeOf
  <2>2. account'.hash = task[w].pw
    BY <1>5, <2>1 DEF CommitChange, User
  <2>3. Written(task[w].pw, "change")
    BY <1>5, <2>2 DEF CommitChange, AddHistory, Written
  <2>4. QED
    BY <2>1, <2>3
<1>6. ASSUME NEW w \in Workers, CommitReset(w)
      PROVE  \/ Kept
             \/ \E pw \in Passwords, t \in Tokens :
                   Exists /\ Written(pw, t) /\ token[t] # "SPENT" /\ token'[t] = "SPENT"
  <2>1. Exists /\ account \in User /\ task[w].pw \in Passwords /\ task[w].ref \in Tokens
    BY <1>0, <1>6, TaskShape, AccountType DEF CommitReset, Running, ShapeOf
  <2>2. CASE Unspent(task[w].ref)
    <3>1. account' = [account EXCEPT !.hash = task[w].pw, !.attempts = 0, !.status = "ACTIVE"]
          /\ token' = [token EXCEPT ![task[w].ref] = "SPENT"]
          /\ AddHistory(task[w].pw, task[w].ref)
      BY <1>6, <2>2 DEF CommitReset
    <3>2. account'.hash = task[w].pw
      BY <2>1, <3>1 DEF User
    <3>3. token[task[w].ref] # "SPENT" /\ token'[task[w].ref] = "SPENT"
      BY <1>0, <2>1, <2>2, <3>1 DEF Unspent, TypeOK
    <3>4. Written(task[w].pw, task[w].ref)
      BY <3>1, <3>2 DEF Written, AddHistory
    <3>5. QED
      BY <2>1, <3>3, <3>4
  <2>3. CASE ~Unspent(task[w].ref)
    BY <1>6, <2>3 DEF CommitReset, Kept, Exists
  <2>4. QED
    BY <2>2, <2>3
<1>7. ASSUME NEW w \in Workers, CommitVerify(w) PROVE Kept
  <2>1. Exists /\ account \in User
    BY <1>0, <1>7, TaskShape, AccountType DEF CommitVerify, Running, ShapeOf
  <2>2. histories' = histories /\ account'.hash = account.hash
    BY <1>7, <2>1 DEF CommitVerify, User
  <2>3. QED
    BY <2>1, <2>2 DEF Kept
<1>8. CASE LapseLock
  BY <1>0, <1>8, AccountType DEF LapseLock, Kept, User, Exists
<1>9. CASE \/ \E t \in Tokens : LapseToken(t)
           \/ \E s \in Sessions : ExpireSession(s)
           \/ \E w \in Workers : Abort(w)
           \/ UNCHANGED vars
  BY <1>9 DEF LapseToken, ExpireSession, Abort, vars, Kept, Exists
<1>10. QED
  BY <1>1, <1>2, <1>3, <1>4, <1>5, <1>6, <1>7, <1>8, <1>9, AuthBegins, UserBegins
     DEF Next, Advance, Lapse, TaskStep

LEMMA PasswordStep == PasswordInv /\ [Next]_vars => PasswordInv'
<1> SUFFICES ASSUME PasswordInv, [Next]_vars PROVE PasswordInv'
  OBVIOUS
<1> DEFINE n == Len(histories)
<1>0. TypeInv /\ TypeInv' /\ TypeOK /\ Later
  BY TypeStep DEF PasswordInv, TypeInv
<1>1. /\ histories \in Seq(HistoryRow) /\ n \in Nat /\ DOMAIN histories = 1 .. n
      /\ \A i \in 1 .. n : histories[i] \in HistoryRow
  BY <1>0 DEF TypeOK
<1>2. /\ Exists => histories # <<>> /\ account.hash = histories[n].hash
      /\ \A i, j \in 1 .. n :
            histories[i].by \in Tokens /\ histories[i].by = histories[j].by => i = j
      /\ \A i \in 1 .. n : histories[i].by \in Tokens => token[histories[i].by] = "SPENT"
  BY <1>1 DEF PasswordInv, PasswordIsRecorded
<1>3. \A t \in Tokens : token[t] = "SPENT" => token'[t] = "SPENT"
  BY <1>0 DEF Later
<1>4. CASE Kept
  BY <1>0, <1>1, <1>2, <1>3, <1>4 DEF Kept, PasswordInv, PasswordIsRecorded
<1>5. ASSUME NEW pw \in Passwords, account'.hash = pw,
             histories' = <<[hash |-> pw, by |-> "create"]>>
      PROVE  PasswordInv'
  <2>1. /\ DOMAIN histories' = {1} /\ Len(histories') = 1 /\ histories' # <<>>
        /\ histories'[1].hash = pw /\ histories'[1].by = "create"
    BY <1>5
  <2>2. QED
    BY <1>0, <1>5, <2>1, AccountsAssumption DEF PasswordInv, PasswordIsRecorded
<1>6. ASSUME NEW pw \in Passwords, NEW by \in {"change"} \cup Tokens, Exists, Written(pw, by),
             by \in Tokens => token[by] # "SPENT" /\ token'[by] = "SPENT"
      PROVE  PasswordInv'
  <2>1. /\ [hash |-> pw, by |-> by] \in HistoryRow
        /\ histories' = Append(histories, [hash |-> pw, by |-> by])
    BY <1>6 DEF Written, HistoryRow
  <2>2. /\ Len(histories') = n + 1 /\ DOMAIN histories' = 1 .. (n + 1)
        /\ histories'[n + 1] = [hash |-> pw, by |-> by]
        /\ \A i \in 1 .. n : histories'[i] = histories[i]
    BY <1>1, <2>1
  <2>3. histories' # <<>> /\ account'.hash = histories'[Len(histories')].hash
    BY <1>1, <1>6, <2>2 DEF Written
  <2>4. \A i \in 1 .. (n + 1) : i \in 1 .. n \/ i = n + 1
    BY <1>1
  <2>5. ASSUME NEW i \in 1 .. (n + 1), histories'[i].by \in Tokens
        PROVE  token'[histories'[i].by] = "SPENT"
    BY <1>2, <1>3, <1>6, <2>2, <2>4, <2>5
  <2>6. ASSUME NEW i \in 1 .. (n + 1), NEW j \in 1 .. (n + 1),
               histories'[i].by \in Tokens, histories'[i].by = histories'[j].by
        PROVE  i = j
    <3>1. CASE i \in 1 .. n /\ j \in 1 .. n
      BY <1>2, <2>2, <2>6, <3>1
    <3>2. CASE i = n + 1 /\ j \in 1 .. n
      BY <1>2, <1>6, <2>2, <2>6, <3>2
    <3>3. CASE i \in 1 .. n /\ j = n + 1
      BY <1>2, <1>6, <2>2, <2>6, <3>3
    <3>4. QED
      BY <2>4, <3>1, <3>2, <3>3
  <2>7. QED
    BY <1>0, <2>2, <2>3, <2>5, <2>6 DEF PasswordInv, PasswordIsRecorded
<1>7. QED
  BY <1>0, <1>4, <1>5, <1>6, PasswordMoves, AccountsAssumption

\* The password of the account is the newest in its history, and a mailed reset
\* token changes it once, whatever resetPassword calls overlap.
THEOREM PasswordCorrect == Spec => []PasswordIsRecorded
<1>1. Init => PasswordInv
  BY TypeInit DEF Init, PasswordInv, PasswordIsRecorded, Exists
<1>2. PasswordInv => PasswordIsRecorded
  BY DEF PasswordInv
<1>3. QED
  BY <1>1, <1>2, PasswordStep, PTL DEF Spec

-----------------------------------------------------------------------------
\* Revocation

RevocationInv == TypeInv /\ RevocationIsRecorded

LEMMA RevocationStep == RevocationInv /\ [Next]_vars => RevocationInv'
<1> SUFFICES ASSUME RevocationInv, [Next]_vars PROVE RevocationIsRecorded'
  BY TypeStep DEF RevocationInv
<1>0. TypeInv /\ TypeOK /\ Later
  BY TypeStep DEF RevocationInv, TypeInv
<1>1. /\ \A s \in revokedKeys : s \in Sessions /\ session'[s] # None /\ session'[s].revoked
      /\ \A t \in mailed : t \in Tokens /\ token'[t] # "ABSENT"
  BY <1>0 DEF RevocationInv, RevocationIsRecorded, Later, TypeOK
<1>2. ASSUME NEW w \in Workers, SetRevokedKey(w) PROVE RevocationIsRecorded'
  <2>1. task[w].ref \in Sessions /\ session[task[w].ref] # None /\ session[task[w].ref].revoked
    BY <1>0, <1>2, TaskShape DEF SetRevokedKey, Running, ShapeOf
  <2>2. QED
    BY <1>1, <1>2, <2>1 DEF SetRevokedKey, RevocationIsRecorded
<1>3. ASSUME NEW w \in Workers, EmitToken(w) PROVE RevocationIsRecorded'
  <2>1. token[task[w].ref] # "ABSENT"
    BY <1>0, <1>3, TaskShape DEF EmitToken, Running, ShapeOf
  <2>2. QED
    BY <1>1, <1>3, <2>1 DEF EmitToken, RevocationIsRecorded
<1>4. ASSUME NEW w \in Workers, TaskStep(w), ~SetRevokedKey(w), ~EmitToken(w)
      PROVE  revokedKeys' = revokedKeys /\ mailed' = mailed
  BY <1>4 DEF TaskStep, CreateUser, Unlock, CountFailure, ClearFailures, CreateSession,
              RevokeOne, RevokeAll, RotateToken, CreateToken, CommitChange, CommitReset,
              CommitVerify, DropRoles, AddRoles, WriteUser, MarkDeleted, RevokeSessions
<1>5. ASSUME NEW w \in Workers, Begins(w) PROVE revokedKeys' = revokedKeys /\ mailed' = mailed
  BY <1>5 DEF Begins, Start
<1>6. CASE revokedKeys' = revokedKeys /\ mailed' = mailed
  BY <1>1, <1>6 DEF RevocationIsRecorded
<1>7. QED
  BY <1>0, <1>2, <1>3, <1>4, <1>5, <1>6, AuthBegins, UserBegins
     DEF Next, Advance, Lapse, LapseLock, LapseToken, ExpireSession, Abort, vars

LEMMA RevocationInit == Init => RevocationInv
  BY TypeInit DEF Init, RevocationInv, RevocationIsRecorded

\* A session with a key in Redis is revoked in Postgres, and a mailed token is in
\* its table, whatever calls overlap or fail.
THEOREM RevocationCorrect == Spec => []RevocationIsRecorded
<1>1. RevocationInv => RevocationIsRecorded
  BY DEF RevocationInv
<1>2. QED
  BY <1>1, RevocationInit, RevocationStep, PTL DEF Spec

\* Who is deleted stays deleted.
LEMMA DeletedStays ==
    ASSUME TypeInv, [Next]_vars, Exists, account.deleted
    PROVE  account'.deleted
<1>0. TypeOK /\ account \in User
  BY AccountType DEF TypeInv
<1>1. ASSUME NEW w \in Workers, Begins(w) PROVE account' = account
  BY <1>1 DEF Begins, Start
<1>2. ASSUME NEW w \in Workers, TaskStep(w) PROVE account'.deleted
  <2>1. CASE Unlock(w) \/ CountFailure(w) \/ ClearFailures(w) \/ DropRoles(w) \/ AddRoles(w)
                \/ WriteUser(w) \/ MarkDeleted(w)
    BY <1>0, <2>1 DEF Unlock, CountFailure, ClearFailures, DropRoles, AddRoles, WriteUser,
                      MarkDeleted, User
  <2>2. CASE CreateUser(w)
    BY <2>2 DEF CreateUser
  <2>3. CASE CommitChange(w) \/ CommitReset(w) \/ CommitVerify(w)
    BY <1>0, <2>3 DEF CommitChange, CommitReset, CommitVerify, User
  <2>4. CASE \/ \E s \in Sessions : CreateSession(w, s)
             \/ RevokeOne(w) \/ SetRevokedKey(w) \/ RevokeAll(w) \/ RotateToken(w)
             \/ \E t \in Tokens : CreateToken(w, t)
             \/ EmitToken(w) \/ RevokeSessions(w)
    BY <2>4 DEF CreateSession, RevokeOne, SetRevokedKey, RevokeAll, RotateToken, CreateToken,
                EmitToken, RevokeSessions
  <2>5. QED
    BY <1>2, <2>1, <2>2, <2>3, <2>4 DEF TaskStep
<1>3. CASE LapseLock
  BY <1>0, <1>3 DEF LapseLock, User
<1>4. QED
  BY <1>1, <1>2, <1>3, AuthBegins, UserBegins
     DEF Next, Advance, Lapse, LapseToken, ExpireSession, Abort, vars

\* No login begins on a deleted account, and only logins create sessions.
LEMMA DeletedStaysOut ==
    ASSUME TypeInv, [Next]_vars, Exists, account.deleted, NoLogin
    PROVE  /\ NoLogin'
           /\ \A s \in Sessions : session[s] = None => session'[s] = None
<1>0. TypeOK
  BY DEF TypeInv
<1>1. \A x \in Workers : task[x] # None => task[x].call # "login"
  BY DEF NoLogin
<1>2. ASSUME NEW w \in Workers, Begins(w)
      PROVE  NoLogin' /\ session' = session
  <2>1. PICK t \in Task : Start(w, t) /\ t.call # "login"
    BY <1>2 DEF Begins, Alive
  <2>2. task' = [task EXCEPT ![w] = t] /\ session' = session
    BY <2>1 DEF Start
  <2>3. QED
    BY <1>0, <1>1, <2>1, <2>2 DEF NoLogin, TypeOK
<1>3. ASSUME NEW w \in Workers, TaskStep(w)
      PROVE  NoLogin' /\ \A s \in Sessions : session[s] = None => session'[s] = None
  <2>1. StepIsSound(w)
    BY <1>3, TaskStepSound
  <2>2. task[w] # None /\ task[w].call # "login"
    <3>1. task[w] # None
      BY <1>3 DEF TaskStep, CreateUser, Unlock, CountFailure, ClearFailures, CreateSession,
                  RevokeOne, SetRevokedKey, RevokeAll, RotateToken, CreateToken, EmitToken,
                  CommitChange, CommitReset, CommitVerify, DropRoles, AddRoles, WriteUser,
                  MarkDeleted, RevokeSessions, Running
    <3>2. QED
      BY <1>1, <3>1
  <2>3. NoLogin'
    BY <1>1, <2>1, <2>2 DEF NoLogin, StepIsSound, Alone
  <2>4. ASSUME NEW s \in Sessions, session[s] = None PROVE session'[s] = None
    <3>1. \A x \in Sessions : ~CreateSession(w, x)
      BY <2>2, TaskShape DEF CreateSession, Running, ShapeOf, Stages
    <3>2. CASE RevokeOne(w) \/ RevokeAll(w) \/ RevokeSessions(w)
      BY <1>0, <2>4, <3>2, RevokeType DEF RevokeOne, RevokeAll, RevokeSessions
    <3>3. CASE RotateToken(w)
      <4>1. task[w].ref # s
        BY <2>4, <3>3, TaskShape DEF RotateToken, Running, ShapeOf
      <4>2. QED
        BY <1>0, <2>4, <3>3, <4>1 DEF RotateToken, TypeOK
    <3>4. CASE ~(RevokeOne(w) \/ RevokeAll(w) \/ RevokeSessions(w) \/ RotateToken(w))
      <4>1. session' = session
        BY <1>3, <3>1, <3>4
           DEF TaskStep, CreateUser, Unlock, CountFailure, ClearFailures, SetRevokedKey,
               CreateToken, EmitToken, CommitChange, CommitReset, CommitVerify, DropRoles,
               AddRoles, WriteUser, MarkDeleted
      <4>2. QED
        BY <2>4, <4>1
    <3>5. QED
      BY <3>2, <3>3, <3>4
  <2>5. QED
    BY <2>3, <2>4
<1>4. ASSUME NEW x \in Sessions, ExpireSession(x)
      PROVE  NoLogin' /\ \A s \in Sessions : session[s] = None => session'[s] = None
  BY <1>0, <1>1, <1>4 DEF ExpireSession, NoLogin, TypeOK
<1>5. ASSUME NEW w \in Workers, Abort(w) PROVE NoLogin' /\ session' = session
  BY <1>1, <1>5, FinishShape DEF Abort, NoLogin, Alone
<1>6. CASE LapseLock \/ (\E t \in Tokens : LapseToken(t)) \/ UNCHANGED vars
  BY <1>1, <1>6 DEF LapseLock, LapseToken, vars, NoLogin
<1>7. QED
  BY <1>2, <1>3, <1>4, <1>5, <1>6, AuthBegins, UserBegins DEF Next, Advance, Lapse

\* A revoked session stays revoked, and a deleted account gets no new session.
THEOREM RevokedCorrect == Spec => RevokedStaysOut
<1>1. TypeInv /\ [Next]_vars =>
         [/\ \A s \in Sessions : session[s] # None /\ session[s].revoked =>
                session'[s] # None /\ session'[s].revoked
          /\ Exists /\ account.deleted /\ NoLogin =>
                /\ account'.deleted /\ NoLogin'
                /\ \A s \in Sessions : session[s] = None => session'[s] = None]_vars
  BY TypeStep, DeletedStays, DeletedStaysOut DEF Later
<1>2. QED
  BY <1>1, TypeInit, TypeStep, PTL DEF Spec, RevokedStaysOut

=============================================================================
