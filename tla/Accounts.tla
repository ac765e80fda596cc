------------------------------ MODULE Accounts ------------------------------
(* Local accounts: sign-in with its lockout, sessions, and the commands by    *)
(* which administrators create, change and reset accounts                     *)
(* (src/web/repository/identity.py, auth.py, auth_routes.py).                 *)
(*                                                                            *)
(* A sign-in is four transactions with password hashing in between: the user  *)
(* is read, an attempt is reserved, the success is recorded, the session is   *)
(* inserted.  An administrator's request resolves its session first and       *)
(* writes later, with the role it was admitted with.  Each write locks the    *)
(* users row it is about before it does anything else, and update_user takes  *)
(* an advisory lock as well, so that each of them is one step here.           *)
(* The CSRF tokens of a session and the text of passwords are left out.       *)
EXTENDS Integers, FiniteSets

CONSTANTS
    Users,       \* ids of the users table
    Tokens,      \* session tokens that can be issued
    Requests,    \* requests that can be in flight at once
    Roles,       \* roles: only that of an administrator is told apart here
    Limit,       \* login_failure_limit
    Lockout,     \* lockout_minutes
    Life,        \* session_hours
    Idle,        \* idle_minutes
    TouchAfter,  \* the five minutes after which last_seen_at is written
    MaxTime,     \* bound: the end of the clock
    MaxResets,   \* bound: password resets
    None         \* SQL NULL, or the absence of a row

ASSUME SettingsArePositive ==
    /\ {Limit, Lockout, Life, Idle, TouchAfter} \subseteq Nat \ {0}
    /\ MaxTime \in Nat /\ MaxResets \in Nat
ASSUME RolesKnown == "administrator" \in Roles

Times == 0..MaxTime
Passwords == 0..MaxResets

UserRow ==
    [role: Roles, active: BOOLEAN, hash: Passwords, changed: Times,
     fails: Nat, locked: Int \cup {None}]
SessionRow ==
    [user: Users, created: Times, seen: Times, expires: Nat, hash: Passwords]
SignIn ==
    [kind: {"read", "reserved", "verified"}, user: Users, at: Times,
     hash: Passwords, changed: Times]
Admitted == [kind: {"admitted"}, user: Users, role: Roles, token: Tokens,
             at: Times]

ASSUME NoneIsNoRow ==
    /\ None \notin UserRow \cup SessionRow \cup SignIn \cup Admitted
    /\ None \notin Int

VARIABLES
    users,     \* rows of users
    sessions,  \* rows of sessions, by token
    request,   \* what each request in flight has read
    clock,     \* the time
    resets,    \* passwords set by a reset so far
    stamps,    \* history: earlier values of password_changed_at
    tries      \* history: attempts since the account was last released

vars == <<users, sessions, request, clock, resets, stamps, tries>>

Known == {u \in Users : users[u] # None}
IsActiveAdmin(u) ==
    users[u] # None /\ users[u].role = "administrator" /\ users[u].active

\* Mutation: the failure count is left NULL.
NewUserUncounted(role, now) ==
    [role |-> role, active |-> TRUE, hash |-> 0, changed |-> now,
     fails |-> None, locked |-> None]
NewUser(role, now) ==
    [role |-> role, active |-> TRUE, hash |-> 0, changed |-> now,
     fails |-> 0, locked |-> None]

\* The first administrator comes from the create-user command.
Init ==
    /\ \E u \in Users : users = [v \in Users |->
            IF v = u THEN NewUser("administrator", 0) ELSE None]
    /\ sessions = [s \in Tokens |-> None]
    /\ request = [r \in Requests |-> None]
    /\ clock = 0
    /\ resets = 0
    /\ stamps = [u \in Users |-> {}]
    /\ tries = [u \in Users |-> 0]

\* A moment at which request r may have read the clock.
Moments(r) == request[r].at..clock

-----------------------------------------------------------------------------
(* Sign-in: authenticate_credentials and issue_session.                      *)

LockedAt(u, now) == users[u].locked # None /\ users[u].locked > now
LockOver(u, now) == users[u].locked # None /\ users[u].locked <= now

\* An inactive or locked account is answered like a wrong password.
ReadUser(r, u) ==
    /\ request[r] = None
    /\ u \in Known
    /\ users[u].active
    /\ ~LockedAt(u, clock)
    /\ request' = [request EXCEPT ![r] =
            [kind |-> "read", user |-> u, at |-> clock,
             hash |-> users[u].hash, changed |-> users[u].changed]]
    /\ UNCHANGED <<users, sessions, clock, resets, stamps, tries>>

\* Mutation: an expired lock does not start a new count.
FailuresKept(u, now) == users[u].fails
PreviousFailures(u, now) == IF LockOver(u, now) THEN 0 ELSE users[u].fails

\* Mutation: the lock was looked at when the user was read.
ReservableOnceRead(u, now) == users[u].active
Reservable(u, now) == users[u].active /\ ~LockedAt(u, now)

\* One UPDATE counts the attempt and locks at the limit.  The lock runs from
\* the moment the request read the clock: it may be over when it is written.
ReserveLoginAttempt(r) ==
    /\ request[r] # None /\ request[r].kind = "read"
    /\ LET u == request[r].user
           now == request[r].at
           next == PreviousFailures(u, now) + 1
           lock == IF next >= Limit THEN now + Lockout ELSE None
       IN /\ Reservable(u, now)
          /\ users' = [users EXCEPT ![u].fails = next, ![u].locked = lock]
          /\ tries' = [tries EXCEPT ![u] =
                        IF lock # None /\ lock <= clock THEN 0 ELSE @ + 1]
    /\ request' = [request EXCEPT ![r].kind = "reserved"]
    /\ UNCHANGED <<sessions, clock, resets, stamps>>

RefuseAttempt(r) ==
    /\ request[r] # None /\ request[r].kind = "read"
    /\ ~Reservable(request[r].user, request[r].at)
    /\ request' = [request EXCEPT ![r] = None]
    /\ UNCHANGED <<users, sessions, clock, resets, stamps, tries>>

\* The password is compared with the hash read at first.
WrongPassword(r) ==
    /\ request[r] # None /\ request[r].kind = "reserved"
    /\ request' = [request EXCEPT ![r] = None]
    /\ UNCHANGED <<users, sessions, clock, resets, stamps, tries>>

RecordSuccessfulLogin(r) ==
    /\ request[r] # None /\ request[r].kind = "reserved"
    /\ users' = [users EXCEPT ![request[r].user].fails = 0,
                              ![request[r].user].locked = None]
    /\ tries' = [tries EXCEPT ![request[r].user] = 0]
    /\ request' = [request EXCEPT ![r].kind = "verified"]
    /\ UNCHANGED <<sessions, clock, resets, stamps>>

\* Mutation: only the account is looked up again.
CredentialsKnown(r) == users[request[r].user] # None
CredentialsCurrent(r) == users[request[r].user].changed = request[r].changed

\* The users row is locked, then the session inserted.
CreateSession(r, s) ==
    /\ request[r] # None /\ request[r].kind = "verified"
    /\ CredentialsCurrent(r)
    /\ sessions[s] = None
    /\ sessions' = [sessions EXCEPT ![s] =
            [user |-> request[r].user, created |-> clock, seen |-> clock,
             expires |-> clock + Life, hash |-> request[r].hash]]
    /\ request' = [request EXCEPT ![r] = None]
    /\ UNCHANGED <<users, clock, resets, stamps, tries>>

CredentialsChanged(r) ==
    /\ request[r] # None /\ request[r].kind = "verified"
    /\ ~CredentialsCurrent(r)
    /\ request' = [request EXCEPT ![r] = None]
    /\ UNCHANGED <<users, sessions, clock, resets, stamps, tries>>

-----------------------------------------------------------------------------
(* Sessions: resolve_auth_context, logout and cleanup.                       *)

Predates(s) == sessions[s].created < users[sessions[s].user].changed
RunOut(s) == \/ sessions[s].expires <= clock
             \/ sessions[s].seen + Idle <= clock

\* A session of an inactive account is refused and left alone.
Usable(s) ==
    /\ sessions[s] # None
    /\ users[sessions[s].user].active
    /\ ~Predates(s)
    /\ ~RunOut(s)

\* A session that is too old for its user or for the clock is deleted.
DiscardSession(s) ==
    /\ sessions[s] # None
    /\ users[sessions[s].user].active
    /\ Predates(s) \/ RunOut(s)
    /\ sessions' = [sessions EXCEPT ![s] = None]
    /\ UNCHANGED <<users, request, clock, resets, stamps, tries>>

\* The request goes on with the user as read here.
Admit(r, s) ==
    /\ request[r] = None
    /\ Usable(s)
    /\ LET u == sessions[s].user
       IN request' = [request EXCEPT ![r] =
            [kind |-> "admitted", user |-> u, role |-> users[u].role,
             token |-> s, at |-> clock]]
    /\ sessions' = [sessions EXCEPT ![s].seen =
            IF clock - @ >= TouchAfter THEN clock ELSE @]
    /\ UNCHANGED <<users, clock, resets, stamps, tries>>

\* A request that changes no account.
Leave(r) ==
    /\ request[r] # None /\ request[r].kind = "admitted"
    /\ request' = [request EXCEPT ![r] = None]
    /\ UNCHANGED <<users, sessions, clock, resets, stamps, tries>>

Logout(r) ==
    /\ request[r] # None /\ request[r].kind = "admitted"
    /\ sessions' = [sessions EXCEPT ![request[r].token] = None]
    /\ request' = [request EXCEPT ![r] = None]
    /\ UNCHANGED <<users, clock, resets, stamps, tries>>

\* The cleanup-sessions command.
DeleteExpiredSessions ==
    /\ \E s \in Tokens : sessions[s] # None /\ sessions[s].expires <= clock
    /\ sessions' = [s \in Tokens |->
            IF sessions[s] # None /\ sessions[s].expires <= clock
            THEN None ELSE sessions[s]]
    /\ UNCHANGED <<users, request, clock, resets, stamps, tries>>

-----------------------------------------------------------------------------
(* Administration: create_user, update_user and reset_password.              *)

MayAdminister(r) ==
    /\ request[r] # None
    /\ request[r].kind = "admitted"
    /\ request[r].role = "administrator"

WithoutSessionsOf(u) ==
    [s \in Tokens |-> IF sessions[s] # None /\ sessions[s].user = u
                      THEN None ELSE sessions[s]]

\* A username taken already is refused by its unique key.
CreateUser(u, role) ==
    /\ users[u] = None
    /\ users' = [users EXCEPT ![u] = NewUser(role, clock)]
    /\ UNCHANGED <<sessions, clock, resets, stamps, tries>>

CreateUserByRequest(r, u, role) ==
    /\ MayAdminister(r)
    /\ CreateUser(u, role)
    /\ request' = [request EXCEPT ![r] = None]

\* The create-user command.
CreateUserByCommand(u, role) == CreateUser(u, role) /\ UNCHANGED request

Keeps(role, active) == role = "administrator" /\ active

\* Mutation: the target is among the administrators counted.
LastAdminCounted(actor, u, role, active) ==
    u # actor /\ ~Keeps(role, active) /\ IsActiveAdmin(u) =>
        Cardinality({v \in Users : IsActiveAdmin(v)}) > 0
LastAdminGuard(actor, u, role, active) ==
    u # actor /\ ~Keeps(role, active) /\ IsActiveAdmin(u) =>
        \E v \in Users \ {u} : IsActiveAdmin(v)

UpdateUser(r, u, role, active) ==
    /\ MayAdminister(r)
    /\ u \in Known
    /\ u = request[r].user => Keeps(role, active)
    /\ LastAdminGuard(request[r].user, u, role, active)
    /\ users' = [users EXCEPT ![u].role = role, ![u].active = active]
    /\ sessions' = IF active THEN sessions ELSE WithoutSessionsOf(u)
    /\ request' = [request EXCEPT ![r] = None]
    /\ UNCHANGED <<clock, resets, stamps, tries>>

\* The time is read before the row is locked; no two resets of an account
\* read the same microsecond.
ResetPassword(r, u) ==
    /\ MayAdminister(r)
    /\ u \in Known
    /\ resets < MaxResets
    /\ \E now \in Moments(r) \ (stamps[u] \cup {users[u].changed}) :
          users' = [users EXCEPT ![u].hash = resets + 1,
                                 ![u].changed = now,
                                 ![u].fails = 0, ![u].locked = None]
    /\ stamps' = [stamps EXCEPT ![u] = @ \cup {users[u].changed}]
    /\ sessions' = WithoutSessionsOf(u)
    /\ resets' = resets + 1
    /\ tries' = [tries EXCEPT ![u] = 0]
    /\ request' = [request EXCEPT ![r] = None]
    /\ UNCHANGED clock

\* Time passes; a lock that is over releases its account.
Tick ==
    /\ clock < MaxTime
    /\ clock' = clock + 1
    /\ tries' = [u \in Users |->
            IF u \in Known /\ LockOver(u, clock') THEN 0 ELSE tries[u]]
    /\ UNCHANGED <<users, sessions, request, resets, stamps>>

-----------------------------------------------------------------------------
Next ==
    \/ \E r \in Requests :
          \/ \E u \in Users : ReadUser(r, u)
          \/ ReserveLoginAttempt(r)
          \/ RefuseAttempt(r)
          \/ WrongPassword(r)
          \/ RecordSuccessfulLogin(r)
          \/ \E s \in Tokens : CreateSession(r, s)
          \/ CredentialsChanged(r)
          \/ \E s \in Tokens : Admit(r, s)
          \/ Leave(r)
          \/ Logout(r)
          \/ \E u \in Users, role \in Roles :
                \/ CreateUserByRequest(r, u, role)
                \/ \E active \in BOOLEAN : UpdateUser(r, u, role, active)
          \/ \E u \in Users : ResetPassword(r, u)
    \/ \E s \in Tokens : DiscardSession(s)
    \/ DeleteExpiredSessions
    \/ \E u \in Users, role \in Roles : CreateUserByCommand(u, role)
    \/ Tick

Spec == Init /\ [][Next]_vars

-----------------------------------------------------------------------------
(* Properties.                                                               *)

TypeOK ==
    /\ users \in [Users -> UserRow \cup {None}]
    /\ sessions \in [Tokens -> SessionRow \cup {None}]
    /\ request \in [Requests -> SignIn \cup Admitted \cup {None}]
    /\ clock \in Times
    /\ resets \in Passwords
    /\ stamps \in [Users -> SUBSET Times]
    /\ tries \in [Users -> Nat]

\* create_session: "either the reset commits first (the comparison fails and
\* login is rejected) or the session insert commits first and the reset's
\* session wipe removes it".  Every session row was opened with the password
\* its account has now, however sign-ins and resets overlap.
SessionsMatchPassword ==
    \A s \in Tokens : sessions[s] # None =>
        /\ sessions[s].user \in Known
        /\ sessions[s].hash = users[sessions[s].user].hash

\* "At least one active administrator must remain", although an administrator
\* may have been demoted since the request that demotes the other was admitted.
AdministratorRemains == \E u \in Users : IsActiveAdmin(u)

\* Requests that read the account together never get more attempts between
\* them than the limit: the lock is looked at again when one is reserved.
LimitHolds == \A u \in Users : tries[u] <= Limit

\* Nobody is locked out for fewer attempts than the limit: an old count does
\* not reach into the time after a lock, a success or a reset.
LockoutEarned ==
    \A u \in Known : LockedAt(u, clock) => tries[u] >= Limit

=============================================================================
