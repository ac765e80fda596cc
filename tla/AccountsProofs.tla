---------------------------- MODULE AccountsProofs ----------------------------
(* Proofs about accounts, sign-ins and sessions, for any number of users,     *)
(* tokens and requests, and any limit, lockout and lifetime.                  *)
EXTENDS Accounts, TLAPS

-----------------------------------------------------------------------------
(* The inductive invariant.                                                  *)

\* What a sign-in read of its user: a password_changed_at the account has or
\* has had, and, while the account still has it, the hash it has.
SignInsStand ==
    \A r \in Requests : request[r] \in SignIn =>
        /\ request[r].user \in Known
        /\ request[r].changed \in stamps[request[r].user]
                                     \cup {users[request[r].user].changed}
        /\ request[r].changed = users[request[r].user].changed =>
              request[r].hash = users[request[r].user].hash

\* A request has read the clock at some time before now.
RequestsDated ==
    \A r \in Requests : request[r] # None => request[r].at <= clock

\* The count of an account that is not locked is its attempts, and below the
\* limit; a lock that stands was reached by exactly the limit of attempts.
Counted(u) ==
    \/ users[u] = None /\ tries[u] = 0
    \/ /\ users[u] # None /\ users[u].locked = None
       /\ tries[u] = users[u].fails
       /\ users[u].fails < Limit
    \/ users[u] # None /\ LockedAt(u, clock) /\ tries[u] = Limit
    \/ users[u] # None /\ LockOver(u, clock) /\ tries[u] = 0
AttemptsCounted == \A u \in Users : Counted(u)

IInv ==
    /\ TypeOK
    /\ SessionsMatchPassword
    /\ AdministratorRemains
    /\ SignInsStand
    /\ RequestsDated
    /\ AttemptsCounted

-----------------------------------------------------------------------------
(* Rows.                                                                     *)

LEMMA RowsExist ==
    /\ \A row \in UserRow : row # None
    /\ \A row \in SessionRow : row # None
    /\ \A row \in SignIn : row # None /\ row \notin Admitted
    /\ \A row \in Admitted : row # None /\ row.kind = "admitted"
    /\ \A row \in SignIn : row.kind \in {"read", "reserved", "verified"}
  BY NoneIsNoRow DEF SignIn, Admitted

LEMMA KnownRow ==
    ASSUME TypeOK, NEW u \in Known
    PROVE  /\ u \in Users
           /\ users[u] \in UserRow
           /\ users[u].role \in Roles
           /\ users[u].active \in BOOLEAN
           /\ users[u].hash \in Passwords
           /\ users[u].changed \in Times
           /\ users[u].fails \in Nat
           /\ users[u].locked \in Int \cup {None}
  BY DEF TypeOK, Known, UserRow

LEMMA RequestRow ==
    ASSUME TypeOK, NEW r \in Requests, request[r] # None
    PROVE  /\ request[r].kind = "admitted" => request[r] \in Admitted
           /\ request[r].kind # "admitted" => request[r] \in SignIn
           /\ request[r].at \in Times
<1>1. request[r] \in SignIn \cup Admitted
  BY DEF TypeOK
<1> QED
  BY <1>1, RowsExist DEF SignIn, Admitted

LEMMA NewUserRow ==
    ASSUME NEW role \in Roles, NEW now \in Times
    PROVE  /\ NewUser(role, now) \in UserRow
           /\ NewUser(role, now).role = role
           /\ NewUser(role, now).active = TRUE
           /\ NewUser(role, now).fails = 0
           /\ NewUser(role, now).locked = None
  BY SettingsArePositive DEF NewUser, UserRow, Passwords

\* What locked_until may be.
Locks == Int \cup {None}

\* A row with its counters written.
WithCounters(row, fails, locked) ==
    [row EXCEPT !.fails = fails, !.locked = locked]

LEMMA CountersRow ==
    ASSUME NEW row \in UserRow, NEW fails \in Nat,
           NEW locked \in Locks
    PROVE  /\ WithCounters(row, fails, locked) \in UserRow
           /\ WithCounters(row, fails, locked).role = row.role
           /\ WithCounters(row, fails, locked).active = row.active
           /\ WithCounters(row, fails, locked).hash = row.hash
           /\ WithCounters(row, fails, locked).changed = row.changed
           /\ WithCounters(row, fails, locked).fails = fails
           /\ WithCounters(row, fails, locked).locked = locked
<1> DEFINE new == WithCounters(row, fails, locked)
<1>1. new \in UserRow
  BY DEF UserRow, WithCounters, Locks
<1>2. /\ new.role = row.role /\ new.hash = row.hash
      /\ new.changed = row.changed /\ new.fails = fails
      /\ new.locked = locked
  BY DEF UserRow, WithCounters
<1>3. new.active = row.active
  BY DEF UserRow, WithCounters
<1> QED
  BY <1>1, <1>2, <1>3, Zenon

\* One row of users is written.
LEMMA UserWritten ==
    ASSUME TypeOK, NEW u \in Users, NEW row \in UserRow,
           users' = [users EXCEPT ![u] = row]
    PROVE  /\ users' \in [Users -> UserRow \cup {None}]
           /\ users'[u] = row
           /\ \A v \in Users : v # u => users'[v] = users[v]
           /\ Known' = Known \cup {u}
  BY RowsExist DEF TypeOK, Known

-----------------------------------------------------------------------------
(* Steps that write no account: rows of sessions and requests go.            *)

\* Sessions and requests that are gone have nothing to keep.
LEMMA FewerStep ==
    ASSUME IInv,
           sessions' \in [Tokens -> SessionRow \cup {None}],
           request' \in [Requests -> SignIn \cup Admitted \cup {None}],
           \A s \in Tokens : sessions'[s] \in {None, sessions[s]},
           \A r \in Requests : request'[r] \in {None, request[r]},
           UNCHANGED <<users, clock, resets, stamps, tries>>
    PROVE  IInv'
<1>1. TypeOK'
  BY DEF IInv, TypeOK
<1>2. Known' = Known
  BY DEF Known
<1>3. SessionsMatchPassword'
  BY <1>2 DEF IInv, SessionsMatchPassword
<1>4. AdministratorRemains'
  BY DEF IInv, AdministratorRemains, IsActiveAdmin
<1>5. SignInsStand'
  BY <1>2, RowsExist DEF IInv, SignInsStand
<1>6. RequestsDated'
  BY DEF IInv, RequestsDated
<1>7. AttemptsCounted'
  BY DEF IInv, AttemptsCounted, Counted, LockedAt, LockOver
<1> QED
  BY <1>1, <1>3, <1>4, <1>5, <1>6, <1>7 DEF IInv

LEMMA RequestEnds ==
    ASSUME IInv, NEW r \in Requests, request' = [request EXCEPT ![r] = None],
           UNCHANGED <<users, sessions, clock, resets, stamps, tries>>
    PROVE  IInv'
<1>1. /\ sessions' \in [Tokens -> SessionRow \cup {None}]
      /\ request' \in [Requests -> SignIn \cup Admitted \cup {None}]
      /\ \A q \in Requests : request'[q] \in {None, request[q]}
  BY DEF IInv, TypeOK
<1> QED
  BY <1>1, FewerStep

LEMMA LogoutStep ==
    ASSUME IInv, NEW r \in Requests, Logout(r)
    PROVE  IInv'
<1>1. /\ sessions' \in [Tokens -> SessionRow \cup {None}]
      /\ request' \in [Requests -> SignIn \cup Admitted \cup {None}]
      /\ \A s \in Tokens : sessions'[s] \in {None, sessions[s]}
      /\ \A q \in Requests : request'[q] \in {None, request[q]}
  BY DEF IInv, TypeOK, Logout
<1> QED
  BY <1>1, FewerStep DEF Logout

LEMMA DiscardStep ==
    ASSUME IInv, NEW s \in Tokens, DiscardSession(s)
    PROVE  IInv'
<1>1. /\ sessions' \in [Tokens -> SessionRow \cup {None}]
      /\ request' \in [Requests -> SignIn \cup Admitted \cup {None}]
      /\ \A t \in Tokens : sessions'[t] \in {None, sessions[t]}
  BY DEF IInv, TypeOK, DiscardSession
<1> QED
  BY <1>1, FewerStep DEF DiscardSession

LEMMA CleanupStep ==
    ASSUME IInv, DeleteExpiredSessions
    PROVE  IInv'
<1>1. /\ sessions' \in [Tokens -> SessionRow \cup {None}]
      /\ request' \in [Requests -> SignIn \cup Admitted \cup {None}]
      /\ \A t \in Tokens : sessions'[t] \in {None, sessions[t]}
  BY DEF IInv, TypeOK, DeleteExpiredSessions
<1> QED
  BY <1>1, FewerStep DEF DeleteExpiredSessions

LEMMA StutterStep ==
    ASSUME IInv, UNCHANGED vars
    PROVE  IInv'
<1>1. /\ sessions' \in [Tokens -> SessionRow \cup {None}]
      /\ request' \in [Requests -> SignIn \cup Admitted \cup {None}]
  BY DEF IInv, TypeOK, vars
<1> QED
  BY <1>1, FewerStep DEF vars

-----------------------------------------------------------------------------
(* Steps that write no account: rows are read into requests and sessions.    *)

\* A request is given a row that stands, and no account gets a new password.
LEMMA RequestWritten ==
    ASSUME IInv, NEW r \in Requests, NEW row \in SignIn \cup Admitted,
           request' = [request EXCEPT ![r] = row],
           row.at <= clock,
           row \in SignIn =>
              /\ row.user \in Known
              /\ row.changed \in stamps[row.user] \cup {users[row.user].changed}
              /\ row.changed = users[row.user].changed =>
                    row.hash = users[row.user].hash,
           \A v \in Known : /\ v \in Known'
                            /\ users'[v].hash = users[v].hash
                            /\ users'[v].changed = users[v].changed,
           UNCHANGED <<clock, stamps>>
    PROVE  /\ request' \in [Requests -> SignIn \cup Admitted \cup {None}]
           /\ SignInsStand'
           /\ RequestsDated'
<1>1. /\ request'[r] = row
      /\ \A q \in Requests : q # r => request'[q] = request[q]
      /\ request' \in [Requests -> SignIn \cup Admitted \cup {None}]
  BY DEF IInv, TypeOK
<1>2. ASSUME NEW q \in Requests, request'[q] \in SignIn
      PROVE  /\ request'[q].user \in Known
             /\ request'[q].changed \in stamps[request'[q].user]
                                          \cup {users[request'[q].user].changed}
             /\ request'[q].changed = users[request'[q].user].changed =>
                   request'[q].hash = users[request'[q].user].hash
  <2>1. CASE q = r
    BY <1>1, <1>2, <2>1
  <2>2. CASE q # r
    BY <1>1, <1>2, <2>2 DEF IInv, SignInsStand
  <2> QED
    BY <2>1, <2>2
<1>3. RequestsDated'
  BY <1>1 DEF IInv, RequestsDated
<1> QED
  BY <1>1, <1>2, <1>3 DEF SignInsStand

LEMMA ReadStep ==
    ASSUME IInv, NEW r \in Requests, NEW u \in Users, ReadUser(r, u)
    PROVE  IInv'
<1> DEFINE row == [kind |-> "read", user |-> u, at |-> clock,
                   hash |-> users[u].hash, changed |-> users[u].changed]
<1>1. u \in Known /\ request' = [request EXCEPT ![r] = row]
  BY DEF ReadUser
<1>2. row \in SignIn
  BY <1>1, KnownRow DEF IInv, TypeOK, SignIn
<1>3. /\ row.user = u
      /\ row.changed = users[u].changed
      /\ row.hash = users[u].hash
      /\ row.at <= clock
  BY DEF IInv, TypeOK, Times
<1> HIDE DEF row
<1>4. /\ request' \in [Requests -> SignIn \cup Admitted \cup {None}]
      /\ SignInsStand'
      /\ RequestsDated'
  <2>1. /\ Known' = Known
        /\ UNCHANGED <<users, clock, stamps>>
    BY DEF ReadUser, Known
  <2> QED
    BY <1>1, <1>2, <1>3, <2>1, RequestWritten
<1>5. TypeOK'
  BY <1>4 DEF IInv, TypeOK, ReadUser
<1>6. /\ SessionsMatchPassword'
      /\ AdministratorRemains'
      /\ AttemptsCounted'
  BY DEF IInv, ReadUser, SessionsMatchPassword, Known, AdministratorRemains,
         IsActiveAdmin, AttemptsCounted, Counted, LockedAt, LockOver
<1> QED
  BY <1>4, <1>5, <1>6 DEF IInv

LEMMA AdmitStep ==
    ASSUME IInv, NEW r \in Requests, NEW s \in Tokens, Admit(r, s)
    PROVE  IInv'
<1> DEFINE u == sessions[s].user
           row == [kind |-> "admitted", user |-> u, role |-> users[u].role,
                   token |-> s, at |-> clock]
<1>1. sessions[s] \in SessionRow /\ u \in Known
  BY DEF IInv, TypeOK, SessionsMatchPassword, Admit, Usable
<1>2. row \in Admitted
  BY <1>1, KnownRow DEF IInv, TypeOK, Admitted
<1>3. request' = [request EXCEPT ![r] = row] /\ row.at <= clock
  BY DEF Admit, IInv, TypeOK, Times
<1> HIDE DEF row
<1>4. Known' = Known /\ UNCHANGED <<users, clock, stamps>>
  BY DEF Admit, Known
<1>5. /\ request' \in [Requests -> SignIn \cup Admitted \cup {None}]
      /\ SignInsStand'
      /\ RequestsDated'
  BY <1>2, <1>3, <1>4, RowsExist, RequestWritten
<1>6. /\ sessions'[s] \in SessionRow
      /\ sessions'[s].user = sessions[s].user
      /\ sessions'[s].hash = sessions[s].hash
      /\ \A t \in Tokens : t # s => sessions'[t] = sessions[t]
      /\ sessions' \in [Tokens -> SessionRow \cup {None}]
  BY <1>1 DEF IInv, TypeOK, SessionRow, Admit
<1>7. TypeOK'
  BY <1>5, <1>6 DEF IInv, TypeOK, Admit
<1>8. SessionsMatchPassword'
  BY <1>1, <1>4, <1>6, RowsExist DEF IInv, SessionsMatchPassword
<1>9. AdministratorRemains' /\ AttemptsCounted'
  BY DEF IInv, Admit, AdministratorRemains, IsActiveAdmin, AttemptsCounted,
         Counted, LockedAt, LockOver
<1> QED
  BY <1>5, <1>7, <1>8, <1>9 DEF IInv

\* The session is opened with the hash that the account still has.
LEMMA CreateSessionStep ==
    ASSUME IInv, NEW r \in Requests, NEW s \in Tokens, CreateSession(r, s)
    PROVE  IInv'
<1> DEFINE u == request[r].user
           row == [user |-> u, created |-> clock, seen |-> clock,
                   expires |-> clock + Life, hash |-> request[r].hash]
<1>1. request[r] \in SignIn
  BY RequestRow DEF IInv, CreateSession
<1>2. u \in Known /\ request[r].hash = users[u].hash
  BY <1>1 DEF IInv, SignInsStand, CreateSession, CredentialsCurrent
<1>3. row \in SessionRow
  <2>1. clock \in Times /\ clock + Life \in Nat
    BY SettingsArePositive DEF IInv, TypeOK, Times
  <2> QED
    BY <1>1, <2>1 DEF SignIn, SessionRow
<1>4. row.user = u /\ row.hash = request[r].hash
  OBVIOUS
<1>5. sessions' = [sessions EXCEPT ![s] = row]
  BY DEF CreateSession
<1> HIDE DEF row
<1>6. /\ sessions' \in [Tokens -> SessionRow \cup {None}]
      /\ sessions'[s] = row
      /\ \A t \in Tokens : t # s => sessions'[t] = sessions[t]
  BY <1>3, <1>5 DEF IInv, TypeOK
<1>7. /\ request' \in [Requests -> SignIn \cup Admitted \cup {None}]
      /\ \A q \in Requests : request'[q] \in {None, request[q]}
  BY DEF IInv, TypeOK, CreateSession
<1>8. TypeOK'
  BY <1>6, <1>7 DEF IInv, TypeOK, CreateSession
<1>9. Known' = Known /\ users' = users /\ stamps' = stamps
  BY DEF CreateSession, Known
<1>10. SessionsMatchPassword'
  BY <1>2, <1>4, <1>6, <1>9 DEF IInv, SessionsMatchPassword
<1>11. SignInsStand' /\ RequestsDated'
  BY <1>7, <1>9, RowsExist
  DEF IInv, SignInsStand, RequestsDated, CreateSession
<1>12. AdministratorRemains' /\ AttemptsCounted'
  BY DEF IInv, CreateSession, AdministratorRemains, IsActiveAdmin,
         AttemptsCounted, Counted, LockedAt, LockOver
<1> QED
  BY <1>8, <1>10, <1>11, <1>12 DEF IInv

-----------------------------------------------------------------------------
(* Attempts.                                                                 *)

\* A write of the counters of one account leaves administrators and sessions.
LEMMA CountersWritten ==
    ASSUME IInv, NEW u \in Known, NEW fails \in Nat,
           NEW locked \in Locks,
           users' = [users EXCEPT ![u] = WithCounters(users[u], fails, locked)],
           sessions' = sessions
    PROVE  /\ users' \in [Users -> UserRow \cup {None}]
           /\ Known' = Known
           /\ users'[u].fails = fails
           /\ users'[u].locked = locked
           /\ \A v \in Users : v # u => users'[v] = users[v]
           /\ \A v \in Known : /\ users'[v].hash = users[v].hash
                               /\ users'[v].changed = users[v].changed
           /\ SessionsMatchPassword'
           /\ AdministratorRemains'
<1> DEFINE row == WithCounters(users[u], fails, locked)
<1>1. u \in Users /\ users[u] \in UserRow
  BY KnownRow DEF IInv
<1>2. /\ row \in UserRow
      /\ row.role = users[u].role
      /\ row.hash = users[u].hash
      /\ row.changed = users[u].changed
      /\ row.fails = fails
      /\ row.locked = locked
      /\ row.active = users[u].active
  BY <1>1, CountersRow
<1>3. users' = [users EXCEPT ![u] = row]
  OBVIOUS
<1> HIDE DEF row
<1>4. /\ users' \in [Users -> UserRow \cup {None}]
      /\ users'[u] = row
      /\ \A v \in Users : v # u => users'[v] = users[v]
      /\ Known' = Known
  <2>1. /\ users' \in [Users -> UserRow \cup {None}]
        /\ users'[u] = row
        /\ \A v \in Users : v # u => users'[v] = users[v]
        /\ Known' = Known \cup {u}
    BY <1>1, <1>2, <1>3, UserWritten DEF IInv
  <2> QED
    BY <2>1
<1>5. \A v \in Known : /\ users'[v].hash = users[v].hash
                       /\ users'[v].changed = users[v].changed
                       /\ users'[v].role = users[v].role
  BY <1>2, <1>4, Zenon DEF Known
<1>6. \A v \in Known : users'[v].active = users[v].active
  BY <1>2, <1>4, Zenon DEF Known
<1>7. SessionsMatchPassword'
  BY <1>4, <1>5 DEF IInv, SessionsMatchPassword
<1>8. AdministratorRemains'
  <2>1. PICK v \in Users : IsActiveAdmin(v)
    BY DEF IInv, AdministratorRemains
  <2>2. v \in Known /\ users[v].role = "administrator" /\ users[v].active
    BY <2>1 DEF IsActiveAdmin, Known
  <2>3. users'[v].active
    BY <1>6, <2>2, Zenon
  <2> QED
    BY <1>4, <1>5, <2>2, <2>3
    DEF AdministratorRemains, IsActiveAdmin, Known
<1> QED
  BY <1>2, <1>4, <1>5, <1>7, <1>8

LEMMA SignInMoves ==
    ASSUME NEW row \in SignIn, NEW kind \in {"read", "reserved", "verified"}
    PROVE  /\ [row EXCEPT !.kind = kind] \in SignIn
           /\ [row EXCEPT !.kind = kind].user = row.user
           /\ [row EXCEPT !.kind = kind].changed = row.changed
           /\ [row EXCEPT !.kind = kind].hash = row.hash
  BY DEF SignIn

\* An attempt is one more, and the last one the limit allows locks the account;
\* a lock that has run out by now releases it at once.
LEMMA ReserveStep ==
    ASSUME IInv, NEW r \in Requests, ReserveLoginAttempt(r)
    PROVE  IInv'
<1> DEFINE u == request[r].user
           now == request[r].at
           next == PreviousFailures(u, now) + 1
           lock == IF next >= Limit THEN now + Lockout ELSE None
           row == [request[r] EXCEPT !.kind = "reserved"]
<1>1. request[r] \in SignIn
  BY RequestRow DEF IInv, ReserveLoginAttempt
<1>2. u \in Known
  BY <1>1 DEF IInv, SignInsStand
<1>3. /\ users[u].fails \in Nat
      /\ users[u].locked \in Int \cup {None}
      /\ u \in Users
  BY <1>2, KnownRow DEF IInv
<1>4. now \in Nat /\ clock \in Nat /\ Lockout \in Nat /\ Limit \in Nat \ {0}
  BY <1>1, SettingsArePositive DEF SignIn, Times, IInv, TypeOK
<1>5. next \in Nat /\ lock \in Locks
  BY <1>3, <1>4 DEF PreviousFailures, Locks
<1>6. /\ ~LockedAt(u, now)
      /\ tries' = [tries EXCEPT ![u] =
                     IF lock # None /\ lock <= clock THEN 0 ELSE @ + 1]
      /\ request' = [request EXCEPT ![r] = row]
      /\ UNCHANGED <<sessions, clock, resets, stamps>>
  BY DEF ReserveLoginAttempt, Reservable
<1>7. tries[u] \in Nat
  BY <1>3 DEF IInv, TypeOK
<1>8. Counted(u)
  BY <1>3 DEF IInv, AttemptsCounted
<1>9. tries[u] + 1 = next /\ next <= Limit
  <2>1. CASE users[u].locked = None
    BY <1>2, <1>3, <1>4, <1>7, <1>8, <2>1, NoneIsNoRow
    DEF Counted, LockedAt, LockOver, PreviousFailures, Known
  <2>2. CASE users[u].locked # None
    <3>1. users[u].locked \in Int /\ users[u].locked <= now
      BY <1>3, <1>4, <1>6, <2>2 DEF LockedAt
    <3>2. next = 1
      BY <2>2, <3>1 DEF PreviousFailures, LockOver
    <3>3. now <= clock
      BY <1>1, RowsExist DEF IInv, RequestsDated
    <3>4. tries[u] = 0
      BY <1>2, <1>4, <1>8, <2>2, <3>1, <3>3 DEF Counted, LockedAt, Known
    <3> QED
      BY <1>4, <3>2, <3>4
  <2> QED
    BY <2>1, <2>2
<1>10. /\ users' \in [Users -> UserRow \cup {None}]
       /\ Known' = Known
       /\ users'[u].fails = next
       /\ users'[u].locked = lock
       /\ \A v \in Users : v # u => users'[v] = users[v]
       /\ \A v \in Known : /\ users'[v].hash = users[v].hash
                           /\ users'[v].changed = users[v].changed
       /\ SessionsMatchPassword'
       /\ AdministratorRemains'
  <2>1. users' = [users EXCEPT ![u] = WithCounters(users[u], next, lock)]
    BY <1>3 DEF IInv, TypeOK, ReserveLoginAttempt, WithCounters
  <2> HIDE DEF next, lock
  <2> QED
    BY <1>2, <1>5, <1>6, <2>1, CountersWritten, Zenon
<1>11. /\ row \in SignIn
       /\ row.user = u
       /\ row.changed = request[r].changed
       /\ row.hash = request[r].hash
       /\ row.at = now
  BY <1>1 DEF SignIn
<1>12. /\ request' \in [Requests -> SignIn \cup Admitted \cup {None}]
       /\ SignInsStand'
       /\ RequestsDated'
  <2>1. /\ row.user \in Known
        /\ row.changed \in stamps[row.user] \cup {users[row.user].changed}
        /\ row.changed = users[row.user].changed =>
              row.hash = users[row.user].hash
        /\ row.at <= clock
    BY <1>1, <1>11, RowsExist DEF IInv, SignInsStand, RequestsDated
  <2> HIDE DEF row
  <2> QED
    BY <1>6, <1>10, <1>11, <2>1, RequestWritten
<1>13. TypeOK'
  <2>1. tries' \in [Users -> Nat]
    <3> DEFINE count == IF lock # None /\ lock <= clock
                        THEN 0 ELSE tries[u] + 1
    <3>1. count \in Nat
      BY <1>7
    <3>2. tries' = [tries EXCEPT ![u] = count]
      BY <1>6
    <3> HIDE DEF count
    <3> QED
      BY <3>1, <3>2 DEF IInv, TypeOK
  <2> QED
    BY <1>6, <1>10, <1>12, <2>1 DEF IInv, TypeOK
<1>14. ASSUME NEW v \in Users PROVE Counted(v)'
  <2>1. CASE v # u
    BY <1>6, <1>10, <2>1
    DEF IInv, TypeOK, AttemptsCounted, Counted, LockedAt, LockOver
  <2>2. CASE v = u
    <3>1. users'[u] # None
      BY <1>2, <1>10 DEF Known
    <3>2. tries'[u] = IF lock # None /\ lock <= clock THEN 0 ELSE next
      BY <1>3, <1>6, <1>9 DEF IInv, TypeOK
    <3>3. lock # None => lock \in Int /\ next = Limit
      BY <1>4, <1>5, <1>9 DEF Locks
    <3>4. lock = None => next < Limit
      BY <1>4, <1>5, <1>9, NoneIsNoRow
    <3> HIDE DEF next, lock
    <3> QED
      BY <1>4, <1>6, <1>10, <2>2, <3>1, <3>2, <3>3, <3>4
      DEF Counted, LockedAt, LockOver
  <2> QED
    BY <2>1, <2>2
<1> QED
  BY <1>10, <1>12, <1>13, <1>14 DEF IInv, AttemptsCounted

\* A success releases the account.
LEMMA SuccessStep ==
    ASSUME IInv, NEW r \in Requests, RecordSuccessfulLogin(r)
    PROVE  IInv'
<1> DEFINE u == request[r].user
           row == [request[r] EXCEPT !.kind = "verified"]
<1>1. request[r] \in SignIn
  BY RequestRow DEF IInv, RecordSuccessfulLogin
<1>2. u \in Known /\ u \in Users
  BY <1>1 DEF IInv, SignInsStand, Known
<1>3. /\ tries' = [tries EXCEPT ![u] = 0]
      /\ request' = [request EXCEPT ![r] = row]
      /\ UNCHANGED <<sessions, clock, resets, stamps>>
  BY DEF RecordSuccessfulLogin
<1>4. /\ users' \in [Users -> UserRow \cup {None}]
      /\ Known' = Known
      /\ users'[u].fails = 0
      /\ users'[u].locked = None
      /\ \A v \in Users : v # u => users'[v] = users[v]
      /\ \A v \in Known : /\ users'[v].hash = users[v].hash
                          /\ users'[v].changed = users[v].changed
      /\ SessionsMatchPassword'
      /\ AdministratorRemains'
  <2>1. users' = [users EXCEPT ![u] = WithCounters(users[u], 0, None)]
    BY <1>2 DEF IInv, TypeOK, RecordSuccessfulLogin, WithCounters
  <2>2. None \in Locks
    BY DEF Locks
  <2> QED
    BY <1>2, <1>3, <2>1, <2>2, CountersWritten
<1>5. /\ row \in SignIn
      /\ row.user = u
      /\ row.changed = request[r].changed
      /\ row.hash = request[r].hash
      /\ row.at = request[r].at
  BY <1>1 DEF SignIn
<1>6. /\ request' \in [Requests -> SignIn \cup Admitted \cup {None}]
      /\ SignInsStand'
      /\ RequestsDated'
  <2>1. /\ row.user \in Known
        /\ row.changed \in stamps[row.user] \cup {users[row.user].changed}
        /\ row.changed = users[row.user].changed =>
              row.hash = users[row.user].hash
        /\ row.at <= clock
    BY <1>1, <1>5, RowsExist DEF IInv, SignInsStand, RequestsDated
  <2> HIDE DEF row
  <2> QED
    BY <1>3, <1>4, <1>5, <2>1, RequestWritten
<1>7. TypeOK'
  BY <1>3, <1>4, <1>6 DEF IInv, TypeOK
<1>8. ASSUME NEW v \in Users PROVE Counted(v)'
  <2>1. CASE v # u
    BY <1>3, <1>4, <2>1
    DEF IInv, TypeOK, AttemptsCounted, Counted, LockedAt, LockOver
  <2>2. CASE v = u
    BY <1>2, <1>3, <1>4, <2>2, SettingsArePositive
    DEF IInv, TypeOK, Counted, Known
  <2> QED
    BY <2>1, <2>2
<1> QED
  BY <1>4, <1>6, <1>7, <1>8 DEF IInv, AttemptsCounted

\* Time passes: a lock that runs out releases its account.
LEMMA TickStep ==
    ASSUME IInv, Tick
    PROVE  IInv'
<1>1. /\ clock \in Nat
      /\ clock' = clock + 1
      /\ clock' \in Times
  BY SettingsArePositive DEF IInv, TypeOK, Times, Tick
<1>2. UNCHANGED <<users, sessions, request, resets, stamps>>
  BY DEF Tick
<1>3. \A u \in Users :
         /\ tries[u] \in Nat
         /\ tries'[u] = IF u \in Known /\ LockOver(u, clock') THEN 0
                        ELSE tries[u]
  BY DEF IInv, TypeOK, Tick
<1>4. TypeOK'
  <2>1. tries' \in [Users -> Nat]
    <3>1. tries' = [u \in Users |-> tries'[u]]
      BY DEF Tick
    <3>2. \A u \in Users : tries'[u] \in Nat
      BY <1>3
    <3> QED
      BY <3>1, <3>2
  <2> QED
    BY <1>1, <1>2, <2>1 DEF IInv, TypeOK
<1>5. SessionsMatchPassword' /\ AdministratorRemains'
  BY <1>2 DEF IInv, SessionsMatchPassword, AdministratorRemains,
              IsActiveAdmin, Known
<1>6. SignInsStand'
  BY <1>2 DEF IInv, SignInsStand, Known
<1>7. RequestsDated'
  BY <1>1, <1>2, RequestRow DEF IInv, RequestsDated, Times
<1>8. ASSUME NEW u \in Users PROVE Counted(u)'
  <2>1. Counted(u)
    BY DEF IInv, AttemptsCounted
  <2>2. CASE users[u] = None \/ users[u].locked = None
    BY <1>1, <1>2, <1>3, <2>1, <2>2
    DEF Counted, LockedAt, LockOver, Known
  <2>3. CASE users[u] # None /\ users[u].locked # None
    <3>1. users[u].locked \in Int
      BY <2>3, KnownRow DEF IInv, Known
    <3> QED
      BY <1>1, <1>2, <1>3, <2>1, <2>3, <3>1
      DEF Counted, LockedAt, LockOver, Known
  <2> QED
    BY <2>2, <2>3
<1> QED
  BY <1>4, <1>5, <1>6, <1>7, <1>8 DEF IInv, AttemptsCounted

-----------------------------------------------------------------------------
(* Administration.                                                           *)

\* A new account is known from then on and touches nobody else.
LEMMA CreateUserStep ==
    ASSUME IInv, NEW u \in Users, NEW role \in Roles, CreateUser(u, role),
           request' \in [Requests -> SignIn \cup Admitted \cup {None}],
           \A r \in Requests : request'[r] \in {None, request[r]}
    PROVE  IInv'
<1> DEFINE row == NewUser(role, clock)
<1>1. row \in UserRow /\ row.fails = 0 /\ row.locked = None
  BY NewUserRow DEF IInv, TypeOK
<1>2. /\ users[u] = None
      /\ users' = [users EXCEPT ![u] = row]
      /\ UNCHANGED <<sessions, clock, resets, stamps, tries>>
  BY DEF CreateUser
<1> HIDE DEF row
<1>3. /\ users' \in [Users -> UserRow \cup {None}]
      /\ users'[u] = row
      /\ \A v \in Users : v # u => users'[v] = users[v]
      /\ Known' = Known \cup {u}
  BY <1>1, <1>2, UserWritten DEF IInv
<1>4. \A v \in Known : v \in Known' /\ users'[v] = users[v]
  BY <1>2, <1>3 DEF Known
<1>5. TypeOK'
  BY <1>2, <1>3 DEF IInv, TypeOK
<1>6. SessionsMatchPassword'
  BY <1>2, <1>4 DEF IInv, SessionsMatchPassword
<1>7. AdministratorRemains'
  BY <1>4 DEF IInv, AdministratorRemains, IsActiveAdmin, Known
<1>8. SignInsStand'
  BY <1>2, <1>4, RowsExist DEF IInv, SignInsStand
<1>9. RequestsDated'
  BY <1>2 DEF IInv, RequestsDated
<1>10. ASSUME NEW v \in Users PROVE Counted(v)'
  <2>1. CASE v # u
    BY <1>2, <1>3, <2>1
    DEF IInv, TypeOK, AttemptsCounted, Counted, LockedAt, LockOver
  <2>2. CASE v = u
    <3>1. tries[u] = 0
      BY <1>2 DEF IInv, AttemptsCounted, Counted
    <3> QED
      BY <1>1, <1>2, <1>3, <2>2, <3>1, RowsExist, SettingsArePositive
      DEF Counted
  <2> QED
    BY <2>1, <2>2
<1> QED
  BY <1>5, <1>6, <1>7, <1>8, <1>9, <1>10 DEF IInv, AttemptsCounted

LEMMA CreateByRequestStep ==
    ASSUME IInv, NEW r \in Requests, NEW u \in Users, NEW role \in Roles,
           CreateUserByRequest(r, u, role)
    PROVE  IInv'
<1>1. /\ request' \in [Requests -> SignIn \cup Admitted \cup {None}]
      /\ \A q \in Requests : request'[q] \in {None, request[q]}
  BY DEF IInv, TypeOK, CreateUserByRequest
<1> QED
  BY <1>1, CreateUserStep DEF CreateUserByRequest

LEMMA CreateByCommandStep ==
    ASSUME IInv, NEW u \in Users, NEW role \in Roles,
           CreateUserByCommand(u, role)
    PROVE  IInv'
<1>1. /\ request' \in [Requests -> SignIn \cup Admitted \cup {None}]
      /\ \A q \in Requests : request'[q] \in {None, request[q]}
  BY DEF IInv, TypeOK, CreateUserByCommand
<1> QED
  BY <1>1, CreateUserStep DEF CreateUserByCommand

\* A row with its role and its activity written.
WithRole(row, role, active) == [row EXCEPT !.role = role, !.active = active]

LEMMA RoleRow ==
    ASSUME NEW row \in UserRow, NEW role \in Roles, NEW active \in BOOLEAN
    PROVE  /\ WithRole(row, role, active) \in UserRow
           /\ WithRole(row, role, active).role = role
           /\ WithRole(row, role, active).active = active
           /\ WithRole(row, role, active).hash = row.hash
           /\ WithRole(row, role, active).changed = row.changed
           /\ WithRole(row, role, active).fails = row.fails
           /\ WithRole(row, role, active).locked = row.locked
<1> DEFINE mid == [row EXCEPT !.role = role]
           new == [mid EXCEPT !.active = active]
<1>1. /\ mid \in UserRow
      /\ mid.role = role
      /\ mid.hash = row.hash
      /\ mid.changed = row.changed
      /\ mid.fails = row.fails
      /\ mid.locked = row.locked
  BY DEF UserRow
<1>2. WithRole(row, role, active) = new
  BY DEF UserRow, WithRole
<1> HIDE DEF mid
<1> DEFINE full == [role |-> mid.role, active |-> active, hash |-> mid.hash,
                    changed |-> mid.changed, fails |-> mid.fails,
                    locked |-> mid.locked]
<1>3. new = full
  BY <1>1 DEF UserRow
<1>4. full \in UserRow
  BY <1>1 DEF UserRow
<1>5. /\ full.role = mid.role /\ full.hash = mid.hash
      /\ full.changed = mid.changed /\ full.fails = mid.fails
      /\ full.locked = mid.locked
  OBVIOUS
<1>6. full.active = active
  OBVIOUS
<1> HIDE DEF new, full
<1> QED
  BY <1>1, <1>2, <1>3, <1>4, <1>5, <1>6, Zenon

\* Whoever is demoted or deactivated leaves an active administrator: themselves
\* if they stay one, the actor's own row kept, or one who is another.
LEMMA UpdateStep ==
    ASSUME IInv, NEW r \in Requests, NEW u \in Users, NEW role \in Roles,
           NEW active \in BOOLEAN, UpdateUser(r, u, role, active)
    PROVE  IInv'
<1> DEFINE row == WithRole(users[u], role, active)
<1>1. u \in Known /\ users[u] \in UserRow
  BY KnownRow DEF IInv, UpdateUser
<1>2. /\ row \in UserRow
      /\ row.role = role
      /\ row.hash = users[u].hash
      /\ row.changed = users[u].changed
      /\ row.fails = users[u].fails
      /\ row.locked = users[u].locked
  BY <1>1, RoleRow
<1>3. row.active = active
  BY <1>1, RoleRow
<1>4. users' = [users EXCEPT ![u] = row]
  BY <1>1 DEF IInv, TypeOK, UpdateUser, WithRole
<1>5. UNCHANGED <<clock, resets, stamps, tries>>
  BY DEF UpdateUser
<1> HIDE DEF row
<1>6. /\ users' \in [Users -> UserRow \cup {None}]
      /\ users'[u] = row
      /\ \A v \in Users : v # u => users'[v] = users[v]
      /\ Known' = Known
  <2>1. /\ users' \in [Users -> UserRow \cup {None}]
        /\ users'[u] = row
        /\ \A v \in Users : v # u => users'[v] = users[v]
        /\ Known' = Known \cup {u}
    BY <1>2, <1>4, UserWritten DEF IInv
  <2> QED
    BY <1>1, <2>1
<1>7. \A v \in Known : /\ users'[v].hash = users[v].hash
                       /\ users'[v].changed = users[v].changed
                       /\ users'[v].fails = users[v].fails
                       /\ users'[v].locked = users[v].locked
  BY <1>2, <1>6 DEF Known
<1>8. /\ request' \in [Requests -> SignIn \cup Admitted \cup {None}]
      /\ \A q \in Requests : request'[q] \in {None, request[q]}
      /\ sessions' \in [Tokens -> SessionRow \cup {None}]
      /\ \A s \in Tokens : sessions'[s] \in {None, sessions[s]}
  BY DEF IInv, TypeOK, UpdateUser, WithoutSessionsOf
<1>9. TypeOK'
  BY <1>5, <1>6, <1>8 DEF IInv, TypeOK
<1>10. SessionsMatchPassword'
  BY <1>6, <1>7, <1>8 DEF IInv, SessionsMatchPassword
<1>11. AdministratorRemains'
  <2>1. CASE Keeps(role, active)
    <3>1. users'[u] # None /\ users'[u].role = "administrator"
      BY <1>2, <1>6, <2>1, RowsExist DEF Keeps
    <3>2. users'[u].active
      BY <1>3, <1>6, <2>1, Zenon DEF Keeps
    <3> QED
      BY <3>1, <3>2 DEF AdministratorRemains, IsActiveAdmin
  <2>2. CASE ~Keeps(role, active)
    <3>1. u # request[r].user
      BY <2>2 DEF UpdateUser
    <3>2. PICK v \in Users : v # u /\ IsActiveAdmin(v)
      <4>1. CASE IsActiveAdmin(u)
        BY <2>2, <3>1, <4>1 DEF UpdateUser, LastAdminGuard
      <4>2. CASE ~IsActiveAdmin(u)
        BY <4>2 DEF IInv, AdministratorRemains
      <4> QED
        BY <4>1, <4>2
    <3> QED
      BY <1>6, <3>2 DEF AdministratorRemains, IsActiveAdmin
  <2> QED
    BY <2>1, <2>2
<1>12. SignInsStand' /\ RequestsDated'
  BY <1>5, <1>6, <1>7, <1>8, RowsExist DEF IInv, SignInsStand, RequestsDated
<1>13. AttemptsCounted'
  <2> SUFFICES ASSUME NEW v \in Users PROVE Counted(v)'
    BY DEF AttemptsCounted
  <2>1. Counted(v)
    BY DEF IInv, AttemptsCounted
  <2>2. users'[v] = None <=> users[v] = None
    BY <1>6 DEF Known
  <2> QED
    BY <1>5, <1>7, <2>1, <2>2 DEF Counted, LockedAt, LockOver, Known
<1> QED
  BY <1>9, <1>10, <1>11, <1>12, <1>13 DEF IInv

\* A row with a new password.
WithPassword(row, hash, changed) ==
    [row EXCEPT !.hash = hash, !.changed = changed, !.fails = 0,
                !.locked = None]

LEMMA PasswordRow ==
    ASSUME NEW row \in UserRow, NEW hash \in Passwords, NEW changed \in Times
    PROVE  /\ WithPassword(row, hash, changed) \in UserRow
           /\ WithPassword(row, hash, changed).role = row.role
           /\ WithPassword(row, hash, changed).active = row.active
           /\ WithPassword(row, hash, changed).hash = hash
           /\ WithPassword(row, hash, changed).changed = changed
           /\ WithPassword(row, hash, changed).fails = 0
           /\ WithPassword(row, hash, changed).locked = None
<1> DEFINE new == WithPassword(row, hash, changed)
<1>1. new \in UserRow
  BY DEF UserRow, WithPassword
<1>2. /\ new.role = row.role /\ new.hash = hash
      /\ new.changed = changed /\ new.fails = 0
      /\ new.locked = None
  BY DEF UserRow, WithPassword
<1>3. new.active = row.active
  BY DEF UserRow, WithPassword
<1> QED
  BY <1>1, <1>2, <1>3, Zenon

\* A reset ends the sessions of its account, and its time is one that no sign-in
\* under way can have read.
LEMMA ResetStep ==
    ASSUME IInv, NEW r \in Requests, NEW u \in Users, ResetPassword(r, u)
    PROVE  IInv'
<1>1. u \in Known /\ users[u] \in UserRow
  BY KnownRow DEF IInv, ResetPassword
<1>2. PICK now \in Moments(r) \ (stamps[u] \cup {users[u].changed}) :
         users' = [users EXCEPT ![u].hash = resets + 1, ![u].changed = now,
                                ![u].fails = 0, ![u].locked = None]
  BY DEF ResetPassword
<1>3. /\ resets' = resets + 1
      /\ stamps' = [stamps EXCEPT ![u] = @ \cup {users[u].changed}]
      /\ sessions' = WithoutSessionsOf(u)
      /\ tries' = [tries EXCEPT ![u] = 0]
      /\ request' = [request EXCEPT ![r] = None]
      /\ clock' = clock
  BY DEF ResetPassword
<1>4. resets + 1 \in Passwords
  BY SettingsArePositive DEF ResetPassword, IInv, TypeOK, Passwords
<1>5. now \in Times
  <2>1. request[r].at \in Times /\ clock \in Times
    BY RequestRow DEF IInv, TypeOK, ResetPassword, MayAdminister
  <2> QED
    BY <1>2, <2>1, SettingsArePositive DEF Moments, Times
<1> DEFINE row == WithPassword(users[u], resets + 1, now)
<1>6. /\ row \in UserRow
      /\ row.role = users[u].role
      /\ row.hash = resets + 1
      /\ row.changed = now
      /\ row.fails = 0
      /\ row.locked = None
  BY <1>1, <1>4, <1>5, PasswordRow
<1>7. row.active = users[u].active
  BY <1>1, <1>4, <1>5, PasswordRow, Zenon
<1>8. users' = [users EXCEPT ![u] = row]
  BY <1>1, <1>2 DEF IInv, TypeOK, WithPassword
<1> HIDE DEF row
<1>9. /\ users' \in [Users -> UserRow \cup {None}]
      /\ users'[u] = row
      /\ \A v \in Users : v # u => users'[v] = users[v]
      /\ Known' = Known
  <2>1. /\ users' \in [Users -> UserRow \cup {None}]
        /\ users'[u] = row
        /\ \A v \in Users : v # u => users'[v] = users[v]
        /\ Known' = Known \cup {u}
    BY <1>6, <1>8, UserWritten DEF IInv
  <2> QED
    BY <1>1, <2>1
<1>10. /\ request' \in [Requests -> SignIn \cup Admitted \cup {None}]
       /\ \A q \in Requests : request'[q] \in {None, request[q]}
       /\ sessions' \in [Tokens -> SessionRow \cup {None}]
       /\ \A s \in Tokens :
             \/ sessions'[s] = None
             \/ sessions'[s] = sessions[s] /\ sessions[s].user # u
  BY <1>3 DEF IInv, TypeOK, WithoutSessionsOf
<1>11. /\ stamps'[u] = stamps[u] \cup {users[u].changed}
       /\ \A v \in Users : v # u => stamps'[v] = stamps[v]
       /\ stamps' \in [Users -> SUBSET Times]
  BY <1>1, <1>3, KnownRow DEF IInv, TypeOK
<1>12. TypeOK'
  BY <1>3, <1>4, <1>9, <1>10, <1>11 DEF IInv, TypeOK
<1>13. SessionsMatchPassword'
  BY <1>9, <1>10 DEF IInv, SessionsMatchPassword, Known
<1>14. AdministratorRemains'
  <2>1. PICK v \in Users : IsActiveAdmin(v)
    BY DEF IInv, AdministratorRemains
  <2>2. users[v] # None /\ users[v].role = "administrator" /\ users[v].active
    BY <2>1 DEF IsActiveAdmin
  <2>3. users'[v].active
    BY <1>7, <1>9, <2>2, Zenon
  <2>4. users'[v] # None /\ users'[v].role = "administrator"
    BY <1>6, <1>9, <2>2, RowsExist
  <2> QED
    BY <2>3, <2>4 DEF AdministratorRemains, IsActiveAdmin
<1>15. ASSUME NEW q \in Requests, request'[q] \in SignIn
       PROVE  /\ request'[q].user \in Known'
              /\ request'[q].changed \in
                    stamps'[request'[q].user]
                       \cup {users'[request'[q].user].changed}
              /\ request'[q].changed = users'[request'[q].user].changed =>
                    request'[q].hash = users'[request'[q].user].hash
  <2>1. request'[q] = request[q] /\ request[q] \in SignIn
    BY <1>10, <1>15, RowsExist
  <2>2. /\ request[q].user \in Known
        /\ request[q].changed \in stamps[request[q].user]
                                    \cup {users[request[q].user].changed}
        /\ request[q].changed = users[request[q].user].changed =>
              request[q].hash = users[request[q].user].hash
    BY <2>1 DEF IInv, SignInsStand
  <2>3. CASE request[q].user = u
    <3>1. request[q].changed # now
      BY <1>2, <2>2, <2>3
    <3> QED
      BY <1>6, <1>9, <1>11, <2>1, <2>2, <2>3, <3>1
  <2>4. CASE request[q].user # u
    BY <1>9, <1>11, <2>1, <2>2, <2>4 DEF Known
  <2> QED
    BY <2>3, <2>4
<1>16. SignInsStand'
  BY <1>15 DEF SignInsStand
<1>17. RequestsDated'
  BY <1>3, <1>10 DEF IInv, RequestsDated
<1>18. ASSUME NEW v \in Users PROVE Counted(v)'
  <2>1. CASE v # u
    BY <1>3, <1>9, <2>1
    DEF IInv, TypeOK, AttemptsCounted, Counted, LockedAt, LockOver
  <2>2. CASE v = u
    BY <1>3, <1>6, <1>9, <2>2, RowsExist, SettingsArePositive
    DEF IInv, TypeOK, Counted
  <2> QED
    BY <2>1, <2>2
<1> QED
  BY <1>12, <1>13, <1>14, <1>16, <1>17, <1>18 DEF IInv, AttemptsCounted

-----------------------------------------------------------------------------
LEMMA InitStep ==
    ASSUME Init
    PROVE  IInv
<1>1. PICK u \in Users : users = [v \in Users |->
            IF v = u THEN NewUser("administrator", 0) ELSE None]
  BY DEF Init
<1>2. /\ sessions = [s \in Tokens |-> None]
      /\ request = [r \in Requests |-> None]
      /\ clock = 0
      /\ resets = 0
      /\ stamps = [v \in Users |-> {}]
      /\ tries = [v \in Users |-> 0]
  BY DEF Init
<1> DEFINE row == NewUser("administrator", 0)
<1>3. 0 \in Times /\ 0 \in Passwords
  BY SettingsArePositive DEF Times, Passwords
<1>4. /\ row \in UserRow
      /\ row # None
      /\ row.role = "administrator"
      /\ row.active = TRUE
      /\ row.fails = 0
      /\ row.locked = None
  <2>1. /\ row \in UserRow
        /\ row.role = "administrator"
        /\ row.active = TRUE
        /\ row.fails = 0
        /\ row.locked = None
    BY <1>3, RolesKnown, NewUserRow, Zenon
  <2> QED
    BY <2>1, RowsExist
<1> HIDE DEF row
<1>5. users[u] = row /\ \A v \in Users : v # u => users[v] = None
  BY <1>1 DEF row
<1>6. TypeOK
  <2>1. users = [v \in Users |-> IF v = u THEN row ELSE None]
    BY <1>1 DEF row
  <2> QED
    BY <1>2, <1>3, <1>4, <2>1 DEF TypeOK
<1>7. SessionsMatchPassword /\ SignInsStand /\ RequestsDated
  BY <1>2, RowsExist DEF SessionsMatchPassword, SignInsStand, RequestsDated
<1>8. AdministratorRemains
  BY <1>4, <1>5 DEF AdministratorRemains, IsActiveAdmin
<1>9. AttemptsCounted
  BY <1>2, <1>4, <1>5, SettingsArePositive DEF AttemptsCounted, Counted
<1> QED
  BY <1>6, <1>7, <1>8, <1>9 DEF IInv

LEMMA NextStep ==
    ASSUME IInv, [Next]_vars
    PROVE  IInv'
<1>1. CASE UNCHANGED vars
  BY <1>1, StutterStep
<1>2. ASSUME NEW r \in Requests, NEW u \in Users, ReadUser(r, u)
      PROVE  IInv'
  BY <1>2, ReadStep
<1>3. ASSUME NEW r \in Requests, ReserveLoginAttempt(r)
      PROVE  IInv'
  BY <1>3, ReserveStep
<1>4. ASSUME NEW r \in Requests,
             \/ RefuseAttempt(r)
             \/ WrongPassword(r)
             \/ CredentialsChanged(r)
             \/ Leave(r)
      PROVE  IInv'
  BY <1>4, RequestEnds
  DEF RefuseAttempt, WrongPassword, CredentialsChanged, Leave
<1>5. ASSUME NEW r \in Requests, RecordSuccessfulLogin(r)
      PROVE  IInv'
  BY <1>5, SuccessStep
<1>6. ASSUME NEW r \in Requests, NEW s \in Tokens, CreateSession(r, s)
      PROVE  IInv'
  BY <1>6, CreateSessionStep
<1>7. ASSUME NEW r \in Requests, NEW s \in Tokens, Admit(r, s)
      PROVE  IInv'
  BY <1>7, AdmitStep
<1>8. ASSUME NEW r \in Requests, Logout(r)
      PROVE  IInv'
  BY <1>8, LogoutStep
<1>9. ASSUME NEW r \in Requests, NEW u \in Users, NEW role \in Roles,
             CreateUserByRequest(r, u, role)
      PROVE  IInv'
  BY <1>9, CreateByRequestStep
<1>10. ASSUME NEW r \in Requests, NEW u \in Users, NEW role \in Roles,
              NEW active \in BOOLEAN, UpdateUser(r, u, role, active)
       PROVE  IInv'
  BY <1>10, UpdateStep
<1>11. ASSUME NEW r \in Requests, NEW u \in Users, ResetPassword(r, u)
       PROVE  IInv'
  BY <1>11, ResetStep
<1>12. ASSUME NEW s \in Tokens, DiscardSession(s)
       PROVE  IInv'
  BY <1>12, DiscardStep
<1>13. ASSUME NEW u \in Users, NEW role \in Roles, CreateUserByCommand(u, role)
       PROVE  IInv'
  BY <1>13, CreateByCommandStep
<1> QED
  BY <1>1, <1>2, <1>3, <1>4, <1>5, <1>6, <1>7, <1>8, <1>9, <1>10, <1>11,
     <1>12, <1>13, CleanupStep, TickStep
  DEF Next

\* Every reachable state of the accounts satisfies the inductive invariant.
THEOREM Invariance == Spec => []IInv
<1>1. Init => IInv
  BY InitStep
<1>2. IInv /\ [Next]_vars => IInv'
  BY NextStep
<1> QED
  BY <1>1, <1>2, PTL DEF Spec

-----------------------------------------------------------------------------
(* The results.                                                              *)

\* No command and no request writes an account, a session or a time outside its
\* type.
THEOREM AccountsTyped == Spec => []TypeOK
<1>1. IInv => TypeOK
  BY DEF IInv
<1> QED
  BY <1>1, Invariance, PTL

\* However sign-ins and resets overlap, every session was opened with the
\* password that its account has now.
THEOREM SessionsKeepPassword == Spec => []SessionsMatchPassword
<1>1. IInv => SessionsMatchPassword
  BY DEF IInv
<1> QED
  BY <1>1, Invariance, PTL

\* Administrators who demote or deactivate one another, each admitted before the
\* other wrote, never leave the system without an active one.
THEOREM OneAdministratorRemains == Spec => []AdministratorRemains
<1>1. IInv => AdministratorRemains
  BY DEF IInv
<1> QED
  BY <1>1, Invariance, PTL

\* Concurrent sign-ins get no more attempts between them than the limit, until
\* a lock runs out, a sign-in succeeds or the password is reset.
THEOREM AttemptsAreLimited == Spec => []LimitHolds
<1>1. IInv => LimitHolds
  <2> SUFFICES ASSUME IInv, NEW u \in Users PROVE tries[u] <= Limit
    BY DEF LimitHolds
  <2>1. Counted(u) /\ Limit \in Nat \ {0}
    BY SettingsArePositive DEF IInv, AttemptsCounted
  <2>2. CASE users[u] # None
    <3>1. users[u].fails \in Nat
      BY <2>2, KnownRow DEF IInv, Known
    <3> QED
      BY <2>1, <3>1 DEF Counted
  <2> QED
    BY <2>1, <2>2 DEF Counted
<1> QED
  BY <1>1, Invariance, PTL

\* A lock that stands was reached by the limit of attempts since the account was
\* last released.
THEOREM LockoutIsEarned == Spec => []LockoutEarned
<1>1. IInv => LockoutEarned
  <2> SUFFICES ASSUME IInv, NEW u \in Known, LockedAt(u, clock)
               PROVE  tries[u] >= Limit
    BY DEF LockoutEarned
  <2>1. Counted(u) /\ Limit \in Nat \ {0} /\ users[u] # None
    BY SettingsArePositive DEF IInv, AttemptsCounted, Known
  <2>2. users[u].locked \in Int /\ clock \in Int
    BY KnownRow DEF IInv, TypeOK, Times, LockedAt
  <2>3. tries[u] = Limit
    BY <2>1, <2>2 DEF Counted, LockedAt, LockOver
  <2> QED
    BY <2>1, <2>3
<1> QED
  BY <1>1, Invariance, PTL

=============================================================================
