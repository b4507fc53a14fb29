---------------------------- MODULE AuthSessions ----------------------------
(***************************************************************************)
(* Accounts, browser sessions and sign-in (backend/auth).                  *)
(*                                                                         *)
(* A request has a database session of its own and is handled on a worker  *)
(* thread beside the others.  pysqlite opens a transaction with the first  *)
(* write only, so each read before it sees the rows as they are then; a    *)
(* commit writes the columns that were assigned and expires what was read. *)
(* A request is a record that says how far it has come and what it has     *)
(* read; a step ends where another request may come between.               *)
(***************************************************************************)
EXTENDS Integers, FiniteSets

CONSTANTS
  Users, Sessions,            \* account names; tokens, one per sign-in
  Requests,                   \* bound: requests handled at a time
  NoUser,
  Idle, Absolute, Refresh,    \* lifetimes of a session, LAST_SEEN_REFRESH_SECONDS
  MaxFailures, Window, Block, \* of the limiter
  Budgets                     \* bound: what may come from outside, in several mixes

ASSUME LifetimesAssumption ==
  /\ Idle \in Nat \ {0} /\ Absolute \in Nat \ {0} /\ Refresh \in Nat \ {0}
  /\ MaxFailures \in Nat \ {0} /\ Window \in Nat /\ Block \in Nat
  /\ Window <= Block                       \* five minutes and fifteen
ASSUME NoUserAssumption == NoUser \notin Users
ASSUME RequestsAssumption == IsFiniteSet(Requests)

VARIABLES
  now,        \* the clock, in ticks
  users,      \* the users table: role ("none": no row), active; age counts the
              \* changes that promise to end the account's sessions (history)
  sessions,   \* the auth_sessions table; user NoUser: no row
  entries,    \* LoginRateLimiter._entries of the account's key
  request,    \* the requests in hand
  budget,     \* what may still come
  held,       \* history: what was true of a request's caller since it began
  failed,     \* history: the sign-ins that failed since the last success
  overlapped  \* history: an administrator left on a count that no longer held

vars == <<now, users, sessions, entries, request, budget, held, failed, overlapped>>

Roles == {"staff", "admin"}
Same == "same"                             \* a field the payload does not change
Free == [at |-> "free"]
NoRow == [user |-> NoUser]
NoEntry == [failures |-> {}, until |-> 0]
Account(role, active, age) == [role |-> role, active |-> active, age |-> age]

\* What a cookie request asks for: a protected page, a new CSRF token, the end
\* of the session, or an administrator's write.
Patches == [ask : {"patch"}, user : Users, role : Roles \cup {Same}, active : {"enable", "disable", Same}]
             \ [ask : {"patch"}, user : Users, role : {Same}, active : {Same}]
Resets == [ask : {"password"}, user : Users]
Creations == [ask : {"create"}, user : Users, role : Roles]
Writes == Patches \cup Resets \cup Creations
Asks == [ask : {"page", "token", "logout"}] \cup Writes

ASSUME BudgetsAssumption == 
  Budgets \subseteq [ticks : Nat, cookies : Nat, logins : Nat, restarts : Nat, asks : SUBSET Asks]

Row == [role : Roles \cup {"none"}, active : BOOLEAN, age : Nat]
Session == [user : Users, made : 0 .. now, seen : 0 .. now, idle : Nat, csrf : Nat,
            revoked : BOOLEAN, used : 0 .. now, age : Nat, late : BOOLEAN]

\* A failed sign-in; nth tells those of one moment apart.  A list of them is the set
\* of what it holds: nothing reads the order.
Failure == [at : Nat, nth : Nat]
Failures == {F \in SUBSET Failure : IsFiniteSet(F)}

\* How far a request has come, and what it has read by then.
Cookies == [at : {"user", "revoke", "touch", "check"}, session : Sessions, want : Asks, token : Nat, seen : 0 .. now]
Deciding == [at : {"decide"}, session : Sessions, token : Nat, want : Writes, self : Row]
              \cup [at : {"decide"}, want : Writes]
Writing == [at : {"write"}, want : Writes, was : Row, kept : BOOLEAN]
SigningIn == [at : {"limit"}, name : Users] \cup [at : {"verify"}, name : Users, was : Row]

TypeOK ==
  /\ now \in Nat /\ overlapped \in BOOLEAN
  /\ users \in [Users -> Row]
  /\ sessions \in [Sessions -> Session \cup {NoRow}]
  /\ entries \in [Users -> [failures : Failures, until : Nat]]
  /\ failed \in [Users -> Failures]
  /\ request \in [Requests -> Cookies \cup Deciding \cup Writing \cup SigningIn \cup {Free}]
  /\ held \in [Requests -> SUBSET {"live", "active", "admin", "token"}]

\* create_session.
Issued(u, age) == [user |-> u, made |-> now, seen |-> now, idle |-> now + Idle, csrf |-> 1,
                   revoked |-> FALSE, used |-> now, age |-> age, late |-> age # users[u].age]

Init ==
  /\ now = 0 /\ overlapped = FALSE
  /\ users \in {f \in [Users -> {Account("none", FALSE, 0), Account("staff", TRUE, 0),
                                 Account("admin", TRUE, 0)}] : \E u \in Users : f[u].role = "admin"}
  /\ \E opened \in [Sessions -> Users \cup {NoUser}] :
       /\ \A s \in Sessions : opened[s] # NoUser => users[opened[s]].role # "none"
       /\ sessions = [s \in Sessions |-> IF opened[s] = NoUser THEN NoRow ELSE Issued(opened[s], 0)]
  /\ entries = [u \in Users |-> NoEntry] /\ failed = [u \in Users |-> {}]
  /\ request = [q \in Requests |-> Free] /\ held = [q \in Requests |-> {}]
  /\ budget \in Budgets

Live(s) == /\ sessions[s] # NoRow
           /\ ~ sessions[s].revoked
           /\ now < sessions[s].idle /\ now < sessions[s].made + Absolute

ActiveAdmin(u) == users[u].role = "admin" /\ users[u].active
OtherAdmins(u) == {v \in Users \ {u} : ActiveAdmin(v)}

Spend(what) == budget[what] > 0 /\ budget' = [budget EXCEPT ![what] = @ - 1]
Goto(q, at) == request' = [request EXCEPT ![q].at = at]
Ends(q) == request' = [request EXCEPT ![q] = Free]
Caller(q) == users[sessions[request[q].session].user]

-----------------------------------------------------------------------------
(* The caller of a cookie request: optional_auth.                           *)

\* load_valid_session finds the session.  A request whose cookie names none that
\* is valid is answered 401 and changes nothing.  The CSRF token is the newest one on
\* arrival: one that is older then is refused after what a page does.
Arrives(q, s, want) ==
  /\ request[q] = Free /\ want \in budget.asks /\ Spend("cookies")
  /\ Live(s)
  /\ request' = [request EXCEPT ![q] = [at |-> "user", session |-> s, want |-> want,
                                        token |-> sessions[s].csrf, seen |-> sessions[s].seen]]
  /\ UNCHANGED <<users, sessions, entries, failed, overlapped>>

ReadsUser(q) ==
  /\ request[q].at = "user"
  /\ Goto(q, IF Caller(q).active THEN "touch" ELSE "revoke")
  /\ UNCHANGED <<users, sessions, entries, failed, overlapped>>

RevokesDisabled(q) ==
  /\ request[q].at = "revoke" /\ Ends(q)
  /\ sessions' = [sessions EXCEPT ![request[q].session].revoked = TRUE]
  /\ UNCHANGED <<users, entries, failed, overlapped>>

\* Seeded fault: only last_seen_at moves.
TouchedSeen(row, seen) == [row EXCEPT !.used = now, !.seen = IF now - seen < Refresh THEN @ ELSE now]

\* touch_session: what was read says whether the row is written.
Touched(row, seen) ==
  IF now - seen < Refresh THEN [row EXCEPT !.used = now]
  ELSE [row EXCEPT !.used = now, !.seen = now, !.idle = now + Idle]

Touches(q) ==
  /\ request[q].at = "touch"
  /\ sessions' = [sessions EXCEPT ![request[q].session] = Touched(@, request[q].seen)]
  /\ IF request[q].want.ask = "page" THEN Ends(q) ELSE Goto(q, "check")
  /\ UNCHANGED <<users, entries, failed, overlapped>>

-----------------------------------------------------------------------------
(* What the routes ask of the caller, and what they do.                     *)

\* read_me and read_csrf: no token is asked for, another tab's becomes stale.
Rotates(q) ==
  /\ request[q].at = "check" /\ request[q].want.ask = "token" /\ Ends(q)
  /\ sessions' = [sessions EXCEPT ![request[q].session].csrf = @ + 1]
  /\ UNCHANGED <<users, entries, failed, overlapped>>

TokenMatches(q) == request[q].token = sessions[request[q].session].csrf

\* logout: revoke_session.
LogsOut(q) ==
  /\ request[q].at = "check" /\ request[q].want.ask = "logout" /\ TokenMatches(q) /\ Ends(q)
  /\ sessions' = [sessions EXCEPT ![request[q].session].revoked = TRUE]
  /\ UNCHANGED <<users, entries, failed, overlapped>>

\* Seeded fault: the route asks for a token and not for a role.
MayWriteAsAnybody(q) == TokenMatches(q)

MayWrite(q) == TokenMatches(q) /\ Caller(q).role = "admin"

\* require_admin_csrf: the row is read again, the role is not the session's.
Authorised(q) ==
  /\ request[q].at = "check" /\ request[q].want \in Writes
  /\ MayWrite(q)
  /\ request' = [request EXCEPT ![q] = [at |-> "decide", session |-> @.session, token |-> @.token,
                                        want |-> @.want, self |-> Caller(q)]]
  /\ UNCHANGED <<users, sessions, entries, failed, overlapped>>

\* 403.
Refused(q) ==
  /\ request[q].at = "check" /\ request[q].want.ask # "token"
  /\ IF request[q].want \in Writes THEN ~ MayWrite(q) ELSE ~ TokenMatches(q)
  /\ Ends(q)
  /\ UNCHANGED <<users, sessions, entries, failed, overlapped>>

\* The same writes from auth.cli, which asks nobody; it changes one thing at a
\* time and never the role.
Cli(q, want) ==
  /\ request[q] = Free /\ want \in budget.asks /\ Spend("cookies")
  /\ want \in Writes /\ (want \in Patches => want.role = Same)
  /\ request' = [request EXCEPT ![q] = [at |-> "decide", want |-> want]]
  /\ UNCHANGED <<users, sessions, entries, failed, overlapped>>

-----------------------------------------------------------------------------
(* Writes: what is read about the target, then one transaction.             *)

NewRole(w, u) == IF w \in Patches /\ w.role # Same THEN w.role ELSE u.role
NewActive(w, u) == IF w \in Patches /\ w.active # Same THEN w.active = "enable" ELSE u.active
Demotes(w, u) == u.role = "admin" /\ u.active /\ NewRole(w, u) # "admin"
Disables(w, u) == NewRole(w, u) = "admin" /\ u.active /\ ~ NewActive(w, u)

\* Seeded fault: the account to be changed is counted too.
CountedAll(u) == {v \in Users : ActiveAdmin(v)}

\* count_active_admins.
Counted(u) == OtherAdmins(u)

\* The row of the caller was read when the caller was authorised and is not read again.
Target(q) == LET u == request[q].want.user
             IN IF /\ "session" \in DOMAIN request[q]
                   /\ sessions[request[q].session].user = u THEN request[q].self ELSE users[u]

\* The target is read (404; 409 for a name that is taken) and, for a change that
\* may cost the last administrator, the others are counted.  kept (history): had
\* nothing come between this request's reads, the write would leave an administrator.
Decides(q) ==
  LET w == request[q].want
      u == Target(q)
  IN /\ request[q].at = "decide"
     /\ IF \/ (w \in Creations) # (u.role = "none")
           \/ Demotes(w, u) /\ Counted(w.user) = {}
           \/ NewRole(w, u) = u.role /\ Disables(w, u) /\ Counted(w.user) = {}
        THEN Ends(q)
        ELSE request' = [request EXCEPT ![q] =
               [at |-> "write", want |-> w, was |-> u,
                kept |-> u # users[w.user] \/ OtherAdmins(w.user) # {} \/ ~ ActiveAdmin(w.user)]]
     /\ UNCHANGED <<users, sessions, entries, failed, overlapped>>

\* Seeded fault: only a disabled account loses its sessions.
EndsSessionsOnDisable(w, u) == u.active /\ ~ NewActive(w, u)

\* set_role, set_password and set_active(False) revoke; set_active(True) does not.
EndsSessions(w, u) ==
  w \in Resets \/ NewRole(w, u) # u.role \/ (u.active /\ ~ NewActive(w, u))

\* The columns that differ from what was read are written, whatever they hold now.
Written(w, was, row) ==
  CASE w \in Creations -> Account(w.role, TRUE, row.age)
    [] w \in Resets    -> [row EXCEPT !.age = @ + 1]
    [] OTHER ->
       Account(IF NewRole(w, was) # was.role THEN NewRole(w, was) ELSE row.role,
               IF NewActive(w, was) # was.active THEN NewActive(w, was) ELSE row.active,
               IF NewRole(w, was) # was.role \/ (was.active /\ ~ NewActive(w, was))
               THEN row.age + 1 ELSE row.age)

\* The second check of a patch that changes both fields: inside the transaction.
LosesLast(w, was) ==
  NewRole(w, was) # was.role /\ Disables(w, was) /\ OtherAdmins(w.user) = {}

\* A name taken meanwhile violates its unique index.
Commits(q) ==
  LET w == request[q].want
      u == w.user
  IN /\ request[q].at = "write" /\ Ends(q)
     /\ w \in Creations => users[u].role = "none"
     /\ ~ LosesLast(w, request[q].was)
     /\ users' = [users EXCEPT ![u] = Written(w, request[q].was, @)]
     /\ sessions' = [s \in Sessions |->
          IF EndsSessions(w, request[q].was) /\ sessions[s].user = u
          THEN [sessions[s] EXCEPT !.revoked = TRUE] ELSE sessions[s]]
     /\ overlapped' = (overlapped \/ (request[q].kept /\ ~ \E v \in Users : ActiveAdmin(v)'))
     /\ UNCHANGED <<entries, failed>>

\* The transaction is refused: by the unique index, by the check inside it, or by
\* a database that stays locked.
Raises(q) ==
  /\ request[q].at \in {"revoke", "touch", "write"} /\ Ends(q)
  /\ UNCHANGED <<users, sessions, entries, failed, overlapped>>

-----------------------------------------------------------------------------
(* Sign-in: login and LoginRateLimiter.                                     *)

\* retry_after_seconds: a blocked key is answered 429 and changes nothing.
SignsIn(q, u) ==
  /\ request[q] = Free /\ Spend("logins")
  /\ entries[u].until <= now
  /\ request' = [request EXCEPT ![q] = [at |-> "limit", name |-> u]]
  /\ UNCHANGED <<users, sessions, entries, failed, overlapped>>

\* The row is read; verifying the password takes its time.
ReadsAccount(q) ==
  /\ request[q].at = "limit"
  /\ request' = [request EXCEPT ![q] = [at |-> "verify", name |-> @.name, was |-> users[@.name]]]
  /\ UNCHANGED <<users, sessions, entries, failed, overlapped>>

\* _prune.
Recent(failures) == {f \in failures : f.at > now - Window}

\* Seeded fault: one failure more than allowed.
FailedOneMore(entry, f) ==
  LET failures == Recent(entry.failures) \cup {f}
  IN IF Cardinality(failures) > MaxFailures THEN [failures |-> {}, until |-> now + Block]
     ELSE [failures |-> failures, until |-> entry.until]

\* register_failure.
Failed(entry, f) ==
  LET failures == Recent(entry.failures) \cup {f}
  IN IF Cardinality(failures) >= MaxFailures THEN [failures |-> {}, until |-> now + Block]
     ELSE [failures |-> failures, until |-> entry.until]

\* A wrong password, an unknown name or a disabled account.
LoginFails(q) ==
  LET u == request[q].name
      f == [at |-> now, nth |-> Cardinality(failed[u])]
  IN /\ request[q].at = "verify" /\ Ends(q)
     /\ entries' = [entries EXCEPT ![u] = Failed(@, f)]
     /\ failed' = [failed EXCEPT ![u] = @ \cup {f}]
     /\ UNCHANGED <<users, sessions, overlapped>>

\* register_success, then the session unless its commit fails.
LoginSucceeds(q) ==
  LET u == request[q].name
      was == request[q].was
  IN /\ request[q].at = "verify" /\ Ends(q)
     /\ was.role # "none" /\ was.active
     /\ entries' = [entries EXCEPT ![u] = NoEntry]
     /\ failed' = [failed EXCEPT ![u] = {}]
     /\ \/ \E s \in Sessions : /\ sessions[s] = NoRow
                               /\ sessions' = [sessions EXCEPT ![s] = Issued(u, was.age)]
        \/ UNCHANGED sessions
     /\ UNCHANGED <<users, overlapped>>

-----------------------------------------------------------------------------
(* Around the requests.                                                     *)

Tick == /\ Spend("ticks") /\ now' = now + 1
        /\ UNCHANGED <<users, sessions, entries, request, failed, overlapped>>

\* The backend ends with its requests and its limiter; the next lifespan purges.
Restart ==
  /\ Spend("restarts")
  /\ request' = [q \in Requests |-> Free]
  /\ entries' = [u \in Users |-> NoEntry] /\ failed' = [u \in Users |-> {}]
  /\ sessions' = [s \in Sessions |-> IF Live(s) THEN sessions[s] ELSE NoRow]
  /\ UNCHANGED <<now, users, overlapped>>

Handles(q) ==
  \/ \E s \in Sessions, want \in Asks : Arrives(q, s, want)
  \/ \E want \in Writes : Cli(q, want)
  \/ \E u \in Users : SignsIn(q, u)
  \/ /\ UNCHANGED budget
     /\ \/ ReadsUser(q) \/ RevokesDisabled(q) \/ Touches(q)
        \/ Rotates(q) \/ LogsOut(q) \/ Authorised(q) \/ Refused(q)
        \/ Decides(q) \/ Commits(q) \/ Raises(q)
        \/ ReadsAccount(q) \/ LoginFails(q) \/ LoginSucceeds(q)

\* What is true of a request's caller.
Facts(q) ==
  IF "session" \notin DOMAIN request[q] THEN {}
  ELSE LET s == request[q].session
       IN {f \in {"live", "active", "admin", "token"} :
             \/ f = "live" /\ Live(s)
             \/ f = "active" /\ Caller(q).active
             \/ f = "admin" /\ Caller(q).role = "admin"
             \/ f = "token" /\ TokenMatches(q)}

Next ==
  /\ \/ \E q \in Requests : Handles(q) /\ UNCHANGED now
     \/ Tick
     \/ Restart
  /\ held' = [q \in Requests |-> IF request'[q] = Free THEN {} ELSE held[q] \cup Facts(q)']

Spec == Init /\ [][Next]_vars

-----------------------------------------------------------------------------
(* Properties.                                                              *)

\* A new role, a new password or the end of an account ends its sessions: a
\* session that still opens a page was begun by a sign-in that read the account
\* as it is, or by one that was verifying the password while the change was
\* committed.  No request in hand brings a revoked session back.
\* (users.set_password, set_role, set_active; sessions.touch_session.)
ChangesEndSessions ==
  \A s \in Sessions : Live(s) => sessions[s].late \/ sessions[s].age = users[sessions[s].user].age

\* An administrator's write is begun only for a caller who has, since the request
\* came in, had a session that was valid, an account that was active and an
\* administrator's, and the newest token: a right that was lost before the request
\* began is never used (auth/dependencies.py, the live User row).
AuthorityHeld ==
  \A q \in Requests :
    request[q].at = "decide" /\ "session" \in DOMAIN request[q]
      => held[q] = {"live", "active", "admin", "token"}

\* The last active administrator is not demoted or disabled, by anybody, unless
\* the write and another change of the administrators overlapped
\* (users.set_role and set_active: the count and the write are apart).
AdminRemains == overlapped \/ \E u \in Users : ActiveAdmin(u)

\* A session that is used does not end for want of use: it lives for an idle
\* time after its last use, less the time within which last_seen_at is not
\* refreshed, unless it is ended or reaches its absolute end (touch_session).
UseKeepsAlive ==
  \A s \in Sessions :
    sessions[s] # NoRow /\ ~ sessions[s].revoked => sessions[s].idle > sessions[s].used + Idle - Refresh

\* Between two successes, no window holds more failed sign-ins of a key than the
\* limiter allows and one for each other request that was past its check
\* (rate_limit.register_failure, retry_after_seconds).
FailuresBounded ==
  \A u \in Users :
    Cardinality(Recent(failed[u])) <= MaxFailures + Cardinality(Requests) - 1
=============================================================================
