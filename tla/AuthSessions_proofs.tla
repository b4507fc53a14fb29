------------------------ MODULE AuthSessions_proofs ------------------------
(***************************************************************************)
(* Accounts and sessions, for any number of accounts, tokens and requests, *)
(* any lifetimes and any budget.                                           *)
(***************************************************************************)
EXTENDS AuthSessions, FiniteSetTheorems, TLAPS

Entry == [failures : Failures, until : Nat]
Steps == Cookies \cup Deciding \cup Writing \cup SigningIn \cup {Free}

\* A request that came with a cookie has its session's row: only a restart
\* removes rows, and it ends the requests.
RowsStand ==
  \A q \in Requests : "session" \in DOMAIN request[q] => sessions[request[q].session] # NoRow

\* The history of a step.
Witnesses ==
  held' = [q \in Requests |-> IF request'[q] = Free THEN {} ELSE held[q] \cup Facts(q)']

-----------------------------------------------------------------------------
(* The operators.                                                           *)

\* What a write names.
LEMMA WriteFacts ==
  ASSUME NEW w \in Writes
  PROVE  /\ w \in Asks
         /\ w.user \in Users
         /\ w \in Patches => w \notin Resets /\ w \notin Creations
         /\ w \in Resets => w \notin Creations
         /\ w \in Creations => w.role \in Roles
         /\ w \in Patches => w.role \in Roles \cup {Same}
BY DEF Writes, Asks, Patches, Resets, Creations

\* A write leaves a row; it ages the row only if it ends the sessions, and a write
\* that changes neither field of what it read changes neither in the row.
LEMMA WrittenFacts ==
  ASSUME NEW w \in Writes, NEW was \in Row, NEW row \in Row
  PROVE  /\ Written(w, was, row) \in Row
         /\ Written(w, was, row).age # row.age => EndsSessions(w, was)
         /\ w \notin Creations /\ NewRole(w, was) = was.role /\ NewActive(w, was) = was.active
              => /\ Written(w, was, row).role = row.role
                 /\ Written(w, was, row).active = row.active
<1>1. CASE w \in Creations
  BY <1>1, WriteFacts DEF Written, Account, Row
<1>2. CASE w \in Resets
  BY <1>2, WriteFacts DEF Written, EndsSessions, Row
<1>3. CASE w \in Patches
  <2>1. NewRole(w, was) \in Roles \cup {"none"} /\ NewActive(w, was) \in BOOLEAN
    BY <1>3, WriteFacts DEF NewRole, NewActive, Row
  <2>2. row.role \in Roles \cup {"none"} /\ row.active \in BOOLEAN /\ row.age \in Nat
    BY DEF Row
  <2> DEFINE role == IF NewRole(w, was) # was.role THEN NewRole(w, was) ELSE row.role
             active == IF NewActive(w, was) # was.active THEN NewActive(w, was) ELSE row.active
             age == IF NewRole(w, was) # was.role \/ (was.active /\ ~ NewActive(w, was))
                    THEN row.age + 1 ELSE row.age
  <2>3. Written(w, was, row) = [role |-> role, active |-> active, age |-> age]
    BY <1>3, WriteFacts DEF Written, Account
  <2>4. role \in Roles \cup {"none"} /\ active \in BOOLEAN /\ age \in Nat
    BY <2>1, <2>2
  <2>5. age # row.age => EndsSessions(w, was)
    BY DEF EndsSessions
  <2>6. NewRole(w, was) = was.role /\ NewActive(w, was) = was.active
          => role = row.role /\ active = row.active
    OBVIOUS
  <2> HIDE DEF role, active, age
  <2> QED BY <2>3, <2>4, <2>5, <2>6 DEF Row
<1> QED BY <1>1, <1>2, <1>3 DEF Writes

\* A sign-in's row.
LEMMA IssuedFacts ==
  ASSUME TypeOK, NEW u \in Users, NEW age \in Nat
  PROVE  /\ Issued(u, age) \in Session
         /\ Issued(u, age) # NoRow
BY LifetimesAssumption, NoUserAssumption DEF Issued, Session, NoRow, TypeOK

\* A row that is used stays one of the same account, sign-in and token.
LEMMA TouchedFacts ==
  ASSUME TypeOK, NEW row \in Session, NEW seen \in 0 .. now
  PROVE  /\ Touched(row, seen) \in Session
         /\ Touched(row, seen).user = row.user /\ Touched(row, seen).age = row.age
         /\ Touched(row, seen).revoked = row.revoked /\ Touched(row, seen).late = row.late
         /\ row.idle = row.seen + Idle => Touched(row, seen).idle = Touched(row, seen).seen + Idle
         /\ row.seen <= Touched(row, seen).seen
         /\ seen <= row.seen => Touched(row, seen).used - Touched(row, seen).seen < Refresh
<1>1. now \in Nat /\ Idle \in Nat /\ Refresh \in Nat /\ Refresh > 0
  BY LifetimesAssumption DEF TypeOK
<1>2. CASE now - seen < Refresh
  <2>1. Touched(row, seen) = [row EXCEPT !.used = now]
    BY <1>2 DEF Touched
  <2> QED BY <1>1, <1>2, <2>1 DEF Session
<1>3. CASE ~ (now - seen < Refresh)
  <2> DEFINE used == [row EXCEPT !.used = now]
             moved == [used EXCEPT !.seen = now]
             next == [moved EXCEPT !.idle = now + Idle]
  <2>1. Touched(row, seen) = next
    BY <1>3 DEF Touched
  <2>2. used \in Session /\ used.user = row.user /\ used.age = row.age /\ used.revoked = row.revoked
        /\ used.late = row.late /\ used.used = now
    BY <1>1 DEF Session
  <2> HIDE DEF used
  <2>3. moved \in Session /\ moved.user = used.user /\ moved.age = used.age /\ moved.revoked = used.revoked
        /\ moved.late = used.late /\ moved.used = used.used /\ moved.seen = now
    BY <1>1, <2>2 DEF Session
  <2> HIDE DEF moved
  <2>4. next \in Session /\ next.user = moved.user /\ next.age = moved.age /\ next.revoked = moved.revoked
        /\ next.late = moved.late /\ next.used = moved.used /\ next.seen = moved.seen /\ next.idle = now + Idle
    BY <1>1, <2>3 DEF Session
  <2> HIDE DEF next
  <2>5. row.seen <= now
    BY <1>1 DEF Session
  <2> QED BY <1>1, <2>1, <2>2, <2>3, <2>4, <2>5
<1> QED BY <1>2, <1>3

\* What the limiter holds of a key nobody failed to sign in with.
LEMMA NothingFailed == NoEntry \in Entry /\ {} \in Failures
<1>1. {} \in Failures
  BY FS_EmptySet DEF Failures
<1> QED BY <1>1 DEF NoEntry, Entry

\* A failure is one more than those of before, the newest, and is kept with the
\* recent ones, or they become a block.
LEMMA FailedFacts ==
  ASSUME TypeOK, NEW u \in Users, NEW f, f = [at |-> now, nth |-> Cardinality(failed[u])]
  PROVE  /\ failed[u] \cup {f} \in Failures
         /\ Recent(entries[u].failures) \cup {f} \in Failures
         /\ Failed(entries[u], f) \in Entry
<1>1. failed[u] \in Failures /\ entries[u].failures \in Failures /\ entries[u].until \in Nat /\ now \in Nat
  BY DEF TypeOK
<1>2. f \in Failure
  BY <1>1, FS_CardinalityType DEF Failures, Failure
<1>3. ASSUME NEW F \in Failures PROVE F \cup {f} \in Failures
  BY <1>2, FS_AddElement DEF Failures
<1>4. Recent(entries[u].failures) \in Failures
  BY <1>1, FS_Subset DEF Recent, Failures
<1>5. Failed(entries[u], f) \in Entry
  <2>1. now + Block \in Nat
    BY <1>1, LifetimesAssumption
  <2> QED BY <1>1, <1>3, <1>4, <2>1, NothingFailed DEF Failed, Entry
<1> QED BY <1>1, <1>3, <1>4, <1>5

\* No row is a session.
LEMMA RowFacts == NoRow \notin Session
BY NoUserAssumption DEF NoRow, Session

\* A session that is ended keeps its row.
LEMMA Revokes ==
  ASSUME TypeOK, NEW s \in Sessions, sessions[s] \in Session,
         sessions' = [sessions EXCEPT ![s].revoked = TRUE]
  PROVE  /\ sessions' \in [Sessions -> Session \cup {NoRow}]
         /\ \A i \in Sessions : sessions[i] # NoRow => sessions'[i] # NoRow
<1>1. [sessions[s] EXCEPT !.revoked = TRUE] \in Session
  BY DEF Session
<1>2. sessions' = [sessions EXCEPT ![s] = [sessions[s] EXCEPT !.revoked = TRUE]]
  BY DEF TypeOK
<1> QED BY <1>1, <1>2, RowFacts DEF TypeOK

\* What a request has read, by how far it has come.
LEMMA Shape ==
  ASSUME TypeOK, NEW q \in Requests
  PROVE  /\ request[q].at \in {"user", "revoke", "touch", "check"} => request[q] \in Cookies
         /\ request[q].at = "decide" => request[q] \in Deciding
         /\ request[q].at = "write" => request[q] \in Writing
         /\ request[q].at \in {"limit", "verify"} => request[q] \in SigningIn
<1>1. request[q] \in Cookies \cup Deciding \cup Writing \cup SigningIn \cup {Free}
  BY DEF TypeOK
<1>2. request[q] \in Cookies => request[q].at \in {"user", "revoke", "touch", "check"}
  BY DEF Cookies
<1>3. request[q] \in Deciding => request[q].at = "decide"
  BY DEF Deciding
<1>4. request[q] \in Writing => request[q].at = "write"
  BY DEF Writing
<1>5. request[q] \in SigningIn => request[q].at \in {"limit", "verify"}
  BY DEF SigningIn
<1>6. request[q] = Free => request[q].at = "free"
  BY DEF Free
<1> QED BY <1>1, <1>2, <1>3, <1>4, <1>5, <1>6

\* The account of a cookie's request has a row of the users table.
LEMMA CallerFacts ==
  ASSUME TypeOK, RowsStand, NEW q \in Requests, request[q] \in Cookies
  PROVE  /\ request[q].session \in Sessions
         /\ sessions[request[q].session] \in Session
         /\ Caller(q) \in Row
<1>1. request[q].session \in Sessions /\ "session" \in DOMAIN request[q]
  BY DEF Cookies
<1>2. sessions[request[q].session] \in Session
  BY <1>1 DEF TypeOK, RowsStand
<1>3. sessions[request[q].session].user \in Users
  BY <1>2 DEF Session
<1> QED BY <1>1, <1>2, <1>3 DEF Caller, TypeOK

-----------------------------------------------------------------------------
(* Types.                                                                   *)

\* The initial values have their types.
LEMMA TypeInit == Init => TypeOK /\ RowsStand
<1> SUFFICES ASSUME Init PROVE TypeOK /\ RowsStand
  OBVIOUS
<1>1. now = 0 /\ now \in Nat /\ overlapped \in BOOLEAN
  BY DEF Init
<1>2. users \in [Users -> Row]
  <2>1. users \in [Users -> {Account("none", FALSE, 0), Account("staff", TRUE, 0), Account("admin", TRUE, 0)}]
    BY DEF Init
  <2>2. {Account("none", FALSE, 0), Account("staff", TRUE, 0), Account("admin", TRUE, 0)} \subseteq Row
    BY DEF Row, Account, Roles
  <2> QED BY <2>1, <2>2
<1>3. sessions \in [Sessions -> Session \cup {NoRow}]
  <2>1. PICK opened \in [Sessions -> Users \cup {NoUser}] :
          sessions = [s \in Sessions |-> IF opened[s] = NoUser THEN NoRow ELSE Issued(opened[s], 0)]
    BY DEF Init
  <2>2. ASSUME NEW u \in Users PROVE Issued(u, 0) \in Session
    BY <1>1, LifetimesAssumption DEF Issued, Session
  <2> QED BY <2>1, <2>2
<1>4. entries \in [Users -> Entry] /\ failed \in [Users -> Failures]
  BY NothingFailed DEF Init
<1>5. request = [q \in Requests |-> Free] /\ RowsStand
  BY DEF Init, RowsStand, Free
<1>6. held \in [Requests -> SUBSET {"live", "active", "admin", "token"}]
  BY DEF Init
<1> QED BY <1>1, <1>2, <1>3, <1>4, <1>5, <1>6 DEF TypeOK, Entry

\* One request moves, and rows stay rows.
LEMMA Moves ==
  ASSUME TypeOK, RowsStand, NEW q \in Requests, NEW r \in Steps,
         request' = [request EXCEPT ![q] = r], now' = now, Witnesses,
         users' \in [Users -> Row],
         sessions' \in [Sessions -> Session \cup {NoRow}],
         \A s \in Sessions : sessions[s] # NoRow => sessions'[s] # NoRow,
         entries' \in [Users -> Entry], failed' \in [Users -> Failures],
         overlapped' \in BOOLEAN,
         "session" \in DOMAIN r => r.session \in Sessions /\ sessions[r.session] # NoRow
  PROVE  TypeOK' /\ RowsStand'
<1>1. request' \in [Requests -> Steps]
  BY DEF TypeOK, Steps
<1>2. held' \in [Requests -> SUBSET {"live", "active", "admin", "token"}]
  <2>1. \A p \in Requests : Facts(p)' \in SUBSET {"live", "active", "admin", "token"}
    BY DEF Facts
  <2> QED BY <2>1 DEF Witnesses, TypeOK
<1>3. Session' = Session /\ Cookies' = Cookies
  BY DEF Session, Cookies
<1>4. RowsStand'
  <2> SUFFICES ASSUME NEW p \in Requests, "session" \in DOMAIN request'[p]
               PROVE  sessions'[request'[p].session] # NoRow
    BY DEF RowsStand
  <2>1. CASE p = q
    BY <2>1 DEF TypeOK
  <2>2. CASE p # q
    <3>1. request'[p] = request[p]
      BY <2>2 DEF TypeOK
    <3>2. request[p].session \in Sessions
      BY <3>1 DEF TypeOK, Cookies, Deciding, Writing, SigningIn, Free
    <3> QED BY <3>1, <3>2 DEF RowsStand
  <2> QED BY <2>1, <2>2
<1> QED BY <1>1, <1>2, <1>3, <1>4 DEF TypeOK, Steps, Entry

\* A request that ends, or a cookie's request that goes on.
LEMMA GoesOn ==
  ASSUME TypeOK, RowsStand, NEW q \in Requests
  PROVE  /\ Free \in Steps /\ "session" \notin DOMAIN Free
         /\ \A at \in {"user", "revoke", "touch", "check"} : request[q] \in Cookies =>
              LET r == [request[q] EXCEPT !.at = at]
              IN /\ r \in Steps
                 /\ Goto(q, at) => request' = [request EXCEPT ![q] = r]
                 /\ r.session = request[q].session /\ r.session \in Sessions
                 /\ sessions[r.session] # NoRow
<1>1. Free \in Steps /\ "session" \notin DOMAIN Free
  BY DEF Steps, Free
<1>2. ASSUME NEW at \in {"user", "revoke", "touch", "check"}, request[q] \in Cookies
      PROVE  /\ [request[q] EXCEPT !.at = at] \in Cookies
             /\ [request[q] EXCEPT !.at = at].session = request[q].session
             /\ request[q].session \in Sessions
  BY <1>2 DEF Cookies
<1>3. ASSUME NEW at \in {"user", "revoke", "touch", "check"}, Goto(q, at)
      PROVE  request' = [request EXCEPT ![q] = [request[q] EXCEPT !.at = at]]
  BY <1>3 DEF Goto, TypeOK
<1> QED BY <1>1, <1>2, <1>3, CallerFacts, RowFacts DEF Steps

\* One step keeps every type.
LEMMA TypeStep ==
  ASSUME TypeOK, RowsStand, [Next]_vars
  PROVE  TypeOK' /\ RowsStand'
<1>0. /\ now \in Nat /\ users \in [Users -> Row] /\ sessions \in [Sessions -> Session \cup {NoRow}]
      /\ entries \in [Users -> Entry] /\ failed \in [Users -> Failures]
      /\ overlapped \in BOOLEAN /\ request \in [Requests -> Steps]
      /\ held \in [Requests -> SUBSET {"live", "active", "admin", "token"}]
  BY DEF TypeOK, Steps, Entry
<1>1. ASSUME NEW q \in Requests, Handles(q), UNCHANGED now, Witnesses PROVE TypeOK' /\ RowsStand'
  <2> USE <1>0, <1>1
  <2> DEFINE Quiet == UNCHANGED <<users, sessions, entries, failed, overlapped>>
  <2>0. ASSUME NEW r \in Steps, request' = [request EXCEPT ![q] = r], Quiet,
               "session" \in DOMAIN r => r.session \in Sessions /\ sessions[r.session] # NoRow
        PROVE  TypeOK' /\ RowsStand'
    BY <2>0, Moves
  <2>1. ASSUME NEW s \in Sessions, NEW want \in Asks, Arrives(q, s, want) PROVE TypeOK' /\ RowsStand'
    <3> DEFINE r == [at |-> "user", session |-> s, want |-> want,
                     token |-> sessions[s].csrf, seen |-> sessions[s].seen]
    <3>1. sessions[s] \in Session /\ sessions[s] # NoRow
      BY <2>1 DEF Arrives, Live
    <3>2. r \in Cookies
      BY <3>1 DEF Cookies, Session
    <3>3. request' = [request EXCEPT ![q] = r] /\ Quiet /\ r.session = s
      BY <2>1 DEF Arrives
    <3> HIDE DEF r
    <3> QED BY <2>0, <3>1, <3>2, <3>3 DEF Steps
  <2>2. ASSUME NEW want \in Writes, Cli(q, want) PROVE TypeOK' /\ RowsStand'
    <3> DEFINE r == [at |-> "decide", want |-> want]
    <3>1. r \in Deciding /\ "session" \notin DOMAIN r
      BY DEF Deciding
    <3>2. request' = [request EXCEPT ![q] = r] /\ Quiet
      BY <2>2 DEF Cli
    <3> HIDE DEF r
    <3> QED BY <2>0, <3>1, <3>2 DEF Steps
  <2>3. ASSUME NEW u \in Users, SignsIn(q, u) PROVE TypeOK' /\ RowsStand'
    <3> DEFINE r == [at |-> "limit", name |-> u]
    <3>1. r \in SigningIn /\ "session" \notin DOMAIN r
      BY DEF SigningIn
    <3>2. request' = [request EXCEPT ![q] = r] /\ Quiet
      BY <2>3 DEF SignsIn
    <3> HIDE DEF r
    <3> QED BY <2>0, <3>1, <3>2 DEF Steps
  <2>4. CASE ReadsUser(q)
    <3>1. request[q] \in Cookies
      BY <2>4, Shape DEF ReadsUser
    <3>2. PICK at \in {"touch", "revoke"} : Goto(q, at)
      BY <2>4 DEF ReadsUser
    <3>3. Quiet
      BY <2>4 DEF ReadsUser
    <3> QED BY <2>0, <3>1, <3>2, <3>3, GoesOn
  <2>5. CASE RevokesDisabled(q)
    <3>1. request[q] \in Cookies /\ request[q].session \in Sessions /\ sessions[request[q].session] \in Session
      BY <2>5, Shape, CallerFacts DEF RevokesDisabled
    <3>2. sessions' \in [Sessions -> Session \cup {NoRow}]
          /\ \A s \in Sessions : sessions[s] # NoRow => sessions'[s] # NoRow
      BY <2>5, <3>1, Revokes DEF RevokesDisabled
    <3> QED BY <2>5, <3>2, Moves, GoesOn DEF RevokesDisabled, Ends
  <2>6. CASE Touches(q)
    <3>1. request[q] \in Cookies /\ request[q].session \in Sessions /\ sessions[request[q].session] \in Session
          /\ request[q].seen \in 0 .. now
      BY <2>6, Shape, CallerFacts DEF Touches, Cookies
    <3>2. sessions' = [sessions EXCEPT ![request[q].session] = Touched(sessions[request[q].session], request[q].seen)]
      BY <2>6 DEF Touches
    <3>3. sessions' \in [Sessions -> Session \cup {NoRow}]
          /\ \A s \in Sessions : sessions[s] # NoRow => sessions'[s] # NoRow
      BY <3>1, <3>2, TouchedFacts, RowFacts
    <3>4. CASE request[q].want.ask = "page"
      <4>1. request' = [request EXCEPT ![q] = Free] /\ UNCHANGED <<users, entries, failed, overlapped>>
        BY <2>6, <3>4 DEF Touches, Ends
      <4> QED BY <3>3, <4>1, Moves, GoesOn
    <3>5. CASE request[q].want.ask # "page"
      <4>1. Goto(q, "check")
        BY <2>6, <3>5 DEF Touches
      <4>2. UNCHANGED <<users, entries, failed, overlapped>>
        BY <2>6 DEF Touches
      <4> DEFINE r == [request[q] EXCEPT !.at = "check"]
      <4>3. r \in Steps /\ request' = [request EXCEPT ![q] = r] /\ r.session \in Sessions
            /\ sessions[r.session] # NoRow
        BY <3>1, <4>1, GoesOn
      <4> HIDE DEF r
      <4> QED BY <3>3, <4>2, <4>3, Moves
    <3> QED BY <3>4, <3>5
  <2>7. CASE Rotates(q)
    <3>1. request[q].session \in Sessions /\ sessions[request[q].session] \in Session
      BY <2>7, Shape, CallerFacts DEF Rotates
    <3>2. [sessions[request[q].session] EXCEPT !.csrf = @ + 1] \in Session
      BY <3>1 DEF Session
    <3>3. sessions' = [sessions EXCEPT ![request[q].session] = [sessions[request[q].session] EXCEPT !.csrf = @ + 1]]
      BY <2>7, <3>1 DEF Rotates
    <3>4. sessions' \in [Sessions -> Session \cup {NoRow}]
          /\ \A s \in Sessions : sessions[s] # NoRow => sessions'[s] # NoRow
      BY <3>1, <3>2, <3>3, RowFacts
    <3> QED BY <2>7, <3>4, Moves, GoesOn DEF Rotates, Ends
  <2>8. CASE LogsOut(q)
    <3>1. request[q].session \in Sessions /\ sessions[request[q].session] \in Session
      BY <2>8, Shape, CallerFacts DEF LogsOut
    <3>2. sessions' \in [Sessions -> Session \cup {NoRow}]
          /\ \A s \in Sessions : sessions[s] # NoRow => sessions'[s] # NoRow
      BY <2>8, <3>1, Revokes DEF LogsOut
    <3> QED BY <2>8, <3>2, Moves, GoesOn DEF LogsOut, Ends
  <2>9. CASE Authorised(q)
    <3>1. request[q] \in Cookies /\ request[q].want \in Writes
      BY <2>9, Shape DEF Authorised
    <3> DEFINE r == [at |-> "decide", session |-> request[q].session, token |-> request[q].token,
                     want |-> request[q].want, self |-> Caller(q)]
    <3>2. r \in Deciding /\ r.session \in Sessions /\ sessions[r.session] # NoRow
      BY <3>1, CallerFacts, RowFacts DEF Deciding, Cookies
    <3>3. request' = [request EXCEPT ![q] = r] /\ Quiet
      BY <2>9 DEF Authorised
    <3> HIDE DEF r
    <3> QED BY <2>0, <3>2, <3>3 DEF Steps
  <2>10. CASE Refused(q)
    BY <2>10, <2>0, GoesOn DEF Refused, Ends
  <2>11. CASE Decides(q)
    <3>1. CASE Ends(q)
      BY <2>11, <3>1, <2>0, GoesOn DEF Decides, Ends
    <3>2. CASE ~ Ends(q)
      <4>1. request[q] \in Deciding /\ request[q].want \in Writes
        BY <2>11, Shape DEF Decides, Deciding
      <4>2. Target(q) \in Row
        BY <4>1, WriteFacts DEF Target, Deciding
      <4> DEFINE w == request[q].want
                 kept == Target(q) # users[w.user] \/ OtherAdmins(w.user) # {} \/ ~ ActiveAdmin(w.user)
                 r == [at |-> "write", want |-> w, was |-> Target(q), kept |-> kept]
      <4>3. r \in Writing /\ "session" \notin DOMAIN r
        BY <4>1, <4>2 DEF Writing
      <4>4. request' = [request EXCEPT ![q] = r] /\ Quiet
        BY <2>11, <3>2 DEF Decides
      <4> HIDE DEF r
      <4> QED BY <2>0, <4>3, <4>4 DEF Steps
    <3> QED BY <3>1, <3>2
  <2>12. CASE Commits(q)
    <3>1. /\ request[q].want \in Writes /\ request[q].was \in Row /\ request[q].kept \in BOOLEAN
          /\ request[q].want.user \in Users
      BY <2>12, Shape, WriteFacts DEF Commits, Writing
    <3>2. users' \in [Users -> Row]
      BY <2>12, <3>1, WrittenFacts DEF Commits
    <3>3. \A s \in Sessions : sessions[s] # NoRow => [sessions[s] EXCEPT !.revoked = TRUE] \in Session
      BY DEF Session
    <3>4. \A s \in Sessions : sessions[s] = NoRow => sessions[s].user # request[q].want.user
      BY <3>1, NoUserAssumption DEF NoRow
    <3>5. sessions' \in [Sessions -> Session \cup {NoRow}]
          /\ \A s \in Sessions : sessions[s] # NoRow => sessions'[s] # NoRow
      BY <2>12, <3>3, <3>4, RowFacts DEF Commits
    <3>6. overlapped' \in BOOLEAN
      BY <2>12 DEF Commits
    <3> QED BY <2>12, <3>2, <3>5, <3>6, Moves, GoesOn DEF Commits, Ends
  <2>13. CASE Raises(q)
    BY <2>13, <2>0, GoesOn DEF Raises, Ends
  <2>14. CASE ReadsAccount(q)
    <3>1. request[q].name \in Users
      BY <2>14, Shape DEF ReadsAccount, SigningIn
    <3> DEFINE r == [at |-> "verify", name |-> request[q].name, was |-> users[request[q].name]]
    <3>2. r \in SigningIn /\ "session" \notin DOMAIN r
      BY <3>1 DEF SigningIn
    <3>3. request' = [request EXCEPT ![q] = r] /\ Quiet
      BY <2>14 DEF ReadsAccount
    <3> HIDE DEF r
    <3> QED BY <2>0, <3>2, <3>3 DEF Steps
  <2>15. CASE LoginFails(q)
    <3>1. request[q].name \in Users
      BY <2>15, Shape DEF LoginFails, SigningIn
    <3>2. entries' \in [Users -> Entry] /\ failed' \in [Users -> Failures]
      BY <2>15, <3>1, FailedFacts DEF LoginFails
    <3> QED BY <2>15, <3>2, Moves, GoesOn DEF LoginFails, Ends
  <2>16. CASE LoginSucceeds(q)
    <3>1. request[q].at = "verify" /\ request[q] \in SigningIn
      BY <2>16, Shape DEF LoginSucceeds
    <3>2. request[q].name \in Users /\ request[q].was.age \in Nat
      BY <3>1 DEF SigningIn, Row
    <3>3. entries' \in [Users -> Entry] /\ failed' \in [Users -> Failures]
      BY <2>16, <3>2, NothingFailed DEF LoginSucceeds
    <3>4. sessions' \in [Sessions -> Session \cup {NoRow}]
          /\ \A s \in Sessions : sessions[s] # NoRow => sessions'[s] # NoRow
      BY <2>16, <3>2, IssuedFacts DEF LoginSucceeds
    <3> QED BY <2>16, <3>3, <3>4, Moves, GoesOn DEF LoginSucceeds, Ends
  <2> QED BY <2>1, <2>2, <2>3, <2>4, <2>5, <2>6, <2>7, <2>8, <2>9, <2>10, <2>11, <2>12, <2>13,
             <2>14, <2>15, <2>16 DEF Handles
<1>2. CASE Tick /\ Witnesses
  <2>1. now' = now + 1 /\ UNCHANGED <<users, sessions, entries, failed, request, overlapped>>
    BY <1>2 DEF Tick
  <2>2. 0 .. now \subseteq 0 .. now'
    BY <1>0, <2>1
  <2>3. Session \subseteq Session' /\ Cookies \subseteq Cookies'
    BY <2>2 DEF Session, Cookies
  <2>4. held' \in [Requests -> SUBSET {"live", "active", "admin", "token"}]
    BY <1>0, <1>2 DEF Witnesses, Facts
  <2> QED BY <1>0, <2>1, <2>3, <2>4 DEF TypeOK, RowsStand, Steps, Entry
<1>3. CASE Restart /\ Witnesses
  <2>1. now' = now /\ UNCHANGED <<users, overlapped>>
    BY <1>3 DEF Restart
  <2>2. request' = [q \in Requests |-> Free] /\ "session" \notin DOMAIN Free
    BY <1>3, GoesOn DEF Restart, Free
  <2>3. Session' = Session /\ sessions' \in [Sessions -> Session \cup {NoRow}]
    BY <1>0, <1>3, <2>1 DEF Restart, Session
  <2>4. held' \in [Requests -> SUBSET {"live", "active", "admin", "token"}]
    BY <1>0, <1>3 DEF Witnesses, Facts
  <2>5. entries' \in [Users -> Entry] /\ failed' \in [Users -> Failures]
    BY <1>3, NothingFailed DEF Restart
  <2> QED BY <1>0, <2>1, <2>2, <2>3, <2>4, <2>5 DEF TypeOK, RowsStand, Entry
<1>4. CASE UNCHANGED vars
  <2>1. Session' = Session /\ Cookies' = Cookies
    BY <1>4 DEF vars, Session, Cookies
  <2> QED BY <1>4, <2>1 DEF vars, TypeOK, RowsStand
<1> QED BY <1>1, <1>2, <1>3, <1>4 DEF Next, Witnesses

\* Every value the accounts, the sessions and the requests hold is one of theirs:
\* above all, what a request in hand has read is a row, and its session's row is
\* still there (auth/models.py, auth/sessions.py).
THEOREM TypeCorrect == Spec => [](TypeOK /\ RowsStand)
<1>1. TypeOK /\ RowsStand /\ [Next]_vars => (TypeOK /\ RowsStand)'
  BY TypeStep
<1> QED BY TypeInit, <1>1, PTL DEF Spec

-----------------------------------------------------------------------------
(* Who moves a request, the users and the sessions.                         *)

\* Each step is one request's, and tells by which action the request came to
\* where it is and which actions write the tables.
LEMMA Advances ==
  ASSUME TypeOK, RowsStand, NEW q \in Requests, Handles(q)
  PROVE  /\ \A p \in Requests \ {q} : request'[p] = request[p]
         /\ request'[q].at = "write" => Decides(q)
         /\ request'[q].at = "decide" => Authorised(q) \/ "session" \notin DOMAIN request'[q]
         /\ request'[q].at = "check" => Touches(q)
         /\ request'[q].at \in {"touch", "revoke"} => ReadsUser(q)
         /\ request'[q].at = "user" => \E s \in Sessions, want \in Asks : Arrives(q, s, want)
         /\ Commits(q) \/ (UNCHANGED <<users, overlapped>>)
         /\ Commits(q) \/ RevokesDisabled(q) \/ Touches(q) \/ Rotates(q) \/ LogsOut(q)
              \/ LoginSucceeds(q) \/ UNCHANGED sessions
<1> USE DEF TypeOK
<1>0. request \in [Requests -> Steps]
  BY DEF Steps
<1> HIDE DEF TypeOK
<1>1. ASSUME NEW at \in {"touch", "revoke", "check"}, Goto(q, at), request[q] \in Cookies
      PROVE  request'[q].at = at /\ \A p \in Requests \ {q} : request'[p] = request[p]
  BY <1>0, <1>1 DEF Goto, Cookies
<1>2. ASSUME Ends(q)
      PROVE  request'[q].at = "free" /\ \A p \in Requests \ {q} : request'[p] = request[p]
  BY <1>0, <1>2 DEF Ends, Free
<1>3. ASSUME NEW s \in Sessions, NEW want \in Asks, Arrives(q, s, want)
      PROVE  request'[q].at = "user" /\ \A p \in Requests \ {q} : request'[p] = request[p]
  BY <1>0, <1>3 DEF Arrives
<1>4. ASSUME NEW want \in Writes, Cli(q, want)
      PROVE  /\ request'[q].at = "decide" /\ "session" \notin DOMAIN request'[q]
             /\ \A p \in Requests \ {q} : request'[p] = request[p]
  BY <1>0, <1>4 DEF Cli
<1>5. ASSUME NEW u \in Users, SignsIn(q, u)
      PROVE  request'[q].at = "limit" /\ \A p \in Requests \ {q} : request'[p] = request[p]
  BY <1>0, <1>5 DEF SignsIn
<1>6. ASSUME ReadsUser(q)
      PROVE  request'[q].at \in {"touch", "revoke"} /\ \A p \in Requests \ {q} : request'[p] = request[p]
  <2>1. request[q] \in Cookies
    BY <1>6, Shape DEF ReadsUser
  <2>2. Goto(q, "touch") \/ Goto(q, "revoke")
    BY <1>6 DEF ReadsUser
  <2> QED BY <1>1, <2>1, <2>2
<1>7. ASSUME Touches(q)
      PROVE  request'[q].at \in {"check", "free"} /\ \A p \in Requests \ {q} : request'[p] = request[p]
  <2>1. request[q] \in Cookies
    BY <1>7, Shape DEF Touches
  <2>2. Goto(q, "check") \/ Ends(q)
    BY <1>7 DEF Touches
  <2> QED BY <1>1, <1>2, <2>1, <2>2
<1>8. ASSUME Authorised(q)
      PROVE  request'[q].at = "decide" /\ \A p \in Requests \ {q} : request'[p] = request[p]
  BY <1>0, <1>8 DEF Authorised
<1>9. ASSUME Decides(q)
      PROVE  request'[q].at \in {"write", "free"} /\ \A p \in Requests \ {q} : request'[p] = request[p]
  BY <1>0, <1>2, <1>9 DEF Decides
<1>10. ASSUME ReadsAccount(q)
       PROVE  request'[q].at = "verify" /\ \A p \in Requests \ {q} : request'[p] = request[p]
  BY <1>0, <1>10 DEF ReadsAccount
<1>11. \/ \E s \in Sessions, want \in Asks : Arrives(q, s, want)
       \/ \E want \in Writes : Cli(q, want)
       \/ \E u \in Users : SignsIn(q, u)
       \/ ReadsUser(q) \/ Touches(q) \/ Authorised(q) \/ Decides(q) \/ ReadsAccount(q)
       \/ RevokesDisabled(q) \/ Rotates(q) \/ LogsOut(q) \/ Refused(q) \/ Commits(q) \/ Raises(q)
       \/ LoginFails(q) \/ LoginSucceeds(q)
  BY DEF Handles
<1>12. RevokesDisabled(q) \/ Rotates(q) \/ LogsOut(q) \/ Refused(q) \/ Commits(q) \/ Raises(q)
         \/ LoginFails(q) \/ LoginSucceeds(q) => Ends(q)
  BY DEF RevokesDisabled, Rotates, LogsOut, Refused, Commits, Raises, LoginFails, LoginSucceeds
<1>13. Commits(q) \/ UNCHANGED <<users, overlapped>>
  BY <1>11 DEF Arrives, Cli, SignsIn, ReadsUser, Touches, Authorised, Decides, ReadsAccount, RevokesDisabled,
       Rotates, LogsOut, Refused, Raises, LoginFails, LoginSucceeds
<1>14. Commits(q) \/ RevokesDisabled(q) \/ Touches(q) \/ Rotates(q) \/ LogsOut(q)
         \/ LoginSucceeds(q) \/ UNCHANGED sessions
  BY <1>11 DEF Arrives, Cli, SignsIn, ReadsUser, Authorised, Decides, ReadsAccount, Refused, Raises, LoginFails
<1> QED BY <1>2, <1>3, <1>4, <1>5, <1>6, <1>7, <1>8, <1>9, <1>10, <1>11, <1>12, <1>13, <1>14

\* A request's history only grows while it is in hand.
LEMMA Remembers ==
  ASSUME TypeOK, Witnesses, NEW q \in Requests, request'[q] # Free
  PROVE  held'[q] = held[q] \cup Facts(q)'
BY DEF Witnesses

-----------------------------------------------------------------------------
(* The last administrator.                                                  *)

\* A write that was decided on without another administrator and whose target was
\* one changes neither field.
Harmless ==
  \A q \in Requests : request[q].at = "write" /\ ~ request[q].kept =>
    /\ request[q].want \notin Creations
    /\ NewRole(request[q].want, request[q].was) = request[q].was.role
    /\ NewActive(request[q].want, request[q].was) = request[q].was.active

\* What is decided on is marked rightly.
LEMMA DecidesHarmlessly ==
  ASSUME TypeOK, RowsStand, NEW q \in Requests, Decides(q), request'[q].at = "write", ~ request'[q].kept
  PROVE  /\ request'[q].want \notin Creations
         /\ NewRole(request'[q].want, request'[q].was) = request'[q].was.role
         /\ NewActive(request'[q].want, request'[q].was) = request'[q].was.active
<1> DEFINE w == request[q].want
           u == Target(q)
<1>1. w \in Writes /\ w.user \in Users
  BY Shape, WriteFacts DEF Decides, Deciding
<1>2. request \in [Requests -> Steps]
  BY DEF TypeOK, Steps
<1>3. ~ Ends(q)
  BY <1>2 DEF Ends, Free
<1>4. request'[q].want = w /\ request'[q].was = u
      /\ u = users[w.user] /\ OtherAdmins(w.user) = {} /\ ActiveAdmin(w.user)
  <2> DEFINE kept == u # users[w.user] \/ OtherAdmins(w.user) # {} \/ ~ ActiveAdmin(w.user)
  <2>1. request' = [request EXCEPT ![q] = [at |-> "write", want |-> w, was |-> u, kept |-> kept]]
    BY <1>3 DEF Decides
  <2> HIDE DEF kept, u, w
  <2>2. request'[q] = [at |-> "write", want |-> w, was |-> u, kept |-> kept]
    BY <1>2, <2>1
  <2>3. ~ kept
    BY <2>2
  <2> QED BY <2>2, <2>3 DEF kept
<1>5. /\ (w \in Creations) <=> (u.role = "none")
      /\ ~ (Demotes(w, u) /\ OtherAdmins(w.user) = {})
      /\ ~ (NewRole(w, u) = u.role /\ Disables(w, u) /\ OtherAdmins(w.user) = {})
  BY <1>3 DEF Decides, Counted
<1>6. u \in Row /\ u.role = "admin" /\ u.active = TRUE
  BY <1>1, <1>4 DEF ActiveAdmin, TypeOK, Row
<1>7. NewActive(w, u) \in BOOLEAN
  BY <1>6 DEF NewActive
<1> HIDE DEF u, w
<1>8. w \notin Creations /\ NewRole(w, u) = u.role
  BY <1>4, <1>5, <1>6 DEF Demotes
<1>9. NewActive(w, u) = u.active
  BY <1>4, <1>5, <1>6, <1>7, <1>8 DEF Disables
<1> QED BY <1>4, <1>8, <1>9

\* One step leaves an administrator, or overlapped another.
LEMMA AdminStep ==
  ASSUME TypeOK, RowsStand, AdminRemains, Harmless, [Next]_vars
  PROVE  AdminRemains' /\ Harmless'
<1>1. ASSUME NEW q \in Requests, Handles(q) PROVE AdminRemains' /\ Harmless'
  <2>1. Harmless'
    BY <1>1, Advances, DecidesHarmlessly DEF Harmless
  <2>2. CASE UNCHANGED <<users, overlapped>>
    BY <2>1, <2>2 DEF AdminRemains, ActiveAdmin
  <2>3. CASE Commits(q)
    <3> DEFINE w == request[q].want
               was == request[q].was
    <3>1. w \in Writes /\ was \in Row /\ w.user \in Users /\ request[q].kept \in BOOLEAN
          /\ request[q].at = "write"
      BY <2>3, Shape, WriteFacts DEF Commits, Writing
    <3>2. /\ users' = [users EXCEPT ![w.user] = Written(w, was, users[w.user])]
          /\ overlapped' = (overlapped \/ (request[q].kept /\ ~ \E v \in Users : ActiveAdmin(v)'))
      BY <2>3, <3>1 DEF Commits, TypeOK
    <3>3. CASE request[q].kept
      BY <2>1, <3>2, <3>3 DEF AdminRemains
    <3>4. CASE ~ request[q].kept
      <4>1. /\ Written(w, was, users[w.user]).role = users[w.user].role
            /\ Written(w, was, users[w.user]).active = users[w.user].active
        BY <3>1, <3>4, WrittenFacts DEF Harmless, TypeOK
      <4>2. \A v \in Users : ActiveAdmin(v)' = ActiveAdmin(v)
        BY <3>1, <3>2, <4>1 DEF ActiveAdmin, TypeOK
      <4>3. overlapped' = overlapped
        BY <3>2, <3>4 DEF TypeOK
      <4> QED BY <2>1, <4>2, <4>3 DEF AdminRemains
    <3> QED BY <3>3, <3>4
  <2> QED BY <1>1, <2>2, <2>3, Advances
<1>2. CASE Tick
  BY <1>2 DEF Tick, AdminRemains, ActiveAdmin, Harmless
<1>3. CASE Restart
  BY <1>3 DEF Restart, AdminRemains, ActiveAdmin, Harmless, Free
<1>4. CASE UNCHANGED vars
  BY <1>4 DEF vars, AdminRemains, ActiveAdmin, Harmless
<1> QED BY <1>1, <1>2, <1>3, <1>4 DEF Next

\* The last active administrator is never demoted or disabled, by any number of
\* requests and command lines at once, but by a write between whose reads and
\* commit the administrators changed (users.set_role, set_active).
THEOREM LastAdministrator == Spec => []AdminRemains
<1>1. Init => AdminRemains /\ Harmless
  <2> SUFFICES ASSUME Init PROVE AdminRemains /\ Harmless
    OBVIOUS
  <2>1. PICK u \in Users : users[u].role = "admin"
    BY DEF Init
  <2>2. users[u].active = TRUE
    BY <2>1 DEF Init, Account
  <2> QED BY <2>1, <2>2 DEF Init, AdminRemains, ActiveAdmin, Harmless, Free
<1>2. TypeOK /\ RowsStand /\ (AdminRemains /\ Harmless) /\ [Next]_vars => (AdminRemains /\ Harmless)'
  BY AdminStep
<1> QED BY <1>1, <1>2, TypeCorrect, PTL DEF Spec

-----------------------------------------------------------------------------
(* The end of a session.                                                    *)

\* Also of a session that has run out.
Current ==
  \A s \in Sessions : sessions[s] # NoRow /\ ~ sessions[s].revoked =>
    sessions[s].late \/ sessions[s].age = users[sessions[s].user].age

\* What a request does to a session it finds: it keeps whose it is and from which
\* sign-in, and none is taken back out of its end.
LEMMA SessionKept ==
  ASSUME TypeOK, RowsStand, NEW q \in Requests,
         RevokesDisabled(q) \/ Touches(q) \/ Rotates(q) \/ LogsOut(q),
         NEW s \in Sessions, sessions'[s] # NoRow
  PROVE  /\ sessions[s] # NoRow
         /\ sessions'[s].user = sessions[s].user /\ sessions'[s].age = sessions[s].age
         /\ sessions'[s].late = sessions[s].late
         /\ ~ sessions'[s].revoked => ~ sessions[s].revoked
<1> DEFINE t == request[q].session
           row == sessions[t]
<1>1. request[q] \in Cookies /\ t \in Sessions /\ row \in Session /\ request[q].seen \in 0 .. now
  BY Shape, CallerFacts DEF RevokesDisabled, Touches, Rotates, LogsOut, Cookies
<1>2. PICK new \in {[row EXCEPT !.revoked = TRUE], Touched(row, request[q].seen), [row EXCEPT !.csrf = @ + 1]} :
        sessions' = [sessions EXCEPT ![t] = new]
  BY <1>1 DEF RevokesDisabled, Touches, Rotates, LogsOut, TypeOK
<1>3. /\ new.user = row.user /\ new.age = row.age /\ new.late = row.late
      /\ ~ new.revoked => ~ row.revoked
  BY <1>1, <1>2, TouchedFacts DEF Session
<1>4. row # NoRow
  BY <1>1, RowFacts
<1> HIDE DEF row
<1>5. sessions \in [Sessions -> Session \cup {NoRow}]
  BY DEF TypeOK
<1> QED BY <1>1, <1>2, <1>3, <1>4, <1>5 DEF row

\* One step ages an account only together with the end of its sessions.
LEMMA CurrentStep ==
  ASSUME TypeOK, RowsStand, Current, [Next]_vars
  PROVE  Current'
<1>1. ASSUME NEW q \in Requests, Handles(q) PROVE Current'
  <2> SUFFICES ASSUME NEW s \in Sessions, sessions'[s] # NoRow, ~ sessions'[s].revoked
               PROVE  sessions'[s].late \/ sessions'[s].age = users'[sessions'[s].user].age
    BY DEF Current
  <2>1. CASE Commits(q)
    <3> DEFINE w == request[q].want
               was == request[q].was
    <3>1. w \in Writes /\ was \in Row /\ w.user \in Users
      BY <2>1, Shape, WriteFacts DEF Commits, Writing
    <3>2. /\ users' = [users EXCEPT ![w.user] = Written(w, was, users[w.user])]
          /\ sessions'[s] = IF EndsSessions(w, was) /\ sessions[s].user = w.user
                            THEN [sessions[s] EXCEPT !.revoked = TRUE] ELSE sessions[s]
      BY <2>1, <3>1 DEF Commits, TypeOK
    <3>3. sessions[s] # NoRow
      <4>1. NoRow.user # w.user
        BY <3>1, NoUserAssumption DEF NoRow
      <4> QED BY <3>2, <4>1
    <3>4. sessions[s] \in Session /\ sessions[s].user \in Users
      BY <3>3 DEF TypeOK, Session
    <3>5. ~ (EndsSessions(w, was) /\ sessions[s].user = w.user)
      <4>1. [sessions[s] EXCEPT !.revoked = TRUE].revoked = TRUE
        BY <3>4 DEF Session
      <4> QED BY <3>2, <4>1
    <3>6. sessions'[s] = sessions[s] /\ users'[sessions[s].user].age = users[sessions[s].user].age
      BY <3>1, <3>2, <3>4, <3>5, WrittenFacts DEF TypeOK
    <3> QED BY <3>3, <3>6 DEF Current
  <2>2. CASE UNCHANGED users /\ (RevokesDisabled(q) \/ Touches(q) \/ Rotates(q) \/ LogsOut(q))
    BY <2>2, SessionKept DEF Current
  <2>3. CASE UNCHANGED users /\ LoginSucceeds(q)
    <3> DEFINE u == request[q].name
               age == request[q].was.age
    <3>1. sessions'[s] = sessions[s] \/ sessions'[s] = Issued(u, age)
      BY <2>3 DEF LoginSucceeds, TypeOK
    <3>2. Issued(u, age).user = u /\ Issued(u, age).age = age /\ Issued(u, age).late = (age # users[u].age)
      BY DEF Issued
    <3>3. CASE sessions'[s] = Issued(u, age)
      BY <2>3, <3>2, <3>3
    <3> QED BY <2>3, <3>1, <3>3 DEF Current
  <2>4. CASE UNCHANGED <<users, sessions>>
    BY <2>4 DEF Current
  <2> QED BY <1>1, <2>1, <2>2, <2>3, <2>4, Advances
<1>2. CASE Tick
  BY <1>2 DEF Tick, Current
<1>3. CASE Restart
  BY <1>3 DEF Restart, Current
<1>4. CASE UNCHANGED vars
  BY <1>4 DEF vars, Current
<1> QED BY <1>1, <1>2, <1>3, <1>4 DEF Next

\* A new role, a new password or a disabled account ends the account's sessions for
\* good, but that of a sign-in which was verifying the old password meanwhile: no
\* request in hand brings one back (users.py, sessions.touch_session).
THEOREM SessionsEnd == Spec => []ChangesEndSessions
<1>1. Init => Current
  <2> SUFFICES ASSUME Init, NEW s \in Sessions, sessions[s] # NoRow
               PROVE  sessions[s].late \/ sessions[s].age = users[sessions[s].user].age
    BY DEF Current
  <2>1. PICK opened \in [Sessions -> Users \cup {NoUser}] :
          sessions = [i \in Sessions |-> IF opened[i] = NoUser THEN NoRow ELSE Issued(opened[i], 0)]
    BY DEF Init
  <2>2. sessions[s] = Issued(opened[s], 0)
    BY <2>1
  <2>3. /\ Issued(opened[s], 0).user = opened[s] /\ Issued(opened[s], 0).age = 0
        /\ Issued(opened[s], 0).late = (0 # users[opened[s]].age)
    BY DEF Issued
  <2> QED BY <2>2, <2>3
<1>2. TypeOK /\ RowsStand /\ Current /\ [Next]_vars => Current'
  BY CurrentStep
<1>3. Current => ChangesEndSessions
  BY DEF Current, ChangesEndSessions, Live
<1> QED BY <1>1, <1>2, <1>3, TypeCorrect, PTL DEF Spec

-----------------------------------------------------------------------------
(* The caller's authority.                                                  *)

\* What has been seen of a caller, by how far the request has come.
Seen ==
  \A q \in Requests :
    /\ request[q].at \in {"user", "revoke", "touch", "check"} => {"live", "token"} \subseteq held[q]
    /\ request[q].at \in {"touch", "check"} => "active" \in held[q]
    /\ request[q].at = "decide" /\ "session" \in DOMAIN request[q]
         => {"live", "active", "admin", "token"} \subseteq held[q]

\* Each way station adds what its check has found.
LEMMA SeenStep ==
  ASSUME TypeOK, RowsStand, Seen, [Next]_vars
  PROVE  Seen'
<1>1. ASSUME NEW q \in Requests, Handles(q), UNCHANGED now, Witnesses PROVE Seen'
  <2> DEFINE Fine(p) ==
        /\ request[p].at \in {"user", "revoke", "touch", "check"} => {"live", "token"} \subseteq held[p]
        /\ request[p].at \in {"touch", "check"} => "active" \in held[p]
        /\ request[p].at = "decide" /\ "session" \in DOMAIN request[p]
             => {"live", "active", "admin", "token"} \subseteq held[p]
  <2>1. ASSUME NEW p \in Requests \ {q} PROVE Fine(p)'
    <3>1. request'[p] = request[p] /\ Fine(p)
      BY <1>1, Advances DEF Seen
    <3>2. request'[p].at \in {"user", "revoke", "touch", "check", "decide"} => request'[p] # Free
      BY DEF Free
    <3>3. request'[p] # Free => held[p] \subseteq held'[p]
      BY <1>1, Remembers
    <3> QED BY <3>1, <3>2, <3>3
  <2>2. request \in [Requests -> Steps] /\ (request'[q].at # "free" => request'[q] # Free)
    BY DEF TypeOK, Steps, Free
  <2>3. ASSUME NEW s \in Sessions, NEW want \in Asks, Arrives(q, s, want)
        PROVE  request'[q].at = "user" /\ {"live", "token"} \subseteq held'[q]
    <3>1. request'[q] = [at |-> "user", session |-> s, want |-> want,
                         token |-> sessions[s].csrf, seen |-> sessions[s].seen]
      BY <2>2, <2>3 DEF Arrives
    <3>2. request'[q].at = "user" /\ request'[q].session = s /\ request'[q].token = sessions[s].csrf
          /\ "session" \in DOMAIN request'[q]
      BY <3>1
    <3>3. sessions' = sessions /\ Live(s)
      BY <2>3 DEF Arrives
    <3>4. {"live", "token"} \subseteq Facts(q)'
      BY <1>1, <3>2, <3>3 DEF Facts, Live, TokenMatches
    <3> QED BY <1>1, <2>2, <3>2, <3>4, Remembers
  <2>4. ASSUME ReadsUser(q)
        PROVE  /\ request'[q].at \in {"touch", "revoke"}
               /\ {"live", "token"} \subseteq held'[q] /\ (request'[q].at = "touch" => "active" \in held'[q])
    <3>1. request[q] \in Cookies /\ {"live", "token"} \subseteq held[q]
      BY <2>4, Shape DEF ReadsUser, Seen
    <3>2. PICK at \in {"touch", "revoke"} : Goto(q, at) /\ (at = "touch" => Caller(q).active)
      BY <2>4 DEF ReadsUser
    <3>3. request'[q].at = at /\ request'[q].session = request[q].session /\ "session" \in DOMAIN request'[q]
      BY <2>2, <3>1, <3>2 DEF Goto, Cookies
    <3>4. Caller(q)' = Caller(q)
      BY <2>4, <3>3 DEF Caller, ReadsUser
    <3>5. at = "touch" => "active" \in Facts(q)'
      BY <3>2, <3>3, <3>4 DEF Facts
    <3> QED BY <1>1, <2>2, <3>1, <3>3, <3>5, Remembers
  <2>5. ASSUME Touches(q), request'[q].at = "check"
        PROVE  {"live", "token", "active"} \subseteq held'[q]
    BY <1>1, <2>2, <2>5, Remembers DEF Touches, Seen
  <2>6. ASSUME Authorised(q)
        PROVE  request'[q].at = "decide" /\ {"live", "active", "admin", "token"} \subseteq held'[q]
    <3>1. request'[q] = [at |-> "decide", session |-> request[q].session, token |-> request[q].token,
                         want |-> request[q].want, self |-> Caller(q)]
      BY <2>2, <2>6 DEF Authorised
    <3>2. request'[q].at = "decide" /\ request'[q].session = request[q].session /\ "session" \in DOMAIN request'[q]
      BY <3>1
    <3>3. Caller(q)' = Caller(q) /\ Caller(q).role = "admin"
      BY <2>6, <3>2 DEF Caller, Authorised, MayWrite
    <3>4. "admin" \in Facts(q)'
      BY <3>2, <3>3 DEF Facts
    <3>5. {"live", "token", "active"} \subseteq held[q]
      BY <2>6 DEF Authorised, Seen
    <3> QED BY <1>1, <2>2, <3>2, <3>4, <3>5, Remembers
  <2>7. Fine(q)'
    BY <1>1, <2>3, <2>4, <2>5, <2>6, Advances
  <2> QED BY <2>1, <2>7 DEF Seen
<1>2. CASE Tick /\ Witnesses
  <2>1. request' = request
    BY <1>2 DEF Tick
  <2>2. \A q \in Requests : request[q].at \in {"user", "revoke", "touch", "check", "decide"}
                            => held[q] \subseteq held'[q]
    BY <1>2, <2>1 DEF Witnesses, Free, TypeOK
  <2> QED BY <2>1, <2>2 DEF Seen
<1>3. CASE Restart
  BY <1>3 DEF Restart, Seen, Free
<1>4. CASE UNCHANGED vars
  BY <1>4 DEF vars, Seen
<1> QED BY <1>1, <1>2, <1>3, <1>4 DEF Next, Witnesses

\* An administrator's write is begun only for a caller who has had, since the request
\* came in, a valid session, an active account, an administrator's role and the
\* newest token (auth/dependencies.py).
THEOREM Authority == Spec => []AuthorityHeld
<1>1. Init => Seen
  BY DEF Init, Seen, Free
<1>2. TypeOK /\ RowsStand /\ Seen /\ [Next]_vars => Seen'
  BY SeenStep
<1>3. TypeOK /\ Seen => AuthorityHeld
  BY DEF TypeOK, Seen, AuthorityHeld
<1> QED BY <1>1, <1>2, <1>3, TypeCorrect, PTL DEF Spec

-----------------------------------------------------------------------------
(* Use of a session.                                                        *)

\* The idle end is reckoned from last_seen_at, which lags behind the last use by less
\* than the time it is not refreshed in; a request has not read a later one than
\* the row's.
Refreshed ==
  /\ \A s \in Sessions : sessions[s] # NoRow =>
       sessions[s].idle = sessions[s].seen + Idle /\ sessions[s].used - sessions[s].seen < Refresh
  /\ \A q \in Requests : request[q] \in Cookies => request[q].seen <= sessions[request[q].session].seen

\* One step of a session's row.
LEMMA RowRefreshed ==
  ASSUME TypeOK, RowsStand, Refreshed, NEW q \in Requests, Handles(q), NEW s \in Sessions,
         sessions'[s] # NoRow
  PROVE  /\ sessions'[s].idle = sessions'[s].seen + Idle /\ sessions'[s].used - sessions'[s].seen < Refresh
         /\ sessions[s] # NoRow => sessions[s].seen <= sessions'[s].seen
<1> DEFINE t == request[q].session
           row == sessions[t]
           Good(r) == r.idle = r.seen + Idle /\ r.used - r.seen < Refresh
<1>0. sessions \in [Sessions -> Session \cup {NoRow}] /\ now \in Nat /\ Idle \in Nat /\ Refresh \in Nat \ {0}
  BY LifetimesAssumption DEF TypeOK
<1>1. CASE sessions'[s] = sessions[s]
  BY <1>0, <1>1 DEF Refreshed, Session
<1>2. CASE RevokesDisabled(q) \/ Touches(q) \/ Rotates(q) \/ LogsOut(q)
  <2>1. request[q] \in Cookies /\ t \in Sessions /\ row \in Session /\ request[q].seen \in 0 .. now
        /\ request[q].seen <= row.seen
    BY <1>2, Shape, CallerFacts DEF RevokesDisabled, Touches, Rotates, LogsOut, Cookies, Refreshed
  <2>2. PICK new \in {[row EXCEPT !.revoked = TRUE], Touched(row, request[q].seen), [row EXCEPT !.csrf = @ + 1]} :
          sessions' = [sessions EXCEPT ![t] = new]
    BY <1>2, <2>1 DEF RevokesDisabled, Touches, Rotates, LogsOut, TypeOK
  <2>3. Good(row)
    BY <2>1, RowFacts DEF Refreshed
  <2>4. Good(new) /\ row.seen <= new.seen
    <3>1. CASE new = Touched(row, request[q].seen)
      BY <2>1, <2>3, <3>1, TouchedFacts
    <3>2. CASE new = [row EXCEPT !.revoked = TRUE]
      BY <2>1, <2>3, <3>2 DEF Session
    <3>3. CASE new = [row EXCEPT !.csrf = @ + 1]
      BY <2>1, <2>3, <3>3 DEF Session
    <3> QED BY <2>2, <3>1, <3>2, <3>3
  <2>5. CASE s = t
    BY <1>0, <2>1, <2>2, <2>4, <2>5
  <2>6. CASE s # t
    BY <1>0, <1>1, <2>2, <2>6
  <2> QED BY <2>5, <2>6
<1>3. CASE LoginSucceeds(q)
  <2> DEFINE u == request[q].name
             age == request[q].was.age
  <2>1. sessions'[s] = sessions[s] \/ (sessions[s] = NoRow /\ sessions'[s] = Issued(u, age))
    BY <1>0, <1>3 DEF LoginSucceeds
  <2>2. Good(Issued(u, age))
    BY <1>0 DEF Issued
  <2> QED BY <1>1, <2>1, <2>2
<1>4. CASE Commits(q)
  <2>1. sessions'[s] = sessions[s] \/ sessions'[s] = [sessions[s] EXCEPT !.revoked = TRUE]
    BY <1>4 DEF Commits
  <2>2. request[q].want.user \in Users
    BY <1>4, Shape, WriteFacts DEF Commits, Writing
  <2>3. sessions[s] = NoRow => sessions'[s] = sessions[s]
    <3>1. NoRow.user # request[q].want.user
      BY <2>2, NoUserAssumption DEF NoRow
    <3> QED BY <1>4, <3>1 DEF Commits
  <2>4. CASE sessions[s] \in Session
    <3>1. Good(sessions[s])
      BY <2>4, RowFacts DEF Refreshed
    <3>2. Good([sessions[s] EXCEPT !.revoked = TRUE])
          /\ sessions[s].seen <= [sessions[s] EXCEPT !.revoked = TRUE].seen
      BY <2>4, <3>1 DEF Session
    <3> QED BY <1>1, <2>1, <3>2
  <2> QED BY <1>0, <1>1, <2>3, <2>4
<1> QED BY <1>1, <1>2, <1>3, <1>4, Advances

\* One step keeps last_seen_at near the last use.
LEMMA RefreshedStep ==
  ASSUME TypeOK, RowsStand, TypeOK', RowsStand', Refreshed, [Next]_vars
  PROVE  Refreshed'
<1>1. ASSUME NEW q \in Requests, Handles(q), UNCHANGED now PROVE Refreshed'
  <2>1. ASSUME NEW s \in Sessions, sessions'[s] # NoRow
        PROVE  sessions'[s].idle = sessions'[s].seen + Idle /\ sessions'[s].used - sessions'[s].seen < Refresh
    BY <1>1, <2>1, RowRefreshed
  <2>2. ASSUME NEW p \in Requests, request'[p] \in Cookies'
        PROVE  request'[p].seen <= sessions'[request'[p].session].seen
    <3> DEFINE s == request'[p].session
    <3>1. s \in Sessions /\ "session" \in DOMAIN request'[p] /\ request'[p].seen \in Nat
      BY <2>2, <1>1 DEF Cookies, TypeOK
    <3>2. sessions'[s] \in Session' /\ sessions'[s] # NoRow
      BY <3>1 DEF TypeOK, RowsStand
    <3>3. sessions'[s].seen \in Nat
      BY <3>2 DEF Session, TypeOK
    <3>4. CASE request[p] \in Cookies /\ request'[p].session = request[p].session /\ request'[p].seen = request[p].seen
      <4>1. sessions[s] # NoRow /\ request[p].seen <= sessions[s].seen /\ sessions[s].seen \in Nat
        BY <3>4, CallerFacts, RowFacts DEF Refreshed, Session, TypeOK
      <4>2. sessions[s].seen <= sessions'[s].seen
        BY <1>1, <3>1, <3>2, <4>1, RowRefreshed
      <4> QED BY <3>1, <3>3, <3>4, <4>1, <4>2
    <3>5. CASE p # q
      BY <1>1, <2>2, <3>4, <3>5, Advances DEF Cookies
    <3>6. CASE p = q
      <4>0. request \in [Requests -> Steps]
        BY DEF TypeOK, Steps
      <4>1. request'[q].at \in {"user", "revoke", "touch", "check"}
        BY <2>2, <3>6 DEF Cookies
      <4>2. CASE ReadsUser(q) \/ Touches(q)
        <5>1. request[q] \in Cookies
          BY <4>2, Shape DEF ReadsUser, Touches
        <5>2. PICK at \in {"touch", "revoke", "check"} : Goto(q, at)
          <6>1. request'[q].at # "free"
            BY <4>1
          <6>2. ~ Ends(q)
            BY <4>0, <6>1 DEF Ends, Free
          <6> QED BY <4>2, <6>2 DEF ReadsUser, Touches
        <5> QED BY <3>4, <3>6, <4>0, <5>1, <5>2 DEF Goto, Cookies
      <4>3. ASSUME NEW c \in Sessions, NEW want \in Asks, Arrives(q, c, want)
            PROVE  request'[q].seen = sessions'[request'[q].session].seen
        <5>1. request'[q] = [at |-> "user", session |-> c, want |-> want,
                             token |-> sessions[c].csrf, seen |-> sessions[c].seen]
          BY <4>0, <4>3 DEF Arrives
        <5> QED BY <4>3, <5>1 DEF Arrives
      <4> QED BY <1>1, <3>1, <3>3, <3>6, <4>1, <4>2, <4>3, Advances
    <3> QED BY <3>5, <3>6
  <2> QED BY <2>1, <2>2 DEF Refreshed
<1>2. CASE Tick
  <2>1. UNCHANGED <<sessions, request>>
    BY <1>2 DEF Tick
  <2>2. \A q \in Requests : request[q] \in Cookies' => request[q] \in Cookies
    <3>1. \A q \in Requests : request[q] \in Cookies' => request[q].at \in {"user", "revoke", "touch", "check"}
      BY DEF Cookies
    <3> QED BY <3>1, Shape
  <2> QED BY <2>1, <2>2 DEF Refreshed
<1>3. CASE Restart
  <2>1. \A q \in Requests : request'[q] \notin Cookies'
    BY <1>3 DEF Restart, Free, Cookies
  <2> QED BY <1>3, <2>1 DEF Restart, Refreshed
<1>4. CASE UNCHANGED vars
  <2>1. Cookies' = Cookies
    BY <1>4 DEF vars, Cookies
  <2> QED BY <1>4, <2>1 DEF vars, Refreshed
<1> QED BY <1>1, <1>2, <1>3, <1>4 DEF Next

\* A session that is used lives for an idle time after its last use, less the time
\* within which last_seen_at is not refreshed, however the requests that touch it
\* come between each other (sessions.touch_session).
THEOREM UseKeepsSessions == Spec => []UseKeepsAlive
<1>1. Init => Refreshed
  <2> SUFFICES ASSUME Init PROVE Refreshed
    OBVIOUS
  <2>1. \A q \in Requests : request[q] \notin Cookies
    BY DEF Init, Free, Cookies
  <2>2. ASSUME NEW s \in Sessions, sessions[s] # NoRow
        PROVE  sessions[s].idle = sessions[s].seen + Idle /\ sessions[s].used - sessions[s].seen < Refresh
    <3>1. PICK opened \in [Sessions -> Users \cup {NoUser}] :
            sessions = [i \in Sessions |-> IF opened[i] = NoUser THEN NoRow ELSE Issued(opened[i], 0)]
      BY DEF Init
    <3>2. sessions[s] = Issued(opened[s], 0) /\ now = 0
      BY <2>2, <3>1 DEF Init
    <3> QED BY <3>2, LifetimesAssumption DEF Issued
  <2> QED BY <2>1, <2>2 DEF Refreshed
<1>2. TypeOK /\ RowsStand /\ (TypeOK /\ RowsStand)' /\ Refreshed /\ [Next]_vars => Refreshed'
  BY RefreshedStep
<1>3. TypeOK /\ Refreshed => UseKeepsAlive
  <2> SUFFICES ASSUME TypeOK, Refreshed, NEW s \in Sessions, sessions[s] # NoRow
               PROVE  sessions[s].idle > sessions[s].used + Idle - Refresh
    BY DEF UseKeepsAlive
  <2>1. sessions[s] \in Session
    BY DEF TypeOK
  <2>2. sessions[s].used \in Int /\ sessions[s].seen \in Int /\ sessions[s].idle \in Int
    BY <2>1 DEF Session, TypeOK
  <2> QED BY <2>2, LifetimesAssumption DEF Refreshed
<1> QED BY <1>1, <1>2, <1>3, TypeCorrect, PTL DEF Spec

-----------------------------------------------------------------------------
(* The limiter.                                                             *)

\* The sign-ins that are past the limiter's check.
Signing(u) == {q \in Requests : request[q].at \in {"limit", "verify"} /\ request[q].name = u}

\* A block leaves the list empty, so the list alone bounds nothing: it holds what
\* failed since the block began, as far as it is recent.  While the block lasts
\* only the sign-ins that were past the check can fail, each once; when it ends, what
\* failed before it is no longer recent.
Limited ==
  \A u \in Users :
    /\ Cardinality(entries[u].failures) < MaxFailures
    /\ \A f \in failed[u] : f.at <= now /\ f.nth < Cardinality(failed[u])
    /\ \A f \in Recent(failed[u]) : f.at > entries[u].until - Block => f \in entries[u].failures
    /\ now < entries[u].until =>
         Cardinality(Recent(failed[u])) + Cardinality(Signing(u)) <= MaxFailures + Cardinality(Requests) - 1

\* What is counted can be.
LEMMA CountFacts ==
  ASSUME TypeOK, NEW u \in Users
  PROVE  /\ now \in Nat /\ entries[u].until \in Nat
         /\ IsFiniteSet(failed[u]) /\ IsFiniteSet(entries[u].failures)
         /\ Cardinality(entries[u].failures) \in Nat /\ Cardinality(failed[u]) \in Nat
         /\ IsFiniteSet(Recent(failed[u])) /\ Cardinality(Recent(failed[u])) \in Nat
         /\ \A f \in failed[u] : f.at \in Nat /\ f.nth \in Nat
         /\ IsFiniteSet(Signing(u)) /\ Cardinality(Signing(u)) \in Nat
         /\ Cardinality(Requests) \in Nat
<1>1. now \in Nat /\ entries[u].until \in Nat /\ entries[u].failures \in Failures /\ failed[u] \in Failures
  BY DEF TypeOK
<1>2. Recent(failed[u]) \subseteq failed[u] /\ Signing(u) \subseteq Requests
  BY DEF Recent, Signing
<1>3. IsFiniteSet(failed[u]) /\ IsFiniteSet(entries[u].failures)
      /\ \A f \in failed[u] : f.at \in Nat /\ f.nth \in Nat
  BY <1>1 DEF Failures, Failure
<1> QED BY <1>1, <1>2, <1>3, RequestsAssumption, FS_Subset, FS_CardinalityType

\* Outside a block all that is recent is in the list.
LEMMA OpenFacts ==
  ASSUME TypeOK, Limited, NEW u \in Users, entries[u].until <= now
  PROVE  /\ Recent(failed[u]) \subseteq entries[u].failures
         /\ Cardinality(Recent(failed[u])) <= MaxFailures - 1
<1>1. ASSUME NEW f \in Recent(failed[u]) PROVE f \in entries[u].failures
  <2>1. f \in failed[u] /\ f.at > now - Window
    BY DEF Recent
  <2>2. f.at > entries[u].until - Block
    BY <2>1, CountFacts, LifetimesAssumption
  <2> QED BY <2>2 DEF Limited
<1>2. Cardinality(Recent(failed[u])) <= Cardinality(entries[u].failures)
  BY <1>1, CountFacts, FS_Subset
<1> QED BY <1>1, <1>2, CountFacts, LifetimesAssumption DEF Limited

\* A request begins to sign in only as a key that is not blocked, and the list of a key
\* changes only with a sign-in that ends.
LEMMA SigningFacts ==
  ASSUME TypeOK, RowsStand, NEW q \in Requests, Handles(q), NEW v \in Users
  PROVE  /\ LoginFails(q) \/ LoginSucceeds(q) \/ UNCHANGED <<entries, failed>>
         /\ Signing(v)' \subseteq Signing(v) \/ (entries[v].until <= now /\ UNCHANGED <<entries, failed>>)
         /\ q \notin Signing(v)' \/ UNCHANGED <<entries, failed>>
<1>1. request \in [Requests -> Steps]
  BY DEF TypeOK, Steps
<1>2. LoginFails(q) \/ LoginSucceeds(q) \/ UNCHANGED <<entries, failed>>
  BY DEF Handles, Arrives, Cli, SignsIn, ReadsUser, RevokesDisabled, Touches, Rotates, LogsOut, Authorised,
         Refused, Decides, Commits, Raises, ReadsAccount
<1>3. ASSUME q \notin Signing(v)' PROVE Signing(v)' \subseteq Signing(v)
  <2>1. \A p \in Requests \ {q} : request'[p] = request[p]
    BY Advances
  <2> QED BY <1>3, <2>1 DEF Signing
<1>4. ASSUME Ends(q) PROVE q \notin Signing(v)'
  BY <1>1, <1>4 DEF Ends, Free, Signing
<1>5. LoginFails(q) \/ LoginSucceeds(q) => Ends(q)
  BY DEF LoginFails, LoginSucceeds
<1>6. ASSUME q \in Signing(v)' PROVE Signing(v)' \subseteq Signing(v) \/ entries[v].until <= now
  <2>1. request'[q].at \in {"limit", "verify"} /\ request'[q].name = v
    BY <1>6 DEF Signing
  <2>2. ASSUME NEW u \in Users, SignsIn(q, u) PROVE entries[v].until <= now
    <3>1. request'[q] = [at |-> "limit", name |-> u] /\ entries[u].until <= now
      BY <1>1, <2>2 DEF SignsIn
    <3> QED BY <2>1, <3>1
  <2>3. ASSUME ReadsAccount(q) PROVE Signing(v)' \subseteq Signing(v)
    <3>1. request'[q].name = request[q].name /\ request[q].at = "limit"
          /\ \A p \in Requests \ {q} : request'[p] = request[p]
      BY <1>1, <2>3 DEF ReadsAccount
    <3> QED BY <2>1, <3>1 DEF Signing
  <2>4. ASSUME NEW s \in Sessions, NEW want \in Asks, Arrives(q, s, want) PROVE FALSE
    BY <1>1, <2>1, <2>4 DEF Arrives
  <2>5. ASSUME NEW want \in Writes, Cli(q, want) PROVE FALSE
    BY <1>1, <2>1, <2>5 DEF Cli
  <2>6. ASSUME NEW at \in {"touch", "revoke", "check"}, Goto(q, at), request[q] \in Cookies PROVE FALSE
    BY <1>1, <2>1, <2>6 DEF Goto, Cookies
  <2>7. ReadsUser(q) \/ Touches(q) => request[q] \in Cookies
    BY Shape DEF ReadsUser, Touches
  <2>8. ReadsUser(q) \/ Touches(q) => Ends(q) \/ \E at \in {"touch", "revoke", "check"} : Goto(q, at)
    BY DEF ReadsUser, Touches
  <2>9. Authorised(q) \/ Decides(q) => Ends(q) \/ request'[q].at \in {"decide", "write"}
    BY <1>1 DEF Authorised, Decides
  <2>10. RevokesDisabled(q) \/ Rotates(q) \/ LogsOut(q) \/ Refused(q) \/ Commits(q) \/ Raises(q)
           \/ LoginFails(q) \/ LoginSucceeds(q) => Ends(q)
    BY DEF RevokesDisabled, Rotates, LogsOut, Refused, Commits, Raises, LoginFails, LoginSucceeds
  <2> QED BY <1>4, <1>6, <2>1, <2>2, <2>3, <2>4, <2>5, <2>6, <2>7, <2>8, <2>9, <2>10 DEF Handles
<1> QED BY <1>2, <1>3, <1>4, <1>5, <1>6

\* One more failure of a key.
LEMMA FailureCounted ==
  ASSUME TypeOK, TypeOK', RowsStand, Limited, NEW q \in Requests, LoginFails(q), now' = now, Handles(q)
  PROVE  Limited'
<1>1. PICK u \in Users : u = request[q].name
  BY Shape DEF LoginFails, SigningIn
<1>0. PICK f : f = [at |-> now, nth |-> Cardinality(failed[u])]
  OBVIOUS
<1>2. q \in Signing(u) /\ \A v \in Users : q \notin Signing(v)' /\ Signing(v)' \subseteq Signing(v)
  <2>1. Ends(q)
    BY DEF LoginFails
  <2>2. \A v \in Users : q \notin Signing(v)'
    BY <2>1 DEF Ends, Signing, TypeOK, Free
  <2>3. \A p \in Requests \ {q} : request'[p] = request[p]
    BY Advances
  <2> QED BY <1>1, <2>2, <2>3 DEF Signing, LoginFails
<1>3. entries' = [entries EXCEPT ![u] = Failed(entries[u], f)]
      /\ failed' = [failed EXCEPT ![u] = failed[u] \cup {f}]
  BY <1>0, <1>1 DEF LoginFails
<1>4. f.at = now /\ f.nth = Cardinality(failed[u]) /\ f \notin failed[u]
  <2>1. f.at = now /\ f.nth = Cardinality(failed[u])
    BY <1>0
  <2>2. ASSUME NEW g \in failed[u] PROVE g.nth < Cardinality(failed[u])
    BY <1>1 DEF Limited
  <2> QED BY <1>1, <2>1, <2>2, CountFacts
<1>5. failed'[u] = failed[u] \cup {f} /\ entries'[u] = Failed(entries[u], f)
  BY <1>1, <1>3 DEF TypeOK
<1>6. Cardinality(failed'[u]) = Cardinality(failed[u]) + 1
  <2>1. IsFiniteSet(failed[u])
    BY CountFacts
  <2>2. Cardinality(failed[u] \cup {f}) = Cardinality(failed[u]) + 1
    BY <1>4, <2>1, FS_AddElement
  <2> QED BY <1>5, <2>2
<1>7. Recent(failed[u])' \subseteq Recent(failed[u]) \cup {f}
      /\ Cardinality(Recent(failed[u])') \in Nat
      /\ Cardinality(Recent(failed[u])') <= Cardinality(Recent(failed[u])) + 1
  <2>1. Recent(failed[u])' \subseteq Recent(failed[u]) \cup {f}
    BY <1>5 DEF Recent
  <2>2. IsFiniteSet(Recent(failed[u]) \cup {f})
        /\ Cardinality(Recent(failed[u]) \cup {f}) <= Cardinality(Recent(failed[u])) + 1
    <3>1. IsFiniteSet(Recent(failed[u])) /\ Cardinality(Recent(failed[u])) \in Nat
      BY CountFacts
    <3> DEFINE R == Recent(failed[u])
    <3>2. IsFiniteSet(R \cup {f}) /\ Cardinality(R \cup {f}) = IF f \in R THEN Cardinality(R) ELSE Cardinality(R) + 1
      <4> HIDE DEF R
      <4> QED BY <3>1, FS_AddElement DEF R
    <3> QED BY <3>1, <3>2
  <2>3. Cardinality(Recent(failed[u])') <= Cardinality(Recent(failed[u]) \cup {f})
    BY <2>1, <2>2, FS_Subset
  <2>4. Cardinality(Recent(failed[u])') \in Nat /\ Cardinality(Recent(failed[u]) \cup {f}) \in Nat
        /\ Cardinality(Recent(failed[u])) \in Nat
    BY <2>1, <2>2, <1>1, CountFacts, FS_Subset, FS_CardinalityType
  <2> QED BY <2>1, <2>2, <2>3, <2>4
<1>8. ASSUME NEW v \in Users
      PROVE  Cardinality(Signing(v)') \in Nat /\ Cardinality(Signing(v)') <= Cardinality(Signing(v))
  BY <1>2, CountFacts, FS_Subset, FS_CardinalityType
<1>9. Cardinality(Signing(u)') <= Cardinality(Signing(u)) - 1
      /\ Cardinality(Signing(u)') <= Cardinality(Requests) - 1
  <2>1. Signing(u)' \subseteq Signing(u) \ {q} /\ Signing(u)' \subseteq Requests \ {q}
    BY <1>1, <1>2 DEF Signing
  <2>2. Cardinality(Signing(u) \ {q}) = Cardinality(Signing(u)) - 1
        /\ Cardinality(Requests \ {q}) = Cardinality(Requests) - 1
        /\ IsFiniteSet(Signing(u) \ {q}) /\ IsFiniteSet(Requests \ {q})
    BY <1>1, <1>2, CountFacts, RequestsAssumption, FS_RemoveElement
  <2> QED BY <2>1, <2>2, FS_Subset
<1>10. \A g \in failed'[u] : g.at <= now' /\ g.nth < Cardinality(failed'[u])
  <2>1. \A g \in failed[u] : g.at <= now /\ g.nth < Cardinality(failed[u]) /\ g.nth \in Nat
    BY <1>1, CountFacts DEF Limited
  <2>2. now \in Nat /\ Cardinality(failed[u]) \in Nat
    BY <1>1, CountFacts
  <2> QED BY <1>4, <1>5, <1>6, <2>1, <2>2
<1>11. Block \in Nat /\ MaxFailures \in Nat \ {0} /\ Window \in Nat
  BY LifetimesAssumption
<1>12. ASSUME entries'[u] = [failures |-> {}, until |-> now + Block]
       PROVE  /\ Cardinality(entries'[u].failures) < MaxFailures
              /\ \A g \in Recent(failed[u])' : g.at > entries'[u].until - Block => g \in entries'[u].failures
              /\ now' < entries'[u].until =>
                   Cardinality(Recent(failed[u])') + Cardinality(Signing(u)') <= MaxFailures + Cardinality(Requests) - 1
  <2>1. Cardinality(entries'[u].failures) < MaxFailures /\ entries'[u].until = now + Block
    BY <1>11, <1>12, FS_EmptySet
  <2>2. \A g \in Recent(failed[u])' : ~ (g.at > entries'[u].until - Block)
    <3> SUFFICES ASSUME NEW g \in Recent(failed[u])' PROVE ~ (g.at > entries'[u].until - Block)
      OBVIOUS
    <3>1. g = f \/ (g \in failed[u] /\ g.at \in Nat)
      BY <1>1, <1>5, CountFacts DEF Recent
    <3>2. g.at <= now /\ g.at \in Nat /\ now \in Nat
      BY <1>1, <1>4, <3>1, CountFacts DEF Limited
    <3> QED BY <1>11, <2>1, <3>2
  <2>3. Cardinality(Recent(failed[u])') + Cardinality(Signing(u)') <= MaxFailures + Cardinality(Requests) - 1
    <3>0. Cardinality(Recent(failed[u])) \in Nat /\ Cardinality(Signing(u)) \in Nat /\ Cardinality(Requests) \in Nat
          /\ Cardinality(Signing(u)') \in Nat /\ entries[u].until \in Nat /\ now \in Nat
      BY <1>8, CountFacts
    <3>1. CASE entries[u].until <= now
      <4>1. Cardinality(Recent(failed[u])) <= MaxFailures - 1
        BY <1>1, <3>1, OpenFacts
      <4> QED BY <1>7, <1>9, <1>11, <3>0, <4>1
    <3>2. CASE ~ (entries[u].until <= now)
      <4>1. Cardinality(Recent(failed[u])) + Cardinality(Signing(u)) <= MaxFailures + Cardinality(Requests) - 1
        BY <3>0, <3>2 DEF Limited
      <4> QED BY <1>7, <1>9, <1>11, <3>0, <4>1
    <3> QED BY <3>1, <3>2
  <2> QED BY <2>1, <2>2, <2>3
<1>13. ASSUME entries'[u] # [failures |-> {}, until |-> now + Block]
       PROVE  /\ Cardinality(entries'[u].failures) < MaxFailures
              /\ \A g \in Recent(failed[u])' : g.at > entries'[u].until - Block => g \in entries'[u].failures
              /\ now' < entries'[u].until =>
                   Cardinality(Recent(failed[u])') + Cardinality(Signing(u)') <= MaxFailures + Cardinality(Requests) - 1
  <2> DEFINE kept == Recent(entries[u].failures) \cup {f}
  <2>1. Cardinality(kept) < MaxFailures /\ entries'[u] = [failures |-> kept, until |-> entries[u].until]
    <3>1. kept \in Failures
      BY <1>0, <1>1, FailedFacts
    <3>2. Cardinality(kept) \in Nat
      BY <3>1, FS_CardinalityType DEF Failures
    <3> QED BY <1>5, <1>11, <1>13, <3>2 DEF Failed
  <2>2. \A g \in Recent(failed[u])' : g.at > entries'[u].until - Block => g \in entries'[u].failures
    <3> SUFFICES ASSUME NEW g \in Recent(failed[u])', g.at > entries'[u].until - Block PROVE g \in kept
      BY <2>1
    <3>1. CASE g # f
      <4>1. g \in Recent(failed[u]) /\ g.at > entries[u].until - Block /\ g.at > now - Window
        BY <1>7, <2>1, <3>1 DEF Recent
      <4>2. g \in entries[u].failures
        BY <4>1 DEF Limited
      <4> QED BY <4>1, <4>2 DEF Recent
    <3> QED BY <3>1
  <2>3. now < entries'[u].until =>
          Cardinality(Recent(failed[u])') + Cardinality(Signing(u)') <= MaxFailures + Cardinality(Requests) - 1
    <3> SUFFICES ASSUME now < entries[u].until
                 PROVE  Cardinality(Recent(failed[u])') + Cardinality(Signing(u)')
                          <= MaxFailures + Cardinality(Requests) - 1
      BY <2>1
    <3>1. Cardinality(Recent(failed[u])) + Cardinality(Signing(u)) <= MaxFailures + Cardinality(Requests) - 1
      BY DEF Limited
    <3>2. Cardinality(Recent(failed[u])) \in Nat /\ Cardinality(Signing(u)) \in Nat /\ Cardinality(Requests) \in Nat
          /\ Cardinality(Signing(u)') \in Nat
      BY <1>8, CountFacts
    <3> QED BY <1>7, <1>9, <1>11, <3>1, <3>2
  <2> QED BY <2>1, <2>2, <2>3
<1>14. ASSUME NEW v \in Users, v # u
       PROVE  failed'[v] = failed[v] /\ entries'[v] = entries[v] /\ Recent(failed[v])' = Recent(failed[v])
  <2>1. failed'[v] = failed[v] /\ entries'[v] = entries[v]
    BY <1>3, <1>14 DEF TypeOK
  <2> QED BY <2>1 DEF Recent
<1>15. ASSUME NEW v \in Users, v # u
       PROVE  /\ Cardinality(entries'[v].failures) < MaxFailures
              /\ \A g \in failed'[v] : g.at <= now' /\ g.nth < Cardinality(failed'[v])
              /\ \A g \in Recent(failed[v])' : g.at > entries'[v].until - Block => g \in entries'[v].failures
              /\ now' < entries'[v].until =>
                   Cardinality(Recent(failed[v])') + Cardinality(Signing(v)') <= MaxFailures + Cardinality(Requests) - 1
  <2>1. Cardinality(Signing(v)') <= Cardinality(Signing(v)) /\ Cardinality(Signing(v)') \in Nat
    BY <1>8
  <2>2. Cardinality(Signing(v)) \in Nat /\ Cardinality(Recent(failed[v])) \in Nat /\ Cardinality(Requests) \in Nat
    BY CountFacts
  <2> HIDE DEF LoginFails
  <2> QED BY <1>11, <1>14, <1>15, <2>1, <2>2 DEF Limited
<1> QED BY <1>10, <1>12, <1>13, <1>15 DEF Limited

\* A key whose list is taken away or left alone, while less of its past is recent and
\* no sign-in begins.
LEMMA CountShrinks ==
  ASSUME TypeOK, Limited, NEW u \in Users, now <= now', now' \in Nat,
         failed'[u] = failed[u], entries'[u] = entries[u],
         Signing(u)' \subseteq Signing(u) \/ entries[u].until <= now
  PROVE  /\ Cardinality(entries'[u].failures) < MaxFailures
         /\ \A g \in failed'[u] : g.at <= now' /\ g.nth < Cardinality(failed'[u])
         /\ \A g \in Recent(failed[u])' : g.at > entries'[u].until - Block => g \in entries'[u].failures
         /\ now' < entries'[u].until =>
              Cardinality(Recent(failed[u])') + Cardinality(Signing(u)') <= MaxFailures + Cardinality(Requests) - 1
<1>1. now \in Nat /\ entries[u].until \in Nat /\ Window \in Nat /\ MaxFailures \in Nat
  BY CountFacts, LifetimesAssumption
<1>2. Recent(failed[u])' \subseteq Recent(failed[u])
  <2> SUFFICES ASSUME NEW g \in failed[u], g.at > now' - Window PROVE g \in Recent(failed[u])
    BY DEF Recent
  <2>1. g.at \in Nat
    BY CountFacts
  <2> QED BY <1>1, <2>1 DEF Recent
<1>3. \A g \in failed'[u] : g.at <= now' /\ g.nth < Cardinality(failed'[u])
  <2> SUFFICES ASSUME NEW g \in failed[u] PROVE g.at <= now' /\ g.nth < Cardinality(failed[u])
    OBVIOUS
  <2>1. g.at \in Nat /\ g.at <= now /\ g.nth < Cardinality(failed[u])
    BY CountFacts DEF Limited
  <2> QED BY <1>1, <2>1
<1>4. ASSUME now' < entries[u].until
      PROVE  Cardinality(Recent(failed[u])') + Cardinality(Signing(u)') <= MaxFailures + Cardinality(Requests) - 1
  <2>1. now < entries[u].until /\ Signing(u)' \subseteq Signing(u)
    BY <1>1, <1>4
  <2>2. Cardinality(Recent(failed[u])) + Cardinality(Signing(u)) <= MaxFailures + Cardinality(Requests) - 1
    BY <2>1 DEF Limited
  <2>3. IsFiniteSet(Recent(failed[u])) /\ IsFiniteSet(Signing(u))
        /\ Cardinality(Recent(failed[u])) \in Nat /\ Cardinality(Signing(u)) \in Nat /\ Cardinality(Requests) \in Nat
    BY CountFacts
  <2>4. Cardinality(Recent(failed[u])') <= Cardinality(Recent(failed[u])) /\ Cardinality(Recent(failed[u])') \in Nat
    BY <1>2, <2>3, FS_Subset, FS_CardinalityType
  <2>5. Cardinality(Signing(u)') <= Cardinality(Signing(u)) /\ Cardinality(Signing(u)') \in Nat
    BY <2>1, <2>3, FS_Subset, FS_CardinalityType
  <2> QED BY <1>1, <2>2, <2>3, <2>4, <2>5
<1> QED BY <1>2, <1>3, <1>4 DEF Limited

\* A key with no failures.
LEMMA CountBegins ==
  ASSUME TypeOK', NEW u \in Users, failed'[u] = {}, entries'[u] = NoEntry
  PROVE  /\ Cardinality(entries'[u].failures) < MaxFailures
         /\ \A g \in failed'[u] : g.at <= now' /\ g.nth < Cardinality(failed'[u])
         /\ \A g \in Recent(failed[u])' : g.at > entries'[u].until - Block => g \in entries'[u].failures
         /\ ~ (now' < entries'[u].until)
<1>1. Recent(failed[u])' = {}
  BY DEF Recent
<1>2. now' \in Nat
  BY DEF TypeOK
<1> QED BY <1>1, <1>2, LifetimesAssumption, FS_EmptySet DEF NoEntry

\* One step keeps the failures of every key counted.
LEMMA LimitedStep ==
  ASSUME TypeOK, RowsStand, TypeOK', Limited, [Next]_vars
  PROVE  Limited'
<1>0. now \in Nat /\ now' \in Nat
  BY DEF TypeOK
<1>1. ASSUME NEW q \in Requests, Handles(q), UNCHANGED now PROVE Limited'
  <2>1. CASE LoginFails(q)
    BY <1>1, <2>1, FailureCounted
  <2>2. CASE LoginSucceeds(q)
    <3>1. PICK u \in Users : u = request[q].name
      BY <2>2, Shape DEF LoginSucceeds, SigningIn
    <3>2. failed'[u] = {} /\ entries'[u] = NoEntry
      BY <2>2, <3>1 DEF LoginSucceeds, TypeOK
    <3>3. \A v \in Users \ {u} : failed'[v] = failed[v] /\ entries'[v] = entries[v]
      BY <2>2, <3>1 DEF LoginSucceeds, TypeOK
    <3>4. \A v \in Users : Signing(v)' \subseteq Signing(v) \/ entries[v].until <= now
      BY <1>1, SigningFacts
    <3>5. \A v \in Users \ {u} :
            /\ Cardinality(entries'[v].failures) < MaxFailures
            /\ \A g \in failed'[v] : g.at <= now' /\ g.nth < Cardinality(failed'[v])
            /\ \A g \in Recent(failed[v])' : g.at > entries'[v].until - Block => g \in entries'[v].failures
            /\ now' < entries'[v].until =>
                 Cardinality(Recent(failed[v])') + Cardinality(Signing(v)') <= MaxFailures + Cardinality(Requests) - 1
      BY <1>0, <1>1, <3>3, <3>4, CountShrinks
    <3>6. /\ Cardinality(entries'[u].failures) < MaxFailures
          /\ \A g \in failed'[u] : g.at <= now' /\ g.nth < Cardinality(failed'[u])
          /\ \A g \in Recent(failed[u])' : g.at > entries'[u].until - Block => g \in entries'[u].failures
          /\ ~ (now' < entries'[u].until)
      BY <3>2, CountBegins
    <3> QED BY <3>5, <3>6 DEF Limited
  <2>3. CASE UNCHANGED <<entries, failed>>
    <3>1. \A v \in Users : Signing(v)' \subseteq Signing(v) \/ entries[v].until <= now
      BY <1>1, SigningFacts
    <3> QED BY <1>0, <1>1, <2>3, <3>1, CountShrinks DEF Limited
  <2>4. CASE Users = {}
    BY <2>4 DEF Limited
  <2>5. CASE Users # {}
    <3>1. PICK v \in Users : TRUE
      BY <2>5
    <3> QED BY <1>1, <2>1, <2>2, <2>3, <3>1, SigningFacts
  <2> QED BY <2>4, <2>5
<1>2. CASE Tick
  <2>1. now <= now' /\ UNCHANGED <<entries, failed, request>>
    BY <1>0, <1>2 DEF Tick
  <2>2. \A u \in Users : Signing(u)' \subseteq Signing(u)
    BY <2>1 DEF Signing
  <2> QED BY <1>0, <2>1, <2>2, CountShrinks DEF Limited
<1>3. CASE Restart
  <2>1. \A u \in Users : failed'[u] = {} /\ entries'[u] = NoEntry
    BY <1>3 DEF Restart
  <2> QED BY <2>1, CountBegins DEF Limited
<1>4. CASE UNCHANGED vars
  <2>1. now <= now' /\ UNCHANGED <<entries, failed, request>>
    BY <1>0, <1>4 DEF vars
  <2>2. \A u \in Users : Signing(u)' \subseteq Signing(u)
    BY <2>1 DEF Signing
  <2> QED BY <1>0, <2>1, <2>2, CountShrinks DEF Limited
<1> QED BY <1>1, <1>2, <1>3, <1>4 DEF Next

\* Between two successes no window holds more failed sign-ins of a key than the
\* limiter allows and one for each other request that was past its check, whatever
\* the requests and the clock do meanwhile; a block is as long as the window at
\* least, as in the code (rate_limit.py:14-16).
THEOREM FailuresLimited == Spec => []FailuresBounded
<1>1. TypeOK /\ Init => Limited
  <2> SUFFICES ASSUME TypeOK, Init PROVE Limited
    OBVIOUS
  <2>1. \A u \in Users : failed[u] = {} /\ entries[u] = NoEntry
    BY DEF Init
  <2>2. \A u \in Users : Recent(failed[u]) = {}
    BY <2>1 DEF Recent
  <2>3. now \in Nat
    BY DEF TypeOK
  <2> QED BY <2>1, <2>2, <2>3, LifetimesAssumption, FS_EmptySet DEF Limited, NoEntry
<1>2. TypeOK /\ RowsStand /\ (TypeOK /\ RowsStand)' /\ Limited /\ [Next]_vars => Limited'
  BY LimitedStep
<1>3. TypeOK /\ Limited => FailuresBounded
  <2> SUFFICES ASSUME TypeOK, Limited, NEW u \in Users
               PROVE  Cardinality(Recent(failed[u])) <= MaxFailures + Cardinality(Requests) - 1
    BY DEF FailuresBounded
  <2>1. /\ now \in Nat /\ entries[u].until \in Nat /\ MaxFailures \in Nat /\ Cardinality(Recent(failed[u])) \in Nat
        /\ Cardinality(Signing(u)) \in Nat /\ Cardinality(Requests) \in Nat
    BY CountFacts, LifetimesAssumption
  <2>2. CASE entries[u].until <= now
    <3>1. Cardinality(Recent(failed[u])) <= MaxFailures - 1
      BY <2>2, OpenFacts
    <3> QED BY <2>1, <3>1
  <2>3. CASE now < entries[u].until
    <3>1. Cardinality(Recent(failed[u])) + Cardinality(Signing(u)) <= MaxFailures + Cardinality(Requests) - 1
      BY <2>3 DEF Limited
    <3> QED BY <2>1, <3>1
  <2> QED BY <2>1, <2>2, <2>3
<1> QED BY <1>1, <1>2, <1>3, TypeInit, TypeCorrect, PTL DEF Spec
=============================================================================
