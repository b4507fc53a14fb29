--------------------------- MODULE MCAuthSessions ---------------------------
(* AuthSessions on two accounts, with several mixes of what comes from outside. *)
EXTENDS AuthSessions, TLC

CONSTANTS u1, u2, s1, s2, q1, q2

Mix(ticks, cookies, logins, restarts, asks) ==
  [ticks |-> ticks, cookies |-> cookies, logins |-> logins, restarts |-> restarts, asks |-> asks]

Symmetry == Permutations(Users) \cup Permutations(Sessions) \cup Permutations(Requests)
MCBudgets == 
  {Mix(3, 2, 0, 1, Asks \ Writes), Mix(1, 2, 0, 0, Asks), Mix(0, 1, 1, 0, Writes), Mix(3, 0, 4, 0, {})}
=============================================================================
