------------------------------ MODULE Sessions ------------------------------
(***************************************************************************)
(* Sessions of administrators and of viewers of one API key                *)
(* (internal/auth/session.go) and the handlers that make, check and end    *)
(* them (internal/api/auth.go, auth_sessions.go).                          *)
(*                                                                         *)
(* The manager keeps the sessions in memory and in the table               *)
(* auth_sessions, under one mutex.  A request looks a token up in a few    *)
(* critical sections of its own, so two requests and a restart of the      *)
(* program may come between them.  An error of the table is a panic: the   *)
(* router answers 500 and the mutex is released, what memory lost stays    *)
(* lost.  The counters of failed attempts have a mutex of their own.       *)
(***************************************************************************)
EXTENDS Naturals, FiniteSets

CONSTANTS
  Tokens,      \* tokens that generateToken may draw, all different
  ApiKeyIds,   \* rows of the API keys of CPA
  Clients,     \* addresses that log in
  Requests,    \* requests served at one time
  Ttl,         \* how long a session lasts
  MaxFailedLoginAttempts,
  MaxNow,      \* bound: ticks of the clock
  MaxErrors,   \* bound: errors of the table
  MaxFails     \* bound: failed attempts counted

SessionConstants ==
  /\ Ttl \in Nat /\ MaxFailedLoginAttempts \in Nat \ {0} /\ IsFiniteSet(Requests)
  /\ MaxNow \in Nat /\ MaxErrors \in Nat /\ MaxFails \in Nat

VARIABLES
  now,
  keys,     \* external: API keys that are active
  mem,      \* SessionManager.sessions
  rows,     \* the table auth_sessions
  calls,    \* the requests
  limits,   \* authHandler.keyOverviewRequests: tokens with an entry
  fails,    \* authHandler.failedAttempts
  errors,   \* errors of the table so far
  made,     \* history: tokens drawn
  ended     \* history: tokens whose removal was answered
vars == <<now, keys, mem, rows, calls, limits, fails, errors, made, ended>>

Admin == "admin"
Viewer == "api_key_viewer"
NoKey == 0
None == [role |-> "none", key |-> NoKey, exp |-> 0]
Sessions == {None} \union [role : {Admin}, key : {NoKey}, exp : Nat]
                   \union [role : {Viewer}, key : ApiKeyIds, exp : Nat]
\* What a request is for: a role's routes, GET /session or POST /logout.
Purposes == {Admin, Viewer, "session", "logout"}
Idle == [pc |-> "idle", token |-> "", purpose |-> "", key |-> NoKey, client |-> "", late |-> FALSE]

Init ==
  /\ now = 0 /\ keys = ApiKeyIds
  /\ mem = [t \in Tokens |-> None] /\ rows = [t \in Tokens |-> None]
  /\ calls = [r \in Requests |-> Idle]
  /\ limits = {} /\ fails = [c \in Clients |-> 0] /\ errors = 0
  /\ made = {} /\ ended = {}

Live(s) == s # None /\ s.exp > now
Goto(r, pc) == calls' = [calls EXCEPT ![r].pc = pc]
Answer(r) == calls' = [calls EXCEPT ![r] = Idle]
Unexpired(m) == [t \in Tokens |-> IF Live(m[t]) THEN m[t] ELSE None]
\* The table fails at some statement, those before it left the rows as "left": 500.
StoreFails(r, left) ==
  /\ errors < MaxErrors /\ errors' = errors + 1
  /\ rows' = left /\ Answer(r)
  /\ UNCHANGED <<limits, made, ended>>

-----------------------------------------------------------------------------
(* Outside: the clock, CPA's keys, a restart. *)
Tick ==
  /\ now < MaxNow /\ now' = now + 1
  /\ UNCHANGED <<keys, mem, rows, calls, limits, fails, errors, made, ended>>

KeyRemoved ==
  /\ \E k \in keys : keys' = keys \ {k}
  /\ UNCHANGED <<now, mem, rows, calls, limits, fails, errors, made, ended>>

Restart ==
  /\ mem' = [t \in Tokens |-> None]
  /\ calls' = [r \in Requests |-> Idle]
  /\ limits' = {} /\ fails' = [c \in Clients |-> 0]
  /\ UNCHANGED <<now, keys, rows, errors, made, ended>>

-----------------------------------------------------------------------------
(* POST /login and /api-key-login. *)
\* Faulty: the number of failures is not looked at.
GuessUnlimited(r) ==
  /\ calls[r] = Idle
  /\ \E c \in Clients : calls' = [calls EXCEPT ![r] = [Idle EXCEPT !.pc = "wrong", !.client = c]]
  /\ UNCHANGED <<now, keys, mem, rows, limits, fails, errors, made, ended>>

Guess(r) ==
  /\ calls[r] = Idle
  /\ \E c \in Clients :
       /\ fails[c] < MaxFailedLoginAttempts
       /\ calls' = [calls EXCEPT ![r] = [Idle EXCEPT !.pc = "wrong", !.client = c]]
  /\ UNCHANGED <<now, keys, mem, rows, limits, fails, errors, made, ended>>

RecordFailedAttempt(r) ==
  /\ calls[r].pc = "wrong" /\ fails[calls[r].client] < MaxFails
  /\ fails' = [fails EXCEPT ![calls[r].client] = @ + 1]
  /\ Answer(r)
  /\ UNCHANGED <<now, keys, mem, rows, limits, errors, made, ended>>

\* Faulty: memory has the session although the table refused it.
CreateInMemoryFirst(r, t, s) ==
  \/ /\ mem' = [Unexpired(mem) EXCEPT ![t] = s]
     /\ rows' = [Unexpired(rows) EXCEPT ![t] = s]
     /\ made' = made \union {t}
     /\ UNCHANGED <<calls, limits, errors, ended>>
  \/ mem' = [Unexpired(mem) EXCEPT ![t] = s] /\ StoreFails(r, Unexpired(rows))

\* create: expired sessions are cleaned up, then the row is written before memory.
Create(r, t, s) ==
  \/ /\ mem' = [Unexpired(mem) EXCEPT ![t] = s]
     /\ rows' = [Unexpired(rows) EXCEPT ![t] = s]
     /\ made' = made \union {t}
     /\ UNCHANGED <<calls, limits, errors, ended>>
  \/ \E left \in {rows, Unexpired(rows)} : mem' = Unexpired(mem) /\ StoreFails(r, left)

LogIn(r) ==
  /\ calls[r] = Idle
  /\ \E c \in Clients : fails' = [fails EXCEPT ![c] = 0]
  /\ \E t \in Tokens \ made, k \in keys \union {NoKey} :
       Create(r, t, [role |-> IF k = NoKey THEN Admin ELSE Viewer, key |-> k, exp |-> now + Ttl])
  /\ UNCHANGED <<now, keys>>

-----------------------------------------------------------------------------
(* A request with a token: roleMiddleware, getSession and logout. *)
Ask(r) ==
  /\ calls[r] = Idle
  /\ \E t \in made, p \in Purposes :
       calls' = [calls EXCEPT ![r] = [Idle EXCEPT !.token = t, !.purpose = p, !.late = t \in ended,
                                         !.pc = IF p = "logout" THEN "refuse" ELSE "get"]]
  /\ UNCHANGED <<now, keys, mem, rows, limits, fails, errors, made, ended>>

\* A session was found: a role's routes want that role.
Admit(r, s) ==
  IF calls[r].purpose \in {"session", s.role}
    THEN calls' = [calls EXCEPT ![r].pc = s.role, ![r].key = s.key]
    ELSE Answer(r)

\* Get: the session in memory is read under the read lock.
GetCached(r) ==
  /\ calls[r].pc = "get"
  /\ LET s == mem[calls[r].token] IN
     \/ s = None /\ Goto(r, "load")
     \/ s # None /\ ~Live(s) /\ Goto(r, "expire")
     \/ Live(s) /\ Admit(r, s)
  /\ UNCHANGED <<now, keys, mem, rows, limits, fails, errors, made, ended>>

\* getPersisted, with the mutex held all along.
GetPersisted(r) ==
  /\ calls[r].pc = "load"
  /\ LET t == calls[r].token
         s == IF mem[t] # None THEN mem[t] ELSE rows[t] IN
     \/ /\ Live(s) /\ mem' = [mem EXCEPT ![t] = s] /\ Admit(r, s)
        /\ UNCHANGED <<rows, errors, limits, made, ended>>
     \/ /\ ~Live(s) /\ Goto(r, "refuse")
        /\ mem' = [mem EXCEPT ![t] = None] /\ rows' = [rows EXCEPT ![t] = None]
        /\ UNCHANGED <<errors, limits, made, ended>>
     \/ /\ mem' = [mem EXCEPT ![t] = IF Live(s) THEN @ ELSE None]
        /\ mem[t] = None \/ ~Live(s)
        /\ StoreFails(r, rows)
  /\ UNCHANGED <<now, keys, fails>>

\* Faulty: only memory forgets the session.
ForgetCached(t) == mem' = [mem EXCEPT ![t] = None] /\ UNCHANGED rows

\* Memory forgets the session, then its row is deleted.
Forget(t) == mem' = [mem EXCEPT ![t] = None] /\ rows' = [rows EXCEPT ![t] = None]

\* Delete, of a session that Get found expired, or by deleteSession.
Delete(r) ==
  /\ calls[r].pc \in {"expire", "refuse"}
  /\ LET t == calls[r].token IN
     \/ /\ Forget(t)
        /\ Goto(r, IF calls[r].pc = "expire" THEN "refuse" ELSE "clear")
        /\ UNCHANGED <<errors, limits, made, ended>>
     \/ mem' = [mem EXCEPT ![t] = None] /\ StoreFails(r, rows)
  /\ UNCHANGED <<now, keys, fails>>

\* clearSessionState; the answer follows: 401, not authenticated, or 204 of the removal asked for.
ClearSessionState(r) ==
  /\ calls[r].pc = "clear"
  /\ limits' = limits \ {calls[r].token}
  /\ ended' = ended \union {calls[r].token}
  /\ Answer(r)
  /\ UNCHANGED <<now, keys, mem, rows, fails, errors, made>>

-----------------------------------------------------------------------------
(* What an admitted request does. *)
\* activeViewerAPIKey: the key is gone, or the database fails to look it up.
KeyGone(r) ==
  \/ calls[r].key \notin keys /\ UNCHANGED errors
  \/ errors < MaxErrors /\ errors' = errors + 1

\* allowKeyOverviewRequest: the time of a viewer's last request is kept.
AllowKeyOverviewRequest(r) ==
  limits' = IF calls[r].purpose = Viewer THEN limits \union {calls[r].token} ELSE limits

\* getSession of a viewer, and registerKeyOverviewRoute: without its key it is logged out.
FindActiveKey(r) ==
  /\ calls[r].pc = Viewer
  /\ \/ calls[r].key \in keys /\ AllowKeyOverviewRequest(r) /\ Answer(r) /\ UNCHANGED errors
     \/ KeyGone(r) /\ Goto(r, "refuse") /\ UNCHANGED limits
  /\ UNCHANGED <<now, keys, mem, rows, fails, made, ended>>

\* Other routes of an administrator, and what it is told of its own session.
AdminAnswered(r) ==
  /\ calls[r].pc = Admin /\ Answer(r)
  /\ UNCHANGED <<now, keys, mem, rows, limits, fails, errors, made, ended>>

\* List and DeleteByTokenHash begin with cleanupExpiredLocked.
ListManagedSessions(r) ==
  /\ calls[r].pc = Admin /\ calls[r].purpose = Admin
  /\ mem' = Unexpired(mem)
  /\ \/ rows' = Unexpired(rows) /\ Answer(r) /\ UNCHANGED <<errors, limits, made, ended>>
     \/ StoreFails(r, rows)
  /\ UNCHANGED <<now, keys, fails>>

\* Nothing to remove: 404.
RevokeManagedSession(r) ==
  /\ calls[r].pc = Admin /\ calls[r].purpose = Admin
  /\ \E t \in made :
       LET kept == [Unexpired(mem) EXCEPT ![t] = None]
           left == [Unexpired(rows) EXCEPT ![t] = None] IN
       \/ /\ mem' = kept /\ rows' = left
          /\ calls' = [calls EXCEPT ![r] =
               IF Live(mem[t]) \/ Live(rows[t]) THEN [@ EXCEPT !.pc = "clear", !.token = t] ELSE Idle]
          /\ UNCHANGED <<errors, limits, made, ended>>
       \/ mem' = Unexpired(mem) /\ StoreFails(r, rows)
       \/ mem' = kept /\ StoreFails(r, Unexpired(rows))
  /\ UNCHANGED <<now, keys, fails>>

Next ==
  \/ Tick \/ KeyRemoved \/ Restart
  \/ \E r \in Requests :
       \/ Guess(r) \/ RecordFailedAttempt(r) \/ LogIn(r)
       \/ Ask(r) \/ GetCached(r) \/ GetPersisted(r) \/ Delete(r) \/ ClearSessionState(r)
       \/ FindActiveKey(r) \/ AdminAnswered(r) \/ ListManagedSessions(r) \/ RevokeManagedSession(r)

Spec == Init /\ [][Next]_vars

-----------------------------------------------------------------------------
\* Shapes of the state.
TypeOK ==
  /\ now \in 0..MaxNow /\ keys \subseteq ApiKeyIds /\ errors \in 0..MaxErrors
  /\ \A t \in Tokens : mem[t] \in Sessions /\ rows[t] \in Sessions
  /\ \A r \in Requests : calls[r].token \in Tokens \union {""}
  /\ limits \subseteq Tokens /\ ended \subseteq made /\ made \subseteq Tokens

\* A session that memory holds is the one the table holds: no request is served by a session
\* that a restart would forget, whichever of the two writes failed.
CacheBacked == \A t \in Tokens : mem[t] # None => rows[t] = mem[t]

\* Once the removal of a token has been answered (a logout, a revocation, an expired session, a
\* viewer whose key is gone), no request that begins later is admitted with it: neither the row
\* nor a session another request is loading brings it back, not even after a restart.
EndedStaysEnded ==
  \A r \in Requests : calls[r].late => calls[r].pc \notin {Admin, Viewer}

\* A client has at most as many failed attempts counted as the limit and the requests that
\* passed the check together.
AttemptsBounded ==
  \A c \in Clients : fails[c] < MaxFailedLoginAttempts + Cardinality(Requests)
=============================================================================
