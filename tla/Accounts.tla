------------------------------ MODULE Accounts ------------------------------
(***************************************************************************)
(* Accounts and login sessions (internal/auth): registration, login,       *)
(* authentication of a request, logout of one token or of all tokens of a  *)
(* user, and the hourly cleanup of the table sessions.                     *)
(*                                                                         *)
(* Every HTTP request has a goroutine of its own; each step is one SQL     *)
(* statement, which is where requests meet.  Passwords are right or wrong, *)
(* a raw token and its hash are one value, and time is the database's.     *)
(***************************************************************************)
EXTENDS Naturals, FiniteSets

CONSTANTS
  Names,      \* user names that normalizeUsername lets through
  Emails,     \* addresses that validateEmail lets through
  Tokens,     \* random tokens, a bound on how many logins create a row
  Requests,   \* requests on login sessions; each is sent once
  TTL,        \* config.Auth.SessionTTL
  Keep,       \* how long a revoked row is kept, "7 days"
  MaxTime,    \* bound of the clock
  None        \* SQL NULL, no row, no token

\* A row of sessions; its times are those of CURRENT_TIMESTAMP.
RowType == [user: Names, created: Nat, expires: Nat, used: Nat, revoked: Nat \cup {None}]

ASSUME AccountsAssumption ==
  /\ TTL \in Nat \ {0} /\ Keep \in Nat /\ MaxTime \in Nat
  /\ None \notin Names \cup Emails \cup Tokens \cup Nat \cup RowType

VARIABLES
  now,       \* CURRENT_TIMESTAMP
  accounts,  \* accounts[n]: the address of user n in users, or None
  rows,      \* rows[t]: the row of sessions with token t, or None
  req,       \* req[r]: a request, the step it is at and what it knows
  given,     \* given[t]: when the login of token t was answered, and to whom
  ended      \* tokens whose logout has been answered with success

vars == <<now, accounts, rows, req, given, ended>>

Steps == {"new", "create", "session", "owner", "touch", "revokeAll",
          "find", "revoke", "done"}

\* late: when the request was sent, its token had ended.  scope: the tokens
\* that its sender had been given then, for logout-all.
Blank == [kind |-> "none", at |-> "new", user |-> None, token |-> None,
          answer |-> "pending", late |-> FALSE, scope |-> {}]

Init ==
  /\ now = 0
  /\ accounts = [n \in Names |-> None]
  /\ rows = [t \in Tokens |-> None]
  /\ req = [r \in Requests |-> Blank]
  /\ given = [t \in Tokens |-> None]
  /\ ended = {}

At(r, step) == req[r].at = step

Becomes(r, q) == req' = [req EXCEPT ![r] = q]

Goto(r, step) == Becomes(r, [req[r] EXCEPT !.at = step])

Answer(r, what) == Becomes(r, [req[r] EXCEPT !.at = "done", !.answer = what])

\* GetSessionByTokenHash finds a row.
Usable(row) == row # None /\ row.revoked = None /\ row.expires > now

-----------------------------------------------------------------------------
(* Registration: one statement.  A name or an address that is taken is a   *)
(* conflict and changes nothing.                                           *)

Taken(n, e) == accounts[n] # None \/ \E m \in Names : accounts[m] = e

Register(n, e) ==
  /\ ~Taken(n, e)
  /\ accounts' = [accounts EXCEPT ![n] = e]
  /\ UNCHANGED <<now, rows, req, given, ended>>

-----------------------------------------------------------------------------
(* A request is sent.  A login may be sent by anyone; a token only by a    *)
(* client that got it in the answer of a login.                            *)

Sent(kind, t) ==
  [Blank EXCEPT !.kind = kind, !.token = t,
     !.late = t \in ended \/ now >= given[t].at + TTL,
     !.scope = {o \in Tokens : given[o] # None /\ given[o].user = given[t].user}]

\* Login: GetUserByUsername and the comparison of the password.
Login(r, n, right) ==
  /\ At(r, "new")
  /\ LET login == [req[r] EXCEPT !.kind = "login", !.user = n]
     IN  IF accounts[n] # None /\ right
         THEN Becomes(r, [login EXCEPT !.at = "create"])
         ELSE Becomes(r, [login EXCEPT !.at = "done", !.answer = "refused"])
  /\ UNCHANGED <<now, accounts, rows, given, ended>>

\* A request to /me or the upgrade of /ws ("enter"), or to /logout-all: its
\* token goes to Authenticate first.
Enter(r, kind, t) ==
  /\ At(r, "new")
  /\ given[t] # None
  /\ Becomes(r, [Sent(kind, t) EXCEPT !.at = "session"])
  /\ UNCHANGED <<now, accounts, rows, given, ended>>

Logout(r, t) ==
  /\ At(r, "new")
  /\ given[t] # None
  /\ Becomes(r, [Sent("logout", t) EXCEPT !.at = "find"])
  /\ UNCHANGED <<now, accounts, rows, given, ended>>

\* extractToken finds nothing: refused, except that logout answers success.
NoToken(r, kind) ==
  /\ At(r, "new")
  /\ Becomes(r, [req[r] EXCEPT !.kind = kind, !.at = "done",
                    !.answer = IF kind = "logout" THEN "ok" ELSE "refused"])
  /\ UNCHANGED <<now, accounts, rows, given, ended>>

-----------------------------------------------------------------------------
(* createSession: the row of a token nobody has had before.                *)

NewRow(n) == [user |-> n, created |-> now, expires |-> now + TTL,
              used |-> now, revoked |-> None]

CreateSession(r, t) ==
  /\ At(r, "create")
  /\ rows[t] = None /\ \A o \in Requests : req[o].token # t
  /\ rows' = [rows EXCEPT ![t] = NewRow(req[r].user)]
  /\ Becomes(r, [req[r] EXCEPT !.token = t, !.at = "session"])
  /\ UNCHANGED <<now, accounts, given, ended>>

-----------------------------------------------------------------------------
(* Authenticate: three statements.  The handler of login calls it with the *)
(* new token, RequireAuth and AuthenticateRequest with the request's.      *)

LookupSession(r) ==
  /\ At(r, "session")
  /\ IF Usable(rows[req[r].token])
     THEN Becomes(r, [req[r] EXCEPT !.user = rows[req[r].token].user,
                                    !.at = "owner"])
     ELSE Answer(r, "refused")
  /\ UNCHANGED <<now, accounts, rows, given, ended>>

LookupOwner(r) ==
  /\ At(r, "owner")
  /\ IF accounts[req[r].user] # None THEN Goto(r, "touch") ELSE Answer(r, "refused")
  /\ UNCHANGED <<now, accounts, rows, given, ended>>

\* Mutant: a request extends the login it came with.
TouchedAndExtended(row) == [row EXCEPT !.used = now, !.expires = now + TTL]

Touched(row) == [row EXCEPT !.used = now]

\* TouchSession is best effort: it may fail, and the row may be gone.  What
\* follows is the handler's: login answers with the token, logout-all goes on.
Touch(r) ==
  LET t == req[r].token
  IN  /\ At(r, "touch")
      /\ \/ rows' = rows
         \/ rows[t] # None /\ rows' = [rows EXCEPT ![t] = Touched(rows[t])]
      /\ given' = IF req[r].kind = "login"
                  THEN [given EXCEPT ![t] = [user |-> req[r].user, at |-> now]]
                  ELSE given
      /\ IF req[r].kind = "logoutAll" THEN Goto(r, "revokeAll") ELSE Answer(r, "ok")
      /\ UNCHANGED <<now, accounts, ended>>

-----------------------------------------------------------------------------
(* Logout, and logout of everything.                                       *)

Revoked(row) == [row EXCEPT !.revoked = now]

\* No usable row: already gone, and that is a success.
FindLogin(r) ==
  LET t == req[r].token
  IN  /\ At(r, "find")
      /\ IF Usable(rows[t])
         THEN Goto(r, "revoke") /\ UNCHANGED ended
         ELSE Answer(r, "ok") /\ ended' = ended \cup {t}
      /\ UNCHANGED <<now, accounts, rows, given>>

\* RevokeSession goes by id, whatever became of the row since.
RevokeLogin(r) ==
  LET t == req[r].token
  IN  /\ At(r, "revoke")
      /\ rows' = [rows EXCEPT ![t] = IF @ = None THEN None ELSE Revoked(@)]
      /\ Answer(r, "ok")
      /\ ended' = ended \cup {t}
      /\ UNCHANGED <<now, accounts, given>>

\* RevokeAllSessionsForUser, one statement.
RevokeAll(r) ==
  /\ At(r, "revokeAll")
  /\ rows' = [t \in Tokens |->
       IF rows[t] # None /\ rows[t].user = req[r].user /\ rows[t].revoked = None
       THEN Revoked(rows[t]) ELSE rows[t]]
  /\ Answer(r, "ok")
  /\ ended' = ended \cup req[r].scope
  /\ UNCHANGED <<now, accounts, given>>

\* A statement fails, the database being busy or not: the request ends with
\* an error.  Only the failure of TouchSession is ignored.
StatementFails(r) ==
  /\ req[r].at \in Steps \ {"new", "touch", "done"}
  /\ Answer(r, "failed")
  /\ UNCHANGED <<now, accounts, rows, given, ended>>

-----------------------------------------------------------------------------
(* runSessionCleanup deletes what nobody can use any more.                 *)

\* Mutant: rows go that have not been used for long.
StaleUnused(row) == row # None /\ \/ row.expires < now
                                  \/ row.used + Keep < now

Stale(row) == row # None /\ \/ row.expires < now
                            \/ row.revoked # None /\ row.revoked + Keep < now

CleanupExpired ==
  /\ rows' = [t \in Tokens |-> IF Stale(rows[t]) THEN None ELSE rows[t]]
  /\ UNCHANGED <<now, accounts, req, given, ended>>

Tick ==
  /\ now < MaxTime
  /\ now' = now + 1
  /\ UNCHANGED <<accounts, rows, req, given, ended>>

Request(r) ==
  \/ \E n \in Names, right \in BOOLEAN : Login(r, n, right)
  \/ \E kind \in {"enter", "logoutAll"}, t \in Tokens : Enter(r, kind, t)
  \/ \E t \in Tokens : Logout(r, t)
  \/ \E kind \in {"enter", "logoutAll", "logout"} : NoToken(r, kind)
  \/ \E t \in Tokens : CreateSession(r, t)
  \/ LookupSession(r) \/ LookupOwner(r) \/ Touch(r)
  \/ FindLogin(r) \/ RevokeLogin(r) \/ RevokeAll(r)
  \/ StatementFails(r)

Next ==
  \/ \E n \in Names, e \in Emails : Register(n, e)
  \/ \E r \in Requests : Request(r)
  \/ CleanupExpired
  \/ Tick

Spec == Init /\ [][Next]_vars

-----------------------------------------------------------------------------
(* Properties.                                                             *)

\* A token is used up once its lifetime is over, its logout was answered, or
\* a logout-all was that was sent when its owner held the token: a request
\* sent after that is refused, whatever other requests of the user are under
\* way (Authenticate, Logout, LogoutAll, TouchSession).
EndedIsRefused ==
  \A r \in Requests :
    req[r].late /\ req[r].kind \in {"enter", "logoutAll"} => req[r].answer # "ok"

\* While request r is under way, it may end token t: a logout with t, or a
\* logout-all with a token of the same user.
Ends(r, t) ==
  /\ ~At(r, "done")
  /\ \/ req[r].kind = "logout" /\ req[r].token = t
     \/ /\ req[r].kind = "logoutAll"
        /\ req[r].token # None /\ given[req[r].token].user = rows[t].user

\* A login session ends by its lifetime or by a logout of its own user that
\* is under way at that moment, never by the cleanup, by a touch or by what
\* another user does (CleanupExpired, RevokeAllSessionsForUser).
LastsUntilLogout ==
  [][\A t \in Tokens :
       Usable(rows[t]) /\ ~Usable(rows[t])' =>
         \/ now' >= rows[t].created + TTL
         \/ \E r \in Requests : Ends(r, t)]_vars

=============================================================================
