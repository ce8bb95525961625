--------------------------- MODULE AccountsProofs ---------------------------
(***************************************************************************)
(* Proofs about Accounts, for any number of users, tokens and requests     *)
(* under way: a token that has ended is refused, and a login session ends  *)
(* by its lifetime or by a logout of its user only.                        *)
(*                                                                         *)
(* The argument follows a token.  Nobody is given it before its login is   *)
(* answered, and its row never outlives that answer by more than TTL       *)
(* (RowOK).  When a logout of it is answered its row is unusable, and no   *)
(* step makes a row usable again (EndedOK, RowsOnlyEnd).  So a request     *)
(* that is late stops at the lookup of its token (ReqOK).                  *)
(***************************************************************************)
EXTENDS Accounts, TLAPS

Kinds == {"none", "login", "enter", "logoutAll", "logout"}

ReqType == [kind: Kinds, at: Steps, user: Names \cup {None}, token: Tokens \cup {None},
            answer: {"pending", "ok", "refused", "failed"}, late: BOOLEAN,
            scope: SUBSET Tokens]

TypeOK ==
  /\ now \in Nat
  /\ accounts \in [Names -> Emails \cup {None}]
  /\ rows \in [Tokens -> RowType \cup {None}]
  /\ req \in [Requests -> ReqType]
  /\ given \in [Tokens -> [user: Names, at: Nat] \cup {None}]
  /\ ended \subseteq Tokens

\* A row expires TTL after its login at the latest, and belongs to the user
\* who was given its token.
RowOK(t) ==
  rows[t] # None =>
    /\ rows[t].expires <= now + TTL
    /\ given[t] # None => /\ rows[t].expires <= given[t].at + TTL
                          /\ rows[t].user = given[t].user

EndedOK(t) ==
  t \in ended => Usable(rows[t]) = FALSE

\* A token that somebody knows is the token of a request.
KnownOK(t) ==
  given[t] # None \/ t \in ended => \E r \in Requests : req[r].token = t

\* Which request is where.
PlaceOK(q) ==
  /\ q.at = "new" => q.kind = "none" /\ q.token = None /\ ~q.late /\ q.scope = {}
  /\ q.at = "create" => q.kind = "login" /\ q.token = None
  /\ q.at \in {"session", "owner", "touch"} => q.kind \in {"login", "enter", "logoutAll"}
  /\ q.at = "revokeAll" => q.kind = "logoutAll"
  /\ q.at \in {"find", "revoke"} => q.kind = "logout"
  /\ q.at \notin {"new", "create", "done"} => q.token \in Tokens
  /\ q.at \in {"owner", "touch", "revokeAll"} => q.user \in Names
  /\ q.at = "create" => q.user \in Names
  /\ q.kind \in {"none", "login"} => ~q.late /\ q.scope = {}
  /\ q.kind = "none" => q.at = "new"

\* A login under way is alone with its token; the others hold one that was
\* given.
HolderOK(q) ==
  IF q.kind = "login"
  THEN q.at \in {"session", "owner", "touch"} =>
         /\ given[q.token] = None /\ q.token \notin ended
         /\ rows[q.token] # None => rows[q.token].user = q.user
         /\ q.user \in Names
  ELSE q.token # None => given[q.token] # None

LateOK(q) ==
  q.late => /\ q.token \in Tokens
            /\ q.token \in ended \/ now >= given[q.token].at + TTL
            /\ q.kind \in {"enter", "logoutAll"} =>
                 q.at \notin {"owner", "touch", "revokeAll"} /\ q.answer # "ok"

ScopeOK(q) ==
  /\ q.kind \in {"enter", "logoutAll"} /\ q.at \in {"owner", "touch", "revokeAll"} =>
       q.user = given[q.token].user
  /\ \A o \in q.scope : /\ q.token \in Tokens /\ given[o] # None
                        /\ given[o].user = given[q.token].user

ReqOK(q) == PlaceOK(q) /\ HolderOK(q) /\ LateOK(q) /\ ScopeOK(q)

\* No two logins are at the same token.
LoginsApart ==
  \A r, o \in Requests :
    req[r].kind = "login" /\ req[o].kind = "login" /\ req[r].token \in Tokens
      /\ req[r].token = req[o].token => r = o

IInv ==
  /\ TypeOK
  /\ \A t \in Tokens : RowOK(t) /\ EndedOK(t) /\ KnownOK(t)
  /\ \A r \in Requests : ReqOK(req[r])
  /\ LoginsApart

-----------------------------------------------------------------------------
\* The initial state.
LEMMA InitInv == Init => IInv
  BY AccountsAssumption DEF Init, IInv, TypeOK, Blank, ReqType, Kinds, Steps,
     RowOK, EndedOK, KnownOK, ReqOK, PlaceOK, HolderOK, LateOK, ScopeOK, LoginsApart

\* The row of t does not come to life and keeps its owner and its end.
OnlyEnds(t) ==
  rows'[t] # None =>
    /\ rows[t] # None
    /\ rows'[t].user = rows[t].user
    /\ rows'[t].expires = rows[t].expires
    /\ rows[t].revoked # None => rows'[t].revoked # None

\* Time, answers and logouts only add up, and a request keeps its token.
Grows ==
  /\ now' >= now
  /\ ended \subseteq ended'
  /\ \A t \in Tokens : given[t] # None => given'[t] = given[t]
  /\ \A o \in Requests : req[o].token # None => req'[o].token = req[o].token

\* Only request r changes.
LEMMA BecomesType ==
  ASSUME TypeOK, NEW r \in Requests, NEW q \in ReqType, Becomes(r, q)
  PROVE  /\ req' \in [Requests -> ReqType]
         /\ req'[r] = q
         /\ \A o \in Requests \ {r} : req'[o] = req[o]
  BY DEF TypeOK, Becomes

\* The request after an answer, after another step.
LEMMA AnswerStep ==
  ASSUME TypeOK, NEW r \in Requests, NEW what \in {"ok", "refused", "failed"}, Answer(r, what)
  PROVE  /\ req' \in [Requests -> ReqType]
         /\ req'[r] = [req[r] EXCEPT !.at = "done", !.answer = what]
         /\ \A o \in Requests \ {r} : req'[o] = req[o]
<1>1. req[r] \in ReqType
  BY DEF TypeOK
<1>2. [req[r] EXCEPT !.at = "done", !.answer = what] \in ReqType
  BY <1>1 DEF ReqType, Steps
<1>. QED  BY <1>2, BecomesType DEF Answer

LEMMA GotoStep ==
  ASSUME TypeOK, NEW r \in Requests, NEW step \in Steps, Goto(r, step)
  PROVE  /\ req' \in [Requests -> ReqType]
         /\ req'[r] = [req[r] EXCEPT !.at = step]
         /\ \A o \in Requests \ {r} : req'[o] = req[o]
<1>1. req[r] \in ReqType
  BY DEF TypeOK
<1>2. [req[r] EXCEPT !.at = step] \in ReqType
  BY <1>1 DEF ReqType
<1>. QED  BY <1>2, BecomesType DEF Goto

LEMMA LoginStep ==
  ASSUME TypeOK, NEW r \in Requests, NEW n \in Names, NEW right \in BOOLEAN,
         Login(r, n, right)
  PROVE  \E q \in ReqType :
           /\ Becomes(r, q)
           /\ q.kind = "login" /\ q.user = n /\ q.at \in {"create", "done"}
           /\ q.token = req[r].token /\ q.late = req[r].late /\ q.scope = req[r].scope
<1> DEFINE login == [req[r] EXCEPT !.kind = "login", !.user = n]
           passed == [login EXCEPT !.at = "create"]
           failed == [login EXCEPT !.at = "done", !.answer = "refused"]
<1>1. req[r] \in ReqType
  BY DEF TypeOK
<1>2. login \in ReqType
  BY <1>1 DEF ReqType, Kinds
<1>3. passed \in ReqType /\ failed \in ReqType
  BY <1>2 DEF ReqType, Steps
<1>4. Becomes(r, passed) \/ Becomes(r, failed)
  BY DEF Login
<1>5. /\ login.kind = "login" /\ login.user = n
      /\ login.token = req[r].token /\ login.late = req[r].late /\ login.scope = req[r].scope
  BY <1>1 DEF ReqType
<1>6. \A q \in {passed, failed} :
        /\ q.at \in {"create", "done"}
        /\ q.kind = login.kind /\ q.user = login.user
        /\ q.token = login.token /\ q.late = login.late /\ q.scope = login.scope
  BY <1>2 DEF ReqType
<1> HIDE DEF login, passed, failed
<1>. QED  BY <1>3, <1>4, <1>5, <1>6

LEMMA NoTokenStep ==
  ASSUME TypeOK, NEW r \in Requests, NEW kind \in {"enter", "logoutAll", "logout"},
         NoToken(r, kind)
  PROVE  \E q \in ReqType :
           /\ Becomes(r, q)
           /\ q.kind = kind /\ q.at = "done"
           /\ q.token = req[r].token /\ q.late = req[r].late /\ q.scope = req[r].scope
<1> DEFINE ok == [req[r] EXCEPT !.kind = kind, !.at = "done", !.answer = "ok"]
           no == [req[r] EXCEPT !.kind = kind, !.at = "done", !.answer = "refused"]
<1>1. req[r] \in ReqType
  BY DEF TypeOK
<1>2. ok \in ReqType /\ no \in ReqType
  BY <1>1 DEF ReqType, Kinds, Steps
<1>3. Becomes(r, ok) \/ Becomes(r, no)
  BY DEF NoToken
<1>. QED  BY <1>1, <1>2, <1>3 DEF ReqType

LEMMA CreateStep ==
  ASSUME TypeOK, NEW r \in Requests, NEW t \in Tokens, CreateSession(r, t)
  PROVE  \E q \in ReqType :
           /\ Becomes(r, q)
           /\ q.token = t /\ q.at = "session"
           /\ q.kind = req[r].kind /\ q.user = req[r].user /\ q.answer = req[r].answer
           /\ q.late = req[r].late /\ q.scope = req[r].scope
<1> DEFINE q == [req[r] EXCEPT !.token = t, !.at = "session"]
<1>1. req[r] \in ReqType
  BY DEF TypeOK
<1>2. q \in ReqType
  BY <1>1 DEF ReqType, Steps
<1>. QED  BY <1>1, <1>2 DEF ReqType, CreateSession

LEMMA LookupStep ==
  ASSUME TypeOK, NEW r \in Requests, req[r].token \in Tokens, LookupSession(r)
  PROVE  \E q \in ReqType :
           /\ Becomes(r, q)
           /\ \/ /\ Usable(rows[req[r].token])
                 /\ q.at = "owner" /\ q.user = rows[req[r].token].user
                 /\ q.answer = req[r].answer
              \/ q.at = "done" /\ q.answer = "refused" /\ q.user = req[r].user
           /\ q.kind = req[r].kind /\ q.token = req[r].token
           /\ q.late = req[r].late /\ q.scope = req[r].scope
<1> DEFINE t  == req[r].token
           ok == [req[r] EXCEPT !.user = rows[t].user, !.at = "owner"]
           no == [req[r] EXCEPT !.at = "done", !.answer = "refused"]
<1>1. req[r] \in ReqType
  BY DEF TypeOK
<1>2. no \in ReqType
  BY <1>1 DEF ReqType, Steps
<1>3. CASE Usable(rows[t])
  <2>1. rows[t].user \in Names
    BY <1>3 DEF TypeOK, RowType, Usable
  <2>2. ok \in ReqType
    BY <1>1, <2>1 DEF ReqType, Steps
  <2>. QED  BY <1>1, <1>3, <2>2 DEF ReqType, LookupSession
<1>4. CASE ~Usable(rows[t])
  BY <1>1, <1>2, <1>4 DEF ReqType, LookupSession, Answer
<1>. QED  BY <1>3, <1>4

LEMMA TypeStep ==
  ASSUME IInv, [Next]_vars
  PROVE  TypeOK'
<1> USE AccountsAssumption
<1> USE DEF TypeOK
<1>0. TypeOK /\ \A r \in Requests : PlaceOK(req[r])
  BY DEF IInv, ReqOK
<1>1. ASSUME NEW n \in Names, NEW e \in Emails, Register(n, e) PROVE TypeOK'
  BY <1>0, <1>1 DEF Register
<1>2. ASSUME NEW r \in Requests, NEW n \in Names, NEW right \in BOOLEAN, Login(r, n, right)
      PROVE TypeOK'
  <2>1. req' \in [Requests -> ReqType]
    BY <1>0, <1>2, LoginStep, BecomesType
  <2>2. UNCHANGED <<now, accounts, rows, given, ended>>
    BY <1>2 DEF Login
  <2>. QED  BY <1>0, <2>1, <2>2
<1>3. ASSUME NEW r \in Requests, NEW kind \in {"enter", "logoutAll"}, NEW t \in Tokens,
             Enter(r, kind, t)
      PROVE TypeOK'
  <2>1. [Sent(kind, t) EXCEPT !.at = "session"] \in ReqType
    BY <1>0 DEF Sent, Blank, ReqType, Kinds, Steps
  <2>. QED  BY <1>0, <1>3, <2>1, BecomesType DEF Enter
<1>4. ASSUME NEW r \in Requests, NEW t \in Tokens, Logout(r, t) PROVE TypeOK'
  <2>1. [Sent("logout", t) EXCEPT !.at = "find"] \in ReqType
    BY <1>0 DEF Sent, Blank, ReqType, Kinds, Steps
  <2>. QED  BY <1>0, <1>4, <2>1, BecomesType DEF Logout
<1>5. ASSUME NEW r \in Requests, NEW kind \in {"enter", "logoutAll", "logout"},
             NoToken(r, kind)
      PROVE TypeOK'
  <2>1. req' \in [Requests -> ReqType]
    BY <1>0, <1>5, NoTokenStep, BecomesType
  <2>2. UNCHANGED <<now, accounts, rows, given, ended>>
    BY <1>5 DEF NoToken
  <2>. QED  BY <1>0, <2>1, <2>2
<1>6. ASSUME NEW r \in Requests, NEW t \in Tokens, CreateSession(r, t) PROVE TypeOK'
  <2>1. req' \in [Requests -> ReqType]
    BY <1>0, <1>6, CreateStep, BecomesType
  <2>2. req[r].user \in Names
    BY <1>0, <1>6 DEF CreateSession, PlaceOK, At
  <2>. QED  BY <1>0, <1>6, <2>1, <2>2 DEF CreateSession, NewRow, RowType
<1>7. ASSUME NEW r \in Requests, LookupSession(r) PROVE TypeOK'
  <2>1. req[r].token \in Tokens
    BY <1>0, <1>7 DEF LookupSession, PlaceOK, At, ReqType, Steps
  <2>2. req' \in [Requests -> ReqType]
    BY <1>0, <1>7, <2>1, LookupStep, BecomesType
  <2>3. UNCHANGED <<now, accounts, rows, given, ended>>
    BY <1>7 DEF LookupSession
  <2>. QED  BY <1>0, <2>2, <2>3
<1>8. ASSUME NEW r \in Requests, LookupOwner(r) PROVE TypeOK'
  BY <1>0, <1>8, AnswerStep, GotoStep DEF LookupOwner, Steps
<1>9. ASSUME NEW r \in Requests, Touch(r) PROVE TypeOK'
  <2>1. req' \in [Requests -> ReqType]
    BY <1>0, <1>9, AnswerStep, GotoStep DEF Touch, Steps
  <2>2. req[r].token \in Tokens /\ req[r].user \in Names
    BY <1>0, <1>9 DEF Touch, PlaceOK, At
  <2>3. rows' \in [Tokens -> RowType \cup {None}]
    BY <1>0, <1>9, <2>2 DEF Touch, Touched, RowType
  <2>4. given' \in [Tokens -> [user: Names, at: Nat] \cup {None}]
    BY <1>0, <1>9, <2>2 DEF Touch
  <2>. QED  BY <1>0, <1>9, <2>1, <2>3, <2>4 DEF Touch
<1>10. ASSUME NEW r \in Requests, FindLogin(r) PROVE TypeOK'
  <2>1. req[r].token \in Tokens
    BY <1>0, <1>10 DEF FindLogin, PlaceOK, At
  <2>2. req' \in [Requests -> ReqType]
    BY <1>0, <1>10, AnswerStep, GotoStep DEF FindLogin, Steps
  <2>3. ended' \subseteq Tokens
    BY <1>0, <1>10, <2>1 DEF FindLogin
  <2>. QED  BY <1>0, <1>10, <2>2, <2>3 DEF FindLogin
<1>11. ASSUME NEW r \in Requests, RevokeLogin(r) PROVE TypeOK'
  <2>1. req[r].token \in Tokens
    BY <1>0, <1>11 DEF RevokeLogin, PlaceOK, At
  <2>2. rows' \in [Tokens -> RowType \cup {None}]
    BY <1>0, <1>11, <2>1 DEF RevokeLogin, Revoked, RowType
  <2>. QED  BY <1>0, <1>11, <2>1, <2>2, AnswerStep DEF RevokeLogin
<1>12. ASSUME NEW r \in Requests, RevokeAll(r) PROVE TypeOK'
  <2>1. req' \in [Requests -> ReqType]
    BY <1>0, <1>12, AnswerStep DEF RevokeAll
  <2>2. rows' \in [Tokens -> RowType \cup {None}]
    BY <1>0, <1>12 DEF RevokeAll, Revoked, RowType
  <2>3. req[r].scope \subseteq Tokens
    BY <1>0 DEF ReqType
  <2>. QED  BY <1>0, <1>12, <2>1, <2>2, <2>3 DEF RevokeAll
<1>13. ASSUME NEW r \in Requests, StatementFails(r) PROVE TypeOK'
  BY <1>0, <1>13, AnswerStep DEF StatementFails
<1>14. CASE CleanupExpired
  BY <1>0, <1>14 DEF CleanupExpired
<1>15. CASE Tick
  BY <1>0, <1>15 DEF Tick
<1>16. CASE UNCHANGED vars
  BY <1>0, <1>16 DEF vars
<1>. QED
  BY <1>1, <1>2, <1>3, <1>4, <1>5, <1>6, <1>7, <1>8, <1>9, <1>10, <1>11, <1>12, <1>13,
     <1>14, <1>15, <1>16 DEF Next, Request

-----------------------------------------------------------------------------
\* What a step leaves true of a token and of a request it does not concern.
LEMMA TokenKeeps ==
  ASSUME IInv, TypeOK', Grows, NEW t \in Tokens,
         OnlyEnds(t), given'[t] = given[t], t \in ended' => t \in ended
  PROVE  RowOK(t)' /\ EndedOK(t)' /\ KnownOK(t)'
<1> USE AccountsAssumption
<1>0. TypeOK /\ RowOK(t) /\ EndedOK(t) /\ KnownOK(t)
  BY DEF IInv
<1>1. now \in Nat /\ now' \in Nat /\ now' >= now
  BY <1>0 DEF TypeOK, Grows
<1>2. RowOK(t)'
  <2>1. CASE rows'[t] = None
    BY <2>1 DEF RowOK
  <2>2. CASE rows'[t] # None
    <3>1. /\ rows[t] # None
          /\ rows'[t].user = rows[t].user
          /\ rows'[t].expires = rows[t].expires
      BY <2>2 DEF OnlyEnds
    <3>2. rows[t].expires \in Nat
      BY <1>0, <3>1 DEF TypeOK, RowType
    <3>. QED  BY <1>0, <1>1, <3>1, <3>2 DEF RowOK
  <2>. QED  BY <2>1, <2>2
<1>3. EndedOK(t)'
  <2>1. CASE rows'[t] = None \/ t \notin ended'
    BY <2>1 DEF EndedOK, Usable
  <2>2. CASE rows'[t] # None /\ t \in ended'
    <3>1. /\ rows[t] # None
          /\ rows'[t].expires = rows[t].expires
          /\ rows[t].revoked # None => rows'[t].revoked # None
      BY <2>2 DEF OnlyEnds
    <3>2. rows[t].expires \in Nat
      BY <1>0, <3>1 DEF TypeOK, RowType
    <3>. QED  BY <1>0, <1>1, <2>2, <3>1, <3>2 DEF EndedOK, Usable
  <2>. QED  BY <2>1, <2>2
<1>4. KnownOK(t)'
  BY <1>0 DEF KnownOK, Grows
<1>. QED  BY <1>2, <1>3, <1>4

LEMMA RequestKeeps ==
  ASSUME IInv, TypeOK', Grows, NEW o \in Requests, req'[o] = req[o],
         req[o].kind = "login" /\ req[o].token \in Tokens
           /\ req[o].at \in {"session", "owner", "touch"} =>
           /\ OnlyEnds(req[o].token)
           /\ given'[req[o].token] = given[req[o].token]
           /\ req[o].token \in ended' => req[o].token \in ended
  PROVE  ReqOK(req[o])'
<1> USE AccountsAssumption
<1>0. TypeOK /\ PlaceOK(req[o]) /\ HolderOK(req[o]) /\ LateOK(req[o]) /\ ScopeOK(req[o])
  BY DEF IInv, ReqOK
<1>1. now \in Nat /\ now' \in Nat /\ now' >= now /\ req[o] \in ReqType
  BY <1>0 DEF TypeOK, Grows
<1>2. PlaceOK(req[o])'
  BY <1>0 DEF PlaceOK
<1>3. HolderOK(req[o])'
  <2>1. CASE req[o].kind = "login"
    BY <1>0, <2>1 DEF HolderOK, PlaceOK, OnlyEnds
  <2>2. CASE req[o].kind # "login"
    BY <1>0, <1>1, <2>2 DEF HolderOK, Grows, ReqType
  <2>. QED  BY <2>1, <2>2
<1>4. LateOK(req[o])'
  <2>1. SUFFICES ASSUME req[o].late PROVE LateOK(req[o])'
    BY DEF LateOK
  <2>2. /\ req[o].token \in Tokens /\ req[o].kind # "login"
        /\ req[o].token \in ended \/ now >= given[req[o].token].at + TTL
    BY <1>0, <2>1 DEF LateOK, PlaceOK
  <2>3. given[req[o].token] # None
    BY <1>0, <2>2 DEF HolderOK
  <2>4. given'[req[o].token] = given[req[o].token] /\ given[req[o].token].at \in Nat
    BY <1>0, <2>2, <2>3 DEF Grows, TypeOK
  <2>. QED  BY <1>0, <1>1, <2>1, <2>2, <2>4 DEF LateOK, Grows
<1>5. ScopeOK(req[o])'
  <2>1. req[o].token \in Tokens /\ req[o].kind # "login" =>
          given'[req[o].token] = given[req[o].token]
    BY <1>0 DEF HolderOK, Grows
  <2>2. \A u \in req[o].scope : given'[u] = given[u]
    BY <1>0, <1>1 DEF ScopeOK, Grows, ReqType
  <2>3. req[o].scope # {} => req[o].kind # "login"
    BY <1>0 DEF PlaceOK
  <2>. QED  BY <1>0, <2>1, <2>2, <2>3 DEF ScopeOK, PlaceOK
<1>. QED  BY <1>2, <1>3, <1>4, <1>5 DEF ReqOK

LEMMA ApartKeeps ==
  ASSUME IInv,
         \A o \in Requests : req'[o].kind = "login" /\ req'[o].token \in Tokens =>
                               req[o].kind = "login" /\ req[o].token = req'[o].token
  PROVE  LoginsApart'
  BY DEF IInv, LoginsApart

\* A step of request r that leaves the tables, the clock and the answers.
LEMMA OnlyRequest ==
  ASSUME IInv, TypeOK', NEW r \in Requests,
         \A o \in Requests \ {r} : req'[o] = req[o],
         UNCHANGED <<now, rows, given, ended>>,
         req[r].token # None => req'[r].token = req[r].token,
         req'[r].kind = "login" /\ req'[r].token \in Tokens =>
           req[r].kind = "login" /\ req[r].token = req'[r].token,
         ReqOK(req[r])'
  PROVE  IInv'
<1>0. TypeOK
  BY DEF IInv
<1>1. Grows
  BY <1>0 DEF Grows, TypeOK
<1>2. \A t \in Tokens : OnlyEnds(t)
  BY DEF OnlyEnds
<1>3. \A t \in Tokens : RowOK(t)' /\ EndedOK(t)' /\ KnownOK(t)'
  BY <1>1, <1>2, TokenKeeps
<1>4. \A o \in Requests : ReqOK(req[o])'
  BY <1>1, <1>2, RequestKeeps
<1>5. LoginsApart'
  BY ApartKeeps
<1>. QED  BY <1>3, <1>4, <1>5 DEF IInv

\* A step that leaves the requests and who was given what, and brings no row
\* to life.
LEMMA NoRequest ==
  ASSUME IInv, TypeOK', UNCHANGED <<req, given, ended>>, now' >= now,
         \A t \in Tokens : OnlyEnds(t)
  PROVE  IInv'
<1>1. Grows
  BY DEF Grows
<1>2. \A t \in Tokens : RowOK(t)' /\ EndedOK(t)' /\ KnownOK(t)'
  BY <1>1, TokenKeeps
<1>3. \A o \in Requests : ReqOK(req[o])'
  BY <1>1, RequestKeeps
<1>4. LoginsApart'
  BY ApartKeeps
<1>. QED  BY <1>2, <1>3, <1>4 DEF IInv

-----------------------------------------------------------------------------
\* The steps, one lemma each where there is something to say.
LEMMA RegisterInv ==
  ASSUME IInv, TypeOK', NEW n \in Names, NEW e \in Emails, Register(n, e)
  PROVE  IInv'
<1>1. now' >= now /\ \A t \in Tokens : OnlyEnds(t)
  BY DEF Register, OnlyEnds, IInv, TypeOK
<1>. QED  BY <1>1, NoRequest DEF Register

LEMMA LoginInv ==
  ASSUME IInv, TypeOK', NEW r \in Requests, NEW n \in Names, NEW right \in BOOLEAN,
         Login(r, n, right)
  PROVE  IInv'
<1> USE AccountsAssumption
<1>0. TypeOK /\ PlaceOK(req[r]) /\ At(r, "new")
  BY DEF IInv, ReqOK, Login
<1>1. PICK q \in ReqType :
           /\ Becomes(r, q)
           /\ q.kind = "login" /\ q.user = n /\ q.at \in {"create", "done"}
           /\ q.token = req[r].token /\ q.late = req[r].late /\ q.scope = req[r].scope
  BY <1>0, LoginStep
<1>2. req'[r] = q /\ \A o \in Requests \ {r} : req'[o] = req[o]
  BY <1>0, <1>1, BecomesType
<1>3. req[r].token = None /\ ~req[r].late /\ req[r].scope = {}
  BY <1>0 DEF PlaceOK, At
<1>4. ReqOK(req[r])'
  BY <1>1, <1>2, <1>3 DEF ReqOK, PlaceOK, HolderOK, LateOK, ScopeOK
<1>. QED  BY <1>1, <1>2, <1>3, <1>4, OnlyRequest DEF Login

\* A request with a token of its own: Enter and Logout.
LEMMA SentInv ==
  ASSUME IInv, TypeOK', NEW r \in Requests, NEW kind \in {"enter", "logoutAll", "logout"},
         NEW t \in Tokens, At(r, "new"), given[t] # None,
         Becomes(r, [Sent(kind, t) EXCEPT !.at = IF kind = "logout" THEN "find" ELSE "session"]),
         UNCHANGED <<now, accounts, rows, given, ended>>
  PROVE  IInv'
<1> USE AccountsAssumption
<1>0. TypeOK /\ PlaceOK(req[r])
  BY DEF IInv, ReqOK
<1> DEFINE step == IF kind = "logout" THEN "find" ELSE "session"
           q == [Sent(kind, t) EXCEPT !.at = step]
<1>1. kind \in Kinds /\ step \in Steps
  BY DEF Kinds, Steps
<1>2. /\ q \in ReqType
      /\ q.kind = kind /\ q.token = t /\ q.at = step /\ q.answer = "pending"
      /\ q.late = (t \in ended \/ now >= given[t].at + TTL)
      /\ q.scope = {o \in Tokens : given[o] # None /\ given[o].user = given[t].user}
  BY <1>0, <1>1 DEF TypeOK, Sent, Blank, ReqType
<1>3. req'[r] = q /\ \A o \in Requests \ {r} : req'[o] = req[o]
  BY <1>0, <1>2, BecomesType
<1>4. req[r].token = None
  BY <1>0 DEF PlaceOK, At
<1> HIDE DEF q
<1>5. ReqOK(req[r])'
  BY <1>2, <1>3 DEF ReqOK, PlaceOK, HolderOK, LateOK, ScopeOK
<1>. QED  BY <1>2, <1>3, <1>4, <1>5, OnlyRequest

LEMMA NoTokenInv ==
  ASSUME IInv, TypeOK', NEW r \in Requests, NEW kind \in {"enter", "logoutAll", "logout"},
         At(r, "new"), NoToken(r, kind)
  PROVE  IInv'
<1> USE AccountsAssumption
<1>0. TypeOK /\ PlaceOK(req[r])
  BY DEF IInv, ReqOK
<1>1. PICK q \in ReqType :
           /\ Becomes(r, q)
           /\ q.kind = kind /\ q.at = "done"
           /\ q.token = req[r].token /\ q.late = req[r].late /\ q.scope = req[r].scope
  BY <1>0, NoTokenStep
<1>2. req'[r] = q /\ \A o \in Requests \ {r} : req'[o] = req[o]
  BY <1>0, <1>1, BecomesType
<1>3. req[r].token = None /\ ~req[r].late /\ req[r].scope = {}
  BY <1>0 DEF PlaceOK, At
<1>4. ReqOK(req[r])'
  BY <1>1, <1>2, <1>3 DEF ReqOK, PlaceOK, HolderOK, LateOK, ScopeOK
<1>. QED  BY <1>1, <1>2, <1>3, <1>4, OnlyRequest DEF NoToken

LEMMA CreateInv ==
  ASSUME IInv, TypeOK', NEW r \in Requests, NEW t \in Tokens, CreateSession(r, t)
  PROVE  IInv'
<1> USE AccountsAssumption
<1>0. TypeOK /\ ReqOK(req[r]) /\ At(r, "create")
  BY DEF IInv, CreateSession
<1>1. PICK q \in ReqType :
           /\ Becomes(r, q)
           /\ q.token = t /\ q.at = "session"
           /\ q.kind = req[r].kind /\ q.user = req[r].user /\ q.answer = req[r].answer
           /\ q.late = req[r].late /\ q.scope = req[r].scope
  BY <1>0, CreateStep
<1>2. req'[r] = q /\ \A o \in Requests \ {r} : req'[o] = req[o]
  BY <1>0, <1>1, BecomesType
<1>3. /\ req[r].token = None /\ req[r].kind = "login" /\ req[r].user \in Names
      /\ ~req[r].late /\ req[r].scope = {}
  BY <1>0 DEF ReqOK, PlaceOK, At
<1>4. /\ rows[t] = None /\ \A o \in Requests : req[o].token # t
      /\ given' = given /\ ended' = ended /\ now' = now
      /\ given[t] = None /\ t \notin ended
  BY DEF CreateSession, IInv, KnownOK
<1>5. rows' = [rows EXCEPT ![t] = [user |-> req[r].user, created |-> now,
                  expires |-> now + TTL, used |-> now, revoked |-> None]]
  BY DEF CreateSession, NewRow
<1>6. rows'[t].user = req[r].user /\ rows'[t].expires = now + TTL
  BY <1>0, <1>5 DEF TypeOK
<1>7. Grows
  BY <1>0, <1>1, <1>2, <1>3, <1>4 DEF Grows, TypeOK
<1>8. \A u \in Tokens \ {t} : OnlyEnds(u)
  BY <1>0, <1>5 DEF OnlyEnds, TypeOK
<1>9. ASSUME NEW u \in Tokens PROVE RowOK(u)' /\ EndedOK(u)' /\ KnownOK(u)'
  <2>1. CASE u # t
    BY <1>4, <1>7, <1>8, <2>1, TokenKeeps
  <2>2. CASE u = t
    <3>1. RowOK(t)'
      BY <1>0, <1>4, <1>6 DEF RowOK, TypeOK
    <3>2. EndedOK(t)' /\ KnownOK(t)'
      BY <1>4 DEF EndedOK, KnownOK
    <3>. QED  BY <2>2, <3>1, <3>2
  <2>. QED  BY <2>1, <2>2
<1>10. ASSUME NEW o \in Requests PROVE ReqOK(req[o])'
  <2>1. CASE o # r
    BY <1>2, <1>4, <1>7, <1>8, <2>1, RequestKeeps
  <2>2. CASE o = r
    BY <1>1, <1>2, <1>3, <1>4, <1>6, <2>2 DEF ReqOK, PlaceOK, HolderOK, LateOK, ScopeOK
  <2>. QED  BY <2>1, <2>2
<1>11. LoginsApart'
  BY <1>1, <1>2, <1>4 DEF LoginsApart, IInv
<1>. QED  BY <1>9, <1>10, <1>11 DEF IInv

\* The first lookup is where a late request stops: its token is past its
\* time, or has ended.
LEMMA LookupSessionInv ==
  ASSUME IInv, TypeOK', NEW r \in Requests, LookupSession(r)
  PROVE  IInv'
<1> USE AccountsAssumption
<1> DEFINE t == req[r].token
<1>0. TypeOK /\ ReqOK(req[r]) /\ At(r, "session") /\ t \in Tokens
  BY DEF IInv, LookupSession, ReqOK, PlaceOK, At
<1>1. PICK q \in ReqType :
           /\ Becomes(r, q)
           /\ \/ /\ Usable(rows[t])
                 /\ q.at = "owner" /\ q.user = rows[t].user
                 /\ q.answer = req[r].answer
              \/ q.at = "done" /\ q.answer = "refused" /\ q.user = req[r].user
           /\ q.kind = req[r].kind /\ q.token = req[r].token
           /\ q.late = req[r].late /\ q.scope = req[r].scope
  BY <1>0, LookupStep
<1>2. req'[r] = q /\ \A o \in Requests \ {r} : req'[o] = req[o]
  BY <1>0, <1>1, BecomesType
<1>3. UNCHANGED <<now, rows, given, ended>>
  BY DEF LookupSession
<1>4. RowOK(t) /\ EndedOK(t)
  BY <1>0 DEF IInv
<1>5. Usable(rows[t]) => rows[t].user \in Names /\ rows[t].expires \in Nat
  BY <1>0 DEF Usable, TypeOK, RowType
<1>6. /\ PlaceOK(req[r]) /\ HolderOK(req[r]) /\ LateOK(req[r]) /\ ScopeOK(req[r])
      /\ req[r].kind \in {"login", "enter", "logoutAll"}
  BY <1>0 DEF ReqOK, PlaceOK, At
<1>7. PlaceOK(req[r])' /\ HolderOK(req[r])'
  BY <1>0, <1>1, <1>2, <1>3, <1>5, <1>6 DEF PlaceOK, HolderOK, At, Usable
<1>8. Usable(rows[t]) => ~req[r].late
  <2>1. SUFFICES ASSUME Usable(rows[t]), req[r].late PROVE FALSE
    OBVIOUS
  <2>2. given[t] # None /\ t \notin ended
    BY <1>0, <1>4, <1>6, <2>1 DEF HolderOK, PlaceOK, EndedOK, Usable
  <2>3. now >= given[t].at + TTL /\ given[t].at \in Nat
    BY <1>0, <1>6, <2>1, <2>2 DEF LateOK, TypeOK
  <2>4. rows[t].expires <= given[t].at + TTL
    BY <1>4, <2>1, <2>2 DEF RowOK, Usable
  <2>. QED  BY <1>0, <1>5, <2>1, <2>3, <2>4 DEF Usable, TypeOK
<1>9. LateOK(req[r])'
  BY <1>0, <1>1, <1>2, <1>3, <1>6, <1>8 DEF LateOK
<1>10. ScopeOK(req[r])'
  BY <1>0, <1>1, <1>2, <1>3, <1>4, <1>6 DEF ScopeOK, RowOK, HolderOK, Usable
<1>11. ReqOK(req[r])'
  BY <1>7, <1>9, <1>10 DEF ReqOK
<1>. QED  BY <1>1, <1>2, <1>3, <1>11, OnlyRequest

\* An answer that is no success, to a request that is under way.
LEMMA FailInv ==
  ASSUME IInv, TypeOK', NEW r \in Requests, NEW what \in {"refused", "failed"},
         ~At(r, "new"), Answer(r, what), UNCHANGED <<now, rows, given, ended>>
  PROVE  IInv'
<1> USE AccountsAssumption
<1>0. TypeOK /\ ReqOK(req[r]) /\ req[r] \in ReqType
  BY DEF IInv, TypeOK
<1>1. /\ req'[r] = [req[r] EXCEPT !.at = "done", !.answer = what]
      /\ \A o \in Requests \ {r} : req'[o] = req[o]
  BY <1>0, AnswerStep
<1>2. /\ req'[r].at = "done" /\ req'[r].answer = what /\ req'[r].kind = req[r].kind
      /\ req'[r].token = req[r].token /\ req'[r].user = req[r].user
      /\ req'[r].late = req[r].late /\ req'[r].scope = req[r].scope
  BY <1>0, <1>1 DEF ReqType
<1>3. ReqOK(req[r])'
  BY <1>0, <1>2 DEF ReqOK, PlaceOK, HolderOK, LateOK, ScopeOK, At
<1>. QED  BY <1>1, <1>2, <1>3, OnlyRequest

LEMMA LookupOwnerInv ==
  ASSUME IInv, TypeOK', NEW r \in Requests, LookupOwner(r)
  PROVE  IInv'
<1> USE AccountsAssumption
<1>0. TypeOK /\ ReqOK(req[r]) /\ req[r] \in ReqType /\ At(r, "owner")
  BY DEF IInv, TypeOK, LookupOwner
<1>1. CASE Answer(r, "refused")
  BY <1>0, <1>1, FailInv DEF LookupOwner, At
<1>2. CASE Goto(r, "touch")
  <2>1. /\ req'[r] = [req[r] EXCEPT !.at = "touch"]
        /\ \A o \in Requests \ {r} : req'[o] = req[o]
    BY <1>0, <1>2, GotoStep DEF Steps
  <2>2. /\ req'[r].at = "touch" /\ req'[r].answer = req[r].answer
        /\ req'[r].kind = req[r].kind
        /\ req'[r].token = req[r].token /\ req'[r].user = req[r].user
        /\ req'[r].late = req[r].late /\ req'[r].scope = req[r].scope
    BY <1>0, <2>1 DEF ReqType
  <2>3. UNCHANGED <<now, rows, given, ended>>
    BY DEF LookupOwner
  <2>4. ReqOK(req[r])'
    BY <1>0, <2>2, <2>3 DEF ReqOK, PlaceOK, HolderOK, LateOK, ScopeOK, At
  <2>. QED  BY <2>1, <2>2, <2>3, <2>4, OnlyRequest
<1>. QED  BY <1>1, <1>2 DEF LookupOwner

\* TouchSession changes a time nobody reads.  A login is answered here: from
\* now on its token is known, and its row ends within TTL.
LEMMA TouchInv ==
  ASSUME IInv, TypeOK', NEW r \in Requests, Touch(r)
  PROVE  IInv'
<1> USE AccountsAssumption
<1> DEFINE login == req[r].kind = "login"
           all == req[r].kind = "logoutAll"
<1>a. /\ TypeOK /\ ReqOK(req[r]) /\ req[r] \in ReqType /\ At(r, "touch")
      /\ req[r].token \in Tokens
  BY DEF IInv, TypeOK, Touch, ReqOK, PlaceOK, At
<1>b. PICK t \in Tokens : t = req[r].token
  BY <1>a
<1>0. /\ TypeOK /\ ReqOK(req[r]) /\ req[r] \in ReqType /\ At(r, "touch")
      /\ t \in Tokens /\ t = req[r].token
  BY <1>a, <1>b
<1>1. /\ req'[r].at = IF all THEN "revokeAll" ELSE "done"
      /\ req'[r].answer = IF all THEN req[r].answer ELSE "ok"
      /\ req'[r].kind = req[r].kind
      /\ req'[r].token = req[r].token /\ req'[r].user = req[r].user
      /\ req'[r].late = req[r].late /\ req'[r].scope = req[r].scope
      /\ \A o \in Requests \ {r} : req'[o] = req[o]
  <2>1. CASE all
    <3>1. /\ req'[r] = [req[r] EXCEPT !.at = "revokeAll"]
          /\ \A o \in Requests \ {r} : req'[o] = req[o]
      BY <1>0, <2>1, GotoStep DEF Touch, Steps
    <3>. QED  BY <1>0, <2>1, <3>1 DEF ReqType
  <2>2. CASE ~all
    <3>1. /\ req'[r] = [req[r] EXCEPT !.at = "done", !.answer = "ok"]
          /\ \A o \in Requests \ {r} : req'[o] = req[o]
      BY <1>0, <2>2, AnswerStep DEF Touch
    <3>. QED  BY <1>0, <2>2, <3>1 DEF ReqType
  <2>. QED  BY <2>1, <2>2
<1>2. /\ now' = now /\ ended' = ended
      /\ ~login => given' = given
      /\ \A u \in Tokens \ {t} : given'[u] = given[u]
      /\ login => given'[t] = [user |-> req[r].user, at |-> now]
  BY <1>0 DEF Touch, TypeOK
<1>3. \A u \in Tokens : OnlyEnds(u)
  BY <1>0 DEF Touch, Touched, OnlyEnds, TypeOK, RowType
<1>4. /\ login => /\ given[t] = None /\ t \notin ended /\ req[r].user \in Names
                  /\ rows[t] # None => rows[t].user = req[r].user
      /\ ~login => given[t] # None
  BY <1>0 DEF ReqOK, HolderOK, At
<1>5. Grows
  <2>1. now' >= now /\ ended \subseteq ended'
    BY <1>0, <1>2 DEF TypeOK
  <2>2. ASSUME NEW u \in Tokens, given[u] # None PROVE given'[u] = given[u]
    <3>1. CASE u = t /\ login
      BY <1>4, <2>2, <3>1
    <3>2. CASE u # t
      BY <1>2, <2>2, <3>2
    <3>3. CASE ~login
      BY <1>2, <3>3
    <3>. QED  BY <3>1, <3>2, <3>3
  <2>3. \A o \in Requests : req'[o].token = req[o].token
    BY <1>1
  <2>. QED  BY <2>1, <2>2, <2>3 DEF Grows
<1>6. ASSUME NEW u \in Tokens PROVE RowOK(u)' /\ EndedOK(u)' /\ KnownOK(u)'
  <2>1. CASE u # t \/ ~login
    BY <1>2, <1>3, <1>5, <2>1, TokenKeeps
  <2>2. CASE u = t /\ login
    <3>1. RowOK(t)'
      <4>1. rows'[t] # None =>
              /\ rows[t] # None
              /\ rows'[t].user = rows[t].user
              /\ rows'[t].expires = rows[t].expires
        BY <1>0, <1>3 DEF OnlyEnds
      <4>2. rows[t] # None => rows[t].expires <= now + TTL
        BY <1>0 DEF IInv, RowOK
      <4>. QED  BY <1>2, <1>4, <2>2, <4>1, <4>2 DEF RowOK
    <3>2. EndedOK(t)' /\ KnownOK(t)'
      BY <1>0, <1>1, <1>2, <1>4, <2>2 DEF EndedOK, KnownOK
    <3>. QED  BY <2>2, <3>1, <3>2
  <2>. QED  BY <2>1, <2>2
<1>7. ASSUME NEW o \in Requests PROVE ReqOK(req[o])'
  <2>1. CASE o # r
    <3>1. req[o].kind = "login" /\ req[o].at \in {"session", "owner", "touch"} =>
             given'[req[o].token] = given[req[o].token]
      BY <1>0, <1>2, <2>1 DEF IInv, LoginsApart, ReqOK, PlaceOK
    <3>. QED  BY <1>1, <1>2, <1>3, <1>5, <2>1, <3>1, RequestKeeps
  <2>2. PlaceOK(req[r])'
    BY <1>0, <1>1 DEF ReqOK, PlaceOK, At
  <2>3. HolderOK(req[r])'
    BY <1>0, <1>1, <1>2, <1>4 DEF HolderOK
  <2>4. LateOK(req[r])'
    BY <1>0, <1>1, <1>2 DEF ReqOK, LateOK, PlaceOK, At
  <2>5. ScopeOK(req[r])'
    <3>1. CASE login
      BY <1>0, <1>1, <3>1 DEF ReqOK, PlaceOK, ScopeOK
    <3>2. CASE ~login
      BY <1>0, <1>1, <1>2, <3>2 DEF ReqOK, ScopeOK, At
    <3>. QED  BY <3>1, <3>2
  <2>. QED  BY <2>1, <2>2, <2>3, <2>4, <2>5 DEF ReqOK
<1>8. LoginsApart'
  BY <1>1, ApartKeeps
<1>. QED  BY <1>6, <1>7, <1>8 DEF IInv

\* A logout is answered when the rows of all the tokens it ends are unusable.
LEMMA LogoutDone ==
  ASSUME IInv, TypeOK', NEW r \in Requests, Answer(r, "ok"),
         ~At(r, "new"), req[r].kind \in {"logout", "logoutAll"},
         req[r].token \in Tokens,
         req[r].kind = "logoutAll" => ~req[r].late,
         UNCHANGED <<now, given>>, ended \subseteq ended',
         \A u \in Tokens : OnlyEnds(u),
         \A u \in ended' : u \in ended \/ (EndedOK(u)' /\ given[u] # None)
  PROVE  IInv'
<1> USE AccountsAssumption
<1>0. TypeOK /\ ReqOK(req[r]) /\ req[r] \in ReqType
  BY DEF IInv, TypeOK
<1>1. /\ req'[r] = [req[r] EXCEPT !.at = "done", !.answer = "ok"]
      /\ \A o \in Requests \ {r} : req'[o] = req[o]
  BY <1>0, AnswerStep
<1>2. /\ req'[r].at = "done" /\ req'[r].kind = req[r].kind
      /\ req'[r].token = req[r].token /\ req'[r].user = req[r].user
      /\ req'[r].late = req[r].late /\ req'[r].scope = req[r].scope
  BY <1>0, <1>1 DEF ReqType
<1>3. Grows
  <2>1. \A o \in Requests : req'[o].token = req[o].token
    BY <1>1, <1>2
  <2>2. now' >= now
    BY <1>0 DEF TypeOK
  <2>. QED  BY <2>1, <2>2 DEF Grows
<1>4. ASSUME NEW u \in Tokens PROVE RowOK(u)' /\ EndedOK(u)' /\ KnownOK(u)'
  <2>1. CASE u \in ended' => u \in ended
    BY <1>3, <2>1, TokenKeeps
  <2>2. CASE u \in ended' /\ u \notin ended
    <3>1. EndedOK(u)' /\ given[u] # None
      BY <2>2
    <3>2. RowOK(u) /\ KnownOK(u)
      BY DEF IInv
    <3>3. KnownOK(u)'
      BY <1>3, <3>1, <3>2 DEF KnownOK, Grows
    <3>4. RowOK(u)'
      BY <3>2 DEF RowOK, OnlyEnds
    <3>. QED  BY <3>1, <3>3, <3>4
  <2>. QED  BY <2>1, <2>2
<1>5. ASSUME NEW o \in Requests PROVE ReqOK(req[o])'
  <2>1. CASE o # r
    <3>1. ASSUME req[o].kind = "login", req[o].at \in {"session", "owner", "touch"}
          PROVE  req[o].token \in ended' => req[o].token \in ended
      <4>1. given[req[o].token] = None
        BY <3>1 DEF IInv, ReqOK, HolderOK
      <4>. QED  BY <4>1
    <3>. QED  BY <1>1, <1>3, <2>1, <3>1, RequestKeeps
  <2>2. CASE o = r
    BY <1>0, <1>2, <2>2 DEF ReqOK, PlaceOK, HolderOK, LateOK, ScopeOK, At
  <2>. QED  BY <2>1, <2>2
<1>6. LoginsApart'
  BY <1>1, <1>2, ApartKeeps
<1>. QED  BY <1>4, <1>5, <1>6 DEF IInv

\* Logout is answered with the row unusable: found so, or just revoked.
LEMMA FindLoginInv ==
  ASSUME IInv, TypeOK', NEW r \in Requests, FindLogin(r)
  PROVE  IInv'
<1> USE AccountsAssumption
<1>a. /\ TypeOK /\ ReqOK(req[r]) /\ req[r] \in ReqType /\ At(r, "find")
      /\ req[r].token \in Tokens
  BY DEF IInv, TypeOK, FindLogin, ReqOK, PlaceOK, At
<1>b. PICK t \in Tokens : t = req[r].token
  BY <1>a
<1>c. UNCHANGED <<now, rows, given>>
  BY DEF FindLogin
<1>1. CASE Usable(rows[t])
  <2>1. Goto(r, "revoke") /\ ended' = ended
    BY <1>b, <1>1 DEF FindLogin
  <2>2. /\ req'[r] = [req[r] EXCEPT !.at = "revoke"]
        /\ \A o \in Requests \ {r} : req'[o] = req[o]
    BY <1>a, <2>1, GotoStep DEF Steps
  <2>3. /\ req'[r].at = "revoke" /\ req'[r].answer = req[r].answer
        /\ req'[r].kind = req[r].kind
        /\ req'[r].token = req[r].token /\ req'[r].user = req[r].user
        /\ req'[r].late = req[r].late /\ req'[r].scope = req[r].scope
    BY <1>a, <2>2 DEF ReqType
  <2>4. ReqOK(req[r])'
    BY <1>a, <1>c, <2>1, <2>3 DEF ReqOK, PlaceOK, HolderOK, LateOK, ScopeOK, At
  <2>. QED  BY <1>c, <2>1, <2>2, <2>3, <2>4, OnlyRequest
<1>2. CASE ~Usable(rows[t])
  <2>1. Answer(r, "ok") /\ ended' = ended \cup {t}
    BY <1>b, <1>2 DEF FindLogin
  <2>2. \A u \in Tokens : OnlyEnds(u)
    BY <1>c DEF OnlyEnds
  <2>3. EndedOK(t)'
    BY <1>2, <1>c DEF EndedOK, Usable
  <2>4. req[r].kind = "logout" /\ given[t] # None
    BY <1>a, <1>b DEF ReqOK, PlaceOK, HolderOK, At
  <2>. QED  BY <1>a, <1>c, <2>1, <2>2, <2>3, <2>4, LogoutDone DEF At
<1>. QED  BY <1>1, <1>2

LEMMA RevokeLoginInv ==
  ASSUME IInv, TypeOK', NEW r \in Requests, RevokeLogin(r)
  PROVE  IInv'
<1> USE AccountsAssumption
<1>a. /\ TypeOK /\ ReqOK(req[r]) /\ req[r] \in ReqType /\ At(r, "revoke")
      /\ req[r].token \in Tokens
  BY DEF IInv, TypeOK, RevokeLogin, ReqOK, PlaceOK, At
<1>b. PICK t \in Tokens : t = req[r].token
  BY <1>a
<1>c. /\ UNCHANGED <<now, given>> /\ Answer(r, "ok") /\ ended' = ended \cup {t}
      /\ rows' = [rows EXCEPT ![t] = IF @ = None THEN None ELSE Revoked(@)]
  BY <1>b DEF RevokeLogin
<1>1. \A u \in Tokens : OnlyEnds(u)
  BY <1>a, <1>b, <1>c DEF OnlyEnds, Revoked, TypeOK, RowType
<1>2. EndedOK(t)'
  BY <1>a, <1>b, <1>c DEF EndedOK, Usable, Revoked, TypeOK, RowType
<1>3. req[r].kind = "logout" /\ given[t] # None
  BY <1>a, <1>b DEF ReqOK, PlaceOK, HolderOK, At
<1>. QED  BY <1>a, <1>c, <1>1, <1>2, <1>3, LogoutDone DEF At

\* Logout-all is answered with every row of the user unusable, and the tokens
\* its sender knew of are the user's.
LEMMA RevokeAllInv ==
  ASSUME IInv, TypeOK', NEW r \in Requests, RevokeAll(r)
  PROVE  IInv'
<1> USE AccountsAssumption
<1>a. /\ TypeOK /\ ReqOK(req[r]) /\ req[r] \in ReqType /\ At(r, "revokeAll")
      /\ req[r].kind = "logoutAll" /\ req[r].token \in Tokens
      /\ req[r].scope \subseteq Tokens
  BY DEF IInv, TypeOK, RevokeAll, ReqOK, PlaceOK, At, ReqType
<1>b. UNCHANGED <<now, given>> /\ Answer(r, "ok") /\ ended' = ended \cup req[r].scope
  BY DEF RevokeAll
<1>1. \A u \in Tokens : OnlyEnds(u)
  BY <1>a DEF RevokeAll, OnlyEnds, Revoked, TypeOK, RowType
<1>2. ASSUME NEW u \in req[r].scope PROVE EndedOK(u)'
  <2>1. /\ u \in Tokens /\ given[u] # None
        /\ given[u].user = req[r].user
    BY <1>a DEF ReqOK, ScopeOK, At
  <2>2. rows[u] # None => rows[u].user = req[r].user
    BY <2>1 DEF IInv, RowOK
  <2>3. rows'[u] # None => rows'[u].revoked # None
    BY <1>a, <2>1, <2>2 DEF RevokeAll, Revoked, TypeOK, RowType
  <2>. QED  BY <2>3 DEF EndedOK, Usable
<1>3. ~req[r].late /\ \A u \in req[r].scope : given[u] # None
  BY <1>a DEF ReqOK, LateOK, ScopeOK, At
<1>. QED  BY <1>a, <1>b, <1>1, <1>2, <1>3, LogoutDone DEF At

LEMMA StepInv ==
  ASSUME IInv, [Next]_vars
  PROVE  IInv'
<1> USE AccountsAssumption
<1>0. TypeOK /\ TypeOK'
  BY TypeStep DEF IInv
<1>1. ASSUME NEW n \in Names, NEW e \in Emails, Register(n, e) PROVE IInv'
  BY <1>0, <1>1, RegisterInv
<1>2. ASSUME NEW r \in Requests, NEW n \in Names, NEW right \in BOOLEAN, Login(r, n, right)
      PROVE IInv'
  BY <1>0, <1>2, LoginInv
<1>3. ASSUME NEW r \in Requests, NEW kind \in {"enter", "logoutAll"}, NEW t \in Tokens,
             Enter(r, kind, t)
      PROVE IInv'
  BY <1>0, <1>3, SentInv DEF Enter
<1>4. ASSUME NEW r \in Requests, NEW t \in Tokens, Logout(r, t) PROVE IInv'
  BY <1>0, <1>4, SentInv DEF Logout
<1>5. ASSUME NEW r \in Requests, NEW kind \in {"enter", "logoutAll", "logout"},
             NoToken(r, kind)
      PROVE IInv'
  BY <1>0, <1>5, NoTokenInv DEF NoToken
<1>6. ASSUME NEW r \in Requests, NEW t \in Tokens, CreateSession(r, t) PROVE IInv'
  BY <1>0, <1>6, CreateInv
<1>7. ASSUME NEW r \in Requests,
             LookupSession(r) \/ LookupOwner(r) \/ Touch(r)
      PROVE IInv'
  BY <1>0, <1>7, LookupSessionInv, LookupOwnerInv, TouchInv
<1>8. ASSUME NEW r \in Requests,
             FindLogin(r) \/ RevokeLogin(r) \/ RevokeAll(r)
      PROVE IInv'
  BY <1>0, <1>8, FindLoginInv, RevokeLoginInv, RevokeAllInv
<1>9. ASSUME NEW r \in Requests, StatementFails(r) PROVE IInv'
  BY <1>0, <1>9, FailInv DEF StatementFails, At
<1>10. CASE CleanupExpired
  <2>1. now' >= now /\ \A t \in Tokens : OnlyEnds(t)
    BY <1>0, <1>10 DEF CleanupExpired, OnlyEnds, TypeOK
  <2>. QED  BY <1>0, <1>10, <2>1, NoRequest DEF CleanupExpired
<1>11. CASE Tick
  <2>1. now' >= now /\ \A t \in Tokens : OnlyEnds(t)
    BY <1>0, <1>11 DEF Tick, OnlyEnds, TypeOK
  <2>. QED  BY <1>0, <1>11, <2>1, NoRequest DEF Tick
<1>12. CASE UNCHANGED vars
  <2>1. now' >= now /\ \A t \in Tokens : OnlyEnds(t)
    BY <1>0, <1>12 DEF vars, OnlyEnds, TypeOK
  <2>. QED  BY <1>0, <1>12, <2>1, NoRequest DEF vars
<1>. QED
  BY <1>1, <1>2, <1>3, <1>4, <1>5, <1>6, <1>7, <1>8, <1>9, <1>10, <1>11, <1>12
     DEF Next, Request

\* A late request is at no step of its way to success.
LEMMA InvImplies ==
  IInv => EndedIsRefused
  BY DEF IInv, ReqOK, LateOK, PlaceOK, EndedIsRefused

-----------------------------------------------------------------------------
\* A request sent after its token's lifetime, after the answer to its logout
\* or to a logout-all of its owner that knew of it, is never let through
\* (Authenticate, Logout, LogoutAll, TouchSession, CleanupExpired), for any
\* number of users, logins and requests and any interleaving of their
\* statements.
THEOREM EndedStaysRefused == Spec => []EndedIsRefused
<1>1. Init => IInv
  BY InitInv
<1>2. IInv /\ [Next]_vars => IInv'
  BY StepInv
<1>3. IInv => EndedIsRefused
  BY InvImplies
<1>. QED  BY <1>1, <1>2, <1>3, PTL DEF Spec

-----------------------------------------------------------------------------
(* A login session ends by its lifetime or a logout of its user only.      *)

\* No statement moves the end of a row.
LifeOK == \A t \in Tokens : rows[t] # None => rows[t].expires = rows[t].created + TTL

\* The statements that write the table.
LEMMA RowsMove ==
  ASSUME [Next]_vars
  PROVE  \/ UNCHANGED rows
         \/ \E r \in Requests : (\E t \in Tokens : CreateSession(r, t)) \/ Touch(r)
                                \/ RevokeLogin(r) \/ RevokeAll(r)
         \/ CleanupExpired
  BY DEF Next, Request, vars, Register, Login, Enter, Logout, NoToken, LookupSession,
     LookupOwner, FindLogin, StatementFails, Tick

LEMMA LifeStep ==
  ASSUME IInv, LifeOK, [Next]_vars
  PROVE  LifeOK'
<1> USE AccountsAssumption
<1>0. TypeOK
  BY DEF IInv
<1>1. CASE UNCHANGED rows
  BY <1>1 DEF LifeOK
<1>2. ASSUME NEW r \in Requests, NEW t \in Tokens, CreateSession(r, t) PROVE LifeOK'
  BY <1>0, <1>2 DEF LifeOK, CreateSession, NewRow, TypeOK
<1>3. ASSUME NEW r \in Requests, Touch(r) PROVE LifeOK'
  BY <1>0, <1>3 DEF LifeOK, Touch, Touched, TypeOK, RowType
<1>4. ASSUME NEW r \in Requests, RevokeLogin(r) PROVE LifeOK'
  BY <1>0, <1>4 DEF LifeOK, RevokeLogin, Revoked, TypeOK, RowType
<1>5. ASSUME NEW r \in Requests, RevokeAll(r) PROVE LifeOK'
  BY <1>0, <1>5 DEF LifeOK, RevokeAll, Revoked, TypeOK, RowType
<1>6. CASE CleanupExpired
  BY <1>6 DEF LifeOK, CleanupExpired
<1>. QED
  BY <1>1, <1>2, <1>3, <1>4, <1>5, <1>6, RowsMove

\* A row ends by its time, or in the one statement of a logout.
LEMMA LastsStep ==
  ASSUME IInv, LifeOK, [Next]_vars, NEW t \in Tokens,
         Usable(rows[t]), ~Usable(rows[t])'
  PROVE  now' >= rows[t].created + TTL \/ \E r \in Requests : Ends(r, t)
<1> USE AccountsAssumption
<1>0. /\ TypeOK /\ rows[t] # None /\ rows[t] \in RowType /\ rows[t].revoked = None
      /\ rows[t].expires = rows[t].created + TTL /\ rows[t].expires > now
  BY DEF IInv, LifeOK, Usable, TypeOK
<1>1. CASE UNCHANGED rows
  <2>1. ~(rows[t].expires > now')
    BY <1>0, <1>1 DEF Usable
  <2>2. now' \in Nat
    BY TypeStep DEF IInv, TypeOK
  <2>. QED  BY <1>0, <2>1, <2>2 DEF RowType
<1>2. ASSUME NEW r \in Requests, NEW u \in Tokens, CreateSession(r, u) PROVE FALSE
  BY <1>0, <1>2 DEF CreateSession, Usable, TypeOK
<1>3. ASSUME NEW r \in Requests, Touch(r) PROVE FALSE
  <2>1. now' = now /\ (rows'[t] = rows[t] \/ rows'[t] = Touched(rows[t]))
    BY <1>0, <1>3 DEF Touch, TypeOK
  <2>2. rows'[t].revoked = None /\ rows'[t].expires > now /\ rows'[t] \in RowType
    BY <1>0, <2>1 DEF Touched, RowType, TypeOK
  <2>3. rows'[t] # None
    BY <2>2
  <2>. QED  BY <2>1, <2>2, <2>3 DEF Usable
<1>4. ASSUME NEW r \in Requests, RevokeLogin(r) PROVE Ends(r, t)
  <2>1. At(r, "revoke") /\ ReqOK(req[r])
    BY <1>4 DEF IInv, RevokeLogin
  <2>2. req[r].kind = "logout"
    BY <2>1 DEF At, ReqOK, PlaceOK
  <2>3. req[r].token = t
    BY <1>0, <1>4 DEF RevokeLogin, Usable, TypeOK
  <2>. QED  BY <2>1, <2>2, <2>3 DEF Ends, At
<1>5. ASSUME NEW r \in Requests, RevokeAll(r) PROVE Ends(r, t)
  <2>1. At(r, "revokeAll") /\ ReqOK(req[r])
    BY <1>5 DEF IInv, RevokeAll
  <2>2. req[r].kind = "logoutAll" /\ req[r].token # None
        /\ req[r].user = given[req[r].token].user
    BY <2>1 DEF At, ReqOK, PlaceOK, ScopeOK, AccountsAssumption
  <2>3. rows[t].user = req[r].user
    BY <1>0, <1>5 DEF RevokeAll, Usable, TypeOK
  <2>. QED  BY <2>1, <2>2, <2>3 DEF Ends, At
<1>6. CASE CleanupExpired
  BY <1>0, <1>6 DEF CleanupExpired, Stale, Usable, TypeOK, RowType
<1>. QED
  BY <1>1, <1>2, <1>3, <1>4, <1>5, <1>6, RowsMove

\* A login session lasts TTL from its creation unless a logout of its own
\* user ends it: no touch, no cleanup and no other user does (CleanupExpired,
\* RevokeSession, RevokeAllSessionsForUser), under the same generality.
THEOREM LoginsLast == Spec => LastsUntilLogout
<1>1. Init => IInv /\ LifeOK
  <2>1. Init => LifeOK
    BY DEF Init, LifeOK
  <2>. QED  BY <2>1, InitInv
<1>2. IInv /\ LifeOK /\ [Next]_vars => (IInv /\ LifeOK)'
  BY StepInv, LifeStep
<1>3. ASSUME IInv, LifeOK, [Next]_vars
      PROVE  [\A t \in Tokens :
                Usable(rows[t]) /\ ~Usable(rows[t])' =>
                  \/ now' >= rows[t].created + TTL
                  \/ \E r \in Requests : Ends(r, t)]_vars
  BY <1>3, LastsStep
<1>. QED  BY <1>1, <1>2, <1>3, PTL DEF Spec, LastsUntilLogout

=============================================================================
