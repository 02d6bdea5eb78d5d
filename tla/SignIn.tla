------------------------------- MODULE SignIn -------------------------------
(***************************************************************************)
(* Signing in, PINs and the screen lock: login_view, the lock screens and  *)
(* the counters of users/services.py and views.py, the middleware that     *)
(* keeps a locked session on its lock screen (core/middleware.py) and      *)
(* verify_pin_view of remittance/views.py.                                 *)
(*                                                                         *)
(* Failed logins and PINs are counted in the cache, one entry per account, *)
(* with a time to live that every failure renews; the entry is read and    *)
(* written in two calls.  The lock and its own count of wrong PINs are in  *)
(* the session, which Django loads when a request begins and writes back   *)
(* whole when the request that changed it ends.  Requests overlap, also    *)
(* those of one browser.  A session is loaded and a count read in one      *)
(* step, at the beginning of a request.                                    *)
(***************************************************************************)
EXTENDS Integers

CONSTANTS
  User,     \* accounts of the back office with a PIN
  Browser,  \* a session each, all behind one address
  Request,  \* requests in progress at once
  LoginMax, PinMax, ScreenMax,  \* LOGIN_MAX_ATTEMPTS, 5 PINs, 3 PINs
  Window,   \* ticks a cache entry lives
  MaxCount, \* bound: failed logins counted
  None

ASSUME SignInAssumption ==
  /\ {LoginMax, PinMax, ScreenMax, Window, MaxCount} \subseteq Nat \ {0}
  /\ LoginMax =< MaxCount
  /\ None \notin User

VARIABLES
  active,   \* accounts that are not deactivated
  session,  \* session[b]: whose it is, locked or not, wrong PINs
  entry,    \* entry[c][u]: the cache entry of login_attempts or pin_attempts
  req       \* req[r]: its browser, the account it is about, the session it
            \* loaded, the count it read; live: that session was not replaced since

vars == <<active, session, entry, req>>

Counter == {"login", "pin"}
Most == [login |-> LoginMax, pin |-> PinMax]
\* edit: edit_user_view, which writes the session too; own: change_password_view
Kind == Counter \cup {"lock", "unlock", "verify", "edit", "own", "logout"}
\* the session of an account that is neither locked nor has wrong PINs counted
Cleared(u) == [user |-> u, locked |-> FALSE, tries |-> 0]
Anonymous == Cleared(None)
NoEntry == [count |-> 0, life |-> 0]
Idle == [kind |-> "idle"]
Unread == -1

Init ==
  /\ active = User
  /\ session = [b \in Browser |-> Anonymous]
  /\ entry = [c \in Counter |-> [u \in User |-> NoEntry]]
  /\ req = [r \in Request |-> Idle]

-----------------------------------------------------------------------------
\* AuthenticationMiddleware: the account of a session while it is active
SignedIn(b) == session[b].user \in active

\* ScreenLockMiddleware: what a locked session may ask for
Admitted(b, k) == SignedIn(b) /\ session[b].locked => k \in {"lock", "unlock", "logout"}

Loaded(b, k, u, n) ==
  [by |-> b, kind |-> k, user |-> u, had |-> session[b], seen |-> n, live |-> TRUE]

\* A request that types no password and no counted PIN begins.
Begin(r, b, k) ==
  /\ req[r] = Idle /\ Admitted(b, k) /\ (k # "logout" => SignedIn(b))
  /\ req' = [req EXCEPT ![r] = Loaded(b, k, session[b].user, Unread)]
  /\ UNCHANGED <<active, session, entry>>

\* The requests that loaded a session of r's browser, or one of u.
Siblings(r) == {q \in Request \ {r} : req[q] # Idle /\ req[q].by = req[r].by}
Of(u) == {q \in Request : req[q] # Idle /\ req[q].had.user = u}

\* r ends, and the sessions that those of Q loaded exist no longer
Answer(r, Q) ==
  req' = [q \in Request |->
    IF q = r THEN Idle ELSE IF q \in Q THEN [req[q] EXCEPT !.live = FALSE] ELSE req[q]]

\* SessionMiddleware writes the whole session, unless it exists no longer
\* (SessionInterrupted).
Save(r, s) ==
  /\ session' = IF req[r].live THEN [session EXCEPT ![req[r].by] = s] ELSE session
  /\ Answer(r, {})

\* cycle_key and flush: the browser is given a new session, what was loaded is
\* deleted
Replace(r, s) ==
  /\ session' = [session EXCEPT ![req[r].by] = s]
  /\ Answer(r, IF req[r].live THEN Siblings(r) ELSE {})

-----------------------------------------------------------------------------
\* is_login_locked, and the limit of validate_user_pin
LockedOut(c, u) == entry[c][u].count >= Most[c]

\* Mutant: a refused attempt renews the entry.
CheckRenewing(r, b, c, u) ==
  /\ req[r] = Idle /\ Admitted(b, c) /\ (c = "pin" => SignedIn(b) /\ session[b].user = u)
  /\ IF LockedOut(c, u)
     THEN entry' = [entry EXCEPT ![c][u].life = Window] /\ UNCHANGED req
     ELSE /\ req' = [req EXCEPT ![r] = Loaded(b, c, u, entry[c][u].count)]
          /\ UNCHANGED entry
  /\ UNCHANGED <<active, session>>
\* check_login_lockout and validate_user_pin: refused, and not counted, while
\* locked out; validate_user_pin keeps the count it has read
Check(r, b, c, u) ==
  /\ req[r] = Idle /\ Admitted(b, c) /\ (c = "pin" => SignedIn(b) /\ session[b].user = u)
  /\ ~LockedOut(c, u)
  /\ req' = [req EXCEPT ![r] = Loaded(b, c, u, IF c = "pin" THEN entry[c][u].count ELSE Unread)]
  /\ UNCHANGED <<active, session, entry>>

\* record_failed_login reads the count again, which others may have taken beyond
\* the limit meanwhile
Recount(r) ==
  LET p == req[r] IN
  /\ p.kind = "login" /\ p.seen = Unread
  /\ entry[p.kind][p.user].count < MaxCount                     \* bound
  /\ req' = [req EXCEPT ![r].seen = entry[p.kind][p.user].count]
  /\ UNCHANGED <<active, session, entry>>

\* a wrong password or PIN: the count read, and one, is written
Wrong(r) ==
  LET p == req[r] IN
  /\ p.kind \in Counter /\ p.seen # Unread
  /\ entry' = [entry EXCEPT ![p.kind][p.user] = [count |-> p.seen + 1, life |-> Window]]
  /\ Answer(r, {})
  /\ UNCHANGED <<active, session>>

\* Mutant: a login empties the session of its own account too.
LoginClears(p) == {Cleared(p.user)}
\* auth_login empties the session of another account, or of another password, and
\* keeps that of the same one.
Login(p) ==
  (IF p.had.user = p.user THEN {p.had} ELSE {}) \cup
  (IF p.had.user = p.user /\ p.live THEN {} ELSE {Cleared(p.user)})

\* The entry is deleted.  deactivate_user_view goes on, and writes the session.
\* (A login with a password replaced meanwhile is this step, and NewPassword.)
Right(r) ==
  LET p == req[r] IN
  /\ p.kind \in Counter
  /\ p.kind = "login" => p.seen = Unread /\ p.user \in active
  /\ entry' = [entry EXCEPT ![p.kind][p.user] = NoEntry]
  /\ \/ p.kind = "login" /\ \E s \in Login(p) : Replace(r, s)
     \/ p.kind = "pin" /\ Answer(r, {}) /\ UNCHANGED session
     \/ p.kind = "pin" /\ req' = [req EXCEPT ![r].kind = "edit"] /\ UNCHANGED session
  /\ UNCHANGED active

\* the right password of a driver's account, which is not counted
Driver(r) ==
  /\ req[r].kind = "login" /\ req[r].seen = Unread
  /\ Answer(r, {}) /\ UNCHANGED <<active, session, entry>>

-----------------------------------------------------------------------------
\* screen_lock_view, and screen_lock_arm_view of the idle overlay
Lock(r) ==
  /\ req[r].kind = "lock"
  /\ Save(r, [req[r].had EXCEPT !.locked = TRUE])
  /\ UNCHANGED <<active, entry>>

\* a session that was not changed is not written
SaveChange(r, s) ==
  IF s = req[r].had THEN Answer(r, {}) /\ UNCHANGED session ELSE Save(r, s)

\* screen_lock_submit_view and screen_lock_verify_view, the right PIN
Unlock(r) ==
  /\ req[r].kind = "unlock"
  /\ SaveChange(r, Cleared(req[r].had.user))
  /\ UNCHANGED <<active, entry>>

\* verify_pin_view, before a remittance is finalized: the count is the session's
Verify(r) ==
  /\ req[r].kind = "verify"
  /\ SaveChange(r, [req[r].had EXCEPT !.tries = 0])
  /\ UNCHANGED <<active, entry>>

\* Mutant: the last try is one more.
WrongPinOneMore(r) ==
  /\ req[r].kind \in {"unlock", "verify"}
  /\ IF req[r].had.tries >= ScreenMax THEN Replace(r, Anonymous)
     ELSE Save(r, [req[r].had EXCEPT !.tries = @ + 1])
  /\ UNCHANGED <<active, entry>>
\* a wrong PIN in any of the three, locked or not: at the limit the session ends
WrongPin(r) ==
  /\ req[r].kind \in {"unlock", "verify"}
  /\ IF req[r].had.tries + 1 >= ScreenMax THEN Replace(r, Anonymous)
     ELSE Save(r, [req[r].had EXCEPT !.tries = @ + 1])
  /\ UNCHANGED <<active, entry>>

\* edit_user_view keeps a challenge in the session, deactivate_user_view takes it
\* out.
Edit(r) ==
  /\ req[r].kind = "edit"
  /\ Save(r, req[r].had)
  /\ UNCHANGED <<active, entry>>

\* logout_view, or ratelimited_view after too many requests
Logout(r) ==
  /\ req[r].kind = "logout"
  /\ Replace(r, Anonymous) /\ UNCHANGED <<active, entry>>

\* change_password_view of the settings page: update_session_auth_hash keeps the
\* session of the request, the others signed in with the old password are emptied
\* by their next request.
OwnPassword(r) ==
  LET p == req[r] IN
  /\ p.kind = "own"
  /\ session' = [b \in Browser |->
       IF b = p.by THEN p.had ELSE IF session[b].user = p.user THEN Anonymous ELSE session[b]]
  /\ Answer(r, Of(p.user)) /\ UNCHANGED <<active, entry>>

\* A password is set by the other pages, or by somebody else: no session is kept.
NewPassword(u) ==
  /\ session' = [b \in Browser |-> IF session[b].user = u THEN Anonymous ELSE session[b]]
  /\ req' = [q \in Request |-> IF q \in Of(u) THEN [req[q] EXCEPT !.live = FALSE] ELSE req[q]]
  /\ UNCHANGED <<active, entry>>

\* deactivate_user, activate_user (see Accounts)
Deactivate(u) ==
  /\ active' = active \ {u} /\ UNCHANGED <<session, entry, req>>
Activate(u) ==
  /\ active' = active \cup {u} /\ UNCHANGED <<session, entry, req>>

Counting(r, c, u) == req[r].kind = c /\ req[r].user = u /\ req[r].seen # Unread
\* Time passes for a cache entry, which outlives the requests that have read it.
Tick(c, u) ==
  /\ entry[c][u].life > 0
  /\ ~\E r \in Request : Counting(r, c, u)
  /\ entry' = [entry EXCEPT ![c][u] =
       IF entry[c][u].life = 1 THEN NoEntry ELSE [entry[c][u] EXCEPT !.life = @ - 1]]
  /\ UNCHANGED <<active, session, req>>

Next ==
  \/ \E r \in Request :
       \/ \E b \in Browser, k \in Kind \ Counter : Begin(r, b, k)
       \/ \E b \in Browser, c \in Counter, u \in User : Check(r, b, c, u)
       \/ Recount(r) \/ Wrong(r) \/ Right(r) \/ Driver(r)
       \/ Lock(r) \/ Unlock(r) \/ Verify(r) \/ WrongPin(r)
       \/ Edit(r) \/ Logout(r) \/ OwnPassword(r)
  \/ \E u \in User : NewPassword(u) \/ Deactivate(u) \/ Activate(u)
  \/ \E c \in Counter, u \in User : Tick(c, u)

\* Time passes, and a request that has read a count answers; nobody has to try
\* again, nor to know the password.
Fairness ==
  /\ \A c \in Counter, u \in User : WF_vars(Tick(c, u))
  /\ \A r \in Request : WF_vars(Wrong(r) \/ Right(r))

Spec == Init /\ [][Next]_vars /\ Fairness

-----------------------------------------------------------------------------
\* a session is somebody's or neither locked nor counted
Session ==
  {s \in [user : User \cup {None}, locked : BOOLEAN, tries : 0..(ScreenMax - 1)] :
     s.locked => s.user # None}

\* Shapes, and the limits: no session goes on with as many wrong PINs as the limit,
\* whichever of the lock screens and the finalize dialog they were typed into; the
\* count of PINs in the cache stops at its limit, though requests overlap.  (That
\* of logins need not: each failure reads it again, after the check.)
SignInTypeOK ==
  /\ active \subseteq User
  /\ session \in [Browser -> Session]
  /\ entry \in [Counter -> [User -> [count : Nat, life : 0..Window]]]
  /\ \A c \in Counter, u \in User :
       /\ entry[c][u].count =< IF c = "pin" THEN PinMax ELSE MaxCount
       /\ entry[c][u].count = 0 <=> entry[c][u].life = 0
  /\ req \in [Request -> {Idle} \cup
       [by : Browser, kind : Kind, user : User \cup {None}, had : Session,
        seen : {Unread} \cup Nat, live : BOOLEAN]]

\* r loaded the session of its browser as it is, locked.
Saw(r) ==
  req[r].live /\ req[r].had.locked /\ req[r].had.user = session[req[r].by].user

\* A session once locked stays locked, whatever is asked for after it was locked by
\* its browser or others, a deactivation of its account and back included, until
\* the right PIN is typed into a lock screen, or the session ends
\* (ScreenLockMiddleware, screen_lock_arm_view: "any subsequent request").  Only a
\* request that had loaded the session before can still write it back unlocked.
LockHolds ==
  [][\A b \in Browser : session[b].locked /\ ~session'[b].locked =>
       \/ session'[b].user # session[b].user
       \/ \E r \in Request : /\ req[r] # Idle /\ req[r].by = b /\ req'[r] = Idle
                             /\ Unlock(r) \/ ~Saw(r)]_vars

\* A lockout ends by itself: an account that is locked out may be tried again in
\* time, even if somebody keeps trying meanwhile (record_failed_login renews the
\* minute with every failure, check_login_lockout refuses without recording).
LockoutsEnd == \A c \in Counter, u \in User : LockedOut(c, u) ~> ~LockedOut(c, u)
=============================================================================
