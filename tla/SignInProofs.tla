---------------------------- MODULE SignInProofs ----------------------------
(***************************************************************************)
(* The limits on wrong PINs and the screen lock, for any number of         *)
(* browsers, accounts and overlapping requests.  (That lockouts end is     *)
(* left to the model checker.)                                             *)
(***************************************************************************)
EXTENDS SignIn, TLAPS

USE SignInAssumption

\* What a check has read is below the limit: of PINs, for it refuses at the
\* limit, and of logins, by the bound of the model.
ReadBelowLimit ==
  \A r \in Request :
    /\ req[r].kind = "pin" => req[r].user \in User /\ req[r].seen \in 0..(PinMax - 1)
    /\ req[r].kind = "login" =>
         req[r].user \in User /\ req[r].seen \in {Unread} \cup 0..(MaxCount - 1)

\* Only somebody's session is being locked.
LockedBySomebody == \A r \in Request : req[r].kind = "lock" => req[r].had.user # None

IInv == SignInTypeOK /\ ReadBelowLimit /\ LockedBySomebody

Req ==
  [by : Browser, kind : Kind, user : User \cup {None}, had : Session,
   seen : {Unread} \cup Nat, live : BOOLEAN]
Entry == [count : Nat, life : 0..Window]

\* IInv in parts: each action writes one or two of them.
SessionsOK == session \in [Browser -> Session]
EntriesOK ==
  /\ entry \in [Counter -> [User -> Entry]]
  /\ \A c \in Counter, u \in User :
       /\ entry[c][u].count =< IF c = "pin" THEN PinMax ELSE MaxCount
       /\ entry[c][u].count = 0 <=> entry[c][u].life = 0
ReqOK == req \in [Request -> {Idle} \cup Req] /\ ReadBelowLimit /\ LockedBySomebody

LEMMA Parts == IInv <=> active \subseteq User /\ SessionsOK /\ EntriesOK /\ ReqOK
BY DEF IInv, SignInTypeOK, SessionsOK, EntriesOK, ReqOK, Entry, Req

LEMMA PartsNext == IInv' <=> (active \subseteq User)' /\ SessionsOK' /\ EntriesOK' /\ ReqOK'
BY DEF IInv, SignInTypeOK, SessionsOK, EntriesOK, ReqOK, Entry, Req

LEMMA KeepOK ==
  /\ SessionsOK /\ UNCHANGED session => SessionsOK'
  /\ EntriesOK /\ UNCHANGED entry => EntriesOK'
  /\ ReqOK /\ UNCHANGED req => ReqOK'
BY DEF SessionsOK, EntriesOK, ReqOK, ReadBelowLimit, LockedBySomebody

\* A request that is not idle is a record of the right shape.
LEMMA Busy ==
  ASSUME ReqOK, NEW r \in Request, req[r].kind \in Kind
  PROVE  /\ req[r] \in Req /\ req[r] # Idle
         /\ req[r].by \in Browser /\ req[r].had \in Session
<1>1. Idle.kind \notin Kind
  BY DEF Idle, Kind, Counter
<1> QED
  BY <1>1 DEF ReqOK, Req

LEMMA IdleIsNoRequest == Idle.kind \notin Kind /\ Idle \notin Req
BY DEF Idle, Kind, Counter, Req

LEMMA ClearedOK ==
  ASSUME NEW u \in User \cup {None}
  PROVE  Cleared(u) \in Session /\ ~Cleared(u).locked /\ Cleared(u).user = u
BY DEF Cleared, Session

LEMMA AnonymousOK == Anonymous \in Session /\ ~Anonymous.locked /\ Anonymous.user = None
BY ClearedOK DEF Anonymous

\* A request ends, whatever sessions are deleted with it.
LEMMA AnswerOK ==
  ASSUME ReqOK, NEW r \in Request, NEW Q, Answer(r, Q)
  PROVE  ReqOK'
<1>1. Idle.kind \notin {"pin", "login", "lock"}
  BY DEF Idle
<1>2. ASSUME NEW q \in Request
      PROVE  /\ req'[q] \in {Idle} \cup Req
             /\ \/ req'[q].kind \notin {"pin", "login", "lock"}
                \/ /\ req'[q].kind = req[q].kind /\ req'[q].user = req[q].user
                   /\ req'[q].seen = req[q].seen /\ req'[q].had = req[q].had
  <2>1. CASE q = r
    BY <1>1, <2>1 DEF Answer
  <2>2. CASE q # r /\ q \notin Q
    BY <2>2 DEF Answer, ReqOK
  <2>3. CASE q # r /\ q \in Q
    <3> DEFINE p == [req[q] EXCEPT !.live = FALSE]
    <3>1. req'[q] = p
      BY <2>3 DEF Answer
    <3>2. CASE req[q] = Idle
      <4>1. p = Idle
        BY <3>2 DEF Idle
      <4> QED
        BY <1>1, <3>1, <4>1
    <3>3. CASE req[q] \in Req
      <4>1. /\ p \in Req /\ p.kind = req[q].kind /\ p.user = req[q].user
            /\ p.seen = req[q].seen /\ p.had = req[q].had
        BY <3>3 DEF Req
      <4> QED
        BY <3>1, <4>1
    <3> QED
      BY <3>2, <3>3 DEF ReqOK
  <2> QED
    BY <2>1, <2>2, <2>3
<1>3. req' \in [Request -> {Idle} \cup Req]
  BY <1>2 DEF Answer
<1> QED
  BY <1>2, <1>3 DEF ReqOK, ReadBelowLimit, LockedBySomebody

LEMMA SaveOK ==
  ASSUME SessionsOK, ReqOK, NEW r \in Request, NEW s \in Session, Save(r, s)
  PROVE  SessionsOK' /\ ReqOK'
BY AnswerOK DEF Save, SessionsOK

LEMMA SaveChangeOK ==
  ASSUME SessionsOK, ReqOK, NEW r \in Request, NEW s \in Session, SaveChange(r, s)
  PROVE  SessionsOK' /\ ReqOK'
BY AnswerOK, SaveOK, KeepOK DEF SaveChange

LEMMA ReplaceOK ==
  ASSUME SessionsOK, ReqOK, NEW r \in Request, NEW s \in Session, Replace(r, s)
  PROVE  SessionsOK' /\ ReqOK'
BY AnswerOK DEF Replace, SessionsOK

LEMMA InitIInv == Init => IInv
<1> SUFFICES ASSUME Init PROVE active \subseteq User /\ SessionsOK /\ EntriesOK /\ ReqOK
  BY Parts
<1>1. SessionsOK
  BY AnonymousOK DEF Init, SessionsOK
<1>2. EntriesOK
  <2>1. NoEntry \in Entry /\ NoEntry.count = 0 /\ NoEntry.life = 0
    BY DEF NoEntry, Entry
  <2> QED
    BY <2>1 DEF Init, EntriesOK
<1>3. ReqOK
  <2>1. Idle.kind \notin {"pin", "login", "lock"}
    BY DEF Idle
  <2> QED
    BY <2>1 DEF Init, ReqOK, ReadBelowLimit, LockedBySomebody
<1> QED
  BY <1>1, <1>2, <1>3 DEF Init

LEMMA SignedInUser == ASSUME IInv, NEW b \in Browser, SignedIn(b) PROVE session[b].user \in User
BY Parts DEF SignedIn

\* A request begins with a session and a count as they are.
LEMMA LoadedOK ==
  ASSUME IInv, NEW r \in Request, NEW b \in Browser, NEW k \in Kind, NEW u \in User \cup {None},
         NEW n \in {Unread} \cup Nat,
         k = "pin" => u \in User /\ n \in 0..(PinMax - 1),
         k = "login" => u \in User /\ n = Unread,
         k = "lock" => session[b].user # None,
         req' = [req EXCEPT ![r] = Loaded(b, k, u, n)]
  PROVE  ReqOK'
<1> DEFINE p == Loaded(b, k, u, n)
<1>1. p \in Req /\ p.kind = k /\ p.user = u /\ p.seen = n /\ p.had = session[b]
  BY Parts DEF Loaded, Req, SessionsOK
<1> HIDE DEF p
<1>2. req' = [req EXCEPT ![r] = p]
  BY DEF p
<1>3. /\ req' \in [Request -> {Idle} \cup Req] /\ req'[r] = p
      /\ \A q \in Request \ {r} : req'[q] = req[q]
  BY <1>1, <1>2, Parts DEF ReqOK
<1>4. ReadBelowLimit'
  BY <1>1, <1>3, Parts DEF ReqOK, ReadBelowLimit
<1>5. LockedBySomebody'
  BY <1>1, <1>3, Parts DEF ReqOK, LockedBySomebody
<1> QED
  BY <1>3, <1>4, <1>5 DEF ReqOK

LEMMA BeginOK ==
  ASSUME IInv, NEW r \in Request, NEW b \in Browser, NEW k \in Kind \ Counter, Begin(r, b, k)
  PROVE  IInv'
<1>1. session[b].user \in User \cup {None}
  BY Parts DEF SessionsOK, Session
<1>2. k # "pin" /\ k # "login" /\ k \in Kind
  BY DEF Counter
<1>3. /\ req' = [req EXCEPT ![r] = Loaded(b, k, session[b].user, Unread)]
      /\ UNCHANGED <<active, session, entry>>
  BY DEF Begin
<1>4. k = "lock" => session[b].user # None
  BY SignedInUser DEF Begin
<1>5. ReqOK'
  BY <1>1, <1>2, <1>3, <1>4, LoadedOK
<1> QED
  BY <1>3, <1>5, Parts, PartsNext, KeepOK

LEMMA CheckOK ==
  ASSUME IInv, NEW r \in Request, NEW b \in Browser, NEW c \in Counter, NEW u \in User,
         Check(r, b, c, u)
  PROVE  IInv'
<1> DEFINE n == IF c = "pin" THEN entry[c][u].count ELSE Unread
<1>1. req' = [req EXCEPT ![r] = Loaded(b, c, u, n)] /\ UNCHANGED <<active, session, entry>>
  BY DEF Check
<1>2. entry[c][u].count \in Nat /\ entry[c][u].count < Most[c]
  BY Parts DEF Check, LockedOut, EntriesOK, Entry, Most, Counter
<1>3. /\ n \in {Unread} \cup Nat
      /\ c = "pin" => n \in 0..(PinMax - 1)
      /\ c = "login" => n = Unread
  BY <1>2 DEF Most
<1>4. c \in Kind /\ c # "lock"
  BY DEF Kind, Counter
<1> HIDE DEF n
<1>5. ReqOK'
  BY <1>1, <1>3, <1>4, LoadedOK
<1> QED
  BY <1>1, <1>5, Parts, PartsNext, KeepOK

LEMMA RecountOK == ASSUME IInv, NEW r \in Request, Recount(r) PROVE IInv'
<1> DEFINE p == req[r]
           n == entry[p.kind][p.user].count
<1>1. /\ p.kind = "login" /\ n < MaxCount
      /\ req' = [req EXCEPT ![r].seen = n]
      /\ UNCHANGED <<active, session, entry>>
  BY DEF Recount
<1>2. p \in Req /\ p.user \in User /\ ReqOK
  <2>1. p.kind \in Kind
    BY <1>1 DEF Kind, Counter
  <2> QED
    BY <1>1, <2>1, Busy, Parts DEF ReqOK, ReadBelowLimit, LockedBySomebody
<1>3. n \in 0..(MaxCount - 1)
  BY <1>1, <1>2, Parts DEF EntriesOK, Entry, Counter
<1> HIDE DEF n
<1>4. /\ req'[r] \in Req /\ req'[r].kind = "login" /\ req'[r].seen = n
      /\ req'[r].user = p.user
      /\ \A q \in Request \ {r} : req'[q] = req[q]
      /\ req' \in [Request -> {Idle} \cup Req]
  BY <1>1, <1>2, <1>3 DEF ReqOK, Req
<1>5. ReqOK'
  BY <1>2, <1>3, <1>4 DEF ReqOK, ReadBelowLimit, LockedBySomebody
<1> QED
  BY <1>1, <1>5, Parts, PartsNext, KeepOK

LEMMA WrongOK == ASSUME IInv, NEW r \in Request, Wrong(r) PROVE IInv'
<1> DEFINE p == req[r]
           x == [count |-> p.seen + 1, life |-> Window]
<1>1. /\ p.kind \in Counter /\ p.seen # Unread
      /\ entry' = [entry EXCEPT ![p.kind][p.user] = x]
      /\ Answer(r, {})
      /\ UNCHANGED <<active, session>>
  BY DEF Wrong
<1>2. /\ p.user \in User /\ p.seen \in Nat
      /\ p.seen + 1 =< IF p.kind = "pin" THEN PinMax ELSE MaxCount
  BY <1>1, Parts DEF ReqOK, ReadBelowLimit, LockedBySomebody, Counter
<1>3. x \in Entry /\ x.count # 0 /\ x.life # 0
  BY <1>2 DEF Entry
<1>4. x.count =< IF p.kind = "pin" THEN PinMax ELSE MaxCount
  BY <1>2
<1> HIDE DEF x
<1>5. EntriesOK'
  BY <1>1, <1>2, <1>3, <1>4, Parts DEF EntriesOK
<1>6. ReqOK'
  BY <1>1, Parts, AnswerOK
<1> QED
  BY <1>1, <1>5, <1>6, Parts, PartsNext, KeepOK

\* A right password or PIN, and time, delete a cache entry.
LEMMA DeleteOK ==
  ASSUME EntriesOK, NEW c \in Counter, NEW u \in User, entry' = [entry EXCEPT ![c][u] = NoEntry]
  PROVE  EntriesOK'
<1>1. NoEntry \in Entry /\ NoEntry.count = 0 /\ NoEntry.life = 0
  BY DEF NoEntry, Entry
<1> QED
  BY <1>1 DEF EntriesOK

LEMMA RightOK == ASSUME IInv, NEW r \in Request, Right(r) PROVE IInv'
<1> DEFINE p == req[r]
<1>1. /\ p.kind \in Counter
      /\ entry' = [entry EXCEPT ![p.kind][p.user] = NoEntry]
      /\ UNCHANGED active
  BY DEF Right
<1>2. p \in Req /\ p.user \in User /\ p.had \in Session /\ p.kind \in Kind
  BY <1>1, Busy, Parts DEF ReqOK, ReadBelowLimit, LockedBySomebody, Counter, Kind
<1>3. EntriesOK'
  BY <1>1, <1>2, DeleteOK, Parts
<1>4. SessionsOK' /\ ReqOK'
  <2>1. CASE \E s \in Login(p) : Replace(r, s)
    <3>1. \A s \in Login(p) : s \in Session
      BY <1>2, ClearedOK DEF Login
    <3> QED
      BY <2>1, <3>1, ReplaceOK, Parts
  <2>2. CASE Answer(r, {}) /\ UNCHANGED session
    BY <2>2, AnswerOK, KeepOK, Parts
  <2>3. CASE req' = [req EXCEPT ![r].kind = "edit"] /\ UNCHANGED session
    <3>1. /\ req'[r] \in Req /\ req'[r].kind = "edit"
          /\ \A q \in Request \ {r} : req'[q] = req[q]
          /\ req' \in [Request -> {Idle} \cup Req]
      BY <1>2, <2>3, Parts DEF ReqOK, Req, Kind
    <3>2. ReqOK'
      BY <3>1, Parts DEF ReqOK, ReadBelowLimit, LockedBySomebody
    <3> QED
      BY <2>3, <3>2, KeepOK, Parts
  <2> QED
    BY <2>1, <2>2, <2>3 DEF Right
<1> QED
  BY <1>1, <1>3, <1>4, Parts, PartsNext

LEMMA TickOK ==
  ASSUME IInv, NEW c \in Counter, NEW u \in User, Tick(c, u)
  PROVE  IInv'
<1> DEFINE x == entry[c][u]
<1>1. x \in Entry /\ x.life > 0 /\ UNCHANGED <<active, session, req>>
  BY Parts DEF Tick, EntriesOK
<1>2. CASE x.life = 1
  <2>1. entry' = [entry EXCEPT ![c][u] = NoEntry]
    BY <1>2 DEF Tick
  <2> QED
    BY <1>1, <2>1, DeleteOK, Parts, PartsNext, KeepOK
<1>3. CASE x.life # 1
  <2> DEFINE y == [x EXCEPT !.life = @ - 1]
  <2>1. entry' = [entry EXCEPT ![c][u] = y]
    <3>1. entry' = [entry EXCEPT ![c][u] = IF x.life = 1 THEN NoEntry ELSE y]
      BY DEF Tick
    <3> QED
      BY <1>3, <3>1
  <2>2. y \in Entry /\ y.life # 0 /\ y.count = x.count /\ x.count # 0
    BY <1>1, <1>3, Parts DEF Entry, EntriesOK
  <2> HIDE DEF y
  <2>3. EntriesOK'
    BY <2>1, <2>2, Parts DEF EntriesOK
  <2> QED
    BY <1>1, <2>3, Parts, PartsNext, KeepOK
<1> QED
  BY <1>2, <1>3

\* The answers of the lock screens, of verify_pin_view and of the pages that write
\* the session.
LEMMA ScreensOK ==
  ASSUME IInv, NEW r \in Request,
         Lock(r) \/ Unlock(r) \/ Verify(r) \/ WrongPin(r) \/ Edit(r) \/ Logout(r)
  PROVE  IInv'
<1> DEFINE had == req[r].had
<1>1. UNCHANGED <<active, entry>> /\ SessionsOK /\ ReqOK
  BY Parts DEF Lock, Unlock, Verify, WrongPin, Edit, Logout
<1>2. req[r].kind \in Kind
  BY DEF Lock, Unlock, Verify, WrongPin, Edit, Logout, Kind
<1>3. had \in Session
  BY <1>1, <1>2, Busy
<1>4. ASSUME Lock(r) PROVE SessionsOK' /\ ReqOK'
  <2> DEFINE s == [had EXCEPT !.locked = TRUE]
  <2>1. Save(r, s) /\ had.user # None
    BY <1>1, <1>4 DEF Lock, ReqOK, LockedBySomebody
  <2>2. s \in Session
    BY <1>3, <2>1 DEF Session
  <2> HIDE DEF s
  <2> QED
    BY <1>1, <2>1, <2>2, SaveOK
<1>5. ASSUME Unlock(r) PROVE SessionsOK' /\ ReqOK'
  <2> DEFINE s == Cleared(had.user)
  <2>1. SaveChange(r, s)
    BY <1>5 DEF Unlock
  <2>2. s \in Session
    BY <1>3, ClearedOK DEF Session
  <2> HIDE DEF s
  <2> QED
    BY <1>1, <2>1, <2>2, SaveChangeOK
<1>6. ASSUME Verify(r) PROVE SessionsOK' /\ ReqOK'
  <2> DEFINE s == [had EXCEPT !.tries = 0]
  <2>1. SaveChange(r, s)
    BY <1>6 DEF Verify
  <2>2. s \in Session
    BY <1>3 DEF Session
  <2> HIDE DEF s
  <2> QED
    BY <1>1, <2>1, <2>2, SaveChangeOK
<1>7. ASSUME WrongPin(r) PROVE SessionsOK' /\ ReqOK'
  <2> DEFINE s == [had EXCEPT !.tries = @ + 1]
  <2>1. CASE had.tries + 1 >= ScreenMax
    <3>1. Replace(r, Anonymous)
      BY <1>7, <2>1 DEF WrongPin
    <3> QED
      BY <1>1, <3>1, AnonymousOK, ReplaceOK
  <2>2. CASE ~(had.tries + 1 >= ScreenMax)
    <3>1. Save(r, s)
      BY <1>7, <2>2 DEF WrongPin
    <3>2. s \in Session
      BY <1>3, <2>2 DEF Session
    <3> HIDE DEF s
    <3> QED
      BY <1>1, <3>1, <3>2, SaveOK
  <2> QED
    BY <2>1, <2>2
<1>8. ASSUME Edit(r) PROVE SessionsOK' /\ ReqOK'
  BY <1>1, <1>3, <1>8, SaveOK DEF Edit
<1>9. ASSUME Logout(r) PROVE SessionsOK' /\ ReqOK'
  BY <1>1, <1>9, AnonymousOK, ReplaceOK DEF Logout
<1> QED
  BY <1>1, <1>4, <1>5, <1>6, <1>7, <1>8, <1>9, Parts, PartsNext, KeepOK

LEMMA OwnPasswordOK == ASSUME IInv, NEW r \in Request, OwnPassword(r) PROVE IInv'
<1>1. req[r].kind \in Kind /\ UNCHANGED <<active, entry>> /\ Answer(r, Of(req[r].user))
  BY DEF OwnPassword, Kind
<1>2. req[r].had \in Session
  BY <1>1, Busy, Parts
<1>3. SessionsOK'
  BY <1>2, AnonymousOK, Parts DEF OwnPassword, SessionsOK
<1>4. ReqOK'
  BY <1>1, AnswerOK, Parts
<1> QED
  BY <1>1, <1>3, <1>4, Parts, PartsNext, KeepOK

LEMMA NewPasswordOK == ASSUME IInv, NEW u \in User, NewPassword(u) PROVE IInv'
<1>1. SessionsOK'
  BY AnonymousOK, Parts DEF NewPassword, SessionsOK
<1>2. ASSUME NEW q \in Request
      PROVE  /\ req'[q] \in {Idle} \cup Req
             /\ req'[q].kind \in {"pin", "login", "lock"} =>
                  /\ req'[q].kind = req[q].kind /\ req'[q].user = req[q].user
                  /\ req'[q].seen = req[q].seen /\ req'[q].had = req[q].had
  <2>1. CASE q \in Of(u)
    <3> DEFINE p == [req[q] EXCEPT !.live = FALSE]
    <3>1. req'[q] = p /\ req[q] \in Req
      BY <2>1, Parts DEF NewPassword, Of, ReqOK
    <3>2. /\ p \in Req /\ p.kind = req[q].kind /\ p.user = req[q].user
          /\ p.seen = req[q].seen /\ p.had = req[q].had
      BY <3>1 DEF Req
    <3> QED
      BY <3>1, <3>2
  <2>2. CASE q \notin Of(u)
    BY <2>2, Parts DEF NewPassword, ReqOK
  <2> QED
    BY <2>1, <2>2
<1>3. req' \in [Request -> {Idle} \cup Req]
  BY <1>2 DEF NewPassword
<1>4. ReqOK'
  BY <1>2, <1>3, Parts DEF ReqOK, ReadBelowLimit, LockedBySomebody
<1> QED
  BY <1>1, <1>4, KeepOK, Parts, PartsNext DEF NewPassword

LEMMA StepIInv == IInv /\ [Next]_vars => IInv'
<1> SUFFICES ASSUME IInv, [Next]_vars PROVE IInv'
  OBVIOUS
<1>1. CASE UNCHANGED vars
  BY <1>1, Parts, PartsNext, KeepOK DEF vars
<1>2. ASSUME NEW r \in Request, Driver(r) PROVE IInv'
  BY <1>2, AnswerOK, KeepOK, Parts, PartsNext DEF Driver
<1>3. ASSUME NEW u \in User, Deactivate(u) \/ Activate(u) PROVE IInv'
  BY <1>3, KeepOK, Parts, PartsNext DEF Deactivate, Activate
<1> QED
  BY <1>1, <1>2, <1>3, BeginOK, CheckOK, RecountOK, WrongOK, RightOK, ScreensOK, OwnPasswordOK,
     NewPasswordOK, TickOK DEF Next

\* The limits hold: no session goes on with a third wrong PIN, and the cache counts
\* no more wrong PINs than the limit, for any number of browsers and requests.
THEOREM LimitsHold == Spec => []SignInTypeOK
<1>1. IInv => SignInTypeOK
  BY DEF IInv
<1> QED
  BY <1>1, InitIInv, StepIInv, PTL DEF Spec

\* What a request that had loaded the session as it is, locked, writes back is
\* locked, but for the right PIN; r's browser is b, whose session r unlocks.
LEMMA SavedLocked ==
  ASSUME IInv, NEW r \in Request, req[r].kind \in Kind, NEW s, NEW b \in Browser,
         session[b].locked, ~session'[b].locked,
         SaveChange(r, s) \/ Save(r, s), s.locked <=> req[r].had.locked
  PROVE  req[r].by = b /\ req'[r] = Idle /\ req[r] # Idle /\ ~Saw(r)
<1>1. /\ session' = [session EXCEPT ![req[r].by] = s]
      /\ req'[r] = Idle
  BY DEF SaveChange, Save, Answer
<1>2. req[r].by = b /\ ~s.locked
  BY <1>1, Parts DEF SessionsOK
<1> QED
  BY <1>1, <1>2, Busy, Parts DEF Saw

\* A locked session stays locked until its PIN is typed, it ends, or a request that
\* had loaded it before writes it back, for any number of browsers and requests.
THEOREM LockedUntilPin == Spec => LockHolds
<1> DEFINE Lost(b) ==
      \/ session'[b].user # session[b].user
      \/ \E r \in Request : /\ req[r] # Idle /\ req[r].by = b /\ req'[r] = Idle
                            /\ Unlock(r) \/ ~Saw(r)
<1>1. IInv /\ [Next]_vars =>
        [\A b \in Browser : session[b].locked /\ ~session'[b].locked => Lost(b)]_vars
  <2> SUFFICES ASSUME IInv, Next, NEW b \in Browser, session[b].locked, ~session'[b].locked
               PROVE  Lost(b)
    OBVIOUS
  <2>1. session \in [Browser -> Session] /\ session[b].user # None
    BY Parts DEF SessionsOK, Session
  <2>2. ASSUME NEW r \in Request, req[r].kind \in Kind, Replace(r, Anonymous) PROVE Lost(b)
    BY <2>1, <2>2, AnonymousOK DEF Replace
  <2>3. ASSUME NEW r \in Request, Right(r) PROVE Lost(b)
    <3> DEFINE p == req[r]
    <3>1. PICK s \in Login(p) : Replace(r, s)
      BY <2>3 DEF Right
    <3>2. p.kind \in Kind /\ p.user \in User
      BY <2>3, Parts DEF Right, Kind, Counter, ReqOK, ReadBelowLimit
    <3>3. p.by = b /\ session'[b] = s /\ req'[r] = Idle /\ req[r] # Idle
      BY <2>1, <3>1, <3>2, Busy, Parts DEF Replace, Answer
    <3>4. CASE s = p.had
      BY <3>3, <3>4 DEF Saw
    <3>5. CASE s = Cleared(p.user) /\ ~(p.had.user = p.user /\ p.live)
      <4>1. session'[b].user = p.user
        BY <3>2, <3>3, <3>5, ClearedOK
      <4> QED
        BY <3>3, <3>5, <4>1 DEF Saw
    <3> QED
      BY <3>1, <3>4, <3>5 DEF Login
  <2>4. ASSUME NEW r \in Request, Lock(r) PROVE FALSE
    <3> DEFINE s == [req[r].had EXCEPT !.locked = TRUE]
    <3>1. Save(r, s) /\ req[r].kind \in Kind
      BY <2>4 DEF Lock, Kind
    <3>2. s.locked
      BY <3>1, Busy, Parts DEF Session
    <3> HIDE DEF s
    <3> QED
      BY <2>1, <3>1, <3>2 DEF Save
  <2>5. ASSUME NEW r \in Request, Unlock(r) PROVE Lost(b)
    <3> DEFINE s == Cleared(req[r].had.user)
    <3>1. SaveChange(r, s) /\ req[r].kind \in Kind
      BY <2>5 DEF Unlock, Kind
    <3> HIDE DEF s
    <3>2. session' # session
      OBVIOUS
    <3>3. req[r].by = b /\ req'[r] = Idle /\ req[r] # Idle
      BY <2>1, <3>1, <3>2, Busy, Parts DEF SaveChange, Save, Answer
    <3> QED
      BY <2>5, <3>3
  <2>6. ASSUME NEW r \in Request, Verify(r) PROVE Lost(b)
    <3> DEFINE s == [req[r].had EXCEPT !.tries = 0]
    <3>1. SaveChange(r, s) /\ req[r].kind \in Kind
      BY <2>6 DEF Verify, Kind
    <3>2. s.locked <=> req[r].had.locked
      BY <3>1, Busy, Parts DEF Session
    <3> HIDE DEF s
    <3> QED
      BY <3>1, <3>2, SavedLocked
  <2>7. ASSUME NEW r \in Request, WrongPin(r) PROVE Lost(b)
    <3> DEFINE s == [req[r].had EXCEPT !.tries = @ + 1]
    <3>1. req[r].kind \in Kind /\ (Replace(r, Anonymous) \/ Save(r, s))
      BY <2>7 DEF WrongPin, Kind
    <3>2. s.locked <=> req[r].had.locked
      BY <3>1, Busy, Parts DEF Session
    <3> HIDE DEF s
    <3> QED
      BY <2>2, <3>1, <3>2, SavedLocked
  <2>8. ASSUME NEW r \in Request, Edit(r) PROVE Lost(b)
    BY <2>8, SavedLocked DEF Edit, Kind
  <2>9. ASSUME NEW r \in Request, Logout(r) PROVE Lost(b)
    BY <2>2, <2>9 DEF Logout, Kind
  <2>10. ASSUME NEW r \in Request, OwnPassword(r) PROVE Lost(b)
    <3> DEFINE p == req[r]
    <3>1. p.kind \in Kind /\ req'[r] = Idle
      BY <2>10 DEF OwnPassword, Kind, Answer
    <3>2. CASE p.by = b
      BY <2>10, <3>1, <3>2, Busy, Parts DEF OwnPassword, Saw
    <3>3. CASE p.by # b
      BY <2>1, <2>10, <3>3, AnonymousOK DEF OwnPassword
    <3> QED
      BY <3>2, <3>3
  <2>11. ASSUME NEW u \in User, NewPassword(u) PROVE Lost(b)
    BY <2>1, <2>11, AnonymousOK DEF NewPassword
  <2>12. UNCHANGED session => FALSE
    OBVIOUS
  <2> QED
    BY <2>3, <2>4, <2>5, <2>6, <2>7, <2>8, <2>9, <2>10, <2>11, <2>12
       DEF Next, Begin, Check, Recount, Wrong, Driver, Deactivate, Activate, Tick
<1> QED
  BY <1>1, InitIInv, StepIInv, PTL DEF Spec, LockHolds
=============================================================================
