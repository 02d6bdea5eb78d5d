--------------------------- MODULE AccountsProofs ---------------------------
(***************************************************************************)
(* Whichever requests on accounts overlap, and however many: the edit form *)
(* writes back a whole account, but one that was sound when it was read,   *)
(* and every other service writes all the fields that belong together.     *)
(***************************************************************************)
EXTENDS Accounts, FiniteSetTheorems, TLAPS

USE AccountsAssumption

\* an account in which the flags agree and a temporary password is forced
Sound(r) == /\ r \in Account
            /\ r.active = ~r.deactivated
            /\ r.password = "temporary" => r.force

\* What an edit has read was sound.
ReadsSound ==
  \A k \in Request : req[k] # Idle =>
    /\ Exists(req[k].who)
    /\ req[k].op = "edit" => Sound(req[k].read)

IInv == TypeOK /\ (\A u \in Accounts : Sound(row[u])) /\ ReadsSound

LEMMA NoRowApart == NoRow \notin Account
<1>1. NoRow.role \notin Role
  BY DEF NoRow, Role
<1> QED
  BY <1>1 DEF Account

LEMMA IdleApart == Idle \notin Job
<1>1. Idle.op \notin Op
  BY DEF Idle, Op
<1> QED
  BY <1>1 DEF Job

\* The services, as functions of the account they find, keep it sound.
LEMMA ServicesSound ==
  ASSUME NEW now, Sound(now), today \in 0..LastDay
  PROVE  /\ Sound(Reset(now)) /\ Sound(Changed(now)) /\ Sound(ChangedInSettings(now))
         /\ Sound(Onboarded(now)) /\ Sound(Deactivated(now)) /\ Sound(Activated(now))
         /\ \A r \in Role : Sound(Edited(now, r))
<1>1. Sound(Reset(now))
  BY DEF Reset, Sound, Account
<1>2. Sound(Changed(now))
  BY DEF Changed, Sound, Account
<1>3. Sound(ChangedInSettings(now))
  BY DEF ChangedInSettings, Sound, Account
<1>4. Sound(Onboarded(now))
  BY DEF Onboarded, Changed, Sound, Account
<1>5. Sound(Deactivated(now))
  BY DEF Deactivated, Sound, Account
<1>6. Sound(Activated(now))
  BY DEF Activated, Sound, Account
<1>7. ASSUME NEW r \in Role PROVE Sound(Edited(now, r))
  BY <1>7 DEF Edited, Sound, Account
<1> QED
  BY <1>1, <1>2, <1>3, <1>4, <1>5, <1>6, <1>7

LEMMA NewAccountSound ==
  ASSUME NEW r \in Role, today \in 0..LastDay
  PROVE  Sound(NewAccount(r))
BY DEF NewAccount, Sound, Account, Role

LEMMA WrittenSound ==
  ASSUME NEW q \in Job, NEW now, Sound(now), today \in 0..LastDay, NEW r \in Role,
         q.op = "edit" => Sound(q.read)
  PROVE  Sound(Written(q, now, r))
<1>1. q.op \in Op
  BY DEF Job
<1>2. q.op = "edit" => Sound(Edited(q.read, r))
  BY ServicesSound
<1> QED
  BY <1>1, <1>2, ServicesSound DEF Written, Op

LEMMA InitIInv == Init => IInv
<1> SUFFICES ASSUME Init PROVE IInv
  OBVIOUS
<1>1. Sound(row[Owner])
  <2> DEFINE r0 == [active |-> TRUE, deactivated |-> FALSE, role |-> "Admin", password |-> "own",
                    passwordDay |-> 0, force |-> FALSE, pin |-> TRUE, pinDay |-> 0]
  <2>1. row[Owner] = r0
    BY DEF Init
  <2>2. 0 \in 0..LastDay
    OBVIOUS
  <2>3. Sound(r0)
    BY <2>2 DEF Sound, Account, Role
  <2> QED
    BY <2>1, <2>3
<1>2. \A u \in User : u # Owner => row[u] = NoRow
  BY DEF Init
<1>3. TypeOK
  BY <1>1, <1>2 DEF Init, TypeOK, Sound
<1>4. \A u \in Accounts : u = Owner
  BY <1>2 DEF Accounts, Exists
<1>5. ReadsSound
  BY DEF Init, ReadsSound
<1> QED
  BY <1>1, <1>3, <1>4, <1>5 DEF IInv

LEMMA StepIInv == IInv /\ [Next]_vars => IInv'
<1> SUFFICES ASSUME IInv, [Next]_vars PROVE IInv'
  OBVIOUS
<1> USE NoRowApart, IdleApart
<1>1. CASE UNCHANGED vars
  BY <1>1 DEF vars, IInv, TypeOK, Accounts, Exists, ReadsSound, Sound, Account
<1>2. ASSUME NEW by \in User, NEW u \in User, NEW r \in Role, AddUser(by, u, r)
      PROVE  IInv'
  <2>1. Sound(Reset(NewAccount(r)))
    BY NewAccountSound, ServicesSound DEF IInv, TypeOK
  <2>2. /\ row' = [row EXCEPT ![u] = Reset(NewAccount(r))]
        /\ today' = today /\ req' = req
    BY <1>2 DEF AddUser
  <2>3. TypeOK'
    BY <2>1, <2>2 DEF IInv, TypeOK, Sound
  <2>4. (\A v \in Accounts : Sound(row[v]))'
    BY <2>1, <2>2 DEF IInv, TypeOK, Accounts, Exists, Sound, Account
  <2>5. ReadsSound'
    BY <2>1, <2>2 DEF IInv, TypeOK, ReadsSound, Exists, Sound, Account
  <2> QED
    BY <2>3, <2>4, <2>5 DEF IInv
<1>3. ASSUME NEW k \in Request, NEW op \in Op, NEW by \in User, NEW u \in User, Begin(k, op, by, u)
      PROVE  IInv'
  <2> DEFINE q == [op |-> op, who |-> u, read |-> IF op = "edit" THEN row[u] ELSE NoRow]
  <2>1. /\ row' = row /\ today' = today /\ req' = [req EXCEPT ![k] = q]
        /\ Exists(u)
    BY <1>3 DEF Begin
  <2>2. Sound(row[u])
    BY <2>1 DEF IInv, Accounts
  <2>3. q \in Job
    BY <2>2 DEF Job, Sound
  <2>4. TypeOK'
    BY <2>1, <2>3 DEF IInv, TypeOK
  <2>5. (\A v \in Accounts : Sound(row[v]))'
    BY <2>1 DEF IInv, Accounts, Exists, Sound, Account
  <2>6. ReadsSound'
    BY <2>1, <2>2 DEF IInv, TypeOK, ReadsSound, Exists, Sound, Account
  <2> QED
    BY <2>4, <2>5, <2>6 DEF IInv
<1>4. ASSUME NEW k \in Request, NEW r \in Role, Finish(k, r)
      PROVE  IInv'
  <2> DEFINE q == req[k]
             new == Written(q, row[q.who], r)
  <2>1. /\ q # Idle /\ today' = today
        /\ row' = [row EXCEPT ![q.who] = new]
        /\ req' = [req EXCEPT ![k] = Idle]
    BY <1>4 DEF Finish
  <2>2. q \in Job /\ q.who \in User
    BY <2>1 DEF IInv, TypeOK, Job
  <2>3. Sound(row[q.who]) /\ (q.op = "edit" => Sound(q.read))
    BY <2>1, <2>2 DEF IInv, ReadsSound, Accounts
  <2>4. Sound(new)
    BY <2>2, <2>3, WrittenSound DEF IInv, TypeOK
  <2> HIDE DEF new, q
  <2>5. TypeOK'
    BY <2>1, <2>2, <2>4 DEF IInv, TypeOK, Sound
  <2>6. (\A v \in Accounts : Sound(row[v]))'
    BY <2>1, <2>2, <2>4 DEF IInv, TypeOK, Accounts, Exists, Sound, Account
  <2>7. ReadsSound'
    BY <2>1, <2>2, <2>4 DEF IInv, TypeOK, ReadsSound, Exists, Sound, Account
  <2> QED
    BY <2>5, <2>6, <2>7 DEF IInv
<1>5. ASSUME NEW k \in Request, Fail(k) PROVE IInv'
  BY <1>5 DEF Fail, IInv, TypeOK, Accounts, Exists, ReadsSound, Sound, Account
<1>6. CASE TermPasses
  BY <1>6 DEF TermPasses, IInv, TypeOK, Accounts, Exists, ReadsSound, Sound, Account
<1> QED
  BY <1>1, <1>2, <1>3, <1>4, <1>5, <1>6 DEF Next

\* The inductive invariant holds in every reachable state.
THEOREM Inductive == Spec => []IInv
BY InitIInv, StepIInv, PTL DEF Spec

\* Every account and request has its fields, and no date is in the future, for
\* any number of users and overlapping requests.
THEOREM TypeCorrect == Spec => []TypeOK
<1>1. IInv => TypeOK
  BY DEF IInv
<1> QED
  BY <1>1, Inductive, PTL

\* The sign-in and the lists never disagree about who is inactive.
THEOREM StatusAlwaysAgrees == Spec => []StatusAgrees
<1>1. IInv => StatusAgrees
  BY DEF IInv, StatusAgrees, Sound
<1> QED
  BY <1>1, Inductive, PTL

\* No overlap of requests takes the flag away from a temporary password.
THEOREM TemporaryAlwaysForced == Spec => []TemporaryIsForced
<1>1. IInv => TemporaryIsForced
  BY DEF IInv, TemporaryIsForced, Sound
<1> QED
  BY <1>1, Inductive, PTL

\* Nobody becomes inactive but by a deactivation, or by an edit form that was
\* opened while the account was inactive.
THEOREM OnlyOnPurpose == Spec => DeactivatedOnPurpose
<1>1. IInv /\ [Next]_vars =>
        [\A u \in Accounts : row[u].active /\ ~row'[u].active =>
           \E k \in Request :
             /\ req[k] # Idle /\ req'[k] = Idle /\ req[k].who = u
             /\ \/ req[k].op = "deactivate"
                \/ req[k].op = "edit" /\ ~req[k].read.active]_vars
  <2> SUFFICES ASSUME IInv, Next, NEW u \in Accounts, row[u].active, ~row'[u].active
               PROVE  \E k \in Request :
                        /\ req[k] # Idle /\ req'[k] = Idle /\ req[k].who = u
                        /\ \/ req[k].op = "deactivate"
                           \/ req[k].op = "edit" /\ ~req[k].read.active
    OBVIOUS
  <2>1. row'[u] # row[u]
    OBVIOUS
  <2>2. \A by, v \in User, r \in Role : AddUser(by, v, r) => row'[u] = row[u]
    BY DEF AddUser, Accounts, IInv, TypeOK
  <2>3. PICK k \in Request, r \in Role : Finish(k, r)
    BY <2>1, <2>2 DEF Next, Begin, Fail, TermPasses
  <2>4. req[k] # Idle /\ req'[k] = Idle
    BY <2>3 DEF Finish, IInv, TypeOK
  <2>5. req[k] \in Job
    BY <2>4 DEF IInv, TypeOK
  <2>6. req[k].who = u /\ row'[u] = Written(req[k], row[u], r)
    BY <2>1, <2>3, <2>5 DEF Finish, IInv, TypeOK, Accounts, Job
  <2>7. Sound(row[u]) /\ (req[k].op = "edit" => Sound(req[k].read))
    BY <2>4 DEF IInv, ReadsSound
  <2>8. req[k].op \in Op
    BY <2>5 DEF Job
  <2>9. CASE req[k].op = "edit"
    <3>1. row'[u] = Edited(req[k].read, r)
      BY <2>6, <2>9 DEF Written
    <3>2. row'[u].active = req[k].read.active
      BY <3>1, <2>7, <2>9 DEF Edited, Sound, Account
    <3> QED
      BY <3>2, <2>4, <2>6, <2>9
  <2>10. CASE req[k].op = "deactivate"
    BY <2>4, <2>6, <2>10
  <2>11. CASE req[k].op \notin {"edit", "deactivate"}
    <3>1. row'[u] \in {Reset(row[u]), Changed(row[u]), ChangedInSettings(row[u]),
                       Onboarded(row[u]), Activated(row[u])}
      BY <2>6, <2>8, <2>11 DEF Written, Op
    <3>2. row'[u].active
      BY <3>1, <2>7 DEF Reset, Changed, ChangedInSettings, Onboarded, Activated, Sound, Account
    <3> QED
      BY <3>2
  <2> QED
    BY <2>9, <2>10, <2>11
<1> QED
  BY <1>1, Inductive, PTL DEF Spec, DeactivatedOnPurpose
\* The cards, filters, rows and forms agree on who is active, for any number of
\* users: _user_status, the stats, the filters and the forms each write the
\* condition anew, and the ways they write it are equivalent.
THEOREM DirectoryAlwaysAgrees == Spec => []DirectoryAgrees
<1>1. DirectoryAgrees
  <2> DEFINE off == {u \in Accounts : ~row[u].active \/ row[u].deactivated}
  <2>1. Accounts \ ActiveUsers = off
    BY DEF ActiveUsers
  <2>2. /\ Listed("all") = Accounts /\ Listed("inactive") = off
        /\ \A r \in Role : Listed(r) = {u \in Accounts : row[u].role = r}
    BY <2>1 DEF Listed, Role, ActiveUsers
  <2>3. /\ FilterCount("all") = Cardinality(Accounts)
        /\ FilterCount("inactive") = Cardinality(off)
        /\ \A r \in Role : FilterCount(r) = Cardinality({u \in Accounts : row[u].role = r})
    BY DEF FilterCount, Role
  <2>4. \A f \in Role \cup {"all", "inactive"} : FilterCount(f) = Cardinality(Listed(f))
    BY <2>2, <2>3
  <2>5. /\ \A u \in Accounts : Status(u) = "inactive" <=> u \in off
        /\ \A u \in Accounts : Status(u) \in {"active", "onboarding"} <=> u \in ActiveUsers
    BY DEF Status, ActiveUsers
  <2>6. Listed("inactive") = {u \in Accounts : Status(u) = "inactive"}
    BY <2>2, <2>5
  <2>7. ActiveUsers = {u \in Accounts : Status(u) \in {"active", "onboarding"}}
    BY <2>5 DEF ActiveUsers
  <2>8. FilterCount("all") = FilterCount("inactive") + Cardinality(ActiveUsers)
    <3>1. IsFiniteSet(Accounts)
      BY FS_Subset DEF Accounts
    <3>2. /\ Cardinality(Accounts \ ActiveUsers) = Cardinality(Accounts) - Cardinality(ActiveUsers)
          /\ Cardinality(Accounts) \in Nat /\ Cardinality(ActiveUsers) \in Nat
      <4>1. ActiveUsers \subseteq Accounts
        BY DEF ActiveUsers
      <4>2. Accounts \cap ActiveUsers = ActiveUsers
        BY <4>1
      <4> QED
        BY <3>1, <4>1, <4>2, FS_Difference, FS_Subset, FS_CardinalityType
    <3>3. /\ FilterCount("all") = Cardinality(Accounts)
          /\ FilterCount("inactive") = Cardinality(Accounts \ ActiveUsers)
      BY <2>1, <2>3
    <3> QED
      BY <3>2, <3>3
  <2>9. ASSUME NEW r \in Role PROVE Assignable(r) = Listed(r) \ Listed("inactive")
    BY <2>2 DEF Assignable
  <2> QED
    BY <2>4, <2>6, <2>7, <2>8, <2>9 DEF DirectoryAgrees
<1> QED
  BY <1>1, PTL
=============================================================================
