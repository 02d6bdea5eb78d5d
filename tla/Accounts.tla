------------------------------ MODULE Accounts ------------------------------
(***************************************************************************)
(* User accounts: src/server/apps/users/services.py and views.py, the      *)
(* self-service password of settings/services.py and the directory page    *)
(* of employees/selectors.py.  No service locks a row: a request reads the *)
(* account, checks what it read, and writes later; only the fields named   *)
(* in save(update_fields=...), or all of them for the edit form.           *)
(*                                                                         *)
(* A day here is a term of 90 days: a credential of an earlier day has     *)
(* expired.  A wrong PIN, or a deactivation code mistyped, is Fail; the     *)
(* counters of wrong PINs are in SignIn.                                   *)
(***************************************************************************)
EXTENDS Integers, FiniteSets

CONSTANTS
  User,     \* user ids
  Owner,    \* the administrator the company starts with
  Request,  \* requests in progress
  LastDay   \* bound: terms that pass

ASSUME AccountsAssumption == Owner \in User /\ IsFiniteSet(User) /\ LastDay \in Nat

VARIABLES
  row,    \* row[u]: the account, or NoRow
  today,
  req     \* req[k]: a request and the account as it was read, or Idle

vars == <<row, today, req>>

Role == {"Admin", "Staff", "Driver"}
Account == [active : BOOLEAN, deactivated : BOOLEAN, role : Role,
            password : {"temporary", "own"}, passwordDay : 0..LastDay,
            force : BOOLEAN, pin : BOOLEAN, pinDay : 0..LastDay]
NoRow == [role |-> "none"]
Idle == [op |-> "idle"]
Op == {"edit", "reset", "forced", "settings", "onboard", "deactivate", "activate"}
Job == [op : Op, who : User, read : Account \cup {NoRow}]

Exists(u) == row[u] # NoRow
Accounts == {u \in User : Exists(u)}

Init ==
  /\ row = [u \in User |->
       IF u = Owner
       THEN [active |-> TRUE, deactivated |-> FALSE, role |-> "Admin", password |-> "own",
             passwordDay |-> 0, force |-> FALSE, pin |-> TRUE, pinDay |-> 0]
       ELSE NoRow]
  /\ today = 0
  /\ req = [k \in Request |-> Idle]

-----------------------------------------------------------------------------
\* who gets past login_required and user_is_back_office, and user_is_admin
Works(u) == Exists(u) /\ row[u].active /\ row[u].role \in {"Admin", "Staff"}
Manages(u) == Works(u) /\ row[u].role = "Admin"

\* an administrator who types the right PIN (validate_user_pin)
Confirmed(by) == Manages(by) /\ row[by].pin

\* _needs_onboarding
NeedsOnboarding(r) ==
  ~r.pin \/ r.force \/ r.passwordDay < today \/ r.pinDay < today

\* Mutant: a temporary password does not flag the account.
ResetUnflagged(r) == [r EXCEPT !.password = "temporary", !.passwordDay = today]
\* Mutant: the expiry is counted from the end of the term.
ResetLate(r) == [r EXCEPT !.password = "temporary", !.passwordDay = today + 1, !.force = TRUE]
\* set_temporary_password
Reset(r) == [r EXCEPT !.password = "temporary", !.passwordDay = today, !.force = TRUE]

\* create_user_account; nobody is told the password it sets, which does for one's
\* own until it is replaced
NewAccount(r) ==
  [active |-> TRUE, deactivated |-> FALSE, role |-> r, password |-> "own",
   passwordDay |-> today, force |-> FALSE, pin |-> FALSE, pinDay |-> today]

\* create_user_account and set_temporary_password, one transaction
AddUser(by, u, r) ==
  /\ Confirmed(by) /\ ~Exists(u)
  /\ row' = [row EXCEPT ![u] = Reset(NewAccount(r))]
  /\ UNCHANGED <<today, req>>

-----------------------------------------------------------------------------
\* Whether a view serves the request, by the account it reads and who sends it.
MayEdit(by, u) == Confirmed(by)
MayReset(by, u) == Confirmed(by)
MayChange(by, u) == u = by
MayOnboard(by, u) == u = by /\ NeedsOnboarding(row[u])
\* the code to type is issued by the edit form
MayDeactivate(by, u) == Confirmed(by) /\ ~row[u].deactivated /\ u # by
MayActivate(by, u) == Confirmed(by) /\ row[u].deactivated

MayBegin(op, by, u) ==
  CASE op = "edit" -> MayEdit(by, u)
    [] op = "reset" -> MayReset(by, u)
    [] op \in {"forced", "settings"} -> MayChange(by, u)
    [] op = "onboard" -> MayOnboard(by, u)
    [] op = "deactivate" -> MayDeactivate(by, u)
    [] op = "activate" -> MayActivate(by, u)

\* only the edit form writes back what was read
Begin(k, op, by, u) ==
  /\ req[k] = Idle /\ Works(by) /\ Exists(u) /\ MayBegin(op, by, u)
  /\ req' = [req EXCEPT ![k] =
       [op |-> op, who |-> u, read |-> IF op = "edit" THEN row[u] ELSE NoRow]]
  /\ UNCHANGED <<row, today>>

\* a wrong PIN, password, code or form
Fail(k) == req[k] # Idle /\ req' = [req EXCEPT ![k] = Idle] /\ UNCHANGED <<row, today>>

\* EditUserForm.save(): every field, as read
\* Mutant: the form has a checkbox for is_active, which is not submitted.
EditedUnchecked(read, r) == [read EXCEPT !.role = r, !.active = FALSE]
Edited(read, r) == [read EXCEPT !.role = r]
\* change_user_password
Changed(now) == [now EXCEPT !.password = "own", !.passwordDay = today, !.force = FALSE]
\* change_password of the settings page: the fields saved leave out the expiry
ChangedInSettings(now) == [now EXCEPT !.password = "own", !.force = FALSE]
\* onboard_user
Onboarded(now) == [Changed(now) EXCEPT !.pin = TRUE, !.pinDay = today]
\* deactivate_user
Deactivated(now) == [now EXCEPT !.deactivated = TRUE, !.active = FALSE]
\* Mutant: is_active is not among the fields saved.
ActivatedPartly(now) == [now EXCEPT !.deactivated = FALSE]
\* activate_user
Activated(now) == [now EXCEPT !.deactivated = FALSE, !.active = TRUE]

\* The account after a request that read q.read and finds it as now.
Written(q, now, r) ==
  CASE q.op = "edit" -> Edited(q.read, r)
    [] q.op = "reset" -> Reset(now)
    [] q.op = "forced" -> Changed(now)
    [] q.op = "settings" -> ChangedInSettings(now)
    [] q.op = "onboard" -> Onboarded(now)
    [] q.op = "deactivate" -> Deactivated(now)
    [] q.op = "activate" -> Activated(now)

Finish(k, r) ==
  LET q == req[k] IN
  /\ q # Idle
  /\ row' = [row EXCEPT ![q.who] = Written(q, @, r)]
  /\ req' = [req EXCEPT ![k] = Idle]
  /\ UNCHANGED today

TermPasses == today < LastDay /\ today' = today + 1 /\ UNCHANGED <<row, req>>

Next ==
  \/ \E by, u \in User, r \in Role : AddUser(by, u, r)
  \/ \E k \in Request, op \in Op, by, u \in User : Begin(k, op, by, u)
  \/ \E k \in Request, r \in Role : Finish(k, r)
  \/ \E k \in Request : Fail(k)
  \/ TermPasses

Spec == Init /\ [][Next]_vars

-----------------------------------------------------------------------------
(* The directory of employees and what other pages offer. *)

\* Mutant: an account without a PIN is onboarding, deactivated or not.
StatusByPin(u) ==
  IF ~row[u].pin THEN "onboarding"
  ELSE IF row[u].active /\ ~row[u].deactivated THEN "active" ELSE "inactive"
\* _user_status
Status(u) ==
  IF ~row[u].active \/ row[u].deactivated THEN "inactive"
  ELSE IF row[u].pin THEN "active" ELSE "onboarding"

\* get_employee_directory_context
Listed(filter) ==
  CASE filter = "all" -> Accounts
    [] filter \in Role -> {u \in Accounts : row[u].role = filter}
    [] filter = "inactive" -> Accounts \ {u \in Accounts : row[u].active /\ ~row[u].deactivated}
\* _directory_filters
FilterCount(filter) ==
  Cardinality(CASE filter = "all" -> Accounts
                [] filter \in Role -> {u \in Accounts : row[u].role = filter}
                [] filter = "inactive" ->
                     {u \in Accounts : ~row[u].active \/ row[u].deactivated})
\* _directory_stats: active users, active riders, active staffs
ActiveUsers == {u \in Accounts : row[u].active /\ ~row[u].deactivated}
\* remittance/services.py, products/services.py and customers/services.py: the
\* riders and staff a form accepts
Assignable(r) == {u \in Accounts : row[u].role = r /\ row[u].active /\ ~row[u].deactivated}

-----------------------------------------------------------------------------
TypeOK ==
  /\ row \in [User -> Account \cup {NoRow}]
  /\ today \in 0..LastDay
  /\ req \in [Request -> Job \cup {Idle}]

\* An account is inactive exactly when it was deactivated, whichever requests
\* wrote it and in whatever order, so that the sign-in (is_active) and the lists
\* (deactivated_at) agree (deactivate_user, activate_user, the edit form).
StatusAgrees == \A u \in Accounts : row[u].active = ~row[u].deactivated

\* A temporary password must be changed at the next sign-in, however requests
\* overlap: no edit of the account, activation or other reset takes the flag
\* away from it (set_temporary_password, login_view).
TemporaryIsForced == \A u \in Accounts : row[u].password = "temporary" => row[u].force

\* What the directory counts on its cards and filters is what its rows say, and
\* no form offers a rider or staff member the directory shows as inactive
\* (_directory_stats, _directory_filters, _user_status).
DirectoryAgrees ==
  /\ \A f \in Role \cup {"all", "inactive"} : FilterCount(f) = Cardinality(Listed(f))
  /\ Listed("inactive") = {u \in Accounts : Status(u) = "inactive"}
  /\ ActiveUsers = {u \in Accounts : Status(u) \in {"active", "onboarding"}}
  /\ FilterCount("all") = FilterCount("inactive") + Cardinality(ActiveUsers)
  /\ \A r \in Role : Assignable(r) = Listed(r) \ Listed("inactive")

\* An account becomes inactive by a deactivation, or by an edit that read the account while it was
\* inactive, and undoes an activation with its other fields (deactivate_user_view).
DeactivatedOnPurpose ==
  [][\A u \in Accounts : row[u].active /\ ~row'[u].active =>
       \E k \in Request :
         /\ req[k] # Idle /\ req'[k] = Idle /\ req[k].who = u
         /\ \/ req[k].op = "deactivate"
            \/ req[k].op = "edit" /\ ~req[k].read.active]_vars
=============================================================================
