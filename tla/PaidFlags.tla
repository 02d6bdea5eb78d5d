------------------------------ MODULE PaidFlags ------------------------------
(***************************************************************************)
(* The tithes and offering flags of finalized remittances: the history     *)
(* page of each user, update_paid_status_view of                           *)
(* src/server/apps/remittance/views.py, and update_remittance_paid_status  *)
(* of services.py, which reads the row without a lock, checks the flags it *)
(* read, and saves both.                                                   *)
(***************************************************************************)
EXTENDS FiniteSets

CONSTANTS
  User,        \* signed-in users, each with one history page open
  Remittance   \* finalized remittances, the rows of that page

Flag == {"tithes", "offering"}

VARIABLES
  paid,   \* paid[r]: the flags that are set in the database
  page,   \* page[u][r]: the flags the page of u shows as paid
  req     \* req[u]: the request of u in progress

flagVars == <<paid, page, req>>

FlagsInit ==
  /\ paid = [r \in Remittance |-> {}]
  /\ page = [u \in User |-> [r \in Remittance |-> {}]]
  /\ req \in [User -> [pc : {"idle"}, row : Remittance, flags : {{}}]]

\* the history page is loaded
Render(u) ==
  /\ req[u].pc = "idle"
  /\ page' = [page EXCEPT ![u] = paid]
  /\ UNCHANGED <<paid, req>>

\* Confirm, shown once a checkbox was changed: the flags shown as paid are sent
\* by hidden inputs, their checkboxes are disabled.
Submit(u, r, F) ==
  /\ req[u].pc = "idle"
  /\ page[u][r] \subseteq F /\ F # page[u][r]
  /\ req' = [req EXCEPT ![u] = [pc |-> "sent", row |-> r, flags |-> F]]
  /\ UNCHANGED <<paid, page>>

\* The row is read and the guard passed ...
Read(u) ==
  /\ req[u].pc = "sent"
  /\ paid[req[u].row] \subseteq req[u].flags
  /\ req' = [req EXCEPT ![u].pc = "read"]
  /\ UNCHANGED <<paid, page>>

\* ... or a flag that is set would be reverted: ValidationError, the page rolls
\* back to what it showed.
Refuse(u) ==
  /\ req[u].pc = "sent"
  /\ ~(paid[req[u].row] \subseteq req[u].flags)
  /\ req' = [req EXCEPT ![u].pc = "idle"]
  /\ UNCHANGED <<paid, page>>

\* save(), commit, and the row rendered again
Save(u) ==
  /\ req[u].pc = "read"
  /\ paid' = [paid EXCEPT ![req[u].row] = req[u].flags]
  /\ page' = [page EXCEPT ![u][req[u].row] = req[u].flags]
  /\ req' = [req EXCEPT ![u].pc = "idle"]

\* a database error or a killed worker: the answer is an error
Fail(u) ==
  /\ req[u].pc # "idle"
  /\ req' = [req EXCEPT ![u].pc = "idle"]
  /\ UNCHANGED <<paid, page>>

FlagsNext ==
  \E u \in User :
    \/ Render(u)
    \/ \E r \in Remittance, F \in SUBSET Flag : Submit(u, r, F)
    \/ Read(u) \/ Refuse(u) \/ Save(u) \/ Fail(u)

FlagsSpec == FlagsInit /\ [][FlagsNext]_flagVars

-----------------------------------------------------------------------------
\* "Flags are immutable once True" (services.py): a flag that is set stays set,
\* although pages are stale and each request writes both flags.
PaidStaysPaid ==
  [][\A r \in Remittance : paid[r] \subseteq paid'[r]]_flagVars
=============================================================================
