------------------------------- MODULE DayBook -------------------------------
(***************************************************************************)
(* What the remittance service promises the station: each business date    *)
(* has no remittance, a draft, or a finalized remittance that stays; a     *)
(* customer's payment is claimed by the remittance of at most one date,    *)
(* and a finalized date keeps the payments it claimed.                     *)
(***************************************************************************)
CONSTANTS Date, Payment

VARIABLES state,  \* state[d]: the remittance of date d
          claim   \* claim[d]: the payments it claims

vars == <<state, claim>>

Init ==
  /\ state = [d \in Date |-> "none"]
  /\ claim = [d \in Date |-> {}]

\* the payments that no other date has claimed
Claimable(d) == Payment \ UNION {claim[e] : e \in Date \ {d}}

\* Save as Draft, or create: whatever draft there was is replaced
Draft(d) ==
  /\ state[d] # "final"
  /\ state' = [state EXCEPT ![d] = "draft"]
  /\ \E C \in SUBSET Claimable(d) : claim' = [claim EXCEPT ![d] = C]

\* Clear Draft
Clear(d) ==
  /\ state[d] = "draft"
  /\ state' = [state EXCEPT ![d] = "none"]
  /\ claim' = [claim EXCEPT ![d] = {}]

\* finalize the draft as it is
Finalize(d) ==
  /\ state[d] = "draft"
  /\ state' = [state EXCEPT ![d] = "final"]
  /\ UNCHANGED claim

\* finalize from the form: the draft, if any, is rebuilt and closed at once
Close(d) ==
  /\ state[d] # "final"
  /\ state' = [state EXCEPT ![d] = "final"]
  /\ \E C \in SUBSET Claimable(d) : claim' = [claim EXCEPT ![d] = C]

Next == \E d \in Date : Draft(d) \/ Clear(d) \/ Finalize(d) \/ Close(d)

Spec == Init /\ [][Next]_vars
=============================================================================
