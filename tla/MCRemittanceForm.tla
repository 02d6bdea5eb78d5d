-------------------------- MODULE MCRemittanceForm --------------------------
EXTENDS RemittanceReports, TLC

CONSTANTS d1, d2, m1, p1, x1, y1, y2

MCDaily == m1 :> 2
MCCareOf == x1 :> d1 @@ y1 :> d1 @@ y2 :> None
MCProductOf == [e \in Entry |-> p1]
MCUnits == x1 :> 2 @@ y1 :> 1 @@ y2 :> 1
MCAmount == x1 :> 6 @@ y1 :> 3 @@ y2 :> 2

\* A day with a loss: units sold on credit, cash short, an expense, deductions.
Busy ==
  [Empty EXCEPT
     !.rider[d1] = [sold |-> p1 :> 3, override |-> None, remitted |-> 7,
                    expense |-> 1, deduction |-> 1],
     !.rider[d2] = [sold |-> p1 :> 1, override |-> 4, remitted |-> 3,
                    expense |-> 0, deduction |-> 0],
     !.staff[m1] = [override |-> None, deduction |-> 1, expense |-> 1],
     !.other = 1]
\* A quiet one: staff paid by hand, nothing else typed in.
Quiet == [Empty EXCEPT !.staff[m1] = [override |-> 1, deduction |-> 2, expense |-> 0]]

MCSheet == {Busy, Quiet}

\* The day begins with nothing recorded, or with all there is to record.
MCInit ==
  /\ FormInit
  /\ price = p1 :> 3 /\ \A d \in Driver : rate[d] = p1 :> 1
  /\ Recorded(Entry) \in {{}, Entry}
MCSpec == MCInit /\ [][FormNext]_vars
=============================================================================
