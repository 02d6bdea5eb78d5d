----------------------------- MODULE Catalogue -----------------------------
(***************************************************************************)
(* What the administrator prepares: the products and their prices, the     *)
(* commission of each driver on each product, and who is at work.          *)
(* src/server/apps/products/services.py.  A batch of changes is one        *)
(* transaction, refused as a whole when one of them is.                    *)
(***************************************************************************)
EXTENDS RemittanceTotals

CONSTANTS
  Price,    \* unit prices
  Rate      \* commissions per unit

ASSUME CatalogueAssumption ==
  /\ IsFiniteSet(Driver) /\ IsFiniteSet(Member) /\ IsFiniteSet(Product)
  /\ None \notin Driver \cup Member
  /\ Price \subseteq Nat /\ Rate \subseteq Nat /\ 0 \in Rate

VARIABLES
  product,   \* product[p]: "active", "inactive" (deactivated_at) or "deleted"
  price,     \* price[p]: Product.price
  rate,      \* rate[d][p]: DriverCommission.rate_per_unit, 0 without a row
  working    \* active users who drive or are staff

catalogue == <<product, price, rate, working>>

CatalogueTypeOK ==
  /\ product \in [Product -> {"active", "inactive", "deleted"}]
  /\ price \in [Product -> Price]
  /\ rate \in [Driver -> [Product -> Rate]]
  /\ working \subseteq Driver \cup Member

CatalogueInit ==
  /\ product = [p \in Product |-> "active"]
  /\ price \in [Product -> Price]
  /\ rate \in [Driver -> [Product -> Rate]]
  /\ working = Driver \cup Member

\* _get_tenant_product finds a product that is not deleted.
Found(p) == product[p] # "deleted"

OnSale == {p \in Product : product[p] = "active"}
ActiveRiders == working \cap Driver
ActiveStaff == working \cap Member

UpdateProduct(p, n) ==
  /\ Found(p)
  /\ price' = [price EXCEPT ![p] = n]
  /\ UNCHANGED <<product, rate, working>>

\* No look at another active product of the same name.
ActivateProduct(p) ==
  /\ product[p] = "inactive"
  /\ product' = [product EXCEPT ![p] = "active"]
  /\ UNCHANGED <<price, rate, working>>

DeactivateProduct(p) ==
  /\ product[p] = "active"
  /\ product' = [product EXCEPT ![p] = "inactive"]
  /\ UNCHANGED <<price, rate, working>>

\* Refused for a product that a line of a remittance refers to.
DeleteProduct(p, history) ==
  /\ Found(p) /\ p \notin history
  /\ product' = [product EXCEPT ![p] = "deleted"]
  /\ UNCHANGED <<price, rate, working>>

\* save_commission_matrix, one rate for the cells changed
SaveCommissions(cells, n) ==
  /\ cells # {}
  /\ \A c \in cells : c[1] \in ActiveRiders /\ Found(c[2])
  /\ rate' = [d \in Driver |-> [p \in Product |->
                IF <<d, p>> \in cells THEN n ELSE rate[d][p]]]
  /\ UNCHANGED <<product, price, working>>

\* bulk_set_commission_rates
BulkSetCommissions(p, n) == SaveCommissions(ActiveRiders \X {p}, n)

\* A user is deactivated, or activated again.
ToggleUser(u) ==
  /\ working' = IF u \in working THEN working \ {u} ELSE working \cup {u}
  /\ UNCHANGED <<product, price, rate>>

CatalogueStep(history) ==
  \/ \E p \in Product :
       \/ \E n \in Price : UpdateProduct(p, n)
       \/ ActivateProduct(p)
       \/ DeactivateProduct(p)
       \/ DeleteProduct(p, history)
       \/ \E n \in Rate : BulkSetCommissions(p, n)
  \/ \E cells \in SUBSET (Driver \X Product), n \in Rate : SaveCommissions(cells, n)
  \/ \E u \in Driver \cup Member : ToggleUser(u)
=============================================================================
