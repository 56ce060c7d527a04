----------------------------- MODULE Catalogue ------------------------------
(***************************************************************************)
(* What the inventory promises its user: products with distinct IDs, added *)
(* and deleted one at a time, whose quantity may change.                   *)
(***************************************************************************)
CONSTANTS
  IDs,         \* the IDs that products may have
  Labels,      \* what else is told of a product: its name and price
  Quantities

VARIABLES
  products,    \* the label and quantity of each ID that is there
  told         \* what the user was told of last, and the ID of it

Product == [label : Labels, quantity : Quantities]

Silence == <<"", 0>>

Init == products = [id \in {} |-> 0] /\ told = Silence

Add(id, p) ==
  /\ id \notin DOMAIN products
  /\ products' = [i \in DOMAIN products \union {id} |-> IF i = id THEN p ELSE products[i]]
  /\ told' = Silence

Update(id, q) ==
  /\ id \in DOMAIN products
  /\ products' = [products EXCEPT ![id].quantity = q]
  /\ told' = <<"updated", id>>

Delete(id) ==
  /\ id \in DOMAIN products
  /\ products' = [i \in DOMAIN products \ {id} |-> products[i]]
  /\ told' = <<"deleted", id>>

Next == \E id \in IDs : \/ \E p \in Product : Add(id, p)
                        \/ \E q \in Quantities : Update(id, q)
                        \/ Delete(id)

Spec == Init /\ [][Next]_<<products, told>>
=============================================================================
