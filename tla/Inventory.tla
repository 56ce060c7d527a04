----------------------------- MODULE Inventory ------------------------------
(***************************************************************************)
(* The inventory: an array of products that is filled at the start, doubles*)
(* when it is full and closes the hole of a deleted product with its last  *)
(* one.                                                                    *)
(***************************************************************************)
EXTENDS Integers

CONSTANTS
  INITIAL_PRODUCTS,  \* the greatest capacity that is asked for
  IDs,               \* the IDs that are accepted
  Labels,            \* names and prices that are accepted
  Quantities,        \* quantities that are accepted
  Junk,              \* what memory holds that was never written
  MaxCapacity        \* bound on the capacity

ASSUME InventoryAssumption ==
  /\ INITIAL_PRODUCTS \in Nat /\ MaxCapacity \in Nat
  /\ 0 \notin IDs

VARIABLES
  stage,             \* "starting", "filling", "menu", "failed" or "exited"
  capacity,
  listSize,
  productList,       \* the array, with indices from 0
  told               \* what was reported last: an update or a deletion, and its ID

stockVars == <<stage, capacity, listSize, productList, told>>

Product(id, l, q) == [id |-> id, label |-> l, quantity |-> q]
Silence == <<"", 0>>
Blank == [id |-> 0]                          \* what calloc or a deletion leaves
Products == [id : IDs, label : Labels, quantity : Quantities]

Slots == 0 .. capacity - 1                   \* the indices of the array
Used  == 0 .. listSize - 1

StockInit ==
  /\ stage = "starting" /\ capacity = INITIAL_PRODUCTS /\ listSize = 0
  /\ productList = [i \in {} |-> Blank] /\ told = Silence

-----------------------------------------------------------------------------
(* A number out of range is reported and used all the same.  calloc of a   *)
(* negative one fails, of zero it may give NULL.                           *)
Start(number) ==
  /\ stage = "starting" /\ capacity' = number /\ UNCHANGED <<listSize, told>>
  /\ \/ /\ number >= 0 /\ stage' = IF number = 0 THEN "menu" ELSE "filling"
        /\ productList' = [i \in 0 .. number - 1 |-> Blank]
     \/ stage' = "failed" /\ UNCHANGED productList

Has(id, i) == i \in Used /\ productList[i].id = id
IsThere(id) == \E i \in Used : Has(id, i)
findProductIndexByID(id) ==
  CHOOSE i \in Used : Has(id, i) /\ \A k \in 0 .. i - 1 : ~Has(id, k)

(* The array a with one product more. *)
Added(a, id, l, q) == [a EXCEPT ![listSize] = Product(id, l, q)]

addProduct(a, id, l, q) ==
  /\ ~IsThere(id)
  /\ productList' = Added(a, id, l, q) /\ listSize' = listSize + 1
  /\ told' = Silence

Fill(id, l, q) ==
  /\ stage = "filling"
  /\ addProduct(productList, id, l, q)
  /\ stage' = IF listSize + 1 = capacity THEN "menu" ELSE "filling"
  /\ UNCHANGED capacity

AddWithRoom(id, l, q) ==
  /\ stage = "menu" /\ listSize # capacity
  /\ addProduct(productList, id, l, q) /\ UNCHANGED <<stage, capacity>>

Doubled == IF capacity = 0 THEN 1 ELSE 2 * capacity
Reallocated == [i \in 0 .. Doubled - 1 |-> IF i \in Slots THEN productList[i] ELSE Junk]

(* The array grows before the product is known to be acceptable; without   *)
(* memory, nothing happens.                                                *)
AddSlip(id, l, q) ==                         \* slip: it stays as long as it was
  /\ stage = "menu" /\ listSize = capacity
  /\ addProduct(productList, id, l, q) /\ UNCHANGED <<stage, capacity>>
AddWhenFull(id, l, q) ==
  /\ stage = "menu" /\ listSize = capacity /\ Doubled <= MaxCapacity
  /\ capacity' = Doubled
  /\ addProduct(Reallocated, id, l, q) /\ UNCHANGED stage
RefusedWhenFull ==
  /\ stage = "menu" /\ listSize = capacity /\ Doubled <= MaxCapacity
  /\ capacity' = Doubled /\ productList' = Reallocated
  /\ UNCHANGED <<stage, listSize, told>>

handleUpdateQuantity(id, q) ==
  /\ stage = "menu" /\ IsThere(id)
  /\ productList' = [productList EXCEPT ![findProductIndexByID(id)].quantity = q]
  /\ told' = <<"updated", id>> /\ UNCHANGED <<stage, capacity, listSize>>

(* The array without the product at i: the last one takes its place. *)
ClosedSlip(i) == [productList EXCEPT ![listSize - 1] = Blank]   \* slip: it takes no place
Closed(i) == [productList EXCEPT ![i] = productList[listSize - 1], ![listSize - 1] = Blank]

(* An ID out of range is reported and looked for all the same; 0, the ID of *)
(* the unused places, is one.                                              *)
handleDeleteProduct(id) ==
  /\ stage = "menu" /\ IsThere(id)
  /\ productList' = Closed(findProductIndexByID(id)) /\ listSize' = listSize - 1
  /\ told' = <<"deleted", id>>
  /\ UNCHANGED <<stage, capacity>>

Exit == stage = "menu" /\ stage' = "exited" /\ UNCHANGED <<capacity, listSize, productList, told>>

StockNext ==
  \/ \E number \in -1 .. INITIAL_PRODUCTS + 1 : Start(number)
  \/ \E id \in IDs, q \in Quantities :
       \/ \E l \in Labels : Fill(id, l, q) \/ AddWithRoom(id, l, q) \/ AddWhenFull(id, l, q)
       \/ handleUpdateQuantity(id, q)
  \/ \E id \in IDs \union {0} : handleDeleteProduct(id)
  \/ RefusedWhenFull \/ Exit

StockSpec == StockInit /\ [][StockNext]_stockVars

-----------------------------------------------------------------------------
(* The array is as long as capacity says, and holds products up to         *)
(* listSize: no product is written past its end, and no index below        *)
(* listSize reads what was never written (lines 139, 302, 365).            *)
StockTypeOK ==
  /\ stage \in {"starting", "filling", "menu", "failed", "exited"}
  /\ capacity \in Int /\ listSize \in Nat
  /\ stage \in {"filling", "menu", "exited"} =>
       /\ capacity \in Nat /\ listSize <= capacity
       /\ productList \in [Slots -> Products \union {Blank, Junk}]
  /\ stage \in {"starting", "failed"} => listSize = 0
  /\ stage = "filling" => listSize < capacity
  /\ \A i \in Used : productList[i] \in Products

(* No ID is there twice, so that what findProductIndexByID finds is the    *)
(* product that is meant (lines 132, 183, 298).                            *)
UniqueIDs == \A i, k \in Used : productList[i].id = productList[k].id => i = k

(* The array is the catalogue: growing, closing a hole and a failed malloc *)
(* lose and change no product, and what is updated or deleted is the one   *)
(* that the user is told of (lines 187, 310).                              *)
Stored == [id \in {productList[i].id : i \in Used} |->
             LET p == productList[findProductIndexByID(id)]
             IN  [label |-> p.label, quantity |-> p.quantity]]

Promise == INSTANCE Catalogue WITH products <- Stored

ImplementsCatalogue == Promise!Spec
=============================================================================
