--------------------------- MODULE CatalogService ---------------------------
(***************************************************************************)
(* One product and its variants (product.service.ts, inventory.service.ts)  *)
(* against the orders that sell them.  A product save writes what the       *)
(* editor showed when it was opened, perhaps long ago; an order item keeps  *)
(* its variant only while the variant's row lives.                          *)
(***************************************************************************)
EXTENDS Naturals, FiniteSets

CONSTANTS
  Variants,   (* the ids that variants of the product may ever have          *)
  Orders,     (* checkouts, each of one unit                                *)
  Admins,     (* the admin screens in use                                   *)
  MaxStock,   (* bound: units of a variant                                  *)
  Counts,     (* the stocks that admins type into the product form          *)
  NoVariant   (* an unlinked order item                                     *)

ASSUME CatalogAssumption == NoVariant \notin Variants /\ MaxStock \in Nat /\ Counts \subseteq Nat

VARIABLES
  stock,       (* the ProductVariant rows with their stock                   *)
  status,      (* Product.status, or "deleted"                              *)
  orderItem,   (* orderItem[o]: the status of the order and its item's variantId *)
  screen,      (* screen[a]: what an admin sees and is about to write        *)
  onHand,      (* history: the units on the shelf, for every id so far       *)
  overwritten, (* history: a save wrote a stock over one nobody had seen     *)
  unlinked     (* history: an open order may lose its variant, see PersistOrder
                  and RemoveProduct                                        *)

catalogVars == <<stock, status, orderItem, screen, onHand, overwritten, unlinked>>

VariantRows == DOMAIN stock

NoScreen == [pc |-> "closed", saw |-> <<>>, drop |-> {}, write |-> <<>>]

(* OPEN_ORDER_STATUSES; shipped and processing orders are like confirmed ones. *)
Open == {"PENDING", "CONFIRMED"}
Needs(v) == {o \in Orders : orderItem[o].status \in Open /\ orderItem[o].variant = v}

Show(a, s) == screen' = [screen EXCEPT ![a] = s]

-----------------------------------------------------------------------------
(* createOrder reads the variants, persistOrder links them.                 *)
Checkout(o, v) ==
  /\ orderItem[o].status = "none" /\ status = "ACTIVE" /\ v \in VariantRows /\ stock[v] > 0
  /\ orderItem' = [orderItem EXCEPT ![o] = [@ EXCEPT !.status = "CHECKOUT", !.variant = v]]
  /\ UNCHANGED <<stock, status, screen, onHand, overwritten, unlinked>>

(* The foreign key refuses a variant that is gone by then.                  *)
PersistOrder(o) ==
  /\ orderItem[o].status = "CHECKOUT"
  /\ orderItem' = [orderItem EXCEPT ![o] =
                IF @.variant \in VariantRows THEN [@ EXCEPT !.status = "PENDING"]
                ELSE [@ EXCEPT !.status = "none", !.variant = NoVariant]]
  /\ unlinked' = (unlinked \/ \E a \in Admins : orderItem[o].variant \in screen[a].drop)
  /\ UNCHANGED <<stock, status, screen, onHand, overwritten>>

(* markSucceeded: an item without a variant takes nothing; one whose units  *)
(* are gone cancels the order (and refunds it).                             *)
ConfirmOrder(o) ==
  LET v == orderItem[o].variant IN
  /\ orderItem[o].status = "PENDING"
  /\ \/ /\ v \in VariantRows /\ stock[v] > 0
        /\ stock' = [stock EXCEPT ![v] = @ - 1]
        /\ onHand' = [onHand EXCEPT ![v] = IF @ > 0 THEN @ - 1 ELSE 0]
        /\ orderItem' = [orderItem EXCEPT ![o].status = "CONFIRMED", ![o].took = TRUE]
     \/ /\ v \in VariantRows /\ stock[v] = 0
        /\ orderItem' = [orderItem EXCEPT ![o].status = "CLOSED"]
        /\ UNCHANGED <<stock, onHand>>
     \/ /\ v = NoVariant
        /\ orderItem' = [orderItem EXCEPT ![o].status = "CONFIRMED"]
        /\ UNCHANGED <<stock, onHand>>
  /\ UNCHANGED <<status, screen, overwritten, unlinked>>

(* An unpaid order is cancelled, or a confirmed one completed.              *)
Close(o) ==
  /\ orderItem[o].status \in Open
  /\ orderItem' = [orderItem EXCEPT ![o].status = "CLOSED"]
  /\ UNCHANGED <<stock, status, screen, onHand, overwritten, unlinked>>

-----------------------------------------------------------------------------
(* An admin opens the product editor or the inventory list.                 *)
OpenScreen(a) ==
  /\ screen[a].pc = "closed"
  /\ Show(a, [NoScreen EXCEPT !.pc = "shown", !.saw = stock])
  /\ UNCHANGED <<stock, status, orderItem, onHand, overwritten, unlinked>>

(* Mutant: the write does not look at what the row holds.                   *)
Adjust_mutant(a, v, received) ==
  /\ screen[a].pc = "shown" /\ v \in DOMAIN screen[a].saw /\ v \in VariantRows
  /\ stock' = [stock EXCEPT ![v] = screen[a].saw[v] + received]
  /\ onHand' = [onHand EXCEPT ![v] = @ + received]
  /\ Show(a, NoScreen)
  /\ UNCHANGED <<status, orderItem, overwritten, unlinked>>

(* adjust: received units are added to the stock the admin saw, if the row  *)
(* still holds that.                                                        *)
Adjust(a, v, received) ==
  /\ screen[a].pc = "shown" /\ v \in DOMAIN screen[a].saw
  /\ \/ /\ v \in VariantRows /\ stock[v] = screen[a].saw[v]
        /\ stock' = [stock EXCEPT ![v] = @ + received]
        /\ onHand' = [onHand EXCEPT ![v] = @ + received]
     \/ /\ v \in VariantRows => stock[v] # screen[a].saw[v]
        /\ UNCHANGED <<stock, onHand>>
  /\ Show(a, NoScreen)
  /\ UNCHANGED <<status, orderItem, overwritten, unlinked>>

(* Mutant: a variant goes although an open order needs it.                  *)
PlanVariantChanges_mutant(a, write) ==
  LET keep == DOMAIN write IN
  /\ screen[a].pc = "shown" /\ keep \subseteq DOMAIN screen[a].saw
  /\ Show(a, IF keep \subseteq VariantRows
             THEN [screen[a] EXCEPT !.pc = "save", !.drop = VariantRows \ keep, !.write = write]
             ELSE NoScreen)
  /\ UNCHANGED <<stock, status, orderItem, onHand, overwritten, unlinked>>

(* update plans the save: variants the form no longer shows are to go,      *)
(* unless an open order needs one; the others are written with the stock    *)
(* the form shows, or the one the admin has typed over it (the form always   *)
(* sends one).                                                              *)
PlanVariantChanges(a, write) ==
  LET keep == DOMAIN write IN
  /\ screen[a].pc = "shown" /\ keep \subseteq DOMAIN screen[a].saw
  /\ Show(a, IF keep \subseteq VariantRows /\ \A v \in VariantRows \ keep : Needs(v) = {}
             THEN [screen[a] EXCEPT !.pc = "save", !.drop = VariantRows \ keep, !.write = write]
             ELSE NoScreen)
  /\ UNCHANGED <<stock, status, orderItem, onHand, overwritten, unlinked>>

(* The foreign keys of the order items: ON DELETE SET NULL.                 *)
Unlink(gone) ==
  orderItem' = [o \in Orders |->
             IF orderItem[o].status # "CHECKOUT" /\ orderItem[o].variant \in gone
             THEN [orderItem[o] EXCEPT !.variant = NoVariant] ELSE orderItem[o]]

(* Its transaction, which also creates the form's new rows with the stock   *)
(* typed for them; it fails when a row to be updated, or the product itself, *)
(* is gone.  A stock the admin typed is one that was counted.               *)
SaveProduct(a, new) ==
  LET s == screen[a]
      kept == DOMAIN s.write
      counted == {v \in kept : s.write[v] # s.saw[v]}
  IN
  /\ s.pc = "save"
  /\ \/ /\ status # "deleted" /\ kept \subseteq VariantRows
        /\ stock' = [v \in (VariantRows \ s.drop) \cup DOMAIN new |->
                       IF v \in kept THEN s.write[v]
                       ELSE IF v \in DOMAIN new THEN new[v] ELSE stock[v]]
        /\ overwritten' = (overwritten \/ \E v \in kept : stock[v] \notin {s.saw[v], s.write[v]})
        /\ onHand' = [v \in DOMAIN onHand \cup DOMAIN new |->
                        IF v \in counted THEN s.write[v]
                        ELSE IF v \in DOMAIN new THEN new[v]
                        ELSE IF v \in s.drop THEN 0 ELSE onHand[v]]
        /\ Unlink(s.drop)
     \/ /\ status = "deleted" \/ ~(kept \subseteq VariantRows)
        /\ new = <<>>
        /\ UNCHANGED <<stock, overwritten, onHand, orderItem>>
  /\ Show(a, NoScreen)
  /\ UNCHANGED <<status, unlinked>>

(* remove, and bulk's delete: the rows go with the product, whatever orders *)
(* need them.                                                               *)
RemoveProduct ==
  /\ status # "deleted"
  /\ status' = "deleted" /\ stock' = <<>>
  /\ onHand' = [v \in DOMAIN onHand |-> 0]
  /\ unlinked' = (unlinked \/ \E v \in VariantRows : Needs(v) # {})
  /\ Unlink(VariantRows)
  /\ UNCHANGED <<screen, overwritten>>

(* bulk, ACTIVATE and ARCHIVE.                                              *)
Publish(to) ==
  /\ status # "deleted" /\ status' = to
  /\ UNCHANGED <<stock, orderItem, screen, onHand, overwritten, unlinked>>

-----------------------------------------------------------------------------
CatalogInit ==
  /\ \E vs \in SUBSET Variants \ {{}} :
       \E s \in [vs -> 0..MaxStock] :
         /\ stock = s
         /\ onHand = s
  /\ status = "ACTIVE"
  /\ orderItem = [o \in Orders |->
                    [status |-> "none", variant |-> NoVariant, took |-> FALSE]]
  /\ screen = [a \in Admins |-> NoScreen]
  /\ overwritten = FALSE /\ unlinked = FALSE

Sell(o) == (\E v \in Variants : Checkout(o, v)) \/ PersistOrder(o) \/ ConfirmOrder(o) \/ Close(o)

(* New rows get new ids, and no stock unless one is typed; MaxStock bounds   *)
(* what is received.                                                        *)
Administer(a) ==
  \/ OpenScreen(a)
  \/ \E ids \in SUBSET (Variants \ DOMAIN onHand) :
       \E new \in [ids -> Counts \cup {0}] : SaveProduct(a, new)
  \/ \E v \in VariantRows, n \in 1..MaxStock :
       stock[v] + n <= MaxStock /\ onHand[v] + n <= MaxStock /\ Adjust(a, v, n)
  \/ \E keep \in SUBSET DOMAIN screen[a].saw : \E ids \in SUBSET keep : \E typed \in [ids -> Counts] :
       PlanVariantChanges(a, [v \in keep |-> IF v \in ids THEN typed[v] ELSE screen[a].saw[v]])

CatalogNext ==
  \/ \E o \in Orders : Sell(o)
  \/ \E a \in Admins : Administer(a)
  \/ \E to \in {"ACTIVE", "ARCHIVED"} : Publish(to)
  \/ RemoveProduct

CatalogSpec == CatalogInit /\ [][CatalogNext]_catalogVars

-----------------------------------------------------------------------------
(* "A sale committed in between makes this a 409 instead of silently         *)
(* overwriting the decrement": only a product save can make the stock differ *)
(* from the shelf, and only by writing over a stock its form did not show.   *)
StockIsShelf == overwritten \/ \A v \in VariantRows : stock[v] = onHand[v]

(* A variant is deleted "unless an open order still needs them (that would   *)
(* unlink the order item, so paying the order would never take the stock)":  *)
(* a confirmed order took its unit, unless it came in while a save that had   *)
(* already looked for open orders was about to drop its variant, or the       *)
(* product was deleted, which looks for none.                                *)
ConfirmedTookStock ==
  unlinked \/ \A o \in Orders : orderItem[o].status = "CONFIRMED" => orderItem[o].took
=============================================================================
