---------------------------- MODULE CartService ----------------------------
(***************************************************************************)
(* The carts of one shopper, before and after signing in, with one variant  *)
(* in them (modules/cart).  Lines of different variants share no row.  Every *)
(* database statement of a call is a step, so that the calls of two tabs,    *)
(* two logins, sales and restocks run between them.                         *)
(***************************************************************************)
EXTENDS Naturals, FiniteSets, FiniteSetsExt

CONSTANTS
  Carts,      (* the cart ids that may ever exist                          *)
  CartCalls,  (* the API calls in progress                                 *)
  CartOps,    (* the operations shoppers use, see CartOperations            *)
  Sweeps,     (* the passes of the abandoned-cart job, see AbandonedCart    *)
  MaxShelf    (* bound: the stock, and the units one call asks for           *)

CartOperations == {"add", "set", "remove", "clear", "coupon", "view", "merge"}

ASSUME CartAssumption ==
  CartOps \subseteq CartOperations /\ MaxShelf \in Nat /\ "no cart" \notin Carts

VARIABLES
  shelf,   (* the variant's live stock                                      *)
  cart,    (* the Cart rows, each with its line's quantity, 0 without a line *)
  call,    (* call[r]: where call r is, and what it holds                   *)
  ask,     (* history: what cart c should hold, see Begin                   *)
  races    (* history: the races that have happened, see Races              *)

cartVars == <<shelf, cart, call, ask, races>>

(* raised: a stale clamp raised a line; crossed: a merge wrote over a change;*)
(* refolded: a merge folded a cart again; swallowed: it deleted what it had  *)
(* not folded; crash: a call never finished.                                *)
Races == {"raised", "crossed", "refolded", "swallowed", "crash"}

(* held: the sweeps that still hold the row's current updatedAt; nudges is   *)
(* history, the stages claimed since recoveryStage was last reset.          *)
NoCart == [owner |-> "none", qty |-> 0, email |-> FALSE,
           idle |-> "fresh", stage |-> 0, held |-> {}, nudges |-> <<>>]

(* seen: the stock it read; read: the quantity it read; from, gqty: the      *)
(* guest cart a merge read; lost: the line it holds is deleted.              *)
NoCall == [pc |-> "idle", c |-> "no cart", want |-> 0, seen |-> 0, read |-> 0,
           from |-> "no cart", gqty |-> 0, lost |-> FALSE]

-----------------------------------------------------------------------------
Lower(a, b) == IF a < b THEN a ELSE b
Upper(a, b) == IF a < b THEN b ELSE a

Exists(c) == c \in Carts /\ cart[c].owner # "none"
Resting(c) == \A r \in CartCalls : c \notin {call[r].c, call[r].from}
AtRest(r) == call[r].pc = "idle"

Race(name, happened) == races' = IF happened THEN races \cup {name} ELSE races

(* A call goes on.                                                          *)
Becomes(r, k) == call' = [call EXCEPT ![r] = k]
Goes(r, pc) == Becomes(r, [call[r] EXCEPT !.pc = pc])

(* It ends, answered or refused; others has the rest of the calls.           *)
NoAsk == [wanted |-> 0, low |-> 0, high |-> 0]

EndsAmong(others, r) ==
  /\ call' = [others EXCEPT ![r] = NoCall]
  /\ ask' = [c \in Carts |->
               IF \A q \in CartCalls \ {r} : c \notin {call[q].c, call[q].from}
               THEN NoAsk ELSE ask[c]]

Ends(r) == EndsAmong(call, r)

(* When calls reach a resting cart, it should hold what it holds: wanted,    *)
(* and between low and high, the extremes of the stock meanwhile.           *)
Asked(c) ==
  IF Resting(c)
  THEN [wanted |-> cart[c].qty, low |-> shelf, high |-> Upper(shelf, cart[c].qty)]
  ELSE ask[c]

Begin(r, c, k) ==
  /\ AtRest(r)
  /\ Becomes(r, [k EXCEPT !.c = c])
  /\ ask' = [ask EXCEPT ![c] = Asked(c)]

(* updatedAt moves; touch also resets the recovery stage.                   *)
Moved(row) == [row EXCEPT !.idle = "fresh", !.held = {}]
Touched(row) == [Moved(row) EXCEPT !.stage = 0, !.nudges = <<>>]

(* The calls that are about to write the line of cart c by its id, once that *)
(* line is deleted.                                                         *)
HoldsLine(k) == k.pc \in {"set", "clampView", "clampLine"}
Losing(c) == [r \in CartCalls |->
                [call[r] EXCEPT !.lost = @ \/ (HoldsLine(call[r]) /\ call[r].c = c)]]

-----------------------------------------------------------------------------
(* resolveForWrite: the caller's cart, created on demand (the loser of an    *)
(* insert race re-reads the winner's).                                      *)
ResolveForWrite(who, c) ==
  IF \E d \in Carts : cart[d].owner = who
  THEN cart[c].owner = who /\ UNCHANGED cart
  ELSE /\ ~Exists(c) /\ Resting(c)
       /\ cart' = [cart EXCEPT ![c] = [NoCart EXCEPT !.owner = who, !.email = who = "user"]]

(* addItem: the variant is read, and refused when there is none left.  Its   *)
(* product is published all along (#15): one that is not is refused here too, *)
(* shown as out of stock by the view, and not looked at by updateItem.      *)
AddItem(r, who, c, n) ==
  /\ ResolveForWrite(who, c)
  /\ IF shelf > 0
     THEN Begin(r, c, [NoCall EXCEPT !.pc = "upsert", !.want = n, !.seen = shelf])
     ELSE AtRest(r) /\ UNCHANGED <<call, ask>>
  /\ UNCHANGED <<shelf, races>>

(* Mutant: a read-add-write, as it was before #54.                          *)
Upsert_mutant(r) ==
  LET k == call[r] IN
  /\ k.pc = "upsert"
  /\ \/ /\ Exists(k.c)
        /\ cart' = [cart EXCEPT ![k.c].qty = Lower(k.read + k.want, k.seen)]
        /\ ask' = [ask EXCEPT ![k.c].wanted = @ + k.want]
        /\ Becomes(r, [k EXCEPT !.pc = "clamp", !.want = 0])
     \/ ~Exists(k.c) /\ Ends(r) /\ UNCHANGED cart
  /\ UNCHANGED <<shelf, races>>

(* The line is created clamped, or incremented in the database.             *)
Upsert(r) ==
  LET k == call[r] IN
  /\ k.pc = "upsert"
  /\ \/ /\ Exists(k.c)
        /\ cart' = [cart EXCEPT ![k.c].qty =
                      IF @ = 0 THEN Lower(k.want, k.seen) ELSE @ + k.want]
        /\ ask' = [ask EXCEPT ![k.c].wanted = @ + k.want]
        /\ Becomes(r, [k EXCEPT !.pc = "clamp", !.want = 0])
     \/ ~Exists(k.c) /\ Ends(r) /\ UNCHANGED cart
  /\ UNCHANGED <<shelf, races>>

(* Mutant: the conditional clamp is left to the view.                       *)
Clamp_mutant(r) ==
  /\ call[r].pc = "clamp"
  /\ Becomes(r, [NoCall EXCEPT !.pc = "touch", !.c = call[r].c])
  /\ UNCHANGED <<shelf, cart, ask, races>>

(* Then clamped to the stock that was read, with a conditional update.      *)
Clamp(r) ==
  LET k == call[r] IN
  /\ k.pc = "clamp"
  /\ cart' = IF k.c \in Carts THEN [cart EXCEPT ![k.c].qty = Lower(@, k.seen)] ELSE cart
  /\ Becomes(r, [NoCall EXCEPT !.pc = "touch", !.c = k.c])
  /\ UNCHANGED <<shelf, ask, races>>

Touch(r) ==
  LET k == call[r] IN
  /\ k.pc \in {"touch", "lastTouch"}
  /\ \/ /\ Exists(k.c)
        /\ cart' = [cart EXCEPT ![k.c] = Touched(@)]
        /\ IF k.pc = "touch" THEN Goes(r, "view") /\ UNCHANGED ask ELSE Ends(r)
     \/ ~Exists(k.c) /\ Ends(r) /\ UNCHANGED cart
  /\ UNCHANGED <<shelf, races>>

(* buildView: a quantity above the stock it reads is to be persisted back    *)
(* down, unless there is none at all.                                       *)
BuildView(r) ==
  LET k == call[r] IN
  /\ k.pc = "view"
  /\ IF Exists(k.c) /\ shelf > 0 /\ cart[k.c].qty > shelf
     THEN Becomes(r, [k EXCEPT !.pc = "clampView", !.seen = shelf]) /\ UNCHANGED ask
     ELSE Ends(r)
  /\ UNCHANGED <<shelf, cart, races>>

ClampView(r) ==
  LET k == call[r] IN
  /\ k.pc = "clampView"
  /\ IF k.lost THEN UNCHANGED <<cart, races>>
     ELSE /\ cart' = [cart EXCEPT ![k.c].qty = k.seen]
          /\ Race("raised", k.seen > cart[k.c].qty)
  /\ Ends(r)
  /\ UNCHANGED shelf

-----------------------------------------------------------------------------
(* getCart.                                                                 *)
View(r, c) ==
  /\ Exists(c)
  /\ Begin(r, c, [NoCall EXCEPT !.pc = "view"])
  /\ UNCHANGED <<shelf, cart, races>>

(* updateItem: the line and its stock are read.                             *)
SetItem(r, c, n) ==
  /\ Exists(c) /\ cart[c].qty > 0
  /\ Begin(r, c, [NoCall EXCEPT !.pc = "set", !.want = n, !.seen = shelf])
  /\ UNCHANGED <<shelf, cart, races>>

(* Its absolute write, by the line's id; none deletes the line.             *)
WriteItem(r) ==
  LET k == call[r]
      next == Lower(k.want, k.seen)
  IN
  /\ k.pc = "set"
  /\ \/ k.lost /\ Ends(r) /\ UNCHANGED cart
     \/ /\ ~k.lost
        /\ cart' = [cart EXCEPT ![k.c].qty = next]
        /\ ask' = [ask EXCEPT ![k.c].wanted = next]
        /\ call' = [IF next = 0 THEN Losing(k.c) ELSE call EXCEPT
                     ![r] = [NoCall EXCEPT !.pc = "touch", !.c = k.c]]
  /\ UNCHANGED <<shelf, races>>

(* The line goes; next is the touch of removeItem, or the write of clear.    *)
DeleteLine(r, c, next) ==
  /\ AtRest(r)
  /\ cart' = [cart EXCEPT ![c].qty = 0]
  /\ ask' = [ask EXCEPT ![c] = [Asked(c) EXCEPT !.wanted = 0]]
  /\ call' = [Losing(c) EXCEPT ![r] = [NoCall EXCEPT !.pc = next, !.c = c]]
  /\ UNCHANGED <<shelf, races>>

RemoveItem(r, c) == Exists(c) /\ cart[c].qty > 0 /\ DeleteLine(r, c, "touch")
Clear(r, c) == Exists(c) /\ DeleteLine(r, c, "bump")

(* applyCoupon and removeCoupon, up to their write.                         *)
ChangeCoupon(r, c) ==
  /\ Exists(c)
  /\ Begin(r, c, [NoCall EXCEPT !.pc = "bump"])
  /\ UNCHANGED <<shelf, cart, races>>

(* couponCode and updatedAt are written, recoveryStage is not.              *)
Bump(r) ==
  LET k == call[r] IN
  /\ k.pc = "bump"
  /\ \/ /\ Exists(k.c)
        /\ cart' = [cart EXCEPT ![k.c] = Moved(@)]
        /\ Goes(r, "view") /\ UNCHANGED ask
     \/ ~Exists(k.c) /\ Ends(r) /\ UNCHANGED cart
  /\ UNCHANGED <<shelf, races>>

-----------------------------------------------------------------------------
(* mergeGuestCartIntoUser at a login: the guest cart and its lines.         *)
Merge(r, c) ==
  /\ AtRest(r) /\ cart[c].owner = "guest"
  /\ Becomes(r, [NoCall EXCEPT !.pc = IF cart[c].qty = 0 THEN "dropGuest" ELSE "findUserCart",
                               !.from = c, !.gqty = cart[c].qty])
  /\ ask' = [ask EXCEPT ![c] = Asked(c)]
  /\ UNCHANGED <<shelf, cart, races>>

(* The customer's cart to fold into, with the live stock, or none.          *)
FindUserCart(r) ==
  LET k == call[r] IN
  /\ k.pc = "findUserCart"
  /\ \/ /\ \A c \in Carts : cart[c].owner # "user"
        /\ Goes(r, "adopt") /\ UNCHANGED ask
     \/ \E c \in Carts :
          /\ cart[c].owner = "user"
          /\ Becomes(r, [k EXCEPT !.pc = IF shelf = 0 THEN "dropGuest" ELSE "readLine",
                                  !.c = c, !.seen = shelf])
          /\ ask' = [ask EXCEPT ![c] = Asked(c)]
  /\ UNCHANGED <<shelf, cart, races>>

ReadLine(r) ==
  LET k == call[r] IN
  /\ k.pc = "readLine"
  /\ Becomes(r, [k EXCEPT !.pc = "fold", !.read = cart[k.c].qty])
  /\ UNCHANGED <<shelf, cart, ask, races>>

(* The fold writes the capped sum of what it read.                          *)
Fold(r) ==
  LET k == call[r]
      folded(q) == q # r /\ call[q].from = k.from /\ call[q].pc = "dropGuest"
      again == cart[k.from].owner # "guest" \/ \E q \in CartCalls : folded(q)
  IN
  /\ k.pc = "fold"
  /\ \/ /\ Exists(k.c)
        /\ cart' = [cart EXCEPT ![k.c].qty = Lower(k.read + k.gqty, k.seen)]
        /\ ask' = [ask EXCEPT ![k.c].wanted = @ + k.gqty]
        /\ races' = races \cup (IF again THEN {"refolded"} ELSE {})
                          \cup (IF cart[k.c].qty # k.read THEN {"crossed"} ELSE {})
        /\ Goes(r, "dropGuest")
     \/ ~Exists(k.c) /\ Ends(r) /\ UNCHANGED <<cart, races>>
  /\ UNCHANGED shelf

(* The cart that was the guest's goes, whoever owns it by now.              *)
DropGuest(r) ==
  LET k == call[r] IN
  /\ k.pc = "dropGuest"
  /\ \/ /\ Exists(k.from)
        /\ cart' = [cart EXCEPT ![k.from] = NoCart]
        /\ Race("swallowed", cart[k.from].owner = "user" \/ cart[k.from].qty # k.gqty)
        /\ IF k.c \in Carts
           THEN /\ call' = [Losing(k.from) EXCEPT
                              ![r] = [NoCall EXCEPT !.pc = "lastTouch", !.c = k.c]]
                /\ UNCHANGED ask
           ELSE EndsAmong(Losing(k.from), r)
     \/ ~Exists(k.from) /\ Ends(r) /\ UNCHANGED <<cart, races>>
  /\ UNCHANGED shelf

(* The guest cart becomes the customer's, unless a key forbids it.          *)
Adopt(r) ==
  LET k == call[r]
      taken == \E c \in Carts \ {k.from} : cart[c].owner = "user"
  IN
  /\ k.pc = "adopt"
  /\ \/ /\ Exists(k.from) /\ ~taken
        /\ cart' = [cart EXCEPT ![k.from] =
                      [Moved(@) EXCEPT !.owner = "user", !.email = TRUE]]
        /\ Becomes(r, [NoCall EXCEPT !.pc = "clampAll", !.c = k.from])
        /\ UNCHANGED ask
     \/ ~(Exists(k.from) /\ ~taken) /\ Ends(r) /\ UNCHANGED cart
  /\ UNCHANGED <<shelf, races>>

(* clampAll reads the adopted lines, then writes them one by one.           *)
ClampAll(r) ==
  LET k == call[r] IN
  /\ k.pc = "clampAll"
  /\ IF Exists(k.c) /\ cart[k.c].qty > shelf
     THEN Becomes(r, [k EXCEPT !.pc = "clampLine", !.seen = shelf]) /\ UNCHANGED ask
     ELSE Ends(r)
  /\ UNCHANGED <<shelf, cart, races>>

ClampLine(r) ==
  LET k == call[r] IN
  /\ k.pc = "clampLine"
  /\ IF k.lost THEN Ends(r) /\ UNCHANGED <<cart, races>>
     ELSE /\ cart' = [cart EXCEPT ![k.c].qty = k.seen]
          /\ Race("raised", k.seen > cart[k.c].qty)
          /\ EndsAmong(IF k.seen = 0 THEN Losing(k.c) ELSE call, r)
  /\ UNCHANGED shelf

-----------------------------------------------------------------------------
(* The rest of the shop.  Sales and restocks move the stock.                *)
StockMoves(n) ==
  /\ shelf' = n
  /\ ask' = [c \in Carts |->
               IF Resting(c) THEN ask[c]
               ELSE [ask[c] EXCEPT !.low = Lower(@, n), !.high = Upper(@, n)]]
  /\ UNCHANGED <<cart, call, races>>

(* createOrder stores the guest's e-mail address on the cart.               *)
CaptureEmail(c) ==
  /\ cart[c].owner = "guest"
  /\ cart' = [cart EXCEPT ![c] = [Moved(@) EXCEPT !.email = TRUE]]
  /\ UNCHANGED <<shelf, call, ask, races>>

(* markSucceeded empties the cart of the paid order.                        *)
ClearPaidCart(c) ==
  /\ Exists(c)
  /\ cart' = [cart EXCEPT ![c] = [Moved(@) EXCEPT !.qty = 0]]
  /\ call' = Losing(c)
  /\ ask' = [ask EXCEPT ![c].wanted = 0]
  /\ UNCHANGED <<shelf, races>>

(* A restart of the backend, or a failing statement.                        *)
DropCall(r) ==
  /\ ~AtRest(r) /\ Ends(r)
  /\ Race("crash", TRUE)
  /\ UNCHANGED <<shelf, cart>>

-----------------------------------------------------------------------------
CartInit ==
  /\ shelf \in 0..MaxShelf
  /\ cart = [c \in Carts |-> NoCart]
  /\ call = [r \in CartCalls |-> NoCall]
  /\ ask = [c \in Carts |-> NoAsk]
  /\ races = {}

StepCall(r) ==
  \/ Upsert(r) \/ Clamp(r) \/ Touch(r) \/ BuildView(r) \/ ClampView(r)
  \/ WriteItem(r) \/ Bump(r)
  \/ FindUserCart(r) \/ ReadLine(r) \/ Fold(r) \/ DropGuest(r)
  \/ Adopt(r) \/ ClampAll(r) \/ ClampLine(r)
  \/ DropCall(r)

BeginCall(r) ==
  \E c \in Carts :
    \/ \E who \in {"guest", "user"}, n \in 1..MaxShelf :
         "add" \in CartOps /\ AddItem(r, who, c, n)
    \/ "view" \in CartOps /\ View(r, c)
    \/ "set" \in CartOps /\ \E n \in 0..MaxShelf : SetItem(r, c, n)
    \/ "remove" \in CartOps /\ RemoveItem(r, c)
    \/ "clear" \in CartOps /\ Clear(r, c)
    \/ "coupon" \in CartOps /\ ChangeCoupon(r, c)
    \/ "merge" \in CartOps /\ Merge(r, c)

CartNext ==
  \/ \E r \in CartCalls : BeginCall(r) \/ StepCall(r)
  \/ \E n \in 0..MaxShelf : n # shelf /\ StockMoves(n)
  \/ \E c \in Carts : CaptureEmail(c) \/ ClearPaidCart(c)

CartSpec == CartInit /\ [][CartNext]_cartVars

-----------------------------------------------------------------------------
(* The last of the calls on cart c ends, undisturbed.                       *)
Settles(c) == ~Resting(c) /\ Resting(c)' /\ Exists(c)' /\ races' = {}

(* addItem increments in the database, for "a read-add-write lost one of two *)
(* concurrent +1s" (#54), and "quantities are summed per variant and capped  *)
(* at live stock": when the last call on a cart is done, the cart holds the   *)
(* units asked for, its own and the guest's, or as many as the stock once    *)
(* was meanwhile, and no more than were asked for.                          *)
UnitsAreCounted ==
  [][\A c \in Carts : Settles(c) =>
       cart'[c].qty \in Lower(ask[c].wanted, ask[c].low)..ask[c].wanted]_cartVars

(* "An over-stock quantity is never left in the database" (FR-303): when the  *)
(* last call on a cart is done, the cart holds no more than the stock was at *)
(* some time while they ran, or than it held when they began.               *)
OverStockNeverLeft ==
  [][\A c \in Carts : Settles(c) => cart'[c].qty <= ask[c].high]_cartVars

(* mergeGuestCartIntoUser is said to be "idempotent and safe when the         *)
(* customer has no cart (adopt the guest cart)": a merge deletes the guest's *)
(* cart, never the customer's.                                              *)
MergeKeepsCart ==
  [][\A c \in Carts : cart[c].owner = "user" => cart'[c].owner = "user"]_cartVars
=============================================================================
