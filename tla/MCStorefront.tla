---------------------------- MODULE MCStorefront ----------------------------
(* Small instances of what a shopper does: editing a cart in two tabs,       *)
(* logging in twice with a guest's cart, signing in and out of an account,   *)
(* and the images that customers and admins put up; the recovery job rests.  *)
(* These share no row, so that each behaviour is about one, the focus.       *)
EXTENDS AbandonedCart, AccountService, MediaService, TLC

CONSTANTS
  c1, c2, r1, r2, d1, e1, k1, w1, f1, f2, f3,
  MaxAsk   (* bound: the units asked for while calls overlap                *)

VARIABLE focus

storefrontVars == <<focus, recoveryVars, accountVars, mediaVars>>

StorefrontInit ==
  /\ focus \in {"editing", "logins", "accounts", "images"}
  /\ RecoveryInit /\ (focus \notin {"editing", "logins"} => shelf = 0)
  /\ AccountInit /\ MediaInit

StorefrontNext ==
  /\ UNCHANGED <<focus, sweep, cuts>>
  /\ \/ focus \in {"editing", "logins"} /\ CartNext /\ UNCHANGED <<accountVars, mediaVars>>
     \/ focus = "accounts" /\ AccountNext /\ UNCHANGED <<cartVars, mediaVars>>
     \/ focus = "images" /\ MediaNext /\ UNCHANGED <<cartVars, accountVars>>

StorefrontSpec == StorefrontInit /\ [][StorefrontNext]_storefrontVars

(* Carts are followed up to the first race, for the properties speak of what *)
(* no race has disturbed; images up to the first file caught in a destroy.   *)
(* Customers edit, one unit at a time is added and merged.                  *)
Focused ==
  /\ races = {} /\ caught = {}
  /\ \A c \in Carts : ask[c].wanted <= MaxAsk
  /\ focus = "editing" => \A c \in Carts : cart[c].owner # "guest"
  /\ focus = "logins" => /\ \A r \in CartCalls :
                              call[r].pc \notin {"set", "bump"} /\ call[r].want <= 1
                         /\ \A c \in Carts : cart[c].owner = "guest" => ~cart[c].email

StorefrontSymmetry == Permutations(Carts) \cup Permutations(CartCalls)
=============================================================================
