---------------------------- MODULE MCBackground ----------------------------
(* Small instances of what goes on without anybody watching: the stock       *)
(* transactions of paid and cancelled orders, the reminders about idle       *)
(* carts, and a customer's sessions with the nightly erasure of accounts.    *)
(* They share no row here, so that each behaviour is about one of them, the  *)
(* focus.                                                                   *)
EXTENDS AbandonedCart, AccountService, StockTransaction

CONSTANTS o1, o2, o3, v1, v2, c1, s1, s2, d1, e1, r1, w1

VARIABLE focus

(* Two orders of a unit of either variant, one of a single variant.         *)
SmallNeed == [o \in Paid |-> [v \in Goods |-> IF o = o3 /\ v = v1 THEN 0 ELSE 1]]

backgroundVars == <<focus, recoveryVars, stockVars, accountVars>>

BackgroundInit ==
  /\ focus \in {"locks", "reminders", "accounts"}
  /\ RecoveryInit /\ shelf = MaxShelf
  /\ StockInit /\ (focus # "locks" => stock = [v \in Goods |-> 0])
  /\ AccountInit

(* The cart's stock stays as it is, and the calls on the cart finish; the    *)
(* storefront's instance has the rest of that.                              *)
BackgroundNext ==
  /\ UNCHANGED focus
  /\ \/ focus = "locks" /\ StockNext /\ UNCHANGED <<recoveryVars, accountVars>>
     \/ /\ focus = "reminders" /\ RecoveryNext
        /\ UNCHANGED <<shelf, races, stockVars, accountVars>>
     \/ focus = "accounts" /\ AccountNext /\ UNCHANGED <<recoveryVars, stockVars>>

(* StockFairness, RecoveryFairness and SweepFairness, of whichever is the    *)
(* focus.                                                                   *)
Locks(A) == focus = "locks" /\ A /\ UNCHANGED <<focus, recoveryVars, accountVars>>
Reminders(A) == focus = "reminders" /\ A /\ UNCHANGED <<focus, stockVars, accountVars>>
Accounts(A) == focus = "accounts" /\ A /\ UNCHANGED <<focus, recoveryVars, stockVars>>

BackgroundFairness ==
  /\ \A o \in Paid : /\ WF_backgroundVars(Locks(Deliver(o)))
                     /\ WF_backgroundVars(Locks(Statement(o)))
                     /\ SF_backgroundVars(Locks(Granted(o)))
  /\ WF_backgroundVars(Locks(\E o \in Paid : BreakDeadlock(o)))
  /\ \A s \in Sweeps : WF_backgroundVars(Reminders(Sweeping(s)))
  /\ \A a \in Sweepers : /\ WF_backgroundVars(Accounts(Sweep(a)))
                         /\ SF_backgroundVars(Accounts(AnonymizeUser(a)))

BackgroundSpec == BackgroundInit /\ [][BackgroundNext]_backgroundVars /\ BackgroundFairness
=============================================================================
