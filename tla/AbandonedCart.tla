--------------------------- MODULE AbandonedCart ---------------------------
(***************************************************************************)
(* The recovery job of idle carts (modules/cron/abandoned-cart.service.ts): *)
(* it runs every hour and on demand, so that passes overlap, and runs over   *)
(* the carts while shoppers use them.                                       *)
(***************************************************************************)
EXTENDS CartService, Sequences

CONSTANT MaxCuts   (* bound: how many passes are cut off                     *)

ASSUME RecoveryAssumption == MaxCuts \in Nat

VARIABLES
  sweep,  (* sweep[s]: where pass s is, and the carts it found due            *)
  cuts    (* history: the passes cut off so far                             *)

recoveryVars == <<cartVars, sweep, cuts>>

NoSweep == [pc |-> "idle", first |-> {}, final |-> {}]

Reachable(c) == Exists(c) /\ cart[c].email /\ cart[c].qty > 0

Hold(s, due) ==
  cart' = [c \in Carts |-> IF c \in due THEN [cart[c] EXCEPT !.held = @ \cup {s}] ELSE cart[c]]

-----------------------------------------------------------------------------
(* An hour, or a day, goes by without a change to the cart.                 *)
TimePasses(c) ==
  /\ Exists(c) /\ Resting(c)
  /\ \/ cart[c].idle = "fresh" /\ cart' = [cart EXCEPT ![c].idle = "hour"]
     \/ cart[c].idle = "hour" /\ cart' = [cart EXCEPT ![c].idle = "day"]
  /\ UNCHANGED <<shelf, call, ask, races, sweep, cuts>>

(* run: the carts due for the first nudge are read.                         *)
ListFirstDue(s) ==
  LET due == {c \in Carts : Reachable(c) /\ cart[c].stage = 0 /\ cart[c].idle = "hour"} IN
  /\ sweep[s].pc = "idle"
  /\ sweep' = [sweep EXCEPT ![s] = [@ EXCEPT !.pc = "final", !.first = due]]
  /\ Hold(s, due)
  /\ UNCHANGED <<shelf, call, ask, races, cuts>>

(* Mutant: carts that had the first nudge are left out.                     *)
ListFinalDue_mutant(s) ==
  LET due == {c \in Carts : Reachable(c) /\ cart[c].stage = 0 /\ cart[c].idle = "day"} IN
  /\ sweep[s].pc = "final"
  /\ sweep' = [sweep EXCEPT ![s] = [@ EXCEPT !.pc = "send", !.final = due]]
  /\ Hold(s, due)
  /\ UNCHANGED <<shelf, call, ask, races, cuts>>

(* Then those due for the final one.                                        *)
ListFinalDue(s) ==
  LET due == {c \in Carts : Reachable(c) /\ cart[c].stage < 2 /\ cart[c].idle = "day"} IN
  /\ sweep[s].pc = "final"
  /\ sweep' = [sweep EXCEPT ![s] = [@ EXCEPT !.pc = "send", !.final = due]]
  /\ Hold(s, due)
  /\ UNCHANGED <<shelf, call, ask, races, cuts>>

(* Mutant: the claim only looks whether the cart was touched.               *)
Claimed_mutant(s, c, stage) == s \in cart[c].held

Claimed(s, c, stage) == cart[c].stage < stage /\ s \in cart[c].held

(* sendFor claims the stage of one cart, and e-mails if it won it.          *)
SendFor(s, c, stage) ==
  /\ sweep[s].pc = "send"
  /\ IF stage = 1
     THEN c \in sweep[s].first /\ sweep' = [sweep EXCEPT ![s].first = @ \ {c}]
     ELSE /\ sweep[s].first = {} /\ c \in sweep[s].final
          /\ sweep' = [sweep EXCEPT ![s].final = @ \ {c}]
  /\ cart' = IF Claimed(s, c, stage)
             THEN [cart EXCEPT ![c].stage = stage, ![c].nudges = Append(@, stage)]
             ELSE cart
  /\ UNCHANGED <<shelf, call, ask, races, cuts>>

(* What a pass has read goes with it.                                       *)
Forget(s) ==
  /\ sweep' = [sweep EXCEPT ![s] = NoSweep]
  /\ cart' = [c \in Carts |-> [cart[c] EXCEPT !.held = @ \ {s}]]
  /\ UNCHANGED <<shelf, call, ask, races>>

EndSweep(s) ==
  /\ sweep[s].pc = "send" /\ sweep[s].first \cup sweep[s].final = {}
  /\ Forget(s)
  /\ UNCHANGED cuts

(* A restart of the backend, or an error.                                   *)
CutOff(s) ==
  /\ cuts < MaxCuts
  /\ sweep[s].pc # "idle"
  /\ Forget(s)
  /\ cuts' = cuts + 1

-----------------------------------------------------------------------------
RecoveryInit == CartInit /\ sweep = [s \in Sweeps |-> NoSweep] /\ cuts = 0

Sweeping(s) ==
  \/ ListFirstDue(s) \/ ListFinalDue(s)
  \/ \E c \in Carts, stage \in {1, 2} : SendFor(s, c, stage)
  \/ EndSweep(s)

RecoveryNext ==
  \/ CartNext /\ UNCHANGED <<sweep, cuts>>
  \/ \E c \in Carts : TimePasses(c)
  \/ \E s \in Sweeps : Sweeping(s) \/ CutOff(s)

(* The hourly job runs again and again, and goes on once it runs.  Nothing   *)
(* is assumed of shoppers, nor of the time they leave a cart alone.         *)
RecoveryFairness == \A s \in Sweeps : WF_recoveryVars(Sweeping(s))

RecoverySpec == RecoveryInit /\ [][RecoveryNext]_recoveryVars /\ RecoveryFairness

-----------------------------------------------------------------------------
(* "Each stage is emailed at most once" (#38), the first never after the      *)
(* final one, however many passes overlap, until a change to the cart's      *)
(* lines re-arms both.                                                      *)
NudgesInOrder == \A c \in Carts : cart[c].nudges \in {<<>>, <<1>>, <<2>>, <<1, 2>>}

(* A cart that could be e-mailed about and has been idle for a day gets the   *)
(* final nudge, unless its shopper comes back to it first: no claim of        *)
(* another pass, and no pass that is cut off, leaves it out for good.        *)
FinalNudge ==
  \A c \in Carts :
    Reachable(c) /\ cart[c].idle = "day"
      ~> cart[c].stage = 2 \/ ~Reachable(c) \/ cart[c].idle = "fresh"
=============================================================================
