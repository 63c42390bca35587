-------------------------- MODULE StockTransaction --------------------------
(***************************************************************************)
(* How paid orders take stock and cancelled ones give it back, one row lock  *)
(* at a time: markSucceeded (payment.service.ts) with takeStock, and the      *)
(* restock of cancelPaidOrder (order.service.ts), as READ COMMITTED           *)
(* transactions.  Both read the order's items without an ORDER BY, and so     *)
(* lock the rows in any order.  AtomicStock is what they are to add up to.    *)
(***************************************************************************)
EXTENDS Naturals, Sequences

CONSTANTS
  Paid,      (* the paid orders                                            *)
  Goods,     (* the variants                                               *)
  Need,      (* Need[o][v]: the units of v in order o, on one line           *)
  MaxUnits,  (* bound: the units of a variant at first                      *)
  MaxAborts  (* bound: how many transactions a fault aborts                 *)

ASSUME StockAssumption ==
  Need \in [Paid -> [Goods -> Nat]] /\ MaxUnits \in Nat /\ MaxAborts \in Nat

VARIABLES
  stock,   (* stock[v]: ProductVariant.stock, as committed                  *)
  status,  (* status[o]: "pending", "short" (cancelled, refunded),           *)
           (* "confirmed", "cancelled" (and refunded) or "restocked"        *)
  events,  (* the orders whose payment event is recorded as processed       *)
  tx,      (* tx[o]: the transaction on order o                             *)
  queue,   (* queue[v]: the orders that wait for the row of v, in turn       *)
  cut,     (* history: the cancelled orders whose restock was cut off        *)
  aborts   (* history: the faults so far                                   *)

stockVars == <<stock, status, events, tx, queue, cut, aborts>>

Lines(o) == {v \in Goods : Need[o][v] > 0}

(* left: the lines to come; at: the line it waits for; took: the lines whose *)
(* units it moved; locks: the rows it holds until it ends.                  *)
NoTx == [pc |-> "none", left |-> {}, at |-> {}, took |-> {}, locks |-> {}, short |-> FALSE]

Free(v) == \A o \in Paid : v \notin tx[o].locks
Open(v) == Free(v) /\ queue[v] = <<>>

Tx(o, t) == tx' = [tx EXCEPT ![o] = t]

-----------------------------------------------------------------------------
(* The payment event is delivered, until a delivery is answered.            *)
Deliver(o) ==
  /\ status[o] = "pending" /\ tx[o].pc = "none" /\ o \notin events
  /\ Tx(o, [NoTx EXCEPT !.pc = "run", !.left = Lines(o)])
  /\ UNCHANGED <<stock, status, events, queue, cut, aborts>>

(* The row of line v is locked, and its units are moved.                    *)
Moves(t, v) ==
  [t EXCEPT !.pc = "run", !.left = @ \ {v}, !.at = {},
            !.took = @ \cup {v}, !.locks = @ \cup {v}]

(* takeStock found too few units; a row it waited for stays locked.         *)
Runs(t, locked) ==
  [t EXCEPT !.pc = "giveBack", !.left = {}, !.at = {}, !.short = TRUE,
            !.locks = @ \cup locked]

(* Without a lock to be had, the transaction queues for the row.            *)
Waits(o, v) ==
  /\ ~Open(v)
  /\ Tx(o, [tx[o] EXCEPT !.pc = "wait", !.at = {v}])
  /\ queue' = [queue EXCEPT ![v] = Append(@, o)]

(* takeStock of one line.  What is committed decides whether the update      *)
(* matches; only then does it wait for the row.                             *)
TakeStock(o, v) ==
  LET t == tx[o] IN
  /\ status[o] = "pending" /\ t.pc = "run" /\ v \in t.left
  /\ \/ Need[o][v] > stock[v] /\ Tx(o, Runs(t, {})) /\ UNCHANGED queue
     \/ Need[o][v] <= stock[v] /\ Open(v) /\ Tx(o, Moves(t, v)) /\ UNCHANGED queue
     \/ Need[o][v] <= stock[v] /\ Waits(o, v)
  /\ UNCHANGED <<stock, status, events, cut, aborts>>

(* The increment of one line by a cancel.                                   *)
GiveStock(o, v) ==
  LET t == tx[o] IN
  /\ status[o] = "cancelled" /\ t.pc = "run" /\ v \in t.left
  /\ \/ Open(v) /\ Tx(o, Moves(t, v)) /\ UNCHANGED queue
     \/ Waits(o, v)
  /\ UNCHANGED <<stock, status, events, cut, aborts>>

Dequeue(o, v) == queue[v] # <<>> /\ Head(queue[v]) = o /\ queue' = [queue EXCEPT ![v] = Tail(@)]

(* The row is free, and it is the order's turn: the condition is looked at   *)
(* again, on what was committed meanwhile.                                  *)
Granted(o) ==
  LET t == tx[o] IN
  /\ t.pc = "wait"
  /\ \E v \in t.at :
       /\ Free(v) /\ Dequeue(o, v)
       /\ Tx(o, IF status[o] = "pending" /\ Need[o][v] > stock[v]
                THEN Runs(t, {v}) ELSE Moves(t, v))
  /\ UNCHANGED <<stock, status, events, cut, aborts>>

(* Mutant: the units that were taken stay taken.                            *)
GiveBack_mutant(o) ==
  /\ tx[o].pc = "giveBack"
  /\ Tx(o, [tx[o] EXCEPT !.pc = "run"])
  /\ UNCHANGED <<stock, status, events, queue, cut, aborts>>

(* What the order took before is given back; it holds those rows.           *)
GiveBack(o) ==
  /\ tx[o].pc = "giveBack"
  /\ Tx(o, [tx[o] EXCEPT !.pc = "run", !.took = {}])
  /\ UNCHANGED <<stock, status, events, queue, cut, aborts>>

(* The transaction commits, its locks go.                                   *)
CommitSale(o) ==
  LET t == tx[o] IN
  /\ status[o] = "pending" /\ t.pc = "run" /\ t.left = {}
  /\ stock' = [v \in Goods |-> IF v \in t.took THEN stock[v] - Need[o][v] ELSE stock[v]]
  /\ status' = [status EXCEPT ![o] = IF t.short THEN "short" ELSE "confirmed"]
  /\ events' = events \cup {o}
  /\ Tx(o, NoTx)
  /\ UNCHANGED <<queue, cut, aborts>>

CommitRestock(o) ==
  LET t == tx[o] IN
  /\ status[o] = "cancelled" /\ t.pc = "run" /\ t.left = {}
  /\ stock' = [v \in Goods |-> IF v \in t.took THEN stock[v] + Need[o][v] ELSE stock[v]]
  /\ status' = [status EXCEPT ![o] = "restocked"]
  /\ Tx(o, NoTx)
  /\ UNCHANGED <<events, queue, cut, aborts>>

-----------------------------------------------------------------------------
(* Mutant: the order is cancelled and refunded, and that is that.           *)
CancelPaidOrder_mutant(o) ==
  /\ status[o] = "confirmed"
  /\ status' = [status EXCEPT ![o] = "cancelled"]
  /\ UNCHANGED <<stock, events, tx, queue, cut, aborts>>

(* cancelPaidOrder claims the order and refunds it; then it restocks.       *)
CancelPaidOrder(o) ==
  /\ status[o] = "confirmed"
  /\ status' = [status EXCEPT ![o] = "cancelled"]
  /\ Tx(o, [NoTx EXCEPT !.pc = "items"])
  /\ UNCHANGED <<stock, events, queue, cut, aborts>>

ReadItems(o) ==
  /\ tx[o].pc = "items"
  /\ Tx(o, [NoTx EXCEPT !.pc = "run", !.left = Lines(o)])
  /\ UNCHANGED <<stock, status, events, queue, cut, aborts>>

(* Mutant: the event is recorded before the transaction, not in it.         *)
RollBack_mutant(o) ==
  /\ Tx(o, NoTx)
  /\ queue' = [v \in Goods |-> SelectSeq(queue[v], LAMBDA q : q # o)]
  /\ cut' = IF status[o] = "cancelled" THEN cut \cup {o} ELSE cut
  /\ events' = events \cup {o}
  /\ UNCHANGED <<stock, status>>

(* Nothing of a transaction that is rolled back remains, the recorded event  *)
(* included; a restock is not tried again.                                  *)
RollBack(o) ==
  /\ Tx(o, NoTx)
  /\ queue' = [v \in Goods |-> SelectSeq(queue[v], LAMBDA q : q # o)]
  /\ cut' = IF status[o] = "cancelled" THEN cut \cup {o} ELSE cut
  /\ UNCHANGED <<stock, status, events>>

(* A restart, a lost connection, or the time limit of a transaction.        *)
Fault(o) ==
  /\ aborts < MaxAborts
  /\ tx[o].pc # "none"
  /\ aborts' = aborts + 1
  /\ RollBack(o)

WaitsFor(o, q) == o # q /\ tx[o].at # {} /\ tx[o].at \subseteq tx[q].locks

(* Each of the orders waits for a row that another of them holds, and holds  *)
(* one that another waits for.                                              *)
Cycle(orders) ==
  \A o \in orders : (\E q \in orders : WaitsFor(o, q)) /\ (\E q \in orders : WaitsFor(q, o))

(* Postgres rolls back one of the transactions of a cycle.                  *)
BreakDeadlock(o) ==
  /\ \E orders \in SUBSET Paid : o \in orders /\ Cycle(orders)
  /\ RollBack(o)
  /\ UNCHANGED aborts

-----------------------------------------------------------------------------
StockInit ==
  /\ stock \in [Goods -> 0..MaxUnits]
  /\ status = [o \in Paid |-> "pending"]
  /\ tx = [o \in Paid |-> NoTx]
  /\ queue = [v \in Goods |-> <<>>]
  /\ events = {} /\ cut = {} /\ aborts = 0

Statement(o) ==
  \/ \E v \in Goods : TakeStock(o, v) \/ GiveStock(o, v)
  \/ GiveBack(o) \/ CommitSale(o) \/ CommitRestock(o) \/ ReadItems(o)

StockNext ==
  \E o \in Paid :
    \/ Deliver(o) \/ Statement(o) \/ Granted(o)
    \/ CancelPaidOrder(o) \/ Fault(o) \/ BreakDeadlock(o)

(* Stripe delivers again, statements are executed, free rows are granted and *)
(* deadlocks broken.  Cancels and faults need not happen.                   *)
StockFairness ==
  /\ \A o \in Paid : /\ WF_stockVars(Deliver(o)) /\ WF_stockVars(Statement(o))
                     /\ SF_stockVars(Granted(o))
  /\ WF_stockVars(\E o \in Paid : BreakDeadlock(o))

StockSpec == StockInit /\ [][StockNext]_stockVars

FairStockSpec == StockSpec /\ StockFairness

-----------------------------------------------------------------------------
(* "Confirm an order on payment success, all-or-nothing" and "the condition   *)
(* is re-checked under the row lock": row by row, in any order, with waits,  *)
(* shortages, deadlocks and faults, the transactions do what AtomicStock      *)
(* does in one step.  An order is refused there from the moment it is short. *)
stateOf ==
  [o \in Paid |-> IF status[o] = "pending" /\ tx[o].short THEN "refused" ELSE status[o]]

Atomic == INSTANCE AtomicStock WITH state <- stateOf

TakesAllOrNothing == Atomic!AtomicSpec

(* Once the event of a payment has been looked at, the order is settled,      *)
(* whatever deadlocks with it: Stripe delivers again what a rollback forgot.  *)
EveryOrderSettles == \A o \in Paid : tx[o].pc # "none" ~> status[o] # "pending"

(* The units of an order that was cancelled come back, unless the restock was *)
(* cut off: it runs after the refund, in a transaction nobody tries again.  *)
RestockedUnlessCutOff ==
  \A o \in Paid : status[o] = "cancelled" ~> status[o] = "restocked" \/ o \in cut
=============================================================================
