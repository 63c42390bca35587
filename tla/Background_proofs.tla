------------------------ MODULE Background_proofs ------------------------
(***************************************************************************)
(* Theorems about what runs behind the requests, for every value of the     *)
(* constants: the transactions that take stock, the cron that reminds the   *)
(* owners of abandoned carts, and the carts themselves.                     *)
(***************************************************************************)
EXTENDS StockTransaction, AbandonedCart, SequenceTheorems, TLAPS

-----------------------------------------------------------------------------
(***************************************************************************)
(* That the transactions of StockTransaction, row by row, implement          *)
(* AtomicStock, for any orders, variants, needs and faults.  The moment of a  *)
(* sale is its commit: what it took by then is locked, so that no other       *)
(* order's commit has touched those rows since it looked at them.            *)
(***************************************************************************)

Transactions ==
  [pc : {"none", "items", "run", "wait", "giveBack"}, left : SUBSET Goods,
   at : SUBSET Goods, took : SUBSET Goods, locks : SUBSET Goods, short : BOOLEAN]

(* The rows and the transactions have their shape.                          *)
StockTypes ==
  /\ stock \in [Goods -> Nat]
  /\ status \in [Paid -> {"pending", "short", "confirmed", "cancelled", "restocked"}]
  /\ tx \in [Paid -> Transactions]

(* A row is locked by one transaction at a time.                            *)
LocksInv == \A o, q \in Paid : o # q => tx[o].locks \cap tx[q].locks = {}

(* What a transaction t on order o, in status s, has got to: it moved units  *)
(* of rows it holds only; what a sale took is still there, as committed; no   *)
(* line is lost while it runs, and once it is short it only gives back.      *)
Fits(o, t, s) ==
  /\ t.took \subseteq t.locks
  /\ s = "pending" => \A v \in t.took : Need[o][v] <= stock[v]
  /\ t.pc = "none" => t = NoTx
  /\ t.pc # "none" => s \in {"pending", "cancelled"}
  /\ t.pc = "items" => s = "cancelled"
  /\ t.pc \in {"run", "wait"} /\ ~t.short => Lines(o) \subseteq t.left \cup t.took
  /\ t.short => /\ s = "pending" /\ t.left = {} /\ t.at = {}
                /\ t.pc = "giveBack" \/ (t.pc = "run" /\ t.took = {})
  /\ t.pc = "giveBack" => t.short

ProgressInv == \A o \in Paid : Fits(o, tx[o], status[o])

StockInv == StockTypes /\ LocksInv /\ ProgressInv

(* A step of the transactions is a step of AtomicStock, or none.             *)
Implements == [Atomic!AtomicNext]_<<stock, stateOf>>

-----------------------------------------------------------------------------
LEMMA InitStock == StockInit => StockInv
BY StockAssumption
   DEF StockInit, StockInv, StockTypes, Transactions, LocksInv, ProgressInv, Fits, NoTx, Lines

LEMMA InitAtomic == StockInit => Atomic!AtomicInit
BY StockAssumption DEF StockInit, Atomic!AtomicInit, stateOf, NoTx

LEMMA NoTxType == NoTx \in Transactions
BY DEF NoTx, Transactions

(* A step of order o that commits nothing has only its own record to answer  *)
(* for.                                                                     *)
LEMMA OwnRecord ==
  ASSUME StockInv, NEW o \in Paid, NEW t \in Transactions,
         Tx(o, t), stock' = stock, status' = status,
         Fits(o, t, status[o]),
         \A q \in Paid : q # o => t.locks \cap tx[q].locks = {}
  PROVE  StockInv'
<1>1. tx' \in [Paid -> Transactions] /\ tx'[o] = t /\ \A q \in Paid : q # o => tx'[q] = tx[q]
  BY DEF StockInv, StockTypes, Tx
<1>2. StockTypes'
  BY <1>1 DEF StockInv, StockTypes
<1>3. LocksInv'
  BY <1>1 DEF StockInv, LocksInv
<1>4. ASSUME NEW q \in Paid PROVE Fits(q, tx[q], status[q])'
  <2>1. CASE q = o
    BY <2>1, <1>1 DEF Fits, NoTx, Lines
  <2>2. CASE q # o
    <3>1. Fits(q, tx[q], status[q])
      BY DEF StockInv, ProgressInv
    <3>2. QED
      BY <2>2, <3>1, <1>1 DEF Fits, NoTx, Lines
  <2>3. QED
    BY <2>1, <2>2
<1>5. QED
  BY <1>2, <1>3, <1>4 DEF StockInv, ProgressInv

(* To AtomicStock, such a step is invisible while the order does not become   *)
(* short.                                                                   *)
LEMMA Invisible ==
  ASSUME StockInv, NEW o \in Paid, NEW t \in Transactions,
         Tx(o, t), stock' = stock, status' = status, t.short = tx[o].short
  PROVE  Implements
<1>1. stateOf' = stateOf
  <2>1. \A q \in Paid : tx'[q].short = tx[q].short
    BY DEF StockInv, StockTypes, Tx
  <2>2. QED
    BY <2>1 DEF stateOf
<1>2. QED
  BY <1>1 DEF Implements

(* The order becomes short, and AtomicStock refuses it.                      *)
LEMMA Refuses ==
  ASSUME StockInv, NEW o \in Paid, NEW t \in Transactions,
         Tx(o, t), stock' = stock, status' = status,
         status[o] = "pending", ~tx[o].short, t.short,
         NEW v \in Goods, Need[o][v] > stock[v]
  PROVE  Implements
<1>1. stateOf' = [stateOf EXCEPT ![o] = "refused"] /\ stateOf[o] = "pending"
  <2>1. tx'[o] = t /\ \A q \in Paid : q # o => tx'[q] = tx[q]
    BY DEF StockInv, StockTypes, Tx
  <2>2. QED
    BY <2>1 DEF stateOf
<1>2. ~Atomic!Enough(o)
  <2>1. stock[v] \in Nat /\ Need[o][v] \in Nat
    BY StockAssumption DEF StockInv, StockTypes
  <2>2. QED
    BY <2>1 DEF Atomic!Enough
<1>3. Atomic!RunShort(o)
  BY <1>1, <1>2 DEF Atomic!RunShort, Atomic!Become
<1>4. QED
  BY <1>3 DEF Implements, Atomic!AtomicNext

-----------------------------------------------------------------------------
(* What a lemma needs of one order's record.                                *)
LEMMA Record ==
  ASSUME StockInv, NEW o \in Paid
  PROVE  /\ tx[o] \in Transactions /\ Fits(o, tx[o], status[o])
         /\ \A v \in Goods : stock[v] \in Nat /\ Need[o][v] \in Nat
         /\ \A q \in Paid : q # o => tx[o].locks \cap tx[q].locks = {}
BY StockAssumption DEF StockInv, StockTypes, LocksInv, ProgressInv

LEMMA MovesType ==
  ASSUME NEW t \in Transactions, NEW v \in Goods
  PROVE  Moves(t, v) \in Transactions
BY DEF Moves, Transactions

LEMMA RunsType ==
  ASSUME NEW t \in Transactions, NEW locked \in SUBSET Goods
  PROVE  Runs(t, locked) \in Transactions
BY DEF Runs, Transactions

(* A free row is taken.                                                     *)
LEMMA MovesStep ==
  ASSUME StockInv, NEW o \in Paid, NEW v \in Goods,
         tx[o].pc \in {"run", "wait"}, ~tx[o].short, Free(v),
         status[o] = "pending" => Need[o][v] <= stock[v],
         Tx(o, Moves(tx[o], v)), stock' = stock, status' = status
  PROVE  StockInv' /\ Implements
<1> DEFINE t == Moves(tx[o], v)
<1>1. t \in Transactions
  BY Record, MovesType
<1>2. /\ tx[o] \in Transactions /\ Fits(o, tx[o], status[o])
      /\ \A q \in Paid : q # o => tx[o].locks \cap tx[q].locks = {}
  BY Record
<1>3. /\ t.pc = "run" /\ t.left = tx[o].left \ {v} /\ t.at = {}
      /\ t.took = tx[o].took \cup {v} /\ t.locks = tx[o].locks \cup {v}
      /\ t.short = tx[o].short
  BY <1>2 DEF Moves, Transactions
<1>4. Fits(o, t, status[o])
  <2> HIDE DEF t
  <2>1. t.took \subseteq t.locks
    BY <1>2, <1>3 DEF Fits
  <2>2. status[o] = "pending" => \A w \in t.took : Need[o][w] <= stock[w]
    BY <1>2, <1>3 DEF Fits
  <2>3. status[o] \in {"pending", "cancelled"}
    BY <1>2 DEF Fits
  <2>4. Lines(o) \subseteq t.left \cup t.took
    BY <1>2, <1>3 DEF Fits
  <2>5. QED
    BY <1>3, <2>1, <2>2, <2>3, <2>4 DEF Fits
<1>5. \A q \in Paid : q # o => t.locks \cap tx[q].locks = {}
  BY <1>2, <1>3 DEF Free
<1>6. StockInv'
  BY <1>1, <1>4, <1>5, OwnRecord
<1>7. Implements
  BY <1>1, <1>3, Invisible
<1>8. QED
  BY <1>6, <1>7

(* The stock does not suffice.                                              *)
LEMMA RunsStep ==
  ASSUME StockInv, NEW o \in Paid, NEW v \in Goods, NEW locked \in SUBSET Goods,
         tx[o].pc \in {"run", "wait"}, ~tx[o].short, \A w \in locked : Free(w),
         status[o] = "pending", Need[o][v] > stock[v],
         Tx(o, Runs(tx[o], locked)), stock' = stock, status' = status
  PROVE  StockInv' /\ Implements
<1> DEFINE t == Runs(tx[o], locked)
<1>1. t \in Transactions
  BY Record, RunsType
<1>2. /\ tx[o] \in Transactions /\ Fits(o, tx[o], status[o])
      /\ \A q \in Paid : q # o => tx[o].locks \cap tx[q].locks = {}
  BY Record
<1>3. /\ t.pc = "giveBack" /\ t.left = {} /\ t.at = {} /\ t.short
      /\ t.took = tx[o].took /\ t.locks = tx[o].locks \cup locked
  BY <1>2 DEF Runs, Transactions
<1>4. Fits(o, t, status[o])
  <2> HIDE DEF t
  <2>1. QED
    BY <1>2, <1>3 DEF Fits
<1>5. \A q \in Paid : q # o => t.locks \cap tx[q].locks = {}
  BY <1>2, <1>3 DEF Free
<1>6. StockInv'
  BY <1>1, <1>4, <1>5, OwnRecord
<1>7. Implements
  BY <1>1, <1>3, Refuses
<1>8. QED
  BY <1>6, <1>7

(* The transaction waits.                                                   *)
LEMMA WaitsStep ==
  ASSUME StockInv, NEW o \in Paid, NEW v \in Goods,
         tx[o].pc = "run", ~tx[o].short, Waits(o, v),
         stock' = stock, status' = status
  PROVE  StockInv' /\ Implements
<1> DEFINE t == [tx[o] EXCEPT !.pc = "wait", !.at = {v}]
<1>2. /\ tx[o] \in Transactions /\ Fits(o, tx[o], status[o])
      /\ \A q \in Paid : q # o => tx[o].locks \cap tx[q].locks = {}
  BY Record
<1>1. t \in Transactions
  BY <1>2 DEF Transactions
<1>3. /\ t.pc = "wait" /\ t.left = tx[o].left /\ t.at = {v} /\ t.short = tx[o].short
      /\ t.took = tx[o].took /\ t.locks = tx[o].locks
  BY <1>2 DEF Transactions
<1>4. Fits(o, t, status[o])
  <2> HIDE DEF t
  <2>1. QED
    BY <1>2, <1>3 DEF Fits
<1>5. Tx(o, t)
  BY DEF Waits
<1>6. \A q \in Paid : q # o => t.locks \cap tx[q].locks = {}
  BY <1>2, <1>3
<1>7. StockInv'
  BY <1>1, <1>4, <1>5, <1>6, OwnRecord
<1>8. Implements
  BY <1>1, <1>3, <1>5, Invisible
<1>9. QED
  BY <1>7, <1>8

-----------------------------------------------------------------------------
LEMMA DeliverStep ==
  ASSUME StockInv, NEW o \in Paid, Deliver(o)
  PROVE  StockInv' /\ Implements
<1> DEFINE t == [NoTx EXCEPT !.pc = "run", !.left = Lines(o)]
<1>1. t \in Transactions
  BY DEF NoTx, Transactions, Lines
<1>2. t.pc = "run" /\ t.left = Lines(o) /\ t.took = {} /\ t.locks = {} /\ ~t.short
  BY DEF NoTx
<1>3. Fits(o, tx[o], status[o])
  BY Record
<1>4. tx[o] = NoTx /\ status[o] = "pending" /\ stock' = stock /\ status' = status /\ Tx(o, t)
  BY <1>3 DEF Fits, Deliver
<1>5. Fits(o, t, status[o])
  <2> HIDE DEF t
  <2>1. QED
    BY <1>2, <1>4 DEF Fits
<1>6. \A q \in Paid : q # o => t.locks \cap tx[q].locks = {}
  BY <1>2
<1>7. StockInv'
  BY <1>1, <1>4, <1>5, <1>6, OwnRecord
<1>8. Implements
  BY <1>1, <1>2, <1>4, Invisible DEF NoTx
<1>9. QED
  BY <1>7, <1>8

LEMMA TakeStockStep ==
  ASSUME StockInv, NEW o \in Paid, NEW v \in Goods, TakeStock(o, v)
  PROVE  StockInv' /\ Implements
<1>1. /\ status[o] = "pending" /\ tx[o].pc = "run" /\ v \in tx[o].left
      /\ stock' = stock /\ status' = status
  BY DEF TakeStock
<1>2. ~tx[o].short
  BY <1>1, Record DEF Fits
<1>3. CASE Need[o][v] > stock[v] /\ Tx(o, Runs(tx[o], {}))
  BY <1>1, <1>2, <1>3, RunsStep
<1>4. CASE Need[o][v] <= stock[v] /\ Open(v) /\ Tx(o, Moves(tx[o], v))
  BY <1>1, <1>2, <1>4, MovesStep DEF Open
<1>5. CASE Waits(o, v)
  BY <1>1, <1>2, <1>5, WaitsStep
<1>6. QED
  BY <1>3, <1>4, <1>5 DEF TakeStock

LEMMA GiveStockStep ==
  ASSUME StockInv, NEW o \in Paid, NEW v \in Goods, GiveStock(o, v)
  PROVE  StockInv' /\ Implements
<1>1. /\ status[o] = "cancelled" /\ tx[o].pc = "run"
      /\ stock' = stock /\ status' = status
  BY DEF GiveStock
<1>2. ~tx[o].short
  BY <1>1, Record DEF Fits
<1>3. CASE Open(v) /\ Tx(o, Moves(tx[o], v))
  BY <1>1, <1>2, <1>3, MovesStep DEF Open
<1>4. CASE Waits(o, v)
  BY <1>1, <1>2, <1>4, WaitsStep
<1>5. QED
  BY <1>3, <1>4 DEF GiveStock

LEMMA GrantedStep ==
  ASSUME StockInv, NEW o \in Paid, Granted(o)
  PROVE  StockInv' /\ Implements
<1>1. PICK v \in tx[o].at :
        /\ Free(v)
        /\ Tx(o, IF status[o] = "pending" /\ Need[o][v] > stock[v]
                 THEN Runs(tx[o], {v}) ELSE Moves(tx[o], v))
  BY DEF Granted
<1>2. tx[o].pc = "wait" /\ stock' = stock /\ status' = status
  BY DEF Granted
<1>3. tx[o] \in Transactions /\ Fits(o, tx[o], status[o])
  BY Record
<1>4. v \in Goods /\ ~tx[o].short
  BY <1>2, <1>3 DEF Transactions, Fits
<1>5. CASE status[o] = "pending" /\ Need[o][v] > stock[v]
  BY <1>1, <1>2, <1>4, <1>5, RunsStep
<1>6. CASE ~(status[o] = "pending" /\ Need[o][v] > stock[v])
  <2>1. status[o] = "pending" => Need[o][v] <= stock[v]
    BY <1>4, <1>6, Record
  <2>2. QED
    BY <1>1, <1>2, <1>4, <1>6, <2>1, MovesStep
<1>7. QED
  BY <1>5, <1>6

LEMMA GiveBackStep ==
  ASSUME StockInv, NEW o \in Paid, GiveBack(o)
  PROVE  StockInv' /\ Implements
<1> DEFINE t == [tx[o] EXCEPT !.pc = "run", !.took = {}]
<1>1. /\ tx[o] \in Transactions /\ Fits(o, tx[o], status[o])
      /\ \A q \in Paid : q # o => tx[o].locks \cap tx[q].locks = {}
  BY Record
<1>2. /\ t \in Transactions
      /\ t.pc = "run" /\ t.left = tx[o].left /\ t.at = tx[o].at /\ t.took = {}
      /\ t.locks = tx[o].locks /\ t.short = tx[o].short
  BY <1>1 DEF Transactions
<1>3. tx[o].pc = "giveBack" /\ Tx(o, t) /\ stock' = stock /\ status' = status
  BY DEF GiveBack
<1>4. Fits(o, t, status[o])
  <2> HIDE DEF t
  <2>1. QED
    BY <1>1, <1>2, <1>3 DEF Fits
<1>5. \A q \in Paid : q # o => t.locks \cap tx[q].locks = {}
  BY <1>1, <1>2
<1>6. StockInv'
  BY <1>2, <1>3, <1>4, <1>5, OwnRecord
<1>7. Implements
  BY <1>2, <1>3, Invisible
<1>8. QED
  BY <1>6, <1>7

LEMMA ReadItemsStep ==
  ASSUME StockInv, NEW o \in Paid, ReadItems(o)
  PROVE  StockInv' /\ Implements
<1> DEFINE t == [NoTx EXCEPT !.pc = "run", !.left = Lines(o)]
<1>1. t \in Transactions
  BY DEF NoTx, Transactions, Lines
<1>2. t.pc = "run" /\ t.left = Lines(o) /\ t.took = {} /\ t.locks = {} /\ ~t.short
  BY DEF NoTx
<1>3. tx[o].pc = "items" /\ stock' = stock /\ status' = status /\ Tx(o, t)
  BY DEF ReadItems
<1>4. status[o] = "cancelled" /\ tx[o].short \in BOOLEAN /\ ~tx[o].short
  BY <1>3, Record DEF Fits, Transactions
<1>5. Fits(o, t, status[o])
  <2> HIDE DEF t
  <2>1. QED
    BY <1>2, <1>4 DEF Fits
<1>6. \A q \in Paid : q # o => t.locks \cap tx[q].locks = {}
  BY <1>2
<1>7. StockInv'
  BY <1>1, <1>3, <1>5, <1>6, OwnRecord
<1>8. t.short = tx[o].short
  BY <1>2, <1>4 DEF NoTx
<1>9. Implements
  BY <1>1, <1>3, <1>8, Invisible
<1>10. QED
  BY <1>7, <1>9

(* A rollback loses the refusal of an order that had run short.             *)
LEMMA RollBackStep ==
  ASSUME StockInv, NEW o \in Paid, RollBack(o)
  PROVE  StockInv' /\ Implements
<1>1. Tx(o, NoTx) /\ stock' = stock /\ status' = status
  BY DEF RollBack
<1>2. Fits(o, NoTx, status[o])
  BY DEF Fits, NoTx
<1>3. \A q \in Paid : q # o => NoTx.locks \cap tx[q].locks = {}
  BY DEF NoTx
<1>4. StockInv'
  BY <1>1, <1>2, <1>3, NoTxType, OwnRecord
<1>5. tx[o] \in Transactions /\ Fits(o, tx[o], status[o])
  BY Record
<1>6. CASE tx[o].short
  <2>1. status[o] = "pending"
    BY <1>5, <1>6 DEF Fits
  <2>2. ~tx'[o].short /\ \A q \in Paid : q # o => tx'[q] = tx[q]
    BY <1>1 DEF StockInv, StockTypes, Tx, NoTx
  <2>3. stateOf[o] = "refused" /\ stateOf' = [stateOf EXCEPT ![o] = "pending"]
    BY <1>1, <1>6, <2>1, <2>2 DEF stateOf
  <2>4. Atomic!Retry(o)
    BY <1>1, <2>3 DEF Atomic!Retry, Atomic!Become
  <2>5. QED
    BY <1>4, <2>4 DEF Implements, Atomic!AtomicNext
<1>7. CASE ~tx[o].short
  <2>1. NoTx.short = tx[o].short
    BY <1>5, <1>7 DEF NoTx, Transactions
  <2>2. QED
    BY <1>1, <1>4, <2>1, NoTxType, Invisible
<1>8. QED
  BY <1>4, <1>6, <1>7, <1>5 DEF Transactions

LEMMA CancelStep ==
  ASSUME StockInv, NEW o \in Paid, CancelPaidOrder(o)
  PROVE  StockInv' /\ Implements
<1> DEFINE t == [NoTx EXCEPT !.pc = "items"]
<1>1. /\ status[o] = "confirmed" /\ status' = [status EXCEPT ![o] = "cancelled"]
      /\ Tx(o, t) /\ stock' = stock
  BY DEF CancelPaidOrder
<1>2. t \in Transactions /\ t.pc = "items" /\ t.took = {} /\ t.locks = {} /\ ~t.short
  BY DEF NoTx, Transactions
<1>3. tx' \in [Paid -> Transactions] /\ tx'[o] = t /\ \A q \in Paid : q # o => tx'[q] = tx[q]
  BY <1>1, <1>2 DEF StockInv, StockTypes, Tx
<1>4. status'[o] = "cancelled" /\ \A q \in Paid : q # o => status'[q] = status[q]
  BY <1>1 DEF StockInv, StockTypes
<1>5. StockTypes'
  BY <1>1, <1>3 DEF StockInv, StockTypes
<1>6. LocksInv'
  BY <1>2, <1>3 DEF StockInv, LocksInv
<1>7. ASSUME NEW q \in Paid PROVE Fits(q, tx[q], status[q])'
  <2>1. CASE q = o
    <3> HIDE DEF t
    <3>1. QED
      BY <1>1, <1>2, <1>3, <1>4, <2>1 DEF Fits
  <2>2. CASE q # o
    <3>1. Fits(q, tx[q], status[q])
      BY DEF StockInv, ProgressInv
    <3>2. QED
      BY <2>2, <3>1, <1>1, <1>3, <1>4 DEF Fits, NoTx, Lines
  <2>3. QED
    BY <2>1, <2>2
<1>8. stateOf[o] = "confirmed" /\ stateOf' = [stateOf EXCEPT ![o] = "cancelled"]
  <2> HIDE DEF t
  <2>1. QED
    BY <1>1, <1>2, <1>3, <1>4 DEF stateOf
<1>9. Atomic!Cancel(o)
  BY <1>1, <1>8 DEF Atomic!Cancel, Atomic!Become
<1>10. QED
  BY <1>5, <1>6, <1>7, <1>9 DEF StockInv, ProgressInv, Implements, Atomic!AtomicNext

-----------------------------------------------------------------------------
(* At a commit every line of the order has its row in took, or the order is  *)
(* short and took nothing.                                                  *)
LEMMA AllLines ==
  ASSUME StockInv, NEW o \in Paid, tx[o].pc = "run", tx[o].left = {}
  PROVE  /\ tx[o].short => tx[o].took = {}
         /\ ~tx[o].short => \A v \in Goods : v \notin tx[o].took => Need[o][v] = 0
<1>1. Fits(o, tx[o], status[o]) /\ \A v \in Goods : Need[o][v] \in Nat
  BY Record
<1>2. ~tx[o].short => Lines(o) \subseteq tx[o].took
  BY <1>1 DEF Fits
<1>3. QED
  BY <1>1, <1>2 DEF Fits, Lines

(* A commit of order o: its record is gone, and what the others took is      *)
(* untouched, as they hold those rows.                                      *)
LEMMA Commits ==
  ASSUME StockInv, NEW o \in Paid, Tx(o, NoTx), stock' \in [Goods -> Nat],
         \A v \in Goods : v \notin tx[o].took => stock'[v] = stock[v],
         NEW s \in {"short", "confirmed", "restocked"}, status' = [status EXCEPT ![o] = s]
  PROVE  /\ StockInv'
         /\ stateOf' = [stateOf EXCEPT ![o] = s]
<1>1. tx' \in [Paid -> Transactions] /\ tx'[o] = NoTx /\ \A q \in Paid : q # o => tx'[q] = tx[q]
  BY NoTxType DEF StockInv, StockTypes, Tx
<1>2. status'[o] = s /\ \A q \in Paid : q # o => status'[q] = status[q]
  BY DEF StockInv, StockTypes
<1>3. StockTypes'
  BY <1>1 DEF StockInv, StockTypes
<1>4. LocksInv'
  BY <1>1 DEF StockInv, LocksInv, NoTx
<1>5. ASSUME NEW q \in Paid PROVE Fits(q, tx[q], status[q])'
  <2>1. CASE q = o
    BY <1>1, <1>2, <2>1 DEF Fits, NoTx
  <2>2. CASE q # o
    <3>1. /\ tx[q] \in Transactions /\ Fits(q, tx[q], status[q]) /\ Fits(o, tx[o], status[o])
          /\ tx[o].locks \cap tx[q].locks = {}
      BY <2>2, Record
    <3>2. \A v \in tx[q].took : v \in Goods /\ stock'[v] = stock[v]
      BY <3>1 DEF Fits, Transactions
    <3>3. QED
      BY <2>2, <3>1, <3>2, <1>1, <1>2 DEF Fits, NoTx, Lines
  <2>3. QED
    BY <2>1, <2>2
<1>6. StockInv'
  BY <1>3, <1>4, <1>5 DEF StockInv, ProgressInv
<1>7. stateOf' = [stateOf EXCEPT ![o] = s]
  BY <1>1, <1>2 DEF stateOf, NoTx
<1>8. QED
  BY <1>6, <1>7

LEMMA CommitSaleStep ==
  ASSUME StockInv, NEW o \in Paid, CommitSale(o)
  PROVE  StockInv' /\ Implements
<1>1. /\ status[o] = "pending" /\ tx[o].pc = "run" /\ tx[o].left = {} /\ Tx(o, NoTx)
      /\ stock' = [v \in Goods |-> IF v \in tx[o].took THEN stock[v] - Need[o][v] ELSE stock[v]]
      /\ status' = [status EXCEPT ![o] = IF tx[o].short THEN "short" ELSE "confirmed"]
  BY DEF CommitSale
<1>2. /\ tx[o] \in Transactions /\ Fits(o, tx[o], status[o])
      /\ \A v \in Goods : stock[v] \in Nat /\ Need[o][v] \in Nat
  BY Record
<1>3. \A v \in tx[o].took : Need[o][v] <= stock[v]
  BY <1>1, <1>2 DEF Fits
<1>4. stock' \in [Goods -> Nat] /\ \A v \in Goods : v \notin tx[o].took => stock'[v] = stock[v]
  BY <1>1, <1>2, <1>3
<1>5. CASE tx[o].short
  <2>1. status' = [status EXCEPT ![o] = "short"]
    BY <1>1, <1>5
  <2>2. StockInv' /\ stateOf' = [stateOf EXCEPT ![o] = "short"]
    BY <1>1, <1>4, <2>1, Commits
  <2>3. stock' = stock
    BY <1>1, <1>4, <1>5, AllLines DEF StockInv, StockTypes
  <2>4. stateOf[o] = "refused"
    BY <1>1, <1>5 DEF stateOf
  <2>5. Atomic!GiveUp(o)
    BY <2>2, <2>3, <2>4 DEF Atomic!GiveUp, Atomic!Become
  <2>6. QED
    BY <2>2, <2>5 DEF Implements, Atomic!AtomicNext
<1>6. CASE ~tx[o].short
  <2>1. status' = [status EXCEPT ![o] = "confirmed"]
    BY <1>1, <1>6
  <2>2. StockInv' /\ stateOf' = [stateOf EXCEPT ![o] = "confirmed"]
    BY <1>1, <1>4, <2>1, Commits
  <2>3. \A v \in Goods : v \notin tx[o].took => Need[o][v] = 0
    BY <1>1, <1>6, AllLines
  <2>4. \A v \in Goods : Need[o][v] <= stock[v] /\ stock'[v] = stock[v] - Need[o][v]
    BY <1>1, <1>2, <1>3, <2>3
  <2>5. stock' = [v \in Goods |-> stock[v] - Need[o][v]]
    BY <1>4, <2>4
  <2>6. stateOf[o] = "pending"
    BY <1>1, <1>6 DEF stateOf
  <2>7. Atomic!Sell(o)
    BY <2>2, <2>4, <2>5, <2>6 DEF Atomic!Sell, Atomic!Enough, Atomic!Become
  <2>8. QED
    BY <2>2, <2>7 DEF Implements, Atomic!AtomicNext
<1>7. QED
  BY <1>5, <1>6

LEMMA CommitRestockStep ==
  ASSUME StockInv, NEW o \in Paid, CommitRestock(o)
  PROVE  StockInv' /\ Implements
<1>1. /\ status[o] = "cancelled" /\ tx[o].pc = "run" /\ tx[o].left = {} /\ Tx(o, NoTx)
      /\ stock' = [v \in Goods |-> IF v \in tx[o].took THEN stock[v] + Need[o][v] ELSE stock[v]]
      /\ status' = [status EXCEPT ![o] = "restocked"]
  BY DEF CommitRestock
<1>2. Fits(o, tx[o], status[o]) /\ \A v \in Goods : stock[v] \in Nat /\ Need[o][v] \in Nat
  BY Record
<1>3. stock' \in [Goods -> Nat] /\ \A v \in Goods : v \notin tx[o].took => stock'[v] = stock[v]
  BY <1>1, <1>2
<1>4. StockInv' /\ stateOf' = [stateOf EXCEPT ![o] = "restocked"]
  BY <1>1, <1>3, Commits
<1>5. \A v \in Goods : v \notin tx[o].took => Need[o][v] = 0
  BY <1>1, <1>2, AllLines DEF Fits
<1>6. \A v \in Goods : stock'[v] = stock[v] + Need[o][v]
  BY <1>1, <1>2, <1>5
<1>7. stock' = [v \in Goods |-> stock[v] + Need[o][v]]
  BY <1>3, <1>6
<1>8. stateOf[o] = "cancelled"
  BY <1>1 DEF stateOf
<1>9. Atomic!Restock(o)
  BY <1>4, <1>7, <1>8 DEF Atomic!Restock, Atomic!Become
<1>10. QED
  BY <1>4, <1>9 DEF Implements, Atomic!AtomicNext

-----------------------------------------------------------------------------
LEMMA StockStep == StockInv /\ [StockNext]_stockVars => StockInv' /\ Implements
<1> SUFFICES ASSUME StockInv, [StockNext]_stockVars PROVE StockInv' /\ Implements
  OBVIOUS
<1>1. CASE UNCHANGED stockVars
  <2>1. StockInv'
    BY <1>1 DEF stockVars, StockInv, StockTypes, LocksInv, ProgressInv, Fits, NoTx, Lines
  <2>2. stateOf' = stateOf /\ stock' = stock
    BY <1>1 DEF stockVars, stateOf
  <2>3. QED
    BY <2>1, <2>2 DEF Implements
<1>2. ASSUME NEW o \in Paid,
             \/ Deliver(o) \/ Statement(o) \/ Granted(o)
             \/ CancelPaidOrder(o) \/ Fault(o) \/ BreakDeadlock(o)
      PROVE  StockInv' /\ Implements
  <2>1. CASE Deliver(o)
    BY <2>1, DeliverStep
  <2>2. CASE Statement(o)
    BY <2>2, TakeStockStep, GiveStockStep, GiveBackStep, CommitSaleStep, CommitRestockStep,
       ReadItemsStep DEF Statement
  <2>3. CASE Granted(o)
    BY <2>3, GrantedStep
  <2>4. CASE CancelPaidOrder(o)
    BY <2>4, CancelStep
  <2>5. CASE Fault(o)
    BY <2>5, RollBackStep DEF Fault
  <2>6. CASE BreakDeadlock(o)
    BY <2>6, RollBackStep DEF BreakDeadlock
  <2>7. QED
    BY <1>2, <2>1, <2>2, <2>3, <2>4, <2>5, <2>6
<1>3. QED
  BY <1>1, <1>2 DEF StockNext

(* What runs of the payment and cancel transactions do to stock, row by row,  *)
(* in any order and with any waits, deadlocks and rollbacks, AtomicStock does *)
(* in one step per sale and one per restock: the "all-or-nothing" of         *)
(* markSucceeded, for any number of orders and variants.                    *)
THEOREM StockRefinement == StockSpec => TakesAllOrNothing
<1>1. StockInit => StockInv /\ Atomic!AtomicInit
  BY InitStock, InitAtomic
<1>2. StockInv /\ [StockNext]_stockVars
        => StockInv' /\ [Atomic!AtomicNext]_<<stock, stateOf>>
  BY StockStep DEF Implements
<1>3. QED
  BY <1>1, <1>2, PTL DEF StockSpec, TakesAllOrNothing, Atomic!AtomicSpec

(***************************************************************************)
(* Reminders of idle carts, for any number of carts, calls and passes.      *)
(***************************************************************************)
CartFields == {"owner", "qty", "email", "idle", "stage", "held", "nudges"}

NudgesUpTo(stage) ==
  CASE stage = 0 -> {<<>>}
    [] stage = 1 -> {<<1>>}
    [] stage = 2 -> {<<2>>, <<1, 2>>}

(* The stage of a cart is the last of its nudges.                           *)
Staged(row) ==
  DOMAIN row = CartFields /\ row.stage \in {0, 1, 2} /\ row.nudges \in NudgesUpTo(row.stage)

StagesInv == DOMAIN cart = Carts /\ \A c \in Carts : Staged(cart[c])

(* A row that is written but for these two fields, or resets both.          *)
LEMMA RowsStaged ==
  ASSUME NEW row, Staged(row), NEW x
  PROVE  /\ Staged([row EXCEPT !.qty = x]) /\ Staged([row EXCEPT !.idle = x])
         /\ Staged([row EXCEPT !.held = x]) /\ Staged(Moved(row)) /\ Staged(Touched(row))
         /\ Staged([Moved(row) EXCEPT !.email = x]) /\ Staged([Moved(row) EXCEPT !.qty = x])
         /\ Staged([Moved(row) EXCEPT !.owner = x, !.email = TRUE])
<1>1. Staged(Moved(row))
  BY DEF Staged, Moved, CartFields
<1>2. Staged(Touched(row))
  <2>1. <<>> \in NudgesUpTo(0)
    BY DEF NudgesUpTo
  <2>. QED  BY <1>1, <2>1 DEF Staged, Touched, CartFields
<1>. QED  BY <1>1, <1>2 DEF Staged, CartFields

LEMMA NoCartStaged ==
  ASSUME NEW x, NEW y
  PROVE  Staged(NoCart) /\ Staged([NoCart EXCEPT !.owner = x, !.email = y])
  BY DEF Staged, NoCart, CartFields, NudgesUpTo

(* One cart's row is written.                                               *)
LEMMA OneRow ==
  ASSUME StagesInv, NEW c, NEW row, c \in Carts => Staged(row), cart' = [cart EXCEPT ![c] = row]
  PROVE  StagesInv'
  BY DEF StagesInv
(* A step that leaves the carts alone, or writes one row.                   *)
WritesRow ==
  \/ UNCHANGED cart
  \/ \E c \in Carts : \E row : Staged(row) /\ cart' = [cart EXCEPT ![c] = row]

LEMMA RowWritten == StagesInv /\ WritesRow => StagesInv'
  BY OneRow DEF WritesRow, StagesInv

(* A step that writes the quantity of a line, the cart of which may be gone. *)
LEMMA LineWritten ==
  ASSUME StagesInv, NEW c, NEW n, cart' = [cart EXCEPT ![c].qty = n]
  PROVE  StagesInv'
<1>1. CASE c \in Carts
  BY <1>1, RowsStaged, OneRow DEF StagesInv
<1>2. CASE c \notin Carts
  BY <1>2, OneRow
<1>. QED  BY <1>1, <1>2

-----------------------------------------------------------------------------
LEMMA BeginsStaged ==
  ASSUME StagesInv, NEW r \in CartCalls, BeginCall(r)
  PROVE  StagesInv'
<1>. PICK c \in Carts :
       \/ \E who \in {"guest", "user"}, n \in 1..MaxShelf : AddItem(r, who, c, n)
       \/ View(r, c) \/ \E n \in 0..MaxShelf : SetItem(r, c, n)
       \/ RemoveItem(r, c) \/ Clear(r, c) \/ ChangeCoupon(r, c) \/ Merge(r, c)
  BY DEF BeginCall
<1>1. CASE \E who \in {"guest", "user"}, n \in 1..MaxShelf : AddItem(r, who, c, n)
  <2>. PICK who \in {"guest", "user"}, n \in 1..MaxShelf : AddItem(r, who, c, n)
    BY <1>1
  <2>1. UNCHANGED cart \/ cart' = [cart EXCEPT ![c] = [NoCart EXCEPT !.owner = who, !.email = who = "user"]]
    BY DEF AddItem, ResolveForWrite
  <2>. QED  BY <2>1, NoCartStaged, OneRow DEF StagesInv
<1>2. CASE RemoveItem(r, c) \/ Clear(r, c)
  BY <1>2, LineWritten DEF RemoveItem, Clear, DeleteLine
<1>3. CASE UNCHANGED cart
  BY <1>3, RowWritten DEF WritesRow
<1>. QED  BY <1>1, <1>2, <1>3 DEF View, SetItem, ChangeCoupon, Merge

LEMMA StepsStaged ==
  ASSUME StagesInv, NEW r \in CartCalls, StepCall(r)
  PROVE  StagesInv'
<1>. DEFINE c == call[r].c
<1>1. ASSUME Exists(c) PROVE c \in Carts /\ Staged(cart[c])
  BY <1>1 DEF Exists, StagesInv
<1>2. ASSUME UNCHANGED cart PROVE StagesInv'
  BY <1>2, RowWritten DEF WritesRow
<1>3. CASE Upsert(r)
  <2>1. UNCHANGED cart \/ \E n : cart' = [cart EXCEPT ![c].qty = n]
    BY <1>3 DEF Upsert
  <2>. HIDE DEF c
  <2>. QED  BY <1>2, <2>1, LineWritten
<1>4. CASE Clamp(r)
  <2>1. UNCHANGED cart \/ \E n : cart' = [cart EXCEPT ![c].qty = n]
    BY <1>4 DEF Clamp
  <2>. HIDE DEF c
  <2>. QED  BY <1>2, <2>1, LineWritten
<1>5. CASE Touch(r)
  <2>1. UNCHANGED cart \/ (Exists(c) /\ cart' = [cart EXCEPT ![c] = Touched(cart[c])])
    BY <1>5 DEF Touch
  <2>. HIDE DEF c
  <2>. QED  BY <1>1, <1>2, <2>1, RowsStaged, OneRow
<1>6. CASE Bump(r)
  <2>1. UNCHANGED cart \/ (Exists(c) /\ cart' = [cart EXCEPT ![c] = Moved(cart[c])])
    BY <1>6 DEF Bump
  <2>. HIDE DEF c
  <2>. QED  BY <1>1, <1>2, <2>1, RowsStaged, OneRow
<1>7. CASE ClampView(r) \/ ClampLine(r) \/ WriteItem(r) \/ Fold(r)
  <2>1. UNCHANGED cart \/ \E n : cart' = [cart EXCEPT ![c].qty = n]
    BY <1>7 DEF ClampView, ClampLine, WriteItem, Fold
  <2>. HIDE DEF c
  <2>. QED  BY <1>2, <2>1, LineWritten
<1>8. CASE DropGuest(r)
  <2>. DEFINE d == call[r].from
  <2>1. UNCHANGED cart \/ cart' = [cart EXCEPT ![d] = NoCart]
    BY <1>8 DEF DropGuest
  <2>. HIDE DEF d
  <2>. QED  BY <1>2, <2>1, NoCartStaged, OneRow
<1>9. CASE Adopt(r)
  <2>. DEFINE d == call[r].from
  <2>1. \/ UNCHANGED cart
        \/ /\ d \in Carts
           /\ cart' = [cart EXCEPT ![d] = [Moved(cart[d]) EXCEPT !.owner = "user", !.email = TRUE]]
    BY <1>9 DEF Adopt, Exists
  <2>. HIDE DEF d
  <2>2. d \in Carts => Staged(cart[d])
    BY DEF StagesInv
  <2>. QED  BY <1>2, <2>1, <2>2, RowsStaged, OneRow
<1>10. CASE BuildView(r) \/ FindUserCart(r) \/ ReadLine(r) \/ ClampAll(r) \/ DropCall(r)
  BY <1>2, <1>10 DEF BuildView, FindUserCart, ReadLine, ClampAll, DropCall
<1>. QED  BY <1>3, <1>4, <1>5, <1>6, <1>7, <1>8, <1>9, <1>10 DEF StepCall

LEMMA ShopStaged ==
  ASSUME StagesInv, CartNext
  PROVE  StagesInv'
<1>1. CASE \E r \in CartCalls : BeginCall(r) \/ StepCall(r)
  BY <1>1, BeginsStaged, StepsStaged
<1>2. CASE \E n \in 0..MaxShelf : n # shelf /\ StockMoves(n)
  BY <1>2, RowWritten DEF StockMoves, WritesRow
<1>3. CASE \E c \in Carts : CaptureEmail(c) \/ ClearPaidCart(c)
  <2>. PICK c \in Carts : CaptureEmail(c) \/ ClearPaidCart(c)
    BY <1>3
  <2>1. \/ cart' = [cart EXCEPT ![c] = [Moved(cart[c]) EXCEPT !.email = TRUE]]
        \/ cart' = [cart EXCEPT ![c] = [Moved(cart[c]) EXCEPT !.qty = 0]]
    BY DEF CaptureEmail, ClearPaidCart
  <2>2. Staged(cart[c])
    BY DEF StagesInv
  <2>. QED  BY <2>1, <2>2, RowsStaged, OneRow
<1>. QED  BY <1>1, <1>2, <1>3 DEF CartNext

LEMMA NudgesGrow ==
  ASSUME NEW stage \in {0, 1, 2}, NEW nudges \in NudgesUpTo(stage),
         NEW next \in {1, 2}, stage < next
  PROVE  Append(nudges, next) \in NudgesUpTo(next)
<1>. DEFINE s == Append(<<1>>, 2)  t == <<1, 2>>
<1>1. \A x : Append(<<>>, x) = <<x>>
  OBVIOUS
<1>2. t \in Seq(Int) /\ Len(t) = 2 /\ t[1] = 1 /\ t[2] = 2
  OBVIOUS
<1>3. s \in Seq(Int) /\ Len(s) = 2 /\ s[1] = 1 /\ s[2] = 2
  <2>1. <<1>> \in Seq(Int) /\ Len(<<1>>) = 1 /\ <<1>>[1] = 1
    OBVIOUS
  <2>. QED  BY <2>1, AppendProperties
<1>. HIDE DEF s, t
<1>4. s = t
  <2>1. \A i \in 1..Len(s) : s[i] = t[i]
    BY <1>2, <1>3
  <2>. QED  BY <1>2, <1>3, <2>1, SeqEqual
<1>5. CASE stage = 0
  <2>1. Append(nudges, next) = <<next>>
    BY <1>1, <1>5 DEF NudgesUpTo
  <2>2. CASE next = 1
    BY <2>1, <2>2 DEF NudgesUpTo
  <2>3. CASE next = 2
    BY <2>1, <2>3 DEF NudgesUpTo
  <2>. QED  BY <2>2, <2>3
<1>6. CASE stage = 1 /\ next = 2
  BY <1>4, <1>6 DEF NudgesUpTo, s, t
<1>7. stage = 0 \/ (stage = 1 /\ next = 2)
  OBVIOUS
<1>. QED  BY <1>5, <1>6, <1>7

(* The claim of a stage is what keeps passes apart.                         *)
LEMMA SendsStaged ==
  ASSUME StagesInv, NEW s \in Sweeps, NEW c \in Carts, NEW stage \in {1, 2},
         SendFor(s, c, stage)
  PROVE  StagesInv'
<1>1. CASE Claimed(s, c, stage)
  <2>. DEFINE row == [cart[c] EXCEPT !.stage = stage, !.nudges = Append(@, stage)]
  <2>1. cart' = [cart EXCEPT ![c] = row]
    BY <1>1 DEF SendFor
  <2>2. Staged(cart[c]) /\ cart[c].stage < stage
    BY <1>1 DEF StagesInv, Claimed
  <2>3. DOMAIN row = CartFields /\ row.stage = stage /\ row.nudges = Append(cart[c].nudges, stage)
    BY <2>2 DEF Staged, CartFields
  <2>. HIDE DEF row
  <2>4. row.nudges \in NudgesUpTo(stage)
    BY <2>2, <2>3, NudgesGrow DEF Staged
  <2>5. Staged(row)
    BY <2>3, <2>4 DEF Staged
  <2>. QED  BY <2>1, <2>5, OneRow
<1>2. CASE ~Claimed(s, c, stage)
  BY <1>2, RowWritten DEF SendFor, WritesRow
<1>. QED  BY <1>1, <1>2

(* A pass holds rows, and forgets them.                                     *)
LEMMA HoldsStaged ==
  ASSUME StagesInv, DOMAIN cart' = Carts,
         \A c \in Carts : \/ cart'[c] = cart[c]
                          \/ \E x : cart'[c] = [cart[c] EXCEPT !.held = x]
  PROVE  StagesInv'
<1>. SUFFICES ASSUME NEW c \in Carts PROVE Staged(cart'[c])
  BY DEF StagesInv
<1>1. Staged(cart[c])
  BY DEF StagesInv
<1>2. \A x : Staged([cart[c] EXCEPT !.held = x])
  BY <1>1, RowsStaged
<1>. QED  BY <1>1, <1>2

LEMMA PassStaged ==
  ASSUME StagesInv, NEW s \in Sweeps, Sweeping(s) \/ CutOff(s)
  PROVE  StagesInv'
<1>1. CASE ListFirstDue(s) \/ ListFinalDue(s)
  <2>. PICK due : Hold(s, due)
    BY <1>1 DEF ListFirstDue, ListFinalDue
  <2>. QED  BY HoldsStaged DEF Hold
<1>2. CASE \E c \in Carts, stage \in {1, 2} : SendFor(s, c, stage)
  BY <1>2, SendsStaged
<1>3. CASE EndSweep(s) \/ CutOff(s)
  <2>1. Forget(s)
    BY <1>3 DEF EndSweep, CutOff
  <2>. QED  BY <2>1, HoldsStaged DEF Forget
<1>. QED  BY <1>1, <1>2, <1>3 DEF Sweeping

LEMMA StagesKept == StagesInv /\ [RecoveryNext]_recoveryVars => StagesInv'
<1>. SUFFICES ASSUME StagesInv, [RecoveryNext]_recoveryVars PROVE StagesInv'
  OBVIOUS
<1>1. CASE CartNext
  BY <1>1, ShopStaged
<1>2. CASE \E c \in Carts : TimePasses(c)
  <2>. PICK c \in Carts : \E x : cart' = [cart EXCEPT ![c] = [cart[c] EXCEPT !.idle = x]]
    BY <1>2 DEF TimePasses
  <2>1. Staged(cart[c])
    BY DEF StagesInv
  <2>. QED  BY <2>1, RowsStaged, OneRow
<1>3. CASE \E s \in Sweeps : Sweeping(s) \/ CutOff(s)
  BY <1>3, PassStaged
<1>4. CASE UNCHANGED recoveryVars
  BY <1>4, RowWritten DEF recoveryVars, cartVars, WritesRow
<1>. QED  BY <1>1, <1>2, <1>3, <1>4 DEF RecoveryNext

(* No stage is e-mailed twice and the first never after the final one,      *)
(* whatever passes of the recovery job overlap with each other and with the  *)
(* shoppers' calls, until the stages are re-armed.                          *)
THEOREM StagesComeOnce == RecoverySpec => []NudgesInOrder
<1>1. RecoveryInit => StagesInv
  BY NoCartStaged DEF RecoveryInit, CartInit, StagesInv
<1>2. StagesInv => NudgesInOrder
  BY DEF StagesInv, Staged, NudgesUpTo, NudgesInOrder
<1>. QED  BY <1>1, <1>2, StagesKept, PTL DEF RecoverySpec

(***************************************************************************)
(* What a cart holds once its shopper's calls are done, for any number of   *)
(* carts, calls and units.                                                  *)
(***************************************************************************)

CartRows ==
  [owner : {"none", "guest", "user"}, qty : Nat, email : BOOLEAN,
   idle : {"fresh", "hour", "day"}, stage : Nat, held : SUBSET Sweeps, nudges : Seq(Nat)]

CallPcs ==
  {"idle", "upsert", "clamp", "touch", "lastTouch", "view", "clampView", "set", "bump",
   "findUserCart", "readLine", "fold", "dropGuest", "adopt", "clampAll", "clampLine"}

CallRecords ==
  [pc : CallPcs, c : Carts \cup {"no cart"}, want : Nat, seen : Nat, read : Nat,
   from : Carts \cup {"no cart"}, gqty : Nat, lost : BOOLEAN]

Asks == [wanted : Nat, low : Nat, high : Nat]

CartTypes ==
  /\ shelf \in Nat
  /\ cart \in [Carts -> CartRows]
  /\ call \in [CartCalls -> CallRecords]
  /\ ask \in [Carts -> Asks]

(* The calls that know their cart, hold a guest's, and read the stock of it.  *)
AtCart == {"upsert", "clamp", "touch", "lastTouch", "view", "clampView", "set", "bump",
           "readLine", "fold", "clampAll", "clampLine"}
Merging == {"findUserCart", "readLine", "fold", "dropGuest", "adopt"}
SawStock == {"upsert", "clamp", "set", "clampView", "readLine", "fold", "clampLine"}

(* What a call k holds: its carts, a line that is there unless it is known to *)
(* be lost, and a stock that was on the shelf since calls came to the cart.  *)
Holds(k) ==
  /\ k.pc = "idle" => k = NoCall
  /\ k.pc \in AtCart => k.c \in Carts
  /\ k.pc \in Merging => k.from \in Carts
  /\ HoldsLine(k) /\ ~k.lost => Exists(k.c)
  /\ k.pc \in SawStock => ask[k.c].low <= k.seen /\ k.seen <= ask[k.c].high

(* A cart that is gone holds nothing.                                       *)
RowsInv == \A c \in Carts : cart[c].owner = "none" => cart[c].qty = 0

CallsInv == \A r \in CartCalls : Holds(call[r])

(* The stock is between its extremes.                                       *)
ShelfInv == \A c \in Carts : ~Resting(c) => ask[c].low <= shelf /\ shelf <= ask[c].high

(* n units answer what a, with w units asked for, allows.                    *)
Answers(n, w, a) == Lower(w, a.low) <= n /\ n <= w

ToClamp(k, c) == k.pc = "clamp" /\ k.c = c

(* Before the first race, a busy cart holds what was asked for, and no more   *)
(* than there was, unless a call is about to clamp it.                       *)
CountInv ==
  races = {} =>
    \A c \in Carts : Exists(c) /\ ~Resting(c) =>
      /\ Answers(cart[c].qty, ask[c].wanted, ask[c])
      /\ cart[c].qty <= ask[c].high \/ \E r \in CartCalls : ToClamp(call[r], c)

CartInv == CartTypes /\ RowsInv /\ CallsInv /\ ShelfInv /\ CountInv

-----------------------------------------------------------------------------
(* A step of call r: what it does to the other calls, to the extremes of the  *)
(* stock, and to the line of each cart.                                     *)
Alone(r) ==
  \A q \in CartCalls \ {r} :
    call'[q] = call[q] \/ (HoldsLine(call[q]) /\ call'[q] = [call[q] EXCEPT !.lost = TRUE])

Told(r) ==
  \A c \in Carts, q \in CartCalls \ {r} :
    Exists(c) /\ ~Exists(c)' /\ HoldsLine(call[q]) /\ call[q].c = c => call'[q].lost

(* Calls come to cart c: what it holds is what was asked for, so far.        *)
Arrived(c) ==
  /\ ask'[c].low = shelf /\ ask'[c].high = Upper(shelf, cart[c].qty)
  /\ cart'[c].qty = ask'[c].wanted /\ cart'[c].qty <= cart[c].qty

Window ==
  \A c \in Carts : ~Resting(c)' =>
    IF Resting(c) THEN Arrived(c) ELSE ask'[c].low = ask[c].low /\ ask'[c].high = ask[c].high

Wanted(c) == IF Resting(c)' THEN ask[c].wanted ELSE ask'[c].wanted

Untouched(r, c) ==
  Exists(c) /\ cart'[c].qty = cart[c].qty /\ Wanted(c) = ask[c].wanted /\ ~ToClamp(call[r], c)

Answered(r, c) ==
  /\ Answers(cart'[c].qty, Wanted(c), ask[c])
  /\ cart'[c].qty <= ask[c].high \/ ToClamp(call'[r], c)

Counts(r) ==
  \A c \in Carts : ~Resting(c) /\ Exists(c)' /\ races' = {} => Untouched(r, c) \/ Answered(r, c)

(* What the two properties ask of a step.                                   *)
Settled ==
  \A c \in Carts : Settles(c) =>
    /\ cart'[c].qty \in Lower(ask[c].wanted, ask[c].low)..ask[c].wanted
    /\ cart'[c].qty <= ask[c].high

LEMMA CartStep ==
  ASSUME CartInv, NEW r \in CartCalls, CartTypes', RowsInv', shelf' = shelf,
         races \subseteq races', Alone(r), Told(r), Window, Counts(r), Holds(call[r])'
  PROVE  CartInv' /\ Settled
<1>. /\ CartTypes /\ RowsInv /\ CallsInv /\ ShelfInv /\ CountInv
  BY DEF CartInv
<1>1. ASSUME NEW q \in CartCalls, q # r
      PROVE  /\ call'[q].pc = call[q].pc /\ call'[q].c = call[q].c /\ call'[q].from = call[q].from
             /\ call'[q].seen = call[q].seen /\ (call[q].lost => call'[q].lost)
             /\ call[q].pc = "idle" => call'[q] = call[q]
  <2>1. call[q] \in CallRecords
    BY DEF CartTypes
  <2>2. \/ call'[q] = call[q]
        \/ call[q].pc # "idle" /\ call'[q] = [call[q] EXCEPT !.lost = TRUE]
    BY <1>1 DEF Alone, HoldsLine
  <2>. QED  BY <2>1, <2>2 DEF CallRecords
<1>2. ASSUME NEW q \in CartCalls PROVE Holds(call[q])'
  <2>1. CASE q = r
    BY <2>1
  <2>2. CASE q # r
    <3>. DEFINE k == call[q]
    <3>1. Holds(k)
      BY DEF CallsInv
    <3>2. k.pc \in AtCart => ask'[k.c].low = ask[k.c].low /\ ask'[k.c].high = ask[k.c].high
      <4>. SUFFICES ASSUME k.pc \in AtCart
           PROVE ask'[k.c].low = ask[k.c].low /\ ask'[k.c].high = ask[k.c].high
        OBVIOUS
      <4>1. PICK c \in Carts : c = k.c
        BY <3>1 DEF Holds
      <4>2. ~Resting(c) /\ ~Resting(c)'
        BY <4>1, <2>2, <1>1 DEF Resting
      <4>. QED  BY <4>1, <4>2 DEF Window
    <3>3. HoldsLine(k) /\ ~call'[q].lost => Exists(k.c)'
      BY <3>1, <2>2, <1>1 DEF Told, Holds, HoldsLine, AtCart, CallPcs
    <3>4. HoldsLine(call'[q]) <=> HoldsLine(k)
      BY <2>2, <1>1 DEF HoldsLine
    <3>5. /\ call'[q].pc = "idle" => call'[q] = NoCall
          /\ call'[q].pc \in AtCart => call'[q].c \in Carts
          /\ call'[q].pc \in Merging => call'[q].from \in Carts
      BY <3>1, <2>2, <1>1 DEF Holds
    <3>6. call'[q].pc \in SawStock
            => ask'[k.c].low <= call'[q].seen /\ call'[q].seen <= ask'[k.c].high
      BY <3>1, <3>2, <2>2, <1>1 DEF Holds, SawStock, AtCart, CallPcs
    <3>. QED  BY <3>3, <3>4, <3>5, <3>6, <2>2, <1>1 DEF Holds, Exists
  <2>. QED  BY <2>1, <2>2
<1>3. ShelfInv'
  <2>. SUFFICES ASSUME NEW c \in Carts, ~Resting(c)'
       PROVE ask'[c].low <= shelf /\ shelf <= ask'[c].high
    BY DEF ShelfInv
  <2>1. CASE Resting(c)
    <3>1. ask'[c].low = shelf /\ ask'[c].high = Upper(shelf, cart[c].qty)
      BY <2>1 DEF Window, Arrived
    <3>2. cart[c] \in CartRows /\ shelf \in Nat
      BY DEF CartTypes
    <3>3. cart[c].qty \in Nat
      BY <3>2 DEF CartRows
    <3>4. shelf \in Int /\ cart[c].qty \in Int
      BY <3>2, <3>3
    <3>. QED  BY <3>1, <3>4 DEF Upper
  <2>2. CASE ~Resting(c)
    BY <2>2 DEF Window, ShelfInv
  <2>. QED  BY <2>1, <2>2
(* A busy cart that is there after the step, before the first race.         *)
<1>4. ASSUME NEW c \in Carts, Exists(c)', races' = {}, ~Resting(c)
      PROVE  /\ Answers(cart'[c].qty, Wanted(c), ask[c])
             /\ \/ cart'[c].qty <= ask[c].high
                \/ ~Resting(c)' /\ \E q \in CartCalls : ToClamp(call'[q], c)
  <2>1. CASE Untouched(r, c)
    <3>1. /\ Answers(cart[c].qty, ask[c].wanted, ask[c])
          /\ cart[c].qty <= ask[c].high \/ \E q \in CartCalls : ToClamp(call[q], c)
      BY <2>1, <1>4 DEF Untouched, CountInv
    <3>2. ASSUME NEW q \in CartCalls, ToClamp(call[q], c)
          PROVE ToClamp(call'[q], c) /\ ~Resting(c)'
      BY <3>2, <2>1, <1>1 DEF Untouched, ToClamp, Resting
    <3>. QED  BY <3>1, <3>2, <2>1 DEF Untouched
  <2>2. CASE Answered(r, c)
    <3>1. ToClamp(call'[r], c) => ~Resting(c)'
      BY DEF ToClamp, Resting
    <3>. QED  BY <3>1, <2>2 DEF Answered
  <2>. QED  BY <2>1, <2>2, <1>4 DEF Counts
<1>5. CountInv'
  <2>. SUFFICES ASSUME races' = {}, NEW c \in Carts, Exists(c)', ~Resting(c)'
       PROVE /\ Answers(cart'[c].qty, ask'[c].wanted, ask'[c])
             /\ cart'[c].qty <= ask'[c].high \/ \E q \in CartCalls : ToClamp(call'[q], c)
    BY DEF CountInv
  <2>1. CASE Resting(c)
    <3>1. Arrived(c)
      BY <2>1 DEF Window
    <3>2. cart[c] \in CartRows /\ cart'[c] \in CartRows /\ shelf \in Nat
      BY DEF CartTypes
    <3>3. cart[c].qty \in Nat /\ cart'[c].qty \in Nat
      BY <3>2 DEF CartRows
    <3>. QED  BY <3>1, <3>2, <3>3 DEF Arrived, Answers, Lower, Upper
  <2>2. CASE ~Resting(c)
    BY <2>2, <1>4 DEF Window, Answers, Wanted
  <2>. QED  BY <2>1, <2>2
<1>6. Settled
  <2>. SUFFICES ASSUME NEW c \in Carts, Settles(c)
       PROVE /\ cart'[c].qty \in Lower(ask[c].wanted, ask[c].low)..ask[c].wanted
             /\ cart'[c].qty <= ask[c].high
    BY DEF Settled
  <2>1. Answers(cart'[c].qty, ask[c].wanted, ask[c]) /\ cart'[c].qty <= ask[c].high
    BY <1>4 DEF Settles, Wanted
  <2>2. cart'[c].qty \in Nat /\ ask[c] \in Asks
    <3>1. cart'[c] \in CartRows /\ ask[c] \in Asks
      BY DEF CartTypes
    <3>. QED  BY <3>1 DEF CartRows
  <2>3. ask[c].wanted \in Nat /\ ask[c].low \in Nat
    BY <2>2 DEF Asks
  <2>. QED  BY <2>1, <2>2, <2>3 DEF Answers, Lower
<1>. QED  BY <1>2, <1>3, <1>5, <1>6 DEF CartInv, CallsInv

-----------------------------------------------------------------------------
LEMMA RowsTyped ==
  ASSUME NEW row \in CartRows, NEW n \in Nat
  PROVE  /\ row.qty \in Nat /\ row.owner \in {"none", "guest", "user"}
         /\ [row EXCEPT !.qty = n] \in CartRows
         /\ Moved(row) \in CartRows /\ Touched(row) \in CartRows
         /\ Moved(row).qty = row.qty /\ Moved(row).owner = row.owner
         /\ Touched(row).qty = row.qty /\ Touched(row).owner = row.owner
         /\ [row EXCEPT !.qty = n].qty = n /\ [row EXCEPT !.qty = n].owner = row.owner
<1>1. Moved(row) \in CartRows /\ Moved(row).qty = row.qty /\ Moved(row).owner = row.owner
  BY DEF CartRows, Moved
<1>2. <<>> \in Seq(Nat)
  OBVIOUS
<1>3. Touched(row) \in CartRows /\ Touched(row).qty = row.qty /\ Touched(row).owner = row.owner
  BY <1>1, <1>2 DEF CartRows, Touched
<1>. QED  BY <1>1, <1>3 DEF CartRows

LEMMA NoCartTyped ==
  ASSUME NEW who \in {"none", "guest", "user"}, NEW b \in BOOLEAN
  PROVE  /\ NoCart \in CartRows /\ NoCart.owner = "none" /\ NoCart.qty = 0
         /\ [NoCart EXCEPT !.owner = who, !.email = b] \in CartRows
         /\ [NoCart EXCEPT !.owner = who, !.email = b].owner = who
         /\ [NoCart EXCEPT !.owner = who, !.email = b].qty = 0
<1>1. <<>> \in Seq(Nat) /\ {} \in SUBSET Sweeps
  OBVIOUS
<1>. QED  BY <1>1 DEF NoCart, CartRows

LEMMA NoCallTyped == NoCall \in CallRecords /\ NoAsk \in Asks
  BY DEF NoCall, CallRecords, CallPcs, NoAsk, Asks

(* The other calls, each as it is or told that its line is lost.             *)
Kin(r, others) ==
  /\ others \in [CartCalls -> CallRecords]
  /\ \A q \in CartCalls \ {r} :
       others[q] = call[q] \/ (HoldsLine(call[q]) /\ others[q] = [call[q] EXCEPT !.lost = TRUE])

LEMMA Loses ==
  ASSUME CartTypes, NEW c
  PROVE  /\ Losing(c) \in [CartCalls -> CallRecords]
         /\ \A q \in CartCalls :
              Losing(c)[q] = IF HoldsLine(call[q]) /\ call[q].c = c
                             THEN [call[q] EXCEPT !.lost = TRUE] ELSE call[q]
<1>1. ASSUME NEW q \in CartCalls
      PROVE  /\ Losing(c)[q] \in CallRecords
             /\ Losing(c)[q] = IF HoldsLine(call[q]) /\ call[q].c = c
                               THEN [call[q] EXCEPT !.lost = TRUE] ELSE call[q]
  <2>1. call[q] \in CallRecords
    BY DEF CartTypes
  <2>2. CASE HoldsLine(call[q]) /\ call[q].c = c
    <3>1. Losing(c)[q] = [call[q] EXCEPT !.lost = TRUE]
      BY <2>2 DEF Losing
    <3>. QED  BY <2>1, <2>2, <3>1 DEF CallRecords
  <2>3. CASE ~(HoldsLine(call[q]) /\ call[q].c = c)
    <3>1. Losing(c)[q] = [call[q] EXCEPT !.lost = call[q].lost]
      BY <2>1, <2>3 DEF Losing, CallRecords
    <3>2. [call[q] EXCEPT !.lost = call[q].lost] = call[q]
      BY <2>1 DEF CallRecords
    <3>. QED  BY <2>1, <2>3, <3>1, <3>2
  <2>. QED  BY <2>2, <2>3
<1>2. Losing(c) = [q \in CartCalls |-> Losing(c)[q]]
  BY DEF Losing
<1>. QED  BY <1>1, <1>2

LEMMA KinOf ==
  ASSUME CartTypes, NEW r \in CartCalls, NEW c
  PROVE  Kin(r, call) /\ Kin(r, Losing(c))
  BY Loses DEF Kin, CartTypes

LEMMA Elsewhere ==
  ASSUME CartTypes, NEW r \in CartCalls, Alone(r)
  PROVE  \A q \in CartCalls \ {r} : call'[q].c = call[q].c /\ call'[q].from = call[q].from
<1>. SUFFICES ASSUME NEW q \in CartCalls \ {r}
     PROVE  call'[q].c = call[q].c /\ call'[q].from = call[q].from
  OBVIOUS
<1>1. call[q] \in CallRecords
  BY DEF CartTypes
<1>. QED  BY <1>1 DEF Alone, CallRecords

(* The call goes on as k, or ends.                                          *)
LEMMA Framed ==
  ASSUME CartInv, NEW r \in CartCalls, NEW others, NEW k \in CallRecords, Kin(r, others),
         call' = [others EXCEPT ![r] = k],
         \A c \in Carts : ~Resting(c) /\ ~Resting(c)'
                            => ask'[c].low = ask[c].low /\ ask'[c].high = ask[c].high,
         \A c \in Carts : c \in {k.c, k.from} /\ Resting(c) => Arrived(c)
  PROVE  call' \in [CartCalls -> CallRecords] /\ call'[r] = k /\ Alone(r) /\ Window
<1>1. call' \in [CartCalls -> CallRecords] /\ call'[r] = k /\ Alone(r)
  BY DEF Kin, Alone
<1>2. \A q \in CartCalls \ {r} : call'[q].c = call[q].c /\ call'[q].from = call[q].from
  BY <1>1, Elsewhere DEF CartInv
<1>3. ASSUME NEW c \in Carts, ~Resting(c)', Resting(c) PROVE c \in {k.c, k.from}
  BY <1>1, <1>2, <1>3 DEF Resting
<1>. QED  BY <1>1, <1>3 DEF Window

LEMMA Ended ==
  ASSUME CartInv, NEW r \in CartCalls, NEW others, Kin(r, others), EndsAmong(others, r)
  PROVE  /\ call' \in [CartCalls -> CallRecords] /\ call'[r] = NoCall /\ Alone(r) /\ Window
         /\ ask' \in [Carts -> Asks] /\ Holds(call[r])'
         /\ \A c \in Carts : Wanted(c) = ask[c].wanted
<1>. DEFINE Vacated(c) == \A q \in CartCalls \ {r} : c \notin {call[q].c, call[q].from}
<1>1. /\ call' = [others EXCEPT ![r] = NoCall]
      /\ ask' = [c \in Carts |-> IF Vacated(c) THEN NoAsk ELSE ask[c]]
  BY DEF EndsAmong
<1>2. call' \in [CartCalls -> CallRecords] /\ call'[r] = NoCall /\ Alone(r)
  BY <1>1, NoCallTyped DEF Kin, Alone
<1>3. \A q \in CartCalls \ {r} : call'[q].c = call[q].c /\ call'[q].from = call[q].from
  BY <1>2, Elsewhere DEF CartInv
<1>4. ASSUME NEW c \in Carts PROVE Resting(c)' <=> Vacated(c)
  <2>1. c \notin {NoCall.c, NoCall.from}
    BY CartAssumption DEF NoCall
  <2>. QED  BY <1>2, <1>3, <2>1 DEF Resting
<1>5. ask' \in [Carts -> Asks]
  BY <1>1, NoCallTyped DEF CartInv, CartTypes
<1>6. ASSUME NEW c \in Carts, ~Resting(c)' PROVE ask'[c] = ask[c] /\ ~Resting(c)
  BY <1>1, <1>4, <1>6 DEF Resting
<1>7. Holds(call[r])'
  <2>1. NoCall.pc = "idle"
    BY DEF NoCall
  <2>. QED  BY <1>2, <2>1 DEF Holds, HoldsLine, AtCart, Merging, SawStock
<1>. QED  BY <1>2, <1>5, <1>6, <1>7 DEF Window, Wanted

-----------------------------------------------------------------------------
(* All a step does, apart from the carts.                                   *)
Frame(r) ==
  /\ shelf' = shelf /\ races \subseteq races'
  /\ call' \in [CartCalls -> CallRecords] /\ ask' \in [Carts -> Asks]
  /\ Alone(r) /\ Window /\ Holds(call[r])'

(* The row of cart d is written, or none.                                   *)
Writes(r, d, row) ==
  /\ row \in CartRows /\ cart' = [cart EXCEPT ![d] = row]
  /\ row.owner = "none" =>
       /\ row.qty = 0
       /\ \A q \in CartCalls \ {r} :
            Exists(d) /\ HoldsLine(call[q]) /\ call[q].c = d => call'[q].lost
  /\ call[r].pc = "clamp" => call[r].c = d
  /\ \A c \in Carts \ {d} : ~Resting(c) => Wanted(c) = ask[c].wanted
  /\ ~Resting(d) /\ row.owner # "none" /\ races' = {} => Untouched(r, d) \/ Answered(r, d)

LEMMA RowStep ==
  ASSUME CartInv, NEW r \in CartCalls, Frame(r), NEW d \in Carts, NEW row, Writes(r, d, row)
  PROVE  CartInv' /\ Settled
<1>. /\ row \in CartRows /\ cart' = [cart EXCEPT ![d] = row]
     /\ shelf' = shelf /\ races \subseteq races'
     /\ call' \in [CartCalls -> CallRecords] /\ ask' \in [Carts -> Asks]
     /\ Alone(r) /\ Window /\ Holds(call[r])'
  BY DEF Writes, Frame
<1>1. cart' \in [Carts -> CartRows] /\ cart'[d] = row /\ \A c \in Carts \ {d} : cart'[c] = cart[c]
  BY DEF CartInv, CartTypes
<1>2. CartTypes' /\ RowsInv'
  BY <1>1 DEF CartInv, CartTypes, RowsInv, Writes
<1>3. Told(r)
  BY <1>1 DEF Told, Exists, Writes
<1>4. ASSUME NEW c \in Carts, ~Resting(c), Exists(c)', races' = {}
      PROVE  Untouched(r, c) \/ Answered(r, c)
  <2>1. CASE c = d
    BY <2>1, <1>1, <1>4 DEF Exists, Writes
  <2>2. CASE c # d
    BY <2>2, <1>1, <1>4 DEF Exists, Untouched, ToClamp, Writes
  <2>. QED  BY <2>1, <2>2
<1>. QED  BY <1>2, <1>3, <1>4, CartStep DEF Counts

LEMMA QuietStep ==
  ASSUME CartInv, NEW r \in CartCalls, Frame(r), cart' = cart,
         call[r].pc # "clamp" \/ races' # {},
         \A c \in Carts : ~Resting(c) => Wanted(c) = ask[c].wanted
  PROVE  CartInv' /\ Settled
<1>1. CartTypes' /\ RowsInv' /\ Told(r)
  BY DEF CartInv, CartTypes, RowsInv, Told, Exists, Frame
<1>2. Counts(r)
  BY DEF Counts, Untouched, ToClamp, Exists
<1>. QED  BY <1>1, <1>2, CartStep DEF Frame

LEMMA Continues ==
  ASSUME CartInv, NEW r \in CartCalls, NEW others, NEW k \in CallRecords, Kin(r, others),
         call' = [others EXCEPT ![r] = k],
         {k.c, k.from} \subseteq {call[r].c, call[r].from, "no cart"},
         \A c \in Carts : ask'[c].low = ask[c].low /\ ask'[c].high = ask[c].high
  PROVE  call' \in [CartCalls -> CallRecords] /\ call'[r] = k /\ Alone(r) /\ Window
<1>1. \A c \in Carts : c \in {k.c, k.from} => ~Resting(c)
  BY CartAssumption DEF Resting
<1>. QED  BY <1>1, Framed

(* A call at its cart.                                                      *)
LEMMA AtWork ==
  ASSUME CartInv, NEW r \in CartCalls, call[r].pc \in AtCart, NEW c, c = call[r].c
  PROVE  /\ c \in Carts /\ ~Resting(c) /\ cart[c] \in CartRows /\ cart[c].qty \in Nat
         /\ ask \in [Carts -> Asks]
         /\ ask[c].wanted \in Nat /\ ask[c].low \in Nat /\ ask[c].high \in Nat
         /\ shelf \in Nat /\ ask[c].low <= shelf /\ shelf <= ask[c].high
         /\ call[r] \in CallRecords
         /\ call[r].want \in Nat /\ call[r].seen \in Nat /\ call[r].read \in Nat
         /\ call[r].gqty \in Nat /\ call[r].pc \in CallPcs
         /\ call[r].pc \in SawStock => ask[c].low <= call[r].seen /\ call[r].seen <= ask[c].high
         /\ HoldsLine(call[r]) /\ ~call[r].lost => Exists(c)
         /\ races = {} /\ Exists(c) => Answers(cart[c].qty, ask[c].wanted, ask[c])
<1>1. Holds(call[r]) /\ CartTypes
  BY DEF CartInv, CallsInv
<1>2. c \in Carts /\ ~Resting(c)
  BY <1>1 DEF Holds, Resting
<1>3. cart[c] \in CartRows /\ ask[c] \in Asks /\ call[r] \in CallRecords
  BY <1>1, <1>2 DEF CartTypes
<1>4. cart[c].qty \in Nat
  BY <1>3 DEF CartRows
<1>5. ask[c].wanted \in Nat /\ ask[c].low \in Nat /\ ask[c].high \in Nat
  BY <1>3 DEF Asks
<1>6. /\ call[r].want \in Nat /\ call[r].seen \in Nat /\ call[r].read \in Nat
      /\ call[r].gqty \in Nat /\ call[r].pc \in CallPcs
  BY <1>3 DEF CallRecords
<1>7. /\ ask \in [Carts -> Asks] /\ shelf \in Nat
  BY <1>1 DEF CartTypes
<1>8. ask[c].low <= shelf /\ shelf <= ask[c].high
  BY <1>2 DEF CartInv, ShelfInv
<1>9. races = {} /\ Exists(c) => Answers(cart[c].qty, ask[c].wanted, ask[c])
  BY <1>2 DEF CartInv, CountInv
<1>10. /\ call[r].pc \in SawStock => ask[c].low <= call[r].seen /\ call[r].seen <= ask[c].high
       /\ HoldsLine(call[r]) /\ ~call[r].lost => Exists(c)
  BY <1>1 DEF Holds
<1>. QED  BY <1>2, <1>3, <1>4, <1>5, <1>6, <1>7, <1>8, <1>9, <1>10

(* A call goes on as k; or to p, with what it holds; or to p at cart c only;  *)
(* or it ends.                                                              *)
LEMMA NothingAsked == ask' = ask => \A c \in Carts : Wanted(c) = ask[c].wanted
  BY DEF Wanted

LEMMA StaysFrame ==
  ASSUME CartInv, NEW r \in CartCalls, NEW others, NEW k \in CallRecords, Kin(r, others),
         call' = [others EXCEPT ![r] = k],
         {k.c, k.from} \subseteq {call[r].c, call[r].from, "no cart"},
         ask' \in [Carts -> Asks],
         \A c \in Carts : ask'[c].low = ask[c].low /\ ask'[c].high = ask[c].high,
         shelf' = shelf, races \subseteq races', Holds(k)'
  PROVE  Frame(r) /\ call'[r] = k
<1>1. call' \in [CartCalls -> CallRecords] /\ call'[r] = k /\ Alone(r) /\ Window
  BY Continues
<1>2. Holds(call[r])'
  BY <1>1 DEF Holds
<1>. QED  BY <1>1, <1>2 DEF Frame

LEMMA GoesFrame ==
  ASSUME CartInv, NEW r \in CartCalls, NEW p, Goes(r, p),
         \/ p = "view" /\ call[r].pc \in AtCart
         \/ p \in {"dropGuest", "adopt"} /\ call[r].pc \in Merging,
         ask' \in [Carts -> Asks],
         \A c \in Carts : ask'[c].low = ask[c].low /\ ask'[c].high = ask[c].high,
         shelf' = shelf, races \subseteq races'
  PROVE  Frame(r) /\ call'[r].c = call[r].c /\ call'[r].from = call[r].from
<1>1. call[r] \in CallRecords /\ Holds(call[r])
  BY DEF CartInv, CartTypes, CallsInv
<1>2. p \in CallPcs
  BY DEF CallPcs
<1>3. PICK k \in CallRecords : /\ call' = [call EXCEPT ![r] = k] /\ k.pc = p
                               /\ k.c = call[r].c /\ k.from = call[r].from
  <2>. DEFINE w == [call[r] EXCEPT !.pc = p]
  <2>1. w \in CallRecords /\ w.pc = p /\ w.c = call[r].c /\ w.from = call[r].from
    BY <1>1, <1>2 DEF CallRecords
  <2>. QED  BY <2>1 DEF Goes, Becomes
<1>4. Holds(k)'
  BY <1>1, <1>3 DEF Holds, HoldsLine, AtCart, Merging, SawStock
<1>5. Kin(r, call)
  BY KinOf DEF CartInv
<1>6. {k.c, k.from} \subseteq {call[r].c, call[r].from, "no cart"}
  BY <1>3
<1>. QED  BY <1>3, <1>4, <1>5, <1>6, StaysFrame

Fresh(p, c) == [NoCall EXCEPT !.pc = p, !.c = c]

LEMMA FreshFrame ==
  ASSUME CartInv, NEW r \in CartCalls, NEW others, Kin(r, others),
         NEW c \in Carts, c \in {call[r].c, call[r].from},
         NEW p \in {"touch", "lastTouch", "clampAll"},
         call' = [others EXCEPT ![r] = Fresh(p, c)],
         ask' \in [Carts -> Asks],
         \A d \in Carts : ask'[d].low = ask[d].low /\ ask'[d].high = ask[d].high,
         shelf' = shelf, races \subseteq races'
  PROVE  Frame(r)
<1>1. p \in CallPcs
  BY DEF CallPcs
<1>2. PICK k \in CallRecords : /\ call' = [others EXCEPT ![r] = k] /\ k.pc = p
                               /\ k.c = c /\ k.from = "no cart"
  <2>1. /\ Fresh(p, c) \in CallRecords /\ Fresh(p, c).pc = p /\ Fresh(p, c).c = c
        /\ Fresh(p, c).from = "no cart"
    BY <1>1, NoCallTyped DEF CallRecords, NoCall, Fresh
  <2>. QED  BY <2>1
<1>3. Holds(k)'
  BY <1>2 DEF Holds, HoldsLine, AtCart, Merging, SawStock
<1>4. {k.c, k.from} \subseteq {call[r].c, call[r].from, "no cart"}
  BY <1>2
<1>. QED  BY <1>2, <1>3, <1>4, StaysFrame

LEMMA EndsFrame ==
  ASSUME CartInv, NEW r \in CartCalls, NEW others, Kin(r, others), EndsAmong(others, r),
         shelf' = shelf, races \subseteq races'
  PROVE  Frame(r) /\ \A c \in Carts : Wanted(c) = ask[c].wanted
  BY Ended DEF Frame

LEMMA QtyRow ==
  ASSUME CartInv, NEW c \in Carts, NEW n \in Nat, cart' = [cart EXCEPT ![c].qty = n]
  PROVE  \E row \in CartRows : /\ row.qty = n /\ row.owner = cart[c].owner
                               /\ cart' = [cart EXCEPT ![c] = row] /\ cart'[c].qty = n
<1>. DEFINE w == [cart[c] EXCEPT !.qty = n]
<1>1. cart \in [Carts -> CartRows]
  BY DEF CartInv, CartTypes
<1>2. w \in CartRows /\ w.qty = n /\ w.owner = cart[c].owner
  BY <1>1, RowsTyped
<1>3. cart' = [cart EXCEPT ![c] = w] /\ cart'[c] = w
  BY <1>1
<1>. QED  BY <1>2, <1>3

(* A row is written, its quantity stays.                                    *)
LEMMA KeptStep ==
  ASSUME CartInv, NEW r \in CartCalls, Frame(r), call[r].pc # "clamp",
         NEW c \in Carts, Exists(c), NEW row \in CartRows, cart' = [cart EXCEPT ![c] = row],
         row.qty = cart[c].qty, row.owner # "none",
         \A d \in Carts : ~Resting(d) => Wanted(d) = ask[d].wanted
  PROVE  CartInv' /\ Settled
<1>1. cart'[c].qty = cart[c].qty
  BY DEF CartInv, CartTypes
<1>2. ~Resting(c) => Untouched(r, c)
  BY <1>1 DEF Untouched, ToClamp
<1>3. Writes(r, c, row)
  BY <1>2 DEF Writes
<1>. QED  BY <1>3, RowStep

LEMMA QuietEnd ==
  ASSUME CartInv, NEW r \in CartCalls, Ends(r), UNCHANGED <<shelf, cart>>,
         races \subseteq races', call[r].pc # "clamp" \/ races' # {}
  PROVE  CartInv' /\ Settled
<1>1. Kin(r, call)
  BY KinOf DEF CartInv
<1>2. Frame(r) /\ \A c \in Carts : Wanted(c) = ask[c].wanted
  BY <1>1, Ended DEF Ends, Frame
<1>. QED  BY <1>2, QuietStep

LEMMA UpsertOK ==
  ASSUME CartInv, NEW r \in CartCalls, Upsert(r)
  PROVE  CartInv' /\ Settled
<1>a. call[r].pc \in AtCart /\ call[r].pc \in SawStock
  BY DEF Upsert, AtCart, SawStock
<1>. PICK c \in Carts : c = call[r].c
  BY <1>a, AtWork
<1>. DEFINE k == call[r]
            n == IF cart[c].qty = 0 THEN Lower(k.want, k.seen) ELSE cart[c].qty + k.want
            next == [k EXCEPT !.pc = "clamp", !.want = 0]
<1>0. k.pc = "upsert" /\ shelf' = shelf /\ races' = races
  BY DEF Upsert
<1>1. CASE ~Exists(c) /\ Ends(r) /\ UNCHANGED cart
  BY <1>0, <1>1, QuietEnd
<1>2. CASE /\ Exists(c) /\ cart' = [cart EXCEPT ![c].qty = n]
           /\ ask' = [ask EXCEPT ![c].wanted = ask[c].wanted + k.want]
           /\ call' = [call EXCEPT ![r] = next]
  <2>. /\ c \in Carts /\ ~Resting(c) /\ cart[c] \in CartRows /\ cart[c].qty \in Nat
       /\ ask \in [Carts -> Asks] /\ k \in CallRecords
       /\ ask[c].wanted \in Nat /\ ask[c].low \in Nat /\ k.want \in Nat /\ k.seen \in Nat
       /\ ask[c].low <= k.seen /\ k.seen <= ask[c].high
       /\ races = {} => Answers(cart[c].qty, ask[c].wanted, ask[c])
    BY <1>a, <1>2, AtWork
  <2>2. /\ next \in CallRecords /\ next.pc = "clamp" /\ next.c = c /\ next.from = k.from
        /\ next.seen = k.seen /\ {next.c, next.from} \subseteq {k.c, k.from, "no cart"}
    BY DEF CallRecords, CallPcs
  <2>3. /\ ask' \in [Carts -> Asks]
        /\ \A d \in Carts : ask'[d].low = ask[d].low /\ ask'[d].high = ask[d].high
        /\ ask'[c].wanted = ask[c].wanted + k.want
        /\ \A d \in Carts \ {c} : ask'[d] = ask[d]
    BY <1>2 DEF Asks
  <2>4. call' \in [CartCalls -> CallRecords] /\ call'[r] = next /\ Alone(r) /\ Window
    <3>1. Kin(r, call)
      BY KinOf DEF CartInv
    <3>. QED  BY <1>2, <2>2, <2>3, <3>1, Continues
  <2>5. Holds(call[r])'
    <3>1. ~HoldsLine(next) /\ next.pc \notin Merging /\ next.pc # "idle"
      BY <2>2 DEF HoldsLine, Merging
    <3>. QED  BY <2>2, <2>3, <2>4, <3>1 DEF Holds
  <2>6. n \in Nat
    BY DEF Lower
  <2>7. PICK row \in CartRows : /\ row.qty = n /\ row.owner # "none"
                               /\ cart' = [cart EXCEPT ![c] = row]
    <3>. DEFINE w == [cart[c] EXCEPT !.qty = n]
    <3>. w \in CartRows /\ w.qty = n /\ w.owner # "none" /\ cart' = [cart EXCEPT ![c] = w]
      BY <1>2, <2>6, RowsTyped DEF Exists
    <3>. QED
      OBVIOUS
  <2>8. cart'[c].qty = n
    BY <2>7 DEF CartInv, CartTypes
  <2>9. ASSUME races' = {} PROVE Answered(r, c)
    <3>1. ~Resting(c)' /\ ToClamp(call'[r], c)
      BY <2>2, <2>4 DEF Resting, ToClamp
    <3>2. Answers(n, ask[c].wanted + k.want, ask[c])
      BY <1>0, <2>9 DEF Answers, Lower
    <3>. QED  BY <2>3, <2>8, <3>1, <3>2 DEF Answered, Wanted
  <2>10. \A d \in Carts \ {c} : Wanted(d) = ask[d].wanted
    BY <2>3 DEF Wanted
  <2>. HIDE DEF next, n
  <2>1. Frame(r)
    BY <1>0, <2>3, <2>4, <2>5 DEF Frame
  <2>11. Writes(r, c, row)
    BY <1>0, <2>7, <2>9, <2>10 DEF Writes
  <2>. QED  BY <2>1, <2>11, RowStep
<1>. QED  BY <1>1, <1>2 DEF Upsert, Becomes

LEMMA ClampOK ==
  ASSUME CartInv, NEW r \in CartCalls, Clamp(r)
  PROVE  CartInv' /\ Settled
<1>a. call[r].pc = "clamp" /\ call[r].pc \in AtCart /\ call[r].pc \in SawStock
  BY DEF Clamp, AtCart, SawStock
<1>. PICK c \in Carts : c = call[r].c
  BY <1>a, AtWork
<1>. /\ ~Resting(c) /\ cart[c].qty \in Nat /\ ask \in [Carts -> Asks]
     /\ ask[c].wanted \in Nat /\ ask[c].low \in Nat /\ ask[c].high \in Nat /\ call[r].seen \in Nat
     /\ ask[c].low <= call[r].seen /\ call[r].seen <= ask[c].high
     /\ races = {} /\ Exists(c) => Answers(cart[c].qty, ask[c].wanted, ask[c])
  BY <1>a, AtWork
<1>. DEFINE n == Lower(cart[c].qty, call[r].seen)
<1>1. /\ shelf' = shelf /\ races' = races /\ ask' = ask /\ cart' = [cart EXCEPT ![c].qty = n]
      /\ call' = [call EXCEPT ![r] = Fresh("touch", c)]
  BY DEF Clamp, Becomes, Fresh
<1>2. Frame(r)
  <2>1. Kin(r, call)
    BY KinOf DEF CartInv
  <2>. QED  BY <1>1, <2>1, FreshFrame
<1>3. \A d \in Carts : Wanted(d) = ask[d].wanted
  BY <1>1, NothingAsked
<1>4. n \in Nat /\ n <= call[r].seen /\ n <= cart[c].qty
  BY DEF Lower
<1>5. PICK row \in CartRows : /\ row.qty = n /\ row.owner = cart[c].owner
                             /\ cart' = [cart EXCEPT ![c] = row] /\ cart'[c].qty = n
  <2>. HIDE DEF n
  <2>. QED  BY <1>1, <1>4, QtyRow
<1>6. row.owner = "none" => row.qty = 0
  <2>1. cart[c].owner = "none" => cart[c].qty = 0
    BY DEF CartInv, RowsInv
  <2>. QED  BY <2>1, <1>4, <1>5
<1>7. ASSUME races' = {}, row.owner # "none" PROVE Answered(r, c)
  <2>1. Answers(cart[c].qty, ask[c].wanted, ask[c])
    BY <1>1, <1>5, <1>7 DEF Exists
  <2>2. Answers(n, ask[c].wanted, ask[c]) /\ n <= ask[c].high
    BY <2>1, <1>4 DEF Answers, Lower
  <2>. QED  BY <1>3, <1>5, <2>2 DEF Answered
<1>8. Writes(r, c, row)
  BY <1>3, <1>5, <1>6, <1>7 DEF Writes, Exists
<1>. QED  BY <1>2, <1>8, RowStep

LEMMA TouchOK ==
  ASSUME CartInv, NEW r \in CartCalls, Touch(r)
  PROVE  CartInv' /\ Settled
<1>a. /\ call[r].pc \in {"touch", "lastTouch"} /\ call[r].pc \in AtCart
      /\ shelf' = shelf /\ races' = races
  BY DEF Touch, AtCart
<1>. PICK c \in Carts : c = call[r].c
  BY <1>a, AtWork
<1>. cart[c] \in CartRows /\ ask \in [Carts -> Asks]
  BY <1>a, AtWork
<1>1. CASE ~Exists(c) /\ Ends(r) /\ UNCHANGED cart
  BY <1>1, <1>a, QuietEnd
<1>2. CASE /\ Exists(c) /\ cart' = [cart EXCEPT ![c] = Touched(cart[c])]
           /\ (Goes(r, "view") /\ UNCHANGED ask) \/ Ends(r)
  <2>1. Frame(r) /\ \A d \in Carts : Wanted(d) = ask[d].wanted
    <3>. Kin(r, call)
      BY KinOf DEF CartInv
    <3>1. CASE Ends(r)
      BY <3>1, <1>a, EndsFrame DEF Ends
    <3>2. CASE Goes(r, "view") /\ UNCHANGED ask
      BY <3>2, <1>a, GoesFrame, NothingAsked
    <3>. QED  BY <1>2, <3>1, <3>2
  <2>2. PICK row \in CartRows : /\ cart' = [cart EXCEPT ![c] = row]
                               /\ row.qty = cart[c].qty /\ row.owner = cart[c].owner
    BY <1>2, RowsTyped
  <2>. QED  BY <1>2, <1>a, <2>1, <2>2, KeptStep DEF Exists
<1>. QED  BY <1>1, <1>2 DEF Touch

(* buildView and clampAll read the stock; next is the write.                 *)
LEMMA LooksOK ==
  ASSUME CartInv, NEW r \in CartCalls, BuildView(r) \/ ClampAll(r)
  PROVE  CartInv' /\ Settled
<1>a. /\ call[r].pc \in {"view", "clampAll"} /\ call[r].pc \in AtCart
      /\ shelf' = shelf /\ races' = races /\ cart' = cart
  BY DEF BuildView, ClampAll, AtCart
<1>. PICK c \in Carts : c = call[r].c
  BY <1>a, AtWork
<1>. /\ ask \in [Carts -> Asks] /\ call[r] \in CallRecords
     /\ shelf \in Nat /\ ask[c].low <= shelf /\ shelf <= ask[c].high
  BY <1>a, AtWork
<1>1. CASE Ends(r)
  BY <1>1, <1>a, QuietEnd
<1>2. ASSUME NEW p \in {"clampView", "clampLine"}, Exists(c), ask' = ask,
             Becomes(r, [call[r] EXCEPT !.pc = p, !.seen = shelf])
      PROVE  CartInv' /\ Settled
  <2>1. p \in CallPcs
    BY DEF CallPcs
  <2>2. PICK k \in CallRecords : /\ call' = [call EXCEPT ![r] = k] /\ k.pc = p
                                 /\ k.c = c /\ k.from = call[r].from /\ k.seen = shelf
    <3>. DEFINE w == [call[r] EXCEPT !.pc = p, !.seen = shelf]
    <3>1. w \in CallRecords /\ w.pc = p /\ w.c = c /\ w.from = call[r].from /\ w.seen = shelf
      BY <2>1 DEF CallRecords
    <3>. QED  BY <3>1, <1>2 DEF Becomes
  <2>3. Exists(k.c)' /\ ask' \in [Carts -> Asks]
    BY <1>a, <1>2, <2>2 DEF Exists
  <2>4. Holds(k)'
    BY <1>2, <2>2, <2>3 DEF Holds, AtCart, Merging
  <2>5. Kin(r, call)
    BY KinOf DEF CartInv
  <2>6. {k.c, k.from} \subseteq {call[r].c, call[r].from, "no cart"}
    BY <2>2
  <2>7. Frame(r) /\ \A d \in Carts : Wanted(d) = ask[d].wanted
    BY <1>a, <1>2, <2>2, <2>3, <2>4, <2>5, <2>6, StaysFrame, NothingAsked
  <2>. QED  BY <1>a, <2>7, QuietStep
<1>. QED  BY <1>1, <1>2 DEF BuildView, ClampAll

(* Its writes: of a view, at the end of it, and of an adopted cart.           *)
LEMMA ClampsOK ==
  ASSUME CartInv, NEW r \in CartCalls, ClampView(r) \/ ClampLine(r)
  PROVE  CartInv' /\ Settled
<1>a. /\ call[r].pc \in {"clampView", "clampLine"} /\ call[r].pc \in AtCart
      /\ call[r].pc \in SawStock /\ HoldsLine(call[r]) /\ shelf' = shelf
  BY DEF ClampView, ClampLine, AtCart, SawStock, HoldsLine
<1>. PICK c \in Carts : c = call[r].c
  BY <1>a, AtWork
<1>. DEFINE n == call[r].seen
<1>1. CASE call[r].lost
  <2>1. cart' = cart /\ races' = races /\ Ends(r)
    BY <1>1, <1>a DEF ClampView, ClampLine
  <2>. QED  BY <2>1, <1>a, QuietEnd
<1>2. CASE ~call[r].lost
  <2>. /\ ~Resting(c) /\ cart[c].qty \in Nat /\ Exists(c) /\ n \in Nat
       /\ ask[c].wanted \in Nat /\ ask[c].low \in Nat /\ ask[c].low <= n /\ n <= ask[c].high
       /\ races = {} => Answers(cart[c].qty, ask[c].wanted, ask[c])
    BY <1>2, <1>a, AtWork
  <2>1. /\ cart' = [cart EXCEPT ![c].qty = n] /\ Race("raised", n > cart[c].qty)
        /\ EndsAmong(call, r) \/ EndsAmong(Losing(c), r)
    BY <1>2 DEF ClampView, ClampLine, Ends
  <2>2. races \subseteq races' /\ (races' = {} => races = {} /\ ~(n > cart[c].qty))
    BY <2>1 DEF Race
  <2>3. Frame(r) /\ \A d \in Carts : Wanted(d) = ask[d].wanted
    <3>1. Kin(r, call) /\ Kin(r, Losing(c))
      BY KinOf DEF CartInv
    <3>. QED  BY <1>a, <2>1, <2>2, <3>1, EndsFrame
  <2>4. PICK row \in CartRows : /\ row.qty = n /\ row.owner = cart[c].owner
                               /\ cart' = [cart EXCEPT ![c] = row] /\ cart'[c].qty = n
    BY <2>1, QtyRow
  <2>5. ASSUME races' = {} PROVE Answered(r, c)
    <3>1. Answers(n, ask[c].wanted, ask[c])
      BY <2>2, <2>5 DEF Answers, Lower
    <3>. QED  BY <2>3, <2>4, <3>1 DEF Answered
  <2>6. Writes(r, c, row)
    BY <1>a, <2>3, <2>4, <2>5 DEF Writes, Exists
  <2>. QED  BY <2>3, <2>6, RowStep
<1>. QED  BY <1>1, <1>2

LEMMA WriteItemOK ==
  ASSUME CartInv, NEW r \in CartCalls, WriteItem(r)
  PROVE  CartInv' /\ Settled
<1>a. /\ call[r].pc = "set" /\ call[r].pc \in AtCart /\ call[r].pc \in SawStock
      /\ HoldsLine(call[r]) /\ shelf' = shelf /\ races' = races
  BY DEF WriteItem, AtCart, SawStock, HoldsLine
<1>. PICK c \in Carts : c = call[r].c
  BY <1>a, AtWork
<1>. DEFINE n == Lower(call[r].want, call[r].seen)
            others == IF n = 0 THEN Losing(c) ELSE call
<1>1. CASE call[r].lost /\ Ends(r) /\ UNCHANGED cart
  BY <1>1, <1>a, QuietEnd
<1>2. CASE /\ ~call[r].lost /\ cart' = [cart EXCEPT ![c].qty = n]
           /\ ask' = [ask EXCEPT ![c].wanted = n]
           /\ call' = [others EXCEPT ![r] = Fresh("touch", c)]
  <2>. /\ ~Resting(c) /\ Exists(c) /\ call[r].seen \in Nat /\ call[r].want \in Nat
       /\ ask \in [Carts -> Asks] /\ ask[c].low \in Nat /\ ask[c].high \in Nat
       /\ call[r].seen <= ask[c].high
    BY <1>2, <1>a, AtWork
  <2>1. n \in Nat /\ n <= call[r].seen
    BY DEF Lower
  <2>2. /\ ask' \in [Carts -> Asks] /\ ask'[c].wanted = n
        /\ \A d \in Carts : ask'[d].low = ask[d].low /\ ask'[d].high = ask[d].high
        /\ \A d \in Carts \ {c} : ask'[d] = ask[d]
    <3>. HIDE DEF n
    <3>. QED  BY <1>2, <2>1 DEF Asks
  <2>3. Frame(r) /\ call'[r].c = c
    <3>1. Kin(r, call) /\ Kin(r, Losing(c))
      BY KinOf DEF CartInv
    <3>2. \/ call' = [call EXCEPT ![r] = Fresh("touch", c)]
          \/ call' = [Losing(c) EXCEPT ![r] = Fresh("touch", c)]
      BY <1>2
    <3>3. c \in {call[r].c, call[r].from} /\ races \subseteq races'
      BY <1>a
    <3>6. /\ ask' \in [Carts -> Asks]
          /\ \A d \in Carts : ask'[d].low = ask[d].low /\ ask'[d].high = ask[d].high
      BY <2>2
    <3>7. shelf' = shelf
      BY <1>a
    <3>4. Frame(r)
      <4>. HIDE DEF n, others
      <4>1. CASE call' = [call EXCEPT ![r] = Fresh("touch", c)]
        BY <3>1, <3>3, <3>6, <3>7, <4>1, FreshFrame
      <4>2. CASE call' = [Losing(c) EXCEPT ![r] = Fresh("touch", c)]
        BY <3>1, <3>3, <3>6, <3>7, <4>2, FreshFrame
      <4>. QED  BY <3>2, <4>1, <4>2
    <3>5. call'[r].c = c
      <4>1. Fresh("touch", c).c = c
        BY DEF Fresh, NoCall
      <4>2. call'[r] = Fresh("touch", c)
        BY <3>1, <3>2 DEF Kin
      <4>. QED  BY <4>1, <4>2
    <3>. QED  BY <3>4, <3>5
  <2>4. Wanted(c) = n /\ \A d \in Carts \ {c} : Wanted(d) = ask[d].wanted
    BY <2>2, <2>3 DEF Wanted, Resting
  <2>5. PICK row \in CartRows : /\ row.qty = n /\ row.owner = cart[c].owner
                               /\ cart' = [cart EXCEPT ![c] = row] /\ cart'[c].qty = n
    <3>. HIDE DEF n
    <3>. QED  BY <1>2, <2>1, QtyRow
  <2>6. Answered(r, c)
    <3>1. Answers(n, n, ask[c]) /\ n <= ask[c].high
      BY <2>1 DEF Answers, Lower
    <3>. QED  BY <2>4, <2>5, <3>1 DEF Answered
  <2>7. Writes(r, c, row)
    BY <1>a, <2>4, <2>5, <2>6 DEF Writes, Exists
  <2>. QED  BY <2>3, <2>7, RowStep
<1>. QED  BY <1>1, <1>2 DEF WriteItem, Fresh

LEMMA BumpOK ==
  ASSUME CartInv, NEW r \in CartCalls, Bump(r)
  PROVE  CartInv' /\ Settled
<1>a. call[r].pc = "bump" /\ call[r].pc \in AtCart /\ shelf' = shelf /\ races' = races
  BY DEF Bump, AtCart
<1>. PICK c \in Carts : c = call[r].c
  BY <1>a, AtWork
<1>. cart[c] \in CartRows /\ ask \in [Carts -> Asks]
  BY <1>a, AtWork
<1>1. CASE ~Exists(c) /\ Ends(r) /\ UNCHANGED cart
  BY <1>1, <1>a, QuietEnd
<1>2. CASE /\ Exists(c) /\ cart' = [cart EXCEPT ![c] = Moved(cart[c])]
           /\ Goes(r, "view") /\ UNCHANGED ask
  <2>1. Frame(r) /\ \A d \in Carts : Wanted(d) = ask[d].wanted
    BY <1>2, <1>a, GoesFrame, NothingAsked
  <2>2. PICK row \in CartRows : /\ cart' = [cart EXCEPT ![c] = row]
                               /\ row.qty = cart[c].qty /\ row.owner = cart[c].owner
    BY <1>2, RowsTyped
  <2>. QED  BY <1>2, <1>a, <2>1, <2>2, KeptStep DEF Exists
<1>. QED  BY <1>1, <1>2 DEF Bump

LEMMA DropCallOK ==
  ASSUME CartInv, NEW r \in CartCalls, DropCall(r)
  PROVE  CartInv' /\ Settled
<1>1. Ends(r) /\ UNCHANGED <<shelf, cart>> /\ races' = races \cup {"crash"}
  BY DEF DropCall, Race
<1>. QED  BY <1>1, QuietEnd

-----------------------------------------------------------------------------
(* The steps of a merge.                                                    *)
LEMMA AtMerge ==
  ASSUME CartInv, NEW r \in CartCalls, call[r].pc \in Merging, NEW d, d = call[r].from
  PROVE  /\ d \in Carts /\ ~Resting(d) /\ cart[d] \in CartRows
         /\ ask \in [Carts -> Asks] /\ call[r] \in CallRecords /\ shelf \in Nat
         /\ call[r].gqty \in Nat /\ call[r].read \in Nat /\ call[r].seen \in Nat
<1>1. Holds(call[r]) /\ CartTypes
  BY DEF CartInv, CallsInv
<1>2. d \in Carts /\ ~Resting(d)
  BY <1>1 DEF Holds, Resting
<1>3. call[r] \in CallRecords
  BY <1>1 DEF CartTypes
<1>4. call[r].gqty \in Nat /\ call[r].read \in Nat /\ call[r].seen \in Nat
  BY <1>3 DEF CallRecords
<1>. QED  BY <1>1, <1>2, <1>3, <1>4 DEF CartTypes

(* A call comes to cart d, and asks a of it.                                *)
LEMMA JoinsFrame ==
  ASSUME CartInv, NEW r \in CartCalls, NEW others, NEW k \in CallRecords, Kin(r, others),
         call' = [others EXCEPT ![r] = k],
         NEW d \in Carts, {k.c, k.from} \subseteq {d, call[r].c, call[r].from, "no cart"},
         NEW a \in Asks, ask' = [ask EXCEPT ![d] = a],
         a.low = Asked(d).low, a.high = Asked(d).high,
         Resting(d) => cart'[d].qty = a.wanted /\ cart'[d].qty <= cart[d].qty,
         shelf' = shelf, races \subseteq races', Holds(k)'
  PROVE  /\ Frame(r) /\ call'[r] = k /\ ask'[d] = a
         /\ \A c \in Carts \ {d} : Wanted(c) = ask[c].wanted
<1>1. /\ ask' \in [Carts -> Asks] /\ ask'[d] = a /\ \A c \in Carts \ {d} : ask'[c] = ask[c]
  BY DEF CartInv, CartTypes
<1>2. Resting(d) => Arrived(d)
  BY <1>1 DEF Arrived, Asked
<1>3. ~Resting(d) => a.low = ask[d].low /\ a.high = ask[d].high
  BY DEF Asked
<1>4. \A c \in Carts : c \in {k.c, k.from} /\ Resting(c) => Arrived(c)
  BY <1>2, CartAssumption DEF Resting
<1>5. call' \in [CartCalls -> CallRecords] /\ call'[r] = k /\ Alone(r) /\ Window
  <2>1. \A c \in Carts : ~Resting(c) /\ ~Resting(c)'
          => ask'[c].low = ask[c].low /\ ask'[c].high = ask[c].high
    BY <1>1, <1>3
  <2>. QED  BY <1>4, <2>1, Framed
<1>6. Holds(call[r])'
  BY <1>5 DEF Holds
<1>7. \A c \in Carts \ {d} : Wanted(c) = ask[c].wanted
  BY <1>1 DEF Wanted
<1>. QED  BY <1>1, <1>5, <1>6, <1>7 DEF Frame

(* What is asked of a cart that calls come to, and of one they are at.        *)
LEMMA AskedTyped ==
  ASSUME CartInv, NEW d \in Carts
  PROVE  /\ Asked(d) \in Asks /\ Asked(d).low <= shelf /\ shelf <= Asked(d).high
         /\ Resting(d) => Asked(d).wanted = cart[d].qty
         /\ ~Resting(d) => Asked(d) = ask[d]
         /\ cart[d] \in CartRows /\ cart[d].qty \in Nat /\ shelf \in Nat
         /\ [Asked(d) EXCEPT !.wanted = 0] \in Asks
         /\ [Asked(d) EXCEPT !.wanted = 0].wanted = 0
         /\ [Asked(d) EXCEPT !.wanted = 0].low = Asked(d).low
         /\ [Asked(d) EXCEPT !.wanted = 0].high = Asked(d).high
<1>1. cart[d] \in CartRows /\ shelf \in Nat /\ ask[d] \in Asks
  BY DEF CartInv, CartTypes
<1>2. cart[d].qty \in Nat
  BY <1>1 DEF CartRows
<1>3. CASE Resting(d)
  <2>. DEFINE h == Upper(shelf, cart[d].qty)
  <2>1. h \in Nat /\ shelf <= h
    BY <1>1, <1>2 DEF Upper
  <2>. HIDE DEF h
  <2>2. Asked(d) = [wanted |-> cart[d].qty, low |-> shelf, high |-> h]
    BY <1>3 DEF Asked, h
  <2>. QED  BY <1>1, <1>2, <1>3, <2>1, <2>2 DEF Asks
<1>4. CASE ~Resting(d)
  <2>1. Asked(d) = ask[d]
    BY <1>4 DEF Asked
  <2>2. ask[d].low <= shelf /\ shelf <= ask[d].high
    BY <1>4 DEF CartInv, ShelfInv
  <2>. QED  BY <1>1, <1>2, <1>4, <2>1, <2>2 DEF Asks
<1>. QED  BY <1>3, <1>4

LEMMA FindUserCartOK ==
  ASSUME CartInv, NEW r \in CartCalls, FindUserCart(r)
  PROVE  CartInv' /\ Settled
<1>a. /\ call[r].pc = "findUserCart" /\ call[r].pc \in Merging
      /\ shelf' = shelf /\ races' = races /\ cart' = cart
  BY DEF FindUserCart, Merging
<1>. PICK d \in Carts : d = call[r].from
  BY <1>a, AtMerge
<1>. call[r] \in CallRecords /\ ask \in [Carts -> Asks] /\ shelf \in Nat
  BY <1>a, AtMerge
<1>1. CASE Goes(r, "adopt") /\ UNCHANGED ask
  <2>1. Frame(r) /\ \A c \in Carts : Wanted(c) = ask[c].wanted
    BY <1>1, <1>a, GoesFrame, NothingAsked
  <2>. QED  BY <1>a, <2>1, QuietStep
<1>2. ASSUME NEW c \in Carts, NEW p \in {"dropGuest", "readLine"},
             Becomes(r, [call[r] EXCEPT !.pc = p, !.c = c, !.seen = shelf]),
             ask' = [ask EXCEPT ![c] = Asked(c)]
      PROVE  CartInv' /\ Settled
  <2>1. p \in CallPcs
    BY DEF CallPcs
  <2>2. PICK k \in CallRecords : /\ call' = [call EXCEPT ![r] = k] /\ k.pc = p
                                 /\ k.c = c /\ k.from = d /\ k.seen = shelf
    <3>. DEFINE w == [call[r] EXCEPT !.pc = p, !.c = c, !.seen = shelf]
    <3>1. w \in CallRecords /\ w.pc = p /\ w.c = c /\ w.from = d /\ w.seen = shelf
      BY <2>1 DEF CallRecords
    <3>. QED  BY <3>1, <1>2 DEF Becomes
  <2>3. PICK a \in Asks : /\ a = Asked(c) /\ a.low <= shelf /\ shelf <= a.high
                          /\ Resting(c) => a.wanted = cart[c].qty
                          /\ ~Resting(c) => a = ask[c]
    BY AskedTyped
  <2>4. ask'[c] = a
    BY <1>2, <2>3
  <2>5. Holds(k)'
    BY <2>2, <2>3, <2>4 DEF Holds, HoldsLine
  <2>6. Kin(r, call)
    BY KinOf DEF CartInv
  <2>7. {k.c, k.from} \subseteq {c, call[r].c, call[r].from, "no cart"}
    BY <2>2
  <2>8. cart[c].qty \in Nat
    BY AskedTyped
  <2>9. Frame(r) /\ \A b \in Carts \ {c} : Wanted(b) = ask[b].wanted
    <3>1. /\ ask' = [ask EXCEPT ![c] = a] /\ a.low = Asked(c).low /\ a.high = Asked(c).high
          /\ races \subseteq races'
          /\ Resting(c) => cart'[c].qty = a.wanted /\ cart'[c].qty <= cart[c].qty
      BY <1>a, <1>2, <2>3, <2>8
    <3>. QED  BY <1>a, <2>2, <2>5, <2>6, <2>7, <3>1, JoinsFrame
  <2>10. ~Resting(c) => Wanted(c) = ask[c].wanted
    BY <2>3, <2>4 DEF Wanted
  <2>. QED  BY <1>a, <2>9, <2>10, QuietStep
<1>. QED  BY <1>1, <1>2 DEF FindUserCart

LEMMA ReadLineOK ==
  ASSUME CartInv, NEW r \in CartCalls, ReadLine(r)
  PROVE  CartInv' /\ Settled
<1>a. /\ call[r].pc = "readLine" /\ call[r].pc \in Merging /\ call[r].pc \in AtCart
      /\ call[r].pc \in SawStock
      /\ shelf' = shelf /\ races' = races /\ cart' = cart /\ ask' = ask
  BY DEF ReadLine, Merging, AtCart, SawStock
<1>. PICK c \in Carts : c = call[r].c
  BY <1>a, AtWork
<1>. /\ call[r] \in CallRecords /\ ask \in [Carts -> Asks] /\ cart[c].qty \in Nat
     /\ ask[c].low <= call[r].seen /\ call[r].seen <= ask[c].high
  BY <1>a, AtWork
<1>. PICK d \in Carts : d = call[r].from
  BY <1>a, AtMerge
<1>1. PICK k \in CallRecords : /\ call' = [call EXCEPT ![r] = k] /\ k.pc = "fold"
                               /\ k.c = c /\ k.from = d /\ k.seen = call[r].seen
  <2>. DEFINE w == [call[r] EXCEPT !.pc = "fold", !.read = cart[c].qty]
  <2>1. w \in CallRecords /\ w.pc = "fold" /\ w.c = c /\ w.from = d /\ w.seen = call[r].seen
    BY DEF CallRecords, CallPcs
  <2>. QED  BY <2>1 DEF ReadLine, Becomes
<1>2. Holds(k)'
  BY <1>a, <1>1 DEF Holds, HoldsLine
<1>3. Kin(r, call)
  BY KinOf DEF CartInv
<1>4. {k.c, k.from} \subseteq {call[r].c, call[r].from, "no cart"}
  BY <1>1
<1>5. ask' \in [Carts -> Asks]
  BY <1>a
<1>6. Frame(r) /\ \A b \in Carts : Wanted(b) = ask[b].wanted
  BY <1>a, <1>1, <1>2, <1>3, <1>4, <1>5, StaysFrame, NothingAsked
<1>. QED  BY <1>a, <1>6, QuietStep

LEMMA FoldOK ==
  ASSUME CartInv, NEW r \in CartCalls, Fold(r)
  PROVE  CartInv' /\ Settled
<1>a. /\ call[r].pc = "fold" /\ call[r].pc \in Merging /\ call[r].pc \in AtCart
      /\ call[r].pc \in SawStock /\ shelf' = shelf
  BY DEF Fold, Merging, AtCart, SawStock
<1>. PICK c \in Carts : c = call[r].c
  BY <1>a, AtWork
<1>. DEFINE n == Lower(call[r].read + call[r].gqty, call[r].seen)
<1>1. CASE ~Exists(c) /\ Ends(r) /\ UNCHANGED <<cart, races>>
  BY <1>1, <1>a, QuietEnd
<1>2. CASE /\ Exists(c) /\ cart' = [cart EXCEPT ![c].qty = n]
           /\ ask' = [ask EXCEPT ![c].wanted = ask[c].wanted + call[r].gqty]
           /\ races \subseteq races'
           /\ cart[c].qty # call[r].read => "crossed" \in races'
           /\ Goes(r, "dropGuest")
  <2>. /\ ~Resting(c) /\ cart[c].qty \in Nat /\ call[r] \in CallRecords
       /\ ask \in [Carts -> Asks] /\ ask[c].low \in Nat /\ ask[c].high \in Nat
       /\ ask[c].wanted \in Nat
       /\ call[r].seen \in Nat /\ call[r].read \in Nat /\ call[r].gqty \in Nat
       /\ ask[c].low <= call[r].seen /\ call[r].seen <= ask[c].high
       /\ races = {} => Answers(cart[c].qty, ask[c].wanted, ask[c])
    BY <1>2, <1>a, AtWork
  <2>1. n \in Nat /\ n <= call[r].seen
    BY DEF Lower
  <2>2. /\ ask' \in [Carts -> Asks] /\ ask'[c].wanted = ask[c].wanted + call[r].gqty
        /\ \A d \in Carts : ask'[d].low = ask[d].low /\ ask'[d].high = ask[d].high
        /\ \A d \in Carts \ {c} : ask'[d] = ask[d]
    BY <1>2 DEF Asks
  <2>3. Frame(r) /\ call'[r].c = c
    BY <1>a, <1>2, <2>2, GoesFrame
  <2>4. /\ Wanted(c) = ask[c].wanted + call[r].gqty
        /\ \A d \in Carts \ {c} : Wanted(d) = ask[d].wanted
    BY <2>2, <2>3 DEF Wanted, Resting
  <2>5. PICK row \in CartRows : /\ row.qty = n /\ row.owner = cart[c].owner
                               /\ cart' = [cart EXCEPT ![c] = row] /\ cart'[c].qty = n
    <3>. HIDE DEF n
    <3>. QED  BY <1>2, <2>1, QtyRow
  <2>6. ASSUME races' = {} PROVE Answered(r, c)
    <3>1. races = {} /\ cart[c].qty = call[r].read
      BY <1>2, <2>6
    <3>2. Answers(n, ask[c].wanted + call[r].gqty, ask[c]) /\ n <= ask[c].high
      BY <2>1, <3>1 DEF Answers, Lower
    <3>. QED  BY <2>4, <2>5, <3>2 DEF Answered
  <2>7. Writes(r, c, row)
    BY <1>a, <1>2, <2>4, <2>5, <2>6 DEF Writes, Exists
  <2>. QED  BY <2>3, <2>7, RowStep
<1>. QED
  <2>1. \/ ~Exists(c) /\ Ends(r) /\ UNCHANGED <<cart, races>>
        \/ /\ Exists(c) /\ cart' = [cart EXCEPT ![c].qty = n]
           /\ ask' = [ask EXCEPT ![c].wanted = ask[c].wanted + call[r].gqty]
           /\ races \subseteq races'
           /\ cart[c].qty # call[r].read => "crossed" \in races'
           /\ Goes(r, "dropGuest")
    BY DEF Fold
  <2>. QED  BY <1>1, <1>2, <2>1

LEMMA DropGuestOK ==
  ASSUME CartInv, NEW r \in CartCalls, DropGuest(r)
  PROVE  CartInv' /\ Settled
<1>a. call[r].pc = "dropGuest" /\ call[r].pc \in Merging /\ shelf' = shelf
  BY DEF DropGuest, Merging
<1>. PICK d \in Carts : d = call[r].from
  BY <1>a, AtMerge
<1>. ask \in [Carts -> Asks]
  BY <1>a, AtMerge
<1>1. CASE ~Exists(d) /\ Ends(r) /\ UNCHANGED <<cart, races>>
  BY <1>1, <1>a, QuietEnd
<1>2. CASE /\ Exists(d) /\ cart' = [cart EXCEPT ![d] = NoCart] /\ races \subseteq races'
           /\ \/ /\ call[r].c \in Carts
                 /\ call' = [Losing(d) EXCEPT
                              ![r] = Fresh("lastTouch", call[r].c)]
                 /\ UNCHANGED ask
              \/ EndsAmong(Losing(d), r)
  <2>1. Kin(r, Losing(d))
    BY KinOf DEF CartInv
  <2>2. Frame(r) /\ \A c \in Carts : Wanted(c) = ask[c].wanted
    <3>1. CASE EndsAmong(Losing(d), r)
      BY <3>1, <1>a, <1>2, <2>1, EndsFrame
    <3>2. CASE /\ call[r].c \in Carts /\ UNCHANGED ask
               /\ call' = [Losing(d) EXCEPT
                            ![r] = Fresh("lastTouch", call[r].c)]
      <4>. PICK c \in Carts : c = call[r].c
        BY <3>2
      <4>1. /\ ask' \in [Carts -> Asks]
            /\ call' = [Losing(d) EXCEPT ![r] = Fresh("lastTouch", c)]
        BY <3>2
      <4>. QED  BY <3>2, <1>a, <1>2, <2>1, <4>1, FreshFrame, NothingAsked
    <3>. QED  BY <1>2, <3>1, <3>2
  <2>3. ASSUME NEW q \in CartCalls \ {r}, HoldsLine(call[q]), call[q].c = d
        PROVE  call'[q].lost
    <3>1. Losing(d)[q].lost
      <4>1. Losing(d)[q] = [call[q] EXCEPT !.lost = TRUE] /\ call[q] \in CallRecords
        BY <2>3, Loses DEF CartInv, CartTypes
      <4>. QED  BY <4>1 DEF CallRecords
    <3>2. call'[q] = Losing(d)[q]
      BY <1>2, <2>1 DEF Kin, EndsAmong
    <3>. QED  BY <3>1, <3>2
  <2>4. NoCart \in CartRows /\ NoCart.owner = "none" /\ NoCart.qty = 0
    BY NoCartTyped
  <2>5. Writes(r, d, NoCart)
    BY <1>a, <1>2, <2>2, <2>3, <2>4 DEF Writes
  <2>. QED  BY <2>2, <2>5, RowStep
<1>. QED
  <2>1. \/ ~Exists(d) /\ Ends(r) /\ UNCHANGED <<cart, races>>
        \/ /\ Exists(d) /\ cart' = [cart EXCEPT ![d] = NoCart] /\ races \subseteq races'
           /\ \/ /\ call[r].c \in Carts
                 /\ call' = [Losing(d) EXCEPT
                              ![r] = Fresh("lastTouch", call[r].c)]
                 /\ UNCHANGED ask
              \/ EndsAmong(Losing(d), r)
    BY DEF DropGuest, Race, Fresh
  <2>. QED  BY <1>1, <1>2, <2>1

LEMMA AdoptOK ==
  ASSUME CartInv, NEW r \in CartCalls, Adopt(r)
  PROVE  CartInv' /\ Settled
<1>a. /\ call[r].pc = "adopt" /\ call[r].pc \in Merging /\ shelf' = shelf /\ races' = races
  BY DEF Adopt, Merging
<1>. PICK d \in Carts : d = call[r].from
  BY <1>a, AtMerge
<1>. ask \in [Carts -> Asks] /\ cart[d] \in CartRows
  BY <1>a, AtMerge
<1>1. CASE Ends(r) /\ UNCHANGED cart
  BY <1>1, <1>a, QuietEnd
<1>2. CASE /\ Exists(d)
           /\ cart' = [cart EXCEPT ![d] = [Moved(cart[d]) EXCEPT !.owner = "user", !.email = TRUE]]
           /\ Becomes(r, Fresh("clampAll", d)) /\ UNCHANGED ask
  <2>1. Kin(r, call)
    BY KinOf DEF CartInv
  <2>2. Frame(r) /\ \A c \in Carts : Wanted(c) = ask[c].wanted
    <3>1. ask' \in [Carts -> Asks]
      BY <1>2
    <3>. QED  BY <1>a, <1>2, <2>1, <3>1, FreshFrame, NothingAsked DEF Becomes
  <2>3. PICK row \in CartRows : /\ cart' = [cart EXCEPT ![d] = row]
                               /\ row.qty = cart[d].qty /\ row.owner = "user"
    <3>. DEFINE w == [Moved(cart[d]) EXCEPT !.owner = "user", !.email = TRUE]
    <3>1. Moved(cart[d]) \in CartRows /\ Moved(cart[d]).qty = cart[d].qty
      BY RowsTyped
    <3>2. w \in CartRows /\ w.qty = cart[d].qty /\ w.owner = "user"
      BY <3>1 DEF CartRows
    <3>. QED  BY <1>2, <3>2
  <2>. QED  BY <1>a, <1>2, <2>2, <2>3, KeptStep
<1>. QED  BY <1>1, <1>2 DEF Adopt, Fresh

-----------------------------------------------------------------------------
LEMMA ShelfBound == 0..MaxShelf \subseteq Nat /\ 1..MaxShelf \subseteq Nat
<1>1. MaxShelf \in Nat
  BY CartAssumption
<1>. QED  BY <1>1

(* A call begins, at cart d: with the stock, or a guest's cart, it has read.  *)
Starts(k, d) ==
  \/ k.c = d /\ k.from = "no cart" /\ k.pc \in {"touch", "bump", "view"}
  \/ k.c = d /\ k.from = "no cart" /\ k.pc = "upsert" /\ k.seen = shelf
  \/ k.c = d /\ k.from = "no cart" /\ k.pc = "set" /\ k.seen = shelf /\ Exists(d)
  \/ k.c = "no cart" /\ k.from = d /\ k.pc \in {"findUserCart", "dropGuest"}

LEMMA AskedOfOne ==
  ASSUME CartInv, NEW d \in Carts, NEW a, ask' = [ask EXCEPT ![d] = a]
  PROVE  ask'[d] = a /\ \A c \in Carts \ {d} : Wanted(c) = ask[c].wanted
  BY DEF CartInv, CartTypes, Wanted

LEMMA BeginFrame ==
  ASSUME CartInv, NEW r \in CartCalls, AtRest(r), NEW others, Kin(r, others),
         NEW k \in CallRecords, call' = [others EXCEPT ![r] = k],
         NEW d \in Carts, Starts(k, d), Exists(d) => Exists(d)',
         NEW a \in Asks, ask' = [ask EXCEPT ![d] = a],
         a.low = Asked(d).low, a.high = Asked(d).high,
         Resting(d) => cart'[d].qty = a.wanted /\ cart'[d].qty <= cart[d].qty,
         shelf' = shelf, races \subseteq races'
  PROVE  Frame(r)
<1>1. ask'[d] = a
  BY DEF CartInv, CartTypes
<1>2. a.low <= shelf /\ shelf <= a.high
  BY AskedTyped
<1>3. Holds(k)'
  BY <1>1, <1>2 DEF Starts, Holds, HoldsLine, AtCart, Merging, SawStock
<1>4. {k.c, k.from} \subseteq {d, call[r].c, call[r].from, "no cart"}
  BY DEF Starts
<1>. QED  BY <1>3, <1>4, JoinsFrame

(* It leaves the carts alone.                                               *)
LEMMA BeginQuiet ==
  ASSUME CartInv, NEW r \in CartCalls, AtRest(r), NEW k \in CallRecords,
         call' = [call EXCEPT ![r] = k], NEW d \in Carts, Starts(k, d),
         ask' = [ask EXCEPT ![d] = Asked(d)],
         UNCHANGED <<shelf, cart, races>>
  PROVE  CartInv' /\ Settled
<1>1. PICK a \in Asks : /\ a = Asked(d) /\ (Resting(d) => a.wanted = cart[d].qty)
                        /\ (~Resting(d) => a = ask[d])
  BY AskedTyped
<1>2. Kin(r, call) /\ cart[d].qty \in Nat
  BY KinOf, AskedTyped DEF CartInv
<1>3. /\ ask' = [ask EXCEPT ![d] = a] /\ a.low = Asked(d).low /\ a.high = Asked(d).high
      /\ Resting(d) => cart'[d].qty = a.wanted /\ cart'[d].qty <= cart[d].qty
      /\ shelf' = shelf /\ races \subseteq races' /\ (Exists(d) => Exists(d)')
  <2>1. cart'[d] = cart[d] /\ shelf' = shelf /\ races' = races
    OBVIOUS
  <2>2. Exists(d) => Exists(d)'
    BY <2>1 DEF Exists
  <2>3. Resting(d) => cart'[d].qty = a.wanted /\ cart'[d].qty <= cart[d].qty
    BY <1>1, <1>2, <2>1
  <2>. QED  BY <1>1, <2>1, <2>2, <2>3
<1>4. Frame(r)
  BY <1>1, <1>2, <1>3, BeginFrame
<1>5. ask'[d] = a /\ \A c \in Carts \ {d} : Wanted(c) = ask[c].wanted
  BY <1>3, AskedOfOne
<1>6. ~Resting(d) => Wanted(d) = ask[d].wanted
  BY <1>1, <1>5 DEF Wanted
<1>7. call[r].pc # "clamp"
  BY DEF AtRest
<1>. QED  BY <1>4, <1>5, <1>6, <1>7, QuietStep

LEMMA ReadsOK ==
  ASSUME CartInv, NEW r \in CartCalls, NEW c \in Carts,
         \/ View(r, c) \/ ChangeCoupon(r, c) \/ Merge(r, c)
         \/ \E n \in 0..MaxShelf : SetItem(r, c, n)
  PROVE  CartInv' /\ Settled
<1>1. shelf \in Nat /\ cart[c].qty \in Nat
  BY AskedTyped
<1>2. AtRest(r) /\ ask' = [ask EXCEPT ![c] = Asked(c)] /\ UNCHANGED <<shelf, cart, races>>
  BY DEF View, ChangeCoupon, Merge, SetItem, Begin
<1>3. PICK k \in CallRecords :
        /\ call' = [call EXCEPT ![r] = k]
        /\ Starts(k, c)
  <2>1. CASE View(r, c)
    <3>. DEFINE w == [NoCall EXCEPT !.pc = "view", !.c = c]
    <3>1. w \in CallRecords /\ w.pc = "view" /\ w.c = c /\ w.from = "no cart"
      BY DEF NoCall, CallRecords, CallPcs
    <3>2. call' = [call EXCEPT ![r] = w]
      BY <2>1 DEF View, Begin, Becomes
    <3>. QED  BY <3>1, <3>2 DEF Starts
  <2>2. CASE ChangeCoupon(r, c)
    <3>. DEFINE w == [NoCall EXCEPT !.pc = "bump", !.c = c]
    <3>1. w \in CallRecords /\ w.pc = "bump" /\ w.c = c /\ w.from = "no cart"
      BY DEF NoCall, CallRecords, CallPcs
    <3>2. call' = [call EXCEPT ![r] = w]
      BY <2>2 DEF ChangeCoupon, Begin, Becomes
    <3>. QED  BY <3>1, <3>2 DEF Starts
  <2>3. CASE Merge(r, c)
    <3>. DEFINE p == IF cart[c].qty = 0 THEN "dropGuest" ELSE "findUserCart"
                w == [NoCall EXCEPT !.pc = p, !.from = c, !.gqty = cart[c].qty]
    <3>1. p \in {"findUserCart", "dropGuest"} /\ p \in CallPcs
      BY DEF CallPcs
    <3>2. call' = [call EXCEPT ![r] = w]
      BY <2>3 DEF Merge, Becomes
    <3>. HIDE DEF p
    <3>3. w \in CallRecords /\ w.pc = p /\ w.c = "no cart" /\ w.from = c
      BY <1>1, <3>1 DEF NoCall, CallRecords
    <3>. QED  BY <3>1, <3>2, <3>3 DEF Starts
  <2>4. ASSUME NEW n \in 0..MaxShelf, SetItem(r, c, n)
        PROVE  \E k \in CallRecords :
                 /\ call' = [call EXCEPT ![r] = k]
                 /\ Starts(k, c)
    <3>. DEFINE w == [NoCall EXCEPT !.pc = "set", !.want = n, !.seen = shelf, !.c = c]
    <3>0. n \in Nat /\ "set" \in CallPcs
      BY ShelfBound DEF CallPcs
    <3>1. w \in CallRecords /\ w.pc = "set" /\ w.c = c /\ w.from = "no cart" /\ w.seen = shelf
      BY <1>1, <3>0 DEF NoCall, CallRecords
    <3>2. call' = [call EXCEPT ![r] = w] /\ Exists(c)
      BY <2>4 DEF SetItem, Begin, Becomes
    <3>. QED  BY <3>1, <3>2 DEF Starts
  <2>. QED  BY <2>1, <2>2, <2>3, <2>4
<1>. QED  BY <1>2, <1>3, BeginQuiet

LEMMA AddItemOK ==
  ASSUME CartInv, NEW r \in CartCalls, NEW who \in {"guest", "user"}, NEW c \in Carts,
         NEW n \in 1..MaxShelf, AddItem(r, who, c, n)
  PROVE  CartInv' /\ Settled
<1>1. /\ shelf \in Nat /\ cart[c].qty \in Nat /\ cart[c] \in CartRows
      /\ cart \in [Carts -> CartRows] /\ n \in Nat
  BY AskedTyped, ShelfBound DEF CartInv, CartTypes
<1>2. /\ AtRest(r) /\ shelf' = shelf /\ races' = races
      /\ \/ UNCHANGED <<call, ask>>
         \/ Begin(r, c, [NoCall EXCEPT !.pc = "upsert", !.want = n, !.seen = shelf])
  BY DEF AddItem, Begin
<1>3. \/ cart' = cart
      \/ /\ ~Exists(c) /\ Resting(c)
         /\ cart' = [cart EXCEPT ![c] = [NoCart EXCEPT !.owner = who, !.email = who = "user"]]
  BY DEF AddItem, ResolveForWrite
(* The row of the cart, if it is created.                                   *)
<1>4. ASSUME cart' # cart
      PROVE  /\ ~Exists(c) /\ Resting(c) /\ cart[c].qty = 0
             /\ \E row \in CartRows : /\ row.owner # "none" /\ row.qty = 0
                                      /\ cart' = [cart EXCEPT ![c] = row]
  <2>. DEFINE w == [NoCart EXCEPT !.owner = who, !.email = (who = "user")]
  <2>1. w \in CartRows /\ w.owner = who /\ w.qty = 0
    BY NoCartTyped
  <2>2. ~Exists(c) /\ Resting(c) /\ cart' = [cart EXCEPT ![c] = w]
    BY <1>3, <1>4
  <2>3. cart[c].qty = 0
    BY <2>2 DEF Exists, CartInv, RowsInv
  <2>. QED  BY <2>1, <2>2, <2>3
<1>5. CASE Begin(r, c, [NoCall EXCEPT !.pc = "upsert", !.want = n, !.seen = shelf])
  <2>1. PICK k \in CallRecords :
          /\ call' = [call EXCEPT ![r] = k]
          /\ k.c = c /\ k.from = "no cart" /\ k.pc = "upsert" /\ k.seen = shelf
          /\ Starts(k, c)
    <3>. DEFINE w == [NoCall EXCEPT !.pc = "upsert", !.want = n, !.seen = shelf, !.c = c]
    <3>1. w \in CallRecords /\ w.pc = "upsert" /\ w.c = c /\ w.from = "no cart" /\ w.seen = shelf
      BY <1>1 DEF NoCall, CallRecords, CallPcs
    <3>2. call' = [call EXCEPT ![r] = w]
      BY <1>5 DEF Begin, Becomes
    <3>. QED  BY <3>1, <3>2 DEF Starts
  <2>2. ask' = [ask EXCEPT ![c] = Asked(c)]
    BY <1>5 DEF Begin
  <2>3. CASE cart' = cart
    BY <1>2, <2>1, <2>2, <2>3, BeginQuiet
  <2>4. CASE cart' # cart
    <3>. PICK row \in CartRows : /\ row.owner # "none" /\ row.qty = 0
                                /\ cart' = [cart EXCEPT ![c] = row]
      BY <2>4, <1>4
    <3>1. PICK a \in Asks : a = Asked(c) /\ (Resting(c) => a.wanted = cart[c].qty)
      BY AskedTyped
    <3>2. /\ ask' = [ask EXCEPT ![c] = a] /\ a.low = Asked(c).low /\ a.high = Asked(c).high
          /\ cart'[c].qty = a.wanted /\ cart'[c].qty <= cart[c].qty
          /\ races \subseteq races' /\ Resting(c) /\ ~Exists(c)
      BY <1>1, <1>2, <1>4, <2>2, <2>4, <3>1
    <3>3. Kin(r, call)
      BY KinOf DEF CartInv
    <3>4. Frame(r)
      BY <1>2, <2>1, <3>2, <3>3, BeginFrame
    <3>6. \A d \in Carts \ {c} : Wanted(d) = ask[d].wanted
      BY <3>2, AskedOfOne
    <3>5. Writes(r, c, row)
      BY <1>2, <3>2, <3>6 DEF Writes, AtRest
    <3>. QED  BY <3>4, <3>5, RowStep
  <2>. QED  BY <2>3, <2>4
(* Nothing in stock: the cart may have been created.                        *)
<1>6. CASE UNCHANGED <<call, ask>>
  <2>1. Frame(r) /\ \A d \in Carts : Wanted(d) = ask[d].wanted
    <3>1. \A d \in Carts : Resting(d)' <=> Resting(d)
      BY <1>6 DEF Resting
    <3>2. Holds(call[r])'
      <4>1. call'[r].pc = "idle" /\ call'[r] = NoCall
        BY <1>2, <1>6 DEF AtRest, CartInv, CallsInv, Holds
      <4>. QED  BY <4>1 DEF Holds, HoldsLine, AtCart, Merging, SawStock
    <3>3. call' \in [CartCalls -> CallRecords] /\ ask' \in [Carts -> Asks]
      BY <1>6 DEF CartInv, CartTypes
    <3>. QED  BY <1>2, <1>6, <3>1, <3>2, <3>3 DEF Frame, Alone, Window, Wanted
  <2>2. CASE cart' = cart
    BY <1>2, <2>1, <2>2, QuietStep DEF AtRest
  <2>3. CASE cart' # cart
    <3>. PICK row \in CartRows : /\ row.owner # "none" /\ row.qty = 0
                                /\ cart' = [cart EXCEPT ![c] = row]
      BY <2>3, <1>4
    <3>1. Writes(r, c, row)
      BY <1>2, <1>4, <2>1, <2>3 DEF Writes, AtRest
    <3>. QED  BY <2>1, <3>1, RowStep
  <2>. QED  BY <2>2, <2>3
<1>. QED  BY <1>2, <1>5, <1>6

LEMMA DeleteLineOK ==
  ASSUME CartInv, NEW r \in CartCalls, NEW c \in Carts, Exists(c),
         NEW p \in {"touch", "bump"}, DeleteLine(r, c, p)
  PROVE  CartInv' /\ Settled
<1>1. /\ AtRest(r) /\ shelf' = shelf /\ races' = races
      /\ cart' = [cart EXCEPT ![c].qty = 0]
      /\ ask' = [ask EXCEPT ![c] = [Asked(c) EXCEPT !.wanted = 0]]
      /\ call' = [Losing(c) EXCEPT ![r] = Fresh(p, c)]
  BY DEF DeleteLine, Fresh
<1>2. PICK k \in CallRecords :
        /\ call' = [Losing(c) EXCEPT ![r] = k] /\ k.c = c /\ Starts(k, c)
  <2>1. /\ Fresh(p, c) \in CallRecords /\ Fresh(p, c).c = c /\ Fresh(p, c).from = "no cart"
        /\ Fresh(p, c).pc = p
    BY DEF Fresh, NoCall, CallRecords, CallPcs
  <2>. QED  BY <1>1, <2>1 DEF Starts
<1>3. PICK a \in Asks : /\ ask' = [ask EXCEPT ![c] = a] /\ a.wanted = 0
                        /\ a.low = Asked(c).low /\ a.high = Asked(c).high
                        /\ (~Resting(c) => a.low = ask[c].low /\ a.high = ask[c].high)
  BY <1>1, AskedTyped
<1>4. PICK row \in CartRows : /\ row.qty = 0 /\ row.owner = cart[c].owner
                             /\ cart' = [cart EXCEPT ![c] = row] /\ cart'[c].qty = 0
  BY <1>1, QtyRow
<1>5. /\ Kin(r, Losing(c)) /\ cart[c].qty \in Nat /\ races \subseteq races'
      /\ Resting(c) => cart'[c].qty = a.wanted /\ cart'[c].qty <= cart[c].qty
      /\ Exists(c)'
  BY <1>1, <1>3, <1>4, KinOf, AskedTyped DEF CartInv, CartTypes, Exists
<1>6. Frame(r)
  <2>1. AtRest(r) /\ shelf' = shelf
    BY <1>1
  <2>2. ask' = [ask EXCEPT ![c] = a] /\ a.low = Asked(c).low /\ a.high = Asked(c).high
    BY <1>3
  <2>3. call' = [Losing(c) EXCEPT ![r] = k] /\ Starts(k, c)
    BY <1>2
  <2>. QED  BY <1>5, <2>1, <2>2, <2>3, BeginFrame
<1>7. /\ call'[r] = k /\ ask'[c] = a
      /\ \A d \in Carts \ {c} : Wanted(d) = ask[d].wanted
  BY <1>2, <1>3, <1>5, AskedOfOne DEF Kin
<1>8. Answered(r, c) \/ Resting(c)
  <2>. SUFFICES ASSUME ~Resting(c) PROVE Answered(r, c)
    OBVIOUS
  <2>1. Wanted(c) = 0
    BY <1>2, <1>3, <1>7 DEF Wanted, Resting
  <2>2. ask[c].low \in Nat /\ ask[c].high \in Nat
    BY DEF CartInv, CartTypes, Asks
  <2>. QED  BY <1>4, <2>1, <2>2 DEF Answered, Answers, Lower
<1>9. Writes(r, c, row)
  BY <1>1, <1>4, <1>7, <1>8 DEF Writes, Exists, AtRest
<1>. QED  BY <1>6, <1>9, RowStep

-----------------------------------------------------------------------------
(* The rest of the shop.                                                    *)
LEMMA StockMovesOK ==
  ASSUME CartInv, NEW n \in 0..MaxShelf, StockMoves(n)
  PROVE  CartInv' /\ Settled
<1>1. /\ shelf' = n /\ cart' = cart /\ call' = call /\ races' = races /\ n \in Nat
      /\ ask' = [c \in Carts |->
                   IF Resting(c) THEN ask[c]
                   ELSE [ask[c] EXCEPT !.low = Lower(@, n), !.high = Upper(@, n)]]
  BY ShelfBound DEF StockMoves
<1>2. \A c \in Carts : Resting(c)' <=> Resting(c)
  BY <1>1 DEF Resting
<1>3. ASSUME NEW c \in Carts, ~Resting(c)
      PROVE  /\ ask'[c] \in Asks /\ ask'[c].wanted = ask[c].wanted
             /\ ask'[c].low <= ask[c].low /\ ask[c].high <= ask'[c].high
             /\ ask'[c].low <= n /\ n <= ask'[c].high
             /\ ask'[c].low \in Nat /\ ask'[c].high \in Nat
             /\ ask[c].low \in Nat /\ ask[c].high \in Nat /\ ask[c].wanted \in Nat
  <2>. DEFINE l == Lower(ask[c].low, n)  h == Upper(ask[c].high, n)
  <2>1. ask[c] \in Asks
    BY DEF CartInv, CartTypes
  <2>2. ask[c].low \in Nat /\ ask[c].high \in Nat /\ ask[c].wanted \in Nat
    BY <2>1 DEF Asks
  <2>3. l \in Nat /\ h \in Nat /\ l <= n /\ n <= h /\ l <= ask[c].low /\ ask[c].high <= h
    <3>1. n \in Nat
      BY <1>1
    <3>. QED  BY <2>2, <3>1 DEF Lower, Upper
  <2>4. ask'[c] = [ask[c] EXCEPT !.low = l, !.high = h]
    BY <1>1, <1>3
  <2>. HIDE DEF l, h
  <2>. QED  BY <2>1, <2>2, <2>3, <2>4 DEF Asks
<1>4. CartTypes'
  <2>1. \A c \in Carts : ask'[c] \in Asks
    BY <1>1, <1>3 DEF CartInv, CartTypes
  <2>. QED  BY <1>1, <2>1 DEF CartInv, CartTypes
<1>5. CallsInv'
  <2>. SUFFICES ASSUME NEW r \in CartCalls PROVE Holds(call[r])'
    BY DEF CallsInv
  <2>1. Holds(call[r]) /\ call[r] \in CallRecords
    BY DEF CartInv, CallsInv, CartTypes
  <2>2. ASSUME call[r].pc \in SawStock
        PROVE  ask'[call[r].c].low <= call[r].seen /\ call[r].seen <= ask'[call[r].c].high
    <3>1. PICK c \in Carts : c = call[r].c
      BY <2>1, <2>2 DEF Holds, SawStock, AtCart
    <3>2. ~Resting(c) /\ ask[c].low <= call[r].seen /\ call[r].seen <= ask[c].high
      BY <2>1, <2>2, <3>1 DEF Holds, Resting
    <3>3. call[r].seen \in Nat
      BY <2>1 DEF CallRecords
    <3>. QED  BY <1>3, <3>1, <3>2, <3>3
  <2>. QED  BY <1>1, <2>1, <2>2 DEF Holds, Exists
<1>6. ShelfInv'
  BY <1>1, <1>2, <1>3 DEF ShelfInv
<1>7. CountInv'
  <2>. SUFFICES ASSUME races' = {}, NEW c \in Carts, Exists(c)', ~Resting(c)'
       PROVE /\ Answers(cart'[c].qty, ask'[c].wanted, ask'[c])
             /\ cart'[c].qty <= ask'[c].high \/ \E r \in CartCalls : ToClamp(call'[r], c)
    BY DEF CountInv
  <2>1. /\ Answers(cart[c].qty, ask[c].wanted, ask[c])
        /\ cart[c].qty <= ask[c].high \/ \E r \in CartCalls : ToClamp(call[r], c)
    BY <1>1, <1>2 DEF CartInv, CountInv, Exists
  <2>2. cart[c].qty \in Nat
    BY AskedTyped
  <2>3. Answers(cart[c].qty, ask'[c].wanted, ask'[c])
    BY <1>2, <1>3, <2>1, <2>2 DEF Answers, Lower
  <2>4. cart[c].qty <= ask[c].high => cart[c].qty <= ask'[c].high
    BY <1>2, <1>3, <2>2
  <2>. QED  BY <1>1, <2>1, <2>3, <2>4
<1>8. RowsInv' /\ Settled
  BY <1>1, <1>2 DEF CartInv, RowsInv, Settled, Settles
<1>. QED  BY <1>4, <1>5, <1>6, <1>7, <1>8 DEF CartInv

(* An order captures the address of a guest, or empties the cart it paid.     *)
LEMMA OrdersOK ==
  ASSUME CartInv, NEW c \in Carts, CaptureEmail(c) \/ ClearPaidCart(c)
  PROVE  CartInv' /\ Settled
<1>0. /\ cart \in [Carts -> CartRows] /\ cart[c] \in CartRows /\ shelf' = shelf /\ races' = races
  BY DEF CartInv, CartTypes, CaptureEmail, ClearPaidCart
<1>1. /\ call' \in [CartCalls -> CallRecords]
      /\ \A q \in CartCalls :
           call'[q] = call[q] \/ (HoldsLine(call[q]) /\ call'[q] = [call[q] EXCEPT !.lost = TRUE])
  BY Loses DEF CartInv, CartTypes, CaptureEmail, ClearPaidCart
<1>2. ASSUME NEW q \in CartCalls
      PROVE  /\ call'[q].pc = call[q].pc /\ call'[q].c = call[q].c /\ call'[q].from = call[q].from
             /\ call'[q].seen = call[q].seen /\ (call[q].lost => call'[q].lost)
             /\ call[q].pc = "idle" => call'[q] = call[q]
  <2>1. call[q] \in CallRecords
    BY DEF CartInv, CartTypes
  <2>2. \/ call'[q] = call[q]
        \/ call[q].pc # "idle" /\ call'[q] = [call[q] EXCEPT !.lost = TRUE]
    BY <1>1 DEF HoldsLine
  <2>. QED  BY <2>1, <2>2 DEF CallRecords
<1>3. \A d \in Carts : Resting(d)' <=> Resting(d)
  BY <1>2 DEF Resting
<1>4. /\ ask' \in [Carts -> Asks]
      /\ \A d \in Carts : ask'[d].low = ask[d].low /\ ask'[d].high = ask[d].high
      /\ \A d \in Carts \ {c} : ask'[d] = ask[d]
      /\ ask'[c] = ask[c] \/ ask'[c].wanted = 0
  <2>1. ask' = ask \/ ask' = [ask EXCEPT ![c].wanted = 0]
    BY DEF CaptureEmail, ClearPaidCart
  <2>2. ask \in [Carts -> Asks]
    BY DEF CartInv, CartTypes
  <2>. QED  BY <2>1, <2>2 DEF Asks
<1>5. PICK row \in CartRows : /\ cart' = [cart EXCEPT ![c] = row] /\ row.owner = cart[c].owner
                             /\ Exists(c) /\ row.owner # "none"
                             /\ \/ row.qty = cart[c].qty /\ ask'[c] = ask[c]
                                \/ row.qty = 0 /\ ask'[c].wanted = 0
  <2>. DEFINE v == [Moved(cart[c]) EXCEPT !.email = TRUE]
              w == [Moved(cart[c]) EXCEPT !.qty = 0]
  <2>1. /\ Moved(cart[c]) \in CartRows /\ Moved(cart[c]).qty = cart[c].qty
        /\ Moved(cart[c]).owner = cart[c].owner
    BY <1>0, RowsTyped
  <2>2. /\ v \in CartRows /\ v.qty = cart[c].qty /\ v.owner = cart[c].owner
        /\ w \in CartRows /\ w.qty = 0 /\ w.owner = cart[c].owner
    BY <2>1 DEF CartRows
  <2>3. CASE CaptureEmail(c)
    BY <2>2, <2>3 DEF CaptureEmail, Exists
  <2>4. CASE ClearPaidCart(c)
    <3>1. ask'[c].wanted = 0
      BY <2>4 DEF ClearPaidCart, CartInv, CartTypes, Asks
    <3>. QED  BY <2>2, <2>4, <3>1 DEF ClearPaidCart, Exists
  <2>. QED  BY <2>3, <2>4
<1>6. /\ cart' \in [Carts -> CartRows] /\ cart'[c] = row
      /\ \A d \in Carts \ {c} : cart'[d] = cart[d]
      /\ \A d \in Carts : Exists(d)' <=> Exists(d)
  BY <1>0, <1>5 DEF Exists
<1>7. CartTypes' /\ RowsInv' /\ ShelfInv'
  BY <1>0, <1>1, <1>3, <1>4, <1>5, <1>6 DEF CartInv, CartTypes, RowsInv, ShelfInv
<1>8. CallsInv'
  <2>. SUFFICES ASSUME NEW q \in CartCalls PROVE Holds(call[q])'
    BY DEF CallsInv
  <2>1. Holds(call[q])
    BY DEF CartInv, CallsInv
  <2>2. call'[q].pc \in AtCart => call'[q].c \in Carts
    BY <1>2, <2>1 DEF Holds
  <2>3. HoldsLine(call'[q]) /\ ~call'[q].lost => Exists(call[q].c)'
    <3>. SUFFICES ASSUME HoldsLine(call'[q]), ~call'[q].lost PROVE Exists(call[q].c)'
      OBVIOUS
    <3>1. PICK d \in Carts : d = call[q].c
      BY <1>2, <2>2 DEF HoldsLine, AtCart
    <3>2. Exists(d)
      BY <1>2, <2>1, <3>1 DEF Holds, HoldsLine
    <3>. QED  BY <1>2, <1>6, <3>1, <3>2 DEF Exists
  <2>4. call'[q].pc \in SawStock
          => ask'[call'[q].c].low <= call'[q].seen /\ call'[q].seen <= ask'[call'[q].c].high
    <3>. SUFFICES ASSUME call[q].pc \in SawStock
         PROVE ask'[call'[q].c].low <= call'[q].seen /\ call'[q].seen <= ask'[call'[q].c].high
      BY <1>2
    <3>1. PICK d \in Carts : d = call[q].c
      BY <1>2, <2>2 DEF SawStock, AtCart
    <3>. QED  BY <1>2, <1>4, <2>1, <3>1 DEF Holds
  <2>5. /\ call'[q].pc = "idle" => call'[q] = NoCall
        /\ call'[q].pc \in Merging => call'[q].from \in Carts
    BY <1>2, <2>1 DEF Holds
  <2>. QED  BY <2>2, <2>3, <2>4, <2>5 DEF Holds, Exists
<1>9. CountInv'
  <2>. SUFFICES ASSUME races' = {}, NEW d \in Carts, Exists(d)', ~Resting(d)'
       PROVE /\ Answers(cart'[d].qty, ask'[d].wanted, ask'[d])
             /\ cart'[d].qty <= ask'[d].high \/ \E q \in CartCalls : ToClamp(call'[q], d)
    BY DEF CountInv
  <2>1. /\ Answers(cart[d].qty, ask[d].wanted, ask[d])
        /\ cart[d].qty <= ask[d].high \/ \E q \in CartCalls : ToClamp(call[q], d)
    BY <1>0, <1>3, <1>6 DEF CartInv, CountInv
  <2>2. (\E q \in CartCalls : ToClamp(call[q], d)) => \E q \in CartCalls : ToClamp(call'[q], d)
    BY <1>2 DEF ToClamp
  <2>3. CASE cart'[d].qty = cart[d].qty /\ ask'[d] = ask[d]
    BY <2>1, <2>2, <2>3
  <2>4. CASE cart'[d].qty = 0 /\ ask'[d].wanted = 0
    <3>1. ask'[d].low \in Nat /\ ask'[d].high \in Nat
      BY <1>4 DEF Asks
    <3>. QED  BY <2>4, <3>1 DEF Answers, Lower
  <2>. QED  BY <1>4, <1>5, <1>6, <2>3, <2>4
<1>10. Settled
  BY <1>3 DEF Settled, Settles
<1>. QED  BY <1>7, <1>8, <1>9, <1>10 DEF CartInv

-----------------------------------------------------------------------------
LEMMA InitCounted == CartInit => CartInv
<1>. SUFFICES ASSUME CartInit PROVE CartInv
  OBVIOUS
<1>1. /\ shelf \in Nat /\ cart = [c \in Carts |-> NoCart] /\ call = [r \in CartCalls |-> NoCall]
      /\ ask = [c \in Carts |-> NoAsk]
  BY ShelfBound DEF CartInit
<1>2. NoCart \in CartRows /\ NoCart.qty = 0
  BY NoCartTyped
<1>3. CartTypes /\ RowsInv
  BY <1>1, <1>2, NoCallTyped DEF CartTypes, RowsInv
<1>4. Holds(NoCall)
  <2>1. NoCall.pc = "idle"
    BY DEF NoCall
  <2>. QED  BY <2>1 DEF Holds, HoldsLine, AtCart, Merging, SawStock
<1>5. \A c \in Carts : Resting(c)
  <2>1. NoCall.c = "no cart" /\ NoCall.from = "no cart"
    BY DEF NoCall
  <2>. QED  BY <1>1, <2>1, CartAssumption DEF Resting
<1>. QED  BY <1>1, <1>3, <1>4, <1>5 DEF CartInv, CallsInv, ShelfInv, CountInv

LEMMA NextCounted == CartInv /\ [CartNext]_cartVars => CartInv' /\ (Settled \/ UNCHANGED cartVars)
<1>. SUFFICES ASSUME CartInv, [CartNext]_cartVars
     PROVE  CartInv' /\ (Settled \/ UNCHANGED cartVars)
  OBVIOUS
<1>1. ASSUME NEW r \in CartCalls, StepCall(r) PROVE CartInv' /\ Settled
  BY <1>1, UpsertOK, ClampOK, TouchOK, LooksOK, ClampsOK, WriteItemOK, BumpOK, FindUserCartOK,
     ReadLineOK, FoldOK, DropGuestOK, AdoptOK, DropCallOK DEF StepCall
<1>2. ASSUME NEW r \in CartCalls, BeginCall(r) PROVE CartInv' /\ Settled
  <2>. PICK c \in Carts :
         \/ \E who \in {"guest", "user"}, n \in 1..MaxShelf : AddItem(r, who, c, n)
         \/ View(r, c) \/ \E n \in 0..MaxShelf : SetItem(r, c, n)
         \/ RemoveItem(r, c) \/ Clear(r, c) \/ ChangeCoupon(r, c) \/ Merge(r, c)
    BY <1>2 DEF BeginCall
  <2>1. CASE RemoveItem(r, c) \/ Clear(r, c)
    BY <2>1, DeleteLineOK DEF RemoveItem, Clear
  <2>. QED  BY <2>1, AddItemOK, ReadsOK
<1>3. CASE UNCHANGED cartVars
  BY <1>3 DEF cartVars, CartInv, CartTypes, RowsInv, CallsInv, ShelfInv, CountInv, Holds,
              HoldsLine, Exists, Resting, Answers, ToClamp
<1>. QED  BY <1>1, <1>2, <1>3, StockMovesOK, OrdersOK DEF CartNext

(* "Quantities are summed per variant and capped at live stock": unless a     *)
(* race that the code allows came between, a cart holds the units its calls  *)
(* asked for, or as many as there once were, and never more.                 *)
THEOREM UnitsCounted == CartSpec => UnitsAreCounted
<1>1. Settled \/ UNCHANGED cartVars
        => [\A c \in Carts : Settles(c) =>
              cart'[c].qty \in Lower(ask[c].wanted, ask[c].low)..ask[c].wanted]_cartVars
  BY DEF Settled
<1>. QED  BY <1>1, InitCounted, NextCounted, PTL DEF CartSpec, UnitsAreCounted

(* Nor is "an over-stock quantity" left in it, however the calls of two tabs, *)
(* a login, sales and restocks interleave.                                  *)
THEOREM NoOverStockLeft == CartSpec => OverStockNeverLeft
<1>1. Settled \/ UNCHANGED cartVars
        => [\A c \in Carts : Settles(c) => cart'[c].qty <= ask[c].high]_cartVars
  BY DEF Settled
<1>. QED  BY <1>1, InitCounted, NextCounted, PTL DEF CartSpec, OverStockNeverLeft
=============================================================================
