# A TLA+ model of the Techistan e-commerce backend

The repository is an online shop: a NestJS backend over PostgreSQL
(`Code/backend`, Prisma as the data layer), a storefront and an admin client
(Next.js). All state that matters lives in the database and at Stripe; every
backend request is a sequence of awaits (a query, a transaction, a Stripe call)
between which any other request, webhook or cron job may run. Few rows are
locked across awaits: the code relies on conditional updates
(`updateMany where status = ...`), unique keys and idempotency keys. Whether
those suffice is what this project checks.

## Inventory

| part | state | operations | what is hard |
|---|---|---|---|
| payment (`modules/payment`) | `Payment`, `ProcessedWebhookEvent`; Stripe's intent, charge and events | create / cancel an intent, webhook, reconcile, refund | webhook against polling against cancel; events lost, repeated, out of order; a refund reserved, refused or answered too late |
| order (`modules/order`) | `Order`, `OrderItem`, `ReturnRequest`, notes, shipment events | checkout, replay, cancel, status change, tracking, returns | decisions on a status read several awaits ago; two admins at once |
| stock (`inventory/take-stock.ts`, `inventory`) | `ProductVariant.stock` | guarded decrement at confirmation, restock, manual adjustment | the last unit; restocking twice |
| coupon (`modules/coupon`) | `Coupon`, `CouponRedemption`, discounts, sale prices | validate, redeem, release, administration | limits checked long before they are used |
| pricing (`order/pricing.service.ts`, `sale-pricing.ts`) | none | quotes, totals, refunds of returns | rounding, promotions that add up |
| product, inventory | `Product`, `ProductVariant` | editor saves, adjustments, bulk changes, deletion | saves of a form opened long ago racing sales |
| media | `MediaAsset`, `ProductImage`, `ReviewImage`; files at Cloudinary | save, claim, attach, delete, clean-up | two stores without a common transaction; the last of several rows to go takes the file along |
| cart, wishlist | `Cart`, `CartItem`, `WishlistItem` | add, set, clamp, merge a guest cart at login | merging twice, stale clamps |
| auth, account, customer | `User`, `RefreshSession`, `PasswordResetToken`; the browsers' cookies | sign-in, refresh (rotation, grace, reuse detection), logout, password reset, ban, scheduled deletion and its cancellation, the erasure sweep | two tabs refreshing at once, lost answers, a session ending half way through a refresh, a sweep acting on a list it read earlier |
| category, navigation, homepage | trees and ordered lists | move, reorder, remove with reassignment, seed | depth and cycles under concurrent moves |
| review | `Review`, votes, product aggregates | write, moderate, vote | aggregates recomputed from a stale snapshot |
| cron | reminders, anonymizing | list, claim, send | overlapping passes, a shopper who comes back, a crash in between |
| notification, email, audit, analytics, export, search, settings, tags, addresses, recently viewed | logs, reports, plain rows | CRUD, reads, e-mail | little or nothing that other parts decide on |

The parts interact through shared rows (an order's confirmation writes payment,
order, stock, redemption and cart in one transaction), through direct calls (a
paid cancel and a return call `processRefund`), and through Stripe (its webhook
reports what the backend itself did, or what somebody did in the Dashboard).

The properties that make each part correct: payments mirror Stripe, are
captured before goods leave, and never return more than was captured; an order's
effects (sale, redemption, restock) happen once; stock and coupon limits hold;
a return pays back what it restocked; a session that ended stays ended, an
honest browser is not signed out, an erasure happens exactly when due;
aggregates equal what they aggregate (reviews); a file exists as long as a row
shows it, and no longer; trees stay trees (categories,
navigation); a merged cart counts each item once; a reminder is sent once.

`PROJECT.json` lists every component with its status and every hazard with the
line where it bites.

## Modules

**`PaymentService`** is `payment.service.ts` with the rows it shares with the
order domain. `order`, `payment`, `stock`, `redemptions`, `processed` are
tables; `stripe` and `events` are Stripe's side; `rq[r]` is a request in
progress: the step it stands at (`pc`, named function:await) and the locals the
code keeps across awaits (the status it read, the balance it validated, where
a return or a throw continues). `sold` and `restocked` are history variables.
An order is named by its idempotency key, which the database keeps unique.

| actions | code |
|---|---|
| `CreateIntent`, `SaveIntent` | `createIntent`: Stripe's answer, then the unconditional row update |
| `FindOpenPayment`, `CancelIntent`, `FailPayment` | `cancelOpenIntent` |
| `HandleEvent`, `SyncRefund` | `handleEvent`: the event id is inserted in the transaction that applies the event |
| `Reconcile`, `ReconcileSucceeded`, `ReconcileFailed` | `reconcile`, the polling fallback |
| `ReadRefundable`, `ReserveRefund`, `RefundAtStripe`, `ReleaseRefund`, `RecordRefund` | `processRefund` |
| `Pay`, `Decline`, `DashboardRefund`, `DashboardCancel`, `Crash` | the world outside, switched on by `Faults` |

**`OrderService`** extends it with `order.service.ts`: `CreateOrder`,
`PersistOrder`, `ReplayOrder` (checkout), `GetOrder` (polling), `CancelOrder`,
`UpdateStatus`, `Transition`, `SetTracking`, `Ship`, and the paid cancel
(`ClaimCancel`, `RefundCancelled`, `UndoCancel`, `Restock`). It defines `Next`,
`Spec`, `FairSpec` and the properties. `MCOrderService` holds the small instances.

**`ReturnService`** extends `PaymentService` with the return calls of
`order.service.ts` and the `ReturnRequest` rows (`returns`). It starts where a
return can start: some orders delivered and captured, the others just paid, their
webhook on the way, so that confirmations compete for the units that come back.
`RequestReturn`/`InsertReturn` are `requestReturn` (the order's row lock makes
check and insert one step), `ApproveReturn`, `ReadReturnRefund`, `ClaimReturn`,
`UndoApproval` and `RecordReturn` are `approveReturn` around `processRefund`,
`RejectReturn`/`WriteRejection` are `rejectReturn`. `returnRefundCents` is the
code's formula with its rounding. `UndoApproval` honours the database's
non-negative CHECK on the stock. `MCReturnService` holds the instance.

**`AccountService`** is one customer account: `auth.service.ts`,
`account.service.ts` and `CustomerService.setStatus`. It shares no row with the
modules above that either side decides on, so it stands alone. `user` is the
account's row, `session[s]` a `RefreshSession` row or the reason it was deleted,
`reset` the reset links; `cookie[d]` is what a browser holds, and `rq[a]` a call
in progress. Tokens are numbers in the order they were signed.

| actions | code |
|---|---|
| `SignIn`, `SweepExpired`, `CreateSession` | `login`, `issueTokens` |
| `Refresh`, `ReadSession`, `Rotate`, `AcceptPrevious`, `RevokeReplayed` | `refresh`, `rotateSession`: the read and its conditional writes |
| `Reply`, `Logout` | the cookies set or cleared by the controller |
| `ForgotPassword`, `CreateResetToken`, `ResetPassword`, `WritePassword` | the reset by mail, whose transaction drops all sessions |
| `RequestDeletion`, `WriteDeletion`, `CancelDeletion`, `WriteCancellation` | the deletion calls: status read, row written by id |
| `SetStatus` | an admin's ban or reactivation |
| `Sweep`, `AnonymizeUser` | `anonymizeExpired`: the list, then one transaction per account |
| `DatePasses`, `Expire`, `AccessExpires`, `GraceEnds` | the clock, one comparison each |
| `Abandon` | a lost answer, a restart, a transaction that failed |

`Tabs` is how many refreshes a browser has in flight, `SlowClients` whether a
browser may present a rotated token only after the 30 s of grace.
Left out: registration, e-mail
verification, and the single refresh token of the time before per-device sessions.
Two timings are excluded because the code's constants (30 days, one day) dwarf
a request: a 30-day date does not pass while the request that writes it runs
(`DatePasses`), and a one-day access token does not expire while the refresh
that set it has a sibling in flight (`AccessExpires`).

**`StockTransaction`** opens the step that the modules above take as one: how
`markSucceeded` with `takeStock`, and the restock of a paid cancel, lock the rows
of their lines one after the other, in the order the database returns them.
`tx[o]` is the transaction of an order (lines to come, line it waits for, lines
taken, rows locked), `queue[v]` PostgreSQL's queue for a row.

| actions | code |
|---|---|
| `Deliver`, `TakeStock`, `GiveBack`, `CommitSale` | `markSucceeded`: each line's conditional decrement, the give-back of a shortage, the commit |
| `CancelPaidOrder`, `ReadItems`, `GiveStock`, `CommitRestock` | `cancelPaidOrder` after its refund |
| `Granted`, `BreakDeadlock`, `Fault`, `RollBack` | PostgreSQL: a lock granted (the condition is looked at again), a deadlock broken, a transaction lost |

`AtomicStock` is the abstract specification: an order takes all of its units or
none, in one step. `TakesAllOrNothing` is the refinement, under the mapping
`stateOf` (an order is refused from the moment its transaction is short).

**`CouponService`** is one store's coupons against the orders that use them:
`Validate` at checkout, `FindCoupon`/`LockCoupon`/`CountUses`/`RecordRedemption`
(`recordRedemption` inside the payment transaction, under `FOR UPDATE`),
`CancelPaid` (`releaseRedemptions`), and the admin calls, of which deletion and
renaming read before they write (`CheckUsage`, then `DeleteCoupon` or
`RenameCoupon`; a code that is sent along unchanged passes without a count) and the
bulk action does not (`BulkDelete`). `severed` are the coupons that such a write, or
a deletion in bulk, took from under an order.

**`CatalogService`** is one product: what an admin's screen showed when it was
opened (`screen`), `PlanVariantChanges` and `SaveProduct` (`update`), `Adjust`,
`RemoveProduct`, `Publish`, against orders from `Checkout` to `ConfirmOrder`.
A save writes the stock the form shows or one the admin typed (`Counts`), and creates
rows with a typed stock or none. `onHand` is what is on the shelf, whatever the rows say;
a typed stock is taken for a count of it.

**`PricingService`** has the operators of `pricing.service.ts`, `sale-pricing.ts`,
the discounts of `coupon.service.ts` and `returnRefundCents`, under the code's
names, and two steps: `PlaceOrder`, and `ReturnUnits` for any splitting of the
order's units into returns.

**`CategoryService`** and **`NavigationService`** are the two trees. Every admin
call is a check against what it loaded and, later, a write (`edit`, `job`);
`crossed` and `navCrossed` record that a write hit a tree that had changed since
its check. Foreign keys are honoured: a write to a row or parent that is gone
fails, ON DELETE SET NULL and CASCADE do what they say. `seedFromCategories` works on one
menu or, without a location, on both (`Seeded`). `stranded` holds the entries that a
call left behind, or put, where no menu need list them.

**`ReviewService`** is the reviews of one product. A moderation is three steps of
a READ COMMITTED transaction (its own update, the aggregate, the product's row
with the commit): it sees what others committed, not what they are about to.

**`CartService`** is a shopper's two carts, the guest's and the customer's, with
one variant line; each database statement of a call is a step. `ask[c]` records
what the calls that overlap on a cart asked for, and the extremes of the stock
meanwhile; `races` the races that the properties except, and that the section on
findings describes. **`AbandonedCart`** extends it with the recovery job: `ListFirstDue`,
`ListFinalDue`, `SendFor` (the claim, conditional on `updatedAt`), `EndSweep`.

**`MediaService`** is what becomes of an image, across three services:
`media.service.ts`, and the parts of `product.service.ts` and `review.service.ts`
that write image rows. `cloud` is Cloudinary, `asset`, `images` and `photos` the
rows of three tables that may show one file, `task[m]` a call in progress.

| actions | code |
|---|---|
| `Upload` | a client's direct post to Cloudinary |
| `SaveMedia`, `SaveReviewMedia`, `VerifyPhoto`, `SaveImage`, `SaveAsset`, `ClaimPhoto` | `saveMedia`, `saveReviewMedia`: Cloudinary is asked, then rows are written |
| `ResolveReviewImages`, `AttachPhoto` | a review takes its author's photo |
| `DeleteMedia`, `DeleteRows`, `Destroy` | `deleteMedia`, `destroyQuietly` |
| `SetImages`, `WriteImages`, `CreateProduct`, `Duplicate`, `CreateCopy` | the product editor |
| `RemoveProducts`, `DeleteProducts`, `LookUp` | `remove`, `bulk`, and `cleanupImages` with its three queries |

A public id is uploaded once (Cloudinary picks it, unless an admin names one), and
a customer confirms only files of their own. An editor submits files that some row
showed when it was filled in; nothing verifies them again.

`MCOrderService`, `MCReturnService`, `MCAccountService` instantiate one component each.
`MCBackOffice`, `MCStorefront` and `MCBackground` put components side by side that
share no row in the instance: a behaviour is about one of them, its `focus`, and
the others stay as they began, so that one run checks each of them completely.

Abstractions, and why they are sound:

* In the order, return and account modules a transaction is one step.
  `markSucceeded`, `persistOrder` and the restock decide only by conditional
  updates under row locks, so their outcome is that of a serial execution;
  `StockTransaction` checks that claim for the stock. `syncRefund` is the
  exception, it decides on an unlocked read, and is two steps.
* In `StockTransaction` an order has one line per variant, the coupon's row lock
  is left out (it is taken after the variants', so it closes no cycle among them), and a
  transaction's time limit, a lost connection and a restart are one `Fault`. An
  order an admin enters by hand takes its stock with the same `takeStock`.
* The abandoned-cart job reads at most 500 carts a pass; the model has fewer.
* In `CartService` the product stays published. An unpublished one is refused by `addItem`
  (cart.service.ts:252) and shown as out of stock by the view (573) without a change
  of the line; `updateItem` does not look at it.
* In `ReturnService` Stripe is configured. Without its keys `approveReturn` approves with a
  refund of zero and a warning (order.service.ts:827-830), and no captured payment
  exists to be refunded unless the keys were removed later.
* `getOrder` asks Stripe at most every five seconds; the model lets it ask or
  not, which covers every timing.
* A request that throws ends; HTTP codes, texts, audit rows and e-mails are left
  out because no decision reads them.
* Amounts are cents; a few cents reach every comparison the code makes.
* Stripe is external. It is modelled from how the code uses it: one intent per
  idempotency key, a succeeded intent cannot be cancelled, a refund key moves
  money once, the refunded total never exceeds the charge, an event is
  redelivered until acknowledged.

## Runs

Bounds: one or two orders, one variant, one coupon, two concurrent requests and
one webhook delivery in progress (three actors: every race in the code is
between two requests, or a request and a webhook), amounts of one to three
cents, `MaxCancels = 1` (an admin starts no further paid cancel of an order
that was restocked once). `sequential_refunds` has two orders of three cents that share
one unit, a coupon and two requests that may each be on one of them, refunds of
one, two or all cents, and refusals. Returns: one delivered order of two units with a
discount, two return requests, one competing sale. Accounts: one browser, one session, one reset link, two
requests and one sweeper, three signed tokens (a sign-in and two rotations, the
shortest history in which a token is presented after it was rotated out). A request that ended may serve any further call, so the
number of calls is not bounded.

`back_office`: three categories or menu entries and two admins (a cycle needs
two moves, a fourth level three rows under `MaxDepth = 2`); two customers and two
moderators; two coupons, two orders, one admin's call between its read and its write, and
limits of one use in all or per customer (a save that takes a rename back needs two such calls:
`OrdersPinTheirCoupon` is proved for any number); two
variants, two orders and two screens, at most two units of a variant and one stock to
type (it may be too high, right or too low); baskets of two lines, prices of one to four
cents. Each component is followed up to the first of the crossings
its properties except (`Uncrossed`, a state constraint: those states are generated and
checked, their successors are not). `storefront`: two carts, two calls, a stock of two;
carts are followed up to the first race (`Focused`), an account has three signed
tokens; three files (one a customer's, one that is refused), two products and two calls,
up to the first file that a row shows against a destroy under way. `background`: three paid orders over two variants (the smallest deadlock
beside a third order in the queue), one aborted transaction; two overlapping passes
over one cart, one of them cut off.

| run | module | checks | shows |
|---|---|---|---|
| `order_lifecycle` | `MCOrderService` | `TypeOK`, `FulfilledWasPaid`, `EffectsOnce`, `RefundWithinCapture` | One order under every call, every admin status change and every fault at once, two concurrent requests and a webhook: goods leave only against captured money, confirmation effects happen once, and the refunded total never passes the captured amount. |
| `last_unit` | `MCOrderService` | `NeverOversold`, `RestockedAtMostOnce`, `PaidOrderSettles` | Two checkouts, one paid and one free, compete for the last unit while orders are cancelled, cards declined, refunds refused, answers lost and the server restarted: nothing is oversold, no order is restocked twice, and every captured payment moves its order out of PENDING. |
| `sequential_refunds` | `MCOrderService` | `MirrorsStripe`, `RefundStatusMatches`, `RestockedMeansRefunded` | Partial refunds, cancels, checkouts, polls and webhooks over two orders, with two calls under way at a time but never for one order (OneCallPerOrder): at rest the row equals Stripe's ledger, its status says so, and restocked goods were paid back in full. |
| `sold_out_refund` | `MCOrderService` | `OrphanRefunded` | Liveness: a shopper who pays for goods that sold out in the meantime gets the whole amount back and sees the order REFUNDED. |
| `stale_cancel` (violation) | `MCOrderService` | `CancelledMoneyReturned` | A cancel decided on a stale PENDING overwrites a confirmation, and the money stays captured. |
| `returns` | `MCReturnService` | `ReturnsFitPurchase`, `ReturnsRestockedOnce`, `ReservationCoversRefund` | Two customers or admins file, approve and reject returns of one discounted order and refund it by hand, with refused refunds and restarts, while another order buys the units that come back: no unit is claimed or restocked twice, and the payment row never shows less than Stripe gave back. |
| `late_rejection` (violation) | `MCReturnService` | `DeliveredUnitsReturnOnce` | A rejection decided while an approval was starting overwrites APPROVED, so the units that came back can be returned once more. |
| `cancelled_erasure` (violation) | `MCAccountService` | `ErasureOnlyWhenDue` | A deletion is cancelled after the sweep listed the account: the account is ACTIVE and is scrubbed all the same. |
| `back_office` | `MCBackOffice` | `CyclesNeedCrossing`, `GoodsStayFiled`, `ShownUnlessReassigned`, `EveryEntryListed`, `SeededOnce`, `HelpfulCountsVoters`, `RatingCatchesUp`, `LimitsHold`, `UsedCountIsRedemptions`, `PendingOrdersPinCoupon`, `StockIsShelf`, `ConfirmedTookStock`, `DiscountStaysInScope`, `ReturnsRefundWhatWasPaid` | What admins curate and price, one component per behaviour. Categories: two admins move, remove and reorder; without crossing writes there is no cycle and nothing is hidden or unfiled behind their backs. Menus: every entry stays visible but those that a call leaves behind, sends to the other menu alone, or nests there; a repeated seed, of one menu or both, replaces. Reviews: one vote per customer under overlapping votes and moderations, and each undisturbed moderation repairs the rating. Coupons: two orders are validated against the last use and paid, cancelled, rolled back while admins edit, rename, delete: limits hold, the counter is exact, pending orders keep their coupon unless it was taken behind a check or in bulk. Catalog: product saves, with the stock shown or one typed over it, and adjustments against sales. Pricing: totals, scopes and the refunds of any splitting of a return. |
| `storefront` | `MCStorefront` | `UnitsAreCounted`, `OverStockNeverLeft`, `ShownFilesExist`, `HeldFilesAreShown`, `NoFalseReuse`, `EndedSessionsStayEnded` | What a shopper does, one focus per behaviour. Editing: two tabs add, set, remove, clear and view one cart while the stock moves; no +1 is lost, and the cart settles at or below the highest stock there was while its calls ran, or what it held before. Logins: a guest's cart is merged by two logins beside additions. Accounts: a device that refreshes one call at a time and retries lost answers, with logouts, resets, bans and deletions: it is never taken for a thief, and no ended session comes back. Images: two calls save, claim, attach, copy and delete images of two products and a review: no clean-up destroys a file that a row shows, and no deletion leaves one behind. |
| `double_login` (violation) | `MCStorefront` | `MergeKeepsCart` | Two logins merge one guest cart: the first adopts it, the second, which read it as a guest's, deletes it. |
| `background` | `MCBackground` | `TakesAllOrNothing`, `EveryOrderSettles`, `RestockedUnlessCutOff`, `NudgesInOrder`, `FinalNudge`, `DeletionSettles` | What runs unattended, one focus per behaviour. Locks: three orders take and give back two variants row by row, with waits, shortages, deadlocks and an aborted transaction: together they refine one atomic step per order, every delivered payment settles, and every restock that is not cut off arrives. Reminders: overlapping passes of the cart job beside a shopper: one e-mail per stage, and the final one comes. Accounts: a due deletion is carried out although its transaction may fail. |

`back_office` and `background` say `CHECK_DEADLOCK FALSE`: an order whose units
all came back, a deleted product, or stock transactions that are all settled have
no further step. In the other passing runs a client may always send another call.

**Fairness** (`FairSpec`). A request that was accepted runs on: Node's event
loop starves no continuation. Stripe redelivers an event until a delivery is
acknowledged, so each event is eventually handled. Nothing obliges a client to
call or a shopper to pay, and a restart may end any request in progress. `OrphanRefunded`
is claimed only without refusals, lost answers and restarts: the automatic
refund is tried once and then left to a person (payment.service.ts:451).

In `background`: Stripe redelivers an unanswered event, statements are executed
(weak fairness of `Deliver` and `Statement`), a lock queue serves each waiter in
turn although rollbacks may intervene (strong fairness of `Granted`), and
PostgreSQL breaks every deadlock (`StockFairness`); faults and cancels need not
happen. The hourly job runs again and goes on (`RecoveryFairness`); nothing is
assumed of shoppers or of time. The erasure sweep is run every night, so weakly fair, and its transaction
is strongly fair (`SweepFairness`): it may fail any number of times, not for
ever. Clients, admins and the clock owe nothing.

## What the violation runs show

* `stale_cancel` (Code/backend/modules/payment/payment.service.ts:157): cancelOpenIntent returns silently when the payment is no longer unpaid, and transition (order.service.ts:921-925) then writes CANCELLED over a CONFIRMED order; the money stays captured and no refund follows. payment.service.ts:147-149 says "one that is succeeding or succeeded can't be cancelled, so the order cancel is refused (the payment will confirm the order instead)".
* `late_rejection` (Code/backend/modules/order/order.service.ts:882): rejectReturn checks REQUESTED on a read and then writes REJECTED by id only; after a concurrent approval restocked and refunded the units, the return reads REJECTED and the same units may be returned and refunded again. order.service.ts:797-799 says "The conditional update only succeeds for the first of two concurrent approvals, so the units are restocked and refunded exactly once (#8)".
* `cancelled_erasure` (Code/backend/modules/account/account.service.ts:252): anonymizeExpired lists the accounts that are due and scrubs each by id; anonymizeUser does not look at the status again, so an account whose deletion was cancelled in between (cancelDeletion answered cancelled: true) loses its data for good. account-deletion.spec.ts:7-8 says "the daily job anonymizes exactly the accounts whose window has elapsed"; account.service.ts:163-164 says "Personal data is only anonymized once the window elapses".
* `double_login` (Code/backend/modules/cart/cart.service.ts:499): mergeGuestCartIntoUser ends with deleting the cart it read as the guest's, by id. A second login of the same browser that read the guest cart before the first one adopted it, and found the customer's cart after that, folds the cart into itself and deletes it: the customer's cart is gone with all its lines. cart.service.ts:432-436 says the merge is "Idempotent and safe when the customer has no cart (adopt the guest cart) or the guest cart is empty (no-op)".

Also met while modelling, and left without a run of its own:

* The idempotency key of a refund is made of balance and amount
  (payment.service.ts:739). When the answer to a refund is lost, its reservation
  is released; a different refund of the same amount from the same balance is then
  answered with the first one and moves no money.
* A Dashboard refund whose event is handled before the payment's success event
  sets the row to a refunded status (payment.service.ts:599); `markSucceeded` then
  takes the payment for already applied, and a partly refunded order stays PENDING.
* A return whose refund fails is put back by decrementing stock that may have
  been sold since (order.service.ts:844); the database's CHECK refuses, and the
  return stays approved without a refund.
* A ban or an erasure that lands between the read and the write of
  `requestDeletion` or `cancelDeletion` is overwritten (account.service.ts:191
  and 219).
* `createIntent` sets the payment to PROCESSING unconditionally
  (payment.service.ts:122): a slower concurrent submit of one checkout overwrites
  SUCCEEDED, and a later cancel of the paid order restocks and refunds nothing.
* Of two tabs that refresh at once, the grace path (auth.service.ts:332) leaves
  the first one's new token accepted nowhere. When the second answer is lost the
  browser keeps that token and its next refresh revokes the session:
  `NoFalseReuse` fails with `Tabs = 2` and four tokens.
* An admin's status change that read CONFIRMED before another admin cancelled the
  order writes PROCESSING over the claim (order.service.ts:921); a second cancel
  from PROCESSING then restocks the order again. `RestockedAtMostOnce` is claimed
  for cancels beside each other (`last_unit`), not beside such a change.
* Coupons deleted in bulk are not checked for pending orders
  (coupon.service.ts:743) as single ones are (#44, 997-999): such an order pays
  the discounted total and nothing records the redemption.
* A restock that is cut off after the refund (order.service.ts:641) is tried by
  nobody again; so is one that PostgreSQL picks to break a deadlock with a
  payment, which this code makes possible by locking rows in any order.
* Two moderations of one product that overlap leave a rating that misses one of
  them, until the next moderation (review.service.ts:346; `RatingCatchesUp` is the part that holds).
* A category removal that reassigns children does not look at the depth of the
  new parent (category.service.ts:367): a subtree may end up below the level
  that `getTree` shows.
* `reorder` nests an entry under a parent of the other menu: its check says "an item
  may only be a child of a top-level item in the same menu"
  (navigation.service.ts:209-210), but looks at no location (214-230). The menu that
  should list the entry then does not. Nor does one list the sub-entries of an entry that
  `update` moves below another or to the other menu (137), those of an entry that `reorder`
  nests without them, or a sub-entry that `update` sends to the other menu without naming
  a parent (140, where `assertParentValid` is not called). `EveryEntryListed` shows that
  nothing else hides an entry; these are excepted one by one, in the history set `stranded`,
  and only until the entry is given a parent again. Taking any one of the four
  exceptions away makes TLC find the entry it is for.
* An editor that sends a coupon's code along unchanged writes it without a check
  (coupon.service.ts:916-923): when another admin renames the coupon between
  that call's read and its write, the save takes the new name back, from under orders that
  were placed with it.
* A product save writes the stock its form was opened with
  (product.service.ts:428), over any sale since, where `adjust` would answer 409;
  deleting a product does not look for open orders (product.service.ts:463), as
  dropping a variant does.
* A restart between the two writes of `saveReviewMedia` leaves a photo without its
  uploader (media.service.ts:211), and the customer's retry is refused as somebody
  else's (202), although the upsert is there so that "a re-confirm is idempotent" (155).
* An image saved between a clean-up's look at the tables and its destroy
  (product.service.ts:1206) shows a file that is gone; so does a review whose
  photo is deleted from the library (media.service.ts:256). Files that `setImages`
  drops (product.service.ts:672) and files whose destroy failed stay at Cloudinary;
  so does, after a failed destroy, a file that a clean-up spared because a review showed
  it, once the review goes (1197).
* In the cart: a clamp decided on an old stock may raise a line that was lowered
  since (cart.service.ts:189, 670); a merge writes the sum of what it read over a
  concurrent edit (484); what a guest adds after the merge read the cart is
  deleted with it (499); `applyCoupon`, `clear` and the adoption of a guest cart
  move `updatedAt` without re-arming the reminders, unlike other edits (684).

`RefundStatusMatches`, `MirrorsStripe` and `RestockedMeansRefunded` are claimed
while no two calls are under way for one order (`OneCallPerOrder`, the `CONSTRAINT`
of `sequential_refunds`; calls for other orders, webhooks and payments run
meanwhile). Without the constraint TLC violates each of the three on the same
instance, with nothing worse than a refused refund:

* a refund is refused after another reserved on top of it, and its reservation
  goes; a third refund then validates on the balance of the second, with its
  idempotency key (payment.service.ts:735). Stripe returns the second refund again,
  the row counts both, and one of them moved no money;
* the status a refund writes is computed from the balance it read before its
  awaits (payment.service.ts:750), which another refund has changed;
* a second submit saves its intent over a payment that succeeded meanwhile
  (payment.service.ts:122), or a refund that will be refused has reserved the whole
  balance: a cancel then finds nothing to refund, and restocks.

## Proofs

TLAPS checks these for every value of the constants (any number of orders,
variants, requests, webhooks, browsers and sessions; every amount, stock, coupon
limit and set of faults); the assumptions are the
named `ASSUME`s on the constants (types, `Faults \subseteq FaultKinds`, and that
requests and sweepers are different actors; the orders, variants and returns of
`ReturnService` are finite sets), and the hypotheses of a theorem where stated.

* `SumLemmas`: what `SumFunctionOnSet`, and with it the community modules' other
  sums over sets, compute: adding, removing or changing one element changes the sum by that
  element (`SumAdd`, `SumRemove`, `SumUpdate`), and sums are monotone
  (`SumMonotone`, `SumBounded`). The library defines a sum as a chosen recursive
  function that takes elements in an arbitrary order. That such a function exists
  (`SumsExist`), and that the order does not matter (`SumsAnyOrder`), is proved by
  looking at a smallest set for which it fails (`LeastNatural`, `FiniteSetInduction`:
  the induction step is a statement about a set `Good`, no operator is a parameter).

* `OrderService_proofs`: `TypeCorrect == Spec => []TypeOK`. One lemma per action;
  `stock \in [Variants -> Nat]` is the substantial conjunct (a sale decrements
  only under its guard).
* In the same module, on top of it: `GoodsArePaidFor == Spec => []FulfilledWasPaid` and
  `EffectsHappenOnce == Spec => []EffectsOnce`. Neither is inductive: a request
  may write an order status it decided on long before. The strengthening `IInv`
  adds what a suspended request may be holding (`RequestsInv`: the status it read
  or the success it saw at Stripe is justified by facts that never become false
  again, such as a captured intent and `sold[o] = 1`), what a queued event
  proves about Stripe (`EventsInv`), and how payment, order and stock of one order
  hang together (`OrdersInv`).
* In the same module: `StockIsNeverOversold == Spec /\ []ClaimsRunAlone =>
  [](NeverOversold /\ RestockedAtMostOnce)`. `ShelfInv` says that every unit there
  ever was is on the shelf or with one of the orders that took it and still have
  it (`Kept`); `ClaimInv` that an order is claimed by one cancel at a time, which
  alone may restock it. The hypothesis is the one gap the code leaves: when
  `cancelPaidOrder` claims an order, no other request may be about to write a
  status of it that it checked before (run `stale_cancel` shows what such a write
  does). `CancelsNeverOversell` proves the same of `Spec` alone where admins only
  cancel, the setting of run `last_unit`: there no such write exists.
* `RefundSafety_proofs`: `RefundsNeverExceedCapture == Spec => []RefundWithinCapture`.
  The row's total must be related to all requests between reservation and
  release, whatever order they end in; `RInv` bounds every amount a request may
  still write by what Stripe or the row had when it was validated.
* In the same module: `RowMirrorsStripe`, `StatusFollowsRefund` and `RestockFollowsRefund`
  state `MirrorsStripe`, `RefundStatusMatches` and `RestockedMeansRefunded` of
  `Spec /\ []OneCallPerOrder` where Stripe's answers arrive (`AnswersArrive`: no lost
  answer, restart or Dashboard refund). `LedgerInv` says what the one call under way for
  an order may rely on at each of its awaits (`InHand`), that an order nobody is at
  work on is `Settled`, and what its rows say at any time (`Books`: a sold order was paid
  or refunded through its intent, and an idempotency key stands for money that is in
  Stripe's total already, so that no key is replayed). `Undisturbed` is why a webhook
  or a payment may come between any two of these awaits; a `charge.refunded` event
  never has anything to add, because the row covers Stripe's total.
* `ReturnService_proofs`: `ReturnsAreCounted == ReturnSpec =>
  [](ReturnsFitPurchase /\ ReturnsRestockedOnce)`, under every fault. `ShelfInv` says
  that the units put back are those of a set of returns that holds the approved
  ones and otherwise rejected ones only (a late rejection leaves its return on
  the shelf), and every return whose restock a call may still undo; `OneHolder`
  that no two calls may undo the same. The first needs only that `InsertReturn` decides under
  the lock of the order. `RestocksAreCounted` is its second half.
* In the same module: `RefundsAreReserved`, `ReservationCoversRefund` where Stripe's answers
  are not lost (`"lost" \notin Faults`, as in run `returns`; a lost
  answer makes the code release what Stripe has paid out, until the event
  arrives). `ReserveInv` adds to what Stripe gave back the
  sum of what the requests between reservation and release hold (`Reserved`), and
  `NothingToSync` says that no late event can then overwrite the row.

* `AccountService_proofs`: `AccountTypeCorrect == AccountSpec => []AccountTypeOK`
  and `SessionsStayEnded == AccountSpec => EndedSessionsStayEnded`, from
  `AccountInv`, which adds the types of calls and rows that `AccountTypeOK` does
  not state. A refresh that is half way holds a session whose row may be gone;
  every write of it is conditional on the row.
* In the same module: `OrderlyClientsStaySignedIn`, that is `AccountSpec =>
  []NoFalseReuse` for browsers with one refresh in flight that use the grace time
  (`OrderlyClients`), with any number of browsers, sessions, requests and tokens.
  The inductive `ReuseInv` says that a call opens a session, renews one or is about
  none (`KindsInv`); that the tokens of a session are known only to the browser
  that opened it (`OwnerInv`); that what a browser holds is what the session's row
  accepts (`CookieInv`); and that a renewal holds its browser's token and stands where
  the row will take it (`RenewalInv`). With two
  refreshes in flight it does not hold (see above).

* `Background_proofs`: `StockRefinement == StockSpec => TakesAllOrNothing`,
  the refinement of `AtomicStock` by the transactions. The inductive `StockInv`
  says that a row is locked by one transaction at a time (`LocksInv`), that a
  transaction moved units of rows it holds only, that what a sale took is still
  there as committed, and that it loses no line and, once short, only gives back
  (`Fits`). A sale's commit is `Sell`, a shortage `RunShort`, the rollback of one
  `Retry`; each other statement is a stutter.
* In the same module: `StagesComeOnce == RecoverySpec => []NudgesInOrder`. `StagesInv`
  ties the stage of a cart's row to the reminders sent since it was last armed: a claim
  is an update conditional on the stage, so that the order is right however many
  passes have loaded the same cart.
* In the same module, of carts: `UnitsCounted == CartSpec => UnitsAreCounted` and
  `NoOverStockLeft == CartSpec => OverStockNeverLeft`, both about the step that ends the
  last call on a cart, for any carts, calls, units, sales and restocks. `CartInv` says
  what a call holds at each of its awaits (`Holds`: its carts, a line that is there unless
  it was told otherwise, a stock that was on the shelf since calls came to the cart) and,
  while there was no race, that a busy cart holds what was asked for, cut to the
  stock, or a call is still about to clamp it (`CountInv`). `Counts` is what a
  step owes each cart: its line is untouched, or answers what is asked. Of the races,
  the counting uses that no merge wrote over a change and no stale clamp raised a line,
  the stock limit that no call was cut off between its write and its clamp.

* `BackOffice_proofs`: of coupons, `CountIsRight == CouponSpec => []UsedCountIsRedemptions`
  and `LimitsAreKept == CouponSpec => LimitsHold`. A confirmation counts the uses
  in one statement and writes the redemption in a later one; `PayingInv` says that
  what it found is still so while it holds the row lock, `LockedOnce` that no
  other confirmation holds that lock, and `UsesInv` that the uses of a coupon are
  finitely many, all of them of confirmed orders, and as many as `usedCount` says.
  No bound on orders or coupons is assumed.
* In the same module, of the catalog: `StockStaysShelf == CatalogSpec => []StockIsShelf` and
  `ConfirmedOrdersTookStock == CatalogSpec => []ConfirmedTookStock`. `LinkedInv` is
  the substance: a pending order's variant has a row, and no save that is about
  to run drops a variant an open order needs. `FormsInv` (a form does not write a
  row that it drops) keeps stock and shelf together across a save.
* In the same module, of reviews: `VotersCountOnce == ReviewSpec => []HelpfulCountsVoters`
  and `ModerationRepairs == ReviewSpec => RatingCatchesUp`. `AggregateInv` says that
  a rating computed but not yet written is the one that would be computed again
  now, unless another decision was committed in between; only the rows a
  customer has written can be voted for or decided on, so that the rows a
  count needs to look at are finitely many.
* In the same module, of menus: `MenusStayListed == NavSpec => []EveryEntryListed` and
  `SeedsDoNotDouble == NavSpec => []SeededOnce`, for any number of entries and
  managers. `JobsInv` says that what a call has checked (`Checked`) is still true
  of the menus as they are, unless a write has come in between (`stale`).
  `CascadeTakes` is what the proof needs of the recursive function that follows
  a cascade: it takes what is asked, all that is right below it, and only
  entries. It rests on induction over the natural numbers, stated with a set for
  the statement (`NatSetInduction`). What calls left behind (`stranded`) is excepted entry
  by entry, so that the theorem speaks of all others also afterwards.
* In the same module, of the category tree: `TreeStaysATree == TreeSpec => []CyclesNeedCrossing`,
  `CategoriesStayShown == TreeSpec => []ShownUnlessReassigned` and
  `RemovalsKeepGoodsFiled == TreeSpec => GoodsStayFiled`, for any categories, admins and
  depth limit. `EditsInv` says that what a call has checked (`Found`) holds of the tree as
  it is, unless a write came in between (`stale`). The model, like the code, walks up
  the parents; the proof reasons with levels instead: `DepthsAreLevels` and
  `LevelsAreDepths` say that `DepthOf` goes up by one from parent to child exactly when no
  category is its own ancestor, and `WalksEnd`, by counting, that a walk of more steps
  than there are categories has met one of them twice. `Inserted`, `MovedBelow` and `Removed`
  say what each write does to the levels.
* In the same module, of coupons and their orders: `OrdersPinTheirCoupon ==
  CouponSpec => []PendingOrdersPinCoupon`. `OneCode` says that a code leads to one
  coupon, `Pinned` that a pending order's leads to the one it was validated for and that no
  admin's call has that coupon checked and not yet written.
* In the same module, of prices: `DiscountsKeepToTheirScope == PricingSpec =>
  []DiscountStaysInScope` and `RefundsFollowThePrice == PricingSpec =>
  []ReturnsRefundWhatWasPaid`, for any lines, prices, promotions, zones, tax rates and
  splitting into returns. `Charged` says that the total covers the lines less the
  discount, so that a return whose refund is cut to what is left refunds enough;
  `RoundsToNearest` is all that is used of `Math.round`, and `GrossAddsUp` that returns
  together are worth what their units are worth. `PricingAssumption` is what the DTOs and
  `parseZones` let in; tax rates are whole basis points there, which the DTO of the
  settings does not enforce.
* `MediaService_proofs`: `CleanupSparesShownFiles == MediaSpec => []ShownFilesExist`,
  for any number of files, products and calls. A clean-up has looked into some of
  the three tables when other rows are written; `RowsInv` says table by table that
  a file shown there is doomed by no call that has passed that table, unless the
  row was written after it passed (`caught`), and `TasksInv` that what a call is
  about to write was verified, or shown, before.
* In the same module: `LastDeleteCleansUp == MediaSpec => []HeldFilesAreShown`. `HeldInv` says
  of every file at Cloudinary that a row of the library or of a product has it
  (`Owned`), or a call in progress has it on its list to clean up (`Cleans`), or it is
  `loose`; a clean-up drops a file from its list only when a row still shows it.

Only model-checked: liveness, and what needs fairness (out of the prover's reach).
Every other property of a passing run is a theorem.

## Not modelled

* Automatic discounts' and sale prices' administration, tags, addresses, store
  settings, homepage and showcase content, recently viewed products: rows written
  by one statement, or blocks one admin edits, and nothing another part decides on.
* Wishlist: a cap checked on a count, and a move that is an `addItem` and a delete.
* Registration, e-mail verification, the refresh token from before per-device
  sessions, search text, invoices, e-mail, notifications,
  audit, analytics, exports, search: output, or reads only.
* The storefront and admin clients. What they may send, and when they repeat it, is
  in the modules (an idempotency key, a refresh after a 401, a form opened long ago).

`PROJECT.json` has the reason for each component.
