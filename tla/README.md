# Verification of kcw-api in TLA+

kcw-api is the back office of an auto-parts shop with a head office (HQ) and
branches: a LINE bot, a job queue with workers, web tools over the PARTS9 SQL
Server database (stock check, transfer, purchase orders, receiving, to-bill, pay
notes), and Tiger Pay, which collects bills and pays credit notes through a cash
box. This directory models the parts that keep state and change it in more than
one step, checks them with TLC, and proves with TLAPS every safety property the runs
check, for every value of the constants; liveness stays with TLC.

The common theme is that no lock and no transaction spans two of the stores a
handler writes to (PARTS9, Supabase, SQLite, the cash box, Tiger's cloud). Every
model therefore has the same shape: a handler is a sequence of calls, each call or
each single transaction is one action, `job` holds what the handler has read and
which call is next, and calls may raise, lose their answer, or end by the death of
the process. Two kinds of steps take more than one call together: reads a handler
makes before its first write, and reads of rows that nobody else writes at that
point; the section of the module names them.

Sections: 1 inventory, 2 plan, 3 Tiger Pay payments, 4 transfer, 5 stock check,
6 LINE jobs, 7 HQ purchase orders and receiving, 8 Tiger Pay vouchers, 9 the cash
box's day, 10 pay notes, 11 what is not modelled, 12 running it.

## 1. Inventory

| Component | State it keeps | Operations | Interacts with | What is hard | Model |
|---|---|---|---|---|---|
| **Tiger Pay payments** `src/tiger_pay/payment_service.py`, `repos.py`, `poller.py`, `service.py` | `payment_attempt`, `payment_event`, `payment_transaction` (Postgres); a transaction on the cash box | send, cancel, force-complete, webhook, poll, confirm QR, recover | the cash box over HTTP, its webhooks, one elected poller thread | every call is a race: lost answers, repeated POSTs, late webhooks, polls that write what they read before | `TigerPayment` |
| **Tiger Pay vouchers** `voucher_service.py`, `voucher_repos.py` | `voucher_attempt`; the voucher at Tiger's cloud | create, refresh, sweep, cancel | the cloud, the customer | lost create answers, a refresh that is older than a cancel, a sweep that dies with its gate | `TigerVoucher` |
| **Cash inventory** `cash_inventory.py`, `cash_repos.py`, `poller.py` | hopper snapshots, `cash_command`, daily close | snapshot, run a command, close the day | the poller's cycle, cash box, office | a command left `running`; a day closed late, twice or out of turn | `CashClose` |
| **LINE jobs** `src/jobs/` | `ops.job_queue` rows, heartbeats | enqueue, claim, finish, fail | LINE bot, HQ and branch workers | a job taken by a worker that dies; the command run and its result lost | `JobQueue` |
| **Stock check** `src/stock_check/` | sessions, leases, drafts, rejections, audits (SQLite); bills and stock in PARTS9; Supabase mirrors | take, look up, submit, edit, withdraw, approve, reject, recheck | PARTS9, Supabase | two auditors, an edit beside an approval, a crash between PARTS9 and SQLite | `StockCheck` |
| **Transfer** `app/routers/transfer.py`, `src/transfer/` | requests, lines, shipments (Supabase); `SIMAS`/`PIMAS` bills in two PARTS9 databases | draft, submit, prepare, receive, cancel, refresh of the request's status | both branches' PARTS9, stamps of `ICLOW` | two prepares of one request, a crash between PARTS9 and Supabase, retries | `Transfer` |
| **HQ purchase orders** `src/hq_po/` | `ICLOW` rows (PARTS9), orders and lines (Supabase) | confirm, cancel, cancel a line, release, drop, dismiss | PARTS9, which changes rows itself | a number taken twice, half-done cancels, a row moved under a handler | `HqOrders` |
| **HQ receiving** `src/hq_receive/` | receipts and their lines (Supabase), `PIMAS` | create, edit, confirm | PARTS9, the orders' rows | confirmed twice, a row canceled under a receipt | `HqOrders` |
| **Pay notes** `src/pay_notes/` | notes, stamps, vouchers and payments in KSS (PARTS9), reminders (Supabase) | create, edit, cancel, voucher | KSS, Supabase | `MAX + 1` numbers, a bill in two notes, compensation that fails | `PayNotes` |
| **To-bill** `src/to_bill/` | drafts, issued invoices, numbers, buyers | save, issue, void | PARTS9 (read only) | numbers | - |
| **Daily push, stock ledger** | none of their own | batch | PARTS9, TAR | - | the ledger's sum is in `StockCheck` |
| **LINE bot, search, explorer, substitutes, companion, printing, access, AI, ops pages** | none (queries, formatting, outside calls) | - | - | - | - |

What makes each of them correct:

* payments, vouchers: a bill is collected, a credit note paid out, once; a settled
  attempt stays settled; what is shown as paid was paid; an attempt in flight is
  settled in the end;
* cash: each day is closed once, on a report that is never changed and that
  balances; a command of the office is answered;
* jobs: each job is run at most once, and reported done only if it was;
* stock check: an approved count is posted to PARTS9 once, by somebody else than its
  operator, with the difference that was approved; one product is counted by one
  person at a time;
* transfer: what is shipped is what is received, once; a request's status is
  the one its lines give; a cancelled request ships nothing;
* orders and receiving: a row is on one order at a time and the two databases agree
  on which; one PARTS9 bill per confirmed receipt;
* pay notes: a paid bill stays paid, under the voucher that paid it; a note comes to
  its bills; a live note has a reminder.

`PROJECT.json` lists the hazards, each at its line, with the properties that would
catch it. A third of them has none: there the code has no guard, so that no property
can be stated of it, or the properties excuse exactly that case. The note of the
hazard and the section of the component say what happens then.

## 2. Plan

Done: payments, transfer, stock check, jobs, vouchers, the cash box's day, orders
with receiving, pay notes; four refinements of an abstract specification
(`PaymentLedger` twice, `JobLedger`, `RowLife`); liveness of payments, jobs,
vouchers and the cash box.

Left, in this order:

1. **To-bill**: numbers (`numbering.py`) and the receipt that outlives the tax
   invoice it was made from. A receipt draft keeps the snapshot of the tax invoice
   of the time it was made, while at issue `source_docno` is replaced by the
   current one.
2. **Pure algorithms** as operators against a reference definition: the daily pick
   of stock check (`daily_pick.py`), the merge of substitutes, order suggestions
   (`hq_po/suggest.py`), FIFO of the ledger.
3. **Transfer**: an abstract specification "goods in transit" (prepared = received
   + in transit) implemented when one handler runs at a time, and the shared
   quantity `ICMAS.QTYOH2`, which ship and receive read and write without a lock.
4. **Proofs** of what these add; of the models there are, all safety properties are
   proved.

Runs stay at two actors of each kind: every hazard of section 1 is a race of two
requests, or of one request with a poller, a customer or PARTS9, over one or two
rows.

Two conventions hold in every section. A boolean `alone` says that so far no two
handlers were in progress at once (and no other writer of PARTS9 moved a row under
one): where the code takes no precaution against an overlap, the property is stated
for `alone` behaviours, in which handlers may still raise and die, and the section
says what an overlap does. And properties marked "any overlap" have no such premise.

## 3. Tiger Pay payments

### Modules

* `TigerStatus` - the status algebra of `status.py`, the terminal guards of
  Python (`can_replace_status`) and SQL (the `CASE` of `update_payment_attempt`,
  `StoredStatus`), and the decisions taken from a device's report
  (`IncomingStatus`, `should_confirm_qr_payment`,
  `confirm_mismatch_already_paid`, and the two facts about a QR they ask for).
* `TigerPayment` - the protocol. Its state is the attempts' rows (`row`, `tid`,
  `stale`), the cash box (`dev`, `seen`, `qr`: external, modelled from how the
  code uses it), what every thread is doing (`job`) and the poller's place in
  its cycle (`poller`, `quiet`).
* `PaymentLedger` - what the shop is promised: attempts open, and end paid,
  cancelled or failed for good, except that a failed one may turn out to be paid;
  at most one is paid per bill and nothing opens on a paid bill.
* `MCTigerPayment` - the instances for TLC.
* `TigerPayment_proofs` - the theorems.

Each database statement and each HTTP call is one action, because the code holds
no lock and no transaction across them: a thread's `job.pc` says which call is
next, `obs`, `paid`, `to` and `rec` are what it read before. `send_payment_for_bill`
is `SendStart`, `SendPeek` (the `get_current` that runs on a thread beside the
reads), `SendReadSuccess`, `SendReadActive`, `SendRefused`, `SendInsert`,
`SendCreate*`, `SendStore*`; `cancel_payment_attempt` is `CancelRead`, `CancelMark`,
`CancelDevice`, `CancelConfirm`; `reconcile_from_tiger_payment` is
`ReconcileRead` and `ReconcileWrite`, shared by webhook, poll, sweep and force;
`_confirm_qr_if_paid` is `Confirm*`; `force_complete_payment_attempt` is `Force*`;
the poller's cycle is `PollList`, `PollGet`, `Sweep*`. The unique partial index
is `IndexOK`, checked by every write as Postgres does: a rejected write leaves
the row alone and raises.

Abstractions. Amounts are reduced to "the device's amount is the bill's or not"
(`Mismatched`). Of a QR there are two facts in `qr`: its `dynamicQR` is paid, its
`totalPay` covers the amount. They come one by one, and the three tests of the code ask
for different ones: `should_confirm_qr_payment` for either, `paid_qr_settled` for both,
`_confirm_mismatch_already_paid` for the first. Of `payment_event` only the
`CHECK` on its source is kept (`EventSources`), of `payment_transaction` nothing:
it feeds reports. A device report of `fail` with the remark of a confirm mismatch
is a raw status of its own (`mismatch`), and a status KCW has no alias for is
`other`. `_raw_request`'s repetition of a POST after rediscovery is in
`SendCreateRejected`, whose rejected call may have opened the transaction. `bill`
lookups and authorisation are left out.

### Runs

| Run | Instance | Shows |
|---|---|---|
| `payment_bill` | 2 attempts on one bill, 2 threads, poller, 1 webhook | `OneBlockingPerBill`, `IdMeansTransaction`, refinement `LedgerKept` |
| `payment_qr` | 1 QR attempt, a crash, 2 webhooks, force allowed | `TypeOK`, `SuccessIsPaid`, `SettledStays` |
| `payment_cash` | 1 attempt of another amount, 2 threads that send, cancel and force, an unknown device status, a crash, a webhook | `MismatchNotCollected`, `CancelledByDevice` |
| `payment_live` | a restarted process, an attempt left `unknown` and one of another amount to be sent for the same bill, 1 thread, lost answers, fairness | `ActiveSettles` |

Bounds. `MaxCrashes` and `MaxHooks` cap the threads killed and the webhooks
delivered; two attempts and two threads give every pair of racing operations,
and a third thread is the poller. `DeviceRaws` narrows what the device may
report in a run to the statuses its properties tell apart; `success` and
`pending` are always there. `Migrated` is the source list of the last migration
that touches it, `Widened` adds `manual`, so that force's own writes are explored
by `payment_qr` and `payment_cash` although the current schema rejects them.
`payment_bill` has the device report `pending` and `success` only: that a row which is
`pendingapproval` or `unknown` lets a second send through is not what it checks, but a
disagreement below; `payment_live` starts from such a row.

`ActiveSettles` says that an attempt in flight is settled in the end or waits in one of
three ways, each of which the instance reaches and none of which can be left out:

* its row is `unknown`: the poller lists the active statuses only (`poller.py:157`);
* the device collected another amount in cash, which `reconcile_from_tiger_payment`
  refuses each time (`payment_service.py:995`);
* an active row outside the index is barred by a blocking row of its bill. The `UPDATE`
  that would bring it in raises, the exception ends the poller's cycle
  (`poller.py:152`), and that repeats in every cycle, so that one such row may keep all
  others waiting.

The instance has no crash and no webhook inside the behaviour: a crash loses what a
thread read, which the start from a restarted process has, and a webhook is one more
read of the device, which its starting from either value of `quiet` has.

Fairness (`FairSpec`). The poller is a loop that sleeps and catches every
exception, so its steps are weakly fair; the HTTP calls it makes (`PollGet`,
`SweepFound`) are strongly fair: each may fail any number of times, not for ever.
A request that has started runs on (weak fairness of a busy thread's steps), but
nobody is assumed to start one, deliver a webhook, or cancel. `Tick` and
`QuietElapsed` are the clock. `DeviceSettles`: the cash box does not keep a
payment open for ever, because it times out or staff end it; without this, no
code could settle the attempt.

### Proofs

`TigerPayment_proofs` proves for every set of attempts, bills, threads, event
sources, and without the bounds mattering (they only appear as guards):
`TypeCorrect`, `SuccessIsAlwaysPaid`, `CancelledIsByDevice`,
`IdAlwaysMeansTransaction`, `OneRowBlocks`, `SettledRowsStay`,
`ImplementsLedger`, `MismatchesWait`. The assumptions are those of the module:
`Poller` is not a worker, `NoAttempt` not an attempt, `QrAttempts` and `Mismatched` are
sets of attempts, the device's vocabulary contains `pending` and `success`.

None of these is inductive alone, since a thread writes what it read long
before. The invariant `IInv` says what a thread may carry between two steps
(`JobOK`): an attempt whose row exists; a device status that the device did
report (`seen`) or a success backed by a paid QR; a `recover` mark only for a
paid QR. With `DeviceInv` (the device forgets nothing, a Tiger id has a
transaction), `PollerInv` (what was listed is still there) and the two paid
properties it is preserved by each action (`StepInv`, one lemma per group of
actions). `RowSteps` then reduces every step to three moves of the rows: none,
an insert the index accepts, an `UPDATE` through `StoredStatus`; from it follow
the index property, `SettledStays`, and the step simulation of the ledger.

`MismatchesWait` (`MismatchNotCollected`) has a layer of its own, `AmountInv`: a handler
about to apply a success is not one of a mismatched attempt, since
`reconcile_from_tiger_payment` compares the amounts before it decides; and the status a
send stores is the `pending` of a transaction just created. One path compares nothing:
the confirm race of a QR (`payment_service.py:1181`) stores a success as soon as the QR
is paid or the device says `success`. It needs a QR that was worth confirming, so that
the theorem says of a QR attempt of a wrong amount only that its QR is paid or covered,
and of a cash attempt that an admin completed it.

### Only model-checked, and not modelled

`ActiveSettles` is liveness and stays with TLC. Not modelled: the report rows of `payment_transaction` and its
ingest, and discovery of the cash box. The election of the poller (a file lock,
one host only) is in `CashClose`; here there is one poller.

An exception of one attempt's write abandons the rest of the poller's cycle
(`poller.py:152`). Where the write raises in every cycle the others wait for ever (the
third way above); `CashClose` has the part of the cycle that comes after.

### Known disagreements

No run is kept for these; each is a behaviour of the model that a text of the
repository excludes.

* `docs/sql/tiger_pay_payment_attempt.sql:66` ("One completed or in-flight payment
  per bill") and `docs/tiger-pay-api.md:65`: the index of migration
  `20260920061000` (line 139) leaves `pendingapproval` out, so a send that passed
  its reads earlier opens a second attempt on a bill that has one waiting for
  approval.
* "Unique constraints that block double-pay / double-voucher" (the same migration,
  line 134): the rejection of a repeated create is stored as the fate of the
  attempt (`payment_service.py:709`) while the first create's transaction is live
  and is collected; the failed attempt does not block a second one. No property of
  the project forbids this double collection.
* force-complete (`payment_service.py:365`, `413`) writes an event of source
  `manual`, which `payment_event_source_check` (migration `20260714194500`,
  line 46) rejects; the row stays `pendingapproval`. `EventSources` is a
  constant for this reason: `Migrated` is the schema, `Widened` adds `manual`.

Two more behaviours of the model to know:

* a poll that read the device before the cancel writes `pending` over
  `cancelling`;
* the fail webhook after a confirm mismatch carries no `dynamicQR`; if it comes
  first, or the refresh of the confirm failed, the paid QR attempt is failed and
  never looked at again.

## 4. Transfer

### Modules

* `Transfer` - one request between HQ and SYP, from the draft to the last receipt
  or the cancellation, with the two databases it lives in.
* `MCTransfer` - the symmetry of its instances.
* `Transfer_proofs` - the theorems.

| State | Code |
|---|---|
| `status`, `line` | the row of `transfer.requests` and its `transfer.lines`; `id` is the number of the edit that inserted the row, `link` says the line remembers its `ICLOW` stamp |
| `ship`, `receipts` | `transfer.shipments` with their `shipment_lines`, and `transfer.receipts`, keyed by `client_token` as their unique index does |
| `shipped`, `bills`, `taken` | PARTS9: the quantities on the request's ship bills (`SIMAS`), their number, the quantities on its receive bills (`PIMAS`) |
| `iclow` | PARTS9 at SYP: the low-stock row of a product, `open`, `ordered` (stamped) or `received` |
| `job` | what each handler in progress has read, and which call is next |

`api_set_lines` is `EditRead`, `EditDelete`, `EditInsert`; `api_submit` is
`SubmitRead`, `SubmitWrite`, `stamp_on_submit`, `StampLink`, `StampFails`,
`StampUndo`; `api_prepare` is `PrepareRead`, `post_transfer_ship`,
`create_shipment`, `add_shipment_lines`, `bump_line_prepared`, and the refresh;
`api_receive` is `ReceiveRead`, `post_transfer_receive`, `create_receipt`,
`bump_line_received`, `bump_shipment_line_received`, `mark_received`,
`ReceivePosted`, and the refresh; `refresh_request_status` is `RefreshRead`,
`RefreshWrite`; `api_cancel` is `CancelRead`, `CancelRevert`, `cancel_request`. The
reads a handler makes before its first write are one action; every later call
is an action of its own, because no lock or transaction spans two of them.
A look-up that decides on the very next call (has this token a shipment, has this
shipment lines, is it fully received) is one action with that call; the gap that
matters, between a bill and the record of it, is kept.
`Abort` is a process that dies, or a call whose error ends the handler.

Abstractions. A ship or a receive of PARTS9 is one transaction and so one action;
its bill number, prices and the stock quantity it moves are left out, as are
photos, substitute products, the need list, the low-stock rows of the shipping
branch, and who may do what. A product has one line per request. A caller's
`client_token` is fresh on each click in the web page (`ReuseTokens = FALSE`); a
client that repeats a call with the same token is the case `TRUE`.

### Runs

| Run | Instance | Shows |
|---|---|---|
| `transfer_flow` | 1 user, 2 products, 3 tokens that may repeat | `TypeOK`, `BooksAgree`, `SingleBill`, `StampReturned` |
| `transfer_race` | 2 users, 1 product, 3 fresh tokens, one handler dies | `CountsBehindBills`, `CountsNested`, `PostedIsComplete` |

Bounds. With one prepare and two receives (three tokens) a shipment of quantity 2
can be received in parts, in one go, or twice; two edits let one edit replace the
rows another handler has read. `MaxEdits` and `MaxAborts` cap `edits` and
`aborts` in the guards; the bills are bounded by the tokens and the edits. No
property needs fairness. Deadlock is not checked: a deleted draft, or a request
with its tokens used, rightly stops.

`transfer_flow` has one handler at a time, so what it shows is that each handler
is right by itself, failures of the stamp and repeated tokens included;
`transfer_race` shows what is left of that when handlers overlap and die. The
difference between the two lists is what the code leaves to its users.

### Proofs

`Transfer_proofs` proves for all finite sets of users and tokens, all products and
bounds:

* of `Spec`, whatever overlaps and dies: `TypeCorrect`; `CountersNested` (received <=
  prepared <= requested on each line, received <= shipped on each shipment line);
* of `Spec`, if no `client_token` is repeated: `PostedShipmentsComplete`
  (`PostedIsComplete`), `CountsAreCovered` (`CountsBehindBills`), `CountersCovered`
  (`CountsNested`);
* of `SerialSpec`, in which a handler of any user starts when no other is in progress
  and runs to its end: `OneShipBill` (`SingleBill`), `TheBooksAgree` (`BooksAgree`),
  `StampsAreReturned` (`StampReturned`). `OneUserIsSerial` says that `Spec` with one
  user and no deaths, as `transfer_flow` has it, is such a specification.

The invariant `IInv` adds to these what a handler may carry (`JobOK`: its
`client_token` and shipment while it prepares or receives, the product in hand
while it stamps or counts). The guards of the `UPDATE`s then give the nesting;
what a handler checked on the rows it read plays no part in the argument, which
is why it survives every interleaving. Editing a draft is the other case: it
writes whole rows with zero counters, and `add_shipment_lines` writes quantities
only on a shipment that carries none, so that nothing received on it can exceed
them.

`PostedIsComplete` needs more: a second handler could mark a shipment posted while
its own prepare has yet to write the lines. `FreshInv` excludes it: a token is
held by one handler at most (`HeldApart`) and is then used (`HeldUsed`), the
shipment of an unused token is blank, and so is the shipment of a prepare that has
not written its lines; a blank shipment is never marked. A receipt counted on a
posted shipment can only add zero, because of the guard of the `UPDATE`.

`CountsBehindBills` and `CountsNested` relate a counter to a sum over handlers in
progress or over shipments. A sum is the number of units it is made of (`Total`: pairs
of an element and a number up to its count), so that the theorems on finite sets say
how one step changes it, with no induction. `SumInv` adds to each counter what the
handlers still owe it (`ToShip`, `ToTake`: posted in PARTS9 and not counted;
`ToPrepare`, `ToGot`: on the one of two rows and not yet on the other). What a handler
that dies owed is lost, which is why these are inequalities. They rest on `RowsInv`: a
shipment is made once, by the handler with its token, and a row that an edit replaced
does not come back, for its id was never another edit's. A row replaced under a
handler makes its guarded `UPDATE`s miss.

With repeated tokens the proofs of these two do not go through (`HeldApart` fails);
`transfer_race`, where they are checked, has fresh tokens.

For handlers one after another, `SerialBy(j)` says where the one in progress, with
record `j`, has got to: there is a bill exactly when there is a shipment or the next
call makes it (`BillsBy`); the rows it read are still there and its remaining `UPDATE`s
will be accepted (`ReadyBy`), so that nothing of what it posted is left uncounted
(`BooksBy`, equalities now); an ordered low-stock row has its line linked, or will have
it by the next call (`StampsBy`). No such thing holds when two overlap.

### Known disagreements

* `docs/transfer.md:23` and `api_prepare` (`transfer.py:1058`) speak of one ship bill
  per request: two prepares that both found no shipment post two.
* two receives of one shipment that both passed the checks (`transfer.py:1390`) post
  two receive bills; the second is refused by the bump, with its stock taken in
  (`docs/opencode-transfer-phase23-prompt.md:61`, `tests/test_transfer_state.py:309`).
* `docs/transfer.md:127` has the rows of a submitted request stamped: a stamp that
  PARTS9 refuses leaves the request submitted (`transfer.py:786`), and a second
  submit is refused because it is no longer a draft.

Other interleavings the model shows, against which the code has no guard, so that
no property can be stated of them:

* a cancel that looked for shipments before a prepare posted writes `cancelled`
  on a request whose ship bill exists (`transfer.py:1474`);
* a cancel between the status write of a submit and its stamps finds no linked
  line, and the stamps stay on the low-stock rows of a cancelled request;
* an edit that read `draft` before a submit replaces the lines that were
  submitted (`transfer.py:722`);
* of two refreshes the one that read first may write last, leaving a status the
  lines do not give;
* two calls at once with the same token both post their bill, since the token is
  looked up before the bill and recorded after it;
* a prepare that dies between `create_shipment` and the last bump leaves a
  request that can be neither prepared again, nor cancelled, nor received;
* bill numbers of ship, receive and stock adjustment are `MAX + 1` read without a lock
  (`writers/_engine.py:119`, `sa_writer.py:35`): two writers may get one number. (HQ
  receiving takes `UPDLOCK, HOLDLOCK`, `receive_pimas.py:35`.) Numbers are abstracted
  here; `PayNotes` models the pattern for vouchers.

## 5. Stock check

### Modules

* `StockCheck` - one branch's count, from the lease to the audit row.
* `MCStockCheck` - symmetry and the constraint of its instance.
* `StockCheck_proofs` - the theorems.

| State | Code |
|---|---|
| `who`, `live` | `sessions`: the user, and whether it has ended |
| `lease` | `leases.status`; `stale` is leased and past `expires_at` |
| `draft`, `rejected`, `audits` | `drafts`, `draft_rejections`, `audit_outbox` (SQLite) |
| `onhand`, `moved`, `bills` | PARTS9: `ICMAS.QTYOH2`, the net quantity of the bills up to each day, the variances posted for each draft |
| `job` | what each handler has read, and which call is next |
| `day`, `others`, `late` | the date; bills of others, and the products one of them reached before `QTYOH2` did |

Every method of `LocalStore` is a SQLite transaction and one action; so is the
posting in PARTS9 after its read of `QTYOH2` (`PostBegin`, `post_stock_adjustment`):
that read takes no lock that lasts. Take is `TakeRead`, `TakeHeld`, `claim_leases`;
the recompute of `QTYOH2` on a take, a search or a product page is `SyncRead`,
`SyncWrite`; a count is `SubmitRead`, `create_draft`, `SubmitDone`; the audit is
`ApproveRead`, `ApproveComplete`, `PostBegin`, `post_stock_adjustment`, `PostFails`,
`ApprovePosted`, `_enqueue_mirror`. An edit, a withdrawal, a recount and a rejection
check the row they read and write by id alone. Which products are picked is a free
choice; mirrors, photos, work events and reports are left out.

### Run

`stock_check`: 2 handlers at a time, 2 people, 2 sessions, 1 product, 2 drafts,
counts up to 1, 1 change of day, 1 bill of others, 1 death.

| Property | Says |
|---|---|
| `ClosedProperly` (any overlap) | a draft posted, closed unexplained or sent back was so by somebody who is not its operator; a posted one has its bill, one sent back its reason |
| `OneHolder` | a product has one open draft and one leasing session |
| `StockIsLedger` | `QTYOH2` is the sum of the bills, but for a bill that reached it late |
| `CountedOnce` | the bill is the variance; without a death, one bill and one audit row |
| `ClosedStaysClosed` | a closed draft is not closed otherwise or reopened |

Bounds. `Explored` explores the second draft, bills of others and deaths one at a
time, and what two handlers do at once without them, with one draft and no leases:
each hazard needs two handlers, or one and a death, or one and a bill, over one
draft; leases and the second draft matter when handlers run one after another.
Symmetry is over all the sets. Deadlock is not checked: with its drafts used the
system may stop.

What an overlap does: two approvals post two bills; an edit or withdrawal beside an
approval is overwritten by it, or overwrites it; a bill of PARTS9 between the sums of
a recompute and its write is lost from `QTYOH2` until the next recompute; two takes
lease one product to both. A lease that expired while its session slept is safe: the
take of another session releases it first, and a heartbeat extends only rows that are
still leased.

### Proofs

`DraftsClosedProperly`, `ClosedDraftsStayClosed`, `OneHolds` (`OneHolder`),
`DraftsCountedOnce` (`CountedOnce`), `StockFollowsLedger` (`StockIsLedger`), for all
people, sessions, handlers, products, drafts, days and bounds.

For any overlap, the invariant `IInv` adds to `ClosedProperly` the types needed
(`Shape`) and `JobsOK`: a handler that audits works for a session whose user is not
the draft's operator (neither ever changes), one about to write `posted` has posted
the bill, one about to write `recheck` has written the reason.

The other four hold while `alone`, through crashes, and each adds a layer that says
what the one handler in progress has read is still so: the status of the draft it
audits, and one open draft per product (`AloneInv`); that nobody holds what it is about
to lease (`LeasesInv`); that the bill it posts is the variance it computed, and how far
a draft's bill and audit row have got (`BillsInv`); that the sum it read of the
ledger is the sum (`StockInv`). For the last, `moved` holds the sums of PARTS9's bills
up to each day, as `Since` uses them, so that one bill changes the ledger by its
quantity without an induction over days.

### Known disagreement

`docs/stock-check.md:70` promises that bills between count and audit explain a
change of stock. `parts9.py:366` compares the midnight of `BILLDATE` with the time of
the count: a sale made on the day of the count, after it, is not listed, and the
change counts as unexplained (`list_stock_movements`).

## 6. LINE jobs

### Modules

* `JobQueue` - the queue, the heartbeats and the loop of the workers.
* `JobLedger` - what is promised of a job whatever fails: it is started once, run at
  most once and only after that, and reported done only after it ran.
* `MCJobQueue` - two candidates at HQ, one at SYP.
* `JobQueue_proofs` - the theorems.

State: `queue` (`ops.job_queue`: status and worker), `ask` (the batch being
inserted), `online` (who has a heartbeat within 30 s), `loop` (each worker's point in
`run_worker_forever`, and its job), `outcome` (how each run of the command ended).
`Ask` is a job for a site or for both, `AskRelated` the job of
`enqueue_sync_po_related_jobs`, which is nobody's when no HQ worker is online and then
whichever worker's claims it; `_pick_worker`, `_append_syp_target` and `enqueue_job`
choose and insert. `claim_next_job` is the locked `UPDATE`: of two workers that compete
for a job of nobody one gets it, and the other skips the locked row (`SKIP LOCKED`) and
may take a younger one. `BeatRunning`, `run_configured_command`,
`finish_job_success`, `BeatAfterSuccess`, `finish_job_failed`, `BeatAfterFailure` are
the loop in its order. `Raises` lets any call raise before or after its effect. The
text of answers and the commands themselves are left out.

### Run

`job_queue`: 3 workers, 2 jobs, of a worker's or of nobody, 1 fault, 1 death (103 336
states). Two jobs show order and the
competition for a worker; one fault at each of the calls, or one death at each of
the points, is every single failure.

| Property | Says |
|---|---|
| `DoneWasRun` | a job reported done was run once and ended well, whatever fails |
| `TableIsTrue` | the jobs of a worker are started in order; without a failure the table says who runs what and how it ended |
| `AtMostOnce` | the refinement of `JobLedger` |
| `JobsProgress` | a pending job is started unless every worker that may take it is down; a started one is reported unless something failed |

Fairness: the loop never stops and waits only for its own calls (`WF` of `Work(w)`).
Nothing restarts a worker, sends a heartbeat, or makes users ask.

What the properties leave open, because the code does: a job that was running when
its worker died, or whose claim was answered in vain, stays `running` for good; and
a failure may be reported of a job already done, when the heartbeat after the
success raises inside the same `try` (`worker.py:125`).

### Proofs

`TypeCorrect`, `DoneOnlyIfRun`, `RunAtMostOnce` (the refinement), `TableTrue`, for all
candidates, jobs and bounds. The invariant: a job in a worker's hands is `running`
under its name and in nobody else's (`OneWorker`, `Held`), a job not yet handed over
has not run (`RunsOnce`), `DoneWasRun`. `TableTrue` adds `Tidy`: what is known without
a failure, and that ids are given out in order. `JobsProgress` is liveness and stays
with TLC.

## 7. HQ purchase orders and receiving

### Modules

* `HqOrders` - the low-stock rows, the orders made of them, and their receipts.
* `RowLife` - a row waits, is on one order, and is received or dropped for good; it
  never goes from one order to another without having waited.
* `MCHqOrders` - symmetry and the constraint of its instance.
* `HqOrders_proofs` - the theorems.

| State | Code |
|---|---|
| `iclow` | PARTS9: `ORDERED` (`N`, `Y`, `X`), `DOCNO`, `RECEIVED`, `CANCELED` of each row |
| `bills` | PARTS9: the `PIMAS` bills posted for each receipt |
| `order`, `line` | `hq_po.orders.status`, `hq_po.lines` with the row each is for, open as stamped or as created |
| `receipt` | `hq_receive.receipts` and its lines |
| `job` | what each handler has read, and which call is next |

`confirm_order` is `ConfirmRead`, `mark_line_canceled` and `CloseOrder` for rows that
PARTS9 had sent back, `_resolve_created`, `insert_ordered_lines`, `insert_order`,
`insert_lines`, `stamp_ordered`, and on failure `mark_lines`, `mark_order_canceled`,
`cancel_created`. `cancel_order`, `cancel_order_line`, `mark_product_unavailable`,
`release_incoming`, `drop_incoming` begin the other handlers, which share the calls
`revert_ordered`, `mark_line_canceled`, `release_to_waiting`, `cancel_incoming`.
`dismiss_waiting` and `LegacyRelease` (PARTS9 itself sends a row back) are single
steps. `InsertFails`, `StampFails` and `PostFails` are calls refused before their effect;
`HeaderLeft` and `StampAnswerLost` are calls that took effect and whose answer was lost:
`confirm_order` cannot tell, takes the order back, and what was written stays. (Lines
whose answer was lost go with their header, by the cascade of the schema.) A receipt is `create_receipt`, `SaveRead` to `SaveInsert`, `confirm_receipt`,
`post_vendor_receive`, `mark_confirmed`. Every function of `stamp.py` and the posting
are one PARTS9 transaction each. Quantities, prices, notes, suggestions, and the
matching of invoices are left out.

### Run

`hq_orders`: 2 handlers at a time, 1 waiting row, 1 row the service may insert, 2
order numbers (which may collide), 1 receipt of all or a part of its rows, 1 call that
raises, 1 death or lost answer (452 400 states).

| Property | Says |
|---|---|
| `OrdersHold` (any overlap) | a received row was ordered and is not canceled; a canceled order has no open line |
| `RowsLive` (any overlap) | the refinement of `RowLife` |
| `BooksAgree` | in quiet moments without a death or a lost answer, a row is incoming for an order exactly if the order has an open line for it; errors that were handled included |
| `ReceiptsHold` | a confirmed receipt has its bill (any overlap); it shows what the bill took in, and without a death there is one bill |

Bounds (`Explored`): faults and deaths one at a time while handlers run one after
another, and parts of a row with one order; without them any two handlers at once, then with one order, receipts of the
inserted row alone, and no overlap of handlers of a single line, of drops, of edits
of a receipt or of second tries of a number: those make the same calls on the same
row as a cancel or a release. Both sides of each race (confirm with confirm, cancel
with receive, release with cancel, receive with receive) stay in. Deadlock is not checked: rows and numbers are used up.

What a lost answer does: an order is left without lines, or rows are left ordered on an
order that was canceled, until PARTS9 sends them back or an operator gives them up.

What an overlap does: a release decided before the row was ordered again leaves an
open line for a row that waits; a cancel that dies half-way may leave a line
that blocks its row until the order is canceled again; two confirmations of a receipt post two
bills; a bill takes in goods for a row that was canceled meanwhile.

### Proofs

`TypeCorrect`, `RowsAndOrders` (`OrdersHold`), `RowsLiveTheirLife` (`Spec => RowsLive`),
for all handlers, rows, numbers and receipts. The invariant `IInv`: a row the service
inserts exists under the number of the handler that inserted it (`RowJob`), the order
a handler writes lines for is its own and empty (`LineJob`, `OneWriter`, by the unique
index on the number), lines are closed before their header (`OrderOK`). For the
refinement every step is one of a few moves of the rows: none, an insert, a change of
rows that are waiting or incoming.

`ReceiptsAreBilled` (`ReceiptsHold`): a handler about to mark a receipt has posted its
bill (any overlap); while handlers run one after another it has posted it from the
lines the receipt still has, and no other bill of the receipt exists without such a
handler or its mark (`Billed`).

`TheBooksAgree` (`BooksAgree`): `Books(j)` relates rows, lines and orders given the one
handler in progress, whose record `j` says which rows of its order the one database
already has and the other not yet: what a confirm stamped or created, what a cancel, a
release or a drop still has to close. A handler that owes nothing has `Books(Idle)`,
which is the property; a step of it is one call of one database. It holds for errors
that were handled and not for deaths and lost answers, which leave the debt behind.

### Known disagreement

`docs/hq-receive.md:31` and `rules.py:114`: "remaining qty stays on ICLOW". A row
received in part has its `RECEIVED` set (`receive_pimas.py:234`); the rest of it is no
longer incoming, and no operation of the code takes it up again.

## 8. Tiger Pay vouchers

### Modules

* `TigerVoucher` - the attempts, Tiger's cloud, the requests and the sweep.
* `PaymentLedger` - the ledger of section 3, which vouchers keep as well.
* `MCTigerVoucher`, `TigerVoucher_proofs`.

State: `row` (`voucher_attempt`: status, and whether the number is known), `cloud` (the
voucher itself: none, live, used, cancelled, expired; external), `job`, `gate` (the
flag and file lock of `refresh_active_vouchers`). Create is `CreateRead`,
`create_voucher_attempt` (under the unique index), `CloudCreate`, `CreateSave`; a
refresh is `RefreshShow`, `RefreshSave`, from the detail page or from the sweep
(`_try_acquire_cross_process_gate`, `SweepNext`, `_release_cross_process_gate`); cancel is
`CancelRead`, `CloudCancel`, `CancelShow`, `CancelSave`. `extract_voucher_display` and
`normalize_voucher_status` are modelled by what they do to each answer the cloud can
give (`Shown`), an answer of 200 to the create that says failed and makes no voucher
included; `update_voucher_attempt` by its `CASE` over terminal statuses. Amounts,
the daily limit, pictures and lists are left out. One assumption is made of the cloud:
the answer to a create that made a voucher does not call it used or cancelled (the
tests show it as unused); the code would store such a word.

### Run

`voucher`: 1 bill, 2 attempts, 2 requests and 1 sweeper at once, 1 lost or
unreadable answer, 1 death (319 808 states).

| Property | Says |
|---|---|
| `RowsAreTrue` | used means paid out; while every answer arrives no failed or cancelled attempt leaves a voucher that pays |
| `PaidOnce` | two vouchers of one bill can pay only if an answer of the cloud was lost for one |
| `LedgerKept` | the refinement of `PaymentLedger` |
| `VoucherSettles` | a voucher used or cancelled is so in the table in the end, if its number is known |

Fairness: requests go on, and sweeps keep being started, because the companion's list,
which starts them, is looked at again and again; a sweeper goes through its list.

What the properties leave open: a lost create answer makes the row `failed` while the
voucher is live, so that the bill may get a second one (`voucher_service.py:217`); a
death between insert and answer, or an answer without a number, leaves an attempt
that has no number and blocks its bill for good; an expired voucher the cloud shows as
unused stays pending until somebody cancels it; an unreadable answer after a cancel
counts as cancelled.

### Proofs

`TypeCorrect`, `RowsTrue`, `NoDoubleVoucher`, `KeepsLedger`, for all attempts, bills,
threads and sweepers. The invariant `IInv`: what a thread carries between two calls is
still so at the cloud, since used, cancelled and expired are final there (`JobOK`);
rows that ended agree with the cloud or something was lost (`RowOK`); one row of a bill
blocks (`OneBlocking`). `VoucherSettles` stays with TLC.

## 9. The cash box's day

### Modules

* `CashClose` - the hopper, the snapshots, the closes and the poller's cycle.
* `MCCashClose` - the names of the instance.
* `CashClose_proofs` - the theorems.

State: `hopper`, `payment`, `paidout` (the box: external; vouchers paid up to each day), `first` (the first
`cash_snapshot` of each day), `close` (`daily_close`: opening, closing, what came in),
`command` (`cash_command`), `leader`/`up` (the process that got the file lock of the
poller, and those running), `poller` (its place in the cycle), `day`/`late`. A payment
puts one piece in, a voucher takes one out. The cycle is `_poll_active_once`,
`claim_next_cash_command`, `SnapshotBusy`/`capture_snapshot`, `freeze_daily_close`,
`ListPayments`, `insert_daily_close`, `finish_cash_command`, `maybe_run_eod`, in the order
of `poller.py`; an exception leaves out what follows. Freezing a day is six
transactions. The list of its payments and the insert are each an action of their own,
so that a webhook may come between them and an insert may be made though its call
raised. The reads before the list (is there a close, the last close, the first snapshot
of the day) are one action: only the poller writes closes, and the first snapshot of a
day does not change once the day was counted or is over. The list of vouchers that
comes with that of the payments is not in the report's balance and is left out. Denominations, the coin side and alerts are left out.

### Run

`cash_close`: 2 processes, 2 days, 1 payment, 1 payout, 1 command, 1 trouble (a call
that raises or a process that dies; 609 983 states). Two days show a late close, one out of turn, and
the chain of openings; one trouble at each point is every single failure.

| Property | Says |
|---|---|
| `DoneIsClosed` | a close reported done to the office is there |
| `ReportsHold` | `ClosesStay`: a report never changes; `CountedDayBalances`: a day closed on its own count, after a day closed on what the box then held, has as its variance exactly the payments whose webhook came after the list (or is still to come), less what vouchers took out |
| `Served` | `CommandServed`: a command is answered unless something failed on it; `EveningCloses`: every evening the day is closed, or midnight came first |

Fairness: the poller's cycle goes on; a dead process is started again; a payment on
the box comes to its end.

What the properties leave open: a command that was running at a death is never taken
up again; a `finish` that raises after the close reports failure of a day that is
closed; vouchers are not in `hopper_expected`, so that the variance is minus what they
paid; without an earlier close the first snapshot of the day may already hold its
first payment; a late close of a past day uses the count of now; a webhook that comes
after its day's payments were listed is in no report, also when it comes before the close is
inserted; an attempt whose write raises in every cycle (section 3) keeps commands and
closes waiting for ever, which one trouble does not show; the other workers asked for the poller's lock
when they started and do not ask again.

### Proofs

`TypeCorrect`, `DoneClosesAreClosed` (`DoneIsClosed`), `ReportsAreKept` (`ReportsHold`,
its two parts), for all processes, days, payments, commands and bounds.

The invariant has three parts besides the types. `BoxInv`: the box holds the payments
paid less the vouchers paid out, and both are dated by today at the latest. `PollerInv`:
what the poller carries from one call to the next, so that it reports a close done only
after the close of that day. `ReadInv`: what it has read for a close is still so when it
writes it, the opening (no other day is closed meanwhile) and the listed payments (they
stay ingested, and of that day). A close is inserted once and never updated. For the
balance of a counted day, `paidout` holds the
vouchers paid up to each day, and payments are counted as a finite set; the opening is
the closing of the last closed day, the day before, whose count was the box. There is
such a last day by well-founded induction on the days. `Served` is liveness and stays
with TLC.

## 10. Pay notes

### Modules

* `PayNotes` - the notes of one vendor in KSS, and their reminders in Supabase.
* `MCPayNotes` - the instance and its symmetry.
* `PayNotes_proofs` - the theorems.

State: `pimas` (note, voucher and `PAID` of each bill), `pvmas` (the notes in the order
of their rows, canceled ones included), `bpdet` (the payments), `reminder`, `job`. An
amount is the set of bills it is the sum of, so that a wrong sum is a wrong set. The
ghosts are `alone`, and `astray`: a request died, or ended without undoing what it had
begun. Create is `resolve_stored_noteno` (the first free suffix of the label),
`fetch_bills_for_note`, `create_pay_note`, `insert_reminder`, with `recover_note` for a
note whose reminder is missing; if the reminder is refused, the note is let go by
`cancel_header` and `cancel_unvouchered_pay_note`, as on an operator's cancel, which
ends in `delete_reminder`. Edit is `update_header`, `list_note_bills`,
`update_pay_note`; payment is `next_voucno`, `create_voucher`, of what the note comes to
less its discount, or of a part of that; when nothing is due no payment is written. Each KSS transaction is
one action per read that decides and one for its writes: it holds no lock on what it
read. A voucher's number is the maximum of strings of three digits, plus one:
`Unissued` gives `Widest + 1` again and again once `Widest` (999 in the code) is passed,
as the string `-1000` sorts before `-999`. Left out are surcharges (negative discounts), the
numbers of other vendors' vouchers and tails that are no number (after which the code
starts at 1), banks, images and the AI scan.

### Run

`pay_notes`: 2 operators, 2 labels, 2 bills, 4 requests, one suffix, numbers up to 2,
1 trouble (1 281 675 states). Four
requests let a label be used, canceled, used again and paid, or two notes be made and
both touched again; two bills make a note whose edit adds one and drops the other.

| Property | Says |
|---|---|
| `PaidHasVoucher` (any overlap) | a paid bill carries the number of a voucher of a note of its name, under which money was paid if anything was due |
| `PaidStays` (any overlap) | no edit or cancel decided before a payment undoes it |
| `NotesAgree` | names are unique among live notes; a note comes to its bills; a voucher pays them, all, once, under a number of its own as long as numbers have three digits; also with requests that die |
| `LiveHasReminder` | if nothing went astray, a live note has its reminder (but for a name that was canceled before) and a reminder its note |

What an overlap does: two creates with one bill both write their header, and the
second's amount counts a bill it does not own; two creates may take one name; two
vouchers of one note pay twice; a bill added by an edit after a voucher read the note
is marked paid for less, and one stamped later sits on a paid note; two vouchers may
take one number. After 999 vouchers of a month and kind every voucher takes 1000, without
any overlap; the run does not get there, the theorem covers it by saying nothing of them.

### Proofs

`TypeCorrect`, `PaidByVoucher` (`PaidHasVoucher`), `PaymentStays` (`PaidStays`), for all
operators, labels, bills and bounds. The invariant: the row a request holds has the
name of its note (`JobsOK`), a paid bill has a number (`PaidNumbered`). The guards of
the `UPDATE`s carry the argument: what was read before plays no part in it.

`TheBooksAgree` (`NotesAgree`) and `RemindersAgree` (`LiveHasReminder`) hold while
requests come one after another. `BooksInv`: the tables are in order (`BooksOK`) and what
the one request in progress read is still so (`StillSo`: the bills it will stamp are
free, the amount it will pay is no more than the note's, the number it will give is new
unless it has four digits); each write
is one transaction, so a request that dies leaves the tables in order. `RemindInv`: a
note that waits has its reminder, or is being made or taken back by the request in
progress (`TakingBack`), and a reminder has its note or is about to be deleted; this
needs requests that end, hence `~astray`.

### Known disagreements

`docs/pay-notes.md:111`: "Do not leave a live KSS note without a reminder going
forward".

* A due date that cannot be read raises after the KSS write, outside the code that
  compensates (`pay_notes.py:684`, `unreadable_date`).
* The header to cancel is `SELECT TOP 1` of the name without asking for `CANCELED`
  (`writer.py:353`): after a label was canceled and used again it may find the canceled
  row and cancel nothing, while the API deletes the live note's reminder.
* A rollback that fails, an insert of the reminder whose answer is lost, or a stray
  reminder leave one of the two without the other.

## 11. Proved, model-checked, not modelled

Proved for every value of the constants: the 42 theorems listed in `PROJECT.json`. They
cover all invariants and action properties of the runs and the refinements. What they
assume is in the modules' named assumptions, which TLC evaluates on every instance:
bounds are positive, names like `NoToken` are not members of their sets, and where sums
are counted the sets of actors are finite. Three kinds of premises are part of the
statements and repeat what the code relies on: `alone` inside the properties, fresh
tokens for three theorems of the transfer, `SerialSpec` for three others.

Model-checked only: liveness (`ActiveSettles`, `JobsProgress`, `VoucherSettles`,
`Served`), since fairness is outside what the proof system can do. TLC has also checked
the inductive invariants of the longest proofs on the instances of the runs.

Not modelled, and why:

* **To-bill**: every operation is one Supabase transaction that locks its rows, and
  PARTS9 is only read. Its numbering is next in the plan.
* **Daily push, TAR push and the stock ledger's SQL**: batch file copies and queries;
  the formula that `QTYOH2` is set to is in `StockCheck`.
* **LINE bot, search, explorer, substitutes, operations pages, companion, printing,
  barcodes**: no state of their own; queries, ranking and layout.
* **Access, AI, LIFF**: stateless checks and calls to outside services.
* **Pure ranking** (daily pick, suggestions, substitutes): free choices in the models,
  so that what is checked holds for any ranking.

The mapped lines are about an eighth of the repository's code. The rest is mostly
text: the `ui.py` modules generate HTML and JavaScript, the explorers, reports and
`queries.py` are SQL and formatting, and many thousand lines parse, print and style.
They change no state the properties are about, and a model of them would say nothing
that reading them does not.

## 12. Running it

`tlc -config X.cfg M` for each run of `PROJECT.json`, `tlapm M.tla` for each
`*_proofs` module. Deadlock is checked unless the configuration says otherwise, which
it does where requests are bounded or a life ends (transfer, stock check, orders, pay
notes). The longest runs take one to three minutes with two workers.
Operators marked "Mutant" in the modules stand for a plausible mistake in the
definition that follows them; `PROJECT.json` names for each property the mutant that
violates it, so that no property is there that the code cannot break.
