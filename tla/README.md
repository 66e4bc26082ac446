# Mpango ERP: TLA+ specifications

Mpango is a multi-tenant ERP for wholesalers.  A wholesaler (the tenant) sells
to retailers; every tenant has its own PostgreSQL schema, and every request of
the FastAPI backend runs in one transaction.  These modules model the parts of
the backend that carry its own logic: the order lifecycle and the money behind
it, the requests and jobs that drive it while others run and things fail, the
ways in for tenants and retailers, and the protocols of the platform console.

Paths below are relative to `src/backend/` unless they begin with `src/`.
`PROJECT.json` has the machine-readable side of all of this: every component
with its status, every run, every definition with the lines it translates, and
under `hazards` what in this code is hard to test, each at its line.

## 1. Inventory of the system

| component | state it keeps | operations | what makes it hard |
| --- | --- | --- | --- |
| order commands (`services/order_command_service.py`, `core/domain/order_state.py`) | `orders.status` | create, confirm, cancel, fulfil, return; payment transitions | one command writes five tables owned by other components |
| inventory (`services/inventory_service.py`) | `inventory_stocks` (on hand, reserved), `inventory_reservations`, `inventory_movements` | reserve, release, consume, restock, adjust | `quantity_reserved` is an aggregate beside the rows it sums |
| credit (`models/order_credit_hold.py`, `models/binding.py`) | one hold per order; the `outstanding_balance` cache | open, release, reduce, convert, collect, deactivate | the cache is moved by increments in five places, never recomputed |
| canonical payments (`services/canonical_payment_service.py`, `repositories/payment_repository.py`) | `payments`, `receipt_sequences` | settle, sell on credit, collect | replays, unique references, receipts in a savepoint, reads before the lock |
| declarations (`services/payment_declaration_service.py`) | `payment_declarations` | submit, confirm, reject | a second path into payments that forces completion |
| ledger (`services/ledger_service.py`) | `ledger_entries` | post a payment, post a return | posted by whichever payment completes the order |
| receivables (`services/receivables_service.py`) | none, reads | summary | selects by order state what the cache counts regardless of it |
| sessions and locks (`database/session.py`) | row locks | begin, lock, commit, roll back | locks of orders, stocks, SKUs, products, holds, keys, bindings; no timeout |
| idempotency middleware (`api/middleware/idempotency.py`) | in-memory markers and responses | get, mark, store | the response is stored before the session commits |
| job queue (`core/jobs/local_queue.py`) | `sys_jobs`, an asyncio queue, counters | enqueue, run, retry, stop | two records of a job, a failing transaction at every await |
| report exports (`api/v1/exports.py`, `jobs/export_jobs.py`) | files and sidecars on disk | request, produce, find, download | a job is found by its tenant's files |
| tenant onboarding (`services/onboarding_service.py`, `tenant_provisioning_service.py`, `owner_credential_service.py`) | registrations, wholesalers, schemas, tokens | signup, verify, provision, set up | two transactions and a bootstrap that commits by itself |
| retailer provisioning (`services/retailer_provisioning_service.py`) | a retailer's users in many tenants, invitations, tokens | register, set up, reset, reissue, revoke | what is read in one statement is written by in a later one |
| approvals and governed execution (`api/v1/platform/p21/adapter.py`, `p22/services.py`) | approvals, decisions, audit; dry runs and requests in memory | create, decide, read; dry run, record, complete | reads, judges and writes in separate statements at READ COMMITTED |
| operator tasks and incident closeouts (`api/v1/platform/p23`, `p24`) | in-memory tasks, closeouts, runbook steps | intake, judge; detect, observe, transition, step | two stores that mirror each other; events in any order |
| authentication, catalog, pricing, imports, other console pages, statements, reports, print, mail, rate limits, governance tooling | | | section 8 |

How they interact.  A route opens a session; the middleware of the tenant
commits it when the response is a success and rolls it back otherwise, after
the idempotency middleware has seen the response.  `CanonicalPaymentService`
is called by `pay_order` and by the confirmation of a declaration; it calls the
hold, the ledger, the binding and `OrderCommandService` for the state of the
order.  `OrderCommandService` calls the inventory and the ledger.  They share
rows, not messages, and all of them lock the order row first.  Exports are jobs
of the queue; its workers run in the server process.  The governed execution
reads approvals through the store's audited read; closeouts materialize their
follow-ups and steps as operator tasks and consult the task queue when they
close.

## 2. What each component must guarantee

* orders and credit: hold, state, payments, binding cache and ledger tell one
  story after every sequence of commands; guards against corrupted data never
  fire; the retailer's account is charged once per order and then only cleared;
* inventory: the aggregate is the sum of the rows, goods are conserved;
* payment requests: the steps of concurrent payments and confirmations amount
  to atomic payments; receipts have no gap; a declaration is decided once;
* middleware: a remembered key takes effect at most once;
* locks: no wait cycle but over catalog rows taken in different orders, every
  request ends;
* jobs: one record per job, bounded attempts, rows and counters that agree
  with what was done, and every job settles unless a fault takes it away;
* exports: a download sends the export it is asked for, as long as the look-up
  by tenant leaves no choice, and never another tenant's;
* onboarding: a setup link leads to a bootstrapped tenant, the verification
  link stays usable until then, an active tenant is never taken over;
* retailers: a copy without a password always has a way to one; an invitation
  is spent once;
* approvals: a verdict has its quorum and is final, the trail tells it, what
  was executed is what was approved;
* tasks: the active tasks are the ones the records owe, peers are raised
  together, a closed incident leaves no task behind but the orphans of its steps
  (section 5).

## 3. The modules

Order lifecycle:

| module | models | correspondence |
| --- | --- | --- |
| `Tenant` | constant data of a tenant | items, total and retailer of an order are written once |
| `OrderState` | `STATE_TRANSITION_MATRIX` | |
| `Inventory` | stocks, reservations, adjustments | one operator per service method; its guards are the 409s |
| `CreditHolds` | holds and binding | `AddToBinding` is the conditional UPDATE with its row count check |
| `Payments` | payments and receipts | a row per idempotency key; `Record` is insert, receipt and batch completion |
| `Ledger` | balances per order and account | `Post` is one balanced entry group |
| `Declarations` | declarations | |
| `OrderCommands` | composes these; `Spec` | one action is one committed request, every write of its handler included |
| `OrderProperties` | invariants, refinement mapping | |
| `CreditAccount` | abstract: an account charged once per order | implemented by `OrderCommands` through `Account == INSTANCE CreditAccount WITH ...` |
| `Receivables` | `get_receivables_summary` | its two tracks as operators |
| `Sums` | sums over finite sets | as a cardinality, so that they can be proved about |

What runs beside it and before it:

| module | models | correspondence |
| --- | --- | --- |
| `RowLocks` | lock sequences of concurrent requests | one step is one lock; all kinds of requests of the lifecycle |
| `PaymentRequests` | payments and confirmations as transactions | one step per statement that reads shared state, locks, inserts or commits; extends `Payments`, whose `Record` is the abstract payment |
| `Idempotency` | the middleware over its in-memory store | a step is what runs between two suspensions |
| `PayRoute` | composes the two above | the header is a cache key and the payment's key at once |
| `JobQueue` | `LocalJobQueue` | a step is the code between two awaits; faults are a constant |
| `Exports` | export jobs, their files and downloads | refines `JobQueue` by what its handler leaves on disk |
| `Onboarding` | signup to owner's credential | a step per commit, and the row lock in between |
| `RetailerCredentials` | registration, setup, reset of one retailer | reads and the commit are separate steps of a session |
| `Approvals` | the durable approval store | open, fetch decisions, take the audit number, write |
| `Executions` | dry run, recorded request, completion | extends `Approvals`; each call is an audited read and then a decision |
| `OperatorTasks` | the task queue | intake with dedup and ranking, an operator's judgment |
| `Closeouts` | closeouts and runbook steps over the queue | one action is one request; the tasks it materializes and resolves are part of it |

`MC*` modules give constants their values for TLC; `*Proofs` modules hold the
theorems (section 6).  Operators marked as mutants state a plausible bug of the
operator after them; no specification uses them.

### What is a step

*Order commands.*  Every handler locks the order row with `FOR UPDATE` and
`populate_existing` before it reads anything it decides on; stocks, hold and
declaration are locked before they are read for a write; the binding is changed
by one conditional UPDATE; all of it is one transaction.  So requests on one
order are serialised and `OrderCommands` has one action per committed request.
A request that is refused, rolled back or a replay writes nothing and is a
stuttering step.  The waits are in `RowLocks`.  Payments read before they lock
(the fast replay path, and the duplicate check of a reference): that is
`PaymentRequests`, and `CommitsAreRecords` says that nothing but an atomic
`Record` comes of it.

*Middleware and queue.*  Code on the event loop is atomic between awaits.
`StoreSuspends == FALSE` says that the awaited methods of the in-memory store
return without suspending; with a store behind a round trip `AtMostOnce` fails
(that is its mutant).

*Onboarding, retailers, approvals.*  A step is one statement, or a run of
statements that no other transaction can tell apart: writes become visible with
the commit, so the writes of a transaction and its commit are one step, and
row locks and unique indexes are the guards.

*Closeouts and tasks.*  One request is one step.  Handlers neither await nor
lock; their routes are plain functions in a thread pool, so this abstracts from
requests that meet inside a handler (section 8).

### Data

Amounts are cents, quantities whole units (the code quantises both before it
stores them); ids, keys, references and hashes are model values; a
declaration's id stands for its submission key and for the reserved payment key
derived from it; movements are kept as the sum of the adjustments; a correlation
id is kept together with its tenant and incident.  `Numeric(12,2)` does not
overflow in any state the properties speak of.

## 4. Runs

| run | distinct states | bounds | question |
| --- | --- | --- | --- |
| `lifecycle` | 234,192 | 2 orders of one retailer over 2 SKUs, one of which they compete for; totals of 2, 2 client keys, 1 declaration, stock up to 2 | do credit, binding, ledger, stock and summary agree after every sequence of commands, and is the binding a credit account? |
| `requests` | 310,573 | 2 transactions at a time, 2 orders, 2 keys, 2 declarations, 5 requests that meet in every way, 2 executions per key | do interleaved payments amount to atomic ones, behind the middleware, with retries and restarts? |
| `locks` | 17,826 | 3 sessions, 5 kinds of requests, 2 SKUs of different products | no wait cycle; every request ends |
| `jobs` | 139,842 | 2 exports of one or two tenants, 2 workers, 2 attempts, crash, shutdown, failing transactions | truthful records, the download of a tenant's only export, every job settles |
| `onboarding` | 8,608 | 2 emails, 2 verification requests, 2 schemas per email | failures at every step, late requests |
| `credentials` | 883,207 | 2 wholesalers, 1 invitation, 2 sessions, 2 passwords | is anybody left without a way in, is an invitation spent twice? |
| `approvals` | 1,648,180 | 1 approval, 4 operators, 2 actions of quorum 1 and 2, 2 sessions, 3 keys, 6 events | quorum, finality, trail, authorised completion |
| `closeouts` | 587,290 | 1 closeout, 1 step, 3 tasks, 2 kinds of steps, a source that answers and one that does not, 1 warning of the backup probe | do queue and records tell one story? |
| `settled_claim`, `shared_product`, `quorum_claim`, `expired_token_claim` | 706, 323, 546, 279 | as above or smaller | a statement of a document or a comment that the code violates (section 5) |

Why the bounds are enough.  Two orders give every sum two summands and every
race over stock its loser; a total of 2 allows a part payment and a completing
one; two keys and a declaration allow three payments of an order, so a credit
sale with a partial and a completing collection occur.  Requests of `PayRoute`
contain one key with two bodies, two keys for one order, and one reference in a
transfer and in a declaration.  Three sessions allow a cycle of three and a
bystander.  Two attempts are one retry, which is where the queue's two records
part.  Two approvals of a quorum of two can miss each other with two sessions;
a third checker decides late.  Three tasks are a follow-up, a step's task and
the one that replaces it; the judgment "completed" stands for what operators do
behind the closeout's back, and the step ends as dismissed by itself.

Bounds in guards are named: `MaxStock`, `DeclarableAmounts`, `MaxExecutions`,
`MaxSchemas`, `MaxEvents`, `MaxTasks`, `MaxCloseouts`, `MaxSteps`; the sets of
inputs (`Requests`, `Calls`, `Executions`, `Probes`, `Judgments`,
`CloseoutLevels`, `QueueEvents`) are constants.

Deadlock is not checked in `lifecycle`, `onboarding`, `credentials`,
`closeouts` and in the claims on them: there everything may be sold, paid,
decided and used up.  Symmetry is used only for safety and only over values
that no constant distinguishes.

### Fairness

`FairLocksSpec`: weak fairness of `Commit`, since a handler that has its locks
runs on; strong fairness of `Acquire`, since PostgreSQL queues the waiters of a
row and wakes them when it is released.  Nothing obliges a session to begin or
to roll back.  The queue is not honoured against sharers: a `FOR KEY SHARE`
locker (the foreign keys of a new order or of a declaration) can join other
sharers while an exclusive locker waits, so the run of `EveryRequestEnds` has
only requests whose waits are for exclusive locks.  Of the others the theorem
`DeadlocksCrossOnCatalogRows` says what a deadlock takes.

`QueueFairness`: weak fairness of every step of a worker that is ready, of the
put after a commit and of the end of a handler: the event loop runs ready
tasks, the database answers, and the queue sets no timeout for handlers, which
is its own assumption that they end.  Crashes, stops and failures are never
obliged; `EveryJobSettles` excuses the jobs they hit.

No fairness is assumed anywhere else, since onboarding, credentials, approvals
and closeouts wait for people.

## 5. Where the code and its documents disagree

With a run that shows it:

1. `shared_product`: `_locked_stock_by_sku_id` (`services/inventory_service.py:87`)
   takes `FOR UPDATE` without `OF` and so locks the catalog product with the
   stock; sorted SKU ids do not exclude a wait cycle between orders over two
   SKUs of one product, against `src/order-state-r1/LOCK-ORDER.md:68`.
2. `settled_claim`: a declaration that completes an order is forced, and the
   batch that completes the earlier cash and transfer rows is skipped
   (`services/canonical_payment_service.py:789`); they stay pending for ever,
   against `repositories/payment_repository.py:266`.
3. `quorum_claim`: an approve below the quorum compares no version
   (`api/v1/platform/p21/adapter.py:1369`): two approves that read no decision
   leave a request pending that has its quorum, against line 1374.
4. `expired_token_claim`: a setup token that expired unused is skipped by the
   look-up (`services/retailer_provisioning_service.py:418`) and counted by the
   unique index: the retailer's next registration ends in a 500, against line 632.

Read in the models, without a run:

* A refused request leaves its in-progress marker (the comment at
  `api/middleware/idempotency.py:170`), and markers never expire: a retry is told
  "already in progress" (line 203) until the process restarts.  Action `Refuse`.
* The dedup key of an operator task contains the source status
  (`api/v1/platform/p23/services.py:258`).  After a runbook event with another
  status the step has a second task, and the first is an orphan that stays in
  the queue when the step is done and the closeout closed: `_materialize_step_task`
  is called idempotent, and section 3.3 of
  `PLATFORM_PRODUCT_P24_INCIDENT_RUNBOOK_CLOSEOUT_CONTRACT.md` asks for every
  linked task to be terminal.  `Orphans` names exactly these tasks, and the
  properties say that there are no others.
* `runbook_step_owed` is accepted on a closed or withdrawn closeout; the contract
  says a step is owed on non-terminal ones.  Action `OweStep` has no such guard.
* `_find_job_metadata` (`api/v1/exports.py:436`) compares the tenant of a sidecar
  and never the job.  Once a second export of a tenant has been carried out, the
  one whose sidecar comes first in the directory is sent for both, with its row
  count in the status, and the other can no longer be downloaded, against the
  description of the route (line 316, "Download the generated CSV/XLSX file for
  a completed export").  The first may even be an export that is recorded as
  failed, since only its completion failed.  `Found` is the set of candidates;
  `LoneExportIsDelivered` states what remains true.
* `_severity_for` (`p23/services.py:302`) says that severity is only raised; a
  repeated event recomputes it from the new request and may lower high to medium.
* `p24`: source and warning of a closeout are written only at detection, so one
  opened with an unknown source or a warning can be withdrawn or expire, and can
  never be closed; the flag mirror is written on terminal closeouts as well.
* A return posts a refund of the total in cash however the order was paid and
  does not reverse the order's entries (`services/ledger_service.py:319`), so an
  uncollected credit order refunds cash nobody paid.  `LedgerMatchesPayments`
  states what is posted.
* The credit track of the receivables summary loses a credit order when it is
  fulfilled; `DriftIsDeliveredCredit` says that its drift is exactly this.

Behaviours a reader may not expect, with no document against them.
`CreateOrder` compares with on-hand, not with available stock.  `AdjustStock`
may go below the reserved quantity and leave a paid order that can be neither
fulfilled nor cancelled until goods are added.  `create_order` checks its
foreign keys in the order of the request, which can form a cycle with a command
over the same SKUs, and so can `update_sku`, which writes the other units of a
product after its own (`OutOfOrder`).  A restart leaves pending and
running jobs behind and `stop` drains nothing.  A
retried onboarding bootstraps a second schema.  A commit that fails after its
response was stored is replayed as a success for 24 hours.  `expires_at` of an
approval is never enforced, and an approved request stays in the index that
keeps its maker from asking again.  A completed governed check may be repeated.
A registration that overlaps a setup or a reset may keep an old hash, so that
the retailer's active copies disagree and later registrations are refused until
the next reset.  A wholesaler's edits of the tenant user are read by the
credential code as facts: activating a pending copy makes its placeholder look
like a password, deactivating every copy of a verified retailer leaves neither
reissue nor reset, and a deleted copy makes every setup and reset fail.  The
gate mirror of an operator task is refreshed only by another event, and none
comes for an approval that has been decided: its task can be dismissed, never
completed.

## 6. Proofs

TLC checks small instances; the theorems hold for every value of the constants
under the named `ASSUME`s of the modules: finiteness, positive totals, disjoint
key sets, null values apart from the others.  No theorem assumes anything else.

| module | proves | argument |
| --- | --- | --- |
| `OrderProofs` | `TypeOK`, `ReservedIsOwned`, `ReservationsFollowOrder`, `StockConserved`; `HoldFollowsOrder`, `BindingIsExposure`, `LedgerMatchesPayments`, `NoIntegrityRefusal`, `DriftIsDeliveredCredit`, `ImplementsCreditAccount` | `StockInvariant`: the aggregate changes by an order's quantities only because all its lines are reserved or none, and that is known only from its state. Sums change by the difference at the one point where the function changes (`SumChange`). `CreditInvariant` is `TypeOK`, the contract and the ledger of every order (`HoldOK`, `LedgerOK`) and the binding as a sum: a command moves one order, so a sum over the orders moves by that order's term (`CountedMoves`), the others stay, the binding moves by that order's delta. The contract is what makes each guard find what it expects, so the three are proved together. The refinement shows each command to be a charge, a clearing or a stutter. |
| `RowLocksProofs` | `CyclesCrossOnCatalogRows` | The code does not exclude deadlocks (`shared_product`), so the theorem says what every one of them takes. All requests take their locks in one numbering, and a row has one number but for the product of two units and for SKU rows visited out of order (`OnePlace`). In a set of sessions that all wait for each other, the one that waits at the greatest place waits for a session that took the row at a smaller one, so the row is one of these. `LocksType` is the invariant. |
| `PayRouteProofs` | `AtMostOnce`, `WorkIsRemembered` of the middleware; that the payment route implements the middleware (`RouteImplementsMiddleware`); `RouteTypeOK`, `HoldIsUnpaid`, `ReceiptsHaveNoGap`, `DecidedOnce`, `CommitsAreRecords` | The middleware's two are not inductive alone: an execution with an open session is the only one of its key and none has committed (`OneExecution`, `CommittedIsClosed`); between look-up and marking nothing else runs (`MarkingIsAlone`). The route's are about its row locks, `TransactionInv`: a lock has one holder (`LocksAreExclusive`), two sessions that have written differ in key and reference (`WritingAlone`), and what a session has read under its locks is still so when it commits (`Prepared` in `SessionOK`; `DecisionOK`). So each commit is the one atomic `Record` that `Payments` describes. The sums of payments are those of `OrderProofs`. |
| `JobQueueProofs` | `OneRecord`, `AttemptsBounded`, `JobRecordsAgree`, `LoneExportIsDelivered`, `ExportTypeOK`, and that exports are jobs | `RecordInv`: an unknown job has no record anywhere, a record that waits may still be started, an idle worker holds no job. `JobRecordsAgree` needs two more: a job that was carried out without trouble has no record left that could start it again (`TruthInv`), and the counters move with the queue and the busy workers until nobody moves at all (`CounterInv`). What is proved of `QueueSpec` holds of `ExportSpec`. The files are as the handlers left them (`FileWritten`): a completed export has one, and nobody has one who was not carried out. |
| `OnboardingProofs` | `SetupLeadsToATenant`, `UsedLinkLeftASetupToken`, `ActiveIsForever`, `OnboardingTypeOK` | A request that provisions holds the row from its claim to its first commit, so the code it found free stays free. The type invariant also says that a lock is held on the row a request works on, which needs that an idle request has none (`Holds`). |
| `ApprovalsProofs` | `ApprovedByQuorum`, `VerdictIsFinal`, `CompletedIsAuthorised`, `AuditTellsTheState`, `ExecutionsTypeOK` | The invariant relates what a call has read to the rows as they are: an equal version means the row is the one read, and the voters read are voters still. Finality is what carries an execution's authorisation on. The audit trail: a vote that finds the version it read adds one voter and logs itself with the verdict it reaches, any other write logs an event of no decision (`VoteTells`, `NoVoteTells`). |
| `RetailerCredentialsProofs` | `NobodyIsStranded`, `InvitationsAreSpentOnce`, `CredentialsTypeOK` | What a session has read may be stale at its commit; everything it relies on only grows: mapped copies, the state of the email, edits. |
| `CloseoutsProofs` | `CloseoutsTypeOK`, `PeersAreRaised`, `TasksFollowTheirRecords`, `ClosingLeavesOnlyOrphans` | `CloseoutsInv` adds what the dictionary of active keys gives: no two active tasks have the same key (`KeysDiffer`), so a task that a new one has replaced differs from it in its source; and no gate holds up the completion of a closeout's task (`TasksAreShaped`). A ranking raises its correlation whatever it was before and touches no other (`RankingRaises`). Every handler is one of three steps for the queue: it files an event (`UpsertingFiles`), settles a task (`MovingSettles`) or leaves it alone, and a lemma each says what that keeps. |

`CloseoutsAssumption` says, beside the types of the constants, that only the
closeouts produce the two task types that are theirs: it is what
`p24/__init__.py` and `p23/sources.py:46` say of them, while the intake route
itself would take an event of any type (section 8).

Every invariant and every action property of the passing runs is proved, but for
`NoWaitCycle`: it is false of the code in general, and TLC checks it for the
requests of the run `locks`, where the theorem leaves no cause for a cycle.  TLC
alone checks the liveness properties `EveryRequestEnds` and `EveryJobSettles`,
which are beyond the prover, and refutes the claims of the runs that expect a
violation.

## 7. Plan

Done: everything above.  What a continuation would take up, in this order:

1. the owner's password reset with its fan-out over tenants
   (`services/password_reset_service.py`, `owner_credential_service.py`): its scan
   may race a setup, per-tenant savepoints may fail one by one, and the two lock
   copies in different orders, against the docstring that passwords never diverge;
2. product and customer imports (`services/import_service.py`);
3. the handlers of p23 and p24 at the granularity of thread switches.

## 8. Not modelled, and why

* Authentication, permission checks, token contents: the models start where a
  request has passed them.
* Catalog, pricing and imports: validation of rows.  What orders see of them is
  kept (`is_active` of a SKU, the SKUs of a product in `RowLocks`).
* Other pages of the platform console (p17 to p19, p25, tenant lifecycle,
  feature flags): single writes of one operator with an audit row.
* Statements, reports, print: reads.  Mail and notifications: output.  Rate
  limits and metrics: counters that refuse requests, a stuttering step.
* `scripts/bootstrap_tenant_schema.py` and the migrations: DDL; `Onboarding`
  takes the bootstrap as one step that commits by itself or fails.
* `src/harness-governance`: command-line validators of documents and test
  environments, outside the running system.

Within modelled components: the generic `apply_transition`, which refuses every
target but `voided`, and no route asks for that one; order items without a SKU
and payment histories that only old data has; soft deletion of orders; bindings
without a tenant user from before the unified credential; conflicts of phone
numbers and emails, which refuse without writing; suspended wholesalers, who
cannot invite; the memory mode of the approval store, which is for tests;
owners, notifications, audit rows and redaction of tasks and closeouts; ids that
a caller chooses for a new closeout or step (a reused one overwrites the stored
record); the task states `waiting_on_*`, `expired` and `failed`, which no caller
asks for; events of the two closeout task types that somebody else pushes into
the queue, which the contract reserves to the closeouts; races inside a handler
of p23 or p24, whose routes a thread pool runs over dictionaries without a lock.
