# TexQtic: TLA+ models and proofs

TexQtic is a multi-tenant B2B trade platform: a Fastify and Prisma server over
PostgreSQL (`src/server`) with a React client. This directory holds models of
the server's own logic: what may happen to a trade, an escrow, an approval, a pool, an order or a
session when requests race, fail half way or arrive in an unexpected order.

## 1. Inventory

Paths are under `src/server/src/` unless they begin with `prisma/` or `scripts/`.

| part | state | operations | what is hard | what makes it correct |
|---|---|---|---|---|
| Lifecycle registry and state machine (`services/stateMachine.*`, `scripts/seed_state_machine.ts`) | `lifecycle_states`, `allowed_transitions` (written by the seed only), four log tables | `transition` | callers pass the source state they read earlier; the log is written here and the entity elsewhere | only declared edges, never out of a terminal state, two people where the edge says so |
| Trade and escrow transitions (`services/trade.g017.service.ts`, `services/escrow.service.ts`, their tenant and control routes) | `trades`, `escrow_accounts`, lifecycle state column | `transitionTrade`, `transitionEscrow` | one transaction over six to ten statements; READ COMMITTED; row and unique-index waits; a failed statement aborts everything | row and log agree; answers tell what was committed |
| Maker-checker (`services/makerChecker.*`, `routes/internal/makerChecker.ts`) | `pending_approvals`, `approval_signatures` | create, sign, replay | statements commit one by one; replays and signatures race; approvals expire | signer is not the maker; decided once; replayed once |
| Escalation ledger (`services/escalation.service.ts`, its routes, migration g022) | `escalation_events`, append-only | create, upgrade, resolve, override, freeze query | status never changes in place: what is open is a query over chains | who may thaw, lineage of a chain |
| Sanctions (`services/sanctions.service.ts`) | sanction rows | org and entity checks | checked once, may appear between check and write | a sanctioned party makes no progress |
| Database context (`lib/database-context.ts`) | the transaction and its session settings | `withDbContext` | `makeTxBoundPrisma` flattens nested transactions into one | all or nothing |
| Settlement and escrow ledger (`services/settlement/`, `recordTransaction`) | `escrow_transactions`, append-only | preview, settle, record | debit, then three transitions; balance is a sum read before the insert | no negative balance, no debit without release |
| RFQ to trade (`createTradeFromRfq`) | `rfqs`, `trades` | convert | check then insert, unique index as backstop | one trade per RFQ |
| Orders (`routes/tenant.ts`) | carts, orders, `order_lifecycle_logs`, `morgue_entries` | cart and item routes, checkout, status change | state is read from the log; cart checked before it is closed | one order per cart; status, log and morgue agree |
| Pool demand (`services/networkPool.service.ts`, `networkPoolDemandLine.service.ts`, `issueRfq`) | pools, members, demand lines, snapshots, the RFQ | create, open, join, edit lines, lock, issue | lines are read, locked by a count, copied | a line is tendered once, as it was locked |
| Pool award (`services/networkPoolRfq.service.ts`) | invites, quotes, award approvals | invite, quote, accept, reject, request, approve | status read, then updated by id; the pool's state passed as a literal | two persons; exactly one accepted quote |
| Invoices (`services/invoice.service.ts`, `networkInvoice`, `networkSettlementSplit`) | invoices, splits | transitions, split creation | update and log are separate statements | history matches state; splits once |
| Refresh tokens (`routes/auth.ts`) | `refresh_tokens` families | issue, rotate, revoke | rotation race against replay detection | one live token per family; a replayed family stays dead |
| AI budget (`lib/aiBudget.ts`, `services/ai/inferenceService.ts`, `services/passportAssistant.ts`, `routes/tenant/documents.ts`) | monthly usage meter, reasoning log | check, call, charge, replay by key | check and charge are apart, in an order that differs by request; retries; the month changes | bounded overshoot; a retry is charged once; the meter covers the log |
| Vector queue (`services/vectorIndexQueue.ts`) | in-process bounded queue | enqueue, tick | overlapping ticks, full queue, restart | order per source |
| Event log and projections (`lib/events.ts`, `events/`) | event log, cart projection | store, project, replay | duplicates and order | replay gives the same projection |
| Provisioning, integrations, control plane, client | various | mostly one-row writes, outside services, rendering | | |

How the modelled parts call each other: a route opens one transaction and builds
the services over it; the transition service asks the escalation ledger whether
the entity is frozen, then hands the request to the state machine, which asks
sanctions and the ledger again, consults the registry and inserts the log row.
The service updates the entity when the answer is APPLIED and asks the
maker-checker service for an approval when it is PENDING_APPROVAL. Signing and
replaying an approval come in through internal routes; a replay goes straight
to the state machine.

## 2. Modules

| module | models | kind |
|---|---|---|
| `StateMachine` | the decision of `StateMachineService.transition`, a pure function of the request and the registry | operators |
| `LifecycleSeed` | the TRADE, ESCROW and ORDER rows of `scripts/seed_state_machine.ts`, the POOL rows of their migration | data |
| `GovernedRecords` | log, approvals, stops and callers shared by the next two | shared state |
| `EntityLifecycle` | one transition request, statement by statement, any number at once | component |
| `LifecycleRegister` | what the pipeline promises: a register of states with its history | abstract specification |
| `MakerChecker` | `signApproval` and `verifyAndReplay`, statement by statement | component |
| `GovernedEntity` | the two components over the same tables | composition |
| `ApprovalRegister` | what maker and checker promise each other | abstract specification |
| `Settlement` | `settleTrade` and `recordTransaction` over a trade and its escrow | component |
| `Escalation` | the escalation ledger, its triggers and both routes | component |
| `FreezeRegister` | what the freeze query promises | abstract specification |
| `PoolDemand` | a network pool from its creation to the RFQ | component |
| `PoolAward` | bidding on the RFQ, its award and the order | component |
| `Tender` | what bidders, maker and checker are promised of an award | abstract specification |
| `RefreshTokens` | login, refresh, replay detection, logout | component |
| `TokenFamilies` | what a login promises: one live token, exchanged or gone for good | abstract specification |
| `Ordering` | carts, checkout and the status of orders | component |
| `AiMeter` | the AI budget of a tenant and the requests that spend from it | component |
| `Escalation_proofs`, `GovernedEntity_proofs` (with `EntityLifecycle` and `MakerChecker`), `Settlement_proofs`, `PoolDemand_proofs`, `PoolAward_proofs`, `RefreshTokens_proofs`, `Ordering_proofs`, `AiMeter_proofs` | theorems | proofs |
| `MCEscalation`, `MCTrade`, `MCEscrow`, `MCMakerChecker`, `MCGoverned`, `MCSettlement`, `MCPoolDemand`, `MCPoolAward`, `MCRefreshTokens`, `MCOrdering`, `MCAiMeter` | constants and symmetry sets of the runs | model checking |

### EntityLifecycle

A request occupies a slot of `tx` and its `pc` names the statement it runs next:

    Begin  load the row, resolve its state key       (transitionTrade, steps 1 and 5)
    gate      FreezeGate       checkEntityFreeze     (step 2)
    sanction  SanctionCheck    guardrails, sanctions (transition, steps 1 to 3.5a)
    govern    Govern           freeze, registry, verdict, log insert (3.5b to 14)
    update    UpdateEntity     trade.update          (APPLIED)
    request   RequestApproval  createApprovalRequest (PENDING_APPROVAL)
    commit    Commit           audit row, COMMIT
    reply     Reply            the HTTP answer

What a transaction has written sits in the request (`rows`, `update`, `draft`)
until `Commit` publishes it. `UpdateEntity` waits for the row lock, and
`RequestApproval` for an uncommitted row in the same slot of the partial unique
index; a committed row there makes it fail, and since a failed statement aborts
the PostgreSQL transaction, the audit insert that follows fails too and the route
answers 500. `Lose` is a crash, a client that goes away or a transaction timeout,
at any stage. `Block` and `Unblock` are sanctions and freezes that come and go
in transactions of their own.

The freeze gate, the reason check and the AI check of the service run between
the load and the state key lookup; none of them writes, and the row is read once,
so `Begin` takes the state key together with the row. `clear` is a history
variable: the kinds of stop that were absent at some moment since `Begin`. It
serves only to state `BlockedThroughoutHasNoEffect`, and no action's guard reads it.

### MakerChecker

The internal routes build the service over the base client, so each statement
commits by itself. Only the marker check of a replay is a transaction
(`ReplayLock`, `ReplayMarker`), and it ends before the replay writes
(`ReplayFreeze`, `ReplaySanction`, `ReplayApply`). The payload hash covers
columns that nothing updates, so its recomputation always succeeds and is left
out. No job moves an approval to EXPIRED: time passing is `Expire`, and the two
calls compare the clock, as the code does. `Submit` stands for a committed
approval request; in `GovernedEntity` the real pipeline takes its place.

### GovernedEntity

Pipeline and approval service are both extended, over the variables `log`,
`approvals` and `stop` that `GovernedRecords` declares once for both. A step is a
statement of a request (`RequestStep`), of a signature or a replay (`SigningStep`),
or a stop that comes or goes and is noted by everyone who is open (`StopStep`).
What belongs to the service alone carries its own names there: `SigningInit`,
`SigningNext`, `SigningSpec`, `signingVars`.

`ImplementsApprovalRegister` maps the approvals to `ApprovalRegister`: a row to its
maker and where it stands, the signatures to the votes of their approval, the
replay's log rows (`Markers`) to how often it was acted on. A signature and the
status it leads to are two statements of the code and two steps of the register.
`RowKeepsToPipeline` says what becomes of the entity meanwhile: its row holds what the
pipeline logged last, whatever has been replayed since.

### Settlement

One trade, the escrow account linked to it, and its ledger. A settlement runs
`FreezeTrade`, `Gates`, `CheckBalance`, `CheckReference`, `Record`,
`Acknowledge`, `UpdateTrade`, `Release`, `UpdateEscrow` (or `RequestRelease`),
`Close`, `Commit`; a ledger entry recorded by a tenant joins at `CheckReference`
and ends after `Record`. What a transaction has written sits in its slot
(`rows`, `tradeTo`, `escrowTo`, `draft`). The three transitions run the pipeline
of `EntityLifecycle`; here their reads and their verdict are one step, the wait
for the row lock and the update another. `MoveTrade`, `MoveEscrow` and `Decide`
stand for the transition routes and the approval service. Amounts are counted in
the smallest unit of the currency; the currency and the linkage of trade and
escrow are checked against columns nothing changes and are left out. A repeated
call is a new request with the reference of an old one. `before`, the ledger as it
was when the request began, is history: only `ReferenceOnce` and `SettlementIsCovered`
read it, the first to say that a reference in it is not inserted again, the second
that the amount was there at some moment since (`LedgerAt`). Both so hold of requests
that overlap, and say the usual thing of those that do not. `SettledOnlyHere` states what
of a registry makes settlements the only way to a release.

### Escalation

Each operation reads one immutable row and inserts one, so each is one atomic
action. `TriggerAccepts` is the BEFORE INSERT trigger, `ClosedRow` and `Holding`
the freeze query. The realm of a row records which route wrote it.

### PoolDemand and PoolAward

Both follow one pool, the first until the RFQ is issued, the second from there.
The handlers read, check and then write by id in one READ COMMITTED transaction
(`openNetworkPool` reads even before it), so each is two actions: `Begin...` for
the reads and checks, and one named after the handler for what it writes, from
what it read, with the commit. Unique indexes are guards of the second; what
they refuse, and what the state machine denies, is rolled back by `Abort`.
`lockDemandLinesForRfq` has a step more, since it reads the lines and the
snapshot version in two statements.

An effective EXPIRED is worked out at each read, so `late` is a set beside the
status columns. `overlaps` counts the requests that began while another was
open: it bounds the instances and lets a property speak of requests that do not
overlap (`overlaps = 0 => ...`); no guard looks at it but the bound.

Three things have no code and are done from outside: a pool from OPEN to
AGGREGATING (`StartAggregating`), a line from DRAFT to ACTIVE (`ActivateLine`),
allocation (`Allocate`). `PoolAward` takes the G-021 constraint
`pending_approvals_entity_type_check` as the governance record says it was altered,
to accept POOL; the migrations allow TRADE, ESCROW and CERTIFICATION only.
Lifecycle log rows of invites and memberships repeat what the rows say.

`ImplementsTender` maps quotes to offers and approvals to motions. Its step
formula speaks of steps with `overlaps' = 0`: what a handler checked first and
wrote later is one step of the tender as long as nothing came in between.

### RefreshTokens

A refresh is `BeginRefresh` (the lookup), `Claim` (the conditional update takes
the row lock), `Rotate` (the successor, and the commit); who loses the claim or
comes with a spent token revokes the family. That UPDATE sees the rows
committed when it starts (`SeeFamily`) and waits for those locked by a rotation
(`RevokeFamily`). `missed` records the tokens such an UPDATE could not see. Logout
and the removal of an admin wait for the same locks. `ImplementsTokenFamilies`
maps a family to the tokens of it that are neither rotated nor revoked nor their
owner gone: a login starts one, a rotation exchanges its token, whatever revokes closes it.

### Ordering

The carts and orders of one user. The state of an order is the latest row of its
log, ordered by the time of the insert and not of the commit; `Places` are the
positions a new row may take. A request that lost the item row it means to
write is void and can only fail.

### AiMeter

A request of one of four kinds occupies a slot; `Begin` fixes its month and, where
it has an idempotency key, looks for a row that answers it. `CheckBudget`,
`CallModel` and `Charge` follow, the call before the check for `assist` and
`extract`. Tokens and cost are proportional and the limit is one of tokens, so the
meter counts tokens. A refused, failed or lost request is `Fail`: nothing
of it stays, and for the passport assistant, which charges after its answer and
ignores errors, that includes a charge that is lost. `began`, the length of the log when a
request looked for its key, is history: `DayPasses` reads it to say that no
request stays open for a day, and `ChargedOncePerKey` to order two requests. Rows are
kept and grow old in the order of their commits.

## 3. Runs

| run | instance | shows |
|---|---|---|
| `Escalation` | 3 rows, a trade and an organisation | lineage of chains; a freeze ends only by an admin's closing row; the ledger implements `FreezeRegister` |
| `TradeSerial` | 1 slot, every registered target and an unregistered one, all AI flags, 6 log rows | the pipeline implements `LifecycleRegister`; no trade gets past the first edges that want a second person, under the seed the compliance gate, through the deployed routes |
| `TradeRace` | 2 slots, 5 targets, 3 callers, 4 log rows | row and log agree, answers are durable, blocked requests without effect |
| `Settlement` | one of two registries for a whole behaviour: the seeded one with 1 request at a time, every kind of settler, 2 references and 3 ledger rows; one in which settlements go through with 2 slots and 2 ledger rows | no reference that was in the ledger when its request began is inserted again; a settlement debits no more than the account held at some moment since it began; no release without a debit, no closing without a release, blocked settlements debit nothing |
| `EscrowLive` | 2 slots, a plain and a maker-checker edge, 2 log rows | every request ends |
| `ApprovalRace` | 2 sessions, 1 approval, 2 signers | countersigned replays, signed decisions, blocked replays |
| `Governed` | 1 request slot, 1 session, 2 approvals | the two-person rule over both components; the row follows the pipeline and no replay; one call at a time, pipeline and service implement `ApprovalRegister`: an approval is decided once and acted on once |
| `PoolDemand` | 3 lines, 1 other organisation, 2 quantities, 3 slots, 3 overlaps | a line is in one snapshot at most; without overlaps a snapshot is a faithful copy and the RFQ the latest one |
| `PoolAward` | 3 suppliers, 2 users, 2 approvals, 2 slots, 2 overlaps | nothing is awarded on one person's word; without overlaps one quote is accepted, the award implements `Tender`, the pool follows the registry |
| `RefreshRace` | 1 account, 4 tokens, 3 slots | single use, the end of a replayed family; the rows implement `TokenFamilies`, so that a closed family stays closed |
| `Ordering` | 2 items, 2 carts, 2 orders, 3 slots, 2 overlaps | log and morgue agree; without overlaps a cart is sold once and status, morgue and log say the same |
| `AiMeter` | limit 2, calls of up to 2 tokens, 1 key, 2 slots, 2 months, 2 log rows | the limit is passed by what is open at once and no more; the meter covers the log; a retry is not charged again |

Noticed on the way. In these cases the code does something other than a comment,
a document or a reader would expect; the models do what the code does, and the
properties are stated so that they hold of it:

* Of two concurrent requests judged from the same state, the later update
  overwrites a terminal state the earlier one entered (`trade.g017.service.ts`,
  the update in `transitionTrade`); the log shows both moves.
* The index `escrow_transactions_reference_id_idx`, the backstop of the
  idempotency check, is not unique: two concurrent requests with one reference
  both insert.
* The row lock of a replay's marker check is released before the marker is
  written: two concurrent replays both write a log row.
* A replay writes the lifecycle log and never the entity's row: the row keeps to what
  the pipeline logged (`RowKeepsToPipeline`).
* `createEscrowAccount` and the escrow created for a trade look up the state
  ESCROW `DRAFT`, which neither the seed nor the migrations register.
* The seed makes ESCROW `NOT_APPLICABLE` terminal and gives it an outbound edge.
* An approval requested by an administrator has no maker user id, so the state
  machine answers its replay with PENDING_APPROVAL.
* A row the freeze query counts as resolved can be closed again, because closing
  inserts a child and the row's own status column stays OPEN.
* `createEscalation` holds SYSTEM_AUTOMATION to levels 0 and 1; an upgrade, whose
  actor type comes from the body, does not.
* A second request for an edge whose approval is active is answered 500, not
  PENDING_APPROVAL: the caught unique violation has aborted the transaction.
* Two concurrent signatures that both read REQUESTED both decide
  (`DecisionIsFinal` of `MakerChecker`, checked with two sessions, shows it).
* Two concurrent settlements with different references overdraw the account: each is
  covered by the balance it summed, and not by what is left once the other commits.
  With one request at a time that cannot happen (`SerialSettlementsAreCovered`).
* The tenant settlement route injects no sanctions service: a settlement of a
  sanctioned tenant debits. `DebitRanUnblocked` therefore excepts that route.
* A freeze on the organisation stops the transitions of a settlement and not its
  debit; a refused transition leaves the debit and the answer APPLIED.
* Through the control route a MAKER or CHECKER passes the maker-checker
  pre-check, debits, and is then told PENDING_APPROVAL with the debit committed
  and no approval row: a retry answers DUPLICATE_REFERENCE.
* `rejectQuote` racing `approveAward` leaves an ACCEPTED RFQ without an accepted
  quote, and two approvals of different quotes may leave two; AD-1 of
  `governance/TEXQTIC-NC-PHASE1-POOL-RFQ-AWARD-SERVICE-001.md` wants exactly one.
  An approval and its rejection decided at once overwrite each other.
* A quote that read the RFQ as ISSUED sets an ACCEPTED RFQ back to QUOTED; an
  award request that read the pool as CLOSED_FOR_BIDS sets an ACCEPTED pool back.
* An expired award approval stays REQUESTED and keeps the only slot: no later
  award can be requested.
* Under the seed `acceptQuote` never succeeds, because QUOTED to ACCEPTED needs a
  checker and it passes none.
* Demand lines activated between two locks go into a second snapshot; the RFQ is
  issued on it alone, and the lines of the first stay LOCKED_FOR_RFQ. An edit
  or a cancellation that read a line before the lock overwrites it after.
* An `openNetworkPool` that read DRAFT resets a pool that has moved on to OPEN.
* A rotation that commits while its family is being revoked leaves a live token;
  a logout that waits for a rotation of its token leaves the successor alive;
  two tabs that refresh at once revoke the family of an honest user.
* Two concurrent checkouts make two orders of one cart, and an item added
  meanwhile goes into a CHECKED_OUT cart. Concurrent status changes can log
  FULFILLED and CANCELLED of one order and bury it twice in one state.
* A change of quantity is not held to the minimum order quantity, and an item
  refused for it leaves the cart that was created for it.
* `enforceBudgetOrThrow` is to run "BEFORE making AI call" (`aiBudget.ts`); RFQ
  assistance, the supplier profile and the extraction of a document call the
  model first, and what a refused one took is in no meter.
* An idempotency key is not tied to the task, and a replay does not report the
  error of the call it repeats: the second request of a failed call succeeds.
* The cart projection is not modelled because it never applies as shipped: an event
  takes its payload from the audit row's `afterJson`, the cart routes write
  `metadataJson`, and the projector refuses an event without its fields.

### Bounds

`Targets` and `AiChoices` narrow what a request may name, `ApprovalIds` the
approvals, `MaxLog` the length of an entity's history at which no request begins,
`Ids` the escalation rows and `SigningAs` the principals who sign. They bound
the instances and stand for nothing in the code. The hazards need two concurrent
actors on one row, so two slots suffice; four log rows lead a trade from DRAFT to
the compliance gate, where the first maker-checker edge is, and six leave room
for a detour; three ledger rows hold a deposit, a debit and the settlement that must
not follow it, and two rows are enough for two requests that race for one
reference; two approval ids let one approval follow another on the same edge, and
three escalation rows make a chain of an open row, its upgrade and a closing row of
either. Several entities never meet in a guard, so that one is
enough for the races. `MaxOverlaps`, `Lines`, `Orgs`, `Quantities`, `Suppliers`, `Users`,
`Tokens`, `Items`, `MaxQty`, `Carts` and `Orders` bound the later modules: two overlapping
requests are what each of their races takes, and a third slot or overlap lets
another request pass between the two; three suppliers are an accepted quote, a
rejected one and one still open; two approvals let a rejected award be asked for
again; four tokens are a family of four generations or two of two; the second
item has a minimum of two, so that both sides of the minimum are met. `Limit`, `MaxTokens`,
`Preflight`, `Keys` and `Months` size the budget: calls cost up to the whole limit, two overlap on its
last token, a key is tried again before and after the first attempt is charged, and
a request may be charged to a month that is over; two log rows are a charge and its retry. `Permutations` of approval ids, slots, sessions, admins,
suppliers, users, lines, tokens and row ids are sound where used, since these runs check no liveness.
Deadlock is not checked, since each instance legitimately stops when a bound is reached.

The settlement runs start with the pair in the states the settlement's unit tests
use (`SETTLEMENT_PENDING`, `RELEASE_PENDING`) and in earlier ones. Under the seed
both edges of a settlement need a second person and the settlement passes no
maker, so it never gets through; under the registry those tests
mock the two edges need one person, and a settlement reaches the release and the
closing. `MCSettlement` has both, the first as an instance of `Settlement` of its own. `Amounts`, `Entries`, `Settlers`, `Blocks` and `MaxLedger` bound the
instances.

`Governed` uses tenant signers only, one request and one session; races inside
each component are covered by the component's own runs, and what the composition
adds is the path from a request over its approval to the replay's log row.

### Fairness

`EscrowLive` assumes that each statement of an open request eventually runs
(weak fairness of `Progress`: the event loop and the database make progress) and
that a waiter for a row lock or an uncommitted duplicate is eventually served
(strong fairness of `UpdateEntity` and `RequestApproval`: PostgreSQL queues
waiters in order). `Lose` gets no fairness: the liveness property may not rely
on a timeout coming to the rescue.

## 4. Proofs

All theorems hold for every value of the constants that satisfies the named
assumptions: `None` differs from every state, user, admin and approval id;
the registry is a set of edges with at most one edge between two states and no
loops, over registered states; bounds are natural numbers.

* `Escalation_proofs`. `StepInserts` shows that every action inserts one row
  under a fresh id. With it, `LineageInvariant` is inductive together with the
  type invariant, `RowsOnlyGrow` gives the freeze arguments, and
  `LedgerImplementsRegister` maps an OPEN row of freeze severity to a hold and
  a closing child to its lifting.
* `GovernedEntity_proofs` has three parts. Of the pipeline (`Spec`) the invariant is
  `TypeOK` with `AllStaged`: a request carries exactly the writes of its stage, and an
  answered one carries none. `LogStateAgreement` needs it because `Commit` moves row
  and log together: without it a request could bring a log row and no update.
  `ApprovalsAreSingle` strengthens `OneActiveApproval` to the drafts of open
  transactions (`DraftsApart`): a draft never shares its slot with an active row or
  another draft. `BlockedHasNoEffect` rests on `ClearKept`, that a check once passed is
  in the request's history. `NoneGetsPastSecondPerson` rests on `Reached`: rows, log and whatever
  an open request has judged stay in the smallest set of states that contains the
  initial one and is closed under the edges one person may take (`WithinReach`).
  `SerialLifecycle` assumes a single slot; its
  invariant `Fresh` is that the state a request judged is still the state of its row,
  which is what fails when requests race.
* Of the approval service (`SigningSpec`) the invariant is `SigningTypeOK` with `Known`:
  sessions name existing approvals, one between insert and status update has its
  signature stored, signers are not makers, and approvals exist only for edges that
  need two people. `ReplaysCountersigned` follows from the separation check
  at the insert and the fact that the maker of a row never changes.
* Of the composition (`GovernedSpec`) the invariant `Together` joins the two and adds that every log
  row an open request is about to commit was rightly judged (`AllRightful`). Each step of one part
  leaves the other's part of it alone, so that the step lemmas of both are reused. `TwoPersonRuleHolds` is
  then proved for every registry and any number of requests, signatures and
  replays. `DecisionsAreFinal`, `ApprovalsReplayedOnce` and `PromiseIsKept` assume one signature
  or replay at a time (`OneCall`), and any number of transition requests beside it: what a call has
  read of its approval is then still so when it writes (`SignsUndecided`, `ReplaysUnreplayed`,
  `ReplaysApproved`). `PromiseIsKept` maps each step of the composition to one of
  `ApprovalRegister` or to none: the commit of a drafted approval asks, `SignInsert` signs,
  `SignStatus` decides, a replay's insert acts. `PromisesHoldTogether` gives seven of the
  invariants of the two parts, proved above for each alone, for the composition: what one
  part writes of the shared tables disturbs none of the other's.
  `RowFollowsPipeline` takes from `AllStaged` that a request with an update carries the log
  row of it, so that `Commit` moves both; a replay appends a row that `RowOf` passes over.
* `Settlement_proofs`. The invariant is `TypeOK` with `AllTracked`: the freeze checks
  a request has passed left their mark in its history, its ledger row is written
  only after them, under a reference that was not in the ledger when it began, a state it
  is about to write has been found in the registry, and it closes the trade only beside the release.
  `DebitsRunUnblocked` follows; it says nothing of stops placed after the check, which the
  code does not look for again. So does `ReferencesAreOnce`. `SettlementsAreCovered` adds the ledger
  length at which the balance was checked (`AllCovered`), which stays a witness because the ledger only grows;
  with one slot the ledger is still the one the request began with (`Current`), and
  `SerialSettlementsAreCovered` gets the plain statement. `Balance`, a fold over
  the ledger, is a value in these proofs and is never unfolded. `ReleasesArePaid` and
  `ClosingReleases` assume `SettledOnlyHere`, which both registries of the
  run satisfy (TLC evaluates `BothRegistries`).
* `PoolAward_proofs`. `AwardTakesTwoPersons` assumes of the registry only that it
  does not apply QUOTED to ACCEPTED for one person (`AwardTakesTwo`). The invariant
  adds that every open request carries what its first step checked
  (`Promises`): one that approves an award names an existing approval and a
  checker other than its maker, and no step changes the maker or quote of one.
  What is said of requests that do not overlap rests on `SerialWhileAlone`: while
  no two have overlapped there is at most one open, and all it has read still holds (`Read`), with
  the coherence of pool, RFQ and quotes. That makes `AwardsAreCoherent`,
  `AwardIsATender` (each write is a step of `Tender`, everything else a stutter; where
  `MaxOverlaps` is 0, `SerialAwardIsATender`) and, with `AllocationIsDeclared` (the registry declares the edges taken
  from outside), `PoolKeepsToRegistry`.
* `PoolDemand_proofs`. `LineIsCapturedOnce` rests on `Retired`: a line that a snapshot
  has captured is LOCKED_FOR_RFQ or CANCELLED and never ACTIVE again, whatever a
  running edit or cancellation writes; the row count of the lock then keeps it out of a
  second snapshot. `SnapshotsAreFaithful` is again `SerialWhileAlone`.
* `Ordering_proofs`. The invariant is `TypeOK` with `Promises`, that the log row a status
  change goes on from stays in the log wherever other rows are inserted, and `AllAgree`: the log of an
  order begins with its checkout, each row is a declared edge from a state logged earlier,
  and the morgue has the terminal states of the log. `InsertedPath` is the lemma that a row
  inserted anywhere after the one it goes on from keeps it a path. `LedgersHold` so holds for any number
  of concurrent changes; `CartsAreSoldOnce` and `OrdersAreTheirLogs` rest on `SerialWhileAlone`.
* `RefreshTokens_proofs`. `ClaimsHold`: the row of a claim is fresh and claimed by
  one request alone, which gives `RotationIsSingleUse`. `Rooted`: families are named by
  the token that began them. `Watched`: a fresh token of a family that is being
  revoked was seen by the UPDATE or is in `missed`, which gives `ReplayIsFinal`.
  `TokensImplementFamilies` needs `SingleUse` to know that what a rotation exchanges is
  the family's only live token, and `Rooted` to know that a login starts a family anew.
* `AiMeter_proofs`. `OvershootBounded` rests on `Reserved`: a month's usage with a
  call's worth of tokens for each request that has passed its check and is not yet
  charged stays within the bound. A check finds the usage within the limit and so
  may clear every slot; a charge takes no more than was reserved for it. `OncePerKey`
  rests on `AllLookedUp`: no row that a request found in the log is fresh and under its key.
  `LogIsCovered` needs no fold: `MeterCoversLog` says that the running totals of the
  log stay within the meter (`Totals`), and a charge extends them by its own row.

Every safety property of the runs is stated by a theorem. Only model-checked is
liveness (`EveryRequestEnds`): fairness and ENABLED are beyond the prover. Which states the seed lets a
trade reach (`ComplianceGate`) and that the registries meet the hypotheses of the
theorems are facts of data and evaluated by TLC as assumptions. The two theorems that assume
one slot, the three that assume one session and the one that assumes no overlap say so; with more the
properties fail, as section 3 tells.

## 5. Assumptions about the environment

* READ COMMITTED, the PostgreSQL default: no `isolationLevel` is passed.
* The role `texqtic_app` may update `trades` and `escrow_accounts`; the grant is
  not among the migrations.
* The registry tables do not change at run time.
* A user id is accepted as the value of the UUID column `created_by_user_id` of the ledger.
* Escrow accounts are in INITIATED when the runs begin (see the note on DRAFT).
* The organisation verification check in front of the routes refuses a request
  before it opens its transaction; such a request does not begin here.
* A reason is always present and of valid length: the routes' schemas require it.

## 6. Not modelled, and what comes next

In the order in which they are worth doing:

1. `TradeConversion`: RFQ to trade, with and without the linkage column.
2. `SettlementSplits` and `Invoices`: splits counted and created in different
   transactions, invoice updates and log rows in separate statements.
3. `VectorQueue`: a bounded queue with overlapping ticks and a restart.
4. An abstract account that `Settlement` implements with a single slot, and abstract
   carts for `Ordering`; their serial promises are stated as invariants so far.

Not planned, with reasons, are the remaining components of `PROJECT.json`: outside
services, one-row writes, rendering, read-only queries and pure policies. They make
up most of the repository's lines (the web client, the administration routes, the
seeds and the projections), and have no state of their own that a step of another
actor could disturb.
