# Formal models of EarnLearning

EarnLearning is a classroom economy: students found companies, trade their
shares, hire each other, borrow, invest and vote, with play money in a wallet per
classroom; around it there are posts, messages, mail, an assistant, databases and
apps of their own.  The server is one Go process over one SQLite file
(`src/backend`).  This directory models its use cases statement by statement,
checks them with TLC on small instances and proves theorems about the exchange,
the freelance market, the market (companies, rounds, proposals) and the campus
around them with TLAPS for every instance.

Contents: 1 inventory - 2 modules and code - 3 runs - 4 bounds and fairness -
5 what the runs show - 6 proofs - 7 what is not modelled - 8 plan.

## 1. Inventory

### How the parts interact

The HTTP router gives every request a goroutine.  A handler calls one use case
(`internal/application/*_usecase.go`), which calls repositories
(`internal/infrastructure/persistence/*_repo.go`), which run SQL.  The use cases
share nothing but rows; the wallet repository is used by nearly all of them.
After its work a use case may create notifications and auto-posts, whose failures
it ignores.  `scheduler/billing.go` is the only periodic job; a notification
starts goroutines of its own for push and mail.  The WebSocket hub
(`interfaces/ws`) and the assistant's semaphore are the only state that lives in
memory.  PostgreSQL (student databases), the language-model proxy, Rybbit
(analytics), the mail sender, the push service and Notion are external.

Three facts shape every model:

* **One connection.**  `sqlite.go:31` calls `SetMaxOpenConns(1)`.  A statement is
  atomic, an open transaction excludes every other statement of the process, and
  requests interleave *between* statements.
* **Few transactions.**  The settlement of matched orders
  (`exchange_usecase.go:311`) is the only one a use case opens.  `WalletRepo.Debit`
  and `Credit` each put their balance check, update and log row into one
  (`withDBTx`), joining the caller's if there is one, and so do a few other
  repository methods.  Everything else is a sequence of statements, each committed
  on its own.
* **Classrooms.**  A user has one active classroom and a wallet in each.  Money
  follows the classroom of the company, job, loan or post (#159), not the active
  one.

### Components

| Component | State | Operations | What is hard | What makes it correct |
|---|---|---|---|---|
| Stock exchange (`exchange_usecase.go`, `exchange_repo.go`, `domain/exchange/matching.go`) | orders, trades, shareholders, wallets, valuation | PlaceOrder, matching, settlement, CancelOrder | stale copies, rollback in mid-loop, cancel against fill, priority | shares and money conserved, trades honour both orders, best price first, orders account for trades |
| Freelance market (`freelance_usecase.go`, `freelance_repo.go`) | jobs with escrow, applications, reviews, wallets | create, apply, accept, complete, approve, cancel, dispute, review | no transaction: crashes and races between statements | escrow conserved, contracts funded, payments earned and single |
| Companies (`company_usecase.go`, `company_repo.go`) | companies, shareholders, company wallet, disclosures | found, disclose, approve, transfer, KPI revenue, idempotent credit | five statements per founding, double rewards | shares sum to the total, a founder pays what was founded, a key or disclosure pays once |
| Investment rounds, dividends (`investment_usecase.go`) | rounds, investments, dividends | create, invest, close, cancel with refund, dividend | absolute writes of stale totals, skipped errors, floors | no oversale, refunds complete, sums accounted |
| Proposals, liquidation (`proposal_usecase.go`) | proposals, votes | propose, vote, close, cancel, liquidate | votes snapshot shares, double close, retry after a cut-off | one outcome, one distribution, executed means dissolved |
| Wallets (`wallet_usecase.go`, `wallet_repo.go`) | balances, log, wallet rows | find, move or create a row, debit, credit, transfer, AdminTransfer | check in one statement, use in another; rows that move to a classroom | no overdraft, transfers conserve, one row per classroom |
| Classrooms, accounts (`classroom_usecase.go`, `auth_usecase.go`) | accounts, tokens, membership, active classroom | register, approve, create, join, activate, reset links, passwords | grant of capital after membership; a token outlives its account's status | capital granted once, a link works once |
| Loans (`loan_usecase.go`) | loans, payments | apply, approve, repay, weekly sweep | stale remaining, double approval | paid out once, remaining follows the payments |
| Grants (`grant_usecase.go`) | grants, applications | approve, revoke, delete | status before money | no credit without a debit |
| Posts, likes, assignments (`post_usecase.go`) | posts, likes, comments, submissions | like, comment, submit, grade, delete | toggles, counters beside rows, clawbacks | counters and rewards follow rows |
| Suggestions (`chat_proposal_usecase.go`) | suggestions of the assistant, their status | save, judge, answer | a judgement beside a notice | a verdict is announced to who asked |
| LLM keys and billing (`llm_usecase.go`, `scheduler/billing.go`) | keys, daily usage | issue, rotate, bill | debit before record, reruns | what was taken is on record |
| WebSocket hub (`interfaces/ws`) | connections per user, channels, mutex | register, unregister, send, broadcast | map walked without its lock, panic with the lock held | map and channels agree, Run goes on |
| Assistant (`chat_usecase.go`, `llmproxy`) | sessions, messages, usage, semaphore | ask, stream, tool loop, delete | failures between stored messages, shared session, full history | places released, tokens add up, calls have results |
| Wiki and skills (`chat_seed.go`, `ragindex`, `chat_repo.go`) | files, two index tables, skills | edit, fetch, reindex, seed at a start | two stores, best-effort file write | files are the source, a document is found once |
| Student databases (`userdb_usecase.go`) | rows and PostgreSQL databases | create, delete, reconcile | two stores, no transaction, names that collide | no orphan at PostgreSQL, every row has a database |
| Mail (`mail_usecase.go`) | addresses, grants to share, mails | claim, judge, share, send, receive | verdict against claim, send before store | approved is immutable, sent is stored |
| Milestones (`milestone_usecase.go`) | one row per student and type | submit, sync from companies and grants, judge, score | page view writes while an administrator judges | what was approved is what was seen |
| Web services (`company_service_usecase.go`, `rybbit`) | services, sites, access | create, change, check, connect, reconcile | external call between read and write; access replaced as a whole | a check is of the address registered, nobody loses a site |
| Uploads (`upload_usecase.go`, `milestone_files_usecase.go`, `dm_usecase.go`) | files and rows | upload, attach, delete | file first, row later, clean-up by hand | row has file, no orphan |
| Direct messages, notifications, push (`dm_usecase.go`, `notification_usecase.go`, `webpush.go`) | messages, notices, endpoints, preferences, goroutines | send, read, announce, subscribe | goroutines that outlive the request, an endpoint that changes hands | counts are true, preferences respected |
| OAuth server (`oauth_usecase.go`) | apps, codes, pairs of tokens | authorize, exchange, refresh, revoke | read, check, mark | one pair per code |
| Start of the process (`main.go`, `sqlite.go`) | schema, rows of older versions | migrate, backfill, seed | cut off between two statements, repeated | a start can be repeated and keeps every row |
| Frontend, deployment | none the server relies on | | | |

`PROJECT.json` lists them all under `components`, and under `hazards` the lines
where the code is hard to test, with the properties that watch each one.

## 2. Modules and code

Three groups of modules, each with instances for TLC:

| Group | Modules |
|---|---|
| Exchange | `Exchange`, `ShareLedger` (what it promises), `MCExchange`, `ExchangeProofs` |
| Sums | `Sums` (totals over finite sets), `SumsProofs` |
| Freelance | `Freelance`, `SerialFreelance` (the same, or one request at a time without restarts), `MCFreelance`, `FreelanceProofs` |
| Server | `Server`, which all the following extend |
| - Market | `Company` <- `Funding` <- `Governance` <- `Market` (composition and properties), `MCMarket`, `MarketProofs` |
| - Campus | `Classroom` <- `Bank`, `Grants`, `Posts`, `Billing`, `Chat`, `Databases`, `Mail`, `Milestones`, `Services`, `Files`, `OAuth`, `Accounts`, `Knowledge`; `Hub`; `Messages` (over `Files` and `Hub`) <- `Suggestions`; `Startup` (over `Bank` and `Grants`); `Campus` (composition and properties), `MCCampus`, `HandlersProofs`, `CampusProofs`, `CampusRecordsProofs`, `ChatProofs` |

All component modules have the same shape.  A **handler** `r` in `Requests` is a
goroutine: `pc[r]` says which statement it runs next, and its other locals hold
what it has read so far, which may be stale by the time it is used.  An action is
one SQL statement, one transaction of a repository method, one call of an external
service, or several reads that commute with everything in between (the comments
say which and why).  A **request** starts a handler with any legal input.
`Restart` forgets every handler and open transaction and keeps every committed
row.  `Quiet` lets a server stutter that is idle (or, in
`Campus`, whose hub is locked for good), so that a deadlock reported by TLC is a
handler that cannot move.

Operators named `X_Y` are defects: `X` with the bug `Y`.  The models never use
them; `PROJECT.json` pairs each property of a passing run with one, and TLC finds
the property violated when it takes the place of `X`.

### Exchange

| Variable | Code |
|---|---|
| `db` | the committed rows: wallets, `shareholders`, `stock_orders`, `stock_trades`, `companies.valuation` |
| `tx` | the rows as the open settlement sees them; `BEGIN` copies `db`, `COMMIT` copies back |
| `conn` | which handler's transaction owns the connection |
| `active` | `users.active_classroom_id` |
| `pc`, `mine`, `have`, `book` | a handler's place, its `StockOrder`, the balance or holding it validated against, the resting orders it read |
| `spent`, `failed` | history, for the properties |

`PlaceOrder` -> `AcceptOrder` or `RefuseOrder` -> `CreateOrder` -> `FindMatches` or
`FindNoMatch` -> `BeginSettlement` -> `SettleMatch`* -> `CommitSettlement` or
`RollbackSettlement` follow `PlaceOrder` and `runMatching` of the use case; one
`SettleMatch` is one turn of the settlement loop with all of its statements
(nobody can see between them).  `ReadCancelled` -> `CancelOrder` is the
cancellation.  `UpdateOrder` overwrites the row with the handler's copy, as the SQL
does; `SubtractShareholderShares` clamps at zero; `UpdateCompany` writes no
valuation; `Heads` leaves the order of two orders of the same second open.  The
rest of the program is `OtherDebit` (another handler's debit) and
`ActivateClassroom`.  `Ledger` reads the rows as a `ShareLedger` (who owns what,
which offers are open and for how much) and `ImplementsLedger` says that every
committed settlement is one of its `Settle` steps.

### Freelance

| Variable | Code |
|---|---|
| `job`, `app`, `review` | `freelance_jobs`, `job_applications`, `freelance_reviews` |
| `wallet`, `active` | balances per classroom, `users.active_classroom_id` |
| `pc`, `task`, `todo` | a handler's place, what it was asked with the job row it read (`seen`), the applicants it still has to reject |
| `funded`, `paid`, `payouts`, `spent` | history, for the properties |

| Use case | Actions |
|---|---|
| CreateJob, ApplyToJob | `CreateJob`; `BeginApply` -> `CreateApplication` |
| AcceptApplication | `BeginAccept` -> `DebitEscrow` or `RefuseEscrow` -> `AcceptApplication` -> `SetFreelancer` -> `HoldEscrow` -> `ListOthers` -> `RejectOther`* |
| CompleteWork | `BeginComplete` -> `SetWorkCompleted` |
| ApproveJob | `BeginApprove` -> `PayFreelancer` or `RefusePay` -> `ClearEscrow` -> `SetCompleted` |
| CancelJob | `BeginCancel` -> `ListAll` -> `RejectEvery`* -> `RefundClient` -> `ReleaseEscrow` -> `SetCancelled` |
| DisputeJob, ReviewJob | `BeginDispute` -> `SetDisputed`; `BeginReview` -> `CreateReview` |

Prices may be zero or negative, as the code lets applicants send them.

### Server

`Server` holds what the handlers of Market and Campus share.  `wallet` and `log`
are the balances and, by wallet, `tx_type` and reference, the sum and the number
of the log rows; `active` is the active classroom; `pc` and `task` are as above,
with everything a handler knows in one record.  `Receive`, `AnswerAtOnce`, `Goto`
and `Return` start, move and end a handler; `Credit` and `Debit` are those of
`wallet_repo.go`, their refusal included.  `workload` is the **mix of request
kinds** a behaviour draws at its start: the clients send only those, up to
`MaxRequests[workload]` of them, so that one instance of the whole server can be
explored mix by mix.  `overlapped` records that two requests have been in flight
together, `restarts` counts restarts.  The properties say which histories they
hold for: all, those without a restart (`Settled`, once idle), those of one
request at a time (`OneByOne`), or both (`Unbroken`).

The request operators (`OwnerRequest`, `RoundRequest`, `BankRequest`, ...) stand
for the HTTP handlers: the parameters they bind and the refusals that change
nothing.  An external service is a small named set of answers: `Replies` of the
language model, `Verdicts` of an address check, `Outcomes` of Rybbit, `Accepted` by
the mail sender, `Issues` of the key proxy, `Intact` files.  `Fetches` is what the
Notion client of the repository (`notion/client.go`) makes of the answers of Notion:
the whole page, or a failure; Notion itself is external, as the proxy and Rybbit
are behind clients of their own.

### Market: companies, funding, governance

| Variable | Code |
|---|---|
| `firm`, `pot`, `holding` | `companies`, `company_wallets.balance`, `shareholders` |
| `disclosure`, `kpi`, `adminCredit` | `company_disclosures`, the sum of `kpi_revenues`, `admin_company_wallet_credits` by key |
| `round`, `investments`, `dividend` | `investment_rounds`, `investments` in order, `dividends` with the sum of their payments |
| `proposal`, `vote`, `ended` | `shareholder_proposals`, `shareholder_votes`, end dates that have passed |
| `traded` | history: shares have changed hands on the exchange |

| Use case | Actions |
|---|---|
| CreateCompany | `CreateCompany` -> `FoundFindWallet` -> `FoundDebit` -> `FoundCreate` (refund if the name is taken) -> `FoundWallet` -> `FoundShareholder` -> `FoundList` |
| disclosures | `CreateDisclosure` -> `DiscloseInsert`; `ReviewDisclosure` -> `ReviewStatus` -> `ReviewReward` |
| transfers, KPI, credit | `Transfer` -> `TransferDebit` -> `TransferCredit`; `AddKpiRevenue` -> `KpiCredit` -> `KpiInsert`; `AdminCompanyCredit` -> `AdminCredit` (one transaction) |
| CreateRound, Invest, CloseRoundEarly | `RoundCheck` -> `RoundInsert`; `InvestReadRound` -> ... -> `InvestInsert`, ten statements; `CloseReadRound` -> ... -> `CloseList` |
| CancelRoundAndRefund | reads, `CancelDebit`, per investor `CancelRefund` and `CancelShares`, then `CancelUpdateTotal`, `CancelUpdateCapital`, `CancelStatus` |
| ExecuteDividend | `DividendReadCompany` -> `DividendDebit` -> `DividendInsert` -> `DividendHolders` -> (`DividendPay` -> `DividendRow`)* -> `DividendDone` |
| proposals | `CreateProposal`, `CancelProposal`, `CastVote` -> `VoteInsert` -> tally; `ReadProposal` closes one whose end has passed |
| liquidation | `ExecuteLiquidation` or a passed vote -> `LiquidateReadPot` -> `LiquidateReadHolders` -> `LiquidateDebit` -> `LiquidatePay`* -> `LiquidateDissolve` -> `LiquidateExecuted` -> `LiquidateDisclose` |

`SharesChangeHands` is the exchange as these parts notice it: it takes orders for
listed companies only (`exchange_usecase.go:138`).  `VotingEnds` is time.
`maybeAutoExpire` does nothing, because `CreateRound` never sets an expiry.

A proposal carries the threshold its proposer asks for, 1 to 100, or the default of
its type (`Threshold`).  The code compares `float64(shares) / float64(total) * 100`
with it.  The rounding of that quotient can only matter where the shares are exactly
the percentage (`Tied`); there `RoundedDown` and `RoundedUp`, constants, list the
pairs whose quotient falls below or comes out above: `AtLeast` and `MoreThan` are
the code's two comparisons.  With 29 of 50 shares and a threshold of 58 the code says
57.99..., and the proposal does not pass; `MCMarket` starts from that case.

A reward that an administrator enters may have any sign, and is stored as it is;
only a positive one is paid.  `AddKpiRevenue` credits the company before it inserts
the row, whose `kpi_rule_id` is the caller's: for an unknown rule (`KpiRules`) the
foreign key refuses the row and the credit stays.

### Campus: everything around a classroom

| Module | Variables and code | Use cases |
|---|---|---|
| `Classroom` | `account`, `token` (users.status now, and in the JWT), `rooms`, `member`, `seat` (classroom of each wallet row) | register, login, approve, reject; create, join (`JoinAddMember` -> wallet -> `JoinCapital`), activate; `EnsureFor`: find the wallet, move the unassigned one, or insert one and read again; AdminTransfer, Transfer |
| `Bank` | `loan`, `due`, `payment`, `weeks` | apply, approve (status -> credit), reject, repay (debit -> remaining -> row -> paid or date), `ProcessWeeklyInterest` loan by loan |
| `Grants` | `grant`, `application` | create, apply, approve, revoke, delete an application, close; status -> debit -> credit, with the roll-back of an application whose debit is refused |
| `Posts` | `post`, `likedBy`, `comment`, `submission` | post, like and unlike, comment, delete, assign, submit, grade; `GradeReward` is the part of the reward that a grade earns, rounded down; `Reward` pays or takes back as far as the balance goes |
| `Billing` | `key`, `usage`, `day` | EnsureKey, RotateKey, BillAll key by key (debit -> record) |
| `Chat` | `session`, `asked`, `slots`, `spent`, `cutShort` | create, delete, Ask and AskStream: save, history, acquire, call, store, tools, tokens, usage |
| `Knowledge` | `md` (files), `doc`, `meta` (the two tables), `skill`, `kept`, `unsaved` | reindex, edit (index, then file), fetch one or all from Notion, skills; seeding at a start |
| `Databases` | `userdb`, `pgrole`, `pgdb`, `outages` | create with roll-back by hand, delete, delete by name, reconcile |
| `Mail` | `address`, `shared`, `emails`, `sent`, `approvedAs` | claim, approve, reject, share, send, receive |
| `Milestones` | `milestone`, `found`, `judgedAs` | submit, score, find and write automatically, approve, reject |
| `Services` | `service`, `site`, `access` (the last two at Rybbit) | create, update, delete, validate, connect, reconcile |
| `Files` | `disk`, `filed` | write, check, row, clean-up; uploads, plan files and attachments.  A file's name is the serial number of its request and its place in it |
| `Messages` | `message`, `notice`, `endpoint`, `wants`, `bulletins`, `jobs`, `gone` and four histories | send with attachments, read, announce, subscribe, preferences; `jobs` are the goroutines that push and mail |
| `Suggestions` | `suggestion` (table `proposals`) | the assistant's tool saves one and tells the administrator; `AdminUpdate` |
| `Hub` | `conn`, `buf`, `closed`, `book` and `entry` (the two levels of the map), `run`, `stuck`, `panicked` | ServeWS, the pumps, `Run` (receives, then acts), `SendToUser` (`SendLookup`, `SendNext`, `SendPut`, `SendDrop`), Broadcast |
| `OAuth` | `app`, `code`, `pair`, `ended` | register, delete, authorize, exchange, refresh, revoke; time |
| `Accounts` | `password`, `reset`, `linked`, `resetBy`, `wasted` | reset links, passwords, refreshed and impersonating tokens; time.  A link is used up (`Consume`) before the password is hashed; bcrypt refuses one of more than 72 bytes (`ResetRefused`), and no upper limit is checked before |
| `Startup` | `boot`, `schema` | the statements of `RunMigrations` group by group, backfills of wallets, home classrooms, loans and grants, then serving; `StartAgain` after a cut-off |

A start reaches `Serving` before the other actions are enabled.  `schema` says of
each table whether it is absent, old or current; the old states are those the
code has a branch for.  `Restart` loses handlers, hub, semaphore and background
goroutines, seeds the wiki and skills as a start does, and starts over.

## 3. Runs

| Run | Instance | Properties | Distinct states |
|---|---|---|---|
| `exchange_concurrent` | 2 users, 1 company, 2 requests at once, 3 orders (two of the same second), 1 restart | `TypeOK` `MoneyFollowsTrades` `NoOverdraft` `TradesHonourOrders` `NoShareLost` | 1,200,000 |
| `exchange_serial` | 2 users, 2 classrooms, 1 request, 3 orders, 1 event, weak fairness | `OrdersAccountForTrades` `CrossedOnlyAfterFailure` `BestPriceFirst` `ImplementsLedger` `RequestsFinish` | 229,000 |
| `exchange_race` (violation) | as concurrent, no event | `SharesConserved` | |
| `exchange_valuation` (violation) | 1 request, 2 orders | `ValuationFollowsTrades` | |
| `freelance` | 3 users; one job, 2 requests at once and 1 restart, or two jobs in 2 classrooms, one request at a time and 1 event | `TypeOK` `NoOverdraft` `ContractsAreFunded` `FreelancerKnown` `PaymentsAreEarned` `CompletedIsPaid` `SerialContracts` | 493,000 |
| `freelance_crash` (violation) | 2 users, 1 job, 1 request, 1 restart | `EscrowConserved` | |
| `market` | 3 users, 2 companies, 2 classrooms, 2 rounds, 2 proposals; ten mixes, 2 requests at once, 1 restart | `TypeOK` `NoOverdraft` `BooksBalance` `RoundsKept` `PayoutsComplete` `PaidOnce` `DecidedOnce` | 223,000 |
| `market_cancel` (violation) | one mix, 1 request | `CancelUndoesRound` | |
| `campus` | 4 users, 2 classrooms and none, rows of every part; 53 mixes, up to 2 requests at once, 1 restart | `TypeOK` `UpgradeKeepsRows` `CapitalOnce` `LoansBalance` `GrantsZeroSum` `RewardsFollowRows` `BillsMatchRows` `ChatsAddUp` `NothingOrphaned` `VerdictsStand` `AnalyticsFollow` `NoticesArrive` `CredentialsWorkOnce` `WikiFollowsFiles` | 272,000 |
| `hub` | 2 connections of one user, buffers of one message, three mixes, 1 restart, weak fairness of Run | `HubConsistent` `HubResponds` | 10,000 |
| `hub_stuck` (violation) | as `hub`, four requests | `ClientsGetRegistered` | |
| `chat_history` (violation) | a session that holds 48 messages, 3 questions | `QuestionIsSent` | |

Run one with `tlc -config MCExchangeSerial.cfg MCExchange`.

The properties come in groups, and the split is itself a result.  Some hold in
every interleaving and across restarts.  Others, the stronger accounting, hold
when handlers do not overlap (`exchange_serial`, `serial` in `freelance`,
`OneByOne` and `Unbroken` in `market` and `campus`): whoever moves the statements
of a use case into one transaction may move its properties from the second group
to the first, and the violation runs say which ones do not hold today.

## 4. Bounds and fairness

*Exchange.*  Three orders are enough for an order that trades with two resting
ones, for a partial fill followed by a second one, and for a settlement whose
second turn fails.  Two prices tell a better offer from a worse one, two shares a
partial fill from a whole one; a wallet of 3 can pay one trade at 2 and not two.
`MaxEvents` = 1 lets one debit, classroom change or restart fall between any two
statements; `exchange_concurrent` leaves the debit (`Spendings` = {}) to the second
request, whose purchases debit the same wallets, and has one classroom.
`MaxOrders` counts orders being placed, so that the bound never cuts a handler off.

*Freelance.*  One client and two applicants give a winner, a loser and a race
between two acceptances; a wallet of 2 and prices 0, 1, 2 give a refusal, a free
job and an overdraft attempt.  `MCFreelance` draws `serial` at the start: either
any interleaving and a restart on one job, or (`SerialFreelance`) one request at a time on two jobs,
so that one client's contracts compete for one wallet.  Histories grow with the
behaviours but are bounded by the rows they describe.

*Market.*  A mix has two to four requests: two where each is long (an investment
against a cancellation), three for a proposal that is voted on, closed and
executed again, four for reviews, transfers and dividends.  The instance starts
in the middle, where the cases lie: a company with two holders, a round that is
open and partly sold, a liquidation put to the vote; a wallet cannot pay
everything that is asked for, and fifty shares do not divide a dividend evenly.
Fifty is the least number of shares, and 29 of them at 58 percent the case, in which
a quotient that should equal the threshold falls short of it: the two holders in
favour have exactly 29.  Rewards are 1 and -1, and one rule of KPI revenue is known
and one is not.

*Campus.*  Two requests in flight are enough for every race between a stale read
and its use; the mixes pair the operations that touch the same rows, and have
three or four requests where a case needs more steps (approve, repay, a week, the
sweep).  Wallets of 3 cannot pay both a loan's repayment and its interest; one
place in the semaphore, one database per user, two names that collide, one failing
PostgreSQL statement, one file or two, one endpoint and one buffered message put
each limit within reach.  The interest rate of 2600 % a year is 50 % a week, whose
fractions matter on amounts as small as these.

*Mixes bound more than sizes do*: a race between two parts that never share a mix
is not explored.  Parts that share no row (mail and loans, say) are never mixed
except through the wallet (`Transfer` with `BillAll`, with `JoinClassroom`, with
grants).

*Symmetry* is used in runs without liveness where the constants enter
symmetrically: of requests in `exchange_concurrent`,
`exchange_race` and `market`, and of requests, users and
jobs in `freelance`.

*Fairness.*  `FairSpec` of the exchange assumes weak fairness of each handler: the
Go scheduler runs every runnable goroutine, and the connection is held across
statements by a settlement only, which is a finite loop of statements that waits
for nothing else.  With fairness, `RequestsFinish` says that every request is
answered, and that the connection is free again and again: a handler that answered
and kept its transaction would block all the others.  Where several requests compete for the connection, weak fairness would
rest on the order in which `database/sql` serves them, which the code does not
decide: those runs check deadlock, which is how the single connection would fail: a handler
that never gives it back, or returns with it, leaves every other one without a step.
There `TypeOK` says (and `TypeCorrectness` proves) that exactly the settling handler
holds the connection.
`Campus` assumes weak fairness of the hub's `RunStep` alone: `main.go:99` starts
`hub.Run()` in a goroutine that is runnable whenever a channel has something for it
and the mutex is free.  Nothing is assumed of clients, pumps or handlers, and
restarts are not fair.

## 5. What the runs show

* **The settlement transaction works as a unit.**  `MoneyFollowsTrades` holds with
  rollbacks, restarts and changes of classroom, with any interleaving: committed
  balances are exactly what committed trades moved.  `NoOverdraft` and
  `TradesHonourOrders` hold although every validation is several statements old.
* **One request at a time, the exchange is right.**  It implements `ShareLedger`,
  keeps price-time priority across whole settlements and accounts for each order.
  Crossing live orders are left behind only by a failed or cut-off matching.
* **Two at a time, it sells shares twice.**  `exchange_race`: the resting orders are
  read before the transaction begins and written back absolutely.  Shares appear
  (`NoShareLost` still holds: they never vanish).
* **The valuation is never stored** (`exchange_valuation`).
* **The order of statements in the freelance market protects much even without a
  transaction:** contracts are funded before they exist, freelancers are known
  before the job is in progress, completion follows payment.
* **It does not protect the escrow.**  A restart between the debit and the column
  loses it (`freelance_crash`), and two approvals at once pay it twice
  (`SettledOnce` is claimed in the serial regime only).
* **Money is guarded where the wallet repository guards it.**  In `market` no
  interleaving overdraws a wallet or a company wallet, moves an idempotent credit
  twice or founds a company whose founder has not paid.  Everything written as an
  absolute value from a row read earlier (`total_shares`, `total_capital`,
  `current_amount`) holds one request at a time only.
* **A liquidation that was cut off can be retried** without executing a proposal
  whose company is not dissolved.
* **Decisions follow the votes, up to the rounding of a percentage.**  `DecidedOnce`:
  nothing passes without the percentage it asked for, nothing is rejected that has
  more, whatever stale copies the closing vote works on.  At the boundary itself the
  quotient decides, and 29 of 50 shares do not pass a proposal that asks for 58
  percent.
* **A cancelled round is not undone after a trade** (`market_cancel`): the clamp at
  zero takes back fewer shares than `total_shares` loses, for a company that is listed.
* **Constraints carry the campus.**  Wallet rows, membership, likes, applications,
  submissions, reset links and names are unique by index (the capital comes with the
  row that was inserted, not with the join), which is why `CapitalOnce`,
  `CredentialsWorkOnce` (links) and the file, token and semaphore parts of the other
  properties survive every interleaving and restart.
* **Status before money leaks in one direction.**  `GrantsZeroSum` never goes above
  zero: a cut-off loses a payment, it never invents one.
* **A start can be cut off anywhere** and repeated, from every earlier schema
  (`UpgradeKeepsRows`).
* **The hub can be stopped for good** (`hub_stuck`): a connection that is dropped
  and unregistered at once has its channel closed twice; the panic leaves the mutex
  locked and `Run` waits for ever.  Until a panic, map and channels agree (`hub`).
* **Long conversations lose the question** (`chat_history`): the history read is the
  first fifty rows, not the last.

Met while modelling, and left as the code has them, because no document or comment
states otherwise or because the properties above already exclude the history:

* a debt of the daily billing is recorded and never collected (`llm_usecase.go:272`);
* deleting a post that carries an assignment stops half-way at the foreign key;
  grading again pays again;
* an overdue loan stays overdue after the automatic debit that pays the week; a
  loan from the unassigned wallet cannot be repaid once that wallet has moved, until
  the next start fills its classroom in;
* a start that is cut off between the first administrator's account and wallet
  never makes the wallet; edits of built-in skills are overwritten at each start; a
  title edited in the wiki is lost when it is indexed again; an index row without
  its companion and file survives synchronization;
* reading a conversation also marks messages that were not on the page;
* revocation matches access tokens only, refresh tokens never expire, and a code
  with a challenge still yields tokens after its app is gone;
* a crash between using a reset token and writing the password uses the link up, and
  so does a password that bcrypt refuses (`auth_usecase.go:209-217`);
* KPI revenue for a rule that is not on file credits the company and then answers
  with an error (`investment_usecase.go:695-711`), and asking again credits again; a
  negative reward of a disclosure is stored and not paid (`company_handler.go:536`);
* percentages of votes are compared in floating point (`proposal_usecase.go:324-330`);
* a key issued at the proxy whose row cannot be stored stays valid there, and a
  revocation that fails there is only logged.

## 6. Proofs

The proof modules prove `Spec => []P` (or a step property, or the refinement) for
all values of the constants that the assumptions admit: any finite sets of users,
companies, rounds and keys, any amounts, any number of requests at once and of
restarts, except where a theorem says "one request at a time".

| Module | Theorems (property) |
|---|---|
| `SumsProofs` | `SumTakeOut`, `SumWrite`, `SumTransfer`, `SumMonotone` (lemmas on `SumOf`, used by all that follow) |
| `ExchangeProofs` | `TypeCorrectness` (`TypeOK`), `WalletsNeverOverdrawn` (`NoOverdraft`), `TradesAreAllowed` (`TradesHonourOrders`), `MoneyFollowsTradesAlways` (`MoneyFollowsTrades`), `NoShareIsLost` (`NoShareLost`) |
| the same, one request at a time | `OrdersAlwaysAccount` (`OrdersAccountForTrades`), `SharesAreConserved` (`SharesConserved`), `CrossedMeansFailed` (`CrossedOnlyAfterFailure`), `PriorityIsKept` (`BestPriceFirst`), `ExchangeImplementsLedger` (`ImplementsLedger`) |
| `FreelanceProofs` | `TypeCorrectness` (`TypeOK`), `WalletsNeverOverdrawn` (`NoOverdraft`), `ContractsFunded` (`ContractsAreFunded`), `FreelancerNeverNil` (`FreelancerKnown`), `OnlyEarnedPayments` (`PaymentsAreEarned`), `CompletionPaid` (`CompletedIsPaid`) |
| the same, one request at a time | `ContractsStandSerially` (`SerialContracts`) |
| `MarketProofs` | `MarketIsTyped` (`TypeOK`), `NobodyOverdraws` (`NoOverdraft`), `ExecutedMeansDissolved` (`ExecutedIsDissolved`, part of `PayoutsComplete`) |
| the same, mostly one request at a time | `MoneyMovesOnce` (`PaidOnce`), `ProposalsDecidedOnce` (`DecidedOnce`), `RoundsAreKept` (`RoundsKept`) |
| `HandlersProofs` | lemmas only: where the handlers of the campus stand, and what leaves whom alone |
| `CampusProofs` | `HubAlwaysConsistent` (`HubConsistent`), `CredentialsAlwaysWorkOnce` (`CredentialsWorkOnce`), `NothingIsOrphaned` (`NothingOrphaned`) |
| `CampusRecordsProofs` | `WikiAlwaysFollowsFiles` (`WikiFollowsFiles`), `AnalyticsAlwaysFollow` (`AnalyticsFollow`), `VerdictsAlwaysStand` (`VerdictsStand`) |
| `ChatProofs` | `ChatsAlwaysAddUp` (`ChatsAddUp`) |

Each chain has the same steps: an inductive invariant, that it holds initially,
that every step preserves it (a lemma per action, or per group of actions that
change the same rows), that it is invariant, and a theorem per property.

### Assumptions

`ExchangeAssumption`, `FreelanceAssumption`, `NoneAssumption`, `ServerAssumption`,
`CompanyAssumption`, `FundingAssumption` and `GovernanceAssumption` say that the
constants have their types, that the sets summed over are finite, that orders are
stamped in insertion order, and that the rows at the start refer to rows.
`StartAssumption` (in `Funding`) says of those rows what the code keeps true of its
own: a company has its wallet, at most one open round, investments are of rounds
on file and no round is oversold.  For the campus, `ClassroomAssumption`,
`OAuthAssumption`, `AccountsAssumption`, `KnowledgeAssumption`,
`ServicesAssumption`, `MailAssumption`, `MilestonesAssumption`,
`DatabasesAssumption` and `HubAssumption` type the rows at the start, say that no
row is `None`, that ids and slugs are finitely many, that the staff account exists
and that every address and service has an owner.  One says more of the start: a
service on record that was checked was checked at the address it has, and one that
is connected has its site; and `ChatAssumption` says that nobody is asking yet: a stored
call has its results behind it.  TLC evaluates all of them in the runs.

Five theorems of `ExchangeProofs` assume `OneAtATime`: `Requests` has at most
one member, as in the run `exchange_serial`.  It is a condition on the clients, not
on the code; `exchange_race` shows that without it the exchange sells shares twice.
In `Market` and in `Campus` the same condition is a part of the properties
(`~overlapped`, `OneByOne`).

### Sums

What is summed is always a function over a finite set (`Sums`).  The induction
theorems of the library take an operator, which the provers here cannot
instantiate, so `SumsProofs` argues with *sets*: the set of all subsets of S of
which a statement holds contains the empty set and is closed under adding an
element, hence contains S (`SubsetInduction`).  From the sum without one element
(`SumTakeOut`) follow what writing one value does (`SumWrite`), that a sum does not
shrink when one element gains what another at most loses (`SumTransfer`), that it is
monotone in the function (`SumMonotone`), bounds, and sums over a partition.  The later proofs never unfold a sum.

### Exchange

`TradesHonourOrders` is not inductive: a trade is recorded from the handler's
copies, so the invariant says that every copy (`mine`, every member of `book`)
agrees with the row of its id in everything but `remaining` and `status`, that
this also holds of the rows inside the transaction, that the resting orders in a
handler's `book` cross its own, and that copies still to be traded have shares
left.  None of this breaks when the copy is stale: the columns `UPDATE` writes are
exactly the two the statement leaves out.  `NoOverdraft` needs the same bound on
the wallets inside `tx`.

`MoneyFollowsTradesAlways` adds that the books balance *in both copies of the database*:
in `db` and, while a settlement is open, in `tx`, balances less what was spent are
what trades moved, and no company has fewer shares than it was founded with.  One
`SettleMatch` writes two wallets, two holdings, two orders and a trade; the clamp at
zero of `SubtractShareholderShares` is why shares can only be gained.

With one request at a time the copies *are* the rows.  `SerialInv` says so at every
`pc`, before the transaction and in it (the resting orders not yet reached are
unchanged, `mine` and the row differ by what has been filled), and with it
`Booked`: every order accounts for its trades (`Accounted`), nobody's live sell
orders offer more than he holds (`Offered`: hence the clamp never acts), shares are
conserved (`Conserved`).  `CrossedOnlyAfterFailure` needs, from `FindMatches` to the
commit, that whatever still crosses the new order is in `book` ahead of the
handler, and for a buyer and a seller of old orders that they crossed before.
`BestPriceFirst` is a property of the commit alone, so the invariant carries, inside
the transaction, that the trades since `BEGIN` are in the order of `Heads` and that
all better offers are filled.

The refinement `ImplementsLedger` maps a commit to *one* step of `ShareLedger`, which
runs a sequence of trades.  `LedgerInv` says that `tx` is what the ledger has after
the trades appended since `BEGIN` (`Followed`), and each `SettleMatch` extends that by
one.  The ledger's course over a sequence is a recursive *function*; that it has
one value at each length, the one the proof constructs trade by trade, is again
shown with sets (`CourseFollows`, the least number where two courses differ).

### Freelance

`ContractsAreFunded` needs to know that a handler past its debit has its
application in `funded`, at every later `pc`.  `PaymentsAreEarned` needs that the row
`seen` by an approving handler had a known freelancer and reported work, both of
which are never taken back.  `CompletedIsPaid` needs that a handler about to clear or
complete has paid.  `FreelancerKnown` needs that the freelancer, once set, is never
unset, and that a job leaves `open` only with one or by cancellation.

`SerialContracts` says something of states in which no handler is under way, so its
invariant, `SerialInv`, has to say what holds in the middle of one.  With one handler
in flight the job's row is a function of what that handler read and where it stands
(`Expected`); the money missing from a classroom's wallets and escrows is what it has
debited and not yet held, or credited and not yet cleared (`Transit`), so `Balanced`
is an equation at every step; `AppsMoved` says which applications it has still to
reject.  All other jobs tell their story (`Telling`), and an escrow was settled only on
a job that is closed or being closed (`SettledOnce`).  An action of the handler then
either goes on (`StillBusy`) or ends (`NowIdle`), and in both cases what remains to be
shown is about one job, one wallet and one sum; the sums are those of `SumsProofs`,
over users and over the jobs of a classroom (`EscrowMoves`, `Moved`).  That a
cancellation may skip the refund needs that the escrow it read is never negative.

### Market

The invariant `IInv` of `MarketProofs` has four parts: `ControlOK`, `HandlersOK`, `Rows`
(types, references, no overdraft, executed means dissolved) and `TaskOK(r)`: what the
handler at each `pc` remembers, and what *still* holds of the rows it read.  Other
handlers may have written them since, so only what no statement takes back can be
kept: that a row exists and of which company it is (`Grows`).  That is all
`NoOverdraft` and `ExecutedIsDissolved` need, under any interleaving.  Preservation is
shown once per action for its own handler and once for all the others from
`Grows`.

`PaidOnce` has three parts with three arguments.  Keys: `AdminCredit` is one
transaction, so the sum per company equals the log at every step.  Rewards: with
one handler at a time (`AtMostOne`) the status it has read is the status on file.
Founders: what a user's wallets have paid, less what the handlers in flight have
debited for a company that is not there yet, is what was founded; the unique name
makes the loser of a race take its refund.

`DecidedOnce` and `RoundsKept` rest on the same fact: while no two requests are in
flight together, what the busy handler has read is still on file (`FreshAt` for
proposals, `RoundFreshAt` for rounds).  For a verdict, `FreshAt` adds that there is a
reason to write one (`Ripe`: the end has passed, or the tally is final), and
`AtLeastReaches` relates the code's comparison to the exact one.  Not oversold and one open round follow
(`RoundsInOrder`).  For the refunds the invariant counts, for each investor and
round, what his wallets have been paid: `Paid = Brought - Unreturned + Due`, where
`Brought` is what he had invested before the start, `Unreturned` is what the investments
still on file amount to, and `Due` is what the one busy handler has debited, or
refunded, ahead of its row (`Balanced`).  `PotsOpen` is why a refund finds its company
wallet.

### Campus

Twenty parts share `pc` and `task`, and some share steps: a wallet is ensured, a
notification written, the hub sends.  `HandlersProofs` deals with that once.
`Handlers` says that a label belongs to a part or is a shared step, and that the
task at a shared step has what the step reads and a label to go on at.  `NextOne`
says that every step is the step of one handler, an answer at once, or a start of
the server; from it follows `Alone`: as long as no two requests were in flight
together, at most one handler is busy.  A lemma `AwayFrom...` per part says that it
leaves the labels of another part alone, so each theorem below has the frame of
its own part (`HubFrame`, `MailFrame`, ...), its own actions, and a restart.

*Hub.*  `HubInv` holds in any interleaving until a goroutine has panicked: a user's
map lists connections of that user, what it lists is not closed, and an open
connection is listed.  That needs to know of a sender between the lookup and the
send (`WalkOK`) that the map it walks, perhaps replaced since, was one of its user's,
and that the connection in hand has not left the map without being closed; and of
`Run` with a connection in hand (`RunFresh`) that it is not closed yet.

*Credentials.*  `AccountsInv` needs no assumption on interleaving, for the link is
marked in the statement that reads it as unused; the password is written after,
by the one handler that marked it, or never, if bcrypt refuses it (`wasted`).  `OAuthInv` holds one request at a time: the
handler between reading a code and marking it is the only busy one, so the code is
still unused when it is marked (`Spent`, `Honoured`).

*Databases.*  `DatabasesInv`: whatever is at PostgreSQL has a row, or a handler that will
give it one or drop it (`Backed`, in any interleaving, as long as there was no restart
and no outage).  The subtle case is one name used by two handlers: while the one has
dropped a database and is about to remove its row, the other may create it again,
and has to drop it when its insert is refused.  The quota and
`DbKept`, that a row has its database, hold one request at a time: the handler that
counted is the only one to insert (`DbSerialTask`, `DbKeptTask`).

*Files.*  `FilesInv`: a file on disk has a row or a handler that holds it (`Owned`), and
the files of two handlers differ, as do those of a handler and of the rows, because
they are named by the request (`Apart`).  Hence a clean-up after a failed insert, or
the removal of a row's file, never takes a file that another row refers to.

*Assistant.*  `ChatInv`: the semaphore counts the handlers at the model (`AtModel`); what
a user has used and not been charged is what handlers still carry (`Owed`), and what
has not reached a session's row likewise (`Unsaved`), as long as no call failed and no
session was deleted.  `CallsServed`, while there was no restart: a stored call of a
tool has its result, or the handler that will store it, and no two handlers serve one
message; one at a time the results lie right behind it.

*Wiki.*  `KnowledgeInv`: in any interleaving, a document is indexed at most once, the
file holds the last text that was saved, and live skills have different names
(`KeptBooks`).  One at a time (`WikiSerial`), both tables and the file of a document
agree, but for a text whose file was saved and its rows were not (`unsaved`), unless
the one busy handler is in the middle of writing it (`Midway`), and a
reindexing that is about to remove a document has seen every file there is.

*Services.*  `ServicesInv`, one at a time: the row read before the external call is the
row on file after it (`ServicesTask`).  So a check is of the address registered, a
connected service has its site at Rybbit under that address and its owner may see
it, and the access that is replaced as a whole is all of a company's (`GroupOK`).

*Mail.*  That mails are never lost between the service and the table is a count, in
any interleaving: mails stored plus handlers at `mail:store` (`AwaitStore`) are at
most `sent`, and equal while there was no restart.  That an approved address keeps its
local part holds one at a time only: `ClaimAddress` reads the status, `ClaimWrite`
writes without looking again.

*Milestones.*  `MilestonesInv`, one at a time: `judgedAs` is the text on file exactly for
approved milestones; a long retrospective has the score of its text (`ScoredFor`)
or somebody is about to write it (`Scoring`), as long as there was no restart; a page view
that is about to write has seen that the milestone is not approved.

### Only model-checked

* Liveness (`RequestsFinish`, `HubResponds`) and the absence of deadlock: they need
  `ENABLED` and fairness, which are out of the prover's reach.
* `BooksBalance` of the market, and the sums of `PayoutsComplete`: no obstacle of
  principle (the lemmas they need are those of `SumsProofs`), but not done.
* Of the campus: `TypeOK`, `UpgradeKeepsRows`, `NoticesArrive`, `RewardsFollowRows` and
  `BillsMatchRows`; and `CapitalOnce`, `LoansBalance` and `GrantsZeroSum`.  The last
  three say what a wallet was paid, and hold only if the wallet is the right one
  whenever any of the other parts pays, so they need one invariant on wallets and
  seats over all handlers.
* The violation runs, which are counterexamples.

## 7. What is not modelled, and why

*Everywhere.*  Reads that decide nothing (lists, order books, portfolios), texts
and layout.  Failures of the disk or of SQLite itself, except a refused debit, a
violated constraint and the file writes of `Files` and `Knowledge`.  The width of
integers: quantities are mathematical integers, and interest, which the code
computes in floating point, is exact.  Notifications and
auto-posts that a money handler makes after its work are left out of the money
models; `Messages` models what a notification does.  Where a handler reads several
rows before its first write and nothing between can change the outcome, the reads
are one action.  A table that has no id left refuses the insert.

*Exchange.*  `AdminTransfer`, which may overdraw a wallet on purpose, and other
handlers' credits, which only make debits succeed.  Listing and delisting:
`Companies` are the listed ones.

*Market.*  Users have their wallets and every row has a classroom, so the
backfills of a start change nothing.  `companies.name` is unique, so a company is
its name.  `GetProposalsByCompanyID` is several `ReadProposal`.  The price of shares
that change hands is left out, `total_shares` is never zero; the creation of KPI
rules and business cards moves nothing.

*Campus.*  Default channels of a classroom, the rewriting of texts (`UpdatePost`,
`UpdateApplication`) and avatars change no row another part relies on.  One billing sweep runs at a time, as one goroutine
schedules it.  A language model's answer costs one token; titles, the choice of a
skill and what a tool does are left out, and a client that goes away during a
stream is a failed call.  A statement that fails at PostgreSQL has no effect, its
grants are one step, and passwords and their rotation are left out, as is the
administrator's command-line tool (`DropByHand` stands for it).  Attachments,
threads and read marks of mails, deletion of single mails, the parsing of
addresses and of files (`Intact` may refuse any) are left out.  What
`collectCandidates` finds is enumerated.  `Letters`, `Audience` and `Wishes` restrict
who writes to whom, is told and asks for a database.  OAuth secrets, redirect
addresses, verifiers and scopes only refuse.  Push and mail services are there in
the mixes that have subscriptions or preferences and absent in the others, where
their goroutines return at once.  Every wiki file can be read, and seeding is one
step of a start; that the Go runtime may stop the process over a concurrent map
access is a `Restart`.

*Not at all.*  The generated API description (`docs/docs.go`), development seeds
(`seed_dev.go`), handlers and queries that only read, the MCP server (a client
without state), the frontend and the deployment scripts.

## 8. Plan

1. **Bills, rewards, notices and the schema at a start**: each again with the labels of its
   own part; then one invariant on wallets for the three properties on money.
2. **The rest of Market**: `BooksBalance` and the sums of `PayoutsComplete`, along the
   lines of `InvestorsEven` and of the freelance market's `Balanced`.
3. **A lemma on floors** for `Share` of `Funding`: what is paid out is never more
   than the amount, holder by holder.
