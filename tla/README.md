# BoltBet in TLA+

BoltBet is a betting backend (NestJS, Postgres with a streaming replica,
RabbitMQ, two Redis instances, OpenResty in front) with a Next.js client. These
modules model the part of it that moves money (the wallet, the placement of a
bet, the worker that accepts it and the settlement that pays it), the sessions
of its users (login, token rotation, logout, and the client that drives them),
the gateway in front of both, the way a browser tab hears of a settlement and
shows the balance, and the pages on which markets are bet on and administered.
TLC checks small instances; TLAPS proves the most important properties for every number of users, bets, markets, handlers, tabs and tokens.

1. [The system](#1-the-system)
2. [What the modules model](#2-what-the-modules-model)
3. [What is checked](#3-what-is-checked)
4. [What is proved](#4-what-is-proved)
5. [What is left out](#5-what-is-left-out)
6. [The plan](#6-the-plan)

Paths below are relative to the repository; `PROJECT.json` maps every definition
to its lines.

## 1. The system

### Wallet service — `apps/api/src/wallet`

- **State.** `wallets` (one row per user, `balanceCents` an int4, unique
  `userId`) and `walletTransactions` (append-only: type, amount,
  `balanceAfterCents`, `referenceId`) on the Postgres primary; the replica
  serves `getBalance` and `getTransactions`.
- **Operations.** `deposit`, `debit`, `credit`: look for a row with the
  reference, then `applyTransaction` (begin, `SELECT ... FOR UPDATE` or insert,
  new balance, audit row, commit; rollback on any error). `getBalance` inserts
  an empty wallet when the replica shows none.
- **Hard.** Two calls on one wallet; two first calls of one user; the lookup is
  outside the transaction; a replica that lags; a failure at any await.
- **Correct when** the audit trail replays to the balance, the balance never
  leaves `0 .. MaxCents`, a reference is posted once when its calls do not
  overlap, and no failed call leaves the row locked.

### Betting service — `apps/api/src/betting`

- **State.** `bets` (unique `referenceId` = the client's `clientMutationId`,
  status, stake, payout fixed at placement); `idempotency:*` keys with a TTL of
  60 s in the ephemeral Redis.
- **Operations.** `placeBet`: Redis lookup, database lookup, market check,
  `wallet.debit`, insert PENDING, set the Redis key, publish to
  `bet_placement`. `transitionStatus`: read, check `ALLOWED_TRANSITIONS`, update
  by id. `isTerminalState`, `getBets`, `getBetById` read.
- **Hard.** Seven awaits and no transaction around them: every prefix of
  `placeBet` can be all that happens; a retry must resume it; two requests with
  one id can overlap.
- **Correct when** no bet is recorded without its stake, a repeated request
  takes the stake once, and every recorded bet reaches the worker.

### bet_placement queue — `apps/api/src/rabbitmq/RabbitmqService.ts`

- **State.** A durable queue with a dead letter queue; a publisher channel with
  confirms that sends again what was not confirmed; a consumer channel with
  `prefetch(1)`.
- **Hard.** A lost channel requeues the message of a handler that runs on; a
  message is published twice; ack on a channel that is gone throws.
- **Correct when** a message that is not acknowledged is delivered again, and
  handlers tolerate that.

### Settlement worker — `apps/api/src/settlement/SettlementWorker.ts`

- **Operation.** `handleMessage`: PENDING to ACCEPTED, ack; when the transition
  is refused, ack if the bet is terminal, else nack to the dead letter queue.
- **Hard.** A crash between the update and the ack; two handlers for one bet
  after a channel is lost; the bet may be settled meanwhile.
- **Correct when** every recorded bet is accepted and only accepted bets are
  ever paid.

### Market service — `apps/api/src/market`

- **State.** `markets` (OPEN, SUSPENDED, SETTLED; result).
- **Operations.** `createMarket`; `updateStatus` (suspend, reopen): read, check,
  save; `settle`: read, check, find the ACCEPTED bets, for each one credit the
  payout on WIN, mark SETTLED, publish BET_SETTLED (an error skips the bet), then
  mark the market SETTLED. All are followed by a notification.
- **Hard.** `settle` runs across many awaits while bets are placed and accepted
  and while another administrator suspends, reopens or settles; it can stop
  half-way and be repeated. A call can fail after it has saved, and then no
  notification says what it did.
- **Correct when** a bet is paid once and only if it was accepted, an announced
  win has been paid, and a settled market stays settled.

### Identity and sessions — `apps/api/src/identity`

- **State.** `users`; `refreshTokens` (family, `used`, `revoked`, expiry);
  `blacklist:jti:*` in the persistent Redis.
- **Operations.** `register`, `login`, `refresh` (rotation: a used token revokes
  its family; the token is marked used, then a successor is inserted), `logout`
  (revoke the presented token, blacklist the access token, clear the cookie).
- **Hard.** `used` is read and saved in two statements, so two refreshes can both
  pass; a refresh in flight while its family is revoked inserts a live
  successor; `logout` can fail after its first step.
- **Correct when** a token is exchanged at most once, a revoked family has no
  live token, and nothing issued to a session that was logged out is accepted.

### Guards — `apps/api/src/auth/guards`

`JwtAuthGuard` verifies the signature and looks the token up in the blacklist on
every request; `RolesGuard` compares the role. Stateless. Correct when a
blacklisted token is refused whatever the gateway has cached.

### Edge gateway — `nginx/nginx.conf`, `nginx/lua`

- **State.** `auth:cache:*` (30 s) in the persistent Redis and `rate:ip:*`
  counters in the ephemeral one.
- **Operations.** `auth.lua`: blacklist, then cache, then a verification
  subrequest whose answer is cached. `rate_limit.lua`: INCR, and EXPIRE when the
  count is 1; open when Redis does not answer.
- **Hard.** A token cached after it was blacklisted; INCR without EXPIRE leaves
  a counter that never resets.
- **Correct when** a cached token is never accepted after logout while Redis
  answers, and an address is let in again after a window.

### Realtime notifications — `apps/api/src/realtime`, `apps/web/src/hooks/useSocket.ts`

- **State.** The `notifications` queue (`prefetch(5)`), socket rooms per user
  shared by the API instances through Redis, the client's cached queries.
- **Operations.** `NotificationWorker.handleMessage` pushes BET_SETTLED to a room
  and MARKET_* to everybody and acknowledges; `handleConnection` checks the token
  and joins the room; the client shows a toast and fetches the balance again.
- **Hard.** Redelivery shows an event twice; a socket outlives its token; the
  refetch reads the replica and nothing corrects it later.
- **Correct when** a connected user sees every settlement of theirs, nobody
  else's, and the balance in the end.

### Web client — `apps/web`

- **State.** The store of each tab (access token, toasts), the query cache
  (balance, bets, markets), the pages' own state: `placingFor` on the markets
  page, `settleConfirm` on the administrator's, and the mutations each has under way.
- **Operations.** `lib/api/client.ts` refreshes the session on a 401 and repeats
  the request once; `AuthBootstrap` refreshes on load; the pages bet, create,
  suspend, reopen and settle, and each answer shows a toast and invalidates a
  query; `useSocket` invalidates the lists when an event comes; `ToastContainer`
  dismisses the newest toast 4 s after the last change of the list.
- **Hard.** Several requests that meet 401 at once each present the same refresh
  cookie, and the server answers the second as theft. Events, answers and queries
  pass each other; an answer arrives when its page is gone; `isPending` of the
  administrator's page is all that keeps its calls apart.
- **Correct when** an undisturbed user is not logged out, a list that counts as
  fresh is, a settlement is not undone from the page that made it, every button
  comes back and every toast goes away.

### Redis clients, configuration and bootstrap

Two Redis clients without logic of their own; validated environment, modules,
data sources. No state after start-up.

### How they interact

```
client -> gateway -> guards -> BettingService --debit--> WalletService -> Postgres
                                   |                          ^
                                   v publish                  | credit
                             bet_placement -> SettlementWorker|
                                   (dead letters)   | accept  |
                                                    v         |
                        MarketService.settle -> bets, wallet, markets
                                   | BET_SETTLED, MARKET_*
                                   v
                             notifications -> NotificationWorker -> sockets -> client
```

The hazards of the code, each at its line with the properties that would show
it going wrong, are in `PROJECT.json` under `hazards`.

## 2. What the modules model

| Module | Stands for |
| --- | --- |
| `Ledger` | What a wallet promises: atomic postings, explained by the audit trail |
| `Wallet` | `WalletService` over Postgres, statement by statement; implements `Ledger` |
| `BetLifecycle` | What one bet goes through: charged, recorded, accepted, paid, closed |
| `BetFlow` | `placeBet`, the queue, `SettlementWorker`, `MarketService`, composed over `Ledger`'s postings; implements `BetLifecycle` |
| `SessionChain` | What a login promises: a chain of refresh tokens, one exchangeable at a time, that never comes back to life |
| `Sessions` | A browser's tabs and cookie, `client.ts`, `JwtAuthGuard` and `IdentityService`, await by await; implements `SessionChain` |
| `Gateway` | `rate_limit.lua`, `auth.lua`, `JwtAuthGuard` and the end of `logout`, one step for each call to a Redis |
| `Realtime` | The `notifications` queue, `NotificationWorker`, `RealtimeGateway`'s handshake and rooms, `useSocket`, and the balance query of `useWallet` |
| `Pages` | The markets page and the administrator's two pages: buttons, calls, the handlers of `MarketService` behind them, the cached list of markets, and the toasts |
| `MCWallet`, `MCBetFlow`, `MCSessions`, `MCGateway`, `MCRealtime`, `MCPages` | Small instances for TLC |
| `LedgerProofs`, `WalletProofs` | Proofs about `Ledger`, its operators and its specification, and about `Wallet`: types, the audit trail, the lookups, the refinement, the length of calls and waits |
| `BetFlowProofs`, `BetMoneyProofs` | Proofs about `BetFlow`: types; and money, the audit trail, the stages of a bet, markets, the way of a message to its bet or to the dead letters, the length of a handler's run |
| `SessionsProofs` | Proofs about `Sessions`: types, the one live token, the effect of a logout, the chain, the length of a request |
| `GatewayProofs` | Proofs about `Gateway`: types, the end of every counter, what a logout shuts out |
| `RealtimeProofs` | Proofs about `Realtime`: types, what the balance on the screen covers, what a tab in its room hears of |
| `PagesProofs` | Proofs about `Pages`: types, the list that is current, the settlement that stays, what a disabled button waits for |

### Wallet

One step per database statement that another call can come between. A caller's
`pc` is the statement it is about to run.

| Code | Action |
| --- | --- |
| a call to `deposit`, `debit`, `credit` | `Start(c, job)` |
| the `findOne` by reference | `FindExisting(c)` with `Existing(job)` |
| `SELECT ... FOR UPDATE`, a row found / none | `LockWallet(c)` / `SeeNoWallet(c)` |
| insert of the first wallet, or its unique violation | `InsertWallet(c)` / `DuplicateWallet(c)` |
| balance check, update, audit row, commit | `Commit(c)`; the refusal `Refuse(c)` |
| a failure anywhere, `rollbackTransaction`, `release` | `Abort(c)` |
| `getBalance`: replica lookup; the insert | `MissWallet(u)`; `OpenWallet(u)` |
| streaming replication (external) | `Replicate` |

`lock[u]` is the row lock of `FOR UPDATE` and, for a row that is inserted and
not committed, the unique index entry on which another insert waits. The update
and the audit row of one transaction become visible together, at the commit, so
`Commit` is one step. `calls[c].read` is the balance the transaction read: the
new balance is computed from it and not from the row as it then is, which is why
`LedgerReplays` says something.

### BetFlow

Every `await` is a step boundary. Within one step the code runs without yielding,
and each step makes at most one call that others can see. The wallet appears as
`Ledger`'s atomic posting, with the idempotency lookup in front of it as a step
of its own (`DebitFind`, `CreditFind`), because that lookup is outside the
wallet's transaction.

| Code | Actions |
| --- | --- |
| `placeBet` | `Receive`, `CacheGet`, `LookupBet`, `AssertMarketOpen`, `DebitFind`, `DebitPost`, `InsertBet`, `CacheSet`, `Publish`, `Confirm` |
| `publishBetPlacement`'s channel, reconnected | `Republish` |
| `handleMessage` with `transitionStatus`, `isTerminalState` | `Deliver`, `ReadStatus`, `UpdateStatus`, `CheckTerminal`, `Answer` |
| consumer channel lost; ack on it | `LoseChannel`; `AnswerOnLostChannel` |
| `createMarket` | `CreateMarket`, `Announce` |
| `suspend`, `reopen` | `StartUpdate`, `SaveStatus`, `Announce` |
| `settle` | `StartSettle`, `FindAccepted`, `PickBet`, `CreditFind`, `CreditPost`, `CloseBet`, `NotifySettled`, `MarkSettled`, `Announce` |
| an await rejects | `RequestError`, `WorkerError`, `BetError` (the catch in `settle`'s loop), `AdminError` |
| the API process restarts | `Crash` |

What is abstracted:

- A bet is named by its `clientMutationId`, and `Slip` gives the user, market
  and stake every request with that id carries. A client makes a new id for a
  new slip.
- The queue is a set: bets are independent, so the order of messages for
  different bets does not matter, and a second copy of a message in the queue
  only repeats what a redelivery after the first one shows. A message on a lost
  channel is in the queue *and* in the hands of its old handler.
- Odds are fixed at creation (no code changes them), so `Payout(b)` is a function
  of the slip: `floor(stakeCents * oddsInt / 100)`.
- `deposit` is one step in `BetFlow`; its interleavings are `Wallet`'s. Its
  references are disjoint from bet ids, as the client makes both with a UUID.
- Requests are those that pass the guards and the DTO validation.
- VOID and CANCELLED are in `ALLOWED_TRANSITIONS`, and nothing in the code moves
  a bet there.
- MARKET_CREATED and MARKET_UPDATED are published (`Announce`) and not recorded:
  who reads them is in `Pages`.
- `Faults` chooses which failures a run includes: `"error"` (an await rejects),
  `"crash"` (the process restarts), `"reconnect"` (a RabbitMQ channel is lost).

`Unique` names the references whose calls do not overlap: the client waits for
an answer, or for a failure, before it repeats a request. A bet outside `Unique`
can be requested by several handlers at once. Properties that need the restriction
say so (`PostedOnce`, `ChargedAtMostOnce`); all others hold without it.

### Sessions

One browser: tabs with a store each (`access[tab]`) and the cookie they share
(`jar`). A request `r` belongs to the tab `Home[r]`; its `pc` is the statement of
the server, or of the client, that runs next.

| Code | Action |
| --- | --- |
| `request` in `client.ts`, for a page's data or for the logout | `Call(r, kind)` |
| a page is loaded: `AuthBootstrap`'s refresh | `Load(r)` |
| `useAuth`'s `login`; `IdentityService.login`'s lookup and comparison | `Login(r)`; `CheckPassword(r)` |
| `JwtAuthGuard.canActivate` | `Guard(r)` |
| `refresh`: lookup and checks; used token; `save`; new row | `ReadToken(r)`; `RevokeFamily(r)`; `SaveUsed(r)`; `InsertToken(r)` |
| `logout`: `update`; Redis `SET`; the answer that clears the cookie | `RevokeCookie(r)`; `Blacklist(r)`; `Cleared(r)` |
| `client.ts` on 401; refresh refused; refresh granted | `Unauthorized(r)`; `RefreshFailed(r)`; `Granted(r)` |
| `useAuth`'s `logout`, whatever came of the call | `Leave(r)`, part of the step that ends a request |
| tokens reach `expiresAt`, `exp` | `Expire(t)` |
| an await rejects, the process ends, the gateway answers 429 | `ServerError(r)` |
| the answer is lost and `fetch` throws | `LoseAnswer(r)` |

What is abstracted:

- An answer grants an access token and a refresh token together, so both are named
  by the refresh token's row (`Token`). They expire separately: `stale` for the
  access token, `expired` for the row.
- A family is named by the first token of its login.
- `TypeORM`'s `save` reads the row and writes the columns in which the object
  differs: `SaveUsed` writes `used`, and also the `revoked = false` that was read
  when the row has been revoked since.
- The guard's verification and its blacklist lookup are one step.
- Signatures and secrets are right: what is presented was granted.
- While a tab loads or logs in it does nothing else (`Compatible`), since
  `AuthBootstrap` renders nothing before its answer and the login page makes no
  other request.
- `Serial` says that the browser's requests never overlap, within a tab or between
  tabs. Nothing in the client ensures this: it is the assumption under which the
  code keeps its promises, and `reused_cookie` shows what comes of its absence.
- A client makes no difference between a refresh that is refused and one that fails
  with a 5xx or 429: both clear the store.

### Gateway

A request has a kind: `refresh` stands for what nobody asks a token for (refresh,
login, the public routes), `logout` for the one route under `/v1/auth/` that the
guard looks at, `api` for bets and wallet, whose locations call `auth.lua` as well,
and `market` for a market route with a guard behind a location without `auth.lua`.

| Code | Action |
| --- | --- |
| `rate_limit.lua`: INCR; EXPIRE at 1; the comparison | `Incr(r)`; `SetExpiry(r)`; `CheckLimit(r)` with `Onward(kind)` |
| Redis does not answer the connection or the INCR; the EXPIRE | `FailOpen(r)`; `LoseExpiry(r)` |
| `auth.lua`: blacklist; cache; subrequest; SETEX | `LookBlacklist(r)`; `LookCache(r)`; `Verify(r)`; `Store(r)` |
| the persistent Redis does not answer `auth.lua` | `FallThrough(r)`, and the second choice of `Store(r)` |
| `JwtAuthGuard`: `verifyAsync`; the blacklist | `GuardVerify(r)`; `GuardLookup(r)` |
| `logout` from its Redis SET to the answer | `Revoke(r)` |
| 5xx, or a subrequest that is not a 200 | `Fail(r)` |
| a key ends, is evicted, a token expires | `WindowEnds(a)`, `BlacklistEnds(t)`, `CacheEnds(t)`; `Evict(a)`; `ExpireToken(t)` |

What is abstracted:

- Counts above every limit are one (`Bumped`); a request keeps whether the count
  it was given is above its limit (`tooMany`), and that is all the code does with it.
- Time passes by `ExpireToken` and by keys that end. A blacklist entry is set for
  `exp - now` in whole seconds, rounded up by the `floor` of `now`, so it ends after
  its token has expired; the cache's 30 s and the window's 60 s are any time.
- `/internal/auth/verify`, behind the subrequest, is not in the repository:
  `Verify` takes it to refuse what is expired or blacklisted, and a failure (`Fail`)
  to be a refusal, as `auth.lua` treats it.
- `lost` and `over` record what happened (a window that Redis failed at its
  beginning; a logout that was answered) and no action but the record reads them;
  `late` is read by the properties only.
- nginx's own `limit_req`, the mirror of bets and the socket location are left out.

### Realtime

One user in one tab. A balance is the set of the postings that were made before it
was read, so that "older" and "newer" are subsets: `shown` is the balance in the
query cache, `got` what the query under way has read.

| Code | Action |
| --- | --- |
| `settle` for one bet: the credit; the publication, or its failure | `Credit(b)`; `Notify(b)`, `NotifyError(b)` |
| `NotificationWorker.handleMessage`: push to the room and ack; the ack at the broker | `Deliver(b)`; `Acknowledged(b)` |
| the consumer channel is lost | `LoseChannel` |
| `handleConnection`: signature; blacklist; `join`; a rejected await | `VerifyToken`; `LookBlacklist`; `Join`; `HandshakeError` |
| the connection is lost; socket.io connects again | `Disconnect`; `Reconnect` |
| `useSocket`'s effect: a socket with the new token; its cleanup | `NewSocket`; `NoSocket`, parts of the session's actions |
| the handler of `bet:settled` | `Arrive(b)` with `Announce(b)` |
| a deposit or a stake of the tab itself; its answer | `Ask(d)`; `Answered(d)`, `AnswerLost(d)` |
| `useWallet`'s query: read at the server, answer, failure, new start | `ReadBalance`, `ShowBalance`, `FetchFails`, `Refetch` |
| sign-in; a refreshed token; `client.ts` gives up the session | `SignIn`; `Renew`; `Lapse` |
| logout at the server; `useAuth`'s end of it; the token's `exp` | `Logout`; `SignOut`; `ExpireToken` |

What is abstracted:

- `ReadBalance` reads all that is posted. The replica may lack the latest of it: what
  the properties say of a balance is when it was read, and not that it is complete.
- The queue is a set, and so are the events on their way: two pushes of one bet
  differ from one only in a second toast.
- The handshake's token is three facts: whether there is one, whether it has expired,
  and whether it is blacklisted. How tokens come about is `Sessions`.
- `toasted` begins anew at each sign-in, when a new page begins to announce things.
- react-query is external and taken as the code uses it: `invalidateQueries` starts an
  active query anew, and the answer to the earlier start is ignored, unless there is no
  data yet (`loaded`): the answer to the first query is never ignored, and what was
  announced while it was on its way (`missed`) leads to no other query. A query without
  an observer is only marked; `clear` drops the data. `Lapse` drops nothing, because
  `client.ts` does not know the cache.
- Losing settlements announce no money and are left out, MARKET_* broadcasts are in
  `Pages`, and several API processes and the Redis adapter between them are left out.

### Pages

One tab, and other administrators whose calls the same handlers serve. `calls[c]` is the
c-th call: the handler's next step, whether the tab still waits for the answer (`waits`)
and whether the page that asked is still mounted (`here`).

| Code | Action |
| --- | --- |
| `handlePlace`; the form of a new market | `PlaceBet(m)`; `Create(m)` |
| Suspend and Reopen; Settle and Cancel; Win and Loss | `ChangeStatus(kind, m)`; `AskResult(m)`; `Settle(m)`; all with `Disabled` (`isPending`) |
| a stake or odds the page refuses | `RefuseInput` |
| a link; what a page loses with it, and fetches when it is mounted | `Navigate(p)`; `Forget`, `Unmount`, `Mount` |
| `updateStatus`, `settle`: read and check; save; publication | `CheckStatus(c)`; `Save(c)`; `Publish(c)` |
| `createMarket`: save; publication | `Save(c)`; `Publish(c)` |
| `placeBet`, whole (`BetFlow`) | `TakeBet(c)` |
| an await rejects | `ServerError(c)` |
| `onSuccess`, `onError`; of a creation, with `router.push` | `Succeed(c)`, `Fail(c)` with `Release(c)`; `Created(c)` |
| `fetch` throws or the gateway gives up, and the handler runs on | `LoseAnswer(c)` |
| `market:updated`, `market:created`; while the socket is down | `Arrive(e)`; `LoseEvent(e)` |
| the query: `MarketService.list`, the answer, failure, a new start | `ReadList`, `ShowList`, `FetchFails`, `Refetch` |
| `addToast`; `ToastContainer`'s timer, or its button | `AddToast`, part of what announces something; `Dismiss` |

What is abstracted:

- The list is the administrator's, `[...markets.list(), 'admin']`. The markets page has a
  query of its own, which behaves alike; there, any existing market may be the one
  whose button is pressed, since that list may be behind.
- A market is its status; name, odds and `result` are data. A market that is created is
  one that nobody else is creating (its id is new).
- `settle` is one save here; what it does with each bet is `BetFlow`.
- The way of an event from the publication to the tab is one step, which may be lost
  (`LoseEvent`); queue, worker and room are `Realtime`.
- Toasts are counted: they differ in their text only. An answer or an event waits until
  there is room in the list (`MaxToasts`), which the code's list always has.
- A query that no page uses keeps its data (react-query drops it after 5 minutes, and the
  tab is then as at its first visit). Whether 30 s have passed is not told: the mounted
  page may fetch again (`Refetch`) at any time.
- `missed` and `strayed` record what happened and only the properties read them: a
  change the tab will not hear of, and two handlers that may have overlapped.
- A call that ends when nobody waits for it is forgotten.

## 3. What is checked

Every run checks deadlock freedom of its model too: some step is always enabled.
(The environment can always ask again, so this is weak; the liveness
properties are the ones that say something about waiting.)

### Runs that pass

| Run | Instance | Checks |
| --- | --- | --- |
| `wallet` | two callers, two users, five calls, MaxCents 4; aborts anywhere; a lagging replica | `TypeOK`, `LedgerReplays`, `PostedOnce`, `LockDiscipline`, `CheckStillHolds`; implements `LedgerSpec`; `CallsReturn` |
| `bets_without_faults` | two bets, of which one may be requested twice at once; one worker, one administrator; no faults | `PendingIsOnItsWay`, `NothingDeadLettered`, `LossPaysNothing`; `PendingIsAccepted`, `SettlementEnds`, `PlacementEnds` |
| `bets_with_retries` | two bets, requests of one bet in sequence; one administrator; crashes and errors | `TypeOK`, `FundedBets`, `ChargedAtMostOnce`, `PaidAtMostOnce`, `SettledMarketIsFinal`; implements `BetLifecycle` |
| `bets_with_overlap` | one bet, two administrators, two worker handlers; lost channels, and the restarts they lead to | `WinNotificationPaid`, `PayoutsFollowAcceptance`, `DeadLettersAreAccepted` |
| `sessions` | two tabs with a request each that do not overlap, three grants; expiry at any moment, errors at every await, lost answers | `TypeOK`, `OneLiveToken`, `LogoutEndsSession`; implements `SessionChain`; `RequestsEnd` |
| `gateway` | two requests of one address with one token, limits 1 and 2; either Redis fails at any call, counters are evicted | `TypeOK`, `RevokedStaysOut`, `CounterHasEnd`; `TryAgain` |
| `realtime` | one tab, two settlements, one deposit of its own, prefetch 1; a lost channel, lost connections and answers, errors in the handshake and in the publication, tokens that expire | `TypeOK`, `BalanceCoversToasts`; `SettlementShown` |
| `pages` | one tab, one market in any state, two calls of the tab or of other administrators, two toasts; pages left at any time, handlers that fail at any await, lost answers and events | `TypeOK`, `ListIsCurrent`; `SettledStaysSettled`; `ListCatchesUp`, `ButtonsComeBack`, `ToastsGo` |

What they show:

- **`LedgerReplays`**, **`LedgerSpec`**: no update is lost between two calls, a
  first wallet that is inserted twice, or a `getBalance` that inserts after the
  money arrived, leaves the balance as the audit trail explains it.
- **`PostedOnce`**, **`ChargedAtMostOnce`**, **`PaidAtMostOnce`**: the lookups
  make retries harmless, wherever the earlier attempt stopped.
- **`FundedBets`**, **`WinNotificationPaid`**, **`PayoutsFollowAcceptance`**
  relate three stores that no transaction spans: wallet, bets and notifications.
- **`ImplementsLifecycle`**: no handler undoes, skips or repeats a stage.
- **`PendingIsOnItsWay`**, **`PendingIsAccepted`**, **`NothingDeadLettered`**,
  **`LossPaysNothing`**: what holds while nothing fails. Under faults the code
  does not have them: a crash between the insert and the publication leaves a
  PENDING bet nobody will look at, and a settlement as WIN that stops half-way and
  is repeated as LOSS announces a loss for a bet it has paid. And a crash between the
  worker's update and its ack sends the message of an ACCEPTED bet to the dead letter
  queue when it is redelivered (`SettlementWorker.ts:64` looks for a terminal state, which
  ACCEPTED is not), although the comment in front asks for a silent ack; the bet is unharmed.
- **`DeadLettersAreAccepted`**: that this is all a dead letter can be while the database
  answers. Every message is about a bet with a row, and `transitionStatus` looks at the
  primary, so the worker never gives up a bet that is still PENDING; the mutant that reads
  the lagging replica does. An error at the worker's read or update does dead-letter a
  PENDING bet, which is why the run and the theorem leave `error` out of `Faults`.
- **`OneLiveToken`**, **`ImplementsChain`**: an exchange that stops between the
  save of `used` and the insert of the successor, or whose answer is lost, neither
  leaves two tokens that can be exchanged nor revives a session that has ended.
- **`LogoutEndsSession`**: a logout whose access token has expired is refused,
  refreshed and repeated; it ends the session of the tokens it got on the way.
- **`RequestsEnd`**: one retry is the last one, though the new token may expire
  before it is presented.
- **`RevokedStaysOut`**: a token verified before a logout and put into the cache
  after it opens nothing, as every request looks at the blacklist before the cache;
  and where that Redis is out of reach the guard refuses instead.
- **`CounterHasEnd`**, **`TryAgain`**: however requests, evictions and the end of a
  window interleave, one request sees 1 and sets the expiry. The one way to a counter
  without an end is a failure of Redis just then (`lost`), which the code has: the
  address is then refused until its key is evicted.
- **`BalanceCoversToasts`**: the balance that a tab shows as fresh was read after
  everything it has announced was posted. An announcement that meets a query under
  way starts it anew, and the credit precedes the message.
- **`SettlementShown`**: a message in the queue reaches a tab that stays in its room,
  also when the channel is lost around the push, and when the messages before it found
  nobody: those are acknowledged all the same and do not fill the prefetch.
- **`ListIsCurrent`**, **`ListCatchesUp`**: an event that meets a query under way starts it
  anew, and one that meets a page elsewhere marks the list; so a list that counts as fresh
  shows each market as it is or as a change still under way will correct. The gaps are
  named (`missed`): an event pushed while the socket is down, a change whose publication
  failed, and one that comes while the first list of the tab is loading.
- **`SettledStaysSettled`**: `updateStatus` can undo a settlement (`reopened_market`). One
  administrator's page cannot bring that about: it disables all its buttons while one of
  its two mutations is pending. The property says how far this carries, and `strayed`
  where it ends: another administrator, a page left while a call is under way, or an
  answer that is lost and tried again.
- **`ButtonsComeBack`**: whichever page is mounted when an answer comes or is lost, no
  button stays disabled.
- **`ToastsGo`**: one timer for the newest toast, set anew by each change, empties the list
  once no more toasts come. While they come the older ones stay, however old; what
  `UiSlice.ts:26` says ("Each toast auto-removes itself after a timeout") holds in the end only.

### Runs that show a disagreement

Each has one property, taken from a comment or a document, and TLC finds the
behaviour of the code that contradicts it.

| Run | What the repository says | What the code does |
| --- | --- | --- |
| `double_tap` | `README.md:90`: "Network retries and double-taps return the original cached response without re-processing." | Two overlapping requests with one `clientMutationId` find no debit, and both take the stake. The unique index refuses the second bet; its stake stays taken |
| `stranded_bet` | `MarketTypes.ts:9`: "All ACCEPTED bets on this market are paid out at their stored payoutCents" | `settle` reads the accepted bets once. A bet accepted after that stays ACCEPTED on a market that cannot be settled again |
| `reopened_market` | `MarketEntity.ts:19`: "SETTLED is terminal — market cannot be re-opened." | `updateStatus` saves a status it checked earlier; a suspend or reopen that overlaps a settle overwrites SETTLED |
| `reused_cookie` | `IdentityService.ts:150`: "A used token being replayed is an unambiguous theft signal." | Two tabs that refresh at once present the same cookie; the slower one is taken for a thief and the family of the faster one's new token is revoked |

### Bounds

- **Users, markets.** One of each in `BetFlow` (two users in `Wallet`): bets of
  different users share nothing, and markets share only the wallet of a user,
  which two bets of one market share as well.
- **Bets.** Two, with stakes 1 and 2, odds 2.00 and a deposit of 2: the deposit
  pays for either bet and not at once for both, and a payout of the first pays for
  the second. One bet where handlers overlap, as every property there speaks of
  one bet; the deposit may then fill the account, so that its payout is refused.
- **`MaxCents`** (2147483647 in the column) is 4 or 5: deposits and payouts reach
  it, so the refusal of a sum the column cannot hold occurs. Every payout fits
  the column by itself in these instances: the branch of `InsertBet` that
  refuses one is proved about and not reached by TLC.
- **Handlers.** Two of a kind where overlap is the question, one where it is not.
  More than two calls on one row line up behind each other.
- **Faults.** `RequestError`, `WorkerError`, `BetError` and `AdminError` occur in
  `bets_with_retries`; `LoseChannel`, `Republish` and `AnswerOnLostChannel` in
  `bets_with_overlap`; `Crash` in `bets_with_retries`. Their number is not bounded.
- **Grants.** `Token` bounds how many pairs of tokens a behaviour has. Three make a
  login and two exchanges, or two logins and an exchange; `GrantsLeft` keeps back a
  grant for each request under way, so that none is cut short. A refresh needs one.
- **Tabs.** Two, with one request each. A tab with several requests differs from
  several tabs only in sharing its store, and requests that overlap are the subject
  of `reused_cookie` alone.
- **Gateway.** Two requests make every race for a counter and for the cache; a third
  request can only repeat what one of them does after it was answered, since requests
  come again without bound. Limits of 1 and 2 let a request of one kind be refused by
  what another has counted.
- **Realtime.** Two settlements are as many as let one wait behind the other at a
  prefetch of 1 (the code has 5, for any number of users), and let one be announced
  while the other's query is under way; the deposit is the third posting, which no
  message announces. One lost channel: a second does to a message what the first
  did. Lost connections, expiries and sign-ins are not bounded.
- **Pages.** Two calls are as many as can be in each other's way: a settlement and a
  reopening, a bet and a creation that takes its page away. `MaxCalls` bounds the calls of a
  behaviour, so every run ends with its calls; pages, queries and failures go on without
  bound. One market: no call, button or event relates two, but for `placingFor`, which one
  market takes over from another; what the invariants of the proofs say was checked with two.
  Two toasts let one wait behind another (`MaxToasts`).
- **Ledgers** grow only by postings, which the column's bound and the lookups keep
  few; no run needs a state constraint.
- **Symmetry** (handlers of one kind) is used in the two large runs without
  liveness properties. No definition tells handlers of one kind apart.

### Fairness

`Wallet`: strong fairness of each caller's next step. Postgres queues the waiters
of a row lock, so a caller at `LockWallet` or `InsertWallet` is not overtaken for
ever though the step is enabled only now and then. `Abort` and `Refuse` end a call
too; nothing is assumed about when calls arrive.

`BetFlow`: weak fairness of each handler's next step. Once an `await` has
resolved the event loop gets to the continuation, and an idle worker's next step is
the delivery of a queued message. No fairness is assumed for requests,
administrators' calls, the expiry of keys or faults, and the liveness properties
are stated for runs without faults only: after a crash no code takes up what was
interrupted.

`Sessions`: weak fairness of each request's next step at the server and in the
browser. None for new requests, expiry or faults; a fault ends a request or is
answered, so that `RequestsEnd` holds with them.

`Gateway`: weak fairness of a request's step in `rate_limit.lua`, which runs on when
Redis has answered or has timed out, and of the end of a key that has an expiry. None
for arrivals, evictions, faults, or the steps behind the limiter.

`Realtime`: weak fairness, for each bet, of its delivery, of its ack and of its event's
arrival. A consumer with room is given the next message, a handler that does not wait
for anybody acknowledges, and a socket that stays open delivers in the end. None for
settlements, handshakes, queries, sessions or faults.

`Pages`: weak fairness of the handlers' steps together with the answers (calls are bounded, so
none is left out for ever), of the events' arrival, of the query's two steps, and of the timer.
None for clicks, other administrators, new starts of the query or faults.

## 4. What is proved

For any sets of users, references, bets, markets and handlers, any slips, odds and
deposits, any tabs, requests, addresses and tokens, any limits, any prefetch, any choice of
faults and any `MaxCents > 0`, from the `ASSUME`s of `Ledger`, `Wallet`, `BetFlow`,
`Sessions`, `Gateway`, `Realtime` and `Pages` (which TLC evaluates on every run):

| Theorem | Statement |
| --- | --- |
| `LedgerTypeCorrect`, `LedgerExplainsBalance`, `LedgerPostsOnce` | `LedgerSpec => []LedgerTypeOK`, `[]LedgerReplays`, `[]PostedOnce` |
| `LedgerTrailStays` | `LedgerSpec => [][TrailIsImmutable]_<<balance, ledger>>` |
| `WalletTypeCorrect` | `Spec => []TypeOK`: every balance is in `0 .. MaxCents` |
| `WalletLockDiscipline` | `Spec => []LockDiscipline` |
| `WalletReplays` | `Spec => []LedgerReplays` |
| `WalletPostedOnce` | `Spec => []PostedOnce` |
| `WalletCheckStillHolds` | `Spec => []CheckStillHolds` |
| `WalletImplementsLedger` | `Spec => LedgerSpec` |
| `WalletTrailStays` | `Spec => [][TrailIsImmutable]_<<balance, ledger>>` |
| `WalletCallsAdvance` | `Spec => [][CallsAdvance]_vars`: each step of a call lowers what is left of it |
| `WalletWaitsAreShort` | `Spec => []WaitsAreShort`: whoever waits for a row waits for a transaction that waits for nobody |
| `FlowTypeCorrect` | `Spec => []TypeOK` of `BetFlow` |
| `FlowFundedBets` | `Spec => []FundedBets` |
| `FlowWinNotificationPaid` | `Spec => []WinNotificationPaid` |
| `FlowPayoutsFollowAcceptance` | `Spec => []PayoutsFollowAcceptance` |
| `FlowChargedAtMostOnce` | `Spec => []ChargedAtMostOnce` |
| `FlowPaidAtMostOnce` | `Spec /\ []SettlementsApart => []PaidAtMostOnce` |
| `FlowImplementsLifecycle` | `"reconnect" \notin Faults => (Spec /\ []SettlementsApart => ImplementsLifecycle)` |
| `FlowClosedStaysClosed` | under the same: `[][ClosedStaysClosed]_vars`, a SETTLED bet is neither reopened nor paid late |
| `FlowSettledMarketIsFinal` | `Spec /\ []SavesApart => SettledMarketIsFinal` |
| `FlowLossPaysNothing` | `Faults = {} => (Spec /\ []SettlementsApart => []LossPaysNothing)` |
| `OneAdministratorIsApart` | `OneAdministrator => (Spec => [](SettlementsApart /\ SavesApart))` |
| `FlowExplainsBalance` | `Spec => []LedgerReplays` |
| `FlowTrailStays` | `Spec => [][TrailIsImmutable]_vars`: rows of the audit trail are never changed or removed |
| `FlowImplementsLedger` | `Spec /\ []SettlementsApart => LedgerSpec` |
| `FlowExplainsRows` | `Spec => []RowsAreExplained`: every row is a deposit, a stake, or a payout behind its stake |
| `FlowMessagesHaveRows` | `Spec => []MessagesHaveRows`: no message without its bets row |
| `FlowDeadLettersAreAccepted` | `"error" \notin Faults => (Spec => []DeadLettersAreAccepted)` |
| `FlowHandlersAdvance` | `IsFiniteSet(Bet) => (Spec => [][HandlersAdvance]_vars)`: each step of a handler lowers what is left of its run |
| `FlowPendingIsOnItsWay` | `Faults = {} => (Spec => []PendingIsOnItsWay)` |
| `FlowNothingDeadLettered` | `Faults = {} => (Spec => []NothingDeadLettered)` |
| `SessionsTypeCorrect` | `Spec => []TypeOK` of `Sessions`, with overlap too |
| `OneLiveTokenPerLogin` | `Serial => (Spec => []OneLiveToken)` |
| `LogoutIsEffective` | `Serial => (Spec => LogoutEndsSession)` |
| `SessionsImplementChain` | `Serial => (Spec => ImplementsChain)` |
| `EndedSessionsStayEnded` | `Serial => (Spec => [][EndedStaysEnded]_Phase)`: no session is revived |
| `SessionRequestsAdvance` | `Spec => [][RequestsAdvance]_vars`, with overlap too: each step of a request lowers what is left of it |
| `GatewayTypeCorrect` | `Spec => []TypeOK` of `Gateway` |
| `CountersEnd` | `Spec => []CounterHasEnd` |
| `RevokedTokensStayOut` | `Spec => []RevokedStaysOut` |
| `RealtimeTypeCorrect` | `Spec => []TypeOK` of `Realtime`: no session, no socket; events travel only to a socket in the room |
| `BalanceIsNotOlder` | `Spec => []BalanceCoversToasts` |
| `NewsIsPosted` | `Spec => []NewsIsTrue`: what is announced, or on its way to be, has been posted |
| `RoomLosesNothing` | `Spec => [][RoomKeepsHeard]_vars`: while the tab stays in its room, what it is to hear of does not get lost |
| `PagesTypeCorrect` | `Spec => []TypeOK` of `Pages`: a page's state goes with the page |
| `ListStaysCurrent` | `Spec => []ListIsCurrent` |
| `SettlementStays` | `Spec => SettledStaysSettled` |
| `ButtonsWaitForCalls` | `Spec => []DisabledForACall`: a bet button is disabled only while its bet is under way |

The arguments:

- **Ledger.** `PostReplays` and `PostedAfter` say once what appending a row does;
  both specifications use them. `LedgerInv` (types, replay, no repeated posting) is
  inductive for `LedgerSpec`, so each of the three holds of all that implements it; and a
  posting appends (`PostKeepsTrail`), which is `WalletTransactionEntity.ts:11` ("rows are
  never updated or deleted").
- **Wallet.** `LedgerReplays` is not inductive: `Commit` computes from a balance
  that was read earlier. `LockDiscipline` is what makes it so: a transaction past
  its lock is alone on its wallet and has read the balance that is still there,
  and a user without a row has no history. `LockWallet` and `InsertWallet`
  establish it, nothing but the holder's own step disturbs it. `PostedOnce` rests
  on `CheckStillHolds`: past its lookup, a call on a `Unique` reference is alone
  and nothing is posted for it. The refinement is then direct: `Commit` is the
  only step that changes the ledger, and it satisfies `PostOnce`.
- **Wallet, waiting.** `CallLeft` counts the steps a call can still take: no step goes back,
  and no call moves another's. `LockDiscipline` puts the holder of a lock at its last
  step, where it needs no lock, so nobody waits behind somebody who waits.
- **BetFlow, types.** The invariant includes `AdminSteps` (which arguments a call
  has at which step): without it `SaveStatus` could write a result as a status.
- **BetFlow, money.** `MoneyInv` in `BetMoneyProofs` says what each handler knows
  at each step and the store cannot forget: a request at its insert knows that the
  stake is taken (`ReqKnows`), a worker at its update that the bet is on the books
  (`WorkerKnows`), a settlement with a bet in
  hand that it has been accepted and, at `close` with WIN, that it has been paid
  (`AdminKnows`); together with `RowsExact` (a row for a bet has the stake or the
  payout as its amount) and `Booked`. The lemmas `LedgerSteps`, `BetSteps`,
  `NoteSteps`, `ReqSteps`, `WorkerSteps`, `AdminStepsOfNext` say once which actions
  write a variable; `StepGrows` that no step takes back a charge, a payout or an
  acceptance. Knowledge therefore stays true under every interleaving, and each
  conjunct has to be looked at only where its own handler moves.
- **BetFlow, one charge.** `ChargeInv`: requests for a `Unique` bet are alone; one
  that is about to post has found nothing; so nothing is there when it posts.
- **BetFlow, one payout.** `PayInv` is the same for settlements. Nothing but
  `SettlementsApart` makes a settlement alone on its bet: `settle` holds no lock, and
  its lookup of an earlier credit is outside the wallet's transaction. Settlements of
  different markets may overlap at will: they have no bet in common (`OwnBets`).
- **BetFlow, audit trail.** Each step posts one row or none (`LedgerSteps`), and posts it from
  the balance it finds: the wallet's transaction is one step here, which
  `WalletImplementsLedger` justifies. `FlowImplementsLedger` is the other half: the two
  callers of the wallet keep the ledger's rule for a `Unique` reference, since `ChargeInv`
  and `PayInv` say that nothing is there when they post.
- **BetFlow, stages.** `StageInv`: without a lost channel there is one handler, on a live
  channel (`OneMessage`), so the bet it updates is still PENDING (`UpdatesPending`); with
  settlements apart the bets still to be settled are ACCEPTED, and so is the one in hand up to
  its closing (`PaysAccepted`). With `MoneyInv` and `PayInv` each step then moves one bet
  one stage. `FlowClosedStaysClosed` is read off the abstract lifecycle, which has no step
  from SETTLED.
- **BetFlow, markets.** `SavesLive`: what an administrator's call is about to save over is not
  SETTLED, because only a settlement could have made it so since, and `SavesApart` keeps
  those away.
- **BetFlow, while nothing fails.** `JourneyInv`: a PENDING bet is in the queue, with its
  request or in the worker's hands, in one of them only, and what is there is about a bet
  that is PENDING; so the worker never meets a bet for which the update is refused, and
  dead-letters nothing. `LossInv`: a bet that is paid and not closed is about to be closed
  by the call that paid it, so a settlement with LOSS does not come across it.
- **BetFlow, dead letters.** `Spoken` is what is in the queue, with a worker or about to be
  published: `placeBet` publishes after the insert, so each has a row (`MessagesHaveRows`), and
  no code sets VOID or CANCELLED (`InUse`). The worker then refuses accepted and settled bets
  only (`RefusesTaken`), and `StepGrows` keeps those accepted.
- **BetFlow, handlers.** `RequestLeft`, `WorkerLeft` and `AdminLeft` count the steps a
  handler can still take, a settlement's at most five for each bet it has read and a few
  more. A step lowers its handler's count; a bet that is skipped for an error
  leaves `todo` as one that is paid does. `Cardinality(todo)` needs `Bet` to be finite.
- **Sessions, types.** `Equipped` is part of the invariant: the step a request has
  come to says which tokens it holds.
- **Sessions, one live token.** `ChainInv`: with `Serial`, one request at a time is
  under way (`Alone`); a family is the first token of a login (`Roots`); a refresh
  about to save has a token that is neither used nor revoked, and one about to
  insert has a family without a live token (`Exchanging`). `OneLiveToken` alone is
  not inductive, because the insert does not look at its family.
- **Sessions, logout.** `LogoutInv`: a call carries what the tab and the cookie jar
  hold, and after each write of `logout` one of the two is of no use (`Leaving`).
- **Sessions, chain.** A phase is a function of all rows of a login; `PhaseIsRight` takes it
  apart. With `ChainInv`, `IssuedInv` (what is held or used has a row) and `LoginPath` (a
  login makes no exchange), a step changes the phase of one login (`OneTurn`) or of none
  (`PhaseSame`): the row that is used up was the login's only live one, and the insert that
  revives it belongs to the exchange under way. `EndedSessionsStayEnded` follows from the
  chain, which has no way back from its end.
- **Sessions, requests.** `StepsLeft` is a count as in `BetFlow`. It holds without `Serial`:
  after its retry a request that meets a 401 ends.
- **Gateway, counters.** `CounterHasEnd` is inductive with the types: only `Incr`
  begins a counter, and it leaves its request at `expire`; only `SetExpiry` and a
  fault take a request away from there.
- **Gateway, logout.** `RevokedInv`: a token whose logout was answered is on the
  blacklist or expired (an entry outlives its token), and a late request that is past
  a look at the blacklist has an expired token (`Past`, `Barred`). A request in front
  of such a look may be anywhere, which is why a failing Redis does no harm.
- **Realtime, balance.** `CoverInv`: whatever is on its way to the tab, as a message,
  an event or an answer, has been posted; and what a query has read, once it has
  read, covers what is announced. The property itself speaks only of the moment after
  the answer, so the second part is what `ShowBalance` needs.
- **Realtime, news.** The first part of `CoverInv` is `NewsIsTrue`. In a room a message moves
  from the queue to the wire to the toasts, and each step that takes one away leaves it in
  the next or puts it back; where it does get lost, `conn` leaves the room.
- **Pages, list.** `CurrentInv`: what a query has read, or what is in the cache, differs from
  the markets only where a change is still to arrive, or something is `missed`. The property
  speaks of the cache alone; the part about the query is what `ShowList` needs.
- **Pages, settlement.** `SettleInv`: as long as nothing has strayed, at most one call that
  updates is under way, the mounted page has asked for it, and one about to save has a market
  that is not settled (`OneUpdate`). A call that begins finds no other, because the page's
  buttons are disabled while one is pending. `Known` and `Creators` keep a creation away from
  a market that exists: what is shown exists, and one that is being created is still absent.
- **Pages, buttons.** `placing` is set with the call and cleared with the page or the answer;
  so a disabled button has a call that the mounted page waits for (`BetFor`).

`SettlementsApart` says that two calls do not settle one market at the same time, and
`SavesApart` that no other status is saved while one does. They are assumptions about how the
system is used, and not ensured by the code, as `reopened_market` shows for the second; they
allow any number of administrators, on different markets or one after the other. The runs make
them true by having one administrator, and `OneAdministratorIsApart` proves that this
suffices. `Serial` is such an assumption about a browser. `IsFiniteSet(Bet)` is true of every
behaviour of the code, in which a settlement has read finitely many bets.

Only model-checked: everything under fairness (`CallsReturn`, `PendingIsAccepted`,
`SettlementEnds`, `PlacementEnds`, `RequestsEnd`, `TryAgain`, `SettlementShown`,
`ListCatchesUp`, `ButtonsComeBack`, `ToastsGo`), as liveness is beyond this prover. For most of
them the safety half is proved, that is, what has to be true for fairness to be enough: the
steps left grow fewer (`WalletCallsAdvance`, `FlowHandlersAdvance`, `SessionRequestsAdvance`),
nobody waits in a circle (`WalletWaitsAreShort`), nothing that is waited for gets lost
(`FlowPendingIsOnItsWay`, `RoomLosesNothing`, `ButtonsWaitForCalls`), and a counter has its end
(`CountersEnd`). That a step is enabled where something is left to do is TLC's to check.
Every other property of the passing runs is stated by one of these theorems.

## 5. What is left out

- **Read-only operations** (`getTransactions`, `getBets`, `getBetById`,
  `getMarket`): no state changes.
- **Several API processes.** `Crash` stops all handlers at once and one consumer
  channel is modelled, as in the compose file; a second process would add
  handlers of the kind `Worker` already has.
- **The primary losing data** and replication other than its lag.
- **Registration**: one insert behind a unique index.
- **`RolesGuard`**: it keeps no state; `BetFlow`'s administrators have the role.
- **A thief**: `Sessions` has one browser, so the reuse of a stolen token does not
  occur in it.
- **The content of a lagging replica** in the balance that is shown: `Realtime` says when it
  was read.
- **The list of bets**: `useSocket` and the markets page invalidate it where they invalidate
  the balance, and it is fetched the same way.
- **The cache of markets beyond a visit**: what a sign-out drops and what react-query
  collects. Whatever is dropped is fetched anew.
- **The role of the tab's user**: `AdminLayout` and `RolesGuard` compare a role that no code
  changes; the user of `Pages` has it.
- **Gateway and sessions together**: `Sessions` takes a refusal by the gateway as one
  of its errors (`ServerError`); `Gateway` takes the tokens as given.
- **A Redis that loses what it has acknowledged**: the blacklist is written to disk
  once a second.
- **Configuration, bootstrap, seeds, migrations, the task queue demo, layout and
  styles**: no behaviour of the kind these modules are about.

## 6. The plan

Done: `Ledger`, `Wallet`, `BetLifecycle`, `BetFlow`, `SessionChain`, `Sessions`,
`Gateway`, `Realtime`, `Pages` and their proofs. The order of what follows is by weight.

1. **`Sessions`, further.** Registration; two browsers, so that a token may be
   presented by someone who should not have it, with the property that from then on
   neither of the two can exchange anything; what still holds when requests overlap;
   a refresh that fails with a 429 or 5xx while the session lives on at the server
   (`client.ts:62`).
2. **`Realtime`, further.** A replica with lag of its own, against `useSocket.ts:91`
   ("so the UI reflects the new state"); a signed-in tab whose reconnection is
   refused for its expired token (`useSocket.ts:62`); the balance that `Lapse` leaves
   for the next user of the browser.
3. **`Pages`, further.** Markets as rows with an event of their own, so that a creation that
   has failed after its save and is tried again shows as two of one event
   (`MarketService.ts:71`).
4. **Proofs, further.** What holds of `Sessions` without `Serial`: of two requests that
   overlap, which keeps a token that can be exchanged. The safety halves of
   `ListCatchesUp` and `ToastsGo`: a list that is behind is marked or has a query or an
   event coming, and every change of the toasts leaves a timer behind while there are any.
