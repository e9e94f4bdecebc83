# Verification of the fast-api-base shop backend

TLA+ models of the concurrent core of this repository, TLC configurations that
check them on small instances, and TLAPS proofs of what matters most for every
instance. Paths below are relative to the repository root; `services/`,
`endpoints/`, `models/` stand for `app/app/api/api_v1/services/`,
`app/app/api/api_v1/endpoints/` and `app/app/models/`.

## 1. The system

A FastAPI application (several gunicorn/uvicorn workers) over PostgreSQL
(SQLAlchemy asyncio sessions, READ COMMITTED), Redis (response cache, token
blacklist) and Celery. Each request gets one database session from `get_db()`
(`app/app/api/deps.py:51`); the session ends with the handler's COMMIT or is
rolled back when the handler raises. Handlers of one worker interleave at every
`await`; handlers of different workers interleave anywhere.

| Component | State | Operations | What is hard | What makes it correct |
|---|---|---|---|---|
| Checkout and stock, `services/ecommerce.py` | `productvariant.stock`, `orderitem`, row locks, identity map of each session | `checkout()` | locks taken after the row was loaded, lock order, roll back in the middle of the loop | no unit is sold twice or lost, stock is never negative, every request ends |
| Connection pool, `app/app/db/session.py` | connections in use, per process | the first statement of a session, COMMIT, `refresh()` | checkout waits for the pool twice, the second time behind its COMMIT; a client repeats a request that failed | nobody holds a row while waiting for the pool, every request is answered, one order per request unless an answer was lost |
| Cart, `services/ecommerce.py` | `cart`, `cartitem` | `add_to_cart()`, `get_cart()` | check-then-insert, read-modify-write without a lock | one cart per owner, acknowledged quantities are in it |
| Storefront endpoints, `endpoints/ecommerce.py` | none of its own | `/cart/add`, `/cart`, `/checkout` | who is the owner of a cart | the order holds what the cart shows |
| Order and payment | `order.status`, `order.tracking_code`, `payment.status` | `payment_webhook()`, `complete_order()` | duplicated, late and reordered webhooks, outdated rows, two rows in one COMMIT | a paid order leaves pending; a completed order keeps its tracking code; both rows show the last word said about them |
| OTP authentication | `user.is_active`, `user.phone_number`, `authtoken` | request a code, register, login, refresh, (de)activate, update a user | is_used checked in one step and set in another, code collisions, unique phone, numbers that change hands | a code or refresh token yields one session; active accounts were proven; nobody is stuck in a registration |
| Response cache, `app/cache/` | Redis keys of a namespace, connection status | `cache()`, `invalidate()`, expiry, startup; functions that change the data without `invalidate()` | a read overlapping a change, a row the gate loaded before, list-then-delete, Redis missing at startup | what is cached is outdated for known causes only, and only for a while |
| Password login, access tokens, logout, `app/app/core/security.py`, `services/auth.py` | JWT, blacklist keys in Redis | `login`, `logout`, `decode` | expiry against the blacklist entry's expiry, two roundings, a SET that is executed late | a token logged out stays out until it expires |
| Request gate, `app/app/api/deps.py`, `app/app/utils/user_role.py` | what a request has passed so far | `get_current_user` (`check_user_role` is never reached) | accounts, tokens and the blacklist change between its awaits | the verdict fits the account as it was during the request |
| User table, `app/app/crud/`, `services/auth.py`, `services/users.py`, `services/ecommerce.py` | `user` | `register`, `update_user`, `remove`, `set_user_activation`, users of OTP registration | check-then-insert, soft delete, partial updates of outdated rows | usernames do not repeat, a removed or deactivated user stays so |
| Catalogue, `services/ecommerce.py`, `models/ecommerce.py` | `brand`, `category`, `product`, `productvariant` | `create_category()`, `create_product()`, `seed_catalog()` | uncommitted unique slugs make others wait | nobody waits in a ring, the samples come as a whole |
| Seeding, `app/app/db/init_db.py`, `app/initial_data.py` | none of its own | `init_db()` | two transactions, and starts that overlap or die in between | the samples are there as a whole or not at all; a later start adds them only where no product is there, an administrator's own included |
| Router, Celery, request log, health, messages | | | | see section 7 |

Interactions: the storefront endpoints call the cart and checkout services;
checkout reads the cart's tables and leaves `order` and `payment` behind, which
the webhook and the administrators then change; every request shares its
process's connection pool; the user endpoints go through the response cache;
OTP registration, the user endpoints and seeding share the table `user`, whose
rows the request gate reads for every administrator's call; seeding and the
administrators share the catalogue.

### Reachability at this commit

* `deps.py:179` reads `current_user.id_`, an attribute no model has, so every
  endpoint behind the gate fails after authentication (finding 4), those of
  logout and of the older registration (`endpoints/auth.py:34-63`) included.
  RequestGate models the line as it is: whoever gets there has the verdict
  "error", and the role check behind it is never reached. Operations behind the
  gate (`logout()`, `complete_order()`, `set_user_activation()`, the cached user
  endpoints) are therefore modelled as what the service functions and the
  decorators do when called. Where this changes what a property says, the model
  has a constant: `Admins` (OrderPayment), `AdminsAdmitted` (OtpAuth) and
  `Undecorated` (CachedRead).
* Nothing sets `request.state.user_id` on the cart routes, so carts belong to
  session tokens or to nobody (`token |-> Null`); `/checkout` acts for user 1
  (`endpoints/ecommerce.py:161`). Checkout models the service function for
  any cart it may find; Storefront models what the endpoints make of it.

## 2. Modules

| Module | Models | Actions and code |
|---|---|---|
| `Inventory` | the abstract promise about stock, without carts, sessions or locks | one order at a time: `ExactOrder` (a ledger) or `LooseOrder` (what is left of it under overlap) |
| `Checkout` | `checkout()` in overlapping sessions | `GetCart` (lines 240-248: the join loads stock into the identity map), `AskForRow`, `TakeLine`, `RefuseLine` (249-261), `Commit` (262-272), `DeadlockVictim` and `Abandon` (rollback of `get_db()`) |
| `CheckoutProofs` | theorems about Checkout and ConnectionPool | |
| `ConnectionPool` | extends Checkout with the pool of each process, its timeout, and clients that repeat a failed request | `Arrive`, `Enter` (the first SELECT of `get_cart()`), `LoopStep`, `FailInside`, `CommitOrder` (lines 262-269), `Refresh`, `Answer`, `FailReading` (270-272 and the answer), `GiveUp` (pool_timeout) |
| `Cart` | `add_to_cart()`, `get_cart()` | `FindCart`, `NewCart`, `TooManyCarts` (183-192), `ReadLine` (193-199), `Commit`, `CommitFails` (200-204), `Abandon`; `Shown` is `get_cart()` |
| `Storefront` | extends Cart with the endpoints' choice of owner | `PlaceOrder` |
| `CartProofs` | theorems about Cart and Storefront | |
| `OrderPayment` | one order and its payment | `SelectPayment`, `GetOrder`, `CommitWebhook` (endpoints 190-202), `LoadOrder`, `CommitComplete` (services 316-325), and rollbacks |
| `OrderPaymentProofs` | theorems about OrderPayment | |
| `OtpAuth` | codes, refresh tokens, activation, numbers of users | one action per await of `request_register_otp()` and `request_login_otp()` (`ReadAccount`, `FlushUser`, `CommitOtp`, `CodeCollides`), `register_user()` and `login_with_otp()` (`ReadOtp`, `LoadAccount`, `CommitRegister`, `CommitLogin`), `refresh_access_token()` (`ReadRefresh`, `CommitRefresh`), `set_user_activation()` and `update_user()` (`LoadUser`, `CommitActivation`, `CommitUpdate`); `Fails` and `Abandon` are rollbacks |
| `OtpAuthProofs` | theorems about OtpAuth | |
| `CachedRead` | `cache()`, `invalidate()`, Redis, behind the gate | `PassGate` (which loads the administrator's row), `Miss`, `RunHandler`, `AddToCache`; `ListKeys`, `DeleteKeys`, `Change`; `ChangeUndecorated` (`set_user_activation()`, `update_multi()`, OTP registration, `create_super_admin()`); `Expire`, `Restart` |
| `CachedReadProofs` | theorems about CachedRead | |
| `TokenLifetime` | tokens and blacklist entries against a clock | `Tick`, `Login`; `Decode`, `DecodeExpired`, `Admit`, `Refuse` (`deps.py` 74-92); `ComputeExpiry`, `StoreToken`, `FailLogout` (`services/auth.py` 43-63) |
| `RequestGate` | extends TokenLifetime with accounts and the gate | `BeginBearer`, `TokenAccepted`, `TokenRefused` (`deps.py` 150-160), `BeginBasic` (162-173), `ReadRow` (175-179, no await inside), `ChangeAccount` |
| `RequestGateProofs` | theorems about TokenLifetime and RequestGate | |
| `UserTable` | rows of `user` under the functions that write them | `LookUpName`, `LookUpPhone`, `CommitInsert`; `LoadUser` (`update_user()`), `LoadAnyUser` (`set_user_activation()`, `register_user()`: removed rows too), `CommitUpdate`; `Remove`, `Abandon` |
| `UserTableProofs` | theorems about UserTable | |
| `Catalogue` | slugs of brands, categories and products, and the transactions that insert them | `CreateCategory`, `CreateProduct`, `Seed`; `Insert`, `CommitRows`, `Clash`, `Fail` |
| `Seeding` | extends UserTable with `init_db()`, over an INSTANCE of Catalogue | `StartCreating`, `StartFinding`, `CreateSuperAdmin` (`init_db.py` 13-24), `StartSeeding`, `SeedStep`, `StartEnds` (27-60), `StartDies`; `OtherUserCall`, `OtherCatalogueCall` |
| `SeedingProofs` | theorems about Seeding | |
| `MC*` | instances for TLC | |

Checkout implements the abstract Inventory (`Shelf == INSTANCE Inventory WITH
...`, `KeepsLooseLedger`, `KeepsExactLedger`): that is a result about the code.
ConnectionPool extends Checkout, Storefront extends Cart, RequestGate extends
TokenLifetime, and Seeding extends UserTable and instantiates Catalogue (`Store ==
INSTANCE Catalogue WITH Sessions <- Calls, ...`). Each composes the actions of
the other module with variables of its own, so it implements the other by
construction. The proofs need this as a lemma, to carry theorems over; no run
checks it.

How the code's concurrency becomes actions: a step runs from one `await` to the
next, because other requests (of this or another worker) run in between. A
SELECT sees what is committed (READ COMMITTED). A COMMIT publishes everything
the session wrote, at once. A row read by a session is kept in its identity map
and neither refreshed nor expired (`expire_on_commit=False`, no
`populate_existing`, `autoflush=False`); at COMMIT the ORM writes the columns
whose value differs from the one loaded, as absolute values (`Flushed` in
OrderPayment and OtpAuth, `Written` in UserTable, `StockAfter` in Checkout). An exception at any await
is `Abandon`: the session is rolled back and its locks go.

PostgreSQL is modelled from its use here: row locks of FOR UPDATE that end with
the transaction, a deadlock detector that fails a session waiting in a ring,
unique constraints checked against committed rows at flush or COMMIT, an insert
that waits for an uncommitted insert of the same unique value.

## 3. Runs

Each run is `tlc -config <cfg> <module>`.

| Run | Bounds | Shows |
|---|---|---|
| `MCCheckout.cfg` | 2 requests, 2 variants with 2 and 1 units, every cart of 0..2 units each | stock is never negative, no unit vanishes, stock changes only under its lock, the loose ledger is implemented, the books balance unless two sessions share a variant, every checkout ends |
| `MCCheckoutOversell.cfg` | 2 requests | **violated**: more is sold than there was |
| `MCConnectionPool.cfg` | 3 requests of 2 processes with 1 connection each, 2 variants with 1 unit, up to 2 orders per client | nobody waits for the pool with a row locked, a repeated request orders twice only after an answer was lost behind COMMIT, every request is answered |
| `MCCart.cfg` | 2 calls, 2 owners, 1 variant and 1 unknown id, quantities 1 and 2, integers to 3, 2 carts | lost updates lower a line below what was acknowledged but never raise or drop it; without overlap nothing is lost; a call writes its own line only |
| `MCStorefrontGuest.cfg` | 1 call, 2 guests | **violated**: the order does not hold the guest's cart |
| `MCOrderPayment.cfg` | 2 webhooks, 2 completions, all statuses, 2 tracking codes | a succeeded payment's order is never pending, orders never move back to pending nor lose their tracking code, without overlap payment and order show the last words of provider and administrators, an order leaves pending only on somebody's word, a completed one has its tracking code, duplicates of one success message are harmless |
| `MCOtpAuth.cfg` | 2 calls, 2 users, 2 numbers, 1 code per kind and number, at most 2 stored (`FewCodes`), 2 sessions, administrators, nobody seeded | active accounts, login codes and sessions go back to a redeemed registration code or a person; no number is taken by a user without a code; sessions have a source; a token is used once unless two calls are past its check together, and never more often than calls overlap; the registration code of a former number registers nobody |
| `MCCachedRead.cfg` | 2 readers, 2 writers and undecorated ones, 2 keys, 2 changes, restarts with or without Redis | a response is outdated only if the reader that stored it, between its miss (or the gate, if the row is its own) and its store, overlapped a writer, or if the data changed without Redis or without a decorator; outdated ones go away |
| `MCCachedReadRace.cfg` | as above, Redis always there, all writers decorated | **violated**: an outdated response survives a change |
| `MCRequestGate.cfg` | 1 login, 1 request, 2 logouts, 1 user whose account changes at any time, 3 ticks to the second, tokens of 2 seconds, a clock to tick 8 | who gets past the last check was entitled at one moment of the request, who was entitled all along is not turned away; a blacklist entry falls short of its token by less than a second, and only in that second does a token get in after its logout |
| `MCRequestGateAttribute.cfg` | 2 requests, 1 logout, a clock to tick 9 | **violated**: an entitled user gets an error |
| `MCSeeding.cfg` | 2 calls, each a start, a user call (activation of any row included) or an administrator; 2 rows, 3 usernames of which 2 are phone numbers, 4 updates; 1 sample product, whose slug and the sample category's administrators take too | the samples come as a whole or not at all, nobody waits in a ring, usernames repeat in three ways only, no update brings back an overwritten column |

Why the bounds are enough: the code's steps involve two parties at most (a
holder and a waiter, an old and a new reading of one row), so two requests reach
every pairwise race, and two variants every deadlock ring of checkouts. Stock of
1 and 2 with carts up to 2 meets equality, refusal and exhaustion. MaxInteger
= 3 stands for the range of a PostgreSQL integer and is reached by two
additions; CartIds, MaxSessions and MaxVersion only end runs that would go on
for ever, and each is large enough for the chain its property needs: two
sessions from one token are what double redemption takes, whether the token is a
login code or a session before, and two stored codes are a registration and a
login code of one user, or the codes of two users, one of whom takes over the
other's number. `FewCodes` only cuts behaviours short, and calls, users, numbers
and codes are alike in OtpAuth, so symmetry over them is sound for its safety
properties. OtpAuthProofs has no such bounds. Properties of the form `[]A => []B` are checked
over behaviours; A and B are state predicates, so B may fail after A has failed.
TokenLifetime needs a clock that is finer than the second, for the two
roundings, and that outlasts every token: three ticks give instants at, after
and before a whole second. Its workers and Redis read one clock; clocks that
differ would widen the second by their difference. Requests at the gate change
nothing that another one reads, so one of them is enough, while two logouts of
one token do meet. Two processes of one connection each are the smallest pools
that can be full while a row is locked across processes; the third request is
the one that waits. One sample product stands for thirty: an administrator may
take its slug before, between or behind the inserts of a start, and the proofs
are about any number. Two starts are enough for every ring of two; rings of
more are excluded by proof.

No run switches deadlock checking off: the systems always accept another request
or end one.

### Fairness

* Checkout: each awaited call is answered (weak fairness of asking for a row and
  of COMMIT). PostgreSQL queues the waiters of a row lock, hence strong fairness
  of the grant. Its deadlock detector runs whenever a wait lasts (weak
  fairness). New requests and failures have none. The grant and the refusal are
  one fair action because the code has no choice between them.
* ConnectionPool: what a request awaits inside `checkout()` is as in Checkout:
  row locks are granted in turn and deadlocks are broken, hence strong fairness
  of its steps together. A wait for the pool has no turn (`asyncio.Queue` lets a
  newcomer overtake) but ends: with a connection, or with the error of
  pool_timeout, hence weak fairness of leaving the pool. Arrivals and failures
  have none.
* CachedRead: Redis expires every entry (all are stored with EX), and a reader
  that has run its handler stores. Nothing else is fair; `MaxVersion` makes the
  changes end, without which "no outdated response from some time on" would not
  be a claim about expiry.

## 4. Disagreements found

1. **Overselling** (`services/ecommerce.py:250`). `db.get(...,
   with_for_update=True)` locks the row but leaves the stock `get_cart()` loaded
   into the session as it was. Two checkouts of the last unit both succeed and
   the later COMMIT overwrites the stock. `README.md:3` promises
   "inventory-aware order creation".
2. **Guest checkout** (`endpoints/ecommerce.py:161-162`). `README.md:60-61`
   documents a checkout with a session token; the code orders user 1's cart.
3. **Outdated responses** (`app/cache/cache.py:83`). Keys are deleted before the
   change, so a reader may restore what it read before.
   `app/cache/cache-doc.md:170` says all caches are cleared "for each data
   change". The run has decorated writers only. Others do not even try:
   `set_user_activation()` (`services/ecommerce.py:339-347`), `update_multi()`
   (`endpoints/utils.py:76-104`), the OTP registration and `create_super_admin()`
   change cached user rows without `invalidate()` and leave what is cached
   outdated without any overlap. `NoneStaleWithoutCause` names these causes.
4. **Nobody passes the gate** (`app/app/api/deps.py:179`). `current_user.id_`
   does not exist (the column is `id`, `models/user.py:25`), so an entitled user
   gets an error; `app/tests/api/api_v1/test_auth.py:51` asserts 200.

Others are visible in the source. Properties that hold bound most of them, so
they have no run of their own:

* **Two carts** (`services/ecommerce.py:188`). `scalar_one_or_none()` expects one
  cart per owner; two overlapping first calls create two, and from then on every
  cart call of that owner fails. `ExactUnlessOverlapping` says that overlap is the
  only way.
* **Codes and refresh tokens used twice** (`services/ecommerce.py:129` and
  `:160`). The check of `is_used` and its update are separate statements.
  `SingleUseUnlessShared` says that two calls past the check of one token together
  are the only way, and `UsesWithinCalls` that such a token yields no more
  sessions than there are calls in progress together.
* **A former number's login code** (`services/ecommerce.py:134`).
  `login_with_otp()` does not compare the number as `register_user()` does
  (`:78`), so a login code sent to a number its user has given up still logs in.
  `OldNumberCannotRegister` is about registration only.
* **Reactivation** (`services/ecommerce.py:87`). A registration code requested
  while an account was inactive activates it later, whoever deactivated it in
  between; `AccountsAreProven` asks for a proof at any time.
* **Completed, then paid** (`endpoints/ecommerce.py:198`). A success webhook that
  comes late sets a completed order back to paid. `OrderMovesForward` says that
  nothing else does and that the tracking code stays.
* **Usernames repeat** (`services/auth.py:13`). `get_by_username()` expects at
  most one user of a name and raises for two, yet nothing but a look-up before
  the insert keeps names apart. `UniqueIfInTurn` names the ways they come to
  repeat: two registrations at once, an update that gives a name, and a phone
  number that OTP registration uses as a name.
* **The last second after logout** (`services/auth.py:55`). The blacklist entry
  lives for the remaining time truncated to whole seconds, so a token may get in
  after its logout during less than a second (`LateOnlyInLastSecond`); in that
  second logout itself asks Redis for an expiry of zero and fails.
* **Refresh tokens** (`app/app/core/security.py:31`). `encode()` gives every
  token the lifetime of an access token; `refresh_token_expire` is never read,
  while `docs/jwt_auth.md:9` sends the refresh token when the access token has
  expired. TokenLifetime has one `Expiry` for both kinds.

## 5. Proofs

TLAPS checks all of them, with Z3, Zenon and LS4.

`CheckoutProofs`, on Checkout, for any set of requests, variants and carts and any initial stock, under `CheckoutAssumption`
(quantities are naturals; the null values are not members):

* `TypeCorrect`: TypeOK is inductive on its own.
* `Invariance`: `CheckoutInv` is inductive. It joins TypeOK, LocksMatchSessions,
  ReadLevelsPlausible and the bounds on the shelf (StockNotNegative,
  NoUnitVanishes, and no more than the initial stock). The argument: the stock a
  session read was on the shelf once, so it is at most the initial stock and
  short of it by no more than what is sold, and both facts survive other
  sessions' commits because sold units only grow. LocksMatchSessions is needed
  to know that the decrements in memory are exactly the session's lines.
  StockNotNegative is not inductive without the bounds on what sessions hold.
* `NeverNegative`, `NothingVanishes`, `WritesNeedLock` follow.
* `ImplementsLooseLedger`: every step is a LooseOrder of Inventory or leaves it.
* `ExactWhenDisjoint` and `ImplementsExactLedger`: if open sessions never share
  a variant, every level a session read is still current (`ExactInv`), so
  the books balance and the exact ledger is implemented. The hypothesis is the
  temporal formula `[]DisjointCarts`. One checkout at a time is a special case,
  so the exact ledger has no run of its own.

`RequestGateProofs`, on TokenLifetime, for any logins, requests, logouts,
lifetimes, clock bound and fineness of the second, under
`TokenLifetimeAssumption`:

* `Invariance`: `LifetimeInv` is inductive. Besides TypeOK and the two properties
  it says that a SET in flight covers its token however late it is executed
  (`PendingCovers`: now plus the seconds it carries is less than a second short,
  and time only moves on), and that a request which began after a logout finds
  the token's text stored (`LateIsStored`).
* `BlacklistCovers`, `LateIsBounded` follow.

`UserTableProofs`, for any calls, names, inputs and number of rows, under
`UserTableAssumption`:

* `TypeCorrect`: TypeOK is inductive on its own.
* `StaysRemoved`, `OnlyAsAsked`, `StaysDeactivated`: action properties from one
  lemma (`WrittenColumn`), that a column after COMMIT is the committed one or the
  one the call changed against what it had loaded.
* `UniqueInTurn`: with `LookedUpFree` (nobody has a name that a call in progress
  looked up and did not find) uniqueness is inductive while `NamesInTurn` holds.

`CheckoutProofs`, on ConnectionPool, for any requests, processes, pool size and
bound on orders, under `ConnectionPoolAssumption`:

* `PoolNeverNegative`: every step of the pool is a step of Checkout or leaves its
  variables alone (the lemma `PoolImplementsCheckout`), so the theorems about
  Checkout hold with pools and retries too.
* `PoolInvariance`: PoolTypeOK and OneOrderUnlessAnswerLost are inductive with
  `RoomForOrder`, that a request which may still commit leaves room for one order
  more. `LocksAndPoolApart` joins it with CheckoutInv: locks belong to open
  sessions, and open sessions are inside.

`OrderPaymentProofs`, for any calls, statuses of the provider and tracking codes,
under `OrderPaymentAssumption`:

* `Invariance`: `OrderInv` is inductive. SucceededLeavesPending needs `SawItLeave`:
  a session may skip writing "paid" only if it loaded "paid", and an order that
  was seen past "pending" stays there (`NeverBack`). LastWordCounts needs
  `AloneAndCurrent`: a call that never met another has loaded what is committed;
  and `SawItTracked`: a session that loaded a completed order loaded its tracking
  code, which stays (`TrackingStays`). `SucceededIsSeen` and `LastWord` follow.
* `MovesForward`: the action property, from NeverBack and the type of the codes.
* `DuplicatesDoNoHarm`: under the temporal hypothesis `[]OnlySuccesses` the two rows
  agree, and what sessions loaded of them is still so (`Agree`).

`RequestGateProofs`, on RequestGate, for any users, logins, requests, logouts
and lifetimes, under `RequestGateAssumption`:

* `GateBlacklistCovers` and `GateLateIsBounded` follow from the theorems about
  TokenLifetime (lemma `GateImplementsTokenLifetime`).
* `GateInvariance`: `Bracketed` says of a request that waits that "entitled all
  along" implies "entitled now" and that implies "entitled once". `VerdictsFit`
  follows.

`SeedingProofs`, for any calls, names, slugs and number of sample products, under
`SeedingAssumption`:

* `SeedingUniqueInTurn` follows from UserTableProofs (lemma
  `SeedingImplementsUserTable`).
* `SeedingTypeCorrect`: the types of both tables, and that no call is busy at
  both at once (`Apart`): a start creates the super admin in one transaction and
  seeds in the next.
* `CatalogueInvariance`: `Progress` says how far each transaction is: a start
  before its first insert; a start behind it, which holds the brand and still
  inserts what is missing; an administrator before the one insert; anybody at
  COMMIT. `SeededAsAWhole` follows. So does `NoRingOfWaits`: whoever holds a slug
  and still waits holds the brand, which only one transaction can.

`CartProofs`, for any calls, owners, variants, quantities and number of carts,
under `CartAssumption`:

* `Invariance`: `CartInv` is inductive. LinesWithinAcked alone is not: a call
  writes a sum computed from an outdated reading. `CallsInOrder` says that what a
  call has read is at most what is acknowledged now, which only grows;
  `WorksOnOwnCart` says that its cart is committed and its owner's, or uncommitted
  and known to no other call. `TypeCorrect`, `NeverMoreThanAcked` and the action
  property `OwnLineOnly` follow.
* `ExactWithoutOverlap`: while no owner has two calls in progress, carts are told
  apart by their owners and every reading is current (`ExactInv`, `CartsApart`).
  Its hypothesis `OwnersApart` says that no cart of one owner is found for
  another. Guests, of whom the token is all there is, satisfy it, and the routes
  serve guests only (section 1); one user who came with two tokens would not.
  `MCCart` evaluates it for its owners (`GuestsAreApart`).
* `GuestsOrderNothing` is the general form of finding 2: as long as all owners are
  guests no order ever holds a line, whatever their carts hold. The lemma
  `StoreImplementsCart` brings the theorems about Cart behind the endpoints.

`OtpAuthProofs`, for any calls, users, numbers, codes and number of sessions, under
`OtpAuthAssumption` (the seeded users are users, the null value is nothing else):

* `TablesOnlyGrow`: no commit removes a user, a code, a session or the mark of a
  spent token. No call holds a lock, so this is what makes an old reading worth
  anything: what a call has checked (`InOrder`) still holds when it commits.
* `Invariance`: `OtpInv` is inductive: TypeOK, `InOrder`, `NoGaps` (sessions are
  numbered one after the other), and AccountsAreProven, UsersHaveCodes and
  SessionsHaveSource themselves, which `OnlyProvenAccounts`, `NoUserWithoutCode`
  and `SessionsStemFromLogins` take from it.
* `NumberIsCompared`: what `InOrder` knows of a call that has compared the number.
* `SingleUseInTurn`: for a token that no two calls were past the check of
  together, what one call has checked to be unused is unused (`SpentInTurn`).
* `UsesAreBounded`: UsesWithinCalls adds the sessions a token has yielded and the
  calls that are past its check: a commit moves one from the second to the first,
  and nobody passes the check of a spent token. Assumes finitely many calls.

`CachedReadProofs`, for any readers, writers, keys and number of changes, under
`CachedReadAssumption`:

* `Invariance`: `CacheInv` is inductive. NoneStaleWithoutCause alone is not: it
  needs `ReadersKnown`, that a reader which holds outdated data, or is under way
  while a writer is at work, has overlapped; and `WritersKnow`, that a writer which
  has listed the keys knows all that hold a response and one that has deleted them
  leaves none, but for the doubtful. `OutdatedForCause` follows.

Only model-checked: EveryCheckoutEnds, EveryRequestAnswered and EventuallyFresh,
since liveness under fairness and ENABLED are beyond TLAPS. Every other property of
a passing run is a theorem. The violations are TLC's counterexamples.

## 6. Plan

Done: Inventory, Checkout, ConnectionPool, Cart, Storefront, OrderPayment,
OtpAuth, CachedRead, TokenLifetime, RequestGate, UserTable, Catalogue, Seeding,
and proofs of all the safety properties their runs check.

1. `Shop`: Cart and OrderPayment composed with ConnectionPool over shared tables.
   What it could violate is covered by the parts: carts and orders share no row
   that two of them write.

## 7. Not modelled

Prices, addresses, wording and message codes, JSON encoding, logging, health
probes, settings, migrations: pure data or pure I/O. `create_multi()` and
`update_multi()` have one caller each (`endpoints/utils.py`), which creates users
without a phone number, refused by NOT NULL, and updates `full_name` only; what
the latter means for the cache is in CachedRead (`ChangeUndecorated`).
`check_user_role()` is never reached (section 1).
`set_product_activation()` is one unconditional write that only the listing
reads. Cache keys are a pure function of the request; which arguments tell two
apart is not a matter of order or failure. Router assembly is static: the shop's
router shadows `/auth/login` and `/auth/register` of the older one, so the tokens of
TokenLifetime come from the OTP login, which issues them with the same `encode()`.
The Celery part is one echo task (its worker listens to `main-queue` only,
while `send_task` uses the default queue). Product listing and order listing
are single reads.
