# NovaTech Store in TLA+

A model of the NovaTech Store backend (`src/backend/app`): a FastAPI service over
PostgreSQL (accounts, wallets, products, carts, orders), Redis (sessions, pending
registrations, counters) and an RQ queue for mail. TLC checks the model on small
instances; TLAPS proves every safety invariant and action property that the passing runs
check, and the refinement of the abstract shop, for every instance.

`SECURITY.md:40` states the acceptance criterion the core is about: *"Concurrent checkout
cannot create negative stock/balance and cannot double-charge one idempotency key."*

## 1. The system

| part | code | state | operations |
|---|---|---|
| rows and transactions | `models.py`, `db.py`, `dependencies.py` | users, products, carts, cart_items, orders, order_items; one READ COMMITTED transaction per session | `get_db`, `require_user`, row locks, commit, rollback |
| checkout | `services/checkout.py`, `routers/checkout.py` | wallet, stock, order under an Idempotency-Key, cart | `checkout` |
| cart | `routers/cart.py` | carts, items | `add_to_cart`, `update_item`, `delete_item`, `clear_cart`, `get_cart` |
| administration | `routers/admin.py` | wallets, products, images | `add_balance`, `create_product`, `update_product`, `update_main_image`, `delete_product` |
| sessions | `services/sessions.py`, `dependencies.py`, `routers/auth.py` | `session:<hash>` and `user-sessions:<id>` with their TTLs | login, `read_session`, `revoke_user_sessions`, logout |
| profile | `routers/profile.py` | username, password_hash, is_active | `update_username`, `change_password`, `delete_profile` |
| registration | `services/otp.py`, `routers/auth.py` | `registration:<email>` with its TTL, attempts, cooldown | register, resend, verify |
| mail | `services/email_jobs.py`, `worker.py` | the queue | `send_otp_email` |
| rate limit | `services/rate_limit.py` | `rate:<bucket>:...` counters | `enforce_rate_limit` |
| CSRF | `services/csrf.py`, `frontend/app.js` | a cookie and the token the page keeps | `create_csrf_token`, `enforce_csrf` |
| connection pool | `db.py` | 5 + 5 connections | checkout and return of a connection |
| catalog import | `import_products.py`, `render.yaml` | products | upsert of the seed at each deployment |
| object storage | `services/storage.py` | a bucket of images | `upload_product_image` |
| schemas | `schemas.py` | none | ranges, patterns, `finite_decimal` |
| command line | `cli.py` | users | `create_admin` |
| application | `main.py`, `config.py` | settings | the middleware, `/api/auth/csrf`, static files |
| the rest | `products.py`, `security.py`, the page, migrations | | listing, hashing, rendering, the schema |

How they meet. A request passes the CSRF check, then `require_user` reads the session in
Redis and the account in PostgreSQL, then the handler runs; requests share nothing but the
rows and the Redis keys. Everything between two `await`s is one step; what another request
does between them is what the models are about.

What is hard, and what makes each part correct:

* checkout, cart, administration: every handler writes *absolute values* computed from ORM
  copies. Only the order in which rows are locked and read keeps a charge, a sale or a wallet
  top-up from being lost, and only a common order keeps them from deadlocking. No money or
  unit of stock may appear or vanish, a key may be charged once, the cart bought is the cart
  that was there.
* sessions: a revocation is four Redis commands after a commit, while other requests use,
  renew and create sessions. A session that was ended must stay ended.
* registration: GET, TTL, SET and DELETE are separate commands, and the account is inserted
  after the record was deleted. An account must be the one whose code was mailed, and single.
* rate limit: INCR and EXPIRE are two commands. A counter that lost its EXPIRE must not lock a
  customer out for good, and no more than the limit of two windows may pass in one.
* CSRF: every tab keeps a token in memory, all share one cookie. A page that is alone must not
  be refused.
* connection pool: a checkout holds a connection while it waits for a second. Ten of them stop
  the server; the pool's timeout must end that, and an error must not hide a charge.
* catalogue: the import runs in another process from unlocked reads; uploads last for seconds
  inside a transaction. A product must not list an image that is not there, lose a column to a
  stale copy, or be half imported.

The full list of hazards, each at its line, is in `PROJECT.json`.

## 2. The modules

```
RowLocks --> Database --> Checkout ----\
                     \--> CartOps ------> Store --> MCStore                        (TLC)
                     \--> BackOffice --/    |  \--> StoreProofs --> StoreClaims    (TLAPS)
             Shop  <-- refinement ----------/
Csrf, RateLimit --> Gate --> MCGate                      \--> GateProofs
ConnectionPool  ------------> MCConnectionPool           \--> PoolProofs
Sessions  ------------------> MCSessions                 \--> SessionProofs
Registration  --------------> MCRegistration             \--> RegistrationProofs
Money --> Catalog ----------> MCCatalog                  \--> CatalogProofs
                Sums --> StoreClaims, PoolProofs, GateProofs
```

**RowLocks** is PostgreSQL's conflict table for the three row locks in use (external).

**Database** has the rows as functions: `balance`, `active`, `price`, `stock`, `listed`
(the product row exists), `carts` (users who own one), `item[u][p]` (0 is no row),
`orders[u][k]`. A request is a member of `Txns`: `pc[t]` is where its handler is, `req[t]`
what was asked, `reply[t]` the kind of answer, `held` the row locks, `todo[t]` rows a
statement has listed and not locked yet, `orm[t]` the session's copies. `funded`, `spent`,
`stocked`, `sold` are history: they are only written, never read by an action.
`Receive` is `require_user` up to the handler's body; `Rollback` every exception; `Crash` the
death of a worker, after which PostgreSQL rolls back. `First` gives the rows of a statement in
the order of its `ORDER BY`, or of the ids in which the ORM writes. A reply that is lost after
the commit needs no action: the client's retry is another request with the same key.

**Checkout**, **CartOps**, **BackOffice** have one action per statement that reads, locks or
writes, named after what it does (`CheckoutLockUser`, `CheckoutListItems`, ...), so a `FOR
UPDATE` over several rows locks them one at a time, in the order of its `ORDER BY`, and a row
deleted while the statement waits is skipped, as READ COMMITTED does. Writes are installed by
the last action, which is the commit. `...Asks` says which locks a request waits for. The seed
import is one of BackOffice's operations: unlocked reads one by one, then UPDATEs and INSERTs
one by one in the order of the ids, each with its lock, then the commit.

**Store** composes them, adds the deadlock detector (`DeadlockAbort`) and states the
properties. **Shop** is the abstract specification: each request takes effect at once or not
at all, with no locks and no steps. `Store` instantiates it (`Abstract`): the shop's variables
are the committed rows, and a commit is the shop's action.

**Sessions** and **Registration** have one action per Redis command, MULTI, or SQL statement
with its commit, a clock in seconds, keys that expire by comparison with it, and
(in Registration) the mail queue as a set, delivered in any order or failing for good. A
session is named after the login that created it; a code after the request that made it.
Registration also has the two other ways a name or an address is taken: `create_admin` on the
command line and `update_username`. An account records who opened it, with which code, and
which request named it last.

**Catalog** is the product table from the administrator's side: `row` with price, rating and
images, `nextId` the sequence of `products.id`, `bucket` the stored objects, `orm` the rows a
transaction has read. Creations, edits, image uploads, deletions and seed imports interleave;
no product is in a cart or an order there. **Money** is `Decimal.quantize` (half to even) on
thousandths, next to what rounding has to be (`IsRounded`).

**ConnectionPool** counts the connections each request's sessions hold: one with the first
statement, given back at a commit or when `get_db` closes the session, a second one for the
checkout's own session, one again for what a handler reads after its commit (kind "refresh":
admin.py:76, 94, 106, profile.py:42, auth.py:125, cart.py:113). The rows are one row.

**Csrf** is one browser: `life` of the shared cookie, `memory` the token each tab keeps, `at`
the steps of a click through `ensureCsrf` and `request`. **RateLimit** is one counter in Redis
with its TTL, INCR with TTL as one step, EXPIRE as another. **Gate** composes them as
`security_middleware` and the handlers of `auth.py` do: a click passes the check, then is
counted.

The modules named `...Proofs`, **StoreClaims** and **Sums** hold theorems only (section 4); each
extends the module it is about. Sums has what they need to know of sums over finite sets.

Definitions under a comment `Wrong on purpose` are variants with a plausible bug. No action
uses them; `PROJECT.json` ("mutants") says which definition each replaces and which property
then fails, for every property of every passing run.

### What is abstracted

* A cart item is named by user and product, so two rows that replace each other (delete, add
  again) are one; users are found by name in `add_balance` and by id elsewhere, here always by
  identity. Roles do not change and are left out; `admin_login` is `login` plus TOTP.
* An Idempotency-Key that is missing or over-long is `NoKey`; `remaining_balance`, names and
  timestamps of orders are left out; amounts are whole units, so `quantize` is exact.
* A CSRF token is its relation to the cookie, "cookie" or "old": only the last one set is
  accepted. Signature and origin are left out: every request is the page's own. Sending a
  request and checking it is one step.
* Catalog takes all reads of an import as one step and all its writes as another: what it does
  to a row depends on that row's read alone. Store has them one by one. An UPDATE whose row is
  gone is noticed (`StaleDataError`) when it is a statement of its own and not when SQLAlchemy
  batches it with others of the same columns; in Catalog that depends on the neighbours, in
  Store either may happen.
* In Store every product of a seed is one the models start with, so the ids of created
  products, images and ratings are Catalog's.
* A PATCH of a product is its price and quantity, each sent or not. An explicit null, which the
  database refuses (409), is left out.
* PostgreSQL grants a free lock to any waiter, SQLAlchemy a free connection: the order of their
  wait queues is not modelled. The pool is a module of its own and unbounded in Store. The
  CHECK constraints are not guards: `TypeOK` shows that no commit would hit one. `MaxMoney` is
  the limit of `NUMERIC(12,2)`.
* `issued_at` and `last_sent_at` are taken in the same step as the command they go with. Codes
  and tokens never collide. `create_session` at the end of `verify_otp` is left to Sessions.
* The page, and a client's own timeouts, appear as the requests that may come at any time.

### The session every handler shares

`require_user` runs a SELECT on the session `get_db` gave it, which begins a transaction;
FastAPI gives the handler the same session, and its `async with db.begin()` then raises. Only
`run_checkout` asks for another one (`use_cache=False`). The constant `OwnSession` is the set
of operations whose handler has its own: `{"checkout"}` is the code as written (run
`as_written`), and all of `BlockOps` is the code with the same `use_cache=False` everywhere,
which the other runs use, as otherwise `add`, `set` and `credit` never do anything. A request
answered `session_error` changes no row and holds no lock, so those runs include every
behaviour of the code as written, but for that answer. The theorems hold for every
`OwnSession`.

## 3. The runs

| run | question | bounds |
|---|---|---|
| `wallet` | does money stay right under retries, top-ups, edits, imports, account closing, crashes, and does nobody wait in a circle? | 3 requests of 13, 2 users with the same 2 products, 2 keys, money up to 9 (110,000 states) |
| `cart` | is exactly the cart bought, do additions add, does no reference dangle, is every request atomic (`Shop`)? | 3 of 17, 2 users, 2 products (163,000) |
| `progress` | is every request answered although others do deadlock? | 3 of 8, 1 user, 2 products, fairness (84,000) |
| `sessions` | does what was ended stay ended? | 3 requests, 1 user, 2 sessions and logins, idle 2 s, absolute 3 s, clock 2..4 (0.9 million) |
| `registration` | is the account the one that was proven, and single? | 4 requests, 2 addresses, 2 names, TTL 2, cooldown 1, 1 attempt, clock 0..2 (1.3 million) |
| `products` | can the catalogue be changed from several sides and imported meanwhile? | 3 of 13 requests, 4 ids of which the seed has 2, a price the column cannot hold, ties to both sides (462,000) |
| `pool` | what happens when connections run out? | 3 checkouts, a handler that reads again after its commit and a plain one over 2 connections, fairness |
| `gate` | what keeps a customer out before the handler? | 2 tabs, 3 clicks in flight, any number of requests, limit 2, window and token life 2 s, 1 crash |
| `as_written`, `rehash`, `resent_code`, `sequence` | the findings, section 6 | |

In `wallet`, `cart` and `progress` every choice of the scenario's requests, with repetitions,
is explored in every interleaving: a transaction chooses any of them. Three are enough for the
hazards listed: a lost update needs two writers, a stale read two and a third that makes it
matter, a wait cycle of two or three; a retry is a second request with the same key, and the
third is what comes in between. Two products make lock order and partial carts visible; the
second user's missing cart makes its creation race. Balance 5 with unit price 2 (or 3 after an
edit) and a cap of 9 makes each of "enough", "not enough" and "overflow" happen; stock 3
likewise. In `sessions` the clock starts one second before the absolute limit of the sessions
at hand and ends one after it, with the idle limit between, so expiry of a session, of its
index and renewal all happen. In `products` two ids are the seed's and two are free, and the
sequence starts at any of them, so that a creation can meet a seed id, a free one, or one freed
by a deletion. Two connections and three checkouts are the smallest pool that checkouts alone
can exhaust with one left over. In `gate` a limit of two and a window of two seconds let a
window begin before, with, and after its EXPIRE; calls and clicks repeat without bound, `count`
is kept at `Limit + 2` where it makes no difference. `registration` needs four: two
registrations of one name or address, and the verification of each. There only `verify` may
crash: a register or resend that dies before its SET is one that never came, and after it one
whose mail failed.

`wallet`, `cart`, `sessions`, `products` and `registration` use symmetry over the requests in
flight: which of them asks for what is free, and no property or definition tells them apart.
They check no liveness.

What the properties say:

* `NoLostUpdate`: wallet + spent = funded and stock + sold = put on sale, always; the quantity
  an edit or an import writes counts as put on sale.
* `LedgerMatchesOrders`: spent and sold are what the orders add up to; no double charge.
* `RetryGetsItsOrder`: under a key that was charged nobody is told that the cart is empty, the
  stock or the money gone, or gets the error of the unique index.
* `ClosedAccountPaysNothing`: the account is looked at again once its row is locked.
* `OrderIsTheCart`, `AdditionAdds`: see `Store.tla`. `OrderIsTheCart` rests on the cart row
  being locked before its items are listed: an INSERT's foreign key waits for it.
* `ImplementsShop`: every step of the store is one step of the shop or none.
* `NoDanglingReference`, `NoProductGone`: a deletion overlaps no reference; the 409 of
  `checkout.py:79` is unreachable.
* `NoWaitCycle`: holds for checkouts, top-ups, edits, imports and closings. It does *not* hold
  with `add_to_cart`, `update_item`, `clear_cart` or `delete_product`, which lock in other
  orders; `EveryRequestAnswered` says that PostgreSQL's abort is then enough.
* `RevokedForGood`: with two exceptions that are needed (TLC violates it without): sessions not
  in the index when the request came because another revocation was running, and the second in
  which a session reaches its absolute age.
* `ClosedIsRefused`, `GoneStaysGone`, `AccountIsProven`, `OneAccountEach`: see the modules.
* `ImageListedIsStored`, `CreationAddsARow`, `ColumnsKeptApart`, `PriceIsTheOneSent`: what the
  overlapping changes of a product must not do to each other; an import may write any column.
  `ImportIsComplete` says what it leaves, exactly: the seed in every column it found different,
  and what changes of the other columns were committed meanwhile. A product deleted meanwhile
  is the exception that is needed.
* `StallTakesAPoolOfCheckouts`: nothing but checkouts, and as many as there are connections,
  brings the server to a standstill. `ErrorMeansUnchanged` excepts the handlers that read again
  after their commit (a `db.refresh`, or the cart in `delete_item`); the checkout is not one of
  them.
* `TwiceTheLimitAtMost`: the limit itself does not hold over any `Window` seconds, as windows
  are fixed; twice the limit does, with late and repeated EXPIREs too. `LockoutEnds`: the
  counter heals.
* `AloneIsNotRefused`: a 403 means expiry, overlapping fetches, or a second tab.

**Deadlock.** TLC's deadlock check is on in the safety runs of `Store`, whose only
terminal states are those where every request was answered (`AllDone`). It is off in
`progress`, where the system stops when all is done and the property covers a request that
stops earlier, likewise in `pool`, in the runs with a clock that stops at `MaxTime`, and in
`products`, which stops when every request is answered.

**Fairness.** `progress` (`FairSpec` of Store): weak fairness of each request's next step,
as a coroutine that can go on is scheduled and a lock waiter is woken when its lock is free,
and of `DeadlockAbort`, as PostgreSQL looks for a cycle after `deadlock_timeout`. Nothing is
assumed about requests coming. Weak fairness is enough because each request runs once; with an
endless stream of competitors a waiter would need the lock's queue, which is not modelled.
No worker crashes in that run: a crash is an answer too.
`pool` (`FairSpec` of ConnectionPool): weak fairness of each request's work, the timer of
`pool_timeout` included; again requests need not come. `gate`: the clock goes on and a call
that has begun goes on; customers need not do anything. `LockoutEnds` says itself that
requests keep coming, as the code heals a counter only when it is asked again, and crashes are
bounded by `MaxCrashes`: a worker that died at every EXPIRE would never set one.

## 4. What is proved

Every theorem is about the whole `Spec` of its component and holds for every value of the
constants, from the named assumptions in the component's module and nothing else.

| module | theorem | states |
|---|---|---|
| StoreProofs | `TypeCorrect` | `[]TypeOK`: balances and stocks never go below zero |
| | `NothingIsLost` | `[]NoLostUpdate` |
| | `NobodyPaysWhenClosed` | `ClosedAccountPaysNothing` |
| StoreClaims | `NothingDangles`, `NoneIsGone` | `[]NoDanglingReference`, `[]NoProductGone` |
| | `BooksAgree` | `[]LedgerMatchesOrders` |
| | `RetriesAreAnswered` | `RetryGetsItsOrder` |
| | `OrdersAreCarts`, `AdditionsAdd` | `OrderIsTheCart`, `AdditionAdds` |
| | `StoreIsAShop` | `ImplementsShop`: the refinement |
| | `NobodyWaitsInACircle` | `[]NoWaitCycle` |
| SessionProofs | `TypesHold` | `[]TypeOK` |
| | `RevocationsHold` | `[]RevokedForGood` |
| | `ClosedStaysClosed`, `GoneIsGone` | `[]ClosedIsRefused`, `GoneStaysGone` |
| RegistrationProofs | `TypesHold` | `[]TypeOK` |
| | `AccountsAreProven`, `AccountsAreUnique` | `[]AccountIsProven`, `[]OneAccountEach` |
| CatalogProofs | `TypesHold`, `ImagesAreStored` | `[]TypeOK`, `[]ImageListedIsStored` |
| | `CreationsAddARow`, `ColumnsStayApart` | `CreationAddsARow`, `ColumnsKeptApart` |
| | `PricesAreTheOnesSent` | `PriceIsTheOneSent` |
| | `ImportsAreComplete` | `ImportIsComplete` |
| PoolProofs | `TypesHold`, `ErrorsChangeNothing` | `[]TypeOK`, `[]ErrorMeansUnchanged` |
| | `OnlyCheckoutsStall` | `[]StallTakesAPoolOfCheckouts` |
| GateProofs | `TypesHold`, `LimitHolds` | `[]TypeOK`, `[]TwiceTheLimitAtMost` |
| | `AloneIsAdmitted` | `AloneIsNotRefused` |

**The store's rows** (StoreProofs). `NoLostUpdate` is not inductive: a commit writes
`orm.bal - total`, so the copy must be the committed value. The invariant `IInv` says why it is:
two transactions never hold conflicting locks (`LocksOK`); a checkout past its first statement,
and a top-up, holds the user's row and its copy is the wallet (`UserOK`), for an active account
(`AccountOK`); a product whose price was read is locked and its copy is the stock
(`ProductsOK`); a line the loop has passed was in stock (`LinesOK`). Each action is proved in
three parts: what it does to its own request, that it writes no row locked by another
(`Respects`), and that another request therefore keeps its invariant (`OthersKeep`). The edit of
a product, which reads without a lock, needs no copy of its own: it writes a value given by the
administrator, not one computed from what it read. The import is like it.

**What a handler may rely on** (StoreClaims). `JInv` adds to `IInv`, for every handler and every
place in it (`StageOK`), what it has read and which lock keeps that true: the lines of a checkout
are the cart's, since the cart's row is locked against insertions and each item against changes
(`CartOK`); its prices are current (`PricesOK`); its total is the sum of the lines it has passed
(`BillOK`); an addition knows the stock and the item, or that the item is gone (`AddOK`); a
deletion that is to commit holds the product's row, so that nobody adds a reference to it
(`BackOfficeOK`). It also has `NoDanglingReference`, `NoProductGone` and the books themselves: a
checkout enters its order's total and lines under a key that had none (`OrderEntered`), so each
sum grows by what was charged or sold. With `JInv` every commit is, field by field, the shop's
action on the same values, and everything else is a stutter (`CheckoutImplements`,
`CartImplements`, `BackOfficeImplements`): that is `StoreIsAShop`. The action properties follow
from the same facts at the step that writes.

**Nobody waits in a circle** (the end of StoreClaims). `OrderOK` says that top-ups, edits and
closings hold nothing while they ask for something, that a checkout holds its customer's rows and
products smaller than those it still wants, and that an import holds products it has come past in
its order, UPDATEs before INSERTs. `Ahead`: who holds a product that another waits for, and waits
himself, waits for a later one. So in a circle nobody is still at his customer's rows; take the
smallest product that is waited for, of the UPDATEs if there are any: its waiter holds a product
that another one of the circle waits for, and that one comes before it (`NoCircle`). The import's
order and a checkout's agree as an INSERT is of a product that is not there: no checkout holds it.

**Sums** over finite sets are folds, so a property of all of them needs induction, and an
induction theorem with an operator parameter is out of the provers' reach. The lemmas are proved
from a smallest counterexample instead: `Smallest`, from the library's well-founded order on Nat
and the cardinalities of finite sets, gives a subset none of whose proper subsets is one. The
table that the fold computes is shown to exist the same way (`IteratesExists`).

**Sessions.** `RevokedForGood` needs to know what a revocation that has not come to its DELETE
will delete. A session it is to end is either `Spent`, that is dead or past its absolute age,
which is for good, or still in the index, and then on the list of each revocation that has made
one (`Listed`). The index outlives its sessions (`IndexOK`), so that its expiry hides none. A
request that came after the closing (`late`) is on a path that ends in a refusal (`Barred`).

**Registration.** A code is made by one request for one address and one registration. `Said` is
every triple of these that is stored, carried by a handler, queued or delivered; each was said by
the request that made it (`Genuine`), and a code says one thing only. A verification that was
let through compared a code that is in somebody's inbox with the record it has in hand, so the
account it opens is that registration's. Uniqueness comes from the indexes at the INSERT and at
the renaming.

**Catalogue.** Ids that creations have taken from the sequence and not yet inserted are below
`nextId`, each held by one, with nothing listed under them; the exclusion of an import's INSERT by
the held id is what `CreationsAddARow` rests on. `WriterIs` says, for a row that changed, who
changed it and how: the four action properties are read off it. `CentsAreRounded` proves
`Decimal.quantize` for every number of thousandths.

**Pool and gate.** `Holds` gives the connections of a request by where it is; the free ones are
the size less their sum, and when none is free and nobody can go on, each of them is held by a
checkout that waits for another. The counter of the rate limit is in one of its lives, which
began at most `k` seconds ago; what came through before that belongs to one life at most
(`Split`), so any window meets two lives at most, each within the limit. A browser in which no
fetches overlapped has one token, in the cookie and in the memory of the tabs that send it
(`Alone`).

**Assumptions.** Product ids are positive numbers, the requests are in `RequestSpace`, the start
values are legal and the limits numbers, as in the code. Some are needed by proofs alone: tables
are finite, and so are the requests of a process (`FiniteAssumption` of Database,
`RequestsAssumption` of ConnectionPool), without which a sum means nothing; passwords at the start
are passwords and the clock does not start after its end (Sessions); the wrong guess and the
absent code of a command-line account are not mailed codes (Registration); the column's limit is
a number (Catalog). TLC evaluates them in every run of these modules.

**Only model-checked.** Liveness under fairness is out of the prover's reach:
`EveryRequestAnswered` of the store and of the pool, and `LockoutEnds`. The four properties of
section 6 are false. Everything else that the runs check is proved, with `OwnSession` and
`Crashable` arbitrary.

## 5. Not modelled

* Product listing (`products.py`), `get_cart`, `cart_payload`, `me`, `wallet`, the statistics
  and the user list only read one snapshot each and format it.
* Password hashing, TOTP, digests and tokens (`security.py`) are cryptography: values that are
  equal or not. The SMTP dialogue and the decoding of images are I/O that succeeds or fails.
* Security headers, static files, host checks (`main.py`), settings (`config.py`) and
  `redis_client.py` have no state that changes. The migration runs once; its constraints are
  those of Database and Catalog.
* The page apart from its CSRF token: rendering and validation. What it sends are the requests
  of the models.
* Names, e-mail addresses and passwords are values; the patterns of their characters and the
  descriptive columns of a product are left out.

## 6. Findings

* `as_written` (`cart.py:52`): see "The session every handler shares": adding to the cart,
  changing a quantity and charging a wallet fail before they begin; the run shows the first.
  The tests never call these handlers.
* `rehash` (`auth.py:39`): a login that renews an outdated hash, overlapping a password
  change, puts the old password back.
* `resent_code` (`otp.py:64`): a resent code lives for what is left of the first one's
  TTL; the mail and the page say ten minutes.
* `sequence` (`admin.py:72`): the import gives the seed's ids by hand and does not advance the
  sequence, so after the README's own setup the first creations fail with a server error.

## 7. Plan

Every component is modelled as far as section 5 allows, and every safety property of the runs is
proved. What is left is to promise more:

1. an abstract specification of accounts, as Shop is one of the store: an address is proven, then
   owned by one account; and the proof that Registration implements it;
2. one of sessions: a session is alive until it is ended or expires, and never again; with the
   commands of a revocation as one step;
3. one of the pool: connections lent and returned; with the proof that ConnectionPool implements
   it.
